-------------------------- MODULE IdempotentAccept --------------------------
(***************************************************************************)
(* What POST /send-transactional promises: a key is accepted once, by one  *)
(* request; that request may be told "queued", the others are told         *)
(* "duplicate_ignored" after the acceptance, or get an error or no answer. *)
(***************************************************************************)
CONSTANTS Requests, NoRequest, Keys, KeyOf

VARIABLES acceptedBy,  \* the request whose job stands for the key, or NoRequest
          answer       \* what each client was told

Init == /\ acceptedBy = [k \in Keys |-> NoRequest]
        /\ answer = [r \in Requests |-> "none"]

Accept(r) ==
    /\ acceptedBy[KeyOf[r]] = NoRequest /\ answer[r] = "none"
    /\ acceptedBy' = [acceptedBy EXCEPT ![KeyOf[r]] = r]
    /\ UNCHANGED answer

Answer(r, a) ==
    /\ answer[r] = "none"
    /\ a = "queued" => acceptedBy[KeyOf[r]] = r
    /\ a = "duplicate_ignored" => acceptedBy[KeyOf[r]] \notin {NoRequest, r}
    /\ answer' = [answer EXCEPT ![r] = a]
    /\ UNCHANGED acceptedBy

Next == \E r \in Requests :
    Accept(r) \/ \E a \in {"queued", "duplicate_ignored", "error"} : Answer(r, a)

Spec == Init /\ [][Next]_<<acceptedBy, answer>>
=============================================================================

------------------------------- MODULE OptOut -------------------------------
(***************************************************************************)
(* Whom the worker may write to: evaluate_message_policy reads the         *)
(* suppression list and the consents in the middle of a run, while the     *)
(* webhook application records the replies of customers (STOP, START, ...) *)
(* that the provider delivers at least once, and the API records consents. *)
(***************************************************************************)
EXTENDS Naturals

CONSTANTS
    Phones, Workers,
    Replies,     \* inbound messages, by the provider's message id
    SenderOf,    \* from_number of a reply
    IntentOf,    \* classify_inbound_intent of its body
    Anonymous,   \* replies whose webhook carries no message id
    MaxRuns,     \* bound: runs of the workers
    MaxLosses    \* bound: deliveries whose answer is lost or that are misread, or both

Intents == {"stop", "help", "start", "complaint", "normal"}
Categories == {"otp", "other"}

ASSUME OptOutAssumption ==
    /\ SenderOf \in [Replies -> Phones] /\ IntentOf \in [Replies -> Intents]
    /\ Anonymous \subseteq Replies
    /\ MaxRuns \in Nat /\ MaxLosses \in Nat

VARIABLES
    suppressed,  \* phones on the suppression list, as spelled in the jobs, scope "global"
    consented,   \* phones with an active consent
    recorded,    \* replies with an InboundMessage row
    undelivered, \* replies the provider has no 200 for yet
    told,        \* the text that came back for a reply
    run,         \* where each worker is in its run
    lateBy,      \* history: messages a worker sent to a phone after its STOP
    misread,     \* history: replies the process was given and did not understand
    runs, losses

webhook == <<suppressed, recorded, undelivered, told, misread>>
policy == <<consented, run, lateBy, runs>>
vars == <<suppressed, consented, recorded, undelivered, told, run, lateBy, runs, misread, losses>>

Idle == [pc |-> "idle"]
Busy == [pc: {"started", "unsuppressed", "allowed"}, phone: Phones, category: Categories]
Runs == {Idle} \cup Busy

TypeOK ==
    /\ suppressed \subseteq Phones /\ consented \subseteq Phones
    /\ recorded \subseteq Replies /\ undelivered \subseteq Replies /\ misread \subseteq Replies
    /\ told \in [Replies -> {"nothing", "unsubscribed", "help", "ok"}]
    /\ run \in [Workers -> Runs] /\ lateBy \in [Phones -> [Workers -> Nat]]
    /\ runs \in Nat /\ losses \in Nat

Init ==
    /\ suppressed = {} /\ consented \in SUBSET Phones
    /\ recorded = {} /\ undelivered = Replies /\ misread = {}
    /\ told = [m \in Replies |-> "nothing"] /\ run = [w \in Workers |-> Idle]
    /\ lateBy = [p \in Phones |-> [w \in Workers |-> 0]]
    /\ runs = 0 /\ losses = 0

-----------------------------------------------------------------------------
(***************************************************************************)
(* The inbound webhook.  The handler runs to its commit without yielding.  *)
(* The InboundMessage row has a unique message id: of a reply delivered    *)
(* again the commit fails and the suppression of this time rolls back;     *)
(* without an id the reply is taken as a new one.  A reply is read in full *)
(* if it comes in the format of the configured provider and spells the     *)
(* number the way the jobs do (HandleReply), or not (HandleMisread).       *)
(***************************************************************************)
Text(m) == CASE IntentOf[m] = "stop" -> "unsubscribed"
             [] IntentOf[m] = "help" -> "help"
             [] OTHER                -> "ok"

New(m) == m \in undelivered /\ (m \in recorded => m \in Anonymous)
Loss == losses < MaxLosses /\ losses' = losses + 1
Taken(m, text) == undelivered' = undelivered \ {m} /\ told' = [told EXCEPT ![m] = text]
Answer(m) ==
    \/ Taken(m, Text(m)) /\ UNCHANGED losses
    \/ Loss /\ UNCHANGED <<undelivered, told>>

\* Variants: the row is committed before the suppression; an existing
\* suppression is looked up by scope only.
HandleReplyInTwoCommits(m) ==
    /\ New(m) /\ recorded' = recorded \cup {m} /\ misread' = misread \ {m}
    /\ \/ /\ suppressed' = IF IntentOf[m] = "stop" THEN suppressed \cup {SenderOf[m]}
                                                   ELSE suppressed
          /\ Answer(m)
       \/ Loss /\ UNCHANGED <<suppressed, undelivered, told>>
    /\ UNCHANGED policy
HandleReplyOnce(m) ==
    /\ New(m) /\ recorded' = recorded \cup {m} /\ misread' = misread \ {m}
    /\ suppressed' = IF IntentOf[m] = "stop" /\ suppressed = {} THEN {SenderOf[m]}
                                                                ELSE suppressed
    /\ Answer(m)
    /\ UNCHANGED policy
HandleReply(m) ==
    /\ New(m) /\ recorded' = recorded \cup {m} /\ misread' = misread \ {m}
    /\ suppressed' = IF IntentOf[m] = "stop" THEN suppressed \cup {SenderOf[m]}
                                             ELSE suppressed
    /\ Answer(m)
    /\ UNCHANGED policy

\* IntegrityError, 500: the provider tries again or gives up.
HandleDuplicate(m) ==
    /\ m \in (undelivered \cap recorded) \ Anonymous
    /\ undelivered' = undelivered \ {m}
    /\ UNCHANGED <<suppressed, recorded, told, misread, policy, losses>>

\* In another provider's format: no id, an empty body, so that the row is of
\* no reply and the answer OK.  With the number spelled in another way: the
\* STOP suppresses that spelling, which no job is for.
HandleMisread(m) ==
    /\ m \in undelivered /\ Loss /\ misread' = misread \cup ({m} \ recorded)
    /\ \/ UNCHANGED recorded /\ (Taken(m, "ok") \/ UNCHANGED <<undelivered, told>>)
       \/ /\ New(m) /\ recorded' = recorded \cup {m}
          /\ Taken(m, Text(m)) \/ UNCHANGED <<undelivered, told>>
    /\ UNCHANGED <<suppressed, policy>>

-----------------------------------------------------------------------------
\* create_consent.
CreateConsent(p) ==
    /\ consented' = consented \cup {p}
    /\ UNCHANGED <<webhook, run, lateBy, runs, losses>>

-----------------------------------------------------------------------------
(* One run of send_message_job, with evaluate_message_policy query by query. *)
Goto(w, pc) == run' = [run EXCEPT ![w].pc = pc]
Return(w) == run' = [run EXCEPT ![w] = Idle]

StartRun(w, p, c) ==
    /\ run[w].pc = "idle" /\ runs < MaxRuns /\ runs' = runs + 1
    /\ run' = [run EXCEPT ![w] = [pc |-> "started", phone |-> p, category |-> c]]
    /\ UNCHANGED <<webhook, consented, lateBy, losses>>

\* Variant: one-time passwords pass.
CheckSuppressionUnlessOtp(w) ==
    /\ run[w].pc = "started"
    /\ IF run[w].phone \in suppressed /\ run[w].category # "otp"
       THEN Return(w) ELSE Goto(w, "unsuppressed")
    /\ UNCHANGED <<webhook, consented, lateBy, runs, losses>>
CheckSuppression(w) ==
    /\ run[w].pc = "started"
    /\ IF run[w].phone \in suppressed THEN Return(w) ELSE Goto(w, "unsuppressed")
    /\ UNCHANGED <<webhook, consented, lateBy, runs, losses>>

CheckConsent(w) ==
    /\ run[w].pc = "unsuppressed"
    /\ IF run[w].phone \in consented \/ run[w].category = "otp"
       THEN Goto(w, "allowed") ELSE Return(w)
    /\ UNCHANGED <<webhook, consented, lateBy, runs, losses>>

\* Quiet hours, a cap or the duplicate window, or the worker ends.
Throttle(w) ==
    /\ run[w].pc = "allowed" /\ Return(w)
    /\ UNCHANGED <<webhook, consented, lateBy, runs, losses>>

Send(w) ==
    /\ run[w].pc = "allowed" /\ Return(w)
    /\ lateBy' = IF run[w].phone \in suppressed
                 THEN [lateBy EXCEPT ![run[w].phone][w] = @ + 1] ELSE lateBy
    /\ UNCHANGED <<webhook, consented, runs, losses>>

RunStep(w) ==
    \/ \E p \in Phones, c \in Categories : StartRun(w, p, c)
    \/ CheckSuppression(w) \/ CheckConsent(w) \/ Throttle(w) \/ Send(w)
Next ==
    \/ \E m \in Replies : HandleReply(m) \/ HandleMisread(m) \/ HandleDuplicate(m)
    \/ \E p \in Phones : CreateConsent(p)
    \/ \E w \in Workers : RunStep(w)
Spec == Init /\ [][Next]_vars

\* The provider delivers a reply until it is taken.
FairSpec == Spec /\ \A m \in Replies : WF_vars(HandleReply(m) \/ HandleMisread(m))

-----------------------------------------------------------------------------
(***************************************************************************)
(* After a STOP is committed, a worker sends the customer at most the one  *)
(* message whose suppression check it had passed, whatever the category    *)
(* and however runs, webhooks and consents interleave.                     *)
(***************************************************************************)
OneLateMessagePerWorker == \A p \in Phones, w \in Workers : lateBy[p][w] <= 1

(***************************************************************************)
(* Nobody whose STOP was understood is told "You have been unsubscribed"   *)
(* without being on the list, and a STOP recorded as understood put its    *)
(* sender there: neither a rollback of the webhook nor a repeat that is    *)
(* misread takes one of the two back.                                      *)
(***************************************************************************)
StopIsKept == \A m \in Replies \ misread :
    IntentOf[m] = "stop" /\ (m \in recorded \/ told[m] = "unsubscribed")
    => SenderOf[m] \in suppressed

(***************************************************************************)
(* A STOP takes effect although answers are lost and deliveries repeat,    *)
(* unless the process never understands it.                                *)
(***************************************************************************)
StopTakesEffect == \A m \in {r \in Replies : IntentOf[r] = "stop"} :
    <>(SenderOf[m] \in suppressed) \/ <>[](m \in misread)
=============================================================================

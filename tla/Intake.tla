------------------------------- MODULE Intake -------------------------------
(***************************************************************************)
(* enqueue_transactional_message in the API's thread pool: requests with   *)
(* the same idempotency key run at the same time, each in a transaction of *)
(* its own (READ COMMITTED), and the API process may end at any point.     *)
(***************************************************************************)
EXTENDS Naturals

CONSTANTS Requests, NoRequest, Keys, KeyOf, MaxCrashes

ASSUME IntakeAssumption ==
    /\ NoRequest \notin Requests /\ KeyOf \in [Requests -> Keys] /\ MaxCrashes \in Nat

VARIABLES
    pc,       \* where the thread that serves a request is
    event,    \* the request that committed the key's MessageEvent, or NoRequest
    jobs,     \* requests whose MessageJob is committed, by key
    entries,  \* entries in the RQ queue, by key
    answer,   \* what each client was told
    crashes

vars == <<pc, event, jobs, entries, answer, crashes>>

TypeOK ==
    /\ pc \in [Requests -> {"new", "unseen", "flushed", "committed", "ended"}]
    /\ event \in [Keys -> Requests \cup {NoRequest}]
    /\ jobs \in [Keys -> SUBSET Requests] /\ entries \in [Keys -> Nat]
    /\ answer \in [Requests -> {"none", "queued", "duplicate_ignored", "error"}]
    /\ crashes \in Nat

Init ==
    /\ pc = [r \in Requests |-> "new"] /\ event = [k \in Keys |-> NoRequest]
    /\ jobs = [k \in Keys |-> {}] /\ entries = [k \in Keys |-> 0]
    /\ answer = [r \in Requests |-> "none"] /\ crashes = 0

Goto(r, s) == pc' = [pc EXCEPT ![r] = s]
Respond(r, a) == Goto(r, "ended") /\ answer' = [answer EXCEPT ![r] = a]

\* db.query(MessageEvent) ... first()
LookUp(r) ==
    /\ pc[r] = "new"
    /\ IF event[KeyOf[r]] # NoRequest THEN Respond(r, "duplicate_ignored")
                                      ELSE Goto(r, "unseen") /\ UNCHANGED answer
    /\ UNCHANGED <<event, jobs, entries, crashes>>

\* Variant: the column is not unique.
FlushUnchecked(r) ==
    /\ pc[r] = "unseen" /\ Goto(r, "flushed")
    /\ UNCHANGED <<event, jobs, entries, answer, crashes>>
\* Variant: a request that meets an existing event waits instead of failing.
FlushWaiting(r) ==
    /\ pc[r] = "unseen" /\ event[KeyOf[r]] = NoRequest
    /\ \A q \in Requests : KeyOf[q] = KeyOf[r] => pc[q] # "flushed"
    /\ Goto(r, "flushed") /\ UNCHANGED <<event, jobs, entries, answer, crashes>>
\* db.flush(): the unique index waits for a transaction that inserted the key
\* and has not ended, and then raises IntegrityError if that one committed.
Flush(r) ==
    /\ pc[r] = "unseen"
    /\ \A q \in Requests : KeyOf[q] = KeyOf[r] => pc[q] # "flushed"
    /\ IF event[KeyOf[r]] # NoRequest THEN Respond(r, "error")
                                      ELSE Goto(r, "flushed") /\ UNCHANGED answer
    /\ UNCHANGED <<event, jobs, entries, crashes>>

\* ValueError("template_not_found"): the session closes without a commit.
NoTemplate(r) ==
    /\ pc[r] = "flushed" /\ Respond(r, "error")
    /\ UNCHANGED <<event, jobs, entries, crashes>>

\* Variant: the event is committed on its own, before the template is looked up.
CommitEventOnly(r) ==
    /\ pc[r] = "flushed" /\ event' = [event EXCEPT ![KeyOf[r]] = r]
    /\ Respond(r, "error") /\ UNCHANGED <<jobs, entries, crashes>>
\* Event and job become visible in one commit.
CommitJob(r) ==
    /\ pc[r] = "flushed" /\ Goto(r, "committed")
    /\ event' = [event EXCEPT ![KeyOf[r]] = r]
    /\ jobs' = [jobs EXCEPT ![KeyOf[r]] = @ \cup {r}]
    /\ UNCHANGED <<entries, answer, crashes>>

\* Queue.enqueue.
EnqueueJob(r) ==
    /\ pc[r] = "committed" /\ Respond(r, "queued")
    /\ entries' = [entries EXCEPT ![KeyOf[r]] = @ + 1]
    /\ UNCHANGED <<event, jobs, crashes>>
\* Variant: the error is swallowed.
EnqueueFailsSilently(r) ==
    /\ pc[r] = "committed" /\ Respond(r, "queued")
    /\ UNCHANGED <<event, jobs, entries, crashes>>
\* Redis cannot be reached, or does not answer in time what it carries out.
EnqueueFails(r) ==
    /\ pc[r] = "committed" /\ Respond(r, "error")
    /\ entries' \in {entries, [entries EXCEPT ![KeyOf[r]] = @ + 1]}
    /\ UNCHANGED <<event, jobs, crashes>>

\* The process ends: open transactions roll back, no client gets an answer.
Crash ==
    /\ crashes < MaxCrashes /\ crashes' = crashes + 1
    /\ pc' = [r \in Requests |-> IF pc[r] = "new" THEN "new" ELSE "ended"]
    /\ UNCHANGED <<event, jobs, entries, answer>>

Serve(r) == LookUp(r) \/ Flush(r) \/ NoTemplate(r) \/ CommitJob(r) \/ EnqueueJob(r)
            \/ EnqueueFails(r)
Next == (\E r \in Requests : Serve(r)) \/ Crash
Spec == Init /\ [][Next]_vars
FairSpec == Spec /\ \A r \in Requests : WF_vars(Serve(r))

-----------------------------------------------------------------------------
(***************************************************************************)
(* However requests with one key interleave, the key gets one job, created *)
(* together with its event, and at most one entry in the queue.            *)
(***************************************************************************)
OneJobPerKey == \A k \in Keys :
    /\ jobs[k] = IF event[k] = NoRequest THEN {} ELSE {event[k]}
    /\ entries[k] <= 1 /\ (entries[k] = 1 => event[k] # NoRequest)

(***************************************************************************)
(* Some client is told "queued" only when its own job is in the queue; no  *)
(* answer promises a job that a rollback took back.                        *)
(***************************************************************************)
QueuedIsTrue == \A r \in Requests :
    /\ answer[r] = "queued" => event[KeyOf[r]] = r /\ entries[KeyOf[r]] = 1
    /\ answer[r] = "duplicate_ignored" => event[KeyOf[r]] # NoRequest

(***************************************************************************)
(* Waiting for the unique index ends: every request that starts is served  *)
(* to its end, though requests with one key wait for each other.           *)
(***************************************************************************)
EveryRequestEnds == \A r \in Requests : (pc[r] # "new") ~> (pc[r] = "ended")

(***************************************************************************)
(* Intake implements the abstract acceptance: the commit of the event is   *)
(* the acceptance, every other step answers a client or is invisible.      *)
(***************************************************************************)
Abstract == INSTANCE IdempotentAccept WITH acceptedBy <- event
Accepts == Abstract!Spec
=============================================================================

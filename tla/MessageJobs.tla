---------------------------- MODULE MessageJobs ----------------------------
(***************************************************************************)
(* The life of a MessageJob row: created by the API, handed to the RQ      *)
(* queue "outbound_messages" by the API or by the scheduler, processed by  *)
(* send_message_job in a worker, reviewed by an operator.  One action is   *)
(* one stretch of code between two points where another process can read   *)
(* or write what it shares: PostgreSQL rows at a commit or a query, Redis  *)
(* at a command, the provider at a call.                                   *)
(***************************************************************************)
EXTENDS Integers, Sequences, FiniteSets

CONSTANTS
    Jobs, NoJob,  \* primary keys MessageJob rows may take
    Campaigns, NoCampaign,
    Messages,     \* (phone, normalised body) pairs: the keys of the duplicate window
    CampaignOf,   \* campaign_id of a job, or NoCampaign
    MessageOf,    \* the pair a job sends
    Workers,      \* RQ worker processes
    RetryMax,     \* settings.retry_max_attempts
    BatchSize,    \* settings.campaign_batch_size
    MaxQueue,     \* bound: entries in the queue
    MaxOps,       \* bound: operator requests
    MaxCrashes    \* bound: process crashes and failed Redis calls

ASSUME JobAssumption ==
    /\ NoCampaign \notin Campaigns /\ NoJob \notin Jobs
    /\ CampaignOf \in [Jobs -> Campaigns \cup {NoCampaign}]
    /\ MessageOf \in [Jobs -> Messages]
ASSUME BoundAssumption ==
    RetryMax \in Nat \ {0} /\ BatchSize \in Nat \ {0}
    /\ MaxQueue \in Nat /\ MaxOps \in Nat /\ MaxCrashes \in Nat

VARIABLES
    live, fresh,  \* jobs with a row; keys not used yet
    row,          \* the columns of each job's row
    campaign,     \* Campaign.status
    attempts,     \* statuses of the job's committed MessageAttempt rows
    reviewed,     \* jobs with a ReviewAction row
    queue,        \* RQ list
    pending,      \* API threads between db.commit() and enqueue, by job
    session,      \* the scheduler's and the API's open dispatch, if any
    worker,       \* the run of send_message_job in each worker
    dup,          \* Redis keys user:<phone>:dup:<hash>
    delivered, unrecorded,  \* history: accepted by the provider; and then not recorded
    inWindow,     \* history: deliveries of a message by a worker since its dup key was set
    late,         \* history: deliveries of a campaign by a worker since it left "approved"
    lost,         \* history: jobs whose queue entry a crash or error dropped
    ops, crashes

keys == <<live, fresh, reviewed>>
table == <<keys, row, attempts>>
control == <<campaign, pending, session>>
others == <<pending, worker, dup>>
history == <<delivered, unrecorded, inWindow, late, lost>>
bounds == <<ops, crashes>>
vars == <<live, fresh, row, campaign, attempts, reviewed, queue, pending, session,
          worker, dup, delivered, unrecorded, inWindow, late, lost, ops, crashes>>

-----------------------------------------------------------------------------
Statuses == {"queued", "approved_for_retry", "paused", "blocked", "rejected", "sent"}
\* backoff: next_retry_at is set.  review_status is written with status and
\* read by nobody but the dashboard.
Rows == [status: Statuses, retries: Nat, backoff: BOOLEAN, locked: BOOLEAN]
NewRow == [status |-> "queued", retries |-> 0, backoff |-> FALSE, locked |-> FALSE]
InTransaction == {"flushed", "accepted", "failed"}    \* an attempt row holds the job's key
PastCheck == {"cleared", "absent", "keyed"} \cup InTransaction
Idle == [pc |-> "idle", job |-> NoJob, snap |-> NewRow]
WorkerStates == {Idle} \cup [pc: {"loaded"} \cup PastCheck, job: Jobs, snap: Rows]
Dispatchers == {"scheduler", "api"}
Closed == [pc |-> "idle", camps |-> {}, batch |-> {}, seen |-> {},
           backoff |-> {}, wasLocked |-> {}, marked |-> {}]
Sessions == [pc: {"idle", "marking", "retrying", "enqueuing"}, camps: SUBSET Campaigns,
             batch: SUBSET Jobs, seen: SUBSET Jobs, backoff: SUBSET Jobs,
             wasLocked: SUBSET Jobs, marked: SUBSET Jobs]

TypeOK ==
    /\ live \subseteq Jobs /\ fresh \subseteq Jobs /\ row \in [Jobs -> Rows]
    /\ campaign \in [Campaigns -> {"draft", "approved", "paused"}]
    /\ attempts \in [Jobs -> SUBSET {"sent", "failed"}]
    /\ reviewed \subseteq Jobs /\ queue \in Seq(Jobs) /\ pending \subseteq Jobs
    /\ session \in [Dispatchers -> Sessions] /\ worker \in [Workers -> WorkerStates]
    /\ dup \subseteq Messages /\ delivered \subseteq Jobs /\ unrecorded \subseteq Jobs
    /\ inWindow \in [Messages -> [Workers -> Nat]] /\ late \in [Campaigns -> [Workers -> Nat]]
    /\ lost \subseteq Jobs /\ ops \in Nat /\ crashes \in Nat

\* The campaigns exist; their members may have been generated before.
Init ==
    /\ live \in SUBSET {j \in Jobs : CampaignOf[j] # NoCampaign} /\ fresh = Jobs \ live
    /\ row = [j \in Jobs |-> NewRow]
    /\ campaign \in [Campaigns -> {"draft", "approved"}]
    /\ attempts = [j \in Jobs |-> {}] /\ reviewed = {}
    /\ queue = <<>> /\ pending = {} /\ session = [d \in Dispatchers |-> Closed]
    /\ worker = [w \in Workers |-> Idle]
    /\ dup = {} /\ delivered = {} /\ unrecorded = {}
    /\ inWindow = [m \in Messages |-> [w \in Workers |-> 0]]
    /\ late = [c \in Campaigns |-> [w \in Workers |-> 0]]
    /\ lost = {} /\ ops = 0 /\ crashes = 0

-----------------------------------------------------------------------------
(***************************************************************************)
(* SQLAlchemy's UPDATE names only the columns whose new value n differs    *)
(* from the value s the session loaded: the others keep the current c.     *)
(***************************************************************************)
Column(c, s, n) == IF n # s THEN n ELSE c
Updated(c, s, n) ==
    [status  |-> Column(c.status, s.status, n.status),
     retries |-> Column(c.retries, s.retries, n.retries),
     backoff |-> Column(c.backoff, s.backoff, n.backoff),
     locked  |-> Column(c.locked, s.locked, n.locked)]

\* Variant: a budget counted down instead of up.
RetryRowCountingDown(c, s, unlocked) ==
    [Updated(c, s, [s EXCEPT !.retries = s.retries - 1, !.status = "approved_for_retry",
                             !.locked = FALSE]) EXCEPT !.backoff = TRUE]
\* _schedule_retry on a job whose batch_locked the caller has set to unlocked.
\* next_retry_at is a new timestamp, so the UPDATE always names it.
ExhaustedEarly(s) == s.retries + 2 >= RetryMax    \* variant: off by one
Exhausted(s) == s.retries + 1 >= RetryMax
RetryRow(c, s, unlocked) ==
    IF Exhausted(s)
    THEN Updated(c, s, [s EXCEPT !.retries = s.retries + 1, !.status = "rejected",
                                 !.locked = unlocked])
    ELSE [Updated(c, s, [s EXCEPT !.retries = s.retries + 1,
                                  !.status = "approved_for_retry", !.locked = FALSE])
            EXCEPT !.backoff = TRUE]

\* db.commit() of new column values for j; of a deleted row the UPDATE matches
\* nothing, StaleDataError is raised and the transaction is rolled back.
Commit(j, r) == row' = IF j \in live THEN [row EXCEPT ![j] = r] ELSE row

CampaignApproved(j) == CampaignOf[j] = NoCampaign \/ campaign[CampaignOf[j]] = "approved"
JobsOf(c) == {j \in Jobs : CampaignOf[j] = c}
Enqueue(j) == Len(queue) < MaxQueue /\ queue' = Append(queue, j)
\* LIMIT n without ORDER BY: any n of the rows, or all of them if fewer.
Limited(S) == {B \in SUBSET S : Cardinality(B) = BatchSize}
              \cup (IF Cardinality(S) < BatchSize THEN {S} ELSE {})

-----------------------------------------------------------------------------
(* enqueue_transactional_message: commit the job, then hand it to the queue. *)
SubmitTransactional(j) ==
    /\ j \in fresh /\ CampaignOf[j] = NoCampaign
    /\ fresh' = fresh \ {j} /\ live' = live \cup {j} /\ pending' = pending \cup {j}
    /\ UNCHANGED <<row, attempts, reviewed, campaign, queue, session, worker, dup,
                   history, bounds>>

EnqueueSubmitted(j) ==
    /\ j \in pending /\ Enqueue(j) /\ pending' = pending \ {j}
    /\ UNCHANGED <<table, campaign, session, worker, dup, history, bounds>>

\* The API process ends, or Redis refuses the command: the job stays queued.
SubmitInterrupted(j) ==
    /\ j \in pending /\ crashes < MaxCrashes /\ crashes' = crashes + 1
    /\ pending' = pending \ {j} /\ lost' = lost \cup {j}
    /\ UNCHANGED <<table, campaign, queue, session, worker, dup, delivered, unrecorded,
                   inWindow, late, ops>>

-----------------------------------------------------------------------------
(* send_message_job in worker w. *)
Goto(w, pc) == worker' = [worker EXCEPT ![w].pc = pc]
Return(w) == worker' = [worker EXCEPT ![w] = Idle]
At(w, pc) == worker[w].pc = pc
Save(w, r) == Commit(worker[w].job, r)

TakeJob(w) ==
    /\ At(w, "idle") /\ queue # <<>> /\ queue' = Tail(queue)
    /\ worker' = IF Head(queue) \in live
                 THEN [worker EXCEPT ![w] = [pc |-> "loaded", job |-> Head(queue),
                                             snap |-> row[Head(queue)]]]
                 ELSE worker
    /\ UNCHANGED <<table, control, dup, history, bounds>>

\* Variant: no look at the campaign.
CheckNothing(w) ==
    /\ At(w, "loaded") /\ Goto(w, "cleared")
    /\ UNCHANGED <<table, control, queue, dup, history, bounds>>
CheckCampaign(w) ==
    /\ At(w, "loaded")
    /\ LET j == worker[w].job s == worker[w].snap IN
       IF CampaignApproved(j)
       THEN Goto(w, "cleared") /\ UNCHANGED row
       ELSE /\ Save(w, Updated(row[j], s, [s EXCEPT !.status = "paused", !.locked = FALSE]))
            /\ Return(w)
    /\ UNCHANGED <<keys, attempts, control, queue, dup, history, bounds>>

\* The phone or template row is missing, or the policy answers BLOCK.
Block(w) ==
    /\ At(w, "cleared")
    /\ LET j == worker[w].job s == worker[w].snap IN
       \E locked \in {FALSE, s.locked} :
           Save(w, Updated(row[j], s, [s EXCEPT !.status = "blocked", !.locked = locked]))
    /\ Return(w)
    /\ UNCHANGED <<keys, attempts, control, queue, dup, history, bounds>>

\* The policy answers THROTTLE: quiet hours or a cap at any time, or the dup key.
Throttle(w) ==
    /\ At(w, "cleared")
    /\ LET j == worker[w].job s == worker[w].snap IN Save(w, RetryRow(row[j], s, s.locked))
    /\ Return(w)
    /\ UNCHANGED <<keys, attempts, control, queue, dup, history, bounds>>

\* Variant: the answer of the first command is ignored.
DupKeyIgnored(w) ==
    /\ At(w, "cleared") /\ Goto(w, "absent")
    /\ UNCHANGED <<table, control, queue, dup, history, bounds>>
\* check_duplicate_window reads the key in one command and sets it in another.
DupKeyAbsent(w) ==
    /\ At(w, "cleared") /\ MessageOf[worker[w].job] \notin dup /\ Goto(w, "absent")
    /\ UNCHANGED <<table, control, queue, dup, history, bounds>>

\* Variant: the key is looked at and never set.
SetNoDupKey(w) ==
    /\ At(w, "absent") /\ Goto(w, "keyed")
    /\ UNCHANGED <<table, control, queue, dup, history, bounds>>
SetDupKey(w) ==
    /\ At(w, "absent") /\ Goto(w, "keyed")
    /\ dup' = dup \cup {MessageOf[worker[w].job]}
    /\ UNCHANGED <<table, control, queue, history, bounds>>

\* The attempt's foreign key locks the job's row, or finds it deleted.
FlushAttempt(w) ==
    /\ At(w, "keyed")
    /\ IF worker[w].job \in live THEN Goto(w, "flushed") ELSE Return(w)
    /\ UNCHANGED <<table, control, queue, dup, history, bounds>>

\* The provider accepts the message; its answer may not arrive in time.
Deliver(w) ==
    /\ At(w, "flushed")
    /\ \E pc \in {"accepted", "failed"} : Goto(w, pc)
    /\ LET j == worker[w].job IN
       /\ delivered' = delivered \cup {j}
       /\ inWindow' = [inWindow EXCEPT ![MessageOf[j]][w] = @ + 1]
       /\ late' = IF CampaignApproved(j) THEN late
                  ELSE [late EXCEPT ![CampaignOf[j]][w] = @ + 1]
    /\ UNCHANGED <<table, control, queue, dup, unrecorded, lost, bounds>>

Refuse(w) ==
    /\ At(w, "flushed") /\ Goto(w, "failed")
    /\ UNCHANGED <<table, control, queue, dup, history, bounds>>

\* Variants: the attempt is not part of the commit; success clears retry_count.
RecordSentJobOnly(w) ==
    /\ At(w, "accepted")
    /\ LET j == worker[w].job s == worker[w].snap IN
       Save(w, Updated(row[j], s, [s EXCEPT !.status = "sent", !.locked = FALSE]))
    /\ Return(w)
    /\ UNCHANGED <<keys, attempts, control, queue, dup, history, bounds>>
RecordSentAndReset(w) ==
    /\ At(w, "accepted")
    /\ LET j == worker[w].job s == worker[w].snap IN
       /\ Save(w, Updated(row[j], s, [s EXCEPT !.status = "sent", !.retries = 0]))
       /\ attempts' = [attempts EXCEPT ![j] = @ \cup {"sent"}]
    /\ Return(w)
    /\ UNCHANGED <<keys, control, queue, dup, history, bounds>>
RecordSent(w) ==
    /\ At(w, "accepted")
    /\ LET j == worker[w].job s == worker[w].snap IN
       /\ Save(w, Updated(row[j], s, [s EXCEPT !.status = "sent", !.locked = FALSE]))
       /\ attempts' = [attempts EXCEPT ![j] = @ \cup {"sent"}]
    /\ Return(w)
    /\ UNCHANGED <<keys, control, queue, dup, history, bounds>>

RecordFailed(w) ==
    /\ At(w, "failed")
    /\ LET j == worker[w].job s == worker[w].snap IN
       /\ Save(w, RetryRow(row[j], s, FALSE))
       /\ attempts' = [attempts EXCEPT ![j] = @ \cup {"failed"}]
    /\ Return(w)
    /\ UNCHANGED <<keys, control, queue, dup, history, bounds>>

\* The work horse ends; RQ files the entry under failed jobs and runs the next.
WorkerCrash(w) ==
    /\ ~At(w, "idle") /\ crashes < MaxCrashes /\ crashes' = crashes + 1
    /\ LET j == worker[w].job IN
       /\ lost' = lost \cup {j}
       /\ unrecorded' = IF j \in delivered /\ attempts[j] = {} THEN unrecorded \cup {j}
                                                                 ELSE unrecorded
    /\ Return(w)
    /\ UNCHANGED <<table, control, queue, dup, delivered, inWindow, late, ops>>

\* The key outlives every run that set it: 60 minutes against RQ's 180 seconds.
DupKeyExpires(m) ==
    /\ m \in dup /\ dup' = dup \ {m} /\ inWindow' = [inWindow EXCEPT ![m] = [w \in Workers |-> 0]]
    /\ \A w \in Workers : worker[w].pc \in {"keyed"} \cup InTransaction
                          => MessageOf[worker[w].job] # m
    /\ UNCHANGED <<table, control, queue, worker, delivered, unrecorded, late, lost, bounds>>

-----------------------------------------------------------------------------
(* run_scheduler_tick and trigger_campaign_batch: entries reach Redis while *)
(* the batch_locked flags wait in the session for db.commit().              *)
\* Variant: the filter names one status only.
DispatchableRetries(c) == {j \in live : /\ CampaignOf[j] = c /\ ~row[j].locked
                                        /\ row[j].status = "approved_for_retry"}
Dispatchable(c) == {j \in live : /\ CampaignOf[j] = c /\ ~row[j].locked
                                 /\ row[j].status \in {"queued", "approved_for_retry"}}

TickBegin ==
    /\ session["scheduler"].pc = "idle"
    /\ session' = [session EXCEPT !["scheduler"] =
           [Closed EXCEPT !.pc = "marking",
                          !.camps = {c \in Campaigns : campaign[c] = "approved"}]]
    /\ UNCHANGED <<table, campaign, queue, others, history, bounds>>

TickBatch(c) ==
    LET s == session["scheduler"] IN
    /\ s.pc = "marking" /\ s.batch = {} /\ c \in s.camps
    /\ \E B \in Limited(Dispatchable(c)) :
           session' = [session EXCEPT !["scheduler"] =
               [s EXCEPT !.camps = s.camps \ {c}, !.batch = B, !.seen = s.seen \cup B,
                         !.backoff = s.backoff \cup {j \in B : row[j].backoff}]]
    /\ UNCHANGED <<table, campaign, queue, others, history, bounds>>

\* The second query; rows the session has seen keep the values first loaded.
TickRetries ==
    LET s == session["scheduler"] IN
    /\ s.pc = "marking" /\ s.batch = {} /\ s.camps = {}
    /\ \E B \in Limited({j \in live : row[j].status = "approved_for_retry"}) :
           session' = [session EXCEPT !["scheduler"] =
               [s EXCEPT !.pc = "retrying", !.batch = B, !.seen = s.seen \cup B,
                   !.backoff = s.backoff \cup {j \in B \ s.seen : row[j].backoff},
                   !.wasLocked = {j \in B \ s.seen : row[j].locked}]]
    /\ UNCHANGED <<table, campaign, queue, others, history, bounds>>

\* Variant: an error of the enqueue is swallowed.
MarkEvenIfLost(d, j) ==
    LET s == session[d] IN
    /\ j \in s.batch
    /\ s.pc = "marking" \/ (s.pc = "retrying" /\ j \notin s.backoff)
    /\ session' = [session EXCEPT ![d].batch = s.batch \ {j},
                                  ![d].marked = s.marked \cup {j}]
    /\ Enqueue(j) \/ UNCHANGED queue
    /\ UNCHANGED <<table, campaign, others, history, bounds>>
Mark(d, j) ==
    LET s == session[d] IN
    /\ j \in s.batch
    /\ s.pc = "marking" \/ (s.pc = "retrying" /\ j \notin s.backoff)
    /\ session' = [session EXCEPT ![d].batch = s.batch \ {j},
                                  ![d].marked = s.marked \cup {j}]
    /\ Enqueue(j)
    /\ UNCHANGED <<table, campaign, others, history, bounds>>

\* next_retry_at > datetime.utcnow() compares a time with a zone to one without:
\* TypeError, the process ends without a commit and is started again.
TickRaises(j) ==
    LET s == session["scheduler"] IN
    /\ s.pc = "retrying" /\ j \in s.batch \cap s.backoff
    /\ session' = [session EXCEPT !["scheduler"] = Closed]
    /\ UNCHANGED <<table, campaign, queue, others, history, bounds>>

DispatchCommit(d) ==
    LET s == session[d] IN
    /\ s.batch = {} /\ s.pc = IF d = "scheduler" THEN "retrying" ELSE "marking"
    /\ LET M == s.marked \ s.wasLocked IN
       row' = IF M \subseteq live
              THEN [j \in Jobs |-> IF j \in M THEN [row[j] EXCEPT !.locked = TRUE] ELSE row[j]]
              ELSE row
    /\ session' = [session EXCEPT ![d] = Closed]
    /\ UNCHANGED <<keys, attempts, campaign, queue, others, history, bounds>>

\* The process ends or Redis fails in the middle: entries stay, flags do not.
DispatchInterrupted(d) ==
    /\ session[d].pc # "idle" /\ crashes < MaxCrashes /\ crashes' = crashes + 1
    /\ session' = [session EXCEPT ![d] = Closed]
    /\ UNCHANGED <<table, campaign, queue, others, history, ops>>

-----------------------------------------------------------------------------
(* Operator requests, one after the other in the API's event loop. *)
Request == session["api"].pc = "idle" /\ ops < MaxOps /\ ops' = ops + 1

TriggerBatch(c) ==
    /\ Request /\ campaign[c] = "approved"
    /\ \E B \in Limited(Dispatchable(c)) :
           session' = [session EXCEPT !["api"] = [Closed EXCEPT !.pc = "marking", !.batch = B]]
    /\ UNCHANGED <<table, campaign, queue, others, history, crashes>>

UpdateCampaignStatus(c, status) ==
    /\ Request /\ campaign' = [campaign EXCEPT ![c] = status]
    /\ late' = IF status = "approved" THEN [late EXCEPT ![c] = [w \in Workers |-> 0]] ELSE late
    /\ UNCHANGED <<table, queue, session, others, delivered, unrecorded, inWindow, lost, crashes>>

\* Variant: a DELETE that cascades to attempts and reviews.
GenerateCascading(c) ==
    /\ Request
    /\ \A w \in Workers : worker[w].pc \in InTransaction => CampaignOf[worker[w].job] # c
    /\ \E N \in SUBSET (fresh \cap JobsOf(c)) :
           live' = (live \ JobsOf(c)) \cup N /\ fresh' = fresh \ N
    /\ UNCHANGED <<row, attempts, reviewed, campaign, queue, session, others, history, crashes>>
\* The DELETE waits for transactions that hold one of the jobs' keys, and fails
\* on a job that an attempt or a review refers to.
GenerateCampaignMembers(c) ==
    /\ Request
    /\ \A w \in Workers : worker[w].pc \in InTransaction => CampaignOf[worker[w].job] # c
    /\ \A j \in live \cap JobsOf(c) : attempts[j] = {} /\ j \notin reviewed
    /\ \E N \in SUBSET (fresh \cap JobsOf(c)) :
           live' = (live \ JobsOf(c)) \cup N /\ fresh' = fresh \ N
    /\ UNCHANGED <<row, attempts, reviewed, campaign, queue, session, others, history, crashes>>

ApprovePausedJob(j) ==
    /\ Request /\ j \in live
    /\ row' = [row EXCEPT ![j] = [@ EXCEPT !.status = "approved_for_retry", !.locked = FALSE]]
    /\ reviewed' = reviewed \cup {j}
    /\ UNCHANGED <<live, fresh, attempts, campaign, queue, session, others, history, crashes>>

RejectPausedJob(j) ==
    /\ Request /\ j \in live
    /\ row' = [row EXCEPT ![j] = [@ EXCEPT !.status = "rejected"]]
    /\ reviewed' = reviewed \cup {j}
    /\ UNCHANGED <<live, fresh, attempts, campaign, queue, session, others, history, crashes>>

RetryJobNow(j) ==
    /\ Request /\ j \in live
    /\ row' = [row EXCEPT ![j] = [@ EXCEPT !.status = "approved_for_retry",
                                           !.locked = FALSE, !.backoff = FALSE]]
    /\ session' = [session EXCEPT !["api"] = [Closed EXCEPT !.pc = "enqueuing", !.batch = {j}]]
    /\ UNCHANGED <<keys, attempts, campaign, queue, others, history, crashes>>

EnqueueRetry(j) ==
    /\ session["api"].pc = "enqueuing" /\ j \in session["api"].batch /\ Enqueue(j)
    /\ session' = [session EXCEPT !["api"] = Closed]
    /\ UNCHANGED <<table, campaign, others, history, bounds>>

-----------------------------------------------------------------------------
SubmitStep == \E j \in Jobs :
    SubmitTransactional(j) \/ EnqueueSubmitted(j) \/ SubmitInterrupted(j)
RunStep(w) ==
    \/ TakeJob(w) \/ CheckCampaign(w) \/ Block(w) \/ Throttle(w) \/ DupKeyAbsent(w)
    \/ SetDupKey(w) \/ FlushAttempt(w) \/ Deliver(w) \/ Refuse(w)
    \/ RecordSent(w) \/ RecordFailed(w)
TickStep ==
    \/ TickBegin \/ TickRetries \/ DispatchCommit("scheduler")
    \/ \E c \in Campaigns : TickBatch(c)
    \/ \E j \in Jobs : Mark("scheduler", j) \/ TickRaises(j)
ApiStep ==
    \/ DispatchCommit("api") \/ \E j \in Jobs : Mark("api", j) \/ EnqueueRetry(j)
RequestStep ==
    \/ \E c \in Campaigns : \/ TriggerBatch(c) \/ GenerateCampaignMembers(c)
                            \/ \E status \in {"approved", "paused"} :
                                   UpdateCampaignStatus(c, status)
    \/ \E j \in Jobs : ApprovePausedJob(j) \/ RejectPausedJob(j) \/ RetryJobNow(j)
Interruption ==
    \/ \E w \in Workers : WorkerCrash(w)
    \/ \E d \in Dispatchers : DispatchInterrupted(d)
    \/ \E m \in Messages : DupKeyExpires(m)

Next == \/ SubmitStep \/ \E w \in Workers : RunStep(w)
        \/ TickStep \/ ApiStep \/ RequestStep \/ Interruption

Spec == Init /\ [][Next]_vars

\* The worker loop, the scheduler's while loop and a request being served go on.
FairSpec == /\ Spec /\ WF_vars(TickStep) /\ WF_vars(ApiStep)
            /\ \A w \in Workers : WF_vars(RunStep(w))
            /\ \A j \in Jobs : WF_vars(EnqueueSubmitted(j))

-----------------------------------------------------------------------------
(***************************************************************************)
(* Whatever was delivered or reviewed keeps its job: generating the        *)
(* members of a campaign again, while its jobs are in flight, deletes no   *)
(* job of which the provider accepted a message, unless a crash kept the   *)
(* attempt from being committed, and none an operator reviewed.            *)
(***************************************************************************)
HistoryKeepsItsJob == (delivered \ unrecorded) \cup reviewed \subseteq live

(***************************************************************************)
(* In one duplicate window a worker delivers a text to a phone at most     *)
(* once, however often its jobs are queued, retried or interrupted: with   *)
(* one worker nothing is sent twice, and workers that race between the two *)
(* commands of the window add one each.                                    *)
(***************************************************************************)
AtMostOneDeliveryPerWindow == \A m \in Messages, w \in Workers : inWindow[m][w] <= 1

(***************************************************************************)
(* A job that still says "queued" has somebody to carry it on: the         *)
(* dispatchers can pick it, or it is on its way to the queue, in it or in  *)
(* a worker, or a crash dropped its entry.  batch_locked alone never keeps *)
(* a job from being sent.                                                  *)
(***************************************************************************)
Carried(j) ==
    \/ CampaignOf[j] # NoCampaign /\ ~row[j].locked
    \/ j \in pending \cup lost \/ \E i \in 1..Len(queue) : queue[i] = j
    \/ \E w \in Workers : worker[w].job = j
QueuedJobIsCarried == \A j \in live : row[j].status = "queued" => Carried(j)

(***************************************************************************)
(* Pausing a campaign stops it: from the pause until it is approved again  *)
(* no worker delivers a second message of it, the first being one whose    *)
(* campaign check the worker had passed, however many entries are queued.  *)
(***************************************************************************)
PauseStopsCampaign == \A c \in Campaigns, w \in Workers : late[c][w] <= 1

(***************************************************************************)
(* "sent" on the dashboard is backed by an attempt recorded as sent, no    *)
(* matter whose commit came last.                                          *)
(***************************************************************************)
SentIsRecorded == \A j \in live : row[j].status = "sent" => "sent" \in attempts[j]

(***************************************************************************)
(* With one worker the retry budget is neither forgotten nor overspent: a  *)
(* run counts itself at most once, and no commit takes a count back.       *)
(***************************************************************************)
RetriesCountUp ==
    [][\A j \in live \cap live' : row'[j].retries \in {row[j].retries, row[j].retries + 1}]_vars

(***************************************************************************)
(* A queued job of an approved campaign is taken up, even while the        *)
(* scheduler dies in every tick, unless the campaign is no longer approved,*)
(* the job is deleted or a crash drops it.                                 *)
(***************************************************************************)
QueuedJobIsTakenUp == \A j \in {i \in Jobs : CampaignOf[i] # NoCampaign} :
    (j \in live /\ row[j].status = "queued")
    ~> (j \notin live \/ row[j].status # "queued" \/ ~CampaignApproved(j) \/ j \in lost)

(***************************************************************************)
(* What the alerts say, "Job ... scheduled for retry" (messaging.py:65 and *)
(* 80): a job that is approved_for_retry is at some time queued again or   *)
(* leaves that status.                                                     *)
(***************************************************************************)
ScheduledRetryHappens == \A j \in Jobs :
    (j \in live /\ row[j].status = "approved_for_retry")
    ~> (j \notin live \/ row[j].status # "approved_for_retry"
        \/ \E i \in 1..Len(queue) : queue[i] = j)

(***************************************************************************)
(* What the alert says, "Job ... failed permanently" (messaging.py:81): a  *)
(* run does not get as far as the provider with a job that its last retry  *)
(* had rejected before the worker took it.                                 *)
(***************************************************************************)
RejectedJobIsNotSent ==
    \A w \in Workers : worker[w].pc \in InTransaction => worker[w].snap.status # "rejected"
=============================================================================

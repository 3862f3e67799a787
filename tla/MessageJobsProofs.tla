------------------------- MODULE MessageJobsProofs -------------------------
(***************************************************************************)
(* What holds of MessageJobs for any jobs, campaigns, workers and bounds;  *)
(* and of QuietJobs, which is MessageJobs with a clock, for any windows,   *)
(* categories and length of time.                                          *)
(***************************************************************************)
EXTENDS QuietJobs, TLAPS

(***************************************************************************)
(* An UPDATE of some columns of a row leaves a row.                        *)
(***************************************************************************)
LEMMA UpdatedType ==
    ASSUME NEW c \in Rows, NEW s \in Rows, NEW n \in Rows
    PROVE  Updated(c, s, n) \in Rows
BY DEF Updated, Column, Rows

(***************************************************************************)
(* So does _schedule_retry, whether it schedules or gives up.              *)
(***************************************************************************)
LEMMA RetryRowType ==
    ASSUME NEW c \in Rows, NEW s \in Rows, NEW unlocked \in BOOLEAN
    PROVE  RetryRow(c, s, unlocked) \in Rows
<1> DEFINE n1 == [s EXCEPT !.retries = s.retries + 1, !.status = "rejected", !.locked = unlocked]
           n2 == [s EXCEPT !.retries = s.retries + 1, !.status = "approved_for_retry",
                           !.locked = FALSE]
<1>0. s.retries + 1 \in Nat /\ "rejected" \in Statuses /\ "approved_for_retry" \in Statuses
  BY DEF Rows, Statuses
<1>1. n1 \in Rows /\ n2 \in Rows
  BY <1>0 DEF Rows
<1>2. Updated(c, s, n1) \in Rows /\ Updated(c, s, n2) \in Rows
  BY <1>1, UpdatedType
<1>3. [Updated(c, s, n2) EXCEPT !.backoff = TRUE] \in Rows
  <2> HIDE DEF n2
  <2> QED BY <1>2 DEF Rows
<1> QED BY <1>2, <1>3 DEF RetryRow

(***************************************************************************)
(* A commit of a row of the right type keeps the table's type.             *)
(***************************************************************************)
LEMMA CommitType ==
    ASSUME TypeOK, NEW j \in Jobs, NEW r \in Rows, Commit(j, r)
    PROVE  row' \in [Jobs -> Rows]
BY DEF TypeOK, Commit

LEMMA WorkerType ==
    ASSUME TypeOK, NEW w \in Workers, worker[w].pc # "idle"
    PROVE  worker[w].job \in Jobs /\ worker[w].snap \in Rows
BY DEF TypeOK, WorkerStates, Idle

LEMMA GotoType ==
    ASSUME TypeOK, NEW w \in Workers, worker[w].pc # "idle", NEW pc \in PastCheck, Goto(w, pc)
    PROVE  worker' \in [Workers -> WorkerStates]
<1>1. worker[w] \in [pc: {"loaded"} \cup PastCheck, job: Jobs, snap: Rows]
  BY DEF TypeOK, WorkerStates, Idle
<1>2. [worker[w] EXCEPT !.pc = pc] \in WorkerStates
  BY <1>1 DEF WorkerStates
<1> QED BY <1>2 DEF TypeOK, Goto

LEMMA ReturnType ==
    ASSUME TypeOK, NEW w \in Workers, Return(w)
    PROVE  worker' \in [Workers -> WorkerStates]
BY DEF TypeOK, Return, WorkerStates

-----------------------------------------------------------------------------
LEMMA Delivered ==
    ASSUME TypeOK, NEW j \in Jobs, NEW w \in Workers,
           inWindow' = [inWindow EXCEPT ![MessageOf[j]][w] = @ + 1]
    PROVE  /\ inWindow' \in [Messages -> [Workers -> Nat]]
           /\ inWindow'[MessageOf[j]][w] = inWindow[MessageOf[j]][w] + 1
           /\ \A m \in Messages, v \in Workers :
                  m # MessageOf[j] \/ v # w => inWindow'[m][v] = inWindow[m][v]
<1> DEFINE n == MessageOf[j]
           f == [inWindow[n] EXCEPT ![w] = inWindow[n][w] + 1]
<1>1. n \in Messages
  BY JobAssumption
<1>2. inWindow[n] \in [Workers -> Nat] /\ inWindow[n][w] \in Nat
  BY <1>1 DEF TypeOK
<1>3. f \in [Workers -> Nat]
  BY <1>2
<1>4. inWindow' = [inWindow EXCEPT ![n] = f]
  OBVIOUS
<1>5. f[w] = inWindow[n][w] + 1 /\ \A v \in Workers : v # w => f[v] = inWindow[n][v]
  BY <1>2
<1> HIDE DEF n, f
<1>6. /\ inWindow' \in [Messages -> [Workers -> Nat]] /\ inWindow'[n] = f
      /\ \A m \in Messages : m # n => inWindow'[m] = inWindow[m]
  BY <1>1, <1>3, <1>4 DEF TypeOK
<1> QED BY <1>5, <1>6 DEF n

LEMMA SubmitType == ASSUME TypeOK, SubmitStep PROVE TypeOK'
<1>1. ASSUME NEW j \in Jobs, SubmitTransactional(j) PROVE TypeOK'
  BY <1>1 DEF TypeOK, SubmitTransactional, history, bounds
<1>2. ASSUME NEW j \in Jobs, EnqueueSubmitted(j) PROVE TypeOK'
  BY <1>2 DEF TypeOK, EnqueueSubmitted, Enqueue, table, keys, history, bounds
<1>3. ASSUME NEW j \in Jobs, SubmitInterrupted(j) PROVE TypeOK'
  BY <1>3 DEF TypeOK, SubmitInterrupted, table, keys
<1> QED BY <1>1, <1>2, <1>3 DEF SubmitStep

LEMMA RunType == ASSUME TypeOK, NEW w \in Workers, RunStep(w) PROVE TypeOK'
<1> USE DEF table, keys, control, history, bounds
<1> DEFINE j == worker[w].job
           s == worker[w].snap
<1>0. ASSUME worker[w].pc # "idle" PROVE j \in Jobs /\ s \in Rows /\ row[j] \in Rows
  BY <1>0, WorkerType DEF TypeOK
<1>1. CASE TakeJob(w)
  <2>1. queue' \in Seq(Jobs) /\ Head(queue) \in Jobs
    BY <1>1 DEF TypeOK, TakeJob
  <2>2. worker' \in [Workers -> WorkerStates]
    BY <1>1, <2>1 DEF TypeOK, TakeJob, WorkerStates
  <2> QED BY <1>1, <2>1, <2>2 DEF TypeOK, TakeJob
<1>2. CASE CheckCampaign(w)
  <2>1. worker[w].pc # "idle"
    BY <1>2 DEF CheckCampaign, At
  <2> DEFINE n == [s EXCEPT !.status = "paused", !.locked = FALSE]
  <2>2. n \in Rows
    BY <1>0, <2>1 DEF Rows, Statuses
  <2>3. Updated(row[j], s, n) \in Rows
    BY <1>0, <2>1, <2>2, UpdatedType
  <2>4. CASE CampaignApproved(j)
    <3>1. Goto(w, "cleared") /\ UNCHANGED row
      BY <1>2, <2>4 DEF CheckCampaign
    <3>2. worker' \in [Workers -> WorkerStates]
      BY <3>1, <2>1, GotoType DEF PastCheck
    <3> QED BY <1>2, <3>1, <3>2 DEF TypeOK, CheckCampaign
  <2>5. CASE ~CampaignApproved(j)
    <3>1. Commit(j, Updated(row[j], s, n)) /\ Return(w)
      BY <1>2, <2>5 DEF CheckCampaign, Save
    <3>2. row' \in [Jobs -> Rows]
      BY <3>1, <2>3, <1>0, <2>1, CommitType
    <3>3. worker' \in [Workers -> WorkerStates]
      BY <3>1, ReturnType
    <3> QED BY <1>2, <3>2, <3>3 DEF TypeOK, CheckCampaign
  <2> QED BY <2>4, <2>5
<1>3. CASE Block(w)
  <2>1. worker[w].pc # "idle"
    BY <1>3 DEF Block, At
  <2>2. PICK locked \in {FALSE, s.locked} :
            Commit(j, Updated(row[j], s, [s EXCEPT !.status = "blocked", !.locked = locked]))
    BY <1>3 DEF Block, Save
  <2>3. [s EXCEPT !.status = "blocked", !.locked = locked] \in Rows
    BY <1>0, <2>1 DEF Rows, Statuses
  <2>4. row' \in [Jobs -> Rows]
    BY <2>2, <2>3, <1>0, <2>1, UpdatedType, CommitType
  <2>5. worker' \in [Workers -> WorkerStates]
    BY <1>3, ReturnType DEF Block
  <2> QED BY <1>3, <2>4, <2>5 DEF TypeOK, Block
<1>4. CASE Throttle(w)
  <2>1. worker[w].pc # "idle"
    BY <1>4 DEF Throttle, At
  <2>2. RetryRow(row[j], s, s.locked) \in Rows
    <3>1. s.locked \in BOOLEAN
      BY <1>0, <2>1 DEF Rows
    <3> QED BY <3>1, <1>0, <2>1, RetryRowType
  <2>3. row' \in [Jobs -> Rows]
    BY <1>4, <2>2, <1>0, <2>1, CommitType DEF Throttle, Save
  <2>4. worker' \in [Workers -> WorkerStates]
    BY <1>4, ReturnType DEF Throttle
  <2> QED BY <1>4, <2>3, <2>4 DEF TypeOK, Throttle
<1>5. CASE DupKeyAbsent(w) \/ Refuse(w)
  <2>1. worker' \in [Workers -> WorkerStates]
    BY <1>5, GotoType DEF DupKeyAbsent, Refuse, At, PastCheck, InTransaction
  <2> QED BY <1>5, <2>1 DEF TypeOK, DupKeyAbsent, Refuse
<1>6. CASE SetDupKey(w)
  <2>1. worker[w].pc # "idle" /\ Goto(w, "keyed")
    BY <1>6 DEF SetDupKey, At
  <2>2. worker' \in [Workers -> WorkerStates]
    BY <2>1, GotoType DEF PastCheck
  <2>3. MessageOf[j] \in Messages
    BY <2>1, <1>0, JobAssumption
  <2> QED BY <1>6, <2>2, <2>3 DEF TypeOK, SetDupKey
<1>7. CASE FlushAttempt(w)
  <2>1. worker' \in [Workers -> WorkerStates]
    BY <1>7, GotoType, ReturnType DEF FlushAttempt, At, PastCheck, InTransaction
  <2> QED BY <1>7, <2>1 DEF TypeOK, FlushAttempt
<1>8. CASE Deliver(w)
  <2>1. worker[w].pc # "idle" /\ \E pc \in {"accepted", "failed"} : Goto(w, pc)
    BY <1>8 DEF Deliver, At
  <2>2. worker' \in [Workers -> WorkerStates]
    BY <2>1, GotoType DEF PastCheck, InTransaction
  <2>3. j \in Jobs
    BY <2>1, <1>0
  <2>5. inWindow' \in [Messages -> [Workers -> Nat]]
    BY <1>8, <2>3, Delivered DEF Deliver
  <2>6. late' \in [Campaigns -> [Workers -> Nat]]
    <3>1. CASE CampaignApproved(j)
      BY <1>8, <3>1 DEF TypeOK, Deliver
    <3>2. CASE ~CampaignApproved(j)
      <4>1. CampaignOf[j] \in Campaigns
        BY <3>2, <2>3, JobAssumption DEF CampaignApproved
      <4>2. [late[CampaignOf[j]] EXCEPT ![w] = late[CampaignOf[j]][w] + 1] \in [Workers -> Nat]
        BY <4>1 DEF TypeOK
      <4>3. late' = [late EXCEPT ![CampaignOf[j]] =
                        [late[CampaignOf[j]] EXCEPT ![w] = late[CampaignOf[j]][w] + 1]]
        BY <1>8, <3>2 DEF Deliver
      <4> QED BY <4>2, <4>3 DEF TypeOK
    <3> QED BY <3>1, <3>2
  <2> QED BY <1>8, <2>2, <2>3, <2>5, <2>6 DEF TypeOK, Deliver
<1>9. CASE RecordSent(w)
  <2>1. worker[w].pc # "idle"
    BY <1>9 DEF RecordSent, At
  <2> DEFINE n == [s EXCEPT !.status = "sent", !.locked = FALSE]
  <2>2. n \in Rows
    BY <1>0, <2>1 DEF Rows, Statuses
  <2>3. Updated(row[j], s, n) \in Rows
    BY <1>0, <2>1, <2>2, UpdatedType
  <2>4. row' \in [Jobs -> Rows]
    BY <1>9, <2>3, <1>0, <2>1, CommitType DEF RecordSent, Save
  <2>5. worker' \in [Workers -> WorkerStates]
    BY <1>9, ReturnType DEF RecordSent
  <2>6. attempts' \in [Jobs -> SUBSET {"sent", "failed"}]
    BY <1>9, <1>0, <2>1 DEF TypeOK, RecordSent
  <2> QED BY <1>9, <2>4, <2>5, <2>6 DEF TypeOK, RecordSent
<1>10. CASE RecordFailed(w)
  <2>1. worker[w].pc # "idle"
    BY <1>10 DEF RecordFailed, At
  <2>2. RetryRow(row[j], s, FALSE) \in Rows
    BY <1>0, <2>1, RetryRowType
  <2>3. row' \in [Jobs -> Rows]
    BY <1>10, <2>2, <1>0, <2>1, CommitType DEF RecordFailed, Save
  <2>4. worker' \in [Workers -> WorkerStates]
    BY <1>10, ReturnType DEF RecordFailed
  <2>5. attempts' \in [Jobs -> SUBSET {"sent", "failed"}]
    BY <1>10, <1>0, <2>1 DEF TypeOK, RecordFailed
  <2> QED BY <1>10, <2>3, <2>4, <2>5 DEF TypeOK, RecordFailed
<1> QED BY <1>1, <1>2, <1>3, <1>4, <1>5, <1>6, <1>7, <1>8, <1>9, <1>10 DEF RunStep

LEMMA DispatchType == ASSUME TypeOK, TickStep \/ ApiStep PROVE TypeOK'
<1> USE DEF table, keys, others, history, bounds
<1>1. CASE TickBegin
  <2>1. session' \in [Dispatchers -> Sessions]
    BY <1>1 DEF TypeOK, TickBegin, Sessions, Closed, Dispatchers
  <2> QED BY <1>1, <2>1 DEF TypeOK, TickBegin
<1>2. ASSUME NEW c \in Campaigns, TickBatch(c) PROVE TypeOK'
  <2>1. PICK B \in Limited(Dispatchable(c)) :
            session' = [session EXCEPT !["scheduler"] =
               [session["scheduler"] EXCEPT !.camps = session["scheduler"].camps \ {c},
                  !.batch = B, !.seen = session["scheduler"].seen \cup B,
                  !.backoff = session["scheduler"].backoff \cup {j \in B : row[j].backoff}]]
    BY <1>2 DEF TickBatch
  <2>2. B \subseteq Jobs
    BY <2>1 DEF Limited, Dispatchable, TypeOK
  <2>3. session' \in [Dispatchers -> Sessions]
    BY <2>1, <2>2 DEF TypeOK, Sessions, Dispatchers
  <2> QED BY <1>2, <2>3 DEF TypeOK, TickBatch
<1>3. CASE TickRetries
  <2> DEFINE t == session["scheduler"]
             r(B) == [t EXCEPT !.pc = "retrying", !.batch = B, !.seen = t.seen \cup B,
                         !.backoff = t.backoff \cup {j \in B \ t.seen : row[j].backoff},
                         !.wasLocked = {j \in B \ t.seen : row[j].locked}]
  <2>1. PICK B \in Limited({j \in live : row[j].status = "approved_for_retry"}) :
            session' = [session EXCEPT !["scheduler"] = r(B)]
    BY <1>3 DEF TickRetries
  <2>2. B \subseteq Jobs
    BY <2>1 DEF Limited, TypeOK
  <2>3. t \in Sessions
    BY DEF TypeOK, Dispatchers
  <2>4. r(B) \in Sessions
    <3> HIDE DEF t
    <3> QED BY <2>2, <2>3 DEF Sessions
  <2>5. session' \in [Dispatchers -> Sessions]
    <3> HIDE DEF r
    <3> QED BY <2>1, <2>4 DEF TypeOK
  <2> QED BY <1>3, <2>5 DEF TypeOK, TickRetries
<1>4. ASSUME NEW d \in Dispatchers, NEW j \in Jobs, Mark(d, j) PROVE TypeOK'
  <2> DEFINE t == session[d]
             r == [t EXCEPT !.batch = t.batch \ {j}, !.marked = t.marked \cup {j}]
  <2>1. session' = [session EXCEPT ![d] = r]
    BY <1>4 DEF Mark
  <2>2. t \in Sessions
    BY DEF TypeOK
  <2>3. r \in Sessions
    <3> HIDE DEF t
    <3> QED BY <2>2 DEF Sessions
  <2>4. session' \in [Dispatchers -> Sessions]
    <3> HIDE DEF r
    <3> QED BY <2>1, <2>3 DEF TypeOK
  <2> QED BY <1>4, <2>4 DEF TypeOK, Mark, Enqueue
<1>5. ASSUME NEW j \in Jobs, TickRaises(j) PROVE TypeOK'
  BY <1>5 DEF TypeOK, TickRaises, Sessions, Closed, Dispatchers
<1>6. ASSUME NEW d \in Dispatchers, DispatchCommit(d) PROVE TypeOK'
  <2>1. session' \in [Dispatchers -> Sessions]
    BY <1>6 DEF TypeOK, DispatchCommit, Sessions, Closed
  <2>2. \A j \in Jobs : [row[j] EXCEPT !.locked = TRUE] \in Rows
    BY DEF TypeOK, Rows
  <2>3. row' \in [Jobs -> Rows]
    BY <1>6, <2>2 DEF TypeOK, DispatchCommit
  <2> QED BY <1>6, <2>1, <2>3 DEF TypeOK, DispatchCommit
<1>7. ASSUME NEW j \in Jobs, EnqueueRetry(j) PROVE TypeOK'
  BY <1>7 DEF TypeOK, EnqueueRetry, Enqueue, Sessions, Closed, Dispatchers
<1> QED BY <1>1, <1>2, <1>3, <1>4, <1>5, <1>6, <1>7 DEF TickStep, ApiStep, Dispatchers

LEMMA RequestType == ASSUME TypeOK, RequestStep PROVE TypeOK'
<1> USE DEF table, keys, others, history, bounds
<1>0. ASSUME Request PROVE ops' \in Nat
  BY <1>0 DEF TypeOK, Request
<1>1. ASSUME NEW c \in Campaigns, TriggerBatch(c) PROVE TypeOK'
  <2>1. PICK B \in Limited(Dispatchable(c)) :
            session' = [session EXCEPT !["api"] = [Closed EXCEPT !.pc = "marking", !.batch = B]]
    BY <1>1 DEF TriggerBatch
  <2>2. B \subseteq Jobs
    BY <2>1 DEF Limited, Dispatchable, TypeOK
  <2>3. session' \in [Dispatchers -> Sessions]
    BY <2>1, <2>2 DEF TypeOK, Sessions, Closed, Dispatchers
  <2> QED BY <1>0, <1>1, <2>3 DEF TypeOK, TriggerBatch
<1>2. ASSUME NEW c \in Campaigns, GenerateCampaignMembers(c) PROVE TypeOK'
  BY <1>0, <1>2 DEF TypeOK, GenerateCampaignMembers
<1>3. ASSUME NEW c \in Campaigns, NEW status \in {"approved", "paused"},
             UpdateCampaignStatus(c, status)
      PROVE  TypeOK'
  BY <1>0, <1>3 DEF TypeOK, UpdateCampaignStatus
<1>4. ASSUME NEW j \in Jobs, ApprovePausedJob(j) PROVE TypeOK'
  <2>1. row' = [row EXCEPT ![j] = [row[j] EXCEPT !.status = "approved_for_retry",
                                                 !.locked = FALSE]]
    BY <1>4 DEF ApprovePausedJob
  <2>2. row' \in [Jobs -> Rows]
    BY <2>1 DEF TypeOK, Rows, Statuses
  <2> QED BY <1>0, <1>4, <2>2 DEF TypeOK, ApprovePausedJob
<1>5. ASSUME NEW j \in Jobs, RejectPausedJob(j) PROVE TypeOK'
  <2>1. row' = [row EXCEPT ![j] = [row[j] EXCEPT !.status = "rejected"]]
    BY <1>5 DEF RejectPausedJob
  <2>2. row' \in [Jobs -> Rows]
    BY <2>1 DEF TypeOK, Rows, Statuses
  <2> QED BY <1>0, <1>5, <2>2 DEF TypeOK, RejectPausedJob
<1>6. ASSUME NEW j \in Jobs, RetryJobNow(j) PROVE TypeOK'
  <2>1. row' = [row EXCEPT ![j] = [row[j] EXCEPT !.status = "approved_for_retry",
                                                 !.locked = FALSE, !.backoff = FALSE]]
    BY <1>6 DEF RetryJobNow
  <2>2. row' \in [Jobs -> Rows]
    BY <2>1 DEF TypeOK, Rows, Statuses
  <2>3. session' \in [Dispatchers -> Sessions]
    BY <1>6 DEF TypeOK, RetryJobNow, Sessions, Closed, Dispatchers
  <2> QED BY <1>0, <1>6, <2>2, <2>3 DEF TypeOK, RetryJobNow
<1> QED BY <1>1, <1>2, <1>3, <1>4, <1>5, <1>6 DEF RequestStep

LEMMA InterruptionType == ASSUME TypeOK, Interruption PROVE TypeOK'
<1> USE DEF table, keys, control, others
<1>1. ASSUME NEW w \in Workers, WorkerCrash(w) PROVE TypeOK'
  <2>1. worker[w].job \in Jobs
    BY <1>1, WorkerType DEF WorkerCrash, At
  <2>2. worker' \in [Workers -> WorkerStates]
    BY <1>1, ReturnType DEF WorkerCrash
  <2> QED BY <1>1, <2>1, <2>2 DEF TypeOK, WorkerCrash
<1>2. ASSUME NEW d \in Dispatchers, DispatchInterrupted(d) PROVE TypeOK'
  BY <1>2 DEF TypeOK, DispatchInterrupted, Sessions, Closed, history
<1>3. ASSUME NEW m \in Messages, DupKeyExpires(m) PROVE TypeOK'
  BY <1>3 DEF TypeOK, DupKeyExpires, bounds
<1> QED BY <1>1, <1>2, <1>3 DEF Interruption

(***************************************************************************)
(* Every reachable state of the job pipeline is well typed: no commit of   *)
(* stale columns, no dispatch and no crash leaves a row, a queue entry or  *)
(* a session outside its type.                                             *)
(***************************************************************************)
THEOREM TypeCorrect == Spec => []TypeOK
<1>1. Init => TypeOK
  <2> SUFFICES ASSUME Init PROVE TypeOK
    OBVIOUS
  <2>1. NewRow \in Rows
    BY DEF NewRow, Rows, Statuses
  <2>2. session \in [Dispatchers -> Sessions]
    BY DEF Init, Sessions, Closed
  <2>3. worker \in [Workers -> WorkerStates]
    BY DEF Init, WorkerStates
  <2> QED BY <2>1, <2>2, <2>3 DEF Init, TypeOK
<1>2. TypeOK /\ [Next]_vars => TypeOK'
  <2> SUFFICES ASSUME TypeOK, [Next]_vars PROVE TypeOK'
    OBVIOUS
  <2>1. CASE UNCHANGED vars
    BY <2>1 DEF TypeOK, vars
  <2> QED BY <2>1, SubmitType, RunType, DispatchType, RequestType, InterruptionType DEF Next
<1> QED BY <1>1, <1>2, PTL DEF Spec

-----------------------------------------------------------------------------
(***************************************************************************)
(* Why history keeps its jobs: a row that an attempt, committed or in an   *)
(* open transaction, or a review refers to exists, and every delivery is   *)
(* in such an attempt unless a crash rolled it back.                       *)
(***************************************************************************)
ReviewKeepsJob == reviewed \subseteq live
AttemptKeepsJob == \A j \in Jobs : attempts[j] # {} => j \in live
TransactionKeepsJob == \A w \in Workers : worker[w].pc \in InTransaction => worker[w].job \in live
Answered == {"accepted", "failed"}
Witnessed(j) == \/ j \in unrecorded \/ attempts[j] # {}
                \/ \E w \in Workers : worker[w].pc \in Answered /\ worker[w].job = j
DeliveryWitnessed == \A j \in delivered : Witnessed(j)
HistoryInv == ReviewKeepsJob /\ AttemptKeepsJob /\ TransactionKeepsJob /\ DeliveryWitnessed

(***************************************************************************)
(* The invariant contains the property.                                    *)
(***************************************************************************)
LEMMA HistoryInvImplies == TypeOK /\ HistoryInv => HistoryKeepsItsJob
<1> SUFFICES ASSUME TypeOK, HistoryInv PROVE HistoryKeepsItsJob
  OBVIOUS
<1>1. ASSUME NEW k \in delivered, k \notin unrecorded PROVE k \in live
  <2>1. k \in Jobs /\ Witnessed(k)
    BY DEF TypeOK, HistoryInv, DeliveryWitnessed
  <2>2. CASE attempts[k] # {}
    BY <2>1, <2>2 DEF HistoryInv, AttemptKeepsJob
  <2>3. CASE attempts[k] = {}
    BY <1>1, <2>1, <2>3
       DEF Witnessed, Answered, InTransaction, HistoryInv, TransactionKeepsJob
  <2> QED BY <2>2, <2>3
<1> QED BY <1>1 DEF HistoryKeepsItsJob, HistoryInv, ReviewKeepsJob

(***************************************************************************)
(* Steps that leave rows' existence, attempts, reviews, workers and        *)
(* deliveries alone.                                                       *)
(***************************************************************************)
LEMMA HistoryFrame ==
    ASSUME HistoryInv, UNCHANGED <<live, reviewed, attempts, worker, delivered, unrecorded>>
    PROVE  HistoryInv'
BY DEF HistoryInv, ReviewKeepsJob, AttemptKeepsJob, TransactionKeepsJob, DeliveryWitnessed,
       Witnessed

(***************************************************************************)
(* A run that is not yet in its transaction moves on or ends.              *)
(***************************************************************************)
LEMMA HistoryBefore ==
    ASSUME TypeOK, HistoryInv, NEW w \in Workers, worker[w].pc \notin InTransaction,
           UNCHANGED <<live, reviewed, attempts, delivered, unrecorded>>,
           \A v \in Workers : v # w => worker'[v] = worker[v],
           worker'[w].pc \in InTransaction => worker'[w].job \in live
    PROVE  HistoryInv'
<1>1. \A v \in Workers : worker[v].pc \in Answered => worker'[v] = worker[v]
  BY DEF Answered, InTransaction
<1>2. DeliveryWitnessed'
  BY <1>1 DEF HistoryInv, DeliveryWitnessed, Witnessed
<1>3. TransactionKeepsJob'
  BY DEF HistoryInv, TransactionKeepsJob
<1> QED BY <1>2, <1>3 DEF HistoryInv, ReviewKeepsJob, AttemptKeepsJob

LEMMA RunHistory ==
    ASSUME TypeOK, HistoryInv, NEW w \in Workers, RunStep(w) PROVE HistoryInv'
<1> USE DEF table, keys, control, history
<1> DEFINE j == worker[w].job
<1>0. /\ \A pc : Goto(w, pc) => /\ \A v \in Workers : v # w => worker'[v] = worker[v]
                                /\ worker'[w].pc = pc /\ worker'[w].job = j
      /\ Return(w) => /\ \A v \in Workers : v # w => worker'[v] = worker[v]
                      /\ worker'[w].pc = "idle"
  <2>1. worker[w] \in WorkerStates
    BY DEF TypeOK
  <2> QED BY <2>1 DEF TypeOK, Goto, Return, Idle, WorkerStates
<1>1. CASE TakeJob(w)
  BY <1>1, HistoryBefore DEF TypeOK, TakeJob, At, InTransaction
<1>2. CASE CheckCampaign(w)
  BY <1>2, <1>0, HistoryBefore DEF CheckCampaign, At, InTransaction
<1>3. CASE Block(w) \/ Throttle(w) \/ DupKeyAbsent(w) \/ SetDupKey(w)
  BY <1>3, <1>0, HistoryBefore DEF Block, Throttle, DupKeyAbsent, SetDupKey, At, InTransaction
<1>4. CASE FlushAttempt(w)
  BY <1>4, <1>0, HistoryBefore DEF FlushAttempt, At, InTransaction
<1>5. CASE Deliver(w) \/ Refuse(w)
  <2>1. /\ UNCHANGED <<live, reviewed, attempts, unrecorded>>
        /\ delivered' \in {delivered, delivered \cup {j}}
        /\ \A v \in Workers : v # w => worker'[v] = worker[v]
        /\ worker'[w].pc \in Answered /\ worker'[w].job = j /\ worker[w].pc = "flushed"
    BY <1>5, <1>0 DEF Deliver, Refuse, At, Answered
  <2>2. DeliveryWitnessed'
    BY <2>1 DEF HistoryInv, DeliveryWitnessed, Witnessed, Answered
  <2>3. TransactionKeepsJob'
    BY <2>1 DEF HistoryInv, TransactionKeepsJob, InTransaction
  <2> QED BY <2>1, <2>2, <2>3 DEF HistoryInv, ReviewKeepsJob, AttemptKeepsJob
<1>6. CASE RecordSent(w) \/ RecordFailed(w)
  <2>1. worker[w].pc \in Answered /\ j \in Jobs /\ j \in live
    BY <1>6, WorkerType
       DEF RecordSent, RecordFailed, At, Answered, HistoryInv, TransactionKeepsJob, InTransaction
  <2>2. /\ UNCHANGED <<live, reviewed, delivered, unrecorded>>
        /\ \A k \in Jobs : k # j => attempts'[k] = attempts[k]
        /\ attempts'[j] # {}
        /\ \A v \in Workers : v # w => worker'[v] = worker[v]
        /\ worker'[w].pc = "idle"
    <3>1. /\ UNCHANGED <<live, reviewed, delivered, unrecorded>> /\ Return(w)
          /\ \E a : attempts' = [attempts EXCEPT ![j] = attempts[j] \cup {a}]
      BY <1>6 DEF RecordSent, RecordFailed
    <3>2. PICK a : attempts' = [attempts EXCEPT ![j] = attempts[j] \cup {a}]
      BY <3>1
    <3>3. attempts'[j] # {} /\ \A k \in Jobs : k # j => attempts'[k] = attempts[k]
      <4> HIDE DEF j
      <4> QED BY <3>2, <2>1 DEF TypeOK
    <3> QED BY <3>1, <3>3, <1>0
  <2>3. DeliveryWitnessed'
    <3> SUFFICES ASSUME NEW k \in delivered PROVE Witnessed(k)'
      BY <2>2 DEF DeliveryWitnessed
    <3>1. k \in Jobs /\ Witnessed(k)
      BY DEF TypeOK, HistoryInv, DeliveryWitnessed
    <3>2. CASE k = j
      BY <2>2, <3>2 DEF Witnessed
    <3>3. CASE k # j
      BY <2>2, <3>1, <3>3 DEF Witnessed
    <3> QED BY <3>2, <3>3
  <2>4. TransactionKeepsJob' /\ AttemptKeepsJob'
    BY <2>1, <2>2 DEF HistoryInv, TransactionKeepsJob, AttemptKeepsJob, InTransaction
  <2> QED BY <2>2, <2>3, <2>4 DEF HistoryInv, ReviewKeepsJob
<1> QED BY <1>1, <1>2, <1>3, <1>4, <1>5, <1>6 DEF RunStep

LEMMA RequestHistory ==
    ASSUME TypeOK, HistoryInv, RequestStep PROVE HistoryInv'
<1> USE DEF table, keys, others, history
<1>1. ASSUME NEW c \in Campaigns, GenerateCampaignMembers(c) PROVE HistoryInv'
  <2>1. /\ UNCHANGED <<attempts, reviewed, worker, delivered, unrecorded>>
        /\ live \ JobsOf(c) \subseteq live'
    BY <1>1 DEF GenerateCampaignMembers
  <2>2. AttemptKeepsJob'
    BY <1>1, <2>1 DEF GenerateCampaignMembers, HistoryInv, AttemptKeepsJob
  <2>3. ReviewKeepsJob'
    BY <1>1, <2>1 DEF GenerateCampaignMembers, HistoryInv, ReviewKeepsJob
  <2>4. TransactionKeepsJob'
    BY <1>1, <2>1 DEF GenerateCampaignMembers, HistoryInv, TransactionKeepsJob, JobsOf
  <2>5. DeliveryWitnessed'
    BY <2>1 DEF HistoryInv, DeliveryWitnessed, Witnessed
  <2> QED BY <2>2, <2>3, <2>4, <2>5 DEF HistoryInv
<1>2. ASSUME NEW c \in Campaigns,
             TriggerBatch(c) \/ \E st \in {"approved", "paused"} : UpdateCampaignStatus(c, st)
      PROVE  HistoryInv'
  BY <1>2, HistoryFrame DEF TriggerBatch, UpdateCampaignStatus
<1>3. ASSUME NEW j \in Jobs, ApprovePausedJob(j) \/ RejectPausedJob(j) PROVE HistoryInv'
  <2>1. /\ UNCHANGED <<live, attempts, worker, delivered, unrecorded>>
        /\ j \in live /\ reviewed' = reviewed \cup {j}
    BY <1>3 DEF ApprovePausedJob, RejectPausedJob
  <2>2. ReviewKeepsJob'
    BY <2>1 DEF HistoryInv, ReviewKeepsJob
  <2> QED BY <2>1, <2>2 DEF HistoryInv, AttemptKeepsJob, TransactionKeepsJob,
                            DeliveryWitnessed, Witnessed
<1>4. ASSUME NEW j \in Jobs, RetryJobNow(j) PROVE HistoryInv'
  BY <1>4, HistoryFrame DEF RetryJobNow
<1> QED BY <1>1, <1>2, <1>3, <1>4 DEF RequestStep

LEMMA InterruptionHistory ==
    ASSUME TypeOK, HistoryInv, Interruption PROVE HistoryInv'
<1> USE DEF table, keys, control, others, history
<1>1. ASSUME NEW w \in Workers, WorkerCrash(w) PROVE HistoryInv'
  <2> DEFINE j == worker[w].job
  <2>1. /\ UNCHANGED <<live, reviewed, attempts, delivered>>
        /\ unrecorded' = IF j \in delivered /\ attempts[j] = {} THEN unrecorded \cup {j}
                                                               ELSE unrecorded
        /\ \A v \in Workers : v # w => worker'[v] = worker[v]
        /\ worker'[w].pc = "idle"
    BY <1>1 DEF WorkerCrash, Return, Idle, TypeOK
  <2>2. DeliveryWitnessed'
    <3> SUFFICES ASSUME NEW k \in delivered PROVE Witnessed(k)'
      BY <2>1 DEF DeliveryWitnessed
    <3>1. Witnessed(k)
      BY DEF HistoryInv, DeliveryWitnessed
    <3>2. CASE k = j
      BY <2>1, <3>2 DEF Witnessed
    <3>3. CASE k # j
      BY <2>1, <3>1, <3>3 DEF Witnessed
    <3> QED BY <3>2, <3>3
  <2>3. TransactionKeepsJob'
    BY <2>1 DEF HistoryInv, TransactionKeepsJob, InTransaction
  <2> QED BY <2>1, <2>2, <2>3 DEF HistoryInv, ReviewKeepsJob, AttemptKeepsJob
<1>2. ASSUME NEW d \in Dispatchers, DispatchInterrupted(d) PROVE HistoryInv'
  BY <1>2, HistoryFrame DEF DispatchInterrupted
<1>3. ASSUME NEW m \in Messages, DupKeyExpires(m) PROVE HistoryInv'
  BY <1>3, HistoryFrame DEF DupKeyExpires
<1> QED BY <1>1, <1>2, <1>3 DEF Interruption

(***************************************************************************)
(* For any number of jobs, campaigns, workers and interruptions,           *)
(* generate_campaign_members deletes no job whose delivery or review is on *)
(* record: the foreign keys and the lock of the flushed attempt suffice.   *)
(***************************************************************************)
THEOREM HistoryKept == Spec => []HistoryKeepsItsJob
<1>1. Init => HistoryInv
  <2> SUFFICES ASSUME Init PROVE HistoryInv
    OBVIOUS
  <2>1. \A w \in Workers : worker[w].pc = "idle"
    BY DEF Init, Idle
  <2> QED BY <2>1 DEF Init, HistoryInv, ReviewKeepsJob, AttemptKeepsJob, TransactionKeepsJob,
                      DeliveryWitnessed, InTransaction
<1>2. TypeOK /\ HistoryInv /\ [Next]_vars => HistoryInv'
  <2> SUFFICES ASSUME TypeOK, HistoryInv, [Next]_vars PROVE HistoryInv'
    OBVIOUS
  <2>1. CASE UNCHANGED vars
    BY <2>1, HistoryFrame DEF vars
  <2>2. CASE SubmitStep
    <3>1. ASSUME NEW j \in Jobs, SubmitTransactional(j) PROVE HistoryInv'
      BY <3>1 DEF SubmitTransactional, history, HistoryInv, ReviewKeepsJob, AttemptKeepsJob,
                  TransactionKeepsJob, DeliveryWitnessed, Witnessed
    <3>2. ASSUME NEW j \in Jobs, EnqueueSubmitted(j) \/ SubmitInterrupted(j) PROVE HistoryInv'
      BY <3>2, HistoryFrame DEF EnqueueSubmitted, SubmitInterrupted, table, keys, history
    <3> QED BY <2>2, <3>1, <3>2 DEF SubmitStep
  <2>3. CASE TickStep \/ ApiStep
    BY <2>3, HistoryFrame
       DEF TickStep, ApiStep, TickBegin, TickBatch, TickRetries, Mark, TickRaises,
           DispatchCommit, EnqueueRetry, table, keys, others, history
  <2> QED BY <2>1, <2>2, <2>3, RunHistory, RequestHistory, InterruptionHistory DEF Next
<1> QED BY <1>1, <1>2, TypeCorrect, HistoryInvImplies, PTL DEF Spec

-----------------------------------------------------------------------------
(***************************************************************************)
(* Why a worker delivers once per window: a delivery is counted only while *)
(* its key is set, and from seeing the key absent to delivering the worker *)
(* has not delivered the message in this window.                           *)
(***************************************************************************)
CountedUnderKey == \A m \in Messages, w \in Workers :
    inWindow[m][w] = 0 \/ (inWindow[m][w] = 1 /\ m \in dup)
Undelivered(w) == inWindow[MessageOf[worker[w].job]][w] = 0
AbsentIsUndelivered == \A w \in Workers : worker[w].pc = "absent" => Undelivered(w)
KeyedIsUndelivered == \A w \in Workers : worker[w].pc \in {"keyed", "flushed"} =>
    MessageOf[worker[w].job] \in dup /\ Undelivered(w)
WindowInv == CountedUnderKey /\ AbsentIsUndelivered /\ KeyedIsUndelivered

LEMMA WindowFrame ==
    ASSUME WindowInv, UNCHANGED <<worker, dup, inWindow>>
    PROVE  WindowInv'
BY DEF WindowInv, CountedUnderKey, AbsentIsUndelivered, KeyedIsUndelivered, Undelivered

(***************************************************************************)
(* A worker moves to a state outside the window protocol.                  *)
(***************************************************************************)
LEMMA WindowLeft ==
    ASSUME WindowInv, NEW w \in Workers, UNCHANGED <<dup, inWindow>>,
           worker'[w].pc \notin {"absent", "keyed", "flushed"},
           \A v \in Workers \ {w} : worker'[v] = worker[v]
    PROVE  WindowInv'
BY DEF WindowInv, CountedUnderKey, AbsentIsUndelivered, KeyedIsUndelivered, Undelivered

(***************************************************************************)
(* A step of a run moves this worker only: along its job, or to idle.      *)
(***************************************************************************)
LEMMA MoveOfWorker ==
    ASSUME TypeOK, NEW w \in Workers, RunStep(w)
    PROVE  /\ \A pc : Goto(w, pc) => worker'[w].pc = pc /\ worker'[w].job = worker[w].job
           /\ Return(w) => worker'[w].pc = "idle"
           /\ \A v \in Workers \ {w} : worker'[v] = worker[v]
<1> USE DEF table, keys, control, history
<1> DEFINE j == worker[w].job
<1>1. worker[w] \in WorkerStates
  BY DEF TypeOK
<1>2. /\ \A pc : Goto(w, pc) => worker'[w].pc = pc /\ worker'[w].job = j
      /\ Return(w) => worker'[w].pc = "idle"
  BY <1>1 DEF TypeOK, Goto, Return, Idle, WorkerStates
<1>3. (\E r : worker' = [worker EXCEPT ![w] = r]) \/ worker' = worker
      => \A v \in Workers \ {w} : worker'[v] = worker[v]
  BY DEF TypeOK
<1>4. ASSUME NEW pc, Goto(w, pc) PROVE \E r : worker' = [worker EXCEPT ![w] = r]
  BY <1>4 DEF Goto
<1>5. Return(w) => \E r : worker' = [worker EXCEPT ![w] = r]
  BY DEF Return
<1>6. TakeJob(w) => (\E r : worker' = [worker EXCEPT ![w] = r]) \/ worker' = worker
  BY DEF TakeJob
<1> QED
  BY <1>2, <1>3, <1>4, <1>5, <1>6
  DEF RunStep, CheckCampaign, Block, Throttle, DupKeyAbsent, SetDupKey, FlushAttempt,
      Deliver, Refuse, RecordSent, RecordFailed

LEMMA RunWindow == ASSUME TypeOK, WindowInv, NEW w \in Workers, RunStep(w) PROVE WindowInv'
<1> USE DEF table, keys, control, history
<1> DEFINE j == worker[w].job
<1>1. CASE TakeJob(w)
  <2>1. worker'[w].pc \in {"loaded", "idle"} /\ UNCHANGED <<dup, inWindow>>
    BY <1>1 DEF TypeOK, TakeJob, At
  <2> QED BY MoveOfWorker, <2>1, WindowLeft
<1>2. CASE CheckCampaign(w)
  <2>1. worker'[w].pc \in {"cleared", "idle"} /\ UNCHANGED <<dup, inWindow>>
    BY <1>2, MoveOfWorker DEF CheckCampaign
  <2> QED BY MoveOfWorker, <2>1, WindowLeft
<1>3. CASE Block(w) \/ Throttle(w) \/ Refuse(w) \/ RecordSent(w) \/ RecordFailed(w)
  <2>1. worker'[w].pc \in {"failed", "idle"} /\ UNCHANGED <<dup, inWindow>>
    BY <1>3, MoveOfWorker DEF Block, Throttle, Refuse, RecordSent, RecordFailed
  <2> QED BY MoveOfWorker, <2>1, WindowLeft
<1>4. CASE DupKeyAbsent(w)
  <2>1. /\ MessageOf[j] \notin dup /\ worker'[w].pc = "absent" /\ worker'[w].job = j
        /\ UNCHANGED <<dup, inWindow>>
    BY <1>4, MoveOfWorker DEF DupKeyAbsent
  <2>2. MessageOf[j] \in Messages
    BY <1>4, WorkerType, JobAssumption DEF DupKeyAbsent, At
  <2>3. Undelivered(w)
    BY <2>1, <2>2 DEF WindowInv, CountedUnderKey, Undelivered
  <2> QED BY MoveOfWorker, <2>1, <2>3
          DEF WindowInv, CountedUnderKey, AbsentIsUndelivered, KeyedIsUndelivered, Undelivered
<1>5. CASE SetDupKey(w)
  <2>1. /\ worker[w].pc = "absent" /\ worker'[w].pc = "keyed" /\ worker'[w].job = j
        /\ dup' = dup \cup {MessageOf[j]} /\ UNCHANGED inWindow
    BY <1>5, MoveOfWorker DEF SetDupKey, At
  <2> QED BY MoveOfWorker, <2>1
          DEF WindowInv, CountedUnderKey, AbsentIsUndelivered, KeyedIsUndelivered, Undelivered
<1>6. CASE FlushAttempt(w)
  <2>1. /\ worker[w].pc = "keyed" /\ UNCHANGED <<dup, inWindow>>
        /\ \/ worker'[w].pc = "flushed" /\ worker'[w].job = j
           \/ worker'[w].pc = "idle"
    BY <1>6, MoveOfWorker DEF FlushAttempt, At
  <2> QED BY MoveOfWorker, <2>1
          DEF WindowInv, CountedUnderKey, AbsentIsUndelivered, KeyedIsUndelivered, Undelivered
<1>7. CASE Deliver(w)
  <2>1. j \in Jobs
    BY <1>7, WorkerType DEF Deliver, At
  <2>2. MessageOf[j] \in dup /\ inWindow[MessageOf[j]][w] = 0
    BY <1>7 DEF Deliver, At, WindowInv, KeyedIsUndelivered, Undelivered
  <2>3. inWindow' = [inWindow EXCEPT ![MessageOf[j]][w] = @ + 1]
        /\ UNCHANGED dup /\ worker'[w].pc \in {"accepted", "failed"}
    BY <1>7, MoveOfWorker DEF Deliver
  <2>4. inWindow'[MessageOf[j]][w] = 1
        /\ \A m \in Messages, v \in Workers :
               m # MessageOf[j] \/ v # w => inWindow'[m][v] = inWindow[m][v]
    <3>1. /\ inWindow'[MessageOf[j]][w] = inWindow[MessageOf[j]][w] + 1
          /\ \A m \in Messages, v \in Workers :
                 m # MessageOf[j] \/ v # w => inWindow'[m][v] = inWindow[m][v]
      <4> HIDE DEF j
      <4> QED BY <2>1, <2>3, Delivered
    <3> QED BY <2>2, <3>1
  <2>5. CountedUnderKey'
    BY <2>2, <2>3, <2>4 DEF WindowInv, CountedUnderKey
  <2>6. ASSUME NEW v \in Workers, worker[v].pc \in {"absent", "keyed", "flushed"}, v # w
        PROVE  inWindow'[MessageOf[worker[v].job]][v] = inWindow[MessageOf[worker[v].job]][v]
    <3>1. worker[v].job \in Jobs
      BY <2>6, WorkerType
    <3> QED BY <2>4, <2>6, <3>1, JobAssumption
  <2> QED BY MoveOfWorker, <2>3, <2>5, <2>6
          DEF WindowInv, AbsentIsUndelivered, KeyedIsUndelivered, Undelivered
<1> QED BY <1>1, <1>2, <1>3, <1>4, <1>5, <1>6, <1>7 DEF RunStep

(***************************************************************************)
(* A worker sends a phone the same text at most once per duplicate window, *)
(* for any workers, jobs, requests, crashes and ambiguous answers of the   *)
(* provider: with the one worker process that docker-compose starts,       *)
(* nothing is sent twice.                                                  *)
(***************************************************************************)
THEOREM DeliveredOnce == Spec => []AtMostOneDeliveryPerWindow
<1>1. Init => WindowInv
  BY DEF Init, Idle, WindowInv, CountedUnderKey, AbsentIsUndelivered, KeyedIsUndelivered, Undelivered
<1>2. TypeOK /\ WindowInv /\ [Next]_vars => WindowInv'
  <2> SUFFICES ASSUME TypeOK, WindowInv, [Next]_vars PROVE WindowInv'
    OBVIOUS
  <2> USE DEF table, keys, control, others, history
  <2>1. CASE UNCHANGED vars
    BY <2>1, WindowFrame DEF vars
  <2>2. CASE SubmitStep
    BY <2>2, WindowFrame DEF SubmitStep, SubmitTransactional, EnqueueSubmitted, SubmitInterrupted
  <2>3. CASE \E w \in Workers : RunStep(w)
    BY <2>3, RunWindow
  <2>4. CASE TickStep \/ ApiStep
    BY <2>4, WindowFrame
       DEF TickStep, ApiStep, TickBegin, TickBatch, TickRetries, Mark, TickRaises,
           DispatchCommit, EnqueueRetry
  <2>5. CASE RequestStep
    BY <2>5, WindowFrame
       DEF RequestStep, TriggerBatch, GenerateCampaignMembers, UpdateCampaignStatus,
           ApprovePausedJob, RejectPausedJob, RetryJobNow
  <2>6. CASE Interruption
    <3>1. ASSUME NEW w \in Workers, WorkerCrash(w) PROVE WindowInv'
      <4>1. worker'[w].pc = "idle" /\ \A v \in Workers \ {w} : worker'[v] = worker[v]
        BY <3>1 DEF WorkerCrash, Return, Idle, TypeOK
      <4> QED BY <3>1, <4>1, WindowLeft DEF WorkerCrash
    <3>2. ASSUME NEW d \in Dispatchers, DispatchInterrupted(d) PROVE WindowInv'
      BY <3>2, WindowFrame DEF DispatchInterrupted
    <3>3. ASSUME NEW m \in Messages, DupKeyExpires(m) PROVE WindowInv'
      <4>1. /\ \A n \in Messages : n # m => inWindow'[n] = inWindow[n]
            /\ inWindow'[m] = [w \in Workers |-> 0]
        BY <3>3 DEF DupKeyExpires, TypeOK
      <4>2. \A n \in Messages, w \in Workers : inWindow'[n][w] \in {0, inWindow[n][w]}
        BY <4>1
      <4>3. CountedUnderKey'
        BY <3>3, <4>1 DEF DupKeyExpires, WindowInv, CountedUnderKey
      <4>4. \A w \in Workers : worker[w].pc # "idle" => MessageOf[worker[w].job] \in Messages
        BY WorkerType, JobAssumption
      <4> QED BY <3>3, <4>2, <4>3, <4>4
              DEF DupKeyExpires, WindowInv, AbsentIsUndelivered, KeyedIsUndelivered,
                  Undelivered, InTransaction
    <3> QED BY <2>6, <3>1, <3>2, <3>3 DEF Interruption
  <2> QED BY <2>1, <2>2, <2>3, <2>4, <2>5, <2>6 DEF Next
<1>3. WindowInv => AtMostOneDeliveryPerWindow
  BY DEF WindowInv, CountedUnderKey, AtMostOneDeliveryPerWindow
<1> QED BY <1>1, <1>2, <1>3, TypeCorrect, PTL DEF Spec
-----------------------------------------------------------------------------
(***************************************************************************)
(* Why "sent" is on record: RecordSent alone writes it, with its attempt;  *)
(* every other UPDATE writes another status or leaves the column alone.    *)
(***************************************************************************)
SentInv == \A j \in Jobs : row[j].status = "sent" => "sent" \in attempts[j]
StatusKept(j) == row'[j].status \in {row[j].status} \cup (Statuses \ {"sent"})

LEMMA UpdatedStatus ==
    ASSUME NEW c, NEW s, NEW n
    PROVE  Updated(c, s, n).status \in {c.status, n.status}
BY DEF Updated, Column

LEMMA RetryRowStatus ==
    ASSUME NEW c, NEW s \in Rows, NEW unlocked
    PROVE  RetryRow(c, s, unlocked).status \in {c.status, "rejected", "approved_for_retry"}
<1> DEFINE n1 == [s EXCEPT !.retries = s.retries + 1, !.status = "rejected", !.locked = unlocked]
           n2 == [s EXCEPT !.retries = s.retries + 1, !.status = "approved_for_retry",
                           !.locked = FALSE]
<1>1. n1.status = "rejected" /\ n2.status = "approved_for_retry"
  BY DEF Rows
<1> HIDE DEF n1, n2
<1>2. Updated(c, s, n1).status \in {c.status, "rejected"}
      /\ Updated(c, s, n2).status \in {c.status, "approved_for_retry"}
  BY <1>1, UpdatedStatus
<1>3. [Updated(c, s, n2) EXCEPT !.backoff = TRUE].status = Updated(c, s, n2).status
  BY DEF Updated
<1> QED BY <1>2, <1>3 DEF RetryRow, n1, n2

(***************************************************************************)
(* A commit for one job touches no other row, and its status is one of the *)
(* old and the new.                                                        *)
(***************************************************************************)
LEMMA CommitOther ==
    ASSUME TypeOK, NEW j \in Jobs, NEW r, Commit(j, r)
    PROVE  /\ \A k \in Jobs \ {j} : row'[k] = row[k]
           /\ row'[j] \in {row[j], r}
BY DEF TypeOK, Commit

LEMMA SentFrame ==
    ASSUME SentInv, \A j \in Jobs : StatusKept(j) /\ attempts[j] \subseteq attempts'[j]
    PROVE  SentInv'
BY DEF SentInv, StatusKept

LEMMA RunSent == ASSUME TypeOK, SentInv, NEW w \in Workers, RunStep(w) PROVE SentInv'
<1> USE DEF keys, table, control, history, bounds
<1> DEFINE j == worker[w].job
           s == worker[w].snap
<1>0. ASSUME worker[w].pc # "idle" PROVE j \in Jobs /\ s \in Rows
  BY <1>0, WorkerType
<1>1. CASE UNCHANGED <<row, attempts>>
  BY <1>1 DEF SentInv
<1>2. ASSUME worker[w].pc # "idle", NEW r, Commit(j, r), UNCHANGED attempts,
             r.status \in {row[j].status} \cup (Statuses \ {"sent"})
      PROVE  SentInv'
  <2> HIDE DEF j
  <2>1. \A k \in Jobs : StatusKept(k)
    BY <1>0, <1>2, CommitOther DEF StatusKept
  <2> QED BY <1>2, <2>1, SentFrame
<1>3. CASE CheckCampaign(w)
  <2> DEFINE n == [s EXCEPT !.status = "paused", !.locked = FALSE]
  <2>1. worker[w].pc # "idle"
    BY <1>3 DEF CheckCampaign, At
  <2>2. UNCHANGED row \/ Commit(j, Updated(row[j], s, n))
    BY <1>3 DEF CheckCampaign, Save
  <2>3. n.status = "paused"
    BY <1>0, <2>1 DEF Rows
  <2>4. Updated(row[j], s, n).status \in {row[j].status, "paused"}
    <3> HIDE DEF n
    <3> QED BY <2>3, UpdatedStatus
  <2>5. UNCHANGED attempts
    BY <1>3 DEF CheckCampaign
  <2> HIDE DEF n, j, s
  <2> QED BY <1>1, <1>2, <2>1, <2>2, <2>4, <2>5 DEF Statuses
<1>4. CASE Block(w)
  <2>1. worker[w].pc # "idle"
    BY <1>4 DEF Block, At
  <2>2. PICK locked \in {FALSE, s.locked} :
            Commit(j, Updated(row[j], s, [s EXCEPT !.status = "blocked", !.locked = locked]))
    BY <1>4 DEF Block, Save
  <2> DEFINE n == [s EXCEPT !.status = "blocked", !.locked = locked]
  <2>3. n.status = "blocked"
    BY <1>0, <2>1 DEF Rows
  <2>4. Updated(row[j], s, n).status \in {row[j].status, "blocked"}
    <3> HIDE DEF n
    <3> QED BY <2>3, UpdatedStatus
  <2>5. UNCHANGED attempts /\ Commit(j, Updated(row[j], s, n))
    BY <1>4, <2>2 DEF Block
  <2> HIDE DEF n, j, s
  <2> QED BY <1>2, <2>1, <2>4, <2>5 DEF Statuses
<1>5. CASE Throttle(w)
  <2>1. worker[w].pc # "idle" /\ UNCHANGED attempts /\ Commit(j, RetryRow(row[j], s, s.locked))
    BY <1>5 DEF Throttle, At, Save
  <2>2. RetryRow(row[j], s, s.locked).status
            \in {row[j].status, "rejected", "approved_for_retry"}
    BY <1>0, <2>1, RetryRowStatus
  <2> HIDE DEF j, s
  <2> QED BY <1>2, <2>1, <2>2 DEF Statuses
<1>6. CASE RecordSent(w)
  <2> DEFINE r == Updated(row[j], s, [s EXCEPT !.status = "sent", !.locked = FALSE])
  <2>1. worker[w].pc # "idle" /\ Commit(j, r) /\ attempts' = [attempts EXCEPT ![j] = @ \cup {"sent"}]
    BY <1>6 DEF RecordSent, At, Save
  <2>2. j \in Jobs
    BY <1>0, <2>1
  <2> HIDE DEF j, r
  <2>3. /\ \A k \in Jobs \ {j} : row'[k] = row[k] /\ attempts'[k] = attempts[k]
        /\ "sent" \in attempts'[j]
    BY <2>1, <2>2, CommitOther DEF TypeOK
  <2> QED BY <2>3 DEF SentInv
<1>7. CASE RecordFailed(w)
  <2>1. /\ worker[w].pc # "idle" /\ Commit(j, RetryRow(row[j], s, FALSE))
        /\ attempts' = [attempts EXCEPT ![j] = @ \cup {"failed"}]
    BY <1>7 DEF RecordFailed, At, Save
  <2>2. RetryRow(row[j], s, FALSE).status \in {row[j].status, "rejected", "approved_for_retry"}
    BY <1>0, <2>1, RetryRowStatus
  <2>3. \A k \in Jobs : attempts[k] \subseteq attempts'[k]
    <3> HIDE DEF j
    <3> QED BY <2>1 DEF TypeOK
  <2>4. j \in Jobs
    BY <1>0, <2>1
  <2> HIDE DEF j, s
  <2>5. \A k \in Jobs : StatusKept(k)
    BY <2>1, <2>2, <2>4, CommitOther DEF StatusKept, Statuses
  <2> QED BY <2>3, <2>5, SentFrame
<1> QED
  BY <1>1, <1>3, <1>4, <1>5, <1>6, <1>7
  DEF RunStep, TakeJob, DupKeyAbsent, SetDupKey, FlushAttempt, Deliver, Refuse

(***************************************************************************)
(* A job on which the dashboard says "sent" has an attempt recorded as     *)
(* sent, for any workers, dispatchers, requests and interruptions.         *)
(***************************************************************************)
THEOREM SentRecorded == Spec => []SentIsRecorded
<1>1. Init => SentInv
  BY DEF Init, SentInv, NewRow
<1>2. TypeOK /\ SentInv /\ [Next]_vars => SentInv'
  <2> SUFFICES ASSUME TypeOK, SentInv, [Next]_vars PROVE SentInv'
    OBVIOUS
  <2> USE DEF table, keys, control, others, history
  <2>0. ASSUME UNCHANGED <<row, attempts>> PROVE SentInv'
    BY <2>0 DEF SentInv
  <2>1. CASE UNCHANGED vars
    BY <2>0, <2>1 DEF vars
  <2>2. CASE SubmitStep
    BY <2>0, <2>2 DEF SubmitStep, SubmitTransactional, EnqueueSubmitted, SubmitInterrupted
  <2>3. CASE TickStep \/ ApiStep
    <3>1. ASSUME NEW d \in Dispatchers, DispatchCommit(d) PROVE SentInv'
      <4>1. UNCHANGED attempts
        BY <3>1 DEF DispatchCommit
      <4>2. \A j \in Jobs : [row[j] EXCEPT !.locked = TRUE].status = row[j].status
        BY DEF TypeOK, Rows
      <4>3. \A j \in Jobs : row'[j].status = row[j].status
        BY <3>1, <4>2 DEF DispatchCommit
      <4> QED BY <4>1, <4>3 DEF SentInv
    <3> QED BY <2>0, <2>3, <3>1
            DEF TickStep, ApiStep, TickBegin, TickBatch, TickRetries, Mark, TickRaises,
                EnqueueRetry, Dispatchers
  <2>4. CASE RequestStep
    <3>1. ASSUME NEW j \in Jobs, ApprovePausedJob(j) \/ RejectPausedJob(j) \/ RetryJobNow(j)
          PROVE  SentInv'
      <4>1. UNCHANGED attempts
        BY <3>1 DEF ApprovePausedJob, RejectPausedJob, RetryJobNow
      <4>2. row[j] \in Rows
        BY DEF TypeOK
      <4> DEFINE a == [row[j] EXCEPT !.status = "approved_for_retry", !.locked = FALSE]
                 b == [row[j] EXCEPT !.status = "rejected"]
                 n == [row[j] EXCEPT !.status = "approved_for_retry", !.locked = FALSE,
                                     !.backoff = FALSE]
      <4>5. row' \in {[row EXCEPT ![j] = a], [row EXCEPT ![j] = b], [row EXCEPT ![j] = n]}
        BY <3>1 DEF ApprovePausedJob, RejectPausedJob, RetryJobNow
      <4>6. {a.status, b.status, n.status} \subseteq {"approved_for_retry", "rejected"}
        BY <4>2 DEF Rows
      <4> HIDE DEF a, b, n
      <4>3. \E r : row' = [row EXCEPT ![j] = r] /\ r.status \in {"approved_for_retry", "rejected"}
        BY <4>5, <4>6
      <4>4. \A k \in Jobs : row'[k].status \in {row[k].status, "approved_for_retry", "rejected"}
        BY <4>3 DEF TypeOK
      <4> QED BY <4>1, <4>4 DEF SentInv
    <3> QED BY <2>0, <2>4, <3>1
            DEF RequestStep, TriggerBatch, GenerateCampaignMembers, UpdateCampaignStatus
  <2>5. CASE Interruption
    BY <2>0, <2>5 DEF Interruption, WorkerCrash, DispatchInterrupted, DupKeyExpires
  <2> QED BY <2>1, <2>2, <2>3, <2>4, <2>5, RunSent DEF Next
<1>3. TypeOK /\ SentInv => SentIsRecorded
  BY DEF TypeOK, SentInv, SentIsRecorded
<1> QED BY <1>1, <1>2, <1>3, TypeCorrect, PTL DEF Spec
-----------------------------------------------------------------------------
(***************************************************************************)
(* Why a pause stops a campaign: a worker with a run past the check has    *)
(* delivered nothing late, and no run of the campaign gets past the check  *)
(* while it is not approved.                                               *)
(***************************************************************************)
UnderWay(w, c) == /\ worker[w].pc \in {"cleared", "absent", "keyed", "flushed"}
                  /\ CampaignOf[worker[w].job] = c
Stopping(w, c) == /\ campaign[c] = "approved" \/ UnderWay(w, c) => late[c][w] = 0
                  /\ late[c][w] <= 1
PauseInv == \A c \in Campaigns, w \in Workers : Stopping(w, c)

(***************************************************************************)
(* Runs that stop, and runs that get past the check of an approved         *)
(* campaign, keep the account.                                             *)
(***************************************************************************)
LEMMA PauseFrame ==
    ASSUME PauseInv, UNCHANGED <<campaign, late>>,
           \A c \in Campaigns, w \in Workers :
               UnderWay(w, c)' => UnderWay(w, c) \/ campaign[c] = "approved"
    PROVE  PauseInv'
BY DEF PauseInv, Stopping

(***************************************************************************)
(* A step that leaves every other worker alone and takes this one nowhere  *)
(* past the check.                                                         *)
(***************************************************************************)
LEMMA PauseMove ==
    ASSUME PauseInv, NEW w \in Workers, UNCHANGED <<campaign, late>>,
           \A v \in Workers \ {w} : worker'[v] = worker[v],
           \/ worker'[w].pc \notin {"cleared", "absent", "keyed", "flushed"}
           \/ /\ worker[w].pc \in {"cleared", "absent", "keyed", "flushed"}
              /\ worker'[w].job = worker[w].job
    PROVE  PauseInv'
<1>1. \A c \in Campaigns, v \in Workers : UnderWay(v, c)' => UnderWay(v, c)
  BY DEF UnderWay
<1> QED BY <1>1, PauseFrame

LEMMA RunPause == ASSUME TypeOK, PauseInv, NEW w \in Workers, RunStep(w) PROVE PauseInv'
<1> USE DEF control, history
<1> DEFINE j == worker[w].job
<1>1. CASE TakeJob(w)
  <2>1. worker'[w].pc \in {"loaded", "idle"} /\ UNCHANGED <<campaign, late>>
    BY <1>1 DEF TypeOK, TakeJob, At
  <2> QED BY <2>1, MoveOfWorker, PauseMove
<1>2. CASE CheckCampaign(w)
  <2>1. UNCHANGED <<campaign, late>> /\ worker[w].pc = "loaded"
    BY <1>2 DEF CheckCampaign, At
  <2>2. CASE CampaignApproved(j)
    <3>1. worker'[w].job = j
      BY <1>2, <2>2, MoveOfWorker DEF CheckCampaign
    <3>2. \A c \in Campaigns : CampaignOf[j] = c => campaign[c] = "approved"
      BY <2>2, JobAssumption DEF CampaignApproved
    <3>3. \A c \in Campaigns, v \in Workers :
              UnderWay(v, c)' => UnderWay(v, c) \/ campaign[c] = "approved"
      BY <3>1, <3>2, <1>2, MoveOfWorker DEF UnderWay
    <3> QED BY <2>1, <3>3, PauseFrame
  <2>3. CASE ~CampaignApproved(j)
    BY <1>2, <2>1, <2>3, MoveOfWorker, PauseMove DEF CheckCampaign
  <2> QED BY <2>2, <2>3
<1>3. CASE Block(w) \/ Throttle(w) \/ Refuse(w) \/ RecordSent(w) \/ RecordFailed(w)
  <2>1. worker'[w].pc \in {"failed", "idle"} /\ UNCHANGED <<campaign, late>>
    BY <1>3, MoveOfWorker DEF Block, Throttle, Refuse, RecordSent, RecordFailed
  <2> QED BY <2>1, MoveOfWorker, PauseMove
<1>4. CASE DupKeyAbsent(w) \/ SetDupKey(w) \/ FlushAttempt(w)
  <2>1. /\ worker[w].pc \in {"cleared", "absent", "keyed"} /\ UNCHANGED <<campaign, late>>
        /\ worker'[w].job = j \/ worker'[w].pc = "idle"
    BY <1>4, MoveOfWorker DEF DupKeyAbsent, SetDupKey, FlushAttempt, At
  <2> QED BY <2>1, MoveOfWorker, PauseMove
<1>5. CASE Deliver(w)
  <2>1. /\ worker[w].pc = "flushed" /\ worker'[w].pc \in {"accepted", "failed"}
        /\ UNCHANGED campaign
    BY <1>5, MoveOfWorker DEF Deliver, At
  <2>2. CASE CampaignApproved(j)
    <3>1. UNCHANGED late
      BY <1>5, <2>2 DEF Deliver
    <3> QED BY <2>1, <3>1, MoveOfWorker, PauseMove
  <2>3. CASE ~CampaignApproved(j)
    <3> SUFFICES ASSUME NEW c \in Campaigns, NEW v \in Workers PROVE Stopping(v, c)'
      BY DEF PauseInv
    <3>1. Stopping(v, c) /\ late[c][v] \in Nat
      BY DEF PauseInv, TypeOK
    <3>2. late' = [late EXCEPT ![CampaignOf[j]] =
                      [late[CampaignOf[j]] EXCEPT ![w] = late[CampaignOf[j]][w] + 1]]
      BY <1>5, <2>3 DEF Deliver
    <3>3. CASE v = w /\ c = CampaignOf[j]
      <4>1. late'[c][v] = late[c][v] + 1
        BY <3>2, <3>3 DEF TypeOK
      <4>2. campaign[c] # "approved" /\ UnderWay(v, c) /\ ~UnderWay(v, c)'
        BY <2>1, <2>3, <3>3 DEF UnderWay, CampaignApproved
      <4> QED BY <2>1, <3>1, <4>1, <4>2 DEF Stopping
    <3>4. CASE ~(v = w /\ c = CampaignOf[j])
      <4>1. late'[c][v] = late[c][v]
        BY <3>2, <3>4 DEF TypeOK
      <4>2. UnderWay(v, c)' => UnderWay(v, c)
        BY <2>1, MoveOfWorker DEF UnderWay
      <4> QED BY <2>1, <3>1, <4>1, <4>2 DEF Stopping
    <3> QED BY <3>3, <3>4
  <2> QED BY <2>2, <2>3
<1> QED BY <1>1, <1>2, <1>3, <1>4, <1>5 DEF RunStep

(***************************************************************************)
(* After a pause no worker delivers a second message of the campaign, for  *)
(* any number of workers, jobs, campaigns, pauses, retries and crashes.    *)
(***************************************************************************)
THEOREM PausedStops == Spec => []PauseStopsCampaign
<1>1. Init => PauseInv
  BY DEF Init, PauseInv, Stopping, UnderWay, Idle
<1>2. TypeOK /\ PauseInv /\ [Next]_vars => PauseInv'
  <2> SUFFICES ASSUME TypeOK, PauseInv, [Next]_vars PROVE PauseInv'
    OBVIOUS
  <2> USE DEF table, keys, others, history
  <2>0. ASSUME UNCHANGED <<campaign, late, worker>> PROVE PauseInv'
    BY <2>0, PauseFrame DEF UnderWay
  <2>1. CASE UNCHANGED vars
    BY <2>0, <2>1 DEF vars
  <2>2. CASE SubmitStep
    BY <2>0, <2>2 DEF SubmitStep, SubmitTransactional, EnqueueSubmitted, SubmitInterrupted
  <2>3. CASE TickStep \/ ApiStep
    BY <2>0, <2>3
       DEF TickStep, ApiStep, TickBegin, TickBatch, TickRetries, Mark, TickRaises,
           DispatchCommit, EnqueueRetry
  <2>4. CASE RequestStep
    <3>1. ASSUME NEW c \in Campaigns, NEW status \in {"approved", "paused"},
                 UpdateCampaignStatus(c, status)
          PROVE  PauseInv'
      <4> SUFFICES ASSUME NEW d \in Campaigns, NEW w \in Workers PROVE Stopping(w, d)'
        BY DEF PauseInv
      <4>1. Stopping(w, d)
        BY DEF PauseInv
      <4>2. UnderWay(w, d)' = UnderWay(w, d)
        BY <3>1 DEF UpdateCampaignStatus, UnderWay
      <4>3. /\ campaign' = [campaign EXCEPT ![c] = status]
            /\ late' = IF status = "approved" THEN [late EXCEPT ![c] = [v \in Workers |-> 0]]
                                              ELSE late
        BY <3>1 DEF UpdateCampaignStatus
      <4>4. \/ late'[d][w] = 0
            \/ late'[d][w] = late[d][w] /\ (campaign'[d] = "approved" => campaign[d] = "approved")
        BY <4>3 DEF TypeOK
      <4> QED BY <4>1, <4>2, <4>4 DEF Stopping
    <3> QED BY <2>0, <2>4, <3>1
            DEF RequestStep, TriggerBatch, GenerateCampaignMembers, ApprovePausedJob,
                RejectPausedJob, RetryJobNow
  <2>5. CASE Interruption
    <3>1. ASSUME NEW w \in Workers, WorkerCrash(w) PROVE PauseInv'
      <4>1. worker'[w].pc = "idle" /\ \A v \in Workers \ {w} : worker'[v] = worker[v]
        BY <3>1 DEF WorkerCrash, Return, Idle, TypeOK
      <4> QED BY <3>1, <4>1, PauseMove DEF WorkerCrash, control
    <3> QED BY <2>0, <2>5, <3>1 DEF Interruption, DispatchInterrupted, DupKeyExpires, control
  <2> QED BY <2>1, <2>2, <2>3, <2>4, <2>5, RunPause DEF Next
<1>3. PauseInv => PauseStopsCampaign
  BY DEF PauseInv, Stopping, PauseStopsCampaign
<1> QED BY <1>1, <1>2, <1>3, TypeCorrect, PTL DEF Spec
-----------------------------------------------------------------------------
(***************************************************************************)
(* Why a queued job is carried on: no step writes "queued" again, so a     *)
(* worker that holds a queued job has loaded "queued" and writes its own   *)
(* outcome; a flag is committed only for an entry that reached the queue;  *)
(* keys of deleted jobs are not used again.                                *)
(***************************************************************************)
Placed(j) == \E i \in 1..Len(queue) : queue[i] = j
Held(j) == j \in pending \cup lost \/ Placed(j) \/ \E w \in Workers : worker[w].job = j
Marked(j) == \E d \in Dispatchers : j \in session[d].marked
FreshIsUnused == \A j \in fresh :
    /\ j \notin live /\ row[j] = NewRow /\ \A w \in Workers : worker[w].job # j
    /\ \A d \in Dispatchers : j \notin session[d].batch \cup session[d].marked
QueuedIsLoaded == \A w \in Workers :
    worker[w].job \in live /\ row[worker[w].job].status = "queued"
    => worker[w].snap.status = "queued"
QueuedIsHeld == \A j \in live : row[j].status = "queued" =>
    Held(j) \/ (CampaignOf[j] # NoCampaign /\ ~row[j].locked /\ ~Marked(j))
CarryInv == FreshIsUnused /\ QueuedIsLoaded /\ QueuedIsHeld

(***************************************************************************)
(* What a step may do to rows, workers, sessions and keys without losing a *)
(* queued job.                                                             *)
(***************************************************************************)
RowsKept == \A j \in Jobs :
    \/ row'[j] = row[j]
    \/ j \in live /\ row'[j].status # "queued"
    \/ j \in live /\ Marked(j) /\ row'[j].status = row[j].status
WorkersKept == \A w \in Workers :
    \/ worker'[w] = Idle
    \/ worker'[w].job = worker[w].job /\ worker'[w].snap = worker[w].snap
    \/ /\ worker'[w].job \in live /\ row' = row
       /\ worker'[w].snap = row[worker'[w].job]
SessionsKept == \A d \in Dispatchers :
    /\ session'[d].batch \cup session'[d].marked
           \subseteq session[d].batch \cup session[d].marked \cup live
    /\ \A j \in session'[d].marked : Marked(j) \/ Held(j)'
KeysKept == /\ fresh' \subseteq fresh /\ live' \subseteq live \cup (fresh \ fresh')
            /\ \A j \in live' \ live : CampaignOf[j] # NoCampaign \/ Held(j)'
HeldKept == \A j \in live \cap live' : Held(j) /\ row'[j].status = "queued" => Held(j)'

LEMMA CarryStep ==
    ASSUME TypeOK, CarryInv, RowsKept, WorkersKept, SessionsKept, KeysKept, HeldKept
    PROVE  CarryInv'
<1>1. live \subseteq Jobs /\ fresh \subseteq Jobs
  BY DEF TypeOK
<1>2. FreshIsUnused'
  <2> SUFFICES ASSUME NEW j \in fresh'
               PROVE  /\ j \notin live' /\ row'[j] = NewRow
                      /\ \A w \in Workers : worker'[w].job # j
                      /\ \A d \in Dispatchers : j \notin session'[d].batch \cup session'[d].marked
    BY DEF FreshIsUnused
  <2>1. j \in fresh /\ j \notin live /\ j \in Jobs
    BY <1>1 DEF KeysKept, CarryInv, FreshIsUnused
  <2>2. j \notin live' /\ row'[j] = NewRow
    BY <2>1 DEF KeysKept, RowsKept, CarryInv, FreshIsUnused
  <2>3. \A w \in Workers : worker'[w].job # j
    BY <2>1, JobAssumption DEF WorkersKept, CarryInv, FreshIsUnused, Idle
  <2>4. \A d \in Dispatchers : j \notin session'[d].batch \cup session'[d].marked
    BY <2>1 DEF SessionsKept, CarryInv, FreshIsUnused
  <2> QED BY <2>2, <2>3, <2>4
<1>3. QueuedIsLoaded'
  <2> SUFFICES ASSUME NEW w \in Workers, worker'[w].job \in live',
                      row'[worker'[w].job].status = "queued"
               PROVE  worker'[w].snap.status = "queued"
    BY DEF QueuedIsLoaded
  <2> DEFINE j == worker'[w].job
  <2>1. CASE worker'[w] = Idle
    BY <2>1 DEF Idle, NewRow
  <2>2. CASE worker'[w].job = worker[w].job /\ worker'[w].snap = worker[w].snap
    <3>1. j \in live
      BY <2>2 DEF KeysKept, CarryInv, FreshIsUnused
    <3>2. row[j].status = "queued"
      BY <1>1, <3>1 DEF RowsKept
    <3> QED BY <2>2, <3>1, <3>2 DEF CarryInv, QueuedIsLoaded
  <2>3. CASE row' = row /\ worker'[w].snap = row[j]
    BY <2>3
  <2> QED BY <2>1, <2>2, <2>3 DEF WorkersKept
<1>4. QueuedIsHeld'
  <2> SUFFICES ASSUME NEW j \in live', row'[j].status = "queued", ~Held(j)'
               PROVE  CampaignOf[j] # NoCampaign /\ ~row'[j].locked /\ ~Marked(j)'
    BY DEF QueuedIsHeld
  <2>1. CASE j \in live
    <3>1. row[j].status = "queued" /\ ~Held(j)
      BY <1>1, <2>1 DEF RowsKept, HeldKept
    <3>2. CampaignOf[j] # NoCampaign /\ ~row[j].locked /\ ~Marked(j)
      BY <2>1, <3>1 DEF CarryInv, QueuedIsHeld
    <3> QED BY <1>1, <2>1, <3>2 DEF RowsKept, SessionsKept, Marked
  <2>2. CASE j \notin live
    <3>1. j \in fresh /\ j \in Jobs /\ CampaignOf[j] # NoCampaign
      BY <1>1, <2>2 DEF KeysKept
    <3>2. row'[j] = NewRow /\ ~Marked(j)
      BY <2>2, <3>1 DEF RowsKept, CarryInv, FreshIsUnused, Marked
    <3> QED BY <3>1, <3>2 DEF SessionsKept, Marked, NewRow
  <2> QED BY <2>1, <2>2
<1> QED BY <1>2, <1>3, <1>4 DEF CarryInv

LEMMA AppendPlaces ==
    ASSUME TypeOK, NEW j \in Jobs, queue' = Append(queue, j)
    PROVE  Placed(j)' /\ \A k : Placed(k) => Placed(k)'
<1>1. queue \in Seq(Jobs) /\ Len(queue) \in Nat
  BY DEF TypeOK
<1>2. /\ Len(queue') = Len(queue) + 1 /\ queue'[Len(queue) + 1] = j
      /\ \A i \in 1..Len(queue) : queue'[i] = queue[i]
  BY <1>1
<1> QED BY <1>1, <1>2 DEF Placed

LEMMA TailPlaces ==
    ASSUME TypeOK, queue # <<>>, queue' = Tail(queue)
    PROVE  \A k : Placed(k) => Placed(k)' \/ k = Head(queue)
<1>1. queue \in Seq(Jobs) /\ Len(queue) \in Nat \ {0}
  BY DEF TypeOK
<1>2. /\ Len(queue') = Len(queue) - 1 /\ Head(queue) = queue[1]
      /\ \A i \in 1..(Len(queue) - 1) : queue'[i] = queue[i + 1]
  BY <1>1
<1> SUFFICES ASSUME NEW i \in 1..Len(queue), i # 1
             PROVE  i - 1 \in 1..Len(queue') /\ queue'[i - 1] = queue[i]
  BY <1>2 DEF Placed
<1>3. i - 1 \in 1..(Len(queue) - 1) /\ (i - 1) + 1 = i
  BY <1>1
<1> QED BY <1>2, <1>3

(***************************************************************************)
(* A run ends with a commit that writes another status, or with its job    *)
(* deleted.                                                                *)
(***************************************************************************)
LEMMA ReturnCarry ==
    ASSUME TypeOK, CarryInv, NEW w \in Workers, worker[w].pc # "idle", Return(w),
           UNCHANGED <<live, fresh, session, queue, pending, lost>>,
           NEW r, Commit(worker[w].job, r),
           worker[w].job \in live => r.status # "queued"
    PROVE  CarryInv'
<1> DEFINE j == worker[w].job
<1>1. j \in Jobs
  BY WorkerType
<1>2. worker' = [worker EXCEPT ![w] = Idle]
  BY DEF Return
<1> HIDE DEF j
<1>3. RowsKept /\ (j \in live => row'[j].status # "queued")
  BY <1>1 DEF RowsKept, Commit, TypeOK, j
<1>4. WorkersKept
  BY <1>2 DEF WorkersKept, TypeOK
<1>5. SessionsKept
  BY DEF SessionsKept, Marked
<1>6. KeysKept
  BY DEF KeysKept
<1>7. HeldKept
  <2> SUFFICES ASSUME NEW k \in live, Held(k), row'[k].status = "queued" PROVE Held(k)'
    BY DEF HeldKept
  <2>1. k # j
    BY <1>3
  <2>2. \A v \in Workers : worker[v].job = k => worker'[v].job = k
    BY <1>2, <2>1 DEF TypeOK, j
  <2> QED BY <2>2 DEF Held, Placed
<1> QED BY <1>3, <1>4, <1>5, <1>6, <1>7, CarryStep
LEMMA LeavesQueued ==
    ASSUME CarryInv, NEW w \in Workers, worker[w].job \in live, NEW n, n.status # "queued"
    PROVE  Updated(row[worker[w].job], worker[w].snap, n).status # "queued"
BY DEF CarryInv, QueuedIsLoaded, Updated, Column

(***************************************************************************)
(* A step of a run that only moves its worker along.                       *)
(***************************************************************************)
LEMMA GotoCarry ==
    ASSUME TypeOK, CarryInv, NEW w \in Workers, NEW pc, Goto(w, pc),
           UNCHANGED <<live, fresh, row, session, queue, pending, lost>>
    PROVE  CarryInv'
<1>1. \A v \in Workers : worker'[v].job = worker[v].job /\ worker'[v].snap = worker[v].snap
  BY DEF TypeOK, Goto, WorkerStates, Idle
<1> QED BY <1>1, CarryStep DEF RowsKept, WorkersKept, SessionsKept, KeysKept, HeldKept,
                               Held, Placed, Marked

LEMMA RunCarry == ASSUME TypeOK, CarryInv, NEW w \in Workers, RunStep(w) PROVE CarryInv'
<1> USE DEF keys, table, control, history, bounds
<1> DEFINE j == worker[w].job
           s == worker[w].snap
           Still == UNCHANGED <<live, fresh, session, queue, pending, lost>>
<1>0. ASSUME worker[w].pc # "idle" PROVE s \in Rows
  BY <1>0, WorkerType
<1>1. CASE TakeJob(w)
  <2>1. /\ worker[w].pc = "idle" /\ queue # <<>> /\ queue' = Tail(queue)
        /\ UNCHANGED <<live, fresh, row, session, pending, lost>>
    BY <1>1 DEF TakeJob, At
  <2>2. worker[w] = Idle
    BY <2>1 DEF TypeOK, WorkerStates, PastCheck, InTransaction
  <2>3. /\ \A v \in Workers \ {w} : worker'[v] = worker[v]
        /\ \/ worker'[w] = Idle /\ Head(queue) \notin live
           \/ /\ worker'[w].job = Head(queue) /\ Head(queue) \in live
              /\ worker'[w].snap = row[Head(queue)]
    BY <1>1, <2>2 DEF TypeOK, TakeJob
  <2>4. WorkersKept
    BY <2>1, <2>3 DEF WorkersKept
  <2>5. HeldKept
    <3> SUFFICES ASSUME NEW k \in live, Held(k) PROVE Held(k)'
      BY DEF HeldKept
    <3>1. k \in Jobs /\ k # NoJob
      BY JobAssumption DEF TypeOK
    <3>2. \A v \in Workers : worker[v].job = k => worker'[v].job = k
      BY <2>2, <2>3, <3>1 DEF Idle
    <3>3. Placed(k) => Placed(k)' \/ worker'[w].job = k
      BY <2>1, <2>3, TailPlaces
    <3> QED BY <2>1, <3>2, <3>3 DEF Held
  <2> QED BY <2>1, <2>4, <2>5, CarryStep DEF RowsKept, SessionsKept, KeysKept, Marked
<1>2. CASE CheckCampaign(w)
  <2> DEFINE n == [s EXCEPT !.status = "paused", !.locked = FALSE]
  <2>1. worker[w].pc # "idle" /\ Still
    BY <1>2 DEF CheckCampaign, At
  <2>2. n.status = "paused"
    BY <1>0, <2>1 DEF Rows
  <2>3. \/ Goto(w, "cleared") /\ UNCHANGED row
        \/ Commit(j, Updated(row[j], s, n)) /\ Return(w)
    BY <1>2 DEF CheckCampaign, Save
  <2> HIDE DEF n
  <2>4. j \in live => Updated(row[j], s, n).status # "queued"
    BY <2>2, LeavesQueued
  <2> QED BY <2>1, <2>3, <2>4, GotoCarry, ReturnCarry
<1>3. CASE Block(w)
  <2>1. worker[w].pc # "idle" /\ Still /\ Return(w)
    BY <1>3 DEF Block, At
  <2>2. PICK locked \in {FALSE, s.locked} :
            Commit(j, Updated(row[j], s, [s EXCEPT !.status = "blocked", !.locked = locked]))
    BY <1>3 DEF Block, Save
  <2> DEFINE n == [s EXCEPT !.status = "blocked", !.locked = locked]
  <2>3. n.status = "blocked"
    BY <1>0, <2>1 DEF Rows
  <2>4. Commit(j, Updated(row[j], s, n))
    BY <2>2
  <2> HIDE DEF n
  <2>5. j \in live => Updated(row[j], s, n).status # "queued"
    BY <2>3, LeavesQueued
  <2> QED BY <2>1, <2>4, <2>5, ReturnCarry
<1>4. ASSUME worker[w].pc # "idle", Still, Return(w), NEW unlocked,
             Commit(j, RetryRow(row[j], s, unlocked))
      PROVE  CarryInv'
  <2> DEFINE n1 == [s EXCEPT !.retries = s.retries + 1, !.status = "rejected",
                             !.locked = unlocked]
             n2 == [s EXCEPT !.retries = s.retries + 1, !.status = "approved_for_retry",
                             !.locked = FALSE]
             r == RetryRow(row[j], s, unlocked)
  <2>1. n1.status = "rejected" /\ n2.status = "approved_for_retry"
    BY <1>0, <1>4 DEF Rows
  <2>2. r \in {Updated(row[j], s, n1), [Updated(row[j], s, n2) EXCEPT !.backoff = TRUE]}
    BY DEF RetryRow
  <2> HIDE DEF n1, n2
  <2>3. j \in live => /\ Updated(row[j], s, n1).status # "queued"
                      /\ Updated(row[j], s, n2).status # "queued"
    BY <2>1, LeavesQueued
  <2>4. [Updated(row[j], s, n2) EXCEPT !.backoff = TRUE].status = Updated(row[j], s, n2).status
    BY DEF Updated
  <2>5. j \in live => r.status # "queued"
    <3> HIDE DEF r
    <3> QED BY <2>2, <2>3, <2>4
  <2> QED BY <1>4, <2>5, ReturnCarry
<1>5. CASE Throttle(w)
  BY <1>4, <1>5 DEF Throttle, At, Save
<1>6. CASE RecordFailed(w)
  BY <1>4, <1>6 DEF RecordFailed, At, Save
<1>7. CASE RecordSent(w)
  <2> DEFINE n == [s EXCEPT !.status = "sent", !.locked = FALSE]
  <2>1. worker[w].pc # "idle" /\ Still /\ Return(w) /\ Commit(j, Updated(row[j], s, n))
    BY <1>7 DEF RecordSent, At, Save
  <2>2. n.status = "sent"
    BY <1>0, <2>1 DEF Rows
  <2> HIDE DEF n
  <2>3. j \in live => Updated(row[j], s, n).status # "queued"
    BY <2>2, LeavesQueued
  <2> QED BY <2>1, <2>3, ReturnCarry
<1>8. CASE FlushAttempt(w)
  <2>1. /\ worker[w].pc # "idle" /\ Still /\ UNCHANGED row
        /\ Goto(w, "flushed") \/ (Return(w) /\ j \notin live)
    BY <1>8 DEF FlushAttempt, At
  <2>2. j \notin live => Commit(j, row[j])
    BY <2>1 DEF Commit
  <2> QED BY <2>1, <2>2, GotoCarry, ReturnCarry
<1>9. CASE DupKeyAbsent(w) \/ SetDupKey(w) \/ Deliver(w) \/ Refuse(w)
  BY <1>9, GotoCarry DEF DupKeyAbsent, SetDupKey, Deliver, Refuse
<1> QED BY <1>1, <1>2, <1>3, <1>5, <1>6, <1>7, <1>8, <1>9 DEF RunStep

LEMMA SubmitCarry == ASSUME TypeOK, CarryInv, SubmitStep PROVE CarryInv'
<1> USE DEF keys, table, history, bounds
<1>1. ASSUME NEW j \in Jobs, SubmitTransactional(j) PROVE CarryInv'
  <2>1. UNCHANGED <<row, session, worker, queue, lost>> /\ pending' = pending \cup {j}
        /\ j \in fresh /\ live' = live \cup {j} /\ fresh' = fresh \ {j}
    BY <1>1 DEF SubmitTransactional
  <2>2. Held(j)' /\ \A k : Held(k) => Held(k)'
    BY <2>1 DEF Held, Placed
  <2> QED BY <2>1, <2>2, CarryStep
          DEF RowsKept, WorkersKept, SessionsKept, KeysKept, HeldKept, Marked
<1>2. ASSUME NEW j \in Jobs, EnqueueSubmitted(j) \/ SubmitInterrupted(j) PROVE CarryInv'
  <2>1. UNCHANGED <<live, fresh, row, session, worker>>
    BY <1>2 DEF EnqueueSubmitted, SubmitInterrupted
  <2>2. \/ queue' = Append(queue, j) /\ UNCHANGED lost
        \/ UNCHANGED queue /\ lost' = lost \cup {j}
    BY <1>2 DEF EnqueueSubmitted, SubmitInterrupted, Enqueue
  <2>3. pending' = pending \ {j}
    BY <1>2 DEF EnqueueSubmitted, SubmitInterrupted
  <2>4. \A k : Held(k) => Held(k)'
    <3>1. CASE queue' = Append(queue, j) /\ UNCHANGED lost
      BY <2>1, <2>3, <3>1, AppendPlaces DEF Held
    <3>2. CASE UNCHANGED queue /\ lost' = lost \cup {j}
      BY <2>1, <2>3, <3>2 DEF Held, Placed
    <3> QED BY <2>2, <3>1, <3>2
  <2> QED BY <2>1, <2>4, CarryStep
          DEF RowsKept, WorkersKept, SessionsKept, KeysKept, HeldKept, Marked
<1> QED BY <1>1, <1>2 DEF SubmitStep
(***************************************************************************)
(* Steps of the dispatchers: what they mark they have put in the queue.    *)
(***************************************************************************)
LEMMA DispatchCarry == ASSUME TypeOK, CarryInv, TickStep \/ ApiStep PROVE CarryInv'
<1> USE DEF keys, table, others, history, bounds
<1> DEFINE Still == UNCHANGED <<live, fresh, worker, pending, lost>>
<1>0. ASSUME Still, RowsKept, SessionsKept, \A k \in Jobs : Placed(k) => Placed(k)'
      PROVE  CarryInv'
  <2>1. \A k \in live : Held(k) => Held(k)'
    BY <1>0 DEF Held, TypeOK
  <2> QED BY <1>0, <2>1, CarryStep DEF WorkersKept, KeysKept, HeldKept
<1>1. ASSUME NEW d \in Dispatchers, NEW t, session' = [session EXCEPT ![d] = t],
             t.batch \subseteq session[d].batch \cup live, t.marked \subseteq session[d].marked,
             Still, UNCHANGED <<row, queue>>
      PROVE  CarryInv'
  <2>1. SessionsKept
    BY <1>1 DEF SessionsKept, TypeOK, Marked
  <2> QED BY <1>0, <1>1, <2>1 DEF RowsKept, Placed
<1>2. CASE TickBegin
  <2> DEFINE t == [Closed EXCEPT !.pc = "marking",
                                 !.camps = {c \in Campaigns : campaign[c] = "approved"}]
  <2>1. session' = [session EXCEPT !["scheduler"] = t] /\ Still /\ UNCHANGED <<row, queue>>
    BY <1>2 DEF TickBegin
  <2>2. t.batch = {} /\ t.marked = {}
    BY DEF Closed
  <2> HIDE DEF t
  <2> QED BY <1>1, <2>1, <2>2 DEF Dispatchers
<1>3. ASSUME NEW c \in Campaigns, TickBatch(c) PROVE CarryInv'
  <2> DEFINE u == session["scheduler"]
             t(B) == [u EXCEPT !.camps = u.camps \ {c}, !.batch = B, !.seen = u.seen \cup B,
                               !.backoff = u.backoff \cup {j \in B : row[j].backoff}]
  <2>1. /\ \E B \in Limited(Dispatchable(c)) : session' = [session EXCEPT !["scheduler"] = t(B)]
        /\ Still /\ UNCHANGED <<row, queue>>
    BY <1>3 DEF TickBatch
  <2>2. PICK B \in Limited(Dispatchable(c)) : session' = [session EXCEPT !["scheduler"] = t(B)]
    BY <2>1
  <2>3. B \subseteq live
    BY DEF Limited, Dispatchable
  <2>4. u \in Sessions
    BY DEF TypeOK, Dispatchers
  <2>5. t(B).batch = B /\ t(B).marked = u.marked
    <3> HIDE DEF u
    <3> QED BY <2>4 DEF Sessions
  <2> HIDE DEF t
  <2> QED BY <1>1, <2>1, <2>2, <2>3, <2>5 DEF Dispatchers
<1>4. CASE TickRetries
  <2> DEFINE u == session["scheduler"]
             t(B) == [u EXCEPT !.pc = "retrying", !.batch = B, !.seen = u.seen \cup B,
                         !.backoff = u.backoff \cup {j \in B \ u.seen : row[j].backoff},
                         !.wasLocked = {j \in B \ u.seen : row[j].locked}]
  <2>1. /\ \E B \in Limited({j \in live : row[j].status = "approved_for_retry"}) :
               session' = [session EXCEPT !["scheduler"] = t(B)]
        /\ Still /\ UNCHANGED <<row, queue>>
    BY <1>4 DEF TickRetries
  <2>2. PICK B \in Limited({j \in live : row[j].status = "approved_for_retry"}) :
            session' = [session EXCEPT !["scheduler"] = t(B)]
    BY <2>1
  <2>3. B \subseteq live
    BY DEF Limited
  <2>4. u \in Sessions
    BY DEF TypeOK, Dispatchers
  <2>5. t(B).batch = B /\ t(B).marked = u.marked
    <3> HIDE DEF u
    <3> QED BY <2>4 DEF Sessions
  <2> HIDE DEF t
  <2> QED BY <1>1, <2>1, <2>2, <2>3, <2>5 DEF Dispatchers
<1>5. ASSUME NEW d \in Dispatchers, NEW j \in Jobs, Mark(d, j) PROVE CarryInv'
  <2> DEFINE u == session[d]
             t == [u EXCEPT !.batch = u.batch \ {j}, !.marked = u.marked \cup {j}]
  <2>1. /\ session' = [session EXCEPT ![d] = t] /\ queue' = Append(queue, j) /\ j \in u.batch
        /\ Still /\ UNCHANGED row
    BY <1>5 DEF Mark, Enqueue
  <2>2. u \in Sessions
    BY DEF TypeOK
  <2>3. t.batch = u.batch \ {j} /\ t.marked = u.marked \cup {j}
    <3> HIDE DEF u
    <3> QED BY <2>2 DEF Sessions
  <2>4. Held(j)' /\ \A k \in Jobs : Placed(k) => Placed(k)'
    BY <2>1, AppendPlaces DEF Held
  <2>5. SessionsKept
    <3> HIDE DEF t
    <3> QED BY <2>1, <2>3, <2>4 DEF SessionsKept, Marked, TypeOK
  <2> QED BY <1>0, <2>1, <2>4, <2>5 DEF RowsKept
<1>6. ASSUME NEW j \in Jobs, TickRaises(j) PROVE CarryInv'
  BY <1>1, <1>6 DEF TickRaises, Dispatchers, Closed
<1>7. ASSUME NEW d \in Dispatchers, DispatchCommit(d) PROVE CarryInv'
  <2> DEFINE M == session[d].marked \ session[d].wasLocked
  <2>1. /\ Still /\ UNCHANGED queue /\ session' = [session EXCEPT ![d] = Closed]
        /\ row' = IF M \subseteq live
                  THEN [j \in Jobs |-> IF j \in M THEN [row[j] EXCEPT !.locked = TRUE] ELSE row[j]]
                  ELSE row
    BY <1>7 DEF DispatchCommit
  <2>2. RowsKept
    <3> SUFFICES ASSUME NEW j \in Jobs
                 PROVE  \/ row'[j] = row[j]
                        \/ j \in live /\ Marked(j) /\ row'[j].status = row[j].status
      BY DEF RowsKept
    <3>1. CASE M \subseteq live /\ j \in M
      <4>1. row'[j] = [row[j] EXCEPT !.locked = TRUE]
        BY <2>1, <3>1
      <4>2. row[j] \in Rows
        BY DEF TypeOK
      <4> QED BY <3>1, <4>1, <4>2 DEF Marked, Rows
    <3>2. CASE ~(M \subseteq live /\ j \in M)
      BY <2>1, <3>2
    <3> QED BY <3>1, <3>2
  <2>3. SessionsKept
    BY <2>1 DEF SessionsKept, Closed, TypeOK, Marked
  <2> QED BY <1>0, <2>1, <2>2, <2>3 DEF Placed
<1>8. ASSUME NEW j \in Jobs, EnqueueRetry(j) PROVE CarryInv'
  <2>1. /\ session' = [session EXCEPT !["api"] = Closed] /\ queue' = Append(queue, j)
        /\ Still /\ UNCHANGED row
    BY <1>8 DEF EnqueueRetry, Enqueue
  <2>2. SessionsKept
    BY <2>1 DEF SessionsKept, Closed, TypeOK, Marked
  <2> QED BY <1>0, <2>1, <2>2, AppendPlaces DEF RowsKept
<1> QED BY <1>2, <1>3, <1>4, <1>5, <1>6, <1>7, <1>8 DEF TickStep, ApiStep, Dispatchers

LEMMA RequestCarry == ASSUME TypeOK, CarryInv, RequestStep PROVE CarryInv'
<1> USE DEF keys, table, others, history, bounds
<1> DEFINE Still == UNCHANGED <<worker, queue, pending, lost>>
<1>0. ASSUME Still, RowsKept, SessionsKept, UNCHANGED <<live, fresh>> PROVE CarryInv'
  BY <1>0, CarryStep DEF WorkersKept, KeysKept, HeldKept, Held, Placed
<1>1. ASSUME NEW c \in Campaigns, GenerateCampaignMembers(c) PROVE CarryInv'
  <2>1. PICK N \in SUBSET (fresh \cap JobsOf(c)) :
            live' = (live \ JobsOf(c)) \cup N /\ fresh' = fresh \ N
    BY <1>1 DEF GenerateCampaignMembers
  <2>2. Still /\ UNCHANGED <<row, session>>
    BY <1>1 DEF GenerateCampaignMembers
  <2>3. KeysKept
    BY <2>1, JobAssumption DEF KeysKept, JobsOf
  <2> QED BY <2>2, <2>3, CarryStep
          DEF RowsKept, WorkersKept, SessionsKept, HeldKept, Held, Placed, Marked
<1>2. ASSUME NEW c \in Campaigns, NEW status, UpdateCampaignStatus(c, status) PROVE CarryInv'
  BY <1>0, <1>2 DEF UpdateCampaignStatus, RowsKept, SessionsKept, Marked
<1>3. ASSUME NEW c \in Campaigns, TriggerBatch(c) PROVE CarryInv'
  <2> DEFINE t(B) == [Closed EXCEPT !.pc = "marking", !.batch = B]
  <2>1. Still /\ UNCHANGED <<row, live, fresh>>
    BY <1>3 DEF TriggerBatch
  <2>2. PICK B \in Limited(Dispatchable(c)) : session' = [session EXCEPT !["api"] = t(B)]
    BY <1>3 DEF TriggerBatch
  <2>3. B \subseteq live /\ t(B).batch = B /\ t(B).marked = {}
    BY DEF Limited, Dispatchable, Closed
  <2> HIDE DEF t
  <2>4. SessionsKept
    BY <2>2, <2>3 DEF SessionsKept, Marked, TypeOK
  <2> QED BY <1>0, <2>1, <2>4 DEF RowsKept
<1>4. ASSUME NEW j \in Jobs, ApprovePausedJob(j) \/ RejectPausedJob(j) \/ RetryJobNow(j)
      PROVE  CarryInv'
  <2>1. Still /\ UNCHANGED <<live, fresh>> /\ j \in live
    BY <1>4 DEF ApprovePausedJob, RejectPausedJob, RetryJobNow
  <2> DEFINE a == [row[j] EXCEPT !.status = "approved_for_retry", !.locked = FALSE]
             b == [row[j] EXCEPT !.status = "rejected"]
             n == [row[j] EXCEPT !.status = "approved_for_retry", !.locked = FALSE,
                                 !.backoff = FALSE]
             t == [Closed EXCEPT !.pc = "enqueuing", !.batch = {j}]
  <2>2. row' \in {[row EXCEPT ![j] = a], [row EXCEPT ![j] = b], [row EXCEPT ![j] = n]}
    BY <1>4 DEF ApprovePausedJob, RejectPausedJob, RetryJobNow
  <2>3. a.status # "queued" /\ b.status # "queued" /\ n.status # "queued"
    <3>1. row[j] \in Rows
      BY DEF TypeOK
    <3> QED BY <3>1 DEF Rows
  <2>4. UNCHANGED session \/ session' = [session EXCEPT !["api"] = t]
    BY <1>4 DEF ApprovePausedJob, RejectPausedJob, RetryJobNow
  <2>5. t.batch = {j} /\ t.marked = {}
    BY DEF Closed
  <2> HIDE DEF a, b, n, t
  <2>6. RowsKept
    BY <2>1, <2>2, <2>3 DEF RowsKept, TypeOK
  <2>7. SessionsKept
    BY <2>1, <2>4, <2>5 DEF SessionsKept, Marked, TypeOK
  <2> QED BY <1>0, <2>1, <2>6, <2>7
<1> QED BY <1>1, <1>2, <1>3, <1>4 DEF RequestStep

LEMMA InterruptionCarry == ASSUME TypeOK, CarryInv, Interruption PROVE CarryInv'
<1> USE DEF keys, table, others, control, history, bounds
<1>1. ASSUME NEW w \in Workers, WorkerCrash(w) PROVE CarryInv'
  <2>1. /\ UNCHANGED <<live, fresh, row, queue, pending, session>>
        /\ lost' = lost \cup {worker[w].job} /\ worker' = [worker EXCEPT ![w] = Idle]
    BY <1>1 DEF WorkerCrash, Return
  <2>2. \A v \in Workers : worker'[v] = Idle \/ worker'[v] = worker[v]
    BY <2>1 DEF TypeOK
  <2>3. HeldKept
    BY <2>1 DEF HeldKept, Held, Placed, TypeOK
  <2> QED BY <2>1, <2>2, <2>3, CarryStep
          DEF RowsKept, WorkersKept, SessionsKept, KeysKept, Marked
<1>2. ASSUME NEW d \in Dispatchers, DispatchInterrupted(d) PROVE CarryInv'
  <2>1. /\ UNCHANGED <<live, fresh, row, queue, pending, lost, worker>>
        /\ session' = [session EXCEPT ![d] = Closed]
    BY <1>2 DEF DispatchInterrupted
  <2>2. SessionsKept
    BY <2>1 DEF SessionsKept, Closed, TypeOK, Marked
  <2> QED BY <2>1, <2>2, CarryStep
          DEF RowsKept, WorkersKept, KeysKept, HeldKept, Held, Placed
<1>3. ASSUME NEW m \in Messages, DupKeyExpires(m) PROVE CarryInv'
  BY <1>3, CarryStep DEF DupKeyExpires, RowsKept, WorkersKept, SessionsKept, KeysKept,
                         HeldKept, Held, Placed, Marked
<1> QED BY <1>1, <1>2, <1>3 DEF Interruption

LEMMA CarryInvariant == Spec => []CarryInv
<1>1. Init => CarryInv
  <2> SUFFICES ASSUME Init PROVE CarryInv
    OBVIOUS
  <2>1. \A w \in Workers : worker[w].job = NoJob /\ worker[w].snap.status = "queued"
    BY DEF Init, Idle, NewRow
  <2>2. \A d \in Dispatchers : session[d].batch = {} /\ session[d].marked = {}
    BY DEF Init, Closed
  <2>3. \A j \in Jobs : row[j] = NewRow /\ j # NoJob
    BY JobAssumption DEF Init
  <2>4. /\ live \subseteq {j \in Jobs : CampaignOf[j] # NoCampaign}
        /\ fresh = Jobs \ live
    BY DEF Init
  <2>5. FreshIsUnused
    BY <2>1, <2>2, <2>3, <2>4 DEF FreshIsUnused
  <2>6. QueuedIsHeld
    BY <2>2, <2>3, <2>4 DEF QueuedIsHeld, Marked, NewRow
  <2> QED BY <2>1, <2>5, <2>6 DEF CarryInv, QueuedIsLoaded
<1>2. TypeOK /\ CarryInv /\ [Next]_vars => CarryInv'
  <2> SUFFICES ASSUME TypeOK, CarryInv, [Next]_vars PROVE CarryInv'
    OBVIOUS
  <2>1. CASE UNCHANGED vars
    BY <2>1, CarryStep DEF vars, RowsKept, WorkersKept, SessionsKept, KeysKept, HeldKept,
                           Held, Placed, Marked
  <2> QED BY <2>1, SubmitCarry, RunCarry, DispatchCarry, RequestCarry, InterruptionCarry DEF Next
<1> QED BY <1>1, <1>2, TypeCorrect, PTL DEF Spec

(***************************************************************************)
(* A job that still says "queued" has somebody to carry it on: no order of *)
(* dispatches, commits, regenerated members, crashes and retries leaves a  *)
(* job that waits for an entry nobody will write.                          *)
(***************************************************************************)
THEOREM QueuedCarried == Spec => []QueuedJobIsCarried
<1>1. CarryInv => QueuedJobIsCarried
  BY DEF CarryInv, QueuedIsHeld, QueuedJobIsCarried, Carried, Held, Placed
<1> QED BY <1>1, CarryInvariant, PTL
-----------------------------------------------------------------------------
(***************************************************************************)
(* Why the budget of one worker is exact: nobody else writes retry_count,  *)
(* so the count that a run adds to is the count of the row.                *)
(***************************************************************************)
CountIsLoaded == \A w \in Workers : worker[w].job \in live =>
    worker[w].snap.retries = row[worker[w].job].retries
RetriesKept == \A j \in Jobs : row'[j].retries = row[j].retries
Counting == \A j \in Jobs : row'[j].retries \in {row[j].retries, row[j].retries + 1}

LEMMA RetriesAfter ==
    ASSUME NEW c \in Rows, NEW s \in Rows, NEW n \in Rows, NEW unlocked \in BOOLEAN
    PROVE  /\ n.retries = s.retries => Updated(c, s, n).retries = c.retries
           /\ RetryRow(c, s, unlocked).retries = s.retries + 1
<1> DEFINE n1 == [s EXCEPT !.retries = s.retries + 1, !.status = "rejected", !.locked = unlocked]
           n2 == [s EXCEPT !.retries = s.retries + 1, !.status = "approved_for_retry",
                           !.locked = FALSE]
<1>0. s.retries \in Nat /\ s.retries + 1 # s.retries
  BY DEF Rows
<1>1. n1.retries = s.retries + 1 /\ n2.retries = s.retries + 1
  BY DEF Rows
<1> HIDE DEF n1, n2
<1>2. Updated(c, s, n1).retries = s.retries + 1 /\ Updated(c, s, n2).retries = s.retries + 1
  BY <1>0, <1>1 DEF Updated, Column
<1>3. [Updated(c, s, n2) EXCEPT !.backoff = TRUE].retries = Updated(c, s, n2).retries
  BY DEF Updated
<1>4. RetryRow(c, s, unlocked).retries = s.retries + 1
  BY <1>2, <1>3 DEF RetryRow, n1, n2
<1> QED BY <1>4 DEF Updated, Column

(***************************************************************************)
(* A step that leaves the counts alone and loads no stale row.             *)
(***************************************************************************)
LEMMA CountFrame ==
    ASSUME TypeOK, CarryInv, CountIsLoaded, RetriesKept, WorkersKept, KeysKept
    PROVE  CountIsLoaded' /\ Counting
<1>1. live \subseteq Jobs /\ NoJob \notin live'
  BY JobAssumption DEF TypeOK, KeysKept
<1>2. ASSUME NEW w \in Workers, worker'[w].job \in live'
      PROVE  worker'[w].snap.retries = row'[worker'[w].job].retries
  <2>1. worker'[w] # Idle
    BY <1>1, <1>2 DEF Idle
  <2>2. CASE worker'[w].job = worker[w].job /\ worker'[w].snap = worker[w].snap
    <3>1. worker[w].job \in live
      BY <1>2, <2>2 DEF KeysKept, CarryInv, FreshIsUnused
    <3> QED BY <1>1, <2>2, <3>1 DEF CountIsLoaded, RetriesKept
  <2>3. CASE row' = row /\ worker'[w].snap = row[worker'[w].job]
    BY <2>3
  <2> QED BY <2>1, <2>2, <2>3 DEF WorkersKept
<1> QED BY <1>2 DEF CountIsLoaded, Counting, RetriesKept

LEMMA RunCount ==
    ASSUME TypeOK, CarryInv, CountIsLoaded, \A u, v \in Workers : u = v,
           NEW w \in Workers, RunStep(w)
    PROVE  CountIsLoaded' /\ Counting
<1> USE DEF keys, table, control, history, bounds
<1> DEFINE j == worker[w].job
           s == worker[w].snap
<1>0. ASSUME worker[w].pc # "idle" PROVE j \in Jobs /\ s \in Rows /\ row[j] \in Rows
  BY <1>0, WorkerType DEF TypeOK
<1>1. KeysKept
  BY DEF KeysKept, RunStep, TakeJob, CheckCampaign, Block, Throttle, DupKeyAbsent, SetDupKey,
         FlushAttempt, Deliver, Refuse, RecordSent, RecordFailed
<1>2. ASSUME worker[w].pc # "idle", Return(w), NEW r, Commit(j, r),
             j \in live => r.retries \in {row[j].retries, row[j].retries + 1}
      PROVE  CountIsLoaded' /\ Counting
  <2>1. \A v \in Workers : worker'[v] = Idle
    BY <1>2 DEF Return, TypeOK
  <2>2. NoJob \notin live'
    BY <1>1, JobAssumption DEF KeysKept, TypeOK
  <2>3. CountIsLoaded'
    BY <2>1, <2>2 DEF CountIsLoaded, Idle
  <2>4. Counting
    <3> HIDE DEF j
    <3> QED BY <1>0, <1>2 DEF Counting, Commit, TypeOK
  <2> QED BY <2>3, <2>4
<1>3. ASSUME worker[w].pc # "idle", NEW n \in Rows, n.retries = s.retries
      PROVE  Updated(row[j], s, n).retries = row[j].retries
  BY <1>0, <1>3, RetriesAfter
<1>4. ASSUME worker[w].pc # "idle", NEW unlocked \in BOOLEAN
      PROVE  j \in live => RetryRow(row[j], s, unlocked).retries = row[j].retries + 1
  BY <1>0, <1>4, RetriesAfter DEF CountIsLoaded
<1>5. ASSUME NEW pc, Goto(w, pc), UNCHANGED row PROVE CountIsLoaded' /\ Counting
  <2>1. WorkersKept
    BY <1>5 DEF WorkersKept, TypeOK, Goto, WorkerStates, Idle
  <2> QED BY <1>1, <1>5, <2>1, CountFrame DEF RetriesKept
<1>6. CASE TakeJob(w)
  <2>1. WorkersKept /\ UNCHANGED row
    BY <1>6 DEF TypeOK, TakeJob, WorkersKept
  <2> QED BY <1>1, <2>1, CountFrame DEF RetriesKept
<1>7. CASE CheckCampaign(w)
  <2> DEFINE n == [s EXCEPT !.status = "paused", !.locked = FALSE]
  <2>1. worker[w].pc # "idle"
    BY <1>7 DEF CheckCampaign, At
  <2>2. \/ Goto(w, "cleared") /\ UNCHANGED row
        \/ Commit(j, Updated(row[j], s, n)) /\ Return(w)
    BY <1>7 DEF CheckCampaign, Save
  <2>3. n \in Rows /\ n.retries = s.retries
    BY <1>0, <2>1 DEF Rows, Statuses
  <2> HIDE DEF n
  <2> QED BY <1>2, <1>3, <1>5, <2>1, <2>2, <2>3
<1>8. CASE Block(w)
  <2>1. worker[w].pc # "idle" /\ Return(w)
    BY <1>8 DEF Block, At
  <2>2. PICK locked \in {FALSE, s.locked} :
            Commit(j, Updated(row[j], s, [s EXCEPT !.status = "blocked", !.locked = locked]))
    BY <1>8 DEF Block, Save
  <2> DEFINE n == [s EXCEPT !.status = "blocked", !.locked = locked]
  <2>3. n \in Rows /\ n.retries = s.retries
    BY <1>0, <2>1 DEF Rows, Statuses
  <2>4. Commit(j, Updated(row[j], s, n))
    BY <2>2
  <2> HIDE DEF n
  <2> QED BY <1>2, <1>3, <2>1, <2>3, <2>4
<1>9. CASE Throttle(w)
  <2>1. worker[w].pc # "idle" /\ Return(w) /\ Commit(j, RetryRow(row[j], s, s.locked))
    BY <1>9 DEF Throttle, At, Save
  <2>2. s.locked \in BOOLEAN
    BY <1>0, <2>1 DEF Rows
  <2> QED BY <1>2, <1>4, <2>1, <2>2
<1>10. CASE RecordSent(w)
  <2> DEFINE n == [s EXCEPT !.status = "sent", !.locked = FALSE]
  <2>1. worker[w].pc # "idle" /\ Return(w) /\ Commit(j, Updated(row[j], s, n))
    BY <1>10 DEF RecordSent, At, Save
  <2>2. n \in Rows /\ n.retries = s.retries
    BY <1>0, <2>1 DEF Rows, Statuses
  <2> HIDE DEF n
  <2> QED BY <1>2, <1>3, <2>1, <2>2
<1>11. CASE RecordFailed(w)
  <2>1. worker[w].pc # "idle" /\ Return(w) /\ Commit(j, RetryRow(row[j], s, FALSE))
    BY <1>11 DEF RecordFailed, At, Save
  <2> QED BY <1>2, <1>4, <2>1
<1>12. CASE FlushAttempt(w)
  <2>1. /\ worker[w].pc # "idle" /\ UNCHANGED row
        /\ Goto(w, "flushed") \/ (Return(w) /\ j \notin live)
    BY <1>12 DEF FlushAttempt, At
  <2>2. j \notin live => Commit(j, row[j])
    BY <2>1 DEF Commit
  <2> QED BY <1>2, <1>5, <2>1, <2>2
<1>13. CASE DupKeyAbsent(w) \/ SetDupKey(w) \/ Deliver(w) \/ Refuse(w)
  BY <1>5, <1>13 DEF DupKeyAbsent, SetDupKey, Deliver, Refuse
<1> QED BY <1>6, <1>7, <1>8, <1>9, <1>10, <1>11, <1>12, <1>13 DEF RunStep

(***************************************************************************)
(* With at most one worker no step takes a retry count back or adds more   *)
(* than one to it, whatever operators, dispatchers and crashes do.         *)
(***************************************************************************)
THEOREM RetriesCounted ==
    ASSUME \A u, v \in Workers : u = v
    PROVE  Spec => RetriesCountUp
<1>1. Init => CountIsLoaded
  <2> SUFFICES ASSUME Init, NEW w \in Workers PROVE worker[w].job \notin live
    BY DEF CountIsLoaded
  <2> QED BY JobAssumption DEF Init, Idle
<1>2. TypeOK /\ CarryInv /\ CountIsLoaded /\ [Next]_vars => CountIsLoaded' /\ Counting
  <2> SUFFICES ASSUME TypeOK, CarryInv, CountIsLoaded, [Next]_vars
               PROVE  CountIsLoaded' /\ Counting
    OBVIOUS
  <2> USE DEF table, keys, others, history, bounds
  <2>0. ASSUME RetriesKept, KeysKept,
               \A w \in Workers : worker'[w] = Idle \/ worker'[w] = worker[w]
        PROVE  CountIsLoaded' /\ Counting
    BY <2>0, CountFrame DEF WorkersKept
  <2>1. CASE UNCHANGED vars
    BY <2>0, <2>1 DEF vars, RetriesKept, KeysKept
  <2>2. CASE SubmitStep
    <3>1. KeysKept
      BY <2>2 DEF SubmitStep, SubmitTransactional, EnqueueSubmitted, SubmitInterrupted,
                  KeysKept, Held
    <3> QED BY <2>0, <2>2, <3>1
            DEF SubmitStep, SubmitTransactional, EnqueueSubmitted, SubmitInterrupted, RetriesKept
  <2>3. CASE TickStep \/ ApiStep
    <3>1. KeysKept /\ UNCHANGED worker
      BY <2>3 DEF TickStep, ApiStep, TickBegin, TickBatch, TickRetries, Mark, TickRaises,
                  DispatchCommit, EnqueueRetry, KeysKept
    <3>2. ASSUME NEW d \in Dispatchers, DispatchCommit(d) PROVE RetriesKept
      <4>1. \A j \in Jobs : [row[j] EXCEPT !.locked = TRUE].retries = row[j].retries
        BY DEF TypeOK, Rows
      <4> QED BY <3>2, <4>1 DEF DispatchCommit, RetriesKept
    <3>3. RetriesKept
      BY <2>3, <3>2 DEF TickStep, ApiStep, TickBegin, TickBatch, TickRetries, Mark, TickRaises,
                        EnqueueRetry, RetriesKept, Dispatchers
    <3> QED BY <2>0, <3>1, <3>3
  <2>4. CASE RequestStep
    <3>1. KeysKept /\ UNCHANGED worker
      BY <2>4, JobAssumption
         DEF RequestStep, TriggerBatch, GenerateCampaignMembers, UpdateCampaignStatus,
             ApprovePausedJob, RejectPausedJob, RetryJobNow, KeysKept, JobsOf
    <3>2. ASSUME NEW j \in Jobs, ApprovePausedJob(j) \/ RejectPausedJob(j) \/ RetryJobNow(j)
          PROVE  RetriesKept
      <4> DEFINE a == [row[j] EXCEPT !.status = "approved_for_retry", !.locked = FALSE]
                 b == [row[j] EXCEPT !.status = "rejected"]
                 n == [row[j] EXCEPT !.status = "approved_for_retry", !.locked = FALSE,
                                     !.backoff = FALSE]
      <4>1. row' \in {[row EXCEPT ![j] = a], [row EXCEPT ![j] = b], [row EXCEPT ![j] = n]}
        BY <3>2 DEF ApprovePausedJob, RejectPausedJob, RetryJobNow
      <4>2. row[j] \in Rows
        BY DEF TypeOK
      <4>3. /\ a.retries = row[j].retries /\ b.retries = row[j].retries
            /\ n.retries = row[j].retries
        BY <4>2 DEF Rows
      <4> HIDE DEF a, b, n
      <4> QED BY <4>1, <4>3 DEF RetriesKept, TypeOK
    <3>3. RetriesKept
      BY <2>4, <3>2 DEF RequestStep, TriggerBatch, GenerateCampaignMembers,
                        UpdateCampaignStatus, RetriesKept
    <3> QED BY <2>0, <3>1, <3>3
  <2>5. CASE Interruption
    <3>1. KeysKept /\ RetriesKept
      BY <2>5 DEF Interruption, WorkerCrash, DispatchInterrupted, DupKeyExpires, KeysKept,
                  RetriesKept
    <3>2. \A w \in Workers : worker'[w] = Idle \/ worker'[w] = worker[w]
      BY <2>5 DEF Interruption, WorkerCrash, Return, DispatchInterrupted, DupKeyExpires, TypeOK
    <3> QED BY <2>0, <3>1, <3>2
  <2> QED BY <2>1, <2>2, <2>3, <2>4, <2>5, RunCount DEF Next
<1>3. TypeOK /\ Counting => [\A j \in live \cap live' :
          row'[j].retries \in {row[j].retries, row[j].retries + 1}]_vars
  BY DEF TypeOK, Counting
<1> QED BY <1>1, <1>2, <1>3, TypeCorrect, CarryInvariant, PTL DEF Spec, RetriesCountUp
-----------------------------------------------------------------------------
(***************************************************************************)
(* Every step of the composition is a step of MessageJobs or a stutter.    *)
(***************************************************************************)
LEMMA StepImplements == ASSUME [QNext]_qvars PROVE [Next]_vars
<1>1. ASSUME NEW w \in Workers, QRunStep(w) PROVE [Next]_vars
  <2>1. CASE AskQuietHours(w)
    BY <2>1 DEF AskQuietHours
  <2>2. CASE ~AskQuietHours(w)
    <3>1. RunStep(w)
      BY <1>1, <2>2 DEF QRunStep, RunStep, Take, Blocked, Throttled, Passed, Failed
    <3> QED
      BY <3>1 DEF Next
  <2> QED
    BY <2>1, <2>2
<1>2. ASSUME NEW w \in Workers, Crash(w) PROVE [Next]_vars
  BY <1>2 DEF Crash, Next, Interruption
<1>3. CASE QTickStep \/ QApiStep \/ SubmitStep \/ RequestStep
  BY <1>3 DEF QTickStep, QApiStep, Next
<1>4. CASE HourPasses \/ UNCHANGED qvars
  BY <1>4 DEF HourPasses, qvars
<1>5. CASE \/ \E d \in Dispatchers : DispatchInterrupted(d)
           \/ \E m \in Messages : DupKeyExpires(m)
  BY <1>5 DEF Next, Interruption
<1> QED
  BY <1>1, <1>2, <1>3, <1>4, <1>5 DEF QNext

(***************************************************************************)
(* QuietJobs implements MessageJobs: what holds of the life of a job holds *)
(* of it under the quiet hours.                                            *)
(***************************************************************************)
THEOREM Implements == QSpec => Spec
<1>1. QInit => Init
  BY DEF QInit
<1>2. [QNext]_qvars => [Next]_vars
  BY StepImplements
<1> QED
  BY <1>1, <1>2, PTL DEF QSpec, Spec

LEMMA QuietTypeCorrect == QSpec => []TypeOK
BY Implements, TypeCorrect, PTL

-----------------------------------------------------------------------------
(***************************************************************************)
(* NextAllowed is the first hour after a quiet hour t that is not quiet.   *)
(***************************************************************************)
LEMMA NextAllowedIsNext ==
    ASSUME NEW start \in Hours, NEW end \in Hours, NEW t \in Nat,
           InQuiet(start, end, HourOf(t))
    PROVE  LET r == NextAllowed(start, end, t) IN
           /\ r \in Int /\ t < r /\ r - t <= 24
           /\ \A u \in t .. (r - 1) : InQuiet(start, end, HourOf(u))
           /\ ~InQuiet(start, end, HourOf(r))
<1> USE DEF Hours, HourOf
<1>1. CASE start <= end
  <2>1. NextAllowed(start, end, t) = t - (t % 24) + end
    BY <1>1 DEF NextAllowed, Midnight
  <2>2. start <= t % 24 /\ t % 24 < end
    BY <1>1 DEF InQuiet
  <2>3. \A u \in t .. (t - (t % 24) + end - 1) : u % 24 = u - (t - (t % 24))
    BY <2>2
  <2> QED
    BY <1>1, <2>1, <2>2, <2>3 DEF InQuiet
<1>2. CASE start > end /\ t % 24 >= start
  <2>1. NextAllowed(start, end, t) = t - (t % 24) + end + 24
    BY <1>2 DEF NextAllowed, Midnight
  <2> QED
    BY <1>2, <2>1 DEF InQuiet
<1>3. CASE start > end /\ t % 24 < start
  <2>1. NextAllowed(start, end, t) = t - (t % 24) + end /\ t % 24 < end
    BY <1>3 DEF NextAllowed, Midnight, InQuiet
  <2> QED
    BY <1>3, <2>1 DEF InQuiet
<1> QED
  BY <1>1, <1>2, <1>3

(***************************************************************************)
(* An answer of quiet_hours_violation lets the message pass outside of the *)
(* quiet hours or by its category, or refuses it with the right time.      *)
(***************************************************************************)
LEMMA VerdictIsRight ==
    ASSUME NEW w \in [start: Hours, end: Hours], NEW t \in Nat, NEW category
    PROVE  LET v == Verdict(w, t, category) IN
           /\ v \in [ok: BOOLEAN, at: Int, retryAt: Int]
           /\ v.ok /\ category = "promotional" => ~QuietAt(w, t)
           /\ ~v.ok => FirstAllowed(w, v)
<1>1. CASE category \in {"otp", "transactional"} \/ ~InQuiet(w.start, w.end, HourOf(t))
  BY <1>1 DEF Verdict, Pass, QuietAt
<1>2. CASE ~(category \in {"otp", "transactional"} \/ ~InQuiet(w.start, w.end, HourOf(t)))
  <2> DEFINE r == NextAllowed(w.start, w.end, t)
  <2>1. /\ r \in Int /\ t < r /\ r - t <= 24
        /\ \A u \in t .. (r - 1) : InQuiet(w.start, w.end, HourOf(u))
        /\ ~InQuiet(w.start, w.end, HourOf(r))
    BY <1>2, NextAllowedIsNext
  <2>2. Verdict(w, t, category) = [ok |-> FALSE, at |-> t, retryAt |-> r]
    BY <1>2 DEF Verdict
  <2> HIDE DEF r
  <2> QED
    BY <2>1, <2>2 DEF FirstAllowed, QuietAt
<1> QED
  BY <1>1, <1>2

-----------------------------------------------------------------------------
(***************************************************************************)
(* What a worker knows of the hour.  A run that was let pass, or is on its *)
(* way to the provider, asked in the present hour, or in the one before if *)
(* the clock has crossed a full hour since.                                *)
(***************************************************************************)
Answer == [ok: BOOLEAN, at: Int, retryAt: Int]
ClockType ==
    /\ window \in [start: Hours, end: Hours] /\ hour \in Nat /\ crossed \subseteq Workers
    /\ verdict \in [Workers -> Answer]
AskedIsCleared == \A w \in Workers : verdict[w] # Unasked => worker[w].pc = "cleared"
OnItsWay(w) == verdict[w].ok \/ worker[w].pc \in {"absent", "keyed"} \cup InTransaction
InTime(w) ==
    ~QuietAt(window, hour) \/ (w \in crossed /\ ~QuietAt(window, hour - 1))
PassedInTime == \A w \in Workers : OnItsWay(w) /\ Promotional(w) => InTime(w)
QuietInv == ClockType /\ RetryAtIsNextAllowed /\ AskedIsCleared /\ PassedInTime

LEMMA UnaskedIsRefusal == Unasked \in Answer /\ ~Unasked.ok
BY DEF Unasked, Answer

(***************************************************************************)
(* A step that leaves the clock, at which workers forget their answers or  *)
(* keep them, and go on with the job they have or leave it.                *)
(***************************************************************************)
LEMMA QuietFrame ==
    ASSUME QuietInv, UNCHANGED <<window, hour, crossed>>, verdict' \in [Workers -> Answer],
           \A v \in Workers :
               /\ verdict'[v] \in {verdict[v], Unasked}
               /\ verdict'[v] # Unasked => worker'[v].pc = "cleared"
               /\ OnItsWay(v)' => OnItsWay(v) /\ worker'[v].job = worker[v].job
    PROVE  QuietInv'
<1>1. ClockType'
  BY DEF QuietInv, ClockType
<1>2. RetryAtIsNextAllowed' /\ AskedIsCleared'
  BY DEF QuietInv, RetryAtIsNextAllowed, AskedIsCleared
<1>3. ASSUME NEW v \in Workers, (OnItsWay(v) /\ Promotional(v))' PROVE InTime(v)'
  <2>1. OnItsWay(v) /\ Promotional(v)
    BY <1>3 DEF Promotional
  <2> QED BY <2>1 DEF QuietInv, PassedInTime, InTime
<1> QED BY <1>1, <1>2, <1>3 DEF QuietInv, PassedInTime

LEMMA RunQuiet == ASSUME TypeOK, QuietInv, NEW w \in Workers, QRunStep(w) PROVE QuietInv'
<1> USE UnaskedIsRefusal DEF clock
<1>0. /\ verdict \in [Workers -> Answer] /\ window \in [start: Hours, end: Hours]
      /\ hour \in Nat /\ crossed \subseteq Workers
  BY DEF QuietInv, ClockType
<1>1. RunStep(w) =>
        /\ \A pc : Goto(w, pc) => worker'[w].pc = pc /\ worker'[w].job = worker[w].job
        /\ Return(w) => worker'[w].pc = "idle"
        /\ \A v \in Workers \ {w} : worker'[v] = worker[v]
  BY MoveOfWorker
<1>2. ASSUME RunStep(w), UNCHANGED <<window, hour, crossed>>,
             verdict' \in {verdict, [verdict EXCEPT ![w] = Unasked]},
             verdict'[w] = Unasked,
             \/ worker'[w].pc \in {"idle", "loaded", "cleared"}
             \/ OnItsWay(w) /\ worker'[w].job = worker[w].job
      PROVE  QuietInv'
  <2>1. /\ verdict' \in [Workers -> Answer] /\ verdict'[w] = Unasked
        /\ \A v \in Workers \ {w} : verdict'[v] = verdict[v] /\ worker'[v] = worker[v]
    BY <1>0, <1>1, <1>2
  <2>2. OnItsWay(w)' => OnItsWay(w) /\ worker'[w].job = worker[w].job
    BY <1>2, <2>1 DEF OnItsWay, InTransaction
  <2>3. \A v \in Workers \ {w} :
            /\ verdict[v] # Unasked => worker'[v].pc = "cleared"
            /\ OnItsWay(v)' => OnItsWay(v) /\ worker'[v].job = worker[v].job
    BY <2>1 DEF QuietInv, AskedIsCleared, OnItsWay
  <2> QED BY <1>2, <2>1, <2>2, <2>3, QuietFrame
<1>3. CASE Take(w)
  <2>1. /\ TakeJob(w) /\ RunStep(w) /\ verdict' = verdict /\ worker[w].pc = "idle"
        /\ window' = window /\ hour' = hour /\ crossed' = crossed \ {w}
    BY <1>3 DEF Take, RunStep, TakeJob, At
  <2>2. worker'[w].pc \in {"idle", "loaded"}
    BY <2>1 DEF TypeOK, TakeJob, At
  <2>3. verdict[w] = Unasked
    BY <2>1 DEF QuietInv, AskedIsCleared
  <2>4. ~OnItsWay(w)'
    BY <2>1, <2>2, <2>3 DEF OnItsWay, InTransaction
  <2>5. ASSUME NEW v \in Workers, (OnItsWay(v) /\ Promotional(v))' PROVE InTime(v)'
    <3>1. v # w /\ worker'[v] = worker[v]
      BY <1>1, <2>1, <2>4, <2>5
    <3>2. OnItsWay(v) /\ Promotional(v)
      BY <2>1, <2>5, <3>1 DEF OnItsWay, Promotional
    <3> QED BY <2>1, <3>1, <3>2 DEF QuietInv, PassedInTime, InTime
  <2>6. ClockType' /\ RetryAtIsNextAllowed'
    BY <1>0, <2>1 DEF ClockType, QuietInv, RetryAtIsNextAllowed
  <2>7. AskedIsCleared'
    BY <1>1, <2>1, <2>3 DEF QuietInv, AskedIsCleared
  <2> QED BY <2>5, <2>6, <2>7 DEF QuietInv, PassedInTime
<1>4. CASE AskQuietHours(w)
  <2> DEFINE a == Verdict(window, hour, CategoryOf[worker[w].job])
  <2>1. /\ worker[w].pc = "cleared" /\ verdict' = [verdict EXCEPT ![w] = a]
        /\ worker' = worker /\ UNCHANGED <<window, hour, crossed>>
    BY <1>4 DEF AskQuietHours, At, vars
  <2>2. /\ a \in Answer /\ (a.ok /\ Promotional(w) => ~QuietAt(window, hour))
        /\ (~a.ok => FirstAllowed(window, a))
    BY <1>0, VerdictIsRight DEF Answer, Promotional
  <2> HIDE DEF a
  <2>3. /\ verdict' \in [Workers -> Answer] /\ verdict'[w] = a
        /\ \A v \in Workers \ {w} : verdict'[v] = verdict[v]
    BY <1>0, <2>1, <2>2
  <2>4. ClockType' /\ RetryAtIsNextAllowed' /\ AskedIsCleared'
    BY <1>0, <2>1, <2>2, <2>3 DEF ClockType, QuietInv, RetryAtIsNextAllowed, AskedIsCleared
  <2>5. PassedInTime'
    BY <2>1, <2>2, <2>3
       DEF QuietInv, PassedInTime, OnItsWay, Promotional, InTime, InTransaction
  <2> QED BY <2>4, <2>5 DEF QuietInv
<1>5. CASE Blocked(w)
  <2>1. /\ Block(w) /\ RunStep(w) /\ verdict[w] = Unasked /\ verdict' = verdict
        /\ UNCHANGED <<window, hour, crossed>>
    BY <1>5 DEF Blocked, RunStep
  <2>2. worker'[w].pc = "idle"
    BY <1>1, <2>1 DEF Block
  <2> QED BY <1>2, <2>1, <2>2
<1>6. CASE Throttled(w) \/ Passed(w)
  <2>1. /\ RunStep(w) /\ verdict' = [verdict EXCEPT ![w] = Unasked]
        /\ UNCHANGED <<window, hour, crossed>>
    BY <1>6 DEF Throttled, Passed, RunStep, Forget
  <2>2. verdict'[w] = Unasked
    BY <1>0, <2>1
  <2>3. \/ worker'[w].pc = "idle"
        \/ OnItsWay(w) /\ worker'[w].job = worker[w].job
    BY <1>1, <1>6, <2>1 DEF Throttled, Throttle, Passed, DupKeyAbsent, OnItsWay
  <2> QED BY <1>2, <2>1, <2>2, <2>3
<1>7. ASSUME /\ \/ CheckCampaign(w) \/ SetDupKey(w) \/ FlushAttempt(w) \/ Deliver(w)
                \/ Refuse(w) \/ RecordSent(w) \/ RecordFailed(w)
             /\ UNCHANGED <<window, hour, crossed, verdict>>
      PROVE  QuietInv'
  <2>1. RunStep(w)
    BY <1>7 DEF RunStep
  <2>2. worker[w].pc # "cleared"
    BY <1>7 DEF CheckCampaign, SetDupKey, FlushAttempt, Deliver, Refuse, RecordSent,
                RecordFailed, At
  <2>3. verdict[w] = Unasked
    BY <2>2 DEF QuietInv, AskedIsCleared
  <2>4. \/ worker'[w].pc \in {"idle", "loaded", "cleared"}
        \/ OnItsWay(w) /\ worker'[w].job = worker[w].job
    BY <1>1, <1>7, <2>1
    DEF CheckCampaign, SetDupKey, FlushAttempt, Deliver, Refuse, RecordSent, RecordFailed,
        At, OnItsWay, InTransaction
  <2> QED BY <1>2, <1>7, <2>1, <2>3, <2>4
<1> QED
  BY <1>3, <1>4, <1>5, <1>6, <1>7 DEF QRunStep, Failed

LEMMA OtherQuiet ==
    ASSUME TypeOK, QuietInv,
           UNCHANGED <<worker, window, hour, crossed, verdict>>
    PROVE  QuietInv'
BY QuietFrame DEF QuietInv, ClockType, AskedIsCleared, OnItsWay

LEMMA CrashQuiet ==
    ASSUME TypeOK, QuietInv, NEW w \in Workers, Crash(w)
    PROVE  QuietInv'
<1>1. /\ verdict' = [verdict EXCEPT ![w] = Unasked] /\ worker' = [worker EXCEPT ![w] = Idle]
      /\ UNCHANGED <<window, hour, crossed>>
  BY DEF Crash, Forget, WorkerCrash, Return
<1>2. verdict' \in [Workers -> Answer] /\ verdict'[w] = Unasked /\ worker'[w].pc = "idle"
  BY <1>1, UnaskedIsRefusal DEF QuietInv, ClockType, TypeOK, Idle
<1>3. \A v \in Workers \ {w} : verdict'[v] = verdict[v] /\ worker'[v] = worker[v]
  BY <1>1 DEF QuietInv, ClockType, TypeOK
<1> QED
  BY <1>1, <1>2, <1>3, QuietFrame, UnaskedIsRefusal
  DEF QuietInv, AskedIsCleared, OnItsWay, InTransaction

LEMMA HourQuiet == ASSUME TypeOK, QuietInv, HourPasses PROVE QuietInv'
<1>1. /\ hour \in Nat /\ hour' = hour + 1 /\ UNCHANGED <<worker, window, verdict>>
      /\ \A w \in crossed : worker[w].pc = "idle"
      /\ crossed' = {w \in Workers : worker[w].pc # "idle"}
  BY DEF HourPasses, QuietInv, ClockType, At, vars
<1>2. ASSUME NEW v \in Workers, OnItsWay(v), Promotional(v) PROVE InTime(v)'
  <2>1. worker[v].pc # "idle" /\ InTime(v)
    BY <1>2 DEF QuietInv, AskedIsCleared, PassedInTime, OnItsWay, InTransaction, Unasked
  <2>2. ~QuietAt(window, hour) /\ v \in crossed'
    BY <1>1, <2>1 DEF InTime
  <2>3. hour' - 1 = hour
    BY <1>1
  <2> QED BY <1>1, <2>2, <2>3 DEF InTime
<1>3. ClockType' /\ RetryAtIsNextAllowed' /\ AskedIsCleared'
  BY <1>1 DEF QuietInv, ClockType, RetryAtIsNextAllowed, AskedIsCleared
<1> QED
  BY <1>1, <1>2, <1>3 DEF QuietInv, PassedInTime, OnItsWay, Promotional

LEMMA QuietInvariant == QSpec => []QuietInv
<1>1. QInit => QuietInv
  <2> SUFFICES ASSUME QInit PROVE QuietInv
    OBVIOUS
  <2>1. ClockType
    BY QuietAssumption, UnaskedIsRefusal DEF QInit, ClockType
  <2>2. \A w \in Workers : verdict[w] = Unasked /\ worker[w].pc = "idle"
    BY DEF QInit, Init, Idle
  <2> QED
    BY <2>1, <2>2, UnaskedIsRefusal
    DEF QuietInv, RetryAtIsNextAllowed, AskedIsCleared, PassedInTime, OnItsWay, InTransaction
<1>2. TypeOK /\ QuietInv /\ [QNext]_qvars => QuietInv'
  <2> SUFFICES ASSUME TypeOK, QuietInv, [QNext]_qvars PROVE QuietInv'
    OBVIOUS
  <2> USE DEF clock
  <2>1. CASE QTickStep \/ QApiStep
    <3>1. UNCHANGED worker
      BY <2>1 DEF QTickStep, QApiStep, TickStep, ApiStep, TickBegin, TickBatch, TickRetries,
                  Mark, TickRaises, DispatchCommit, EnqueueRetry, others
    <3> QED BY <2>1, <3>1, OtherQuiet DEF QTickStep, QApiStep
  <2>2. CASE /\ \/ SubmitStep \/ RequestStep
                \/ \E d \in Dispatchers : DispatchInterrupted(d)
                \/ \E m \in Messages : DupKeyExpires(m)
             /\ UNCHANGED clock
    <3>1. UNCHANGED worker
      BY <2>2 DEF SubmitStep, SubmitTransactional, EnqueueSubmitted, SubmitInterrupted,
                  RequestStep, TriggerBatch, GenerateCampaignMembers, UpdateCampaignStatus,
                  ApprovePausedJob, RejectPausedJob, RetryJobNow, DispatchInterrupted,
                  DupKeyExpires, others
    <3> QED BY <2>2, <3>1, OtherQuiet
  <2>3. CASE UNCHANGED qvars
    BY <2>3, OtherQuiet DEF qvars, vars
  <2> QED
    BY <2>1, <2>2, <2>3, RunQuiet, CrashQuiet, HourQuiet DEF QNext
<1> QED
  BY <1>1, <1>2, QuietTypeCorrect, PTL DEF QSpec

(***************************************************************************)
(* Every refusal of quiet_hours_violation names the first allowed hour     *)
(* after it, whatever window is configured and however long the workers    *)
(* run.                                                                    *)
(***************************************************************************)
THEOREM RefusalsAreExact == QSpec => []RetryAtIsNextAllowed
<1>1. QuietInv => RetryAtIsNextAllowed
  BY DEF QuietInv
<1> QED
  BY <1>1, QuietInvariant, PTL

LEMMA DeliveredInTime ==
    ASSUME TypeOK, QuietInv, [QNext]_qvars, NEW w \in Workers, NEW m \in Messages,
           inWindow'[m][w] > inWindow[m][w], Promotional(w), QuietAt(window, hour)
    PROVE  ~QuietAt(window, hour - 1) /\ w \in crossed
<1> USE DEF table, keys, control, others, history, bounds
<1>0. inWindow[m][w] \in Nat
  BY DEF TypeOK
<1>1. ASSUME NEW v \in Workers, Deliver(v) PROVE v = w /\ worker[w].pc = "flushed"
  <2>1. worker[v].pc = "flushed" /\ worker[v].job \in Jobs
    BY <1>1, WorkerType DEF Deliver, At
  <2>2. inWindow' = [inWindow EXCEPT ![MessageOf[worker[v].job]][v] = @ + 1]
    BY <1>1 DEF Deliver
  <2>3. v = w
    BY <1>0, <2>1, <2>2, Delivered
  <2> QED BY <2>1, <2>3
<1>2. ASSUME NEW v \in Workers, QRunStep(v), ~Deliver(v) PROVE UNCHANGED inWindow
  BY <1>2 DEF QRunStep, Take, TakeJob, Blocked, Block, AskQuietHours, vars, Throttled, Throttle,
              Passed, DupKeyAbsent, Failed, RecordFailed, CheckCampaign, SetDupKey,
              FlushAttempt, Refuse, RecordSent
<1>3. ASSUME NEW n \in Messages, DupKeyExpires(n) PROVE FALSE
  <2>1. inWindow'[m] = inWindow[m] \/ inWindow'[m][w] = 0
    BY <1>3 DEF DupKeyExpires, TypeOK
  <2> QED BY <1>0, <2>1
<1>4. QTickStep \/ QApiStep \/ SubmitStep \/ RequestStep \/ HourPasses => UNCHANGED inWindow
  BY DEF QTickStep, QApiStep, TickStep, ApiStep, TickBegin, TickBatch, TickRetries, Mark,
         TickRaises, DispatchCommit, EnqueueRetry, SubmitStep, SubmitTransactional,
         EnqueueSubmitted, SubmitInterrupted, RequestStep, TriggerBatch,
         GenerateCampaignMembers, UpdateCampaignStatus, ApprovePausedJob, RejectPausedJob,
         RetryJobNow, HourPasses, vars
<1>5. (\E v \in Workers : Crash(v)) \/ (\E d \in Dispatchers : DispatchInterrupted(d))
      \/ UNCHANGED qvars => UNCHANGED inWindow
  BY DEF Crash, WorkerCrash, DispatchInterrupted, qvars, vars
<1>6. inWindow' # inWindow
  BY <1>0
<1>7. worker[w].pc = "flushed"
  BY <1>1, <1>2, <1>3, <1>4, <1>5, <1>6 DEF QNext
<1> QED BY <1>7 DEF QuietInv, PassedInTime, OnItsWay, InTransaction, InTime

(***************************************************************************)
(* The quiet hours are kept, by any number of workers, for any window.     *)
(***************************************************************************)
THEOREM QuietKept == QSpec => QuietHoursKept
<1>1. TypeOK /\ QuietInv /\ [QNext]_qvars =>
      [\A w \in Workers, m \in Messages :
           inWindow'[m][w] > inWindow[m][w] /\ Promotional(w) /\ QuietAt(window, hour)
           => ~QuietAt(window, hour - 1) /\ w \in crossed]_qvars
  BY DeliveredInTime
<1> QED
  BY <1>1, QuietInvariant, QuietTypeCorrect, PTL DEF QSpec, QuietHoursKept

-----------------------------------------------------------------------------
(***************************************************************************)
(* The budget.  No row and no row a worker has loaded shows more retries   *)
(* than runs were counted, so that a worker that gives up, on a row that   *)
(* may be stale, has seen a full budget.                                   *)
(***************************************************************************)
Spent(j) == row[j].status = "rejected" /\ j \notin reviewed => counted[j] >= RetryMax
LoadedCounted(w) == worker[w].pc # "idle" => worker[w].snap.retries <= counted[worker[w].job]
BudgetInv ==
    /\ counted \in [Jobs -> Nat]
    /\ \A j \in Jobs : row[j].retries <= counted[j] /\ Spent(j)
    /\ \A w \in Workers : LoadedCounted(w)

(***************************************************************************)
(* A step that counts no run away, writes what was counted and gives up    *)
(* what is spent.                                                          *)
(***************************************************************************)
RowCounted(j) == row'[j].retries <= counted'[j] \/ row'[j].retries = row[j].retries
RowSpent(j) == row'[j].status = "rejected" =>
    row[j].status = "rejected" \/ j \in reviewed' \/ counted'[j] >= RetryMax
RunCounted(w) ==
    \/ worker'[w].pc = "idle"
    \/ worker[w].pc # "idle" /\ worker'[w].job = worker[w].job /\ worker'[w].snap = worker[w].snap
    \/ worker'[w].job \in Jobs /\ worker'[w].snap = row[worker'[w].job]

LEMMA BudgetFrame ==
    ASSUME TypeOK, TypeOK', BudgetInv, counted' \in [Jobs -> Nat], reviewed \subseteq reviewed',
           \A j \in Jobs : counted[j] <= counted'[j] /\ RowCounted(j) /\ RowSpent(j),
           \A w \in Workers : RunCounted(w)
    PROVE  BudgetInv'
<1>0. /\ RetryMax \in Nat /\ counted \in [Jobs -> Nat]
      /\ \A j \in Jobs : row[j].retries \in Nat /\ row'[j].retries \in Nat
  BY BoundAssumption DEF TypeOK, BudgetInv, Rows
<1>1. ASSUME NEW j \in Jobs PROVE row'[j].retries <= counted'[j] /\ Spent(j)'
  <2>1. row[j].retries <= counted[j] /\ counted[j] <= counted'[j] /\ Spent(j)
    BY DEF BudgetInv
  <2>2. counted[j] \in Nat /\ counted'[j] \in Nat
    BY <1>0
  <2> QED BY <1>0, <2>1, <2>2 DEF RowCounted, RowSpent, Spent
<1>2. ASSUME NEW w \in Workers, worker'[w].pc # "idle"
      PROVE  worker'[w].snap.retries <= counted'[worker'[w].job]
  <2>1. CASE worker[w].pc # "idle" /\ worker'[w].job = worker[w].job
             /\ worker'[w].snap = worker[w].snap
    <3>1. worker[w].job \in Jobs /\ worker[w].snap.retries \in Nat
      BY <2>1, WorkerType DEF Rows
    <3>2. worker[w].snap.retries <= counted[worker[w].job]
      BY <2>1 DEF BudgetInv, LoadedCounted
    <3>3. counted[worker[w].job] \in Nat /\ counted'[worker[w].job] \in Nat
      BY <1>0, <3>1
    <3> QED BY <2>1, <3>1, <3>2, <3>3
  <2>2. CASE worker'[w].job \in Jobs /\ worker'[w].snap = row[worker'[w].job]
    <3> DEFINE j == worker'[w].job
    <3>1. row[j].retries <= counted[j] /\ counted[j] <= counted'[j] /\ row[j].retries \in Nat
          /\ counted[j] \in Nat /\ counted'[j] \in Nat
      BY <1>0, <2>2 DEF BudgetInv
    <3> QED BY <2>2, <3>1
  <2> QED BY <1>2, <2>1, <2>2 DEF RunCounted
<1> QED BY <1>1, <1>2 DEF BudgetInv, LoadedCounted

(***************************************************************************)
(* What _schedule_retry writes: one retry more than was loaded, and it     *)
(* gives up only when these are a full budget.                             *)
(***************************************************************************)
LEMMA RetryRowBudget ==
    ASSUME NEW c \in Rows, NEW s \in Rows, NEW unlocked \in BOOLEAN
    PROVE  LET r == RetryRow(c, s, unlocked) IN
           /\ r.retries = s.retries + 1
           /\ r.status = "rejected" => c.status = "rejected" \/ s.retries + 1 >= RetryMax
<1>1. RetryRow(c, s, unlocked).retries = s.retries + 1
  BY RetriesAfter
<1>2. CASE ~Exhausted(s)
  <2> DEFINE n == [s EXCEPT !.retries = s.retries + 1, !.status = "approved_for_retry",
                            !.locked = FALSE]
  <2>1. n.status = "approved_for_retry"
    BY DEF Rows
  <2> HIDE DEF n
  <2>2. Updated(c, s, n).status \in {c.status, "approved_for_retry"}
    BY <2>1, UpdatedStatus
  <2>3. [Updated(c, s, n) EXCEPT !.backoff = TRUE].status = Updated(c, s, n).status
    BY DEF Updated
  <2> QED BY <1>1, <1>2, <2>2, <2>3 DEF RetryRow, n
<1> QED BY <1>1, <1>2 DEF Exhausted

LEMMA RunBudget ==
    ASSUME TypeOK, TypeOK', BudgetInv, NEW w \in Workers, QRunStep(w)
    PROVE  BudgetInv'
<1> USE DEF table, keys, control, history, bounds, clock
<1> DEFINE j == worker[w].job
           s == worker[w].snap
<1>0. /\ counted \in [Jobs -> Nat] /\ RetryMax \in Nat
      /\ \A k \in Jobs : counted[k] <= counted[k]
  BY BoundAssumption DEF BudgetInv
<1>1. ASSUME worker[w].pc # "idle"
      PROVE  /\ j \in Jobs /\ s \in Rows /\ row[j] \in Rows
             /\ s.retries \in Nat /\ s.retries <= counted[j] /\ s.locked \in BOOLEAN
  BY <1>1, WorkerType DEF TypeOK, BudgetInv, LoadedCounted, Rows
<1>2. /\ Return(w) => \A v \in Workers : RunCounted(v)
      /\ \A pc : worker[w].pc # "idle" /\ Goto(w, pc) => \A v \in Workers : RunCounted(v)
  <2>1. worker[w] \in WorkerStates
    BY DEF TypeOK
  <2>2. Return(w) => worker'[w].pc = "idle" /\ \A v \in Workers \ {w} : worker'[v] = worker[v]
    BY DEF Return, TypeOK, Idle
  <2>3. \A pc : Goto(w, pc) =>
            /\ worker'[w].job = worker[w].job /\ worker'[w].snap = worker[w].snap
            /\ \A v \in Workers \ {w} : worker'[v] = worker[v]
    BY <2>1 DEF Goto, TypeOK, Idle, WorkerStates
  <2> QED BY <2>2, <2>3 DEF RunCounted
<1>3. ASSUME worker[w].pc # "idle", UNCHANGED <<counted, reviewed>>, Return(w),
             NEW n \in Rows, Commit(j, Updated(row[j], s, n)),
             n.retries = s.retries, n.status # "rejected"
      PROVE  BudgetInv'
  <2> DEFINE r == Updated(row[j], s, n)
  <2>1. r.retries = row[j].retries /\ r.status \in {row[j].status, n.status}
    BY <1>1, <1>3, RetriesAfter, UpdatedStatus
  <2>2. Commit(j, r)
    BY <1>3
  <2> HIDE DEF r
  <2>3. \A k \in Jobs : RowCounted(k) /\ RowSpent(k)
    BY <1>1, <1>3, <2>1, <2>2, CommitOther DEF RowCounted, RowSpent
  <2> QED BY <1>0, <1>2, <1>3, <2>3, BudgetFrame
<1>4. ASSUME worker[w].pc # "idle", UNCHANGED reviewed, Return(w), Counts(w),
             NEW unlocked \in BOOLEAN, Commit(j, RetryRow(row[j], s, unlocked))
      PROVE  BudgetInv'
  <2> DEFINE r == RetryRow(row[j], s, unlocked)
  <2>1. /\ r.retries = s.retries + 1
        /\ r.status = "rejected" => row[j].status = "rejected" \/ s.retries + 1 >= RetryMax
    BY <1>1, <1>4, RetryRowBudget
  <2>2. Commit(j, r)
    BY <1>4
  <2> HIDE DEF r
  <2>3. /\ counted' \in [Jobs -> Nat] /\ counted'[j] = counted[j] + 1
        /\ \A k \in Jobs \ {j} : counted'[k] = counted[k]
    BY <1>0, <1>1, <1>4 DEF Counts
  <2>4. counted[j] \in Nat /\ s.retries + 1 <= counted'[j] /\ counted[j] <= counted'[j]
    BY <1>0, <1>1, <1>4, <2>3
  <2>5. \A k \in Jobs : RowCounted(k) /\ RowSpent(k)
    <3>1. RowCounted(j) /\ RowSpent(j)
      BY <1>0, <1>1, <1>4, <2>1, <2>2, <2>3, <2>4, CommitOther DEF RowCounted, RowSpent
    <3>2. \A k \in Jobs \ {j} : row'[k] = row[k]
      BY <1>1, <1>4, <2>2, CommitOther
    <3> QED BY <3>1, <3>2 DEF RowCounted, RowSpent
  <2>6. \A k \in Jobs : counted[k] <= counted'[k]
    BY <1>0, <2>3, <2>4
  <2> QED BY <1>2, <1>4, <2>3, <2>5, <2>6, BudgetFrame
<1>5. ASSUME UNCHANGED <<row, counted, reviewed>>, \A v \in Workers : RunCounted(v)
      PROVE  BudgetInv'
  BY <1>0, <1>5, BudgetFrame DEF RowCounted, RowSpent
<1>6. CASE Take(w)
  <2>1. TakeJob(w) /\ UNCHANGED counted
    BY <1>6 DEF Take
  <2>2. \A v \in Workers : RunCounted(v)
    BY <2>1 DEF TakeJob, At, RunCounted, TypeOK
  <2> QED BY <1>5, <2>1, <2>2 DEF TakeJob
<1>7. CASE Blocked(w)
  <2>1. worker[w].pc # "idle" /\ Return(w) /\ UNCHANGED <<counted, reviewed>>
    BY <1>7 DEF Blocked, Block, At
  <2>2. PICK locked \in {FALSE, s.locked} :
            Commit(j, Updated(row[j], s, [s EXCEPT !.status = "blocked", !.locked = locked]))
    BY <1>7 DEF Blocked, Block, Save
  <2> DEFINE n == [s EXCEPT !.status = "blocked", !.locked = locked]
  <2>3. n \in Rows /\ n.retries = s.retries /\ n.status = "blocked"
    BY <1>1, <2>1 DEF Rows, Statuses
  <2>4. Commit(j, Updated(row[j], s, n))
    BY <2>2
  <2> HIDE DEF n
  <2> QED BY <1>3, <2>1, <2>3, <2>4
<1>8. CASE AskQuietHours(w)
  BY <1>5, <1>8 DEF AskQuietHours, vars, RunCounted, TypeOK, WorkerStates
<1>9. CASE Throttled(w)
  <2>1. worker[w].pc # "idle" /\ Return(w) /\ Counts(w) /\ UNCHANGED reviewed
        /\ Commit(j, RetryRow(row[j], s, s.locked))
    BY <1>9 DEF Throttled, Throttle, At, Save
  <2> QED BY <1>1, <1>4, <2>1
<1>10. CASE Failed(w)
  <2>1. worker[w].pc # "idle" /\ Return(w) /\ Counts(w) /\ UNCHANGED reviewed
        /\ Commit(j, RetryRow(row[j], s, FALSE))
    BY <1>10 DEF Failed, RecordFailed, At, Save
  <2> QED BY <1>4, <2>1
<1>11. CASE CheckCampaign(w) /\ UNCHANGED clock
  <2> DEFINE n == [s EXCEPT !.status = "paused", !.locked = FALSE]
  <2>1. worker[w].pc # "idle" /\ UNCHANGED <<counted, reviewed>>
    BY <1>11 DEF CheckCampaign, At
  <2>2. \/ Goto(w, "cleared") /\ UNCHANGED row
        \/ Commit(j, Updated(row[j], s, n)) /\ Return(w)
    BY <1>11 DEF CheckCampaign, Save
  <2>3. n \in Rows /\ n.retries = s.retries /\ n.status = "paused"
    BY <1>1, <2>1 DEF Rows, Statuses
  <2> HIDE DEF n
  <2> QED BY <1>2, <1>3, <1>5, <2>1, <2>2, <2>3
<1>12. CASE RecordSent(w) /\ UNCHANGED clock
  <2> DEFINE n == [s EXCEPT !.status = "sent", !.locked = FALSE]
  <2>1. /\ worker[w].pc # "idle" /\ UNCHANGED <<counted, reviewed>> /\ Return(w)
        /\ Commit(j, Updated(row[j], s, n))
    BY <1>12 DEF RecordSent, At, Save
  <2>2. n \in Rows /\ n.retries = s.retries /\ n.status = "sent"
    BY <1>1, <2>1 DEF Rows, Statuses
  <2> HIDE DEF n
  <2> QED BY <1>3, <2>1, <2>2
<1>13. CASE Passed(w) \/ ((SetDupKey(w) \/ FlushAttempt(w) \/ Deliver(w) \/ Refuse(w))
                         /\ UNCHANGED clock)
  <2>1. /\ worker[w].pc # "idle" /\ UNCHANGED <<row, counted, reviewed>>
        /\ Return(w) \/ \E pc : Goto(w, pc)
    BY <1>13 DEF Passed, DupKeyAbsent, SetDupKey, FlushAttempt, Deliver, Refuse, At
  <2> QED BY <1>2, <1>5, <2>1
<1> QED BY <1>6, <1>7, <1>8, <1>9, <1>10, <1>11, <1>12, <1>13, QRunStep(w) DEF QRunStep

LEMMA OtherBudget ==
    ASSUME TypeOK, TypeOK', BudgetInv, UNCHANGED <<worker, counted>>, reviewed \subseteq reviewed',
           \A j \in Jobs : \/ row'[j] = row[j]
                           \/ j \in reviewed' /\ row'[j].retries = row[j].retries
                           \/ row'[j].status # "rejected" /\ row'[j].retries = row[j].retries
                           \/ row'[j] = [row[j] EXCEPT !.locked = TRUE]
    PROVE  BudgetInv'
<1>1. \A j \in Jobs : counted[j] <= counted'[j] /\ counted' \in [Jobs -> Nat]
  BY DEF BudgetInv
<1>2. \A w \in Workers : RunCounted(w)
  BY DEF RunCounted
<1>3. ASSUME NEW j \in Jobs PROVE RowCounted(j) /\ RowSpent(j)
  <2>1. row[j] \in Rows
    BY DEF TypeOK
  <2>2. row'[j] = [row[j] EXCEPT !.locked = TRUE]
        => row'[j].retries = row[j].retries /\ row'[j].status = row[j].status
    BY <2>1 DEF Rows
  <2> QED BY <2>2 DEF RowCounted, RowSpent
<1>4. counted' \in [Jobs -> Nat]
  BY DEF BudgetInv
<1> QED BY <1>1, <1>2, <1>3, <1>4, BudgetFrame

LEMMA RequestBudget ==
    ASSUME TypeOK, TypeOK', BudgetInv, RequestStep, UNCHANGED counted
    PROVE  BudgetInv'
<1> USE DEF table, keys, others, history
<1>1. CASE \E c \in Campaigns : \/ TriggerBatch(c) \/ GenerateCampaignMembers(c)
                                \/ \E status \in {"approved", "paused"} :
                                       UpdateCampaignStatus(c, status)
  <2>1. UNCHANGED <<worker, row, reviewed>>
    BY <1>1 DEF TriggerBatch, GenerateCampaignMembers, UpdateCampaignStatus
  <2> QED BY <2>1, OtherBudget
<1>2. ASSUME NEW j \in Jobs, UNCHANGED worker, reviewed \subseteq reviewed',
             NEW r, row' = [row EXCEPT ![j] = r], r.retries = row[j].retries,
             j \in reviewed' \/ r.status # "rejected"
      PROVE  BudgetInv'
  <2>1. row'[j] = r /\ \A k \in Jobs \ {j} : row'[k] = row[k]
    BY <1>2 DEF TypeOK
  <2> QED BY <1>2, <2>1, OtherBudget
<1>3. \A j \in Jobs : row[j] \in Rows
  BY DEF TypeOK
<1>4. ASSUME NEW j \in Jobs, ApprovePausedJob(j) PROVE BudgetInv'
  <2> DEFINE r == [row[j] EXCEPT !.status = "approved_for_retry", !.locked = FALSE]
  <2>1. /\ UNCHANGED worker /\ reviewed \subseteq reviewed' /\ j \in reviewed'
        /\ row' = [row EXCEPT ![j] = r]
    BY <1>4 DEF ApprovePausedJob
  <2>2. r.retries = row[j].retries
    BY <1>3 DEF Rows
  <2> HIDE DEF r
  <2> QED BY <1>2, <2>1, <2>2
<1>5. ASSUME NEW j \in Jobs, RejectPausedJob(j) PROVE BudgetInv'
  <2> DEFINE r == [row[j] EXCEPT !.status = "rejected"]
  <2>1. /\ UNCHANGED worker /\ reviewed \subseteq reviewed' /\ j \in reviewed'
        /\ row' = [row EXCEPT ![j] = r]
    BY <1>5 DEF RejectPausedJob
  <2>2. r.retries = row[j].retries
    BY <1>3 DEF Rows
  <2> HIDE DEF r
  <2> QED BY <1>2, <2>1, <2>2
<1>6. ASSUME NEW j \in Jobs, RetryJobNow(j) PROVE BudgetInv'
  <2> DEFINE r == [row[j] EXCEPT !.status = "approved_for_retry", !.locked = FALSE,
                                 !.backoff = FALSE]
  <2>1. UNCHANGED <<worker, reviewed>> /\ row' = [row EXCEPT ![j] = r]
    BY <1>6 DEF RetryJobNow
  <2>2. r.retries = row[j].retries /\ r.status = "approved_for_retry"
    BY <1>3 DEF Rows
  <2> HIDE DEF r
  <2> QED BY <1>2, <2>1, <2>2
<1> QED BY <1>1, <1>4, <1>5, <1>6 DEF RequestStep

LEMMA BudgetStep ==
    ASSUME TypeOK, TypeOK', BudgetInv, [QNext]_qvars
    PROVE  BudgetInv'
<1> USE DEF table, keys, others, history, clock
<1>1. CASE QTickStep \/ QApiStep
  <2>1. UNCHANGED <<worker, reviewed, counted>>
    BY <1>1 DEF QTickStep, QApiStep, TickStep, ApiStep, TickBegin, TickBatch, TickRetries,
                Mark, TickRaises, DispatchCommit, EnqueueRetry
  <2>2. (\E d \in Dispatchers : DispatchCommit(d)) \/ row' = row
    BY <1>1 DEF QTickStep, QApiStep, TickStep, ApiStep, TickBegin, TickBatch, TickRetries,
                Mark, TickRaises, EnqueueRetry, Dispatchers
  <2>3. \A j \in Jobs : row'[j] = row[j] \/ row'[j] = [row[j] EXCEPT !.locked = TRUE]
    BY <2>2 DEF DispatchCommit
  <2> QED BY <2>1, <2>3, OtherBudget
<1>2. CASE SubmitStep /\ UNCHANGED clock
  <2>1. UNCHANGED <<worker, reviewed, counted, row>>
    BY <1>2 DEF SubmitStep, SubmitTransactional, EnqueueSubmitted, SubmitInterrupted
  <2> QED BY <2>1, OtherBudget
<1>3. CASE \/ HourPasses \/ UNCHANGED qvars
           \/ (\/ \E d \in Dispatchers : DispatchInterrupted(d)
               \/ \E m \in Messages : DupKeyExpires(m)) /\ UNCHANGED clock
  <2>1. UNCHANGED <<worker, reviewed, counted, row>>
    BY <1>3 DEF HourPasses, qvars, vars, DispatchInterrupted, DupKeyExpires, control
  <2> QED BY <2>1, OtherBudget
<1>4. ASSUME NEW w \in Workers, Crash(w) PROVE BudgetInv'
  <2>1. UNCHANGED <<reviewed, counted, row>> /\ Return(w)
    BY <1>4 DEF Crash, WorkerCrash
  <2>2. \A v \in Workers : RunCounted(v)
    BY <2>1 DEF Return, RunCounted, TypeOK, Idle
  <2>3. counted' \in [Jobs -> Nat] /\ \A j \in Jobs : counted[j] <= counted'[j]
    BY <2>1 DEF BudgetInv
  <2> QED BY <2>1, <2>2, <2>3, BudgetFrame DEF RowCounted, RowSpent
<1> QED BY <1>1, <1>2, <1>3, <1>4, RunBudget, RequestBudget DEF QNext

(***************************************************************************)
(* Nobody gives a job up before its budget is spent, however many workers  *)
(* race and whatever they and the operators find in their stale rows.      *)
(***************************************************************************)
THEOREM BudgetSpent == QSpec => []GivenUpAfterBudget
<1>1. QInit => BudgetInv
  <2> SUFFICES ASSUME QInit PROVE BudgetInv
    OBVIOUS
  <2>1. counted = [j \in Jobs |-> 0] /\ row = [j \in Jobs |-> NewRow]
    BY DEF QInit, Init
  <2>2. \A w \in Workers : worker[w].pc = "idle"
    BY DEF QInit, Init, Idle
  <2> QED BY <2>1, <2>2 DEF BudgetInv, Spent, LoadedCounted, NewRow
<1>2. TypeOK /\ TypeOK' /\ BudgetInv /\ [QNext]_qvars => BudgetInv'
  BY BudgetStep
<1>3. TypeOK /\ BudgetInv => GivenUpAfterBudget
  BY DEF TypeOK, BudgetInv, Spent, GivenUpAfterBudget
<1> QED
  BY <1>1, <1>2, <1>3, QuietTypeCorrect, PTL DEF QSpec
=============================================================================

---------------------------- MODULE IntakeProofs ----------------------------
(***************************************************************************)
(* The intake's promises for any requests and keys.                        *)
(***************************************************************************)
EXTENDS Intake, TLAPS

(***************************************************************************)
(* The unique index as an invariant: a transaction that inserted the key   *)
(* is alone and finds the key free; the owner of a committed event is past *)
(* its commit; a client is answered only when its request ends.            *)
(***************************************************************************)
FlushedAlone == \A r \in Requests : pc[r] = "flushed" =>
    /\ event[KeyOf[r]] = NoRequest
    /\ \A q \in Requests : KeyOf[q] = KeyOf[r] /\ pc[q] = "flushed" => q = r
CommittedOwns == \A r \in Requests : pc[r] = "committed" =>
    event[KeyOf[r]] = r /\ entries[KeyOf[r]] = 0
OwnerCommitted == \A r \in Requests : event[KeyOf[r]] = r => pc[r] \in {"committed", "ended"}
AnsweredLast == \A r \in Requests : pc[r] # "ended" => answer[r] = "none"
IntakeInv == /\ TypeOK /\ FlushedAlone /\ CommittedOwns /\ OwnerCommitted /\ AnsweredLast
             /\ OneJobPerKey /\ QueuedIsTrue

LEMMA IntakeStep == IntakeInv /\ [Next]_vars => IntakeInv'
<1> SUFFICES ASSUME IntakeInv, [Next]_vars PROVE IntakeInv'
  OBVIOUS
<1> USE DEF IntakeInv, TypeOK, FlushedAlone, CommittedOwns, OwnerCommitted, AnsweredLast,
            OneJobPerKey, QueuedIsTrue
<1>0. \A r \in Requests : KeyOf[r] \in Keys /\ r # NoRequest
  BY IntakeAssumption
<1>1. ASSUME NEW r \in Requests, LookUp(r) PROVE IntakeInv'
  BY <1>0, <1>1 DEF LookUp, Goto, Respond
<1>2. ASSUME NEW r \in Requests, Flush(r) PROVE IntakeInv'
  BY <1>0, <1>2 DEF Flush, Goto, Respond
<1>3. ASSUME NEW r \in Requests, NoTemplate(r) PROVE IntakeInv'
  BY <1>0, <1>3 DEF NoTemplate, Goto, Respond
<1>4. ASSUME NEW r \in Requests, CommitJob(r) PROVE IntakeInv'
  <2> DEFINE k == KeyOf[r]
  <2>1. /\ pc[r] = "flushed" /\ UNCHANGED <<entries, answer, crashes>>
        /\ pc' = [pc EXCEPT ![r] = "committed"] /\ event' = [event EXCEPT ![k] = r]
        /\ jobs' = [jobs EXCEPT ![k] = jobs[k] \cup {r}]
    BY <1>4 DEF CommitJob, Goto
  <2>2. k \in Keys /\ event[k] = NoRequest /\ jobs[k] = {} /\ entries[k] = 0
    <3>1. k \in Keys /\ event[k] = NoRequest
      BY <1>0, <2>1
    <3>2. jobs[k] = {}
      <4> HIDE DEF k
      <4> QED BY <3>1
    <3>3. entries[k] \in Nat /\ entries[k] <= 1 /\ entries[k] # 1
      <4> HIDE DEF k
      <4> QED BY <3>1
    <3> QED BY <3>1, <3>2, <3>3
  <2>3. /\ event'[k] = r /\ jobs'[k] = {r}
        /\ \A l \in Keys : l # k => event'[l] = event[l] /\ jobs'[l] = jobs[l]
    <3> HIDE DEF k
    <3> QED BY <2>1, <2>2
  <2>4. TypeOK'
    BY <2>1, <2>2
  <2>5. FlushedAlone' /\ AnsweredLast'
    BY <1>0, <2>1, <2>3
  <2>6. CommittedOwns' /\ OwnerCommitted'
    BY <1>0, <2>1, <2>2, <2>3
  <2>7. OneJobPerKey'
    BY <1>0, <2>1, <2>2, <2>3
  <2>8. QueuedIsTrue'
    BY <1>0, <2>1, <2>2, <2>3
  <2> QED BY <2>4, <2>5, <2>6, <2>7, <2>8
<1>5. ASSUME NEW r \in Requests, EnqueueJob(r) PROVE IntakeInv'
  BY <1>0, <1>5 DEF EnqueueJob, Goto, Respond
<1>6. ASSUME NEW r \in Requests, EnqueueFails(r) PROVE IntakeInv'
  BY <1>0, <1>6 DEF EnqueueFails, Goto, Respond
<1>7. CASE Crash
  BY <1>0, <1>7 DEF Crash
<1>8. CASE UNCHANGED vars
  BY <1>8 DEF vars
<1> QED BY <1>1, <1>2, <1>3, <1>4, <1>5, <1>6, <1>7, <1>8 DEF Next, Serve

LEMMA IntakeInit == Init => IntakeInv
BY IntakeAssumption DEF Init, IntakeInv, TypeOK, FlushedAlone, CommittedOwns, OwnerCommitted,
   AnsweredLast, OneJobPerKey, QueuedIsTrue

(***************************************************************************)
(* The database's unique index is enough: any number of concurrent         *)
(* requests and crashes leave one job and at most one entry per key.       *)
(***************************************************************************)
THEOREM KeyAcceptedOnce == Spec => []OneJobPerKey
<1>1. IntakeInv => OneJobPerKey
  BY DEF IntakeInv
<1> QED BY IntakeInit, IntakeStep, <1>1, PTL DEF Spec

(***************************************************************************)
(* No client is told "queued" or "duplicate_ignored" about a job that is   *)
(* not there.                                                              *)
(***************************************************************************)
THEOREM AnswersAreTrue == Spec => []QueuedIsTrue
<1>1. IntakeInv => QueuedIsTrue
  BY DEF IntakeInv
<1> QED BY IntakeInit, IntakeStep, <1>1, PTL DEF Spec

(***************************************************************************)
(* Every step of the intake is a step of the abstract acceptance or leaves *)
(* it alone.                                                               *)
(***************************************************************************)
THEOREM IntakeAccepts == Spec => Accepts
<1>1. Init => Abstract!Init
  BY DEF Init, Abstract!Init
<1>2. IntakeInv /\ [Next]_vars => [Abstract!Next]_<<event, answer>>
  <2> SUFFICES ASSUME IntakeInv, [Next]_vars PROVE [Abstract!Next]_<<event, answer>>
    OBVIOUS
  <2> USE DEF IntakeInv, Goto, Respond
  <2>0. \A r \in Requests : KeyOf[r] \in Keys /\ r # NoRequest
    BY IntakeAssumption
  <2>1. ASSUME NEW r \in Requests, LookUp(r) PROVE [Abstract!Next]_<<event, answer>>
    <3>1. CASE event[KeyOf[r]] = NoRequest
      BY <2>1, <3>1 DEF LookUp
    <3>2. CASE event[KeyOf[r]] # NoRequest
      <4>1. event[KeyOf[r]] # r /\ answer[r] = "none"
        BY <2>1 DEF LookUp, OwnerCommitted, AnsweredLast
      <4>2. Abstract!Answer(r, "duplicate_ignored")
        BY <2>1, <3>2, <4>1 DEF LookUp, Abstract!Answer
      <4> QED BY <4>2 DEF Abstract!Next
    <3> QED BY <3>1, <3>2
  <2>2. ASSUME NEW r \in Requests, Flush(r) \/ NoTemplate(r) \/ EnqueueFails(r)
        PROVE  [Abstract!Next]_<<event, answer>>
    <3>1. Abstract!Answer(r, "error") \/ UNCHANGED <<event, answer>>
      BY <2>2 DEF Flush, NoTemplate, EnqueueFails, AnsweredLast, Abstract!Answer
    <3> QED BY <3>1 DEF Abstract!Next
  <2>3. ASSUME NEW r \in Requests, CommitJob(r) PROVE [Abstract!Next]_<<event, answer>>
    <3>1. Abstract!Accept(r)
      BY <2>3 DEF CommitJob, FlushedAlone, AnsweredLast, Abstract!Accept
    <3> QED BY <3>1 DEF Abstract!Next
  <2>4. ASSUME NEW r \in Requests, EnqueueJob(r) PROVE [Abstract!Next]_<<event, answer>>
    <3>1. Abstract!Answer(r, "queued")
      BY <2>4 DEF EnqueueJob, CommittedOwns, AnsweredLast, Abstract!Answer
    <3> QED BY <3>1 DEF Abstract!Next
  <2>5. CASE Crash \/ UNCHANGED vars
    BY <2>5 DEF Crash, vars
  <2> QED BY <2>1, <2>2, <2>3, <2>4, <2>5 DEF Next, Serve
<1> QED BY <1>1, <1>2, IntakeInit, IntakeStep, PTL DEF Spec, Accepts, Abstract!Spec
=============================================================================

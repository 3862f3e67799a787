------------------------ MODULE LoginThrottleProofs ------------------------
(***************************************************************************)
(* Proofs that the variables of LoginThrottle keep their types and that an *)
(* account with enough failures is locked, for any number of addresses,    *)
(* users, failures and any lockout.                                        *)
(***************************************************************************)
EXTENDS LoginThrottle, TLAPS

(* Of a login or a command that has read a row, what the types say. *)
LEMMA Counting ==
    ASSUME TypeOK, login.pc = "got"
    PROVE  login.address \in Addresses /\ login.attempts \in 0..MaxAttempts
BY DEF TypeOK, Idle

LEMMA Counted ==
    ASSUME TypeOK, login.pc = "counted"
    PROVE  login.address \in Addresses
BY DEF TypeOK, Idle

LEMMA Verifying ==
    ASSUME TypeOK, login.pc = "verifying"
    PROVE  login.address \in Addresses /\ login.user \in Users /\ login.seen \in Row
BY DEF TypeOK, Idle

LEMMA Loaded ==
    ASSUME TypeOK, unlock.pc = "loaded"
    PROVE  unlock.user \in Users /\ unlock.seen \in Row
BY DEF TypeOK, Idle

(* What the two UPDATEs make of a row is a row. *)
LEMMA FailedType ==
    ASSUME NEW r \in Row, NEW seen \in Row
    PROVE  Failed(r, seen) \in Row
<1>1. MaxFails \in 0..MaxFails /\ LockTime \in Null..LockTime
  BY ThrottleAssumption DEF Null
<1>2. (r.locked \/ ~seen.locked) \in BOOLEAN
  OBVIOUS
<1>3. CASE seen.fails + 1 >= MaxFails
  BY <1>1, <1>2, <1>3 DEF Failed, Row
<1>4. CASE ~(seen.fails + 1 >= MaxFails)
  <2>1. seen.fails + 1 \in 0..MaxFails
    BY <1>4, ThrottleAssumption DEF Row
  <2> QED BY <1>4, <2>1 DEF Failed, Row
<1> QED BY <1>3, <1>4

LEMMA ClearedType ==
    ASSUME NEW r \in Row, NEW seen \in Row
    PROVE  Cleared(r, seen) \in Row
<1>1. 0 \in 0..MaxFails /\ Null \in Null..LockTime
  BY ThrottleAssumption DEF Null
<1>2. (r.locked /\ ~seen.locked) \in BOOLEAN
  OBVIOUS
<1>3. (IF seen.fails = 0 THEN r.fails ELSE 0) \in 0..MaxFails
  BY <1>1 DEF Row
<1>4. (IF seen.left = Null THEN r.left ELSE Null) \in Null..LockTime
  BY <1>1 DEF Row
<1> QED BY <1>2, <1>3, <1>4 DEF Cleared, Row

LEMMA CapType ==
    ASSUME NEW max \in Nat, NEW n \in 0..max
    PROVE  CapAt(n + 1, max) \in 0..max
BY DEF CapAt

-----------------------------------------------------------------------------
(***************************************************************************)
(* The count that INCR raises is at most the one that GET returned:        *)
(* logins follow one another, and meanwhile it can only expire.            *)
(***************************************************************************)
CountRead == login.pc = "got" => count[login.address] <= login.attempts
TypeInv == TypeOK /\ CountRead

LEMMA TypesInit == Init => TypeInv
BY ThrottleAssumption DEF Init, TypeInv, TypeOK, CountRead, Row, Fresh, Idle, Null

LEMMA TypesStep == TypeInv /\ [Next]_vars => TypeInv'
<1> SUFFICES ASSUME TypeInv, [Next]_vars PROVE TypeInv'
  OBVIOUS
<1> USE ThrottleAssumption
<1>t. TypeOK
  BY DEF TypeInv
<1>1. CASE Tick
  <2>1. ttl' \in [Addresses -> 0..Window]
    BY <1>t, <1>1 DEF TypeOK, Tick
  <2>2. count' \in [Addresses -> 0..MaxAttempts]
    BY <1>t, <1>1 DEF TypeOK, Tick
  <2>3. row' \in [Users -> Row]
    <3>1. ASSUME NEW u \in Users, row[u].left >= 0
          PROVE  [row[u] EXCEPT !.left = @ - 1] \in Row
      <4>1. row[u].left - 1 \in Null..LockTime
        BY <1>t, <3>1 DEF TypeOK, Row, Null
      <4> QED BY <1>t, <4>1 DEF TypeOK, Row
    <3> QED BY <1>t, <1>1, <3>1 DEF TypeOK, Tick
  <2>4. calm' \in [Users -> 0..(LockTime + 1)]
    <3>1. \A u \in Users : CapAt(calm[u] + 1, LockTime + 1) \in 0..(LockTime + 1)
      BY <1>t DEF TypeOK, CapAt
    <3> QED BY <1>1, <3>1 DEF Tick
  <2>6. CountRead'
    <3>1. \A a \in Addresses : count'[a] <= count[a]
      BY <1>t, <1>1 DEF TypeOK, Tick
    <3>2. CASE login.pc = "got"
      <4>1. login.address \in Addresses /\ login.attempts \in 0..MaxAttempts
        BY <1>t, <3>2, Counting
      <4> QED BY <1>t, <1>1, <2>2, <3>1, <3>2, <4>1 DEF TypeInv, TypeOK, CountRead, Tick
    <3> QED BY <1>1, <3>2 DEF CountRead, Tick
  <2> QED BY <1>t, <1>1, <2>1, <2>2, <2>3, <2>4, <2>6 DEF TypeInv, TypeOK, Tick
<1>2. ASSUME NEW a \in Addresses, GetAttempts(a) PROVE TypeInv'
  <2>1. count[a] \in 0..MaxAttempts
    BY <1>t DEF TypeOK
  <2> QED BY <1>t, <1>2, <2>1 DEF TypeInv, TypeOK, CountRead, GetAttempts, redis, history
<1>3. CASE CountAttempt
  <2>1. login.address \in Addresses /\ login.attempts \in 0..MaxAttempts
        /\ count[login.address] <= login.attempts
    BY <1>t, <1>3, Counting DEF TypeInv, CountRead, CountAttempt
  <2>2. login' \in {Idle} \cup [pc: {"counted"}, address: Addresses]
    BY <1>3, <2>1 DEF CountAttempt
  <2>3. ttl' \in [Addresses -> 0..Window]
    BY <1>t, <1>3, <2>1 DEF CountAttempt, TypeOK, redis
  <2>4. count' \in [Addresses -> 0..MaxAttempts]
    <3>1. CASE login.attempts >= MaxAttempts
      BY <1>t, <1>3, <3>1 DEF CountAttempt, TypeOK, redis
    <3>2. CASE ~(login.attempts >= MaxAttempts)
      <4>1. count[login.address] + 1 \in 0..MaxAttempts /\ 1 \in 0..MaxAttempts
        BY <1>t, <2>1, <3>2 DEF TypeOK
      <4> QED BY <1>t, <1>3, <2>1, <3>2, <4>1 DEF CountAttempt, TypeOK
    <3> QED BY <3>1, <3>2
  <2>5. CountRead'
    BY <2>2 DEF CountRead, Idle
  <2> QED BY <1>t, <1>3, <2>2, <2>3, <2>4, <2>5 DEF TypeInv, TypeOK, CountAttempt, history
<1>4. CASE CountFails
  <2>1. login.address \in Addresses
    BY <1>t, <1>4, Counting DEF CountFails
  <2> QED BY <1>t, <1>4, <2>1 DEF TypeInv, TypeOK, CountRead, CountFails, redis, history
<1>5. CASE NoAccount
  BY <1>t, <1>5 DEF TypeInv, TypeOK, CountRead, NoAccount, Idle, redis, history
<1>6. ASSUME NEW u \in Users, LoadUser(u) PROVE TypeInv'
  <2>1. login.address \in Addresses /\ row[u] \in Row
    BY <1>t, <1>6, Counted DEF TypeOK, LoadUser
  <2>2. login' \in {Idle} \cup [pc: {"verifying"}, address: Addresses, user: Users, seen: Row]
    BY <1>6, <2>1 DEF LoadUser
  <2>3. CountRead'
    BY <2>2 DEF CountRead, Idle
  <2> QED BY <1>t, <1>6, <2>2, <2>3 DEF TypeInv, TypeOK, LoadUser, redis, history
<1>7. CASE RecordFailedLogin
  <2>1. login.user \in Users /\ login.seen \in Row
    BY <1>t, <1>7, Verifying DEF RecordFailedLogin
  <2>2. row' \in [Users -> Row]
    <3>1. Failed(row[login.user], login.seen) \in Row
      BY <1>t, <2>1, FailedType DEF TypeOK
    <3> QED BY <1>t, <1>7, <2>1, <3>1 DEF TypeOK, RecordFailedLogin
  <2>3. since' \in [Users -> 0..MaxFails]
    BY <1>t, <1>7, <2>1, CapType DEF TypeOK, RecordFailedLogin
  <2>4. calm' \in [Users -> 0..(LockTime + 1)]
    BY <1>t, <1>7, <2>1 DEF TypeOK, RecordFailedLogin
  <2>5. CountRead'
    BY <1>7 DEF CountRead, RecordFailedLogin, Idle
  <2> QED BY <1>t, <1>7, <2>2, <2>3, <2>4, <2>5 DEF TypeInv, TypeOK, RecordFailedLogin, redis
<1>8. CASE ResetFailedAttempts
  <2>1. login.user \in Users /\ login.address \in Addresses /\ login.seen \in Row
    BY <1>t, <1>8, Verifying DEF ResetFailedAttempts
  <2>2. row' \in [Users -> Row]
    <3>1. Cleared(row[login.user], login.seen) \in Row
      BY <1>t, <2>1, ClearedType DEF TypeOK
    <3> QED BY <1>t, <1>8, <2>1, <3>1 DEF TypeOK, ResetFailedAttempts
  <2>3. since' \in [Users -> 0..MaxFails]
    BY <1>t, <1>8, <2>1 DEF TypeOK, ResetFailedAttempts
  <2>4. count' \in [Addresses -> 0..MaxAttempts] /\ ttl' \in [Addresses -> 0..Window]
    BY <1>t, <1>8, <2>1 DEF TypeOK, ResetFailedAttempts, redis
  <2>5. CountRead'
    BY <1>8 DEF CountRead, ResetFailedAttempts, Idle
  <2> QED BY <1>t, <1>8, <2>2, <2>3, <2>4, <2>5 DEF TypeInv, TypeOK, ResetFailedAttempts
<1>9. CASE Abandon
  BY <1>t, <1>9 DEF TypeInv, TypeOK, CountRead, Abandon, Idle, redis, history
<1>10. CASE UnlockCommit
  <2>1. unlock.user \in Users /\ unlock.seen \in Row
    BY <1>t, <1>10, Loaded DEF UnlockCommit
  <2>2. row' \in [Users -> Row]
    <3>1. Cleared(row[unlock.user], unlock.seen) \in Row
      BY <1>t, <2>1, ClearedType DEF TypeOK
    <3> QED BY <1>t, <1>10, <2>1, <3>1 DEF TypeOK, UnlockCommit
  <2>3. since' \in [Users -> 0..MaxFails]
    BY <1>t, <1>10, <2>1 DEF TypeOK, UnlockCommit
  <2> QED BY <1>t, <1>10, <2>2, <2>3 DEF TypeInv, TypeOK, CountRead, UnlockCommit, redis
<1>11. ASSUME NEW u \in Users, UnlockLoad(u) PROVE TypeInv'
  BY <1>t, <1>11 DEF TypeInv, TypeOK, CountRead, UnlockLoad, redis, history
<1>12. CASE UNCHANGED vars
  BY <1>t, <1>12 DEF TypeInv, TypeOK, CountRead, vars
<1> QED
  BY <1>1, <1>2, <1>3, <1>4, <1>5, <1>6, <1>7, <1>8, <1>9, <1>10, <1>11, <1>12
  DEF Next, Login

(***************************************************************************)
(* The variables keep their types.                                         *)
(***************************************************************************)
THEOREM LockTypes == Spec => []TypeOK
<1>1. TypeInv => TypeOK
  BY DEF TypeInv
<1> QED BY TypesInit, TypesStep, <1>1, PTL DEF Spec

-----------------------------------------------------------------------------
(***************************************************************************)
(* Why the lock holds.  Neither the row nor what the login in progress has *)
(* read of it counts fewer failures than there were since the last success *)
(* or unlock; a login that saw the account locked, which is no longer so,  *)
(* comes after an unlock; and the lock set with the last of MaxFails       *)
(* failures has what remains of the lockout.                               *)
(***************************************************************************)
RowCounts == \A u \in Users : row[u].fails >= since[u]
ReadCounts == login.pc = "verifying" =>
    /\ login.seen.fails >= since[login.user]
    /\ login.seen.locked /\ ~row[login.user].locked => since[login.user] = 0
LockRuns == \A u \in Users : since[u] >= MaxFails /\ calm[u] <= LockTime =>
    row[u].locked /\ row[u].left = LockTime - calm[u]
LockInv == RowCounts /\ ReadCounts /\ LockRuns

LEMMA LockInit == Init => LockInv
BY ThrottleAssumption DEF Init, LockInv, RowCounts, ReadCounts, LockRuns, Fresh, Idle

LEMMA LockStep == TypeOK /\ TypeOK' /\ LockInv /\ [Next]_vars => LockInv'
<1> SUFFICES ASSUME TypeOK, TypeOK', LockInv, [Next]_vars PROVE LockInv'
  OBVIOUS
<1> USE ThrottleAssumption
<1>1. CASE Tick
  <2>1. ASSUME NEW u \in Users
        PROVE  row'[u].fails = row[u].fails /\ row'[u].locked = row[u].locked
               /\ (row[u].left >= 0 => row'[u].left = row[u].left - 1)
    BY <1>1, <2>1 DEF Tick, TypeOK, Row
  <2>2. RowCounts'
    BY <1>1, <2>1 DEF LockInv, RowCounts, Tick
  <2>3. ReadCounts'
    <3>1. CASE login.pc = "verifying"
      <4>1. login.user \in Users
        BY <3>1, Verifying
      <4> QED BY <1>1, <2>1, <3>1, <4>1 DEF LockInv, ReadCounts, Tick
    <3> QED BY <1>1, <3>1 DEF ReadCounts, Tick
  <2>4. LockRuns'
    <3> SUFFICES ASSUME NEW u \in Users, since'[u] >= MaxFails, calm'[u] <= LockTime
                 PROVE  row'[u].locked /\ row'[u].left = LockTime - calm'[u]
      BY DEF LockRuns
    <3>1. calm'[u] = calm[u] + 1 /\ calm[u] < LockTime
      BY <1>1 DEF Tick, CapAt, TypeOK
    <3>2. row[u].locked /\ row[u].left = LockTime - calm[u]
      BY <1>1, <3>1 DEF Tick, LockInv, LockRuns, TypeOK
    <3>3. row'[u].left = row[u].left - 1
      BY <2>1, <3>1, <3>2 DEF TypeOK
    <3>4. row'[u].locked
      BY <2>1, <3>2, Zenon
    <3>5. calm[u] \in Nat /\ LockTime \in Nat
      BY DEF TypeOK
    <3>6. row'[u].left = LockTime - calm'[u]
      BY <3>1, <3>2, <3>3, <3>5
    <3> QED BY <3>4, <3>6
  <2> QED BY <2>2, <2>3, <2>4 DEF LockInv
<1>2. ASSUME UNCHANGED <<row, history>>, login' # login => login'.pc # "verifying"
      PROVE  LockInv'
  BY <1>2 DEF LockInv, RowCounts, ReadCounts, LockRuns, history
<1>3. CASE \/ \E a \in Addresses : GetAttempts(a)
           \/ CountAttempt \/ CountFails \/ NoAccount \/ Abandon
           \/ \E u \in Users : UnlockLoad(u)
           \/ UNCHANGED vars
  BY <1>2, <1>3 DEF GetAttempts, CountAttempt, CountFails, NoAccount, Abandon, UnlockLoad,
                    Idle, vars, history
<1>4. ASSUME NEW u \in Users, LoadUser(u) PROVE LockInv'
  BY <1>4 DEF LoadUser, LockInv, RowCounts, ReadCounts, LockRuns, Idle, history
<1>5. CASE RecordFailedLogin
  <2> DEFINE u == login.user
  <2>1. u \in Users /\ login.seen \in Row /\ row[u] \in Row
    BY <1>5, Verifying DEF RecordFailedLogin, TypeOK
  <2>2. login.seen.fails >= since[u]
        /\ (login.seen.locked /\ ~row[u].locked => since[u] = 0)
    BY <1>5 DEF RecordFailedLogin, LockInv, ReadCounts
  <2>3. row'[u] = Failed(row[u], login.seen) /\ calm'[u] = 0
        /\ since'[u] = CapAt(since[u] + 1, MaxFails)
    BY <1>5, <2>1 DEF RecordFailedLogin, TypeOK
  <2>4. \A v \in Users \ {u} : row'[v] = row[v] /\ calm'[v] = calm[v] /\ since'[v] = since[v]
    BY <1>5, <2>1 DEF RecordFailedLogin, TypeOK
  <2>5. since[u] \in 0..MaxFails /\ login.seen.fails \in 0..MaxFails
    BY <2>1 DEF TypeOK, Row
  <2>6. row'[u].fails >= since'[u]
    BY <2>1, <2>2, <2>3, <2>5 DEF Failed, CapAt, Row
  <2>7. since'[u] >= MaxFails => row'[u].locked /\ row'[u].left = LockTime - calm'[u]
    <3> SUFFICES ASSUME since'[u] >= MaxFails
                 PROVE  row'[u].locked /\ row'[u].left = LockTime - calm'[u]
      OBVIOUS
    <3>1. since[u] + 1 >= MaxFails /\ since[u] # 0
      BY <2>3, <2>5 DEF CapAt
    <3>2. login.seen.fails + 1 >= MaxFails
      BY <2>2, <2>5, <3>1
    <3>3. row[u].locked \/ ~login.seen.locked
      BY <2>2, <3>1
    <3>4. row'[u].locked = (row[u].locked \/ ~login.seen.locked) /\ row'[u].left = LockTime
      BY <2>3, <3>2 DEF Failed
    <3>5. row'[u].locked
      BY <3>3, <3>4, Zenon
    <3> QED BY <2>3, <3>4, <3>5
  <2>8. RowCounts'
    BY <2>1, <2>4, <2>6 DEF LockInv, RowCounts
  <2>9. LockRuns'
    BY <2>1, <2>4, <2>7 DEF LockInv, LockRuns
  <2>10. ReadCounts'
    BY <1>5 DEF RecordFailedLogin, ReadCounts, Idle
  <2> QED BY <2>8, <2>9, <2>10 DEF LockInv
<1>6. ASSUME NEW u \in Users, NEW seen \in Row,
             row' = [row EXCEPT ![u] = Cleared(@, seen)], since' = [since EXCEPT ![u] = 0],
             UNCHANGED calm, login' = Idle \/ UNCHANGED login
      PROVE  LockInv'
  <2>1. since'[u] = 0 /\ row'[u] \in Row
    BY <1>6 DEF TypeOK
  <2>2. \A v \in Users \ {u} : row'[v] = row[v] /\ calm'[v] = calm[v] /\ since'[v] = since[v]
    BY <1>6 DEF TypeOK
  <2>3. RowCounts'
    BY <2>1, <2>2 DEF LockInv, RowCounts, Row
  <2>4. LockRuns'
    BY <2>1, <2>2 DEF LockInv, LockRuns
  <2>5. ReadCounts'
    <3>1. CASE login' = login /\ login.pc = "verifying"
      <4>1. login.user \in Users /\ login.seen \in Row
        BY <3>1, Verifying
      <4>2. CASE login.user = u
        BY <2>1, <3>1, <4>1, <4>2 DEF ReadCounts, Row
      <4>3. CASE login.user # u
        BY <2>2, <3>1, <4>1, <4>3 DEF LockInv, ReadCounts
      <4> QED BY <4>2, <4>3
    <3> QED BY <1>6, <3>1 DEF ReadCounts, Idle
  <2> QED BY <2>3, <2>4, <2>5 DEF LockInv
<1>7. CASE ResetFailedAttempts
  <2>1. login.user \in Users /\ login.seen \in Row
    BY <1>7, Verifying DEF ResetFailedAttempts
  <2> QED BY <1>6, <1>7, <2>1 DEF ResetFailedAttempts
<1>8. CASE UnlockCommit
  <2>1. unlock.user \in Users /\ unlock.seen \in Row
    BY <1>8, Loaded DEF UnlockCommit
  <2> QED BY <1>6, <1>8, <2>1 DEF UnlockCommit
<1> QED
  BY <1>1, <1>3, <1>4, <1>5, <1>7, <1>8 DEF Next, Login

(***************************************************************************)
(* An account that failed MaxFails times since the last success or unlock  *)
(* is locked for the lockout, whatever logins and the command overwrite.   *)
(***************************************************************************)
THEOREM LockHolds == Spec => []LockedAfterFailures
<1>1. Init => TypeInv /\ LockInv
  BY TypesInit, LockInit
<1>2. TypeInv /\ LockInv /\ [Next]_vars => TypeInv' /\ LockInv'
  <2>1. TypeInv => TypeOK
    BY DEF TypeInv
  <2>2. TypeInv' => TypeOK'
    BY DEF TypeInv
  <2> QED BY TypesStep, LockStep, <2>1, <2>2
<1>3. TypeInv /\ LockInv => LockedAfterFailures
  BY ThrottleAssumption DEF TypeInv, TypeOK, LockInv, LockRuns, LockedAfterFailures, IsLocked, Past
<1> QED BY <1>1, <1>2, <1>3, PTL DEF Spec

-----------------------------------------------------------------------------
(***************************************************************************)
(* Why every lock ends.  A row that says is_locked has a locked_until,     *)
(* which is no further ahead than the lockout after the last failure.  The *)
(* two writers cannot part the two columns, because both leave a row       *)
(* unlocked: the command has read that it was locked, and so writes the    *)
(* column; a login that read otherwise has nobody beside it who locks.     *)
(***************************************************************************)
TimeLeft == \A u \in Users : row[u].left >= 0 => row[u].left + calm[u] <= LockTime
LockHasTime == \A u \in Users : row[u].locked => row[u].left # Null
ReadLocked ==
    /\ login.pc = "verifying" /\ ~login.seen.locked => ~row[login.user].locked
    /\ unlock.pc = "loaded" => unlock.seen.locked
TimedInv == TimeLeft /\ LockHasTime /\ ReadLocked

LEMMA TimedInit == Init => TimedInv
BY DEF Init, TimedInv, TimeLeft, LockHasTime, ReadLocked, Fresh, Idle, Null

LEMMA TimedStep == TypeOK /\ TypeOK' /\ TimedInv /\ [Next]_vars => TimedInv'
<1> SUFFICES ASSUME TypeOK, TypeOK', TimedInv, [Next]_vars PROVE TimedInv'
  OBVIOUS
<1> USE ThrottleAssumption
<1>1. CASE Tick
  <2>1. ASSUME NEW u \in Users
        PROVE  /\ row'[u].locked = row[u].locked
               /\ row'[u].left = IF row[u].left >= 0 THEN row[u].left - 1 ELSE row[u].left
               /\ calm'[u] = CapAt(calm[u] + 1, LockTime + 1)
    BY <1>1, <2>1 DEF Tick, TypeOK, Row
  <2>2. TimeLeft'
    <3> SUFFICES ASSUME NEW u \in Users, row'[u].left >= 0
                 PROVE  row'[u].left + calm'[u] <= LockTime
      BY DEF TimeLeft
    <3>1. row[u].left \in Null..LockTime /\ calm[u] \in 0..(LockTime + 1)
      BY DEF TypeOK, Row
    <3>2. row[u].left >= 0 /\ row'[u].left = row[u].left - 1
      BY <2>1, <3>1
    <3>3. row[u].left + calm[u] <= LockTime
      BY <3>2 DEF TimedInv, TimeLeft
    <3> QED BY <2>1, <3>1, <3>2, <3>3 DEF CapAt
  <2>3. LockHasTime'
    <3> SUFFICES ASSUME NEW u \in Users, row'[u].locked PROVE row'[u].left # Null
      BY DEF LockHasTime
    <3>1. row[u].left # Null
      BY <2>1 DEF TimedInv, LockHasTime
    <3>2. row[u].left \in Null..LockTime
      BY DEF TypeOK, Row
    <3> QED BY <2>1, <3>1, <3>2 DEF Null
  <2>4. ReadLocked'
    <3>1. login.pc = "verifying" => login.user \in Users
      BY Verifying
    <3> QED BY <1>1, <2>1, <3>1 DEF TimedInv, ReadLocked, Tick
  <2> QED BY <2>2, <2>3, <2>4 DEF TimedInv
<1>2. ASSUME UNCHANGED <<row, history>>,
             login' # login => login'.pc # "verifying" \/ ~row[login'.user].locked
                                                     \/ login'.seen.locked,
             unlock' # unlock => unlock'.pc # "loaded" \/ unlock'.seen.locked
      PROVE  TimedInv'
  BY <1>2 DEF TimedInv, TimeLeft, LockHasTime, ReadLocked, history
<1>3. CASE \/ \E a \in Addresses : GetAttempts(a)
           \/ CountAttempt \/ CountFails \/ NoAccount \/ Abandon
           \/ \E u \in Users : LoadUser(u) \/ UnlockLoad(u)
           \/ UNCHANGED vars
  BY <1>2, <1>3 DEF GetAttempts, CountAttempt, CountFails, NoAccount, Abandon, LoadUser,
                    UnlockLoad, Idle, vars, history
<1>4. CASE RecordFailedLogin
  <2> DEFINE u == login.user
  <2>1. u \in Users /\ login.seen \in Row /\ row[u] \in Row
    BY <1>4, Verifying DEF RecordFailedLogin, TypeOK
  <2>2. row'[u] = Failed(row[u], login.seen) /\ calm'[u] = 0
    BY <1>4, <2>1 DEF RecordFailedLogin, TypeOK
  <2>3. \A v \in Users \ {u} : row'[v] = row[v] /\ calm'[v] = calm[v]
    BY <1>4, <2>1 DEF RecordFailedLogin, TypeOK
  <2>4. \/ row'[u].left = LockTime
        \/ row'[u].left = row[u].left /\ row'[u].locked = row[u].locked
    BY <2>1, <2>2 DEF Failed, Row
  <2>5. row'[u].left <= LockTime /\ row'[u].left \in Int
    BY <2>1, <2>4 DEF Row, Null
  <2>6. TimeLeft'
    BY <2>1, <2>2, <2>3, <2>5 DEF TimedInv, TimeLeft
  <2>7. LockHasTime'
    BY <2>1, <2>3, <2>4 DEF TimedInv, LockHasTime, Null
  <2>8. ReadLocked'
    BY <1>4 DEF RecordFailedLogin, TimedInv, ReadLocked, Idle
  <2> QED BY <2>6, <2>7, <2>8 DEF TimedInv
<1>5. ASSUME NEW u \in Users, NEW seen \in Row, row[u].locked => seen.locked,
             row' = [row EXCEPT ![u] = Cleared(@, seen)], UNCHANGED calm,
             login' = Idle \/ UNCHANGED login, unlock' = Idle \/ UNCHANGED unlock
      PROVE  TimedInv'
  <2>1. ~row'[u].locked /\ (row'[u].left = row[u].left \/ row'[u].left = Null)
    BY <1>5 DEF TypeOK, Cleared
  <2>2. \A v \in Users \ {u} : row'[v] = row[v]
    BY <1>5 DEF TypeOK
  <2>3. TimeLeft'
    BY <1>5, <2>1, <2>2 DEF TimedInv, TimeLeft, Null
  <2>4. LockHasTime'
    BY <2>1, <2>2 DEF TimedInv, LockHasTime
  <2>5. ReadLocked'
    <3>1. login'.pc = "verifying" => login' = login /\ login.user \in Users
      BY <1>5, Verifying DEF Idle
    <3> QED BY <1>5, <2>1, <2>2, <3>1 DEF TimedInv, ReadLocked, Idle
  <2> QED BY <2>3, <2>4, <2>5 DEF TimedInv
<1>6. CASE ResetFailedAttempts
  <2>1. login.user \in Users /\ login.seen \in Row
    BY <1>6, Verifying DEF ResetFailedAttempts
  <2>2. row[login.user].locked => login.seen.locked
    BY <1>6 DEF ResetFailedAttempts, TimedInv, ReadLocked
  <2> QED BY <1>5, <1>6, <2>1, <2>2 DEF ResetFailedAttempts
<1>7. CASE UnlockCommit
  <2>1. unlock.user \in Users /\ unlock.seen \in Row /\ unlock.seen.locked
    BY <1>7, Loaded DEF UnlockCommit, TimedInv, ReadLocked
  <2> QED BY <1>5, <1>7, <2>1 DEF UnlockCommit, history
<1> QED
  BY <1>1, <1>3, <1>4, <1>6, <1>7 DEF Next, Login

(***************************************************************************)
(* An account is locked for no longer than the lockout after a failure,    *)
(* whatever logins and the command overwrite.                              *)
(***************************************************************************)
THEOREM LocksEnd == Spec => []LockIsTimed
<1>1. Init => TypeInv /\ TimedInv
  BY TypesInit, TimedInit
<1>2. TypeInv /\ TimedInv /\ [Next]_vars => TypeInv' /\ TimedInv'
  <2>1. (TypeInv => TypeOK) /\ (TypeInv' => TypeOK')
    BY DEF TypeInv
  <2> QED BY TypesStep, TimedStep, <2>1
<1>3. TypeInv /\ TimedInv => LockIsTimed
  <2> SUFFICES ASSUME TypeOK, TimedInv, NEW u \in Users, IsLocked(row[u])
               PROVE  calm[u] <= LockTime
    BY DEF TypeInv, LockIsTimed
  <2>1. row[u].left \in Null..LockTime /\ calm[u] \in Nat /\ LockTime \in Nat
    BY ThrottleAssumption DEF TypeOK, Row
  <2>2. row[u].left # Null /\ row[u].left # Past
    BY DEF IsLocked, TimedInv, LockHasTime
  <2>3. row[u].left >= 0
    BY <2>1, <2>2 DEF Null, Past
  <2> QED BY <2>1, <2>3 DEF TimedInv, TimeLeft
<1> QED BY <1>1, <1>2, <1>3, PTL DEF Spec
=============================================================================

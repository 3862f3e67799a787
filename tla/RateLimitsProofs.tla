-------------------------- MODULE RateLimitsProofs --------------------------
(***************************************************************************)
(* The caps of RateLimits for any workers, phones, windows and caps.       *)
(***************************************************************************)
EXTENDS RateLimits, FiniteSets, FiniteSetTheorems, SequenceTheorems, TLAPS

(***************************************************************************)
(* A calendar window contains the time it is named by.                     *)
(***************************************************************************)
LEMMA WindowOf ==
    ASSUME NEW l \in Nat \ {0}, NEW t \in Nat
    PROVE  t - (t % l) \in Nat /\ t - (t % l) <= t /\ t < t - (t % l) + l
<1>1. t % l \in Nat /\ t % l < l /\ t % l <= t
  OBVIOUS
<1> QED BY <1>1

LEMMA KeyFacts ==
    ASSUME NEW k \in Kinds, NEW p \in Phones, NEW c \in Categories, NEW t \in 0..Horizon
    PROVE  LET key == KeyOf(k, p, c, t) IN
           /\ key \in Keys /\ key.kind = k /\ key.category = c /\ CapOf(key) \in Nat
           /\ key.start \in Nat /\ key.start <= t /\ t < key.start + Length[k]
<1>1. Length[k] \in Nat \ {0} /\ t \in Nat /\ Cap[k][c] \in Nat
  BY RateAssumption
<1>2. t - (t % Length[k]) \in Nat /\ t - (t % Length[k]) <= t
      /\ t < t - (t % Length[k]) + Length[k]
  BY <1>1, WindowOf
<1>3. KeyOf(k, p, c, t) \in Keys
  BY DEF Keys
<1> QED BY <1>1, <1>2, <1>3 DEF KeyOf, CapOf

LEMMA KeyShape ==
    ASSUME NEW key \in Keys
    PROVE  key.kind \in Kinds /\ key.category \in Categories /\ key.start \in Nat
           /\ CapOf(key) \in Nat
<1> PICK k \in Kinds, p \in Phones, c \in Categories, t \in 0..Horizon : key = KeyOf(k, p, c, t)
  BY DEF Keys
<1> QED BY KeyFacts

-----------------------------------------------------------------------------
(***************************************************************************)
(* Types, and the clock a worker goes by: it is never ahead of the time,   *)
(* and while counters remain to be counted not far behind it.              *)
(***************************************************************************)
Clocks == \A w \in Workers : run[w].pc # "idle" =>
    run[w].at <= now /\ (run[w].todo # <<>> => now <= run[w].at + MaxStall)
ClockInv == TypeOK /\ Clocks

LEMMA BusyRun ==
    ASSUME TypeOK, NEW w \in Workers, run[w].pc # "idle"
    PROVE  run[w] \in Busy
BY DEF TypeOK, Idle

(***************************************************************************)
(* The counter an INCR is about to touch.                                  *)
(***************************************************************************)
Next1(w) == KeyOf(Head(run[w].todo), run[w].phone, run[w].category, run[w].at)
LEMMA HeadAndTail ==
    ASSUME NEW S, NEW q \in Seq(S), q # <<>>
    PROVE  Head(q) \in S /\ Tail(q) \in Seq(S)
BY HeadTailProperties

LEMMA IncrFacts ==
    ASSUME ClockInv, NEW w \in Workers, Incr(w)
    PROVE  LET k == Head(run[w].todo) key == Next1(w) IN
           /\ run[w] \in Busy /\ k \in Kinds /\ key \in Keys /\ key.kind = k
           /\ key.start <= run[w].at /\ run[w].at < key.start + Length[k]
           /\ run[w].at <= now /\ now <= run[w].at + MaxStall
           /\ count[key] \in Nat /\ expires[key] \in Nat /\ CapOf(key) \in Nat
           /\ Tail(run[w].todo) \in Seq(Kinds)
<1>1. run[w] \in Busy /\ run[w].todo # <<>>
  BY BusyRun DEF Incr, ClockInv
<1>2. Head(run[w].todo) \in Kinds /\ Tail(run[w].todo) \in Seq(Kinds)
  <2>1. run[w].todo \in Seq(Kinds)
    BY <1>1 DEF Busy
  <2> QED BY <1>1, <2>1, HeadAndTail, Zenon
<1>3. run[w].at <= now /\ now <= run[w].at + MaxStall
  BY <1>1 DEF ClockInv, Clocks, Incr
<1>4. run[w].at \in 0..Horizon /\ run[w].phone \in Phones /\ run[w].category \in Categories
  <2>1. run[w].at \in Nat /\ run[w].phone \in Phones /\ run[w].category \in Categories
    BY <1>1 DEF Busy
  <2>2. now \in 0..Horizon /\ Horizon \in Nat
    BY RateAssumption DEF ClockInv, TypeOK
  <2> QED BY <1>3, <2>1, <2>2
<1>5. /\ Next1(w) \in Keys /\ Next1(w).kind = Head(run[w].todo) /\ CapOf(Next1(w)) \in Nat
      /\ Next1(w).start <= run[w].at
      /\ run[w].at < Next1(w).start + Length[Head(run[w].todo)]
  BY <1>2, <1>4, KeyFacts DEF Next1
<1> QED
  BY <1>1, <1>2, <1>3, <1>5 DEF ClockInv, TypeOK

LEMMA IncrRun ==
    ASSUME ClockInv, NEW w \in Workers, Incr(w)
    PROVE  LET n == count[Next1(w)] + 1 IN
           /\ run' \in [Workers -> {Idle} \cup Busy]
           /\ run'[w].pc = run[w].pc /\ run'[w].at = run[w].at
           /\ run'[w].phone = run[w].phone /\ run'[w].category = run[w].category
           /\ run'[w].todo = Tail(run[w].todo)
           /\ run'[w].held = run[w].held \cup {<<Next1(w), n>>}
           /\ run'[w].over = (run[w].over \/ n > CapOf(Next1(w)))
           /\ \A v \in Workers \ {w} : run'[v] = run[v]
<1> DEFINE n == count[Next1(w)] + 1
           r == [run[w] EXCEPT !.todo = Tail(run[w].todo),
                               !.held = run[w].held \cup {<<Next1(w), n>>},
                               !.over = run[w].over \/ n > CapOf(Next1(w))]
<1>1. run' = [run EXCEPT ![w] = r]
  BY DEF Incr, Next1
<1>2. n \in Nat /\ Next1(w) \in Keys /\ Tail(run[w].todo) \in Seq(Kinds) /\ run[w] \in Busy
  BY IncrFacts
<1>3. /\ r \in Busy /\ r.pc = run[w].pc /\ r.at = run[w].at /\ r.todo = Tail(run[w].todo)
      /\ r.phone = run[w].phone /\ r.category = run[w].category
      /\ r.held = run[w].held \cup {<<Next1(w), n>>}
      /\ r.over = (run[w].over \/ n > CapOf(Next1(w)))
  <2>1. run[w].held \cup {<<Next1(w), n>>} \in SUBSET (Keys \X Nat)
    BY <1>2 DEF Busy
  <2>2. (run[w].over \/ n > CapOf(Next1(w))) \in BOOLEAN
    OBVIOUS
  <2> HIDE DEF n
  <2> QED BY <1>2, <2>1, <2>2 DEF Busy
<1> HIDE DEF r, n
<1>4. run' \in [Workers -> {Idle} \cup Busy] /\ run'[w] = r
      /\ \A v \in Workers \ {w} : run'[v] = run[v]
  BY <1>1, <1>3 DEF ClockInv, TypeOK
<1> QED BY <1>3, <1>4 DEF n

LEMMA JudgeGlobalRun ==
    ASSUME ClockInv, NEW w \in Workers, JudgeGlobal(w)
    PROVE  /\ run' \in [Workers -> {Idle} \cup Busy]
           /\ \/ run'[w] = Idle
              \/ /\ run'[w].pc \in {"checking", "counting"} /\ run'[w].at = now
                 /\ run'[w].held = run[w].held /\ run'[w].over = run[w].over
                 /\ run'[w].phone = run[w].phone /\ run'[w].category = run[w].category
                 /\ run'[w].todo = IF run[w].category = "otp" THEN <<"otpHour">>
                                                              ELSE <<"userDay", "userWeek">>
           /\ \A v \in Workers \ {w} : run'[v] = run[v]
<1> DEFINE a == [run[w] EXCEPT !.pc = "checking", !.at = now, !.todo = <<"otpHour">>]
           b == [run[w] EXCEPT !.pc = "counting", !.at = now, !.todo = <<"userDay", "userWeek">>]
<1>1. run[w] \in Busy /\ now \in Nat
  BY BusyRun DEF JudgeGlobal, ClockInv, TypeOK
<1>2. <<"otpHour">> \in Seq(Kinds) /\ <<"userDay", "userWeek">> \in Seq(Kinds)
  BY DEF Kinds
<1>3. /\ a \in Busy /\ a.pc = "checking" /\ a.at = now /\ a.held = run[w].held
      /\ a.over = run[w].over /\ a.phone = run[w].phone /\ a.category = run[w].category
      /\ a.todo = <<"otpHour">>
  BY <1>1, <1>2 DEF Busy
<1>4. /\ b \in Busy /\ b.pc = "counting" /\ b.at = now /\ b.held = run[w].held
      /\ b.over = run[w].over /\ b.phone = run[w].phone /\ b.category = run[w].category
      /\ b.todo = <<"userDay", "userWeek">>
  BY <1>1, <1>2 DEF Busy
<1>5. \/ run' = [run EXCEPT ![w] = Idle]
      \/ run[w].category = "otp" /\ run' = [run EXCEPT ![w] = a]
      \/ run[w].category # "otp" /\ run' = [run EXCEPT ![w] = b]
  BY DEF JudgeGlobal, Return
<1> HIDE DEF a, b
<1> QED BY <1>3, <1>4, <1>5 DEF ClockInv, TypeOK

LEMMA MoveRun ==
    ASSUME ClockInv, NEW w \in Workers, run[w].pc # "idle", NEW pc \in {"setting", "counting"},
           run' = [run EXCEPT ![w].pc = pc]
    PROVE  /\ run' \in [Workers -> {Idle} \cup Busy]
           /\ run'[w].pc = pc /\ run'[w].at = run[w].at /\ run'[w].todo = run[w].todo
           /\ run'[w].held = run[w].held /\ run'[w].over = run[w].over
           /\ run'[w].phone = run[w].phone /\ run'[w].category = run[w].category
           /\ \A v \in Workers \ {w} : run'[v] = run[v]
<1> DEFINE a == [run[w] EXCEPT !.pc = pc]
<1>1. run[w] \in Busy
  BY BusyRun DEF ClockInv
<1>2. /\ a \in Busy /\ a.pc = pc /\ a.at = run[w].at /\ a.todo = run[w].todo
      /\ a.held = run[w].held /\ a.over = run[w].over /\ a.phone = run[w].phone
      /\ a.category = run[w].category
  BY <1>1 DEF Busy
<1>3. run' = [run EXCEPT ![w] = a]
  OBVIOUS
<1> HIDE DEF a
<1> QED BY <1>2, <1>3 DEF ClockInv, TypeOK

LEMMA ClockStep == ClockInv /\ [Next]_vars => ClockInv'
<1> SUFFICES ASSUME ClockInv, [Next]_vars PROVE ClockInv'
  OBVIOUS
<1> USE RateAssumption
<1>1. CASE Tick
  <2>1. count' \in [Keys -> Nat] /\ cooling' \in [Phones -> Nat]
        /\ cooled' \in [Phones -> [Workers -> Nat]] /\ now' \in 0..Horizon /\ now' = now + 1
    BY <1>1 DEF Tick, ClockInv, TypeOK
  <2>2. Clocks'
    <3> SUFFICES ASSUME NEW w \in Workers, run[w].pc # "idle"
                 PROVE  run[w].at <= now + 1 /\ (run[w].todo # <<>> => now + 1 <= run[w].at + MaxStall)
      BY <1>1 DEF Clocks, Tick
    <3>1. run[w].at \in Nat /\ now \in Nat
      BY BusyRun DEF Busy, ClockInv, TypeOK
    <3>2. run[w].at <= now /\ (run[w].todo # <<>> => now < run[w].at + MaxStall)
      BY <1>1 DEF ClockInv, Clocks, Tick
    <3> QED BY <3>1, <3>2
  <2> QED
    BY <1>1, <2>1, <2>2 DEF Tick, ClockInv, TypeOK
<1>2. ASSUME NEW w \in Workers, NEW p \in Phones, NEW c \in Categories, Begin(w, p, c)
      PROVE  ClockInv'
  <2> DEFINE r == [pc |-> "global", phone |-> p, category |-> c, at |-> now,
                   todo |-> <<"globalHour", "globalDay">>, held |-> {}, over |-> FALSE]
  <2>1. now \in Nat /\ <<"globalHour", "globalDay">> \in Seq(Kinds)
    BY DEF ClockInv, TypeOK, Kinds, GlobalKinds
  <2>2. r \in Busy /\ r.at = now
    BY <2>1 DEF Busy
  <2>3. run' = [run EXCEPT ![w] = r]
    BY <1>2 DEF Begin
  <2> HIDE DEF r
  <2>4. run' \in [Workers -> {Idle} \cup Busy] /\ run'[w] = r
        /\ \A v \in Workers \ {w} : run'[v] = run[v]
    BY <2>2, <2>3 DEF ClockInv, TypeOK
  <2>5. TypeOK'
    BY <1>2, <2>4 DEF Begin, ClockInv, TypeOK, counters, history
  <2>6. Clocks'
    BY <1>2, <2>1, <2>2, <2>4 DEF Begin, ClockInv, Clocks
  <2> QED BY <2>5, <2>6 DEF ClockInv
<1>3. ASSUME NEW w \in Workers, Incr(w) PROVE ClockInv'
  <2> DEFINE key == Next1(w)
             n == count[key] + 1
             e == now + Lives(Head(run[w].todo))
  <2>1. count' = [count EXCEPT ![key] = n] /\ expires' \in {expires, [expires EXCEPT ![key] = e]}
    BY <1>3 DEF Incr, Next1
  <2>2. key \in Keys /\ n \in Nat /\ e \in Nat
    BY <1>3, IncrFacts DEF Lives, ClockInv, TypeOK
  <2>3. count' \in [Keys -> Nat] /\ expires' \in [Keys -> Nat]
    <3> HIDE DEF key, n, e
    <3> QED BY <2>1, <2>2 DEF ClockInv, TypeOK
  <2>4. TypeOK'
    BY <1>3, <2>3, IncrRun DEF Incr, ClockInv, TypeOK, history
  <2>5. Clocks'
    BY <1>3, IncrRun DEF Incr, ClockInv, Clocks
  <2> QED BY <2>4, <2>5 DEF ClockInv
<1>4. ASSUME NEW w \in Workers, JudgeGlobal(w) PROVE ClockInv'
  <2>1. TypeOK'
    BY <1>4, JudgeGlobalRun DEF JudgeGlobal, ClockInv, TypeOK, counters, history
  <2>2. Clocks'
    <3>1. now' = now /\ now \in Nat /\ now <= now + MaxStall
      BY <1>4 DEF JudgeGlobal, ClockInv, TypeOK
    <3>2. \A v \in Workers \ {w} : run'[v] = run[v]
      BY <1>4, JudgeGlobalRun
    <3>3. run'[w].pc = "idle" \/ run'[w].at = now
      BY <1>4, JudgeGlobalRun DEF Idle
    <3> QED BY <3>1, <3>2, <3>3, RateAssumption DEF ClockInv, Clocks
  <2> QED BY <2>1, <2>2 DEF ClockInv
<1>5. ASSUME NEW w \in Workers, CheckCooldown(w) \/ SetCooldown(w) PROVE ClockInv'
  <2>1. run[w].pc # "idle" /\ run[w].phone \in Phones
    BY <1>5, BusyRun DEF CheckCooldown, SetCooldown, ClockInv, Busy
  <2>2. Return(w) \/ \E pc \in {"setting", "counting"} : run' = [run EXCEPT ![w].pc = pc]
    BY <1>5 DEF CheckCooldown, SetCooldown
  <2>3. run' \in [Workers -> {Idle} \cup Busy]
    BY <2>1, <2>2, MoveRun DEF Return, ClockInv, TypeOK
  <2>4. UNCHANGED <<now, count, expires, passed, winners, runs>>
    BY <1>5 DEF CheckCooldown, SetCooldown, counters, history
  <2>5. cooling' \in [Phones -> Nat] /\ cooled' \in [Phones -> [Workers -> Nat]]
    <3>1. CASE CheckCooldown(w)
      BY <3>1 DEF CheckCooldown, history, ClockInv, TypeOK
    <3>2. CASE SetCooldown(w)
      <4> DEFINE p == run[w].phone
                 t == now + Cooldown
                 n == cooled[p][w] + 1
      <4>1. p \in Phones /\ t \in Nat /\ n \in Nat
        BY <2>1 DEF ClockInv, TypeOK
      <4>2. cooling' = [cooling EXCEPT ![p] = t] /\ cooled' = [cooled EXCEPT ![p][w] = n]
        BY <3>2 DEF SetCooldown
      <4> HIDE DEF p, t, n
      <4> QED BY <4>1, <4>2 DEF ClockInv, TypeOK
    <3> QED BY <1>5, <3>1, <3>2
  <2>6. TypeOK'
    BY <2>3, <2>4, <2>5 DEF ClockInv, TypeOK
  <2>7. Clocks'
    <3>1. CASE Return(w)
      BY <2>4, <3>1 DEF Return, Idle, ClockInv, TypeOK, Clocks
    <3>2. ASSUME NEW pc \in {"setting", "counting"}, run' = [run EXCEPT ![w].pc = pc]
          PROVE  Clocks'
      BY <2>1, <2>4, <3>2, MoveRun DEF ClockInv, Clocks
    <3> QED BY <2>2, <3>1, <3>2
  <2> QED BY <2>6, <2>7 DEF ClockInv
<1>6. ASSUME NEW w \in Workers, JudgeUser(w) PROVE ClockInv'
  <2>1. Return(w) /\ UNCHANGED <<now, count, expires, cooling, cooled, runs>>
    BY <1>6 DEF JudgeUser, counters
  <2>2. run' \in [Workers -> {Idle} \cup Busy]
    BY <2>1 DEF Return, ClockInv, TypeOK
  <2>3. run[w] \in Busy
    BY <1>6, BusyRun DEF JudgeUser, ClockInv
  <2>4. passed' \in [Keys -> Nat] /\ winners' \in [Keys -> SUBSET Nat]
    <3> DEFINE Won(k) == {h[2] : h \in {g \in run[w].held : g[1] = k}}
    <3>1. ASSUME NEW k \in Keys PROVE Won(k) \subseteq Nat
      BY <2>3 DEF Busy
    <3>2. CASE run[w].over
      BY <1>6, <3>2 DEF JudgeUser, ClockInv, TypeOK
    <3>3. CASE ~run[w].over
      <4>1. /\ passed' = [k \in Keys |-> IF k \in {h[1] : h \in run[w].held}
                                         THEN passed[k] + 1 ELSE passed[k]]
            /\ winners' = [k \in Keys |-> winners[k] \cup Won(k)]
        BY <1>6, <3>3 DEF JudgeUser
      <4> HIDE DEF Won
      <4>2. \A k \in Keys : passed[k] \in Nat /\ passed[k] + 1 \in Nat
                             /\ winners[k] \cup Won(k) \in SUBSET Nat
        BY <3>1 DEF ClockInv, TypeOK
      <4> QED BY <4>1, <4>2
    <3> QED BY <3>2, <3>3
  <2>5. TypeOK'
    BY <2>1, <2>2, <2>4 DEF ClockInv, TypeOK
  <2>6. Clocks'
    BY <2>1 DEF Return, Idle, ClockInv, TypeOK, Clocks
  <2> QED BY <2>5, <2>6 DEF ClockInv
<1>7. CASE UNCHANGED vars
  BY <1>7 DEF vars, ClockInv, TypeOK, Clocks
<1> QED
  BY <1>1, <1>2, <1>3, <1>4, <1>5, <1>6, <1>7 DEF Next, Evaluate

-----------------------------------------------------------------------------
(***************************************************************************)
(* One-time passwords: the cooldown key remembers every pass of a worker   *)
(* counted since it was absent, and a worker about to set it has none.     *)
(***************************************************************************)
CoolInv ==
    /\ \A p \in Phones, w \in Workers :
           cooled[p][w] <= 1 /\ (cooling[p] = 0 => cooled[p][w] = 0)
    /\ \A w \in Workers : run[w].pc = "setting" => cooled[run[w].phone][w] = 0

LEMMA CoolStep == ClockInv /\ CoolInv /\ [Next]_vars => CoolInv'
<1> SUFFICES ASSUME ClockInv, CoolInv, [Next]_vars PROVE CoolInv'
  OBVIOUS
<1> USE RateAssumption
<1>0. ASSUME NEW w \in Workers, run[w].pc # "idle"
      PROVE  run[w].phone \in Phones
  BY <1>0, BusyRun DEF ClockInv, Busy
<1>1. CASE Tick
  <2>1. run' = run
    BY <1>1 DEF Tick
  <2>2. ASSUME NEW p \in Phones, NEW w \in Workers
        PROVE  cooled'[p][w] \in {0, cooled[p][w]} /\ cooled'[p][w] <= 1
               /\ (cooling'[p] = 0 => cooled'[p][w] = 0)
    BY <1>1 DEF Tick, ClockInv, TypeOK, CoolInv
  <2> QED BY <1>0, <2>1, <2>2 DEF CoolInv
<1>2. ASSUME NEW w \in Workers, run' = [run EXCEPT ![w] = run'[w]],
             run'[w].pc = "setting" => run'[w].phone = run[w].phone /\ cooled[run[w].phone][w] = 0,
             UNCHANGED <<cooling, cooled>>
      PROVE  CoolInv'
  BY <1>2 DEF CoolInv, ClockInv, TypeOK
<1>3. ASSUME NEW w \in Workers, NEW p \in Phones, NEW c \in Categories, Begin(w, p, c)
      PROVE  CoolInv'
  <2>1. run' = [run EXCEPT ![w] = run'[w]] /\ run'[w].pc = "global"
    BY <1>3 DEF Begin, ClockInv, TypeOK
  <2> QED BY <1>2, <1>3, <2>1 DEF Begin, history
<1>4. ASSUME NEW w \in Workers, Incr(w) PROVE CoolInv'
  <2>1. run' = [run EXCEPT ![w] = run'[w]] /\ run'[w].pc # "setting"
    BY <1>4, IncrRun DEF Incr, ClockInv, TypeOK
  <2> QED BY <1>2, <1>4, <2>1 DEF Incr, history
<1>5. ASSUME NEW w \in Workers, JudgeGlobal(w) PROVE CoolInv'
  <2>1. run'[w].pc # "setting"
    BY <1>5, JudgeGlobalRun DEF Idle
  <2>2. run' = [run EXCEPT ![w] = run'[w]]
    BY <1>5 DEF JudgeGlobal, Return, ClockInv, TypeOK
  <2> QED BY <1>2, <1>5, <2>1, <2>2 DEF JudgeGlobal, history
<1>6. ASSUME NEW w \in Workers, CheckCooldown(w) PROVE CoolInv'
  <2>1. run[w].pc # "idle" /\ run[w].phone \in Phones /\ UNCHANGED <<cooling, cooled>>
    BY <1>0, <1>6 DEF CheckCooldown, history
  <2>2. CASE Return(w)
    <3>1. run' = [run EXCEPT ![w] = run'[w]] /\ run'[w].pc # "setting"
      BY <2>2 DEF Return, Idle, ClockInv, TypeOK
    <3> QED BY <1>2, <2>1, <3>1
  <2>3. CASE cooling[run[w].phone] = 0 /\ run' = [run EXCEPT ![w].pc = "setting"]
    <3>1. run'[w].phone = run[w].phone
      BY <2>1, <2>3, MoveRun
    <3>2. run' = [run EXCEPT ![w] = run'[w]]
      BY <2>3 DEF ClockInv, TypeOK
    <3>3. cooled[run[w].phone][w] = 0
      BY <2>1, <2>3 DEF CoolInv
    <3> QED BY <1>2, <2>1, <3>1, <3>2, <3>3
  <2> QED BY <1>6, <2>2, <2>3 DEF CheckCooldown
<1>7. ASSUME NEW w \in Workers, SetCooldown(w) PROVE CoolInv'
  <2> DEFINE p == run[w].phone
             t == now + Cooldown
  <2>1. run[w].pc = "setting" /\ p \in Phones /\ t \in Nat /\ t # 0 /\ cooled[p][w] = 0
    BY <1>0, <1>7 DEF SetCooldown, CoolInv, ClockInv, TypeOK
  <2>2. cooling' = [cooling EXCEPT ![p] = t] /\ cooled' = [cooled EXCEPT ![p][w] = cooled[p][w] + 1]
    BY <1>7 DEF SetCooldown
  <2>3. run'[w].pc = "counting" /\ \A v \in Workers \ {w} : run'[v] = run[v]
    BY <1>7, <2>1, MoveRun DEF SetCooldown
  <2> HIDE DEF p, t
  <2>4. /\ cooled'[p][w] = 1 /\ cooling'[p] # 0
        /\ \A q \in Phones, v \in Workers : q # p \/ v # w => cooled'[q][v] = cooled[q][v]
        /\ \A q \in Phones \ {p} : cooling'[q] = cooling[q]
    BY <2>1, <2>2 DEF ClockInv, TypeOK
  <2>5. \A q \in Phones, v \in Workers :
            cooled'[q][v] <= 1 /\ (cooling'[q] = 0 => cooled'[q][v] = 0)
    BY <2>4 DEF CoolInv
  <2>6. ASSUME NEW v \in Workers, run'[v].pc = "setting" PROVE cooled'[run'[v].phone][v] = 0
    <3>1. v # w /\ run'[v] = run[v]
      BY <2>3, <2>6
    <3>2. run[v].phone \in Phones /\ cooled[run[v].phone][v] = 0
      BY <1>0, <2>6, <3>1 DEF CoolInv
    <3> QED BY <2>4, <3>1, <3>2
  <2> QED BY <2>5, <2>6 DEF CoolInv
<1>8. ASSUME NEW w \in Workers, JudgeUser(w) PROVE CoolInv'
  <2>1. run' = [run EXCEPT ![w] = run'[w]] /\ run'[w].pc # "setting"
    BY <1>8 DEF JudgeUser, Return, Idle, ClockInv, TypeOK
  <2> QED BY <1>2, <1>8, <2>1 DEF JudgeUser
<1>9. CASE UNCHANGED vars
  BY <1>9 DEF vars, history, CoolInv
<1> QED
  BY <1>1, <1>3, <1>4, <1>5, <1>6, <1>7, <1>8, <1>9 DEF Next, Evaluate

LEMMA InitInv == Init => ClockInv /\ CoolInv
<1> SUFFICES ASSUME Init PROVE ClockInv /\ CoolInv
  OBVIOUS
<1>1. TypeOK
  BY RateAssumption DEF Init, TypeOK
<1>2. Clocks /\ CoolInv
  BY DEF Init, Idle, Clocks, CoolInv
<1> QED BY <1>1, <1>2 DEF ClockInv

(***************************************************************************)
(* Every variable keeps its type in every reachable state.                 *)
(***************************************************************************)
THEOREM RateLimitTypes == Spec => []TypeOK
<1>1. Init => ClockInv
  BY InitInv
<1>2. ClockInv => TypeOK
  BY DEF ClockInv
<1> QED BY <1>1, <1>2, ClockStep, PTL DEF Spec

(***************************************************************************)
(* However workers race between EXISTS and SETEX, each lets at most one    *)
(* one-time password pass to a phone before its cooldown key is gone.      *)
(***************************************************************************)
THEOREM CooldownKept == Spec => []OneOtpPerCooldown
<1>1. CoolInv => OneOtpPerCooldown
  BY DEF CoolInv, OneOtpPerCooldown
<1> QED BY <1>1, InitInv, ClockStep, CoolStep, PTL DEF Spec

-----------------------------------------------------------------------------
(***************************************************************************)
(* The caps.  A ticket is a counter and a number an INCR returned for it.  *)
(* Nobody counts on a counter after Redis has closed it, so its numbers    *)
(* are dealt once and what has passed is no more than the numbers up to    *)
(* the cap.                                                                *)
(***************************************************************************)
Tickets(w) == IF run[w].pc = "idle" THEN {} ELSE run[w].held
Expiry == \A k \in Keys :
    /\ expires[k] # 0 => expires[k] >= k.start + TTL[k.kind]
    /\ count[k] # 0 => expires[k] # 0
    /\ expires[k] # 0 /\ count[k] = 0 => expires[k] <= now
Issued(k, n) == n >= 1 /\ expires[k] # 0 /\ (count[k] # 0 => n <= count[k])
HeldOnce == \A w \in Workers, k \in Keys, n \in Nat : <<k, n>> \in Tickets(w) =>
    /\ Issued(k, n) /\ n \notin winners[k] /\ (~run[w].over => n <= CapOf(k))
    /\ \A v \in Workers \ {w} : <<k, n>> \notin Tickets(v)
Won == \A k \in Keys :
    /\ passed[k] <= Cardinality(winners[k])
    /\ \A n \in winners[k] : Issued(k, n) /\ n <= CapOf(k)
CapInv == Expiry /\ HeldOnce /\ Won

(***************************************************************************)
(* Numbers up to the cap are finitely many, and no more than the cap.      *)
(***************************************************************************)
LEMMA WinnersBounded ==
    ASSUME NEW S \in SUBSET Nat, NEW c \in Nat, \A n \in S : n >= 1 /\ n <= c
    PROVE  IsFiniteSet(S) /\ Cardinality(S) <= c
<1>1. IsFiniteSet(1..c) /\ Cardinality(1..c) = c
  BY FS_Interval
<1>2. S \subseteq 1..c
  OBVIOUS
<1> QED BY <1>1, <1>2, FS_Subset

(***************************************************************************)
(* Steps that count nothing and drop tickets at most.                      *)
(***************************************************************************)
LEMMA Dropping ==
    ASSUME CapInv, UNCHANGED <<now, count, expires, passed, winners>>, NEW w \in Workers,
           Tickets(w)' = {} \/ (Tickets(w)' = Tickets(w) /\ run'[w].over = run[w].over),
           \A v \in Workers \ {w} : run'[v] = run[v]
    PROVE  CapInv'
<1>0. \A v \in Workers : Tickets(v)' = {} \/ (Tickets(v)' = Tickets(v) /\ run'[v].over = run[v].over)
  <2> TAKE v \in Workers
  <2>1. CASE v # w
    BY <2>1 DEF Tickets
  <2> QED BY <2>1
<1>1. Expiry' /\ Won'
  BY DEF CapInv, Expiry, Won, Issued
<1>2. HeldOnce'
  <2> SUFFICES ASSUME NEW u \in Workers, NEW k \in Keys, NEW n \in Nat, <<k, n>> \in Tickets(u)'
               PROVE  /\ Issued(k, n) /\ n \notin winners[k] /\ (~run'[u].over => n <= CapOf(k))
                      /\ \A v \in Workers \ {u} : <<k, n>> \notin Tickets(v)'
    BY DEF HeldOnce, Issued
  <2>1. Tickets(u)' = Tickets(u) /\ run'[u].over = run[u].over
    BY <1>0
  <2> QED BY <1>0, <2>1 DEF CapInv, HeldOnce
<1> QED BY <1>1, <1>2 DEF CapInv

(***************************************************************************)
(* An INCR finds a counter that lives, or one that was never counted on.   *)
(***************************************************************************)
LEMMA NeverClosed ==
    ASSUME ClockInv, CapInv, NEW w \in Workers, Incr(w), count[Next1(w)] = 0
    PROVE  expires[Next1(w)] = 0
<1> DEFINE key == Next1(w)
<1>1. /\ key \in Keys /\ key.kind \in Kinds /\ key.start \in Nat /\ now \in Nat
      /\ run[w].at < key.start + Length[key.kind] /\ now <= run[w].at + MaxStall
      /\ run[w].at \in Nat
  <2>1. run[w] \in Busy /\ key \in Keys /\ key.kind = Head(run[w].todo)
    BY IncrFacts
  <2>2. run[w].at \in Nat /\ now \in Nat /\ key.kind \in Kinds /\ key.start \in Nat
    BY <2>1, KeyShape, RateAssumption DEF Busy, ClockInv, TypeOK
  <2> QED BY <2>1, <2>2, IncrFacts
<1>2. TTL[key.kind] \in Nat /\ Length[key.kind] \in Nat /\ MaxStall \in Nat
      /\ TTL[key.kind] >= Length[key.kind] + MaxStall
  BY <1>1, RateAssumption, TTLAssumption
<1>3. expires[key] # 0 => expires[key] >= key.start + TTL[key.kind] /\ expires[key] <= now
  BY <1>1 DEF CapInv, Expiry
<1>4. expires[key] \in Nat
  BY <1>1 DEF ClockInv, TypeOK
<1> HIDE DEF key
<1> QED BY <1>1, <1>2, <1>3, <1>4 DEF key

LEMMA IncrCaps ==
    ASSUME ClockInv, CapInv, NEW w \in Workers, Incr(w)
    PROVE  CapInv'
<1> DEFINE key == Next1(w)
           n == count[key] + 1
           e == now + TTL[key.kind]
<1>1. /\ key \in Keys /\ key.kind \in Kinds /\ key.start \in Nat /\ now \in Nat /\ key.start <= now
      /\ TTL[key.kind] \in Nat /\ TTL[key.kind] > 0 /\ count[key] \in Nat /\ n \in Nat
      /\ e \in Nat /\ e # 0 /\ e >= key.start + TTL[key.kind]
  <2>1. run[w] \in Busy /\ key \in Keys /\ key.start <= run[w].at /\ run[w].at <= now
    BY IncrFacts
  <2>2. run[w].at \in Nat /\ now \in Nat /\ key.kind \in Kinds /\ key.start \in Nat /\ count[key] \in Nat
    BY <2>1, KeyShape, RateAssumption DEF Busy, ClockInv, TypeOK
  <2>3. TTL[key.kind] \in Nat /\ TTL[key.kind] > 0
    <3>1. TTL[key.kind] \in Nat /\ Length[key.kind] \in Nat \ {0} /\ MaxStall \in Nat
          /\ TTL[key.kind] >= Length[key.kind] + MaxStall
      BY <2>2, RateAssumption, TTLAssumption
    <3> QED BY <3>1
  <2> HIDE DEF key
  <2> QED BY <2>1, <2>2, <2>3
<1>2. /\ count' = [count EXCEPT ![key] = n]
      /\ expires' = IF count[key] = 0 THEN [expires EXCEPT ![key] = e] ELSE expires
      /\ UNCHANGED <<now, passed, winners>>
  BY IncrFacts DEF Incr, Next1, Lives, history
<1>3. Tickets(w)' = Tickets(w) \cup {<<key, n>>} /\ run'[w].over = (run[w].over \/ n > CapOf(key))
      /\ \A v \in Workers \ {w} : Tickets(v)' = Tickets(v) /\ run'[v] = run[v]
  BY IncrRun DEF Tickets, Incr
<1>4. count[key] = 0 => expires[key] = 0
  BY NeverClosed
<1> HIDE DEF key, n, e
<1>5. /\ count'[key] = n /\ expires'[key] = IF count[key] = 0 THEN e ELSE expires[key]
      /\ \A k \in Keys \ {key} : count'[k] = count[k] /\ expires'[k] = expires[k]
  BY <1>1, <1>2 DEF ClockInv, TypeOK
<1>6. n = count[key] + 1
  BY DEF n
<1>7. Expiry'
  BY <1>1, <1>2, <1>5, <1>6 DEF CapInv, Expiry
<1>8. ASSUME NEW k \in Keys, NEW m \in Nat, Issued(k, m) PROVE Issued(k, m)' /\ <<k, m>> # <<key, n>>
  BY <1>1, <1>4, <1>5, <1>6, <1>8 DEF Issued
<1>9. n >= 1 /\ expires'[key] # 0 /\ n <= count'[key]
  <2>1. count[key] # 0 => expires[key] # 0
    BY <1>1 DEF CapInv, Expiry
  <2> QED BY <1>1, <1>5, <1>6, <2>1 DEF Issued
<1>10. n \notin winners[key] /\ \A v \in Workers : <<key, n>> \notin Tickets(v)
  <2>1. ~Issued(key, n)
    BY <1>1, <1>4, <1>6 DEF Issued
  <2> QED BY <1>1, <2>1 DEF CapInv, HeldOnce, Won
<1>11. Won'
  <2>1. \A k \in Keys : winners[k] \in SUBSET Nat
    BY DEF ClockInv, TypeOK
  <2> QED BY <1>2, <1>8, <2>1 DEF CapInv, Won
<1>12. HeldOnce'
  <2> SUFFICES ASSUME NEW v \in Workers, NEW k \in Keys, NEW m \in Nat, <<k, m>> \in Tickets(v)'
               PROVE  /\ Issued(k, m)' /\ m \notin winners[k] /\ (~run'[v].over => m <= CapOf(k))
                      /\ \A u \in Workers \ {v} : <<k, m>> \notin Tickets(u)'
    BY <1>2 DEF HeldOnce
  <2>1. CASE <<k, m>> \in Tickets(v)
    <3>1. /\ Issued(k, m) /\ m \notin winners[k] /\ (~run[v].over => m <= CapOf(k))
          /\ \A u \in Workers \ {v} : <<k, m>> \notin Tickets(u)
      BY <2>1 DEF CapInv, HeldOnce
    <3>2. Issued(k, m)' /\ <<k, m>> # <<key, n>>
      BY <1>8, <3>1
    <3>3. ~run'[v].over => ~run[v].over
      BY <1>3
    <3> QED BY <1>3, <3>1, <3>2, <3>3
  <2>2. CASE v = w /\ <<k, m>> = <<key, n>>
    <3>1. ~run'[v].over => ~(n > CapOf(key))
      BY <1>3, <2>2
    <3>2. CapOf(key) \in Nat
      BY <1>1, KeyShape
    <3>4. Issued(k, m)'
      BY <1>9, <2>2 DEF Issued
    <3>5. \A u \in Workers \ {w} : <<k, m>> \notin Tickets(u)'
      BY <1>3, <1>10, <2>2
    <3> QED BY <1>1, <1>10, <2>2, <3>1, <3>2, <3>4, <3>5
  <2> QED BY <1>3, <2>1, <2>2
<1> QED BY <1>7, <1>11, <1>12 DEF CapInv

(***************************************************************************)
(* What passes adds at least one number to the winners of each counter.    *)
(***************************************************************************)
LEMMA JudgeUserCaps ==
    ASSUME ClockInv, CapInv, NEW w \in Workers, JudgeUser(w)
    PROVE  CapInv'
<1> DEFINE held == run[w].held
           Wins(k) == {h[2] : h \in {g \in held : g[1] = k}}
<1>1. run[w] \in Busy /\ run' = [run EXCEPT ![w] = Idle] /\ UNCHANGED <<now, count, expires>>
  BY BusyRun DEF JudgeUser, Return, counters, ClockInv
<1>2. Tickets(w)' = {} /\ Tickets(w) = held
      /\ \A v \in Workers \ {w} : Tickets(v)' = Tickets(v) /\ run'[v] = run[v]
  BY <1>1 DEF Tickets, Idle, ClockInv, TypeOK, JudgeUser
<1>3. held \subseteq Keys \X Nat
  BY <1>1 DEF Busy
<1>4. \A k \in Keys, n \in Nat : <<k, n>> \in held <=> n \in Wins(k)
  BY <1>3
<1>5. \A k \in Keys : Wins(k) \subseteq Nat /\ (k \in {h[1] : h \in held} => Wins(k) # {})
  BY <1>3
<1>6. CASE run[w].over
  <2>1. UNCHANGED <<passed, winners>>
    BY <1>6 DEF JudgeUser
  <2>2. Tickets(w)' = {} \/ (Tickets(w)' = Tickets(w) /\ run'[w].over = run[w].over)
    BY <1>2
  <2> QED BY <1>1, <1>2, <2>1, <2>2, Dropping
<1>7. CASE ~run[w].over
  <2>1. /\ passed' = [k \in Keys |-> IF k \in {h[1] : h \in held} THEN passed[k] + 1 ELSE passed[k]]
        /\ winners' = [k \in Keys |-> winners[k] \cup Wins(k)]
    BY <1>7 DEF JudgeUser
  <2>2. Expiry'
    BY <1>1 DEF CapInv, Expiry
  <2>3. ASSUME NEW k \in Keys, NEW n \in Wins(k)
        PROVE  n \in Nat /\ Issued(k, n) /\ n \notin winners[k] /\ n <= CapOf(k)
               /\ \A v \in Workers \ {w} : <<k, n>> \notin Tickets(v)
    <3>1. n \in Nat /\ <<k, n>> \in Tickets(w)
      BY <1>2, <1>4, <1>5, <2>3
    <3> QED BY <1>7, <3>1 DEF CapInv, HeldOnce
  <2> HIDE DEF held, Wins
  <2>4. ASSUME NEW k \in Keys
        PROVE  /\ \A n \in winners'[k] : Issued(k, n)' /\ n <= CapOf(k)
               /\ passed'[k] <= Cardinality(winners'[k])
    <3>1. winners[k] \in SUBSET Nat /\ passed[k] \in Nat /\ CapOf(k) \in Nat
          /\ winners'[k] = winners[k] \cup Wins(k)
      BY <2>1, KeyShape DEF ClockInv, TypeOK
    <3>2. \A n \in winners'[k] : Issued(k, n)' /\ n >= 1 /\ n <= CapOf(k)
      BY <1>1, <2>3, <3>1 DEF CapInv, Won, Issued
    <3>3. winners'[k] \in SUBSET Nat
      BY <1>5, <3>1
    <3>4. IsFiniteSet(winners'[k]) /\ IsFiniteSet(winners[k])
      <4>1. IsFiniteSet(winners'[k])
        BY <3>1, <3>2, <3>3, WinnersBounded
      <4> QED BY <3>1, <4>1, FS_Subset
    <3>5. Cardinality(winners[k]) \in Nat /\ Cardinality(winners'[k]) \in Nat
          /\ passed[k] <= Cardinality(winners[k]) /\ Cardinality(winners[k]) <= Cardinality(winners'[k])
      BY <3>1, <3>4, FS_CardinalityType, FS_Subset DEF CapInv, Won
    <3>6. CASE k \in {h[1] : h \in held}
      <4>1. PICK n \in Wins(k) : n \notin winners[k]
        BY <1>5, <2>3, <3>6
      <4>2. winners[k] \cup {n} \subseteq winners'[k] /\ winners[k] \cup {n} # winners[k]
        BY <3>1, <4>1
      <4>3. Cardinality(winners[k] \cup {n}) = Cardinality(winners[k]) + 1
        BY <3>4, <4>1, FS_AddElement
      <4>4. Cardinality(winners[k] \cup {n}) <= Cardinality(winners'[k])
            /\ Cardinality(winners[k] \cup {n}) \in Nat
        BY <3>4, <4>2, FS_Subset, FS_CardinalityType
      <4>5. passed'[k] = passed[k] + 1
        BY <2>1, <3>6
      <4> QED BY <3>1, <3>2, <3>5, <4>3, <4>4, <4>5
    <3>7. CASE k \notin {h[1] : h \in held}
      <4>1. passed'[k] = passed[k]
        BY <2>1, <3>7
      <4> QED BY <3>1, <3>2, <3>5, <4>1
    <3> QED BY <3>6, <3>7
  <2>5. Won'
    BY <2>4 DEF Won
  <2>6. HeldOnce'
    <3> SUFFICES ASSUME NEW v \in Workers, NEW k \in Keys, NEW n \in Nat, <<k, n>> \in Tickets(v)'
                 PROVE  /\ Issued(k, n)' /\ n \notin winners'[k] /\ (~run'[v].over => n <= CapOf(k))
                        /\ \A u \in Workers \ {v} : <<k, n>> \notin Tickets(u)'
      BY DEF HeldOnce
    <3>1. v # w /\ <<k, n>> \in Tickets(v) /\ run'[v] = run[v]
      BY <1>2
    <3>2. /\ Issued(k, n) /\ n \notin winners[k] /\ (~run[v].over => n <= CapOf(k))
          /\ \A u \in Workers \ {v} : <<k, n>> \notin Tickets(u)
      BY <3>1 DEF CapInv, HeldOnce
    <3>3. n \notin Wins(k)
      BY <2>3, <3>1
    <3>4. winners'[k] = winners[k] \cup Wins(k) /\ Issued(k, n)'
      BY <1>1, <2>1, <3>2 DEF Issued
    <3> QED BY <1>2, <3>1, <3>2, <3>3, <3>4
  <2> QED BY <2>2, <2>5, <2>6 DEF CapInv
<1> QED BY <1>6, <1>7

LEMMA CapStep == ClockInv /\ CapInv /\ [Next]_vars => CapInv'
<1> SUFFICES ASSUME ClockInv, CapInv, [Next]_vars PROVE CapInv'
  OBVIOUS
<1>1. CASE Tick
  <2>1. now \in Nat /\ now' = now + 1 /\ UNCHANGED <<expires, run, passed, winners>>
    BY <1>1, RateAssumption DEF Tick, ClockInv, TypeOK
  <2>2. \A k \in Keys : expires[k] \in Nat /\ count'[k] = IF expires[k] <= now + 1 THEN 0 ELSE count[k]
    BY <1>1 DEF Tick, ClockInv, TypeOK
  <2>3. Expiry'
    BY <2>1, <2>2 DEF CapInv, Expiry
  <2>4. \A k \in Keys, n \in Nat : Issued(k, n) => Issued(k, n)'
    BY <2>1, <2>2 DEF Issued
  <2>5. \A w \in Workers : Tickets(w)' = Tickets(w)
    BY <2>1 DEF Tickets
  <2>6. HeldOnce'
    <3> SUFFICES ASSUME NEW w \in Workers, NEW k \in Keys, NEW n \in Nat, <<k, n>> \in Tickets(w)'
                 PROVE  /\ Issued(k, n)' /\ n \notin winners[k] /\ (~run[w].over => n <= CapOf(k))
                        /\ \A v \in Workers \ {w} : <<k, n>> \notin Tickets(v)'
      BY <2>1 DEF HeldOnce
    <3> QED BY <2>4, <2>5 DEF CapInv, HeldOnce
  <2>7. \A k \in Keys : winners[k] \in SUBSET Nat
    BY DEF ClockInv, TypeOK
  <2>8. Won'
    BY <2>1, <2>4, <2>7 DEF CapInv, Won
  <2> QED BY <2>3, <2>6, <2>8 DEF CapInv
<1>2. ASSUME NEW w \in Workers, NEW p \in Phones, NEW c \in Categories, Begin(w, p, c)
      PROVE  CapInv'
  <2>1. run'[w].pc = "global" /\ run'[w].held = {} /\ \A v \in Workers \ {w} : run'[v] = run[v]
    BY <1>2 DEF Begin, ClockInv, TypeOK
  <2>2. Tickets(w)' = {} \/ (Tickets(w)' = Tickets(w) /\ run'[w].over = run[w].over)
    BY <2>1 DEF Tickets
  <2>3. UNCHANGED <<now, count, expires, passed, winners>>
    BY <1>2 DEF Begin, counters, history
  <2> QED BY <2>1, <2>2, <2>3, Dropping
<1>3. ASSUME NEW w \in Workers, JudgeGlobal(w) PROVE CapInv'
  <2>1. run[w].pc # "idle"
    BY <1>3 DEF JudgeGlobal
  <2>2. run'[w].pc = "idle" \/ (run'[w].held = run[w].held /\ run'[w].over = run[w].over)
    <3>1. Idle.pc = "idle"
      BY DEF Idle
    <3> QED BY <1>3, <3>1, JudgeGlobalRun
  <2>4. Tickets(w)' = {} \/ (Tickets(w)' = Tickets(w) /\ run'[w].over = run[w].over)
    BY <2>1, <2>2 DEF Tickets
  <2>3. UNCHANGED <<now, count, expires, passed, winners>>
    BY <1>3 DEF JudgeGlobal, counters, history
  <2> QED BY <1>3, <2>3, <2>4, JudgeGlobalRun, Dropping
<1>4. ASSUME NEW w \in Workers, CheckCooldown(w) \/ SetCooldown(w) PROVE CapInv'
  <2>1. run[w].pc # "idle" /\ UNCHANGED <<now, count, expires, passed, winners>>
    BY <1>4 DEF CheckCooldown, SetCooldown, counters, history
  <2>2. CASE Return(w)
    <3>1. run'[w].pc = "idle" /\ \A v \in Workers \ {w} : run'[v] = run[v]
      BY <2>2 DEF Return, Idle, ClockInv, TypeOK
    <3>2. Tickets(w)' = {} \/ (Tickets(w)' = Tickets(w) /\ run'[w].over = run[w].over)
      BY <3>1 DEF Tickets
    <3> QED BY <2>1, <3>1, <3>2, Dropping
  <2>3. ASSUME NEW pc \in {"setting", "counting"}, run' = [run EXCEPT ![w].pc = pc]
        PROVE  CapInv'
    <3>1. Tickets(w)' = Tickets(w) /\ run'[w].over = run[w].over
      BY <2>1, <2>3, MoveRun DEF Tickets
    <3> QED BY <2>1, <2>3, <3>1, MoveRun, Dropping
  <2> QED BY <1>4, <2>2, <2>3 DEF CheckCooldown, SetCooldown
<1>5. CASE UNCHANGED vars
  BY <1>5 DEF vars, CapInv, Expiry, HeldOnce, Won, Issued, Tickets
<1> QED
  BY <1>1, <1>2, <1>3, <1>4, <1>5, IncrCaps, JudgeUserCaps DEF Next, Evaluate

LEMMA CapInit == Init => CapInv
<1> SUFFICES ASSUME Init PROVE CapInv
  OBVIOUS
<1>1. \A w \in Workers : Tickets(w) = {}
  BY DEF Init, Idle, Tickets
<1>2. \A k \in Keys : count[k] = 0 /\ expires[k] = 0 /\ passed[k] = 0 /\ winners[k] = {}
  BY DEF Init
<1>3. Expiry /\ HeldOnce
  BY <1>1, <1>2 DEF Expiry, HeldOnce
<1>4. Won
  BY <1>2, FS_EmptySet DEF Won
<1> QED BY <1>3, <1>4 DEF CapInv

LEMMA CapsHeld == ClockInv /\ CapInv => CapsHold
<1> SUFFICES ASSUME ClockInv, CapInv, NEW k \in Keys PROVE passed[k] <= CapOf(k)
  BY DEF CapsHold
<1>1. winners[k] \in SUBSET Nat /\ CapOf(k) \in Nat /\ passed[k] \in Nat
  BY KeyShape DEF ClockInv, TypeOK
<1>2. \A n \in winners[k] : n >= 1 /\ n <= CapOf(k)
  BY DEF CapInv, Won, Issued
<1>3. IsFiniteSet(winners[k]) /\ Cardinality(winners[k]) <= CapOf(k)
  BY <1>1, <1>2, WinnersBounded
<1>4. Cardinality(winners[k]) \in Nat /\ passed[k] <= Cardinality(winners[k])
  BY <1>3, FS_CardinalityType DEF CapInv, Won
<1> QED BY <1>1, <1>3, <1>4

(***************************************************************************)
(* No window lets more messages pass than its cap: for any workers, caps   *)
(* and windows, if no worker stalls longer than its counters outlive their *)
(* windows.                                                                *)
(***************************************************************************)
THEOREM CapsAreKept == Spec => []CapsHold
BY InitInv, CapInit, CapsHeld, ClockStep, CapStep, PTL DEF Spec

-----------------------------------------------------------------------------
(***************************************************************************)
(* A message takes its places in several steps, but the same ones as if it *)
(* were admitted at once: what it has counted and still has to count are   *)
(* always the windows of its stage.                                        *)
(***************************************************************************)
Remaining(w) == {run[w].todo[i] : i \in 1..Len(run[w].todo)}
Places(w) == {h[1] : h \in run[w].held}
             \cup {KeyOf(k, run[w].phone, run[w].category, run[w].at) : k \in Remaining(w)}
Globals(p, c, t) == {KeyOf(k, p, c, t) : k \in GlobalKinds}
PlacesOf(w) ==
    /\ run[w].pc = "global" => Places(w) = Globals(run[w].phone, run[w].category, run[w].at)
    /\ run[w].pc \notin {"idle", "global"} => \E g \in 0..run[w].at :
           Places(w) = Demand(run[w].phone, run[w].category, g, run[w].at)
AdmitInv == \A w \in Workers : PlacesOf(w)

LEMMA HeadAndRest ==
    ASSUME NEW S, NEW q \in Seq(S), q # <<>>
    PROVE  {q[i] : i \in 1..Len(q)} = {Head(q)} \cup {Tail(q)[i] : i \in 1..Len(Tail(q))}
<1>1. /\ Len(q) \in Nat \ {0} /\ Head(q) = q[1] /\ Len(Tail(q)) = Len(q) - 1
      /\ \A i \in 1..Len(Tail(q)) : Tail(q)[i] = q[i + 1]
  <2>1. Len(q) \in Nat \ {0} /\ Head(q) = q[1]
    OBVIOUS
  <2> QED BY <2>1, HeadTailProperties
<1>2. ASSUME NEW i \in 1..Len(q) PROVE q[i] = Head(q) \/ \E j \in 1..Len(Tail(q)) : Tail(q)[j] = q[i]
  <2>1. i = 1 \/ (i - 1 \in 1..Len(Tail(q)) /\ Tail(q)[i - 1] = q[i])
    BY <1>1
  <2> QED BY <1>1, <2>1
<1>3. \A j \in 1..Len(Tail(q)) : j + 1 \in 1..Len(q)
  BY <1>1
<1> QED BY <1>1, <1>2, <1>3

LEMMA OtherPlaces ==
    ASSUME NEW w \in Workers, PlacesOf(w), run'[w] = run[w]
    PROVE  PlacesOf(w)'
BY DEF PlacesOf, Places, Remaining

LEMMA AdmitStep == ClockInv /\ AdmitInv /\ [Next]_vars => AdmitInv'
<1> SUFFICES ASSUME ClockInv, AdmitInv, [Next]_vars PROVE AdmitInv'
  OBVIOUS
<1>0. ASSUME NEW w \in Workers, PlacesOf(w)', \A v \in Workers \ {w} : run'[v] = run[v]
      PROVE  AdmitInv'
  BY <1>0, OtherPlaces DEF AdmitInv
<1>1. CASE UNCHANGED run
  BY <1>1, OtherPlaces DEF AdmitInv
<1>2. ASSUME NEW w \in Workers, NEW p \in Phones, NEW c \in Categories, Begin(w, p, c)
      PROVE  AdmitInv'
  <2>1. /\ run'[w].pc = "global" /\ run'[w].phone = p /\ run'[w].category = c
        /\ run'[w].at = now /\ run'[w].held = {}
        /\ run'[w].todo = <<"globalHour", "globalDay">>
        /\ \A v \in Workers \ {w} : run'[v] = run[v]
    BY <1>2 DEF Begin, ClockInv, TypeOK
  <2>2. Remaining(w)' = GlobalKinds
    BY <2>1 DEF Remaining, GlobalKinds
  <2>3. Places(w)' = Globals(p, c, now)
    BY <2>1, <2>2 DEF Places, Globals
  <2> QED BY <1>0, <2>1, <2>3 DEF PlacesOf
<1>3. ASSUME NEW w \in Workers, Incr(w) PROVE AdmitInv'
  <2>1. run[w].todo \in Seq(Kinds) /\ run[w].todo # <<>>
    BY <1>3, IncrFacts DEF Incr, Busy
  <2>2. Remaining(w) = {Head(run[w].todo)} \cup Remaining(w)'
    <3>1. Remaining(w)' = {Tail(run[w].todo)[i] : i \in 1..Len(Tail(run[w].todo))}
      BY <1>3, IncrRun DEF Remaining
    <3>2. Remaining(w) = {Head(run[w].todo)}
              \cup {Tail(run[w].todo)[i] : i \in 1..Len(Tail(run[w].todo))}
      BY <2>1, HeadAndRest, Zenon DEF Remaining
    <3> QED BY <3>1, <3>2
  <2>3. {h[1] : h \in run'[w].held} = {h[1] : h \in run[w].held} \cup {Next1(w)}
    <3> DEFINE H == run[w].held
               ticket == <<Next1(w), count[Next1(w)] + 1>>
    <3>1. run'[w].held = H \cup {ticket} /\ ticket[1] = Next1(w)
      BY <1>3, IncrRun
    <3> HIDE DEF H, ticket
    <3>2. {h[1] : h \in run'[w].held} = {h[1] : h \in H} \cup {Next1(w)}
      BY <3>1
    <3> QED BY <3>2 DEF H
  <2>4. Places(w)' = Places(w)
    BY <1>3, <2>2, <2>3, IncrRun DEF Places, Next1
  <2> QED BY <1>0, <1>3, <2>4, IncrRun DEF AdmitInv, PlacesOf
<1>4. ASSUME NEW w \in Workers, JudgeGlobal(w) PROVE AdmitInv'
  <2>1. CASE run'[w] = Idle
    BY <1>0, <1>4, <2>1, JudgeGlobalRun DEF PlacesOf, Idle
  <2>2. CASE run'[w] # Idle
    <3> DEFINE p == run[w].phone
               c == run[w].category
               g == run[w].at
    <3>1. /\ run'[w].pc \in {"checking", "counting"} /\ run'[w].at = now
          /\ run'[w].held = run[w].held /\ run'[w].phone = p /\ run'[w].category = c
          /\ run'[w].todo = IF c = "otp" THEN <<"otpHour">> ELSE <<"userDay", "userWeek">>
      BY <1>4, <2>2, JudgeGlobalRun
    <3>2. run[w].pc = "global" /\ run[w].todo = <<>>
      BY <1>4 DEF JudgeGlobal
    <3>3. g \in 0..now
      BY <3>2, BusyRun DEF ClockInv, Clocks, TypeOK, Busy
    <3>4. {h[1] : h \in run[w].held} = Globals(p, c, g)
      <4>1. Remaining(w) = {}
        BY <3>2 DEF Remaining
      <4> QED BY <3>2, <4>1 DEF AdmitInv, PlacesOf, Places
    <3>5. Remaining(w)' = UserKinds(c)
      BY <3>1 DEF Remaining, UserKinds
    <3>6. Places(w)' = Demand(p, c, g, now)
      BY <3>1, <3>4, <3>5 DEF Places, Demand, Globals
    <3>7. PlacesOf(w)'
      BY <3>1, <3>3, <3>6 DEF PlacesOf
    <3> QED BY <1>0, <1>4, <3>7, JudgeGlobalRun
  <2> QED BY <2>1, <2>2
<1>5. ASSUME NEW w \in Workers, CheckCooldown(w) \/ SetCooldown(w) PROVE AdmitInv'
  <2>1. run[w].pc \notin {"idle", "global"}
    BY <1>5 DEF CheckCooldown, SetCooldown
  <2>2. CASE Return(w)
    <3>1. run'[w].pc = "idle" /\ \A v \in Workers \ {w} : run'[v] = run[v]
      BY <2>2 DEF Return, Idle, ClockInv, TypeOK
    <3> QED BY <1>0, <3>1 DEF PlacesOf
  <2>3. ASSUME NEW pc \in {"setting", "counting"}, run' = [run EXCEPT ![w].pc = pc]
        PROVE  AdmitInv'
    <3>1. Places(w)' = Places(w)
      BY <2>1, <2>3, MoveRun DEF Places, Remaining
    <3>2. PlacesOf(w)'
      BY <2>1, <2>3, <3>1, MoveRun DEF AdmitInv, PlacesOf
    <3> QED BY <1>0, <2>1, <2>3, <3>2, MoveRun
  <2> QED BY <1>5, <2>2, <2>3 DEF CheckCooldown, SetCooldown
<1>6. ASSUME NEW w \in Workers, JudgeUser(w) PROVE AdmitInv'
  <2>1. run'[w].pc = "idle" /\ \A v \in Workers \ {w} : run'[v] = run[v]
    BY <1>6 DEF JudgeUser, Return, Idle, ClockInv, TypeOK
  <2> QED BY <1>0, <2>1 DEF PlacesOf
<1> QED
  BY <1>1, <1>2, <1>3, <1>4, <1>5, <1>6 DEF Next, Evaluate, Tick, vars

(***************************************************************************)
(* The verdict of the user's caps is the step that admits.                 *)
(***************************************************************************)
LEMMA JudgeUserAdmits ==
    ASSUME ClockInv, AdmitInv, CapsHold', NEW w \in Workers, JudgeUser(w), ~run[w].over
    PROVE  Abstract!Next
<1> DEFINE d == {h[1] : h \in run[w].held}
<1>1. run[w] \in Busy /\ run[w].todo = <<>> /\ run[w].pc = "counting"
  BY BusyRun DEF JudgeUser, ClockInv
<1>2. PICK g \in 0..run[w].at : d = Demand(run[w].phone, run[w].category, g, run[w].at)
  <2>1. Remaining(w) = {}
    BY <1>1 DEF Remaining
  <2> QED BY <1>1, <2>1 DEF AdmitInv, PlacesOf, Places
<1>3. run[w].phone \in Phones /\ run[w].category \in Categories /\ run[w].at \in 0..Horizon
  <2>1. run[w].phone \in Phones /\ run[w].category \in Categories /\ run[w].at \in Nat
    BY <1>1 DEF Busy
  <2>2. run[w].at <= now /\ now \in 0..Horizon /\ Horizon \in Nat
    BY <1>1, RateAssumption DEF ClockInv, Clocks, TypeOK
  <2> QED BY <2>1, <2>2
<1>4. d \in Demands
  BY <1>2, <1>3 DEF Demands
<1>5. passed' = [k \in Keys |-> IF k \in d THEN passed[k] + 1 ELSE passed[k]]
  BY DEF JudgeUser
<1>6. d \subseteq Keys
  BY <1>1 DEF Busy
<1>7. KeyOf("globalHour", run[w].phone, run[w].category, g) \in d
  BY <1>2 DEF Demand, GlobalKinds
<1> HIDE DEF d
<1>8. \A k \in Keys : passed[k] \in Nat /\ CapOf(k) \in Nat
  BY KeyShape DEF ClockInv, TypeOK
<1>9. \A k \in d : passed'[k] = passed[k] + 1 /\ passed[k] < CapOf(k)
  BY <1>5, <1>6, <1>8 DEF CapsHold
<1>10. passed' # passed
  BY <1>6, <1>7, <1>8, <1>9
<1>11. Abstract!Admit(d)
  BY <1>5, <1>6, <1>9 DEF Abstract!Admit
<1> QED BY <1>4, <1>10, <1>11 DEF Abstract!Next

(***************************************************************************)
(* RateLimits implements Admission: for any workers, caps and windows, a   *)
(* message that passes takes its place in all its windows at once.         *)
(***************************************************************************)
THEOREM AdmitsAtOnce == Spec => AdmittedAtOnce
<1>1. Init => AdmitInv /\ Abstract!Init
  BY DEF Init, Idle, AdmitInv, PlacesOf, Abstract!Init
<1>2. ClockInv /\ AdmitInv /\ CapsHold' /\ [Next]_vars => [Abstract!Next]_passed
  <2> SUFFICES ASSUME ClockInv, AdmitInv, CapsHold', Next, passed' # passed PROVE Abstract!Next
    BY DEF vars
  <2>1. PICK w \in Workers : JudgeUser(w)
    BY DEF Next, Evaluate, Tick, Begin, Incr, JudgeGlobal, CheckCooldown, SetCooldown, history
  <2> QED BY <2>1, JudgeUserAdmits DEF JudgeUser
<1>3. ClockInv /\ CapInv => CapsHold
  BY CapsHeld
<1> QED BY <1>1, <1>2, <1>3, InitInv, CapInit, ClockStep, CapStep, AdmitStep, PTL
        DEF Spec, AdmittedAtOnce, Abstract!Spec
=============================================================================

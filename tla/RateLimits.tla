----------------------------- MODULE RateLimits -----------------------------
(***************************************************************************)
(* check_global_caps and check_user_frequency: counters in Redis that the  *)
(* workers share, one per kind, owner and calendar window, each removed    *)
(* by Redis some time after its window.  One action is one Redis command   *)
(* (INCR and EXPIRE NX run as one transaction) or the reading of a clock.  *)
(***************************************************************************)
EXTENDS Integers, Sequences

CONSTANTS
    Workers, Phones, Everybody,
    Categories, \* template categories; any but "otp" counts by day and week
    Length,     \* the calendar window of each kind of counter
    TTL,        \* how long a counter lives from its first INCR
    Cap,        \* the cap of each kind, by category
    Cooldown,   \* settings.otp_cooldown_seconds
    MaxStall,   \* bound: from reading the clock to the last INCR named by it
    Horizon,    \* bound: the clock
    MaxRuns     \* bound: evaluations

GlobalKinds == {"globalHour", "globalDay"}
Kinds == GlobalKinds \cup {"otpHour", "userDay", "userWeek"}

ASSUME RateAssumption ==
    /\ Everybody \notin Phones /\ Length \in [Kinds -> Nat \ {0}] /\ TTL \in [Kinds -> Nat]
    /\ Cap \in [Kinds -> [Categories -> Nat]]
    /\ Cooldown \in Nat \ {0} /\ MaxStall \in Nat /\ Horizon \in Nat /\ MaxRuns \in Nat
\* The counters outlive their windows, by 100 s (3700 for an hour), an hour
\* (90000 for a day) and a day (700000 for a week): no run stalls longer
\* between the clock and the INCR.
ASSUME TTLAssumption == \A k \in Kinds : TTL[k] >= Length[k] + MaxStall

\* The key global:<category>:hour:<hour>, user:<phone>:promo:day:<day>, ...
KeyOf(k, p, c, t) ==
    [kind |-> k, owner |-> IF k \in GlobalKinds THEN Everybody ELSE p, category |-> c,
     start |-> t - (t % Length[k])]
Keys == {KeyOf(k, p, c, t) : k \in Kinds, p \in Phones, c \in Categories, t \in 0..Horizon}
CapOf(key) == Cap[key.kind][key.category]

VARIABLES
    now,
    count, expires,  \* the value of each counter, 0 if there is none; when it goes
    cooling,         \* when user:<phone>:otp:cooldown goes, 0 if there is none
    run,             \* each worker's evaluation
    passed, winners, \* history: evaluations that passed each counter; their numbers
    cooled,          \* history: passes of each worker since the cooldown key was absent
    runs

vars == <<now, count, expires, cooling, run, passed, winners, cooled, runs>>
counters == <<count, expires>>
history == <<passed, winners, cooled>>

Idle == [pc |-> "idle"]
\* at: the clock as read for this stage; todo: kinds still to count; held: the
\* keys counted and the value each INCR returned; over: one was over its cap.
Busy == [pc: {"global", "checking", "setting", "counting"}, phone: Phones,
         category: Categories, at: Nat, todo: Seq(Kinds), held: SUBSET (Keys \X Nat),
         over: BOOLEAN]

TypeOK ==
    /\ now \in 0..Horizon /\ count \in [Keys -> Nat] /\ expires \in [Keys -> Nat]
    /\ cooling \in [Phones -> Nat] /\ run \in [Workers -> {Idle} \cup Busy]
    /\ passed \in [Keys -> Nat] /\ winners \in [Keys -> SUBSET Nat]
    /\ cooled \in [Phones -> [Workers -> Nat]] /\ runs \in Nat

Init ==
    /\ now = 0 /\ count = [k \in Keys |-> 0] /\ expires = [k \in Keys |-> 0]
    /\ cooling = [p \in Phones |-> 0] /\ run = [w \in Workers |-> Idle]
    /\ passed = [k \in Keys |-> 0] /\ winners = [k \in Keys |-> {}]
    /\ cooled = [p \in Phones |-> [w \in Workers |-> 0]] /\ runs = 0

-----------------------------------------------------------------------------
\* Time passes; Redis removes what has expired.
Tick ==
    /\ now < Horizon /\ now' = now + 1
    /\ \A w \in Workers : run[w].pc # "idle" /\ run[w].todo # <<>>
                          => now < run[w].at + MaxStall
    /\ count' = [k \in Keys |-> IF expires[k] <= now + 1 THEN 0 ELSE count[k]]
    /\ cooling' = [p \in Phones |-> IF cooling[p] <= now + 1 THEN 0 ELSE cooling[p]]
    /\ cooled' = [p \in Phones |-> IF cooling[p] <= now + 1 THEN [w \in Workers |-> 0]
                                                            ELSE cooled[p]]
    /\ UNCHANGED <<expires, run, passed, winners, runs>>

\* check_global_caps reads the clock once for both keys.
Begin(w, p, c) ==
    /\ run[w].pc = "idle" /\ runs < MaxRuns /\ runs' = runs + 1
    /\ run' = [run EXCEPT ![w] =
           [pc |-> "global", phone |-> p, category |-> c, at |-> now,
            todo |-> <<"globalHour", "globalDay">>, held |-> {}, over |-> FALSE]]
    /\ UNCHANGED <<now, counters, cooling, history>>

\* Variant: a counter that goes with its window at the latest.
LivesShorter(k) == Length[k] - 1
Lives(k) == TTL[k]
\* _incr_with_expiry; the comparison with the cap follows when all are counted.
Incr(w) ==
    LET r == run[w] k == Head(r.todo) key == KeyOf(k, r.phone, r.category, r.at) IN
    /\ r.pc \in {"global", "counting"} /\ r.todo # <<>>
    /\ count' = [count EXCEPT ![key] = @ + 1]
    /\ expires' = IF count[key] = 0 THEN [expires EXCEPT ![key] = now + Lives(k)] ELSE expires
    /\ run' = [run EXCEPT ![w] =
           [r EXCEPT !.todo = Tail(r.todo), !.held = r.held \cup {<<key, count[key] + 1>>},
                     !.over = r.over \/ count[key] + 1 > CapOf(key)]]
    /\ UNCHANGED <<now, cooling, history, runs>>

Return(w) == run' = [run EXCEPT ![w] = Idle]

\* Variant: the week's count alone limits a user.
JudgeByWeek(w) ==
    LET r == run[w] IN
    /\ r.pc = "global" /\ r.todo = <<>>
    /\ run' = [run EXCEPT ![w] = IF r.over THEN Idle
           ELSE IF r.category = "otp"
           THEN [r EXCEPT !.pc = "checking", !.at = now, !.todo = <<"otpHour">>]
           ELSE [r EXCEPT !.pc = "counting", !.at = now, !.todo = <<"userWeek">>]]
    /\ UNCHANGED <<now, counters, cooling, history, runs>>
\* The global caps decide, and check_user_frequency reads the clock again.
JudgeGlobal(w) ==
    LET r == run[w] IN
    /\ r.pc = "global" /\ r.todo = <<>>
    /\ \/ r.over /\ Return(w)
       \/ /\ ~r.over
          /\ run' = [run EXCEPT ![w] =
                 IF r.category = "otp"
                 THEN [r EXCEPT !.pc = "checking", !.at = now, !.todo = <<"otpHour">>]
                 ELSE [r EXCEPT !.pc = "counting", !.at = now, !.todo = <<"userDay", "userWeek">>]]
    /\ UNCHANGED <<now, counters, cooling, history, runs>>

\* Variant: only the hourly count limits one-time passwords.
CheckNothing(w) ==
    /\ run[w].pc = "checking" /\ run' = [run EXCEPT ![w].pc = "setting"]
    /\ UNCHANGED <<now, counters, cooling, history, runs>>
\* r.exists(cooldown_key), and r.setex(cooldown_key, ...) in another command.
CheckCooldown(w) ==
    /\ run[w].pc = "checking"
    /\ IF cooling[run[w].phone] # 0 THEN Return(w)
                                    ELSE run' = [run EXCEPT ![w].pc = "setting"]
    /\ UNCHANGED <<now, counters, cooling, history, runs>>
SetCooldown(w) ==
    /\ run[w].pc = "setting" /\ run' = [run EXCEPT ![w].pc = "counting"]
    /\ cooling' = [cooling EXCEPT ![run[w].phone] = now + Cooldown]
    /\ cooled' = [cooled EXCEPT ![run[w].phone][w] = @ + 1]
    /\ UNCHANGED <<now, counters, passed, winners, runs>>

\* The user's caps decide; what passes goes on to the duplicate window.
JudgeUser(w) ==
    LET r == run[w] IN
    /\ r.pc = "counting" /\ r.todo = <<>> /\ Return(w)
    /\ IF r.over THEN UNCHANGED <<passed, winners>>
       ELSE /\ passed' = [k \in Keys |-> IF k \in {h[1] : h \in r.held}
                                         THEN passed[k] + 1 ELSE passed[k]]
            /\ winners' = [k \in Keys |-> winners[k] \cup {h[2] : h \in {g \in r.held : g[1] = k}}]
    /\ UNCHANGED <<now, counters, cooling, cooled, runs>>

Evaluate(w) ==
    \/ \E p \in Phones, c \in Categories : Begin(w, p, c)
    \/ Incr(w) \/ JudgeGlobal(w) \/ CheckCooldown(w) \/ SetCooldown(w) \/ JudgeUser(w)
Next == Tick \/ \E w \in Workers : Evaluate(w)
Spec == Init /\ [][Next]_vars

-----------------------------------------------------------------------------
(***************************************************************************)
(* No window lets more messages pass than its cap, however evaluations     *)
(* interleave, stall across the end of a window and meet a counter that    *)
(* Redis removes.                                                          *)
(***************************************************************************)
CapsHold == \A k \in Keys : passed[k] <= CapOf(k)

(***************************************************************************)
(* While the cooldown of a phone lasts, a worker lets at most one password *)
(* pass to it: with one worker passwords are a cooldown apart, and workers *)
(* that race between the two commands add one each.                        *)
(***************************************************************************)
OneOtpPerCooldown == \A p \in Phones, w \in Workers : cooled[p][w] <= 1

(***************************************************************************)
(* A message that passes has taken a place in every window it falls into,  *)
(* the global ones by one reading of the clock and the user's by a later   *)
(* one, each with a place left: as if it were admitted in one step.        *)
(***************************************************************************)
UserKinds(c) == IF c = "otp" THEN {"otpHour"} ELSE {"userDay", "userWeek"}
Demand(p, c, g, u) ==
    {KeyOf(k, p, c, g) : k \in GlobalKinds} \cup {KeyOf(k, p, c, u) : k \in UserKinds(c)}
Demands == UNION {{Demand(p, c, g, u) : p \in Phones, c \in Categories, g \in 0..u} :
                  u \in 0..Horizon}
Abstract == INSTANCE Admission WITH
    Windows <- Keys, Limit <- [k \in Keys |-> CapOf(k)], Demands <- Demands, admitted <- passed
AdmittedAtOnce == Abstract!Spec
=============================================================================

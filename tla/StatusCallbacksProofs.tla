----------------------- MODULE StatusCallbacksProofs -----------------------
(***************************************************************************)
(* What holds of StatusCallbacks for any attempts, providers, reports and  *)
(* faults.                                                                 *)
(***************************************************************************)
EXTENDS StatusCallbacks, TLAPS

(***************************************************************************)
(* Why no answered report is lost and no status goes back: a message that  *)
(* has not left has no reports; a row takes reports only once it has the   *)
(* id; without overlap the one open callback is the latest report.         *)
(***************************************************************************)
Statuses == {"created", "sent", "failed"} \cup Interim \cup Final
Open(a) == run[a] # "done"
RowShape == row \in [Attempts -> [known: BOOLEAN, status: Statuses]]
RunShape == /\ run \in [Attempts -> {"idle", "flushed", "accepted", "nameless", "failed", "done"}]
            /\ \A a \in Earlier : run[a] = "done"
            /\ \A a \in Attempts : Open(a) => ~row[a].known
ReportsOf(a) == /\ applied[a] <= Len(reports[a])
                /\ ~row[a].known => applied[a] = 0
                /\ run[a] \in {"idle", "flushed"} => reports[a] = <<>>
ReportShape ==
    /\ reports \in [Attempts -> Seq(Interim \cup Final)]
    /\ applied \in [Attempts -> Nat] /\ overlapped \subseteq Attempts
    /\ \A a \in Attempts : ReportsOf(a)
OpenOf(a) == \A i \in Nat : <<a, i>> \in unanswered =>
    i \in 1..Len(reports[a]) /\ (a \notin overlapped => i = Len(reports[a]))
Numbered == \A a \in Attempts : OpenOf(a)
Inv == /\ RowShape /\ RunShape /\ ReportShape /\ Numbered
       /\ unanswered \subseteq Attempts \X Numbers
       /\ StatusWasReported /\ AnsweredIsApplied

Forward == \A a \in Attempts : applied'[a] >= applied[a] \/ a \in overlapped

LEMMA Initially == Init => Inv
<1> SUFFICES ASSUME Init PROVE Inv
  OBVIOUS
<1>1. \A a \in Attempts : reports[a] = <<>> /\ applied[a] = 0
  BY DEF Init
<1>2. RowShape /\ RunShape
  BY CallbackAssumption DEF Init, RowShape, RunShape, Statuses, Sent, None, Open
<1>3. ReportShape /\ Numbered /\ AnsweredIsApplied
  BY <1>1 DEF Init, ReportShape, ReportsOf, Numbered, OpenOf, AnsweredIsApplied
<1>4. StatusWasReported /\ unanswered \subseteq Attempts \X Numbers
  BY DEF Init, StatusWasReported, Sent, None
<1> QED BY <1>2, <1>3, <1>4 DEF Inv

(***************************************************************************)
(* Steps that change neither rows nor reports nor runs.                    *)
(***************************************************************************)
LEMMA Frame ==
    ASSUME Inv, UNCHANGED <<run, row, reports, unanswered, overlapped, applied, missed>>
    PROVE  Inv' /\ Forward
BY DEF Inv, RowShape, RunShape, ReportShape, ReportsOf, Numbered, OpenOf, Open, StatusWasReported,
       AnsweredIsApplied, Forward

LEMMA WorkerInv == ASSUME Inv, NEW a \in Attempts, WorkerStep(a) PROVE Inv' /\ Forward
<1> USE DEF provider, history, bounds, Goto
<1>1. ASSUME UNCHANGED <<row, reports, unanswered, overlapped, applied, missed>>,
             run[a] # "done", NEW pc \in {"flushed", "failed", "done"},
             run[a] = "idle" \/ pc # "flushed", run' = [run EXCEPT ![a] = pc]
      PROVE  Inv' /\ Forward
  <2>1. /\ run' \in [Attempts -> {"idle", "flushed", "accepted", "nameless", "failed", "done"}]
        /\ run'[a] = pc /\ \A b \in Attempts \ {a} : run'[b] = run[b]
    BY <1>1 DEF Inv, RunShape
  <2>2. RunShape'
    BY <1>1, <2>1 DEF Inv, RunShape, Open
  <2>3. ReportShape'
    BY <1>1, <2>1 DEF Inv, ReportShape, ReportsOf
  <2> QED BY <1>1, <2>2, <2>3 DEF Inv, RowShape, ReportShape, ReportsOf, Numbered, OpenOf, StatusWasReported,
                                  AnsweredIsApplied, Forward
<1>2. CASE Flush(a)
  BY <1>1, <1>2 DEF Flush
<1>3. CASE Refuse(a)
  BY <1>1, <1>3 DEF Refuse
<1>4. CASE WorkerCrash(a)
  BY <1>1, <1>4 DEF WorkerCrash
<1>5. CASE Accept(a)
  <2>1. PICK pc \in {"accepted", "nameless", "failed"}, s \in Interim \cup Final :
            run' = [run EXCEPT ![a] = pc] /\ reports' = [reports EXCEPT ![a] = <<s>>]
    BY <1>5 DEF Accept
  <2>2. /\ run[a] = "flushed" /\ unanswered' = unanswered \cup {<<a, 1>>}
        /\ UNCHANGED <<row, overlapped, applied, missed>>
    BY <1>5 DEF Accept
  <2>3. <<s>> \in Seq(Interim \cup Final) /\ Len(<<s>>) = 1
    OBVIOUS
  <2>4. /\ reports' \in [Attempts -> Seq(Interim \cup Final)]
        /\ Len(reports'[a]) = 1 /\ \A b \in Attempts \ {a} : reports'[b] = reports[b]
    BY <2>1, <2>3 DEF Inv, ReportShape, ReportsOf
  <2>5. /\ reports[a] = <<>> /\ Len(reports[a]) = 0 /\ ~row[a].known /\ applied[a] = 0
        /\ \A i \in Nat : <<a, i>> \notin unanswered
    <3>1. reports[a] = <<>> /\ ~row[a].known /\ applied[a] = 0
      BY <2>2 DEF Inv, RunShape, Open, ReportShape, ReportsOf
    <3>2. Len(reports[a]) = 0
      BY <3>1
    <3> QED BY <3>1, <3>2 DEF Inv, Numbered, OpenOf
  <2>6. /\ run' \in [Attempts -> {"idle", "flushed", "accepted", "nameless", "failed", "done"}]
        /\ run'[a] = pc /\ \A b \in Attempts \ {a} : run'[b] = run[b]
    BY <2>1 DEF Inv, RunShape
  <2>7. RowShape' /\ RunShape'
    BY <2>2, <2>5, <2>6, CallbackAssumption DEF Inv, RowShape, RunShape, Open
  <2>8. ReportShape'
    <3>1. ReportsOf(a)'
      BY <2>2, <2>4, <2>5, <2>6 DEF ReportsOf
    <3>2. ASSUME NEW b \in Attempts \ {a} PROVE ReportsOf(b)'
      BY <2>2, <2>4, <2>6 DEF Inv, ReportShape, ReportsOf
    <3> QED BY <2>2, <2>4, <3>1, <3>2 DEF Inv, ReportShape
  <2>9. Numbered' /\ unanswered' \subseteq Attempts \X Numbers
    <3>1. 1 \in Numbers
      BY CallbackAssumption DEF Numbers
    <3>2. OpenOf(a)'
      BY <2>2, <2>4, <2>5 DEF OpenOf
    <3>3. ASSUME NEW b \in Attempts \ {a} PROVE OpenOf(b)'
      BY <2>2, <2>4 DEF Inv, Numbered, OpenOf
    <3> QED BY <2>2, <3>1, <3>2, <3>3 DEF Inv, Numbered
  <2>10. StatusWasReported'
    BY <2>2, <2>4, <2>5 DEF Inv, StatusWasReported
  <2>11. AnsweredIsApplied'
    <3> SUFFICES ASSUME NEW b \in Attempts, NEW i \in 1..Len(reports'[b])
                 PROVE  \/ <<b, i>> \in unanswered' \cup missed \/ applied[b] >= i
                        \/ b \in overlapped
      BY <2>2 DEF AnsweredIsApplied
    <3>1. CASE b = a
      <4>0. Len(reports'[b]) = 1
        BY <2>4, <3>1
      <4>1. i = 1
        BY <4>0
      <4> QED BY <2>2, <3>1, <4>1
    <3>2. CASE b # a
      BY <2>2, <2>4, <3>2 DEF Inv, AnsweredIsApplied
    <3> QED BY <3>1, <3>2
  <2>12. Forward
    BY <2>2 DEF Forward, Inv, ReportShape, ReportsOf
  <2> QED BY <2>7, <2>8, <2>9, <2>10, <2>11, <2>12 DEF Inv
<1>6. CASE Commit(a)
  <2>1. /\ run[a] \in {"accepted", "nameless", "failed"} /\ run' = [run EXCEPT ![a] = "done"]
        /\ UNCHANGED <<reports, unanswered, overlapped, applied, missed>>
        /\ row' = [row EXCEPT ![a] = [known |-> run[a] = "accepted",
                                      status |-> IF run[a] = "failed" THEN "failed" ELSE "sent"]]
    BY <1>6 DEF Commit
  <2>2. /\ row'[a].known = (run[a] = "accepted")
        /\ row'[a].known => row'[a].status = "sent"
        /\ \A b \in Attempts \ {a} : row'[b] = row[b]
    BY <2>1 DEF Inv, RowShape
  <2>3. RowShape'
    BY <2>1 DEF Inv, RowShape, Statuses
  <2>4. /\ run' \in [Attempts -> {"idle", "flushed", "accepted", "nameless", "failed", "done"}]
        /\ run'[a] = "done" /\ \A b \in Attempts \ {a} : run'[b] = run[b]
    BY <2>1 DEF Inv, RunShape
  <2>5. RunShape'
    BY <2>2, <2>4, CallbackAssumption DEF Inv, RunShape, Open
  <2>6. ~row[a].known /\ applied[a] = 0
    BY <2>1 DEF Inv, RunShape, Open, ReportShape, ReportsOf
  <2>7. ReportShape' /\ StatusWasReported'
    BY <2>1, <2>2, <2>4, <2>6 DEF Inv, ReportShape, ReportsOf, StatusWasReported
  <2> QED BY <2>1, <2>3, <2>5, <2>7 DEF Inv, Numbered, OpenOf, AnsweredIsApplied, Forward, ReportShape, ReportsOf
<1> QED BY <1>2, <1>3, <1>4, <1>5, <1>6 DEF WorkerStep

LEMMA ReportInv ==
    ASSUME Inv, NEW a \in Attempts, NEW s \in Interim \cup Final, Report(a, s)
    PROVE  Inv' /\ Forward
<1> USE DEF worker, history, bounds
<1> DEFINE n == Len(reports[a])
<1>1. reports[a] \in Seq(Interim \cup Final) /\ n \in Nat
  BY DEF Inv, ReportShape, ReportsOf
<1>2. /\ reports' = [reports EXCEPT ![a] = Append(reports[a], s)]
      /\ unanswered' = unanswered \cup {<<a, n + 1>>}
      /\ overlapped' = IF \E i \in Numbers : <<a, i>> \in unanswered THEN overlapped \cup {a}
                                                                     ELSE overlapped
      /\ UNCHANGED <<run, row, applied, missed>>
  BY DEF Report
<1>3. n + 1 \in Numbers /\ run[a] \notin {"idle", "flushed"}
  <2>1. CASE reports[a] = <<>>
    <3>1. a \in Earlier /\ n = 0
      BY <2>1 DEF Report
    <3> QED BY <3>1, CallbackAssumption DEF Inv, RunShape, Numbers
  <2>2. CASE reports[a] # <<>>
    <3>1. n < MaxReports
      BY <2>2 DEF Report
    <3> QED BY <1>1, <2>2, <3>1, CallbackAssumption DEF Numbers, Inv, ReportShape, ReportsOf
  <2> QED BY <2>1, <2>2
<1>4. /\ reports'[a] = Append(reports[a], s) /\ \A b \in Attempts \ {a} : reports'[b] = reports[b]
      /\ reports' \in [Attempts -> Seq(Interim \cup Final)]
  BY <1>1, <1>2 DEF Inv, ReportShape, ReportsOf
<1>5. Len(reports'[a]) = n + 1 /\ \A i \in 1..n : reports'[a][i] = reports[a][i]
  BY <1>1, <1>4
<1>6. RowShape' /\ RunShape'
  BY <1>2 DEF Inv, RowShape, RunShape, Open
<1>7. ReportShape'
  <2>1. ReportsOf(a)'
    BY <1>1, <1>2, <1>3, <1>5 DEF Inv, ReportShape, ReportsOf
  <2>2. ASSUME NEW b \in Attempts \ {a} PROVE ReportsOf(b)'
    BY <1>2, <1>4 DEF Inv, ReportShape, ReportsOf
  <2> QED BY <1>2, <1>4, <2>1, <2>2 DEF Inv, ReportShape
<1>8. Numbered' /\ unanswered' \subseteq Attempts \X Numbers
  <2>1. \A i \in Nat : <<a, i>> \in unanswered => i \in Numbers /\ i \in 1..n
    BY DEF Inv, Numbered, OpenOf
  <2>2. ASSUME NEW b \in Attempts, NEW i \in Nat, <<b, i>> \in unanswered'
        PROVE  i \in 1..Len(reports'[b]) /\ (b \notin overlapped' => i = Len(reports'[b]))
    <3>1. CASE b = a /\ i = n + 1
      BY <1>1, <1>5, <3>1
    <3>2. CASE b = a /\ i # n + 1
      <4>1. <<a, i>> \in unanswered /\ i \in Numbers /\ i \in 1..n
        BY <1>2, <2>1, <2>2, <3>2
      <4>2. a \in overlapped'
        BY <1>2, <4>1
      <4>3. i \in 1..(n + 1)
        BY <1>1, <4>1
      <4> QED BY <1>5, <3>2, <4>2, <4>3
    <3>3. CASE b # a
      BY <1>2, <1>4, <2>2, <3>3 DEF Inv, Numbered, OpenOf
    <3> QED BY <3>1, <3>2, <3>3
  <2>3. Numbered'
    BY <2>2 DEF Numbered, OpenOf
  <2> QED BY <1>2, <1>3, <2>3 DEF Inv
<1>9. StatusWasReported'
  <2> SUFFICES ASSUME NEW b \in Attempts, row[b].known
               PROVE  row[b].status = IF applied[b] = 0 THEN "sent" ELSE reports'[b][applied[b]]
    BY <1>2 DEF StatusWasReported
  <2>1. CASE b = a
    <3>1. applied[a] = 0 \/ applied[a] \in 1..n
      BY <1>1 DEF Inv, ReportShape, ReportsOf
    <3> QED BY <1>5, <2>1, <3>1 DEF Inv, StatusWasReported
  <2>2. CASE b # a
    BY <1>4, <2>2 DEF Inv, StatusWasReported
  <2> QED BY <2>1, <2>2
<1>10. AnsweredIsApplied'
  <2> SUFFICES ASSUME NEW b \in Attempts, NEW i \in 1..Len(reports'[b])
               PROVE  \/ <<b, i>> \in unanswered' \cup missed \/ applied[b] >= i
                      \/ b \in overlapped'
    BY <1>2 DEF AnsweredIsApplied
  <2>1. (b = a /\ i = n + 1) \/ i \in 1..Len(reports[b])
    BY <1>1, <1>4, <1>5
  <2> QED BY <1>2, <2>1 DEF Inv, AnsweredIsApplied
<1>11. Forward
  BY <1>2 DEF Forward, Inv, ReportShape, ReportsOf
<1> QED BY <1>6, <1>7, <1>8, <1>9, <1>10, <1>11 DEF Inv

LEMMA CallbackInv ==
    ASSUME Inv, NEW a \in Attempts, NEW i \in Numbers, Callback(a, i)
    PROVE  Inv' /\ Forward
<1>1. /\ <<a, i>> \in unanswered /\ Apply(a, i)
      /\ unanswered' \in {unanswered, unanswered \ {<<a, i>>}}
      /\ UNCHANGED <<run, reports, overlapped>>
  BY DEF Callback, worker
<1>2. i \in Nat /\ i \in 1..Len(reports[a]) /\ reports[a][i] \in Statuses
  <2>1. i \in Nat
    BY DEF Numbers
  <2>2. i \in 1..Len(reports[a]) /\ reports[a] \in Seq(Interim \cup Final)
    BY <1>1, <2>1 DEF Inv, Numbered, OpenOf, ReportShape
  <2> QED BY <2>1, <2>2 DEF Statuses
<1>3. Numbered' /\ unanswered' \subseteq Attempts \X Numbers
  BY <1>1 DEF Inv, Numbered, OpenOf
<1>4. CASE ~Matches(a)
  <2>1. missed' = missed \cup {<<a, i>>} /\ UNCHANGED <<row, applied>>
    BY <1>1, <1>4 DEF Apply
  <2>2. AnsweredIsApplied'
    BY <1>1, <2>1 DEF Inv, AnsweredIsApplied
  <2> QED BY <1>1, <1>3, <2>1, <2>2
          DEF Inv, RowShape, RunShape, Open, ReportShape, ReportsOf, StatusWasReported, Forward
<1>5. CASE Matches(a)
  <2>1. /\ row' = [row EXCEPT ![a].status = reports[a][i]]
        /\ applied' = [applied EXCEPT ![a] = i] /\ missed' = missed \ {<<a, i>>}
    BY <1>1, <1>5 DEF Apply
  <2>2. /\ row' \in [Attempts -> [known: BOOLEAN, status: Statuses]]
        /\ row'[a].known /\ row'[a].status = reports[a][i] /\ row[a].known
        /\ \A b \in Attempts \ {a} : row'[b] = row[b]
    BY <1>2, <1>5, <2>1 DEF Inv, RowShape, Matches
  <2>3. /\ applied' \in [Attempts -> Nat] /\ applied'[a] = i
        /\ \A b \in Attempts \ {a} : applied'[b] = applied[b]
    BY <1>2, <2>1 DEF Inv, ReportShape, ReportsOf
  <2>4. RowShape' /\ RunShape'
    BY <1>1, <2>2 DEF Inv, RowShape, RunShape, Open
  <2>5. ReportShape'
    <3>1. ReportsOf(a)'
      BY <1>1, <1>2, <2>2, <2>3 DEF Inv, ReportShape, ReportsOf
    <3>2. ASSUME NEW b \in Attempts \ {a} PROVE ReportsOf(b)'
      BY <1>1, <2>2, <2>3 DEF Inv, ReportShape, ReportsOf
    <3> QED BY <1>1, <2>3, <3>1, <3>2 DEF Inv, ReportShape
  <2>6. StatusWasReported'
    BY <1>1, <1>2, <2>2, <2>3 DEF Inv, StatusWasReported
  <2>7. a \in overlapped \/ i = Len(reports[a])
    BY <1>1, <1>2 DEF Inv, Numbered, OpenOf
  <2>8. Len(reports[a]) \in Nat
    BY DEF Inv, ReportShape, ReportsOf
  <2>9. AnsweredIsApplied'
    <3> SUFFICES ASSUME NEW b \in Attempts, NEW k \in 1..Len(reports[b])
                 PROVE  \/ <<b, k>> \in unanswered' \cup missed' \/ applied'[b] >= k
                        \/ b \in overlapped
      BY <1>1 DEF AnsweredIsApplied
    <3>1. CASE b = a
      BY <2>3, <2>7, <2>8, <3>1
    <3>2. CASE b # a
      BY <1>1, <2>1, <2>3, <3>2 DEF Inv, AnsweredIsApplied
    <3> QED BY <3>1, <3>2
  <2>10. Forward
    <3> SUFFICES ASSUME NEW b \in Attempts PROVE applied'[b] >= applied[b] \/ b \in overlapped
      BY DEF Forward
    <3>1. applied[b] \in Nat /\ applied[b] <= Len(reports[b])
      BY DEF Inv, ReportShape, ReportsOf
    <3> QED BY <2>3, <2>7, <3>1
  <2> QED BY <1>3, <2>4, <2>5, <2>6, <2>9, <2>10 DEF Inv
<1> QED BY <1>4, <1>5

LEMMA Step == Inv /\ [Next]_vars => Inv' /\ Forward
<1> SUFFICES ASSUME Inv, [Next]_vars PROVE Inv' /\ Forward
  OBVIOUS
<1>1. CASE UNCHANGED vars
  BY <1>1, Frame DEF vars
<1>2. ASSUME NEW a \in Attempts, CallbackStep(a) PROVE Inv' /\ Forward
  <2>1. ASSUME NEW i \in Numbers, CallbackFails(a, i) PROVE Inv' /\ Forward
    BY <2>1, Frame DEF CallbackFails, worker, provider, history
  <2> QED BY <1>2, <2>1, CallbackInv DEF CallbackStep
<1>3. ASSUME NEW x \in Processes, NEW p \in Providers, SwitchProvider(x, p)
      PROVE  Inv' /\ Forward
  BY <1>3, Frame DEF SwitchProvider, worker, provider, history
<1> QED BY <1>1, <1>2, <1>3, WorkerInv, ReportInv DEF Next, ProviderStep

LEMMA Invariant == Spec => []Inv
BY Initially, Step, PTL DEF Spec

(***************************************************************************)
(* The row of a message shows what was reported of this message, for any   *)
(* interleaving of workers, callbacks, faults and restarts.                *)
(***************************************************************************)
THEOREM ReportedStatus == Spec => []StatusWasReported
<1>1. Inv => StatusWasReported
  BY DEF Inv
<1> QED BY <1>1, Invariant, PTL

(***************************************************************************)
(* No report that was answered and matched is lost.                        *)
(***************************************************************************)
THEOREM AnsweredApplied == Spec => []AnsweredIsApplied
<1>1. Inv => AnsweredIsApplied
  BY DEF Inv
<1> QED BY <1>1, Invariant, PTL

(***************************************************************************)
(* Without overlapping reports no status is taken back.                    *)
(***************************************************************************)
THEOREM MovesForward == Spec => StatusMovesForward
<1>1. Forward => [\A a \in Attempts : applied'[a] >= applied[a] \/ a \in overlapped]_vars
  BY DEF Forward
<1> QED BY <1>1, Step, Invariant, PTL DEF Spec, StatusMovesForward

(***************************************************************************)
(* When the provider has all its answers, a row with the id shows the      *)
(* latest report: what FinalStatusRecorded promises of the end, of every   *)
(* state in which nothing is on its way.                                   *)
(***************************************************************************)
SettledIsLatest == \A a \in Attempts :
    row[a].known /\ reports[a] # <<>> /\ (\A i \in Numbers : <<a, i>> \notin unanswered)
    => \/ row[a].status = Latest(a) \/ <<a, Len(reports[a])>> \in missed \/ a \in overlapped

THEOREM SettledStatus == Spec => []SettledIsLatest
<1>1. Inv => SettledIsLatest
  <2> SUFFICES ASSUME Inv, NEW a \in Attempts, row[a].known, reports[a] # <<>>,
                      \A i \in Numbers : <<a, i>> \notin unanswered,
                      <<a, Len(reports[a])>> \notin missed, a \notin overlapped
               PROVE  row[a].status = Latest(a)
    BY DEF SettledIsLatest
  <2>1. /\ reports[a] \in Seq(Interim \cup Final) /\ Len(reports[a]) \in Nat \ {0}
        /\ applied[a] \in Nat /\ applied[a] <= Len(reports[a])
    BY DEF Inv, ReportShape, ReportsOf
  <2>2. <<a, Len(reports[a])>> \notin unanswered
    BY DEF Inv
  <2>3. Len(reports[a]) \in 1..Len(reports[a])
    BY <2>1
  <2>4. applied[a] >= Len(reports[a])
    BY <2>2, <2>3 DEF Inv, AnsweredIsApplied
  <2>5. applied[a] = Len(reports[a]) /\ applied[a] # 0
    BY <2>1, <2>4
  <2> QED BY <2>5 DEF Inv, StatusWasReported, Latest
<1> QED BY <1>1, Invariant, PTL

-----------------------------------------------------------------------------
(***************************************************************************)
(* The types, for which the invariant bounds what a row has taken by what  *)
(* was reported.                                                           *)
(***************************************************************************)
Reported == \A a \in Attempts : Len(reports[a]) <= MaxReports
TypeInv == TypeOK /\ Reported

LEMMA TypeInitially == Init => TypeInv
<1> SUFFICES ASSUME Init PROVE TypeInv
  OBVIOUS
<1>1. \A a \in Attempts : reports[a] = <<>> /\ Len(reports[a]) = 0
  BY DEF Init
<1>2. reports \in [Attempts -> Seq(Interim \cup Final)] /\ applied \in [Attempts -> 0..MaxReports]
  BY CallbackAssumption DEF Init
<1>3. Sent \in [known: BOOLEAN, status: {"created", "sent", "failed"} \cup Interim \cup Final]
      /\ None \in [known: BOOLEAN, status: {"created", "sent", "failed"} \cup Interim \cup Final]
  BY DEF Sent, None
<1> QED BY <1>1, <1>2, <1>3, CallbackAssumption DEF Init, TypeInv, TypeOK, Reported

LEMMA TypeStep == Inv /\ TypeInv /\ [Next]_vars => TypeInv'
<1> SUFFICES ASSUME Inv, TypeInv, [Next]_vars PROVE TypeInv'
  OBVIOUS
<1> USE CallbackAssumption DEF worker, provider, history, bounds, Goto, Fault
<1>1. CASE UNCHANGED vars
  BY <1>1 DEF vars, TypeInv, TypeOK, Reported
<1>2. ASSUME NEW a \in Attempts, WorkerStep(a) PROVE TypeInv'
  <2>1. CASE Flush(a)
    <3>1. setting["worker"] \in Providers
      BY DEF TypeInv, TypeOK, Processes
    <3> QED BY <2>1, <3>1 DEF Flush, TypeInv, TypeOK, Reported
  <2>2. CASE Accept(a)
    <3>1. PICK s \in Interim \cup Final : reports' = [reports EXCEPT ![a] = <<s>>]
      BY <2>2 DEF Accept
    <3>2. <<s>> \in Seq(Interim \cup Final) /\ Len(<<s>>) = 1 /\ 1 \in Numbers
      BY DEF Numbers
    <3>3. reports' \in [Attempts -> Seq(Interim \cup Final)] /\ Reported'
      BY <3>1, <3>2 DEF TypeInv, TypeOK, Reported
    <3> QED BY <2>2, <3>2, <3>3 DEF Accept, TypeInv, TypeOK
  <2>3. CASE Refuse(a)
    BY <2>3 DEF Refuse, TypeInv, TypeOK, Reported
  <2>4. CASE Commit(a)
    BY <2>4 DEF Commit, TypeInv, TypeOK, Reported
  <2>5. CASE WorkerCrash(a)
    BY <2>5 DEF WorkerCrash, TypeInv, TypeOK, Reported
  <2> QED BY <1>2, <2>1, <2>2, <2>3, <2>4, <2>5 DEF WorkerStep
<1>3. ASSUME NEW a \in Attempts, NEW s \in Interim \cup Final, Report(a, s) PROVE TypeInv'
  <2> DEFINE n == Len(reports[a])
  <2>1. reports[a] \in Seq(Interim \cup Final) /\ n \in Nat /\ n + 1 \in Numbers
    <3>1. reports[a] \in Seq(Interim \cup Final) /\ n \in Nat
      BY DEF TypeInv, TypeOK
    <3>2. CASE reports[a] = <<>>
      <4>1. n = 0
        BY <3>2
      <4> QED BY <3>1, <4>1 DEF Numbers
    <3>3. CASE reports[a] # <<>>
      <4>1. n < MaxReports
        BY <1>3, <3>3 DEF Report
      <4> QED BY <3>1, <4>1 DEF Numbers
    <3> QED BY <3>1, <3>2, <3>3
  <2>2. /\ Append(reports[a], s) \in Seq(Interim \cup Final)
        /\ Len(Append(reports[a], s)) = n + 1 /\ n + 1 <= MaxReports
    BY <2>1 DEF Numbers
  <2>3. reports' \in [Attempts -> Seq(Interim \cup Final)] /\ Reported'
    <3>1. reports' = [reports EXCEPT ![a] = Append(reports[a], s)]
      BY <1>3 DEF Report
    <3>2. reports' \in [Attempts -> Seq(Interim \cup Final)] /\ reports'[a] = Append(reports[a], s)
          /\ \A b \in Attempts \ {a} : reports'[b] = reports[b]
      BY <2>2, <3>1 DEF TypeInv, TypeOK
    <3>3. Reported'
      BY <2>1, <2>2, <3>2 DEF TypeInv, Reported
    <3> QED BY <3>2, <3>3
  <2>4. /\ UNCHANGED <<setting, sender, run, row, applied, missed, faults, switches>>
        /\ unanswered' = unanswered \cup {<<a, n + 1>>}
        /\ overlapped' \subseteq overlapped \cup {a}
    BY <1>3 DEF Report
  <2>5. unanswered' \subseteq Attempts \X Numbers
    BY <2>1, <2>4 DEF TypeInv, TypeOK
  <2> QED BY <2>3, <2>4, <2>5 DEF TypeInv, TypeOK
<1>4. ASSUME NEW a \in Attempts, NEW i \in Numbers, Callback(a, i) PROVE TypeInv'
  <2>1. i \in 0..MaxReports /\ i \in 1..Len(reports[a])
    BY <1>4 DEF Callback, Numbers, Inv, Numbered, OpenOf
  <2>2. reports[a][i] \in Interim \cup Final
    BY <2>1 DEF TypeInv, TypeOK
  <2>3. /\ row' = row \/ row' = [row EXCEPT ![a].status = reports[a][i]]
        /\ applied' = applied \/ applied' = [applied EXCEPT ![a] = i]
        /\ missed' \subseteq missed \cup {<<a, i>>}
    BY <1>4 DEF Callback, Apply
  <2> DEFINE Rows == [known: BOOLEAN, status: {"created", "sent", "failed"} \cup Interim \cup Final]
  <2>4. row' \in [Attempts -> Rows]
    <3>1. row \in [Attempts -> Rows]
      BY DEF TypeInv, TypeOK
    <3>2. [row[a] EXCEPT !.status = reports[a][i]] \in Rows
      BY <2>2, <3>1
    <3>3. row' = row \/ row' = [row EXCEPT ![a] = [row[a] EXCEPT !.status = reports[a][i]]]
      BY <2>3
    <3> HIDE DEF Rows
    <3> QED BY <3>1, <3>2, <3>3
  <2>5. applied' \in [Attempts -> 0..MaxReports]
    BY <2>1, <2>3 DEF TypeInv, TypeOK
  <2>6. missed' \subseteq Attempts \X Numbers
    BY <2>3 DEF TypeInv, TypeOK
  <2> QED BY <1>4, <2>4, <2>5, <2>6 DEF Callback, TypeInv, TypeOK, Reported
<1>5. ASSUME NEW a \in Attempts, NEW i \in Numbers, CallbackFails(a, i) PROVE TypeInv'
  BY <1>5 DEF CallbackFails, TypeInv, TypeOK, Reported
<1>6. ASSUME NEW x \in Processes, NEW p \in Providers, SwitchProvider(x, p) PROVE TypeInv'
  BY <1>6 DEF SwitchProvider, TypeInv, TypeOK, Reported
<1> QED BY <1>1, <1>2, <1>3, <1>4, <1>5, <1>6 DEF Next, ProviderStep, CallbackStep

(***************************************************************************)
(* Types: a row never takes a report that was not made.                    *)
(***************************************************************************)
THEOREM CallbackTypes == Spec => []TypeOK
<1>1. TypeInv => TypeOK
  BY DEF TypeInv
<1> QED BY <1>1, TypeInitially, TypeStep, Invariant, PTL DEF Spec
=============================================================================

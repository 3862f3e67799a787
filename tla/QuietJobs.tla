------------------------------ MODULE QuietJobs ------------------------------
(***************************************************************************)
(* MessageJobs by the clock: the policy's THROTTLE of a run is an answer   *)
(* of quiet_hours_violation, at the hour at which the run asks, or of the  *)
(* checks that come after it; the job's life goes on through the quiet     *)
(* hours while the retry_at of the answer is dropped.                      *)
(***************************************************************************)
EXTENDS MessageJobs, QuietHours

CONSTANTS
    CategoryOf,  \* category of a job: its template's, or its campaign's
    Windows,     \* pairs of settings.quiet_hours_start and _end
    Horizon      \* bound: hours the clock runs

ASSUME QuietAssumption ==
    /\ CategoryOf \in [Jobs -> Categories]
    /\ Windows \subseteq [start: Hours, end: Hours] /\ Horizon \in Nat

VARIABLES
    window,   \* the settings of the worker processes
    hour,     \* hours crossed some midnight
    crossed,  \* workers whose run has met a full hour
    verdict,  \* what quiet_hours_violation answered in this run, or Unasked
    counted   \* history: runs of a job that ended in _schedule_retry

clock == <<window, hour, crossed, verdict, counted>>
qvars == <<vars, clock>>

Unasked == [ok |-> FALSE, at |-> -1, retryAt |-> -1]
Promotional(w) == CategoryOf[worker[w].job] = "promotional"

QInit ==
    /\ Init /\ window \in Windows /\ hour = 0
    /\ crossed = {} /\ verdict = [w \in Workers |-> Unasked]
    /\ counted = [j \in Jobs |-> 0]

-----------------------------------------------------------------------------
\* RQ ends a run after 180 seconds, so that a run meets one full hour at most.
HourPasses ==
    /\ hour < Horizon /\ hour' = hour + 1
    /\ \A w \in crossed : At(w, "idle")
    /\ crossed' = {w \in Workers : ~At(w, "idle")}
    /\ UNCHANGED <<vars, window, verdict, counted>>

Counts(w) == counted' = [counted EXCEPT ![worker[w].job] = @ + 1]
Forget(w) == verdict' = [verdict EXCEPT ![w] = Unasked]

Take(w) ==
    /\ TakeJob(w) /\ crossed' = crossed \ {w}
    /\ UNCHANGED <<window, hour, verdict, counted>>

\* Suppression and consent come before the question, caps and duplicates after.
Blocked(w) ==
    /\ verdict[w] = Unasked /\ Block(w) /\ UNCHANGED clock
\* Variant: start and end are swapped.
AskSwapped(w) ==
    /\ At(w, "cleared") /\ verdict[w] = Unasked
    /\ verdict' = [verdict EXCEPT ![w] =
           Verdict([start |-> window.end, end |-> window.start], hour,
                   CategoryOf[worker[w].job])]
    /\ UNCHANGED <<vars, window, hour, crossed, counted>>
AskQuietHours(w) ==
    /\ At(w, "cleared") /\ verdict[w] = Unasked
    /\ verdict' = [verdict EXCEPT ![w] = Verdict(window, hour, CategoryOf[worker[w].job])]
    /\ UNCHANGED <<vars, window, hour, crossed, counted>>
Throttled(w) ==
    /\ verdict[w] # Unasked /\ Throttle(w) /\ Counts(w) /\ Forget(w)
    /\ UNCHANGED <<window, hour, crossed>>

\* Variant: the caps and the duplicate window decide.
PassedAnyway(w) ==
    /\ verdict[w] # Unasked /\ DupKeyAbsent(w) /\ Forget(w)
    /\ UNCHANGED <<window, hour, crossed, counted>>
Passed(w) ==
    /\ verdict[w].ok /\ DupKeyAbsent(w) /\ Forget(w)
    /\ UNCHANGED <<window, hour, crossed, counted>>

Failed(w) == RecordFailed(w) /\ Counts(w) /\ UNCHANGED <<window, hour, crossed, verdict>>
Crash(w) == WorkerCrash(w) /\ Forget(w) /\ UNCHANGED <<window, hour, crossed, counted>>

-----------------------------------------------------------------------------
QRunStep(w) ==
    \/ Take(w) \/ Blocked(w) \/ AskQuietHours(w) \/ Throttled(w) \/ Passed(w) \/ Failed(w)
    \/ (CheckCampaign(w) \/ SetDupKey(w) \/ FlushAttempt(w) \/ Deliver(w) \/ Refuse(w)
        \/ RecordSent(w)) /\ UNCHANGED clock
QTickStep == TickStep /\ UNCHANGED clock
QApiStep == ApiStep /\ UNCHANGED clock
QNext ==
    \/ \E w \in Workers : QRunStep(w) \/ Crash(w)
    \/ QTickStep \/ QApiStep \/ HourPasses
    \/ (\/ SubmitStep \/ RequestStep
        \/ \E d \in Dispatchers : DispatchInterrupted(d)
        \/ \E m \in Messages : DupKeyExpires(m)) /\ UNCHANGED clock
QSpec == QInit /\ [][QNext]_qvars

\* As in MessageJobs.
QFairSpec == /\ QSpec /\ WF_qvars(QTickStep) /\ WF_qvars(QApiStep)
             /\ \A w \in Workers : WF_qvars(QRunStep(w))
             /\ \A j \in Jobs : WF_qvars(EnqueueSubmitted(j) /\ UNCHANGED clock)

-----------------------------------------------------------------------------
(***************************************************************************)
(* The answer of a run in quiet hours names the first allowed hour after   *)
(* it.                                                                     *)
(***************************************************************************)
RetryAtIsNextAllowed == \A w \in Workers :
    verdict[w] # Unasked /\ ~verdict[w].ok => FirstAllowed(window, verdict[w])

(***************************************************************************)
(* No promotional message reaches the provider in quiet hours, however its *)
(* runs, retries and duplicates fall, except within the first of these     *)
(* hours, from a run that asked before it began.                           *)
(***************************************************************************)
QuietHoursKept ==
    [][\A w \in Workers, m \in Messages :
           inWindow'[m][w] > inWindow[m][w] /\ Promotional(w) /\ QuietAt(window, hour)
           => ~QuietAt(window, hour - 1) /\ w \in crossed]_qvars

(***************************************************************************)
(* A job is given up by an operator, or after a full budget of runs that   *)
(* were throttled or failed: no run is charged twice, whatever rows stale  *)
(* sessions write.  The quiet hours charge as a failure of the provider    *)
(* does.                                                                   *)
(***************************************************************************)
GivenUpAfterBudget == \A j \in live :
    row[j].status = "rejected" /\ j \notin reviewed => counted[j] >= RetryMax
=============================================================================

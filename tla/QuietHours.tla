----------------------------- MODULE QuietHours -----------------------------
(***************************************************************************)
(* quiet_hours_violation: promotional messages wait while the local hour   *)
(* lies in the configured window, and the answer names the time they may   *)
(* go out.  Times are whole hours of the local wall clock since some       *)
(* midnight: the code looks at datetime.hour only and sets minutes and     *)
(* seconds of retry_at to zero.                                            *)
(***************************************************************************)
EXTENDS Integers

Hours == 0..23
Categories == {"otp", "transactional", "promotional"}

HourOf(t) == t % 24
Midnight(t) == t - HourOf(t)

InQuiet(start, end, hour) ==
    IF start > end THEN hour >= start \/ hour < end
                   ELSE start <= hour /\ hour < end

NextAllowed(start, end, t) ==
    Midnight(t) + end + IF HourOf(t) >= start /\ start > end THEN 24 ELSE 0

\* The window w is a pair of settings.quiet_hours_start and _end.
Pass == [ok |-> TRUE, at |-> 0, retryAt |-> 0]
Verdict(w, t, category) ==
    IF category \in {"otp", "transactional"} \/ ~InQuiet(w.start, w.end, HourOf(t))
    THEN Pass
    ELSE [ok |-> FALSE, at |-> t, retryAt |-> NextAllowed(w.start, w.end, t)]

\* What a refusal must be: the retry_at is the first hour after it that is not
\* quiet, for windows within a day, across midnight, or empty.
QuietAt(w, t) == InQuiet(w.start, w.end, HourOf(t))
FirstAllowed(w, v) ==
    /\ v.at < v.retryAt /\ v.retryAt - v.at <= 24
    /\ \A t \in v.at .. (v.retryAt - 1) : QuietAt(w, t)
    /\ ~QuietAt(w, v.retryAt)
=============================================================================

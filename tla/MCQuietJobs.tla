---------------------------- MODULE MCQuietJobs ----------------------------
(* A promotional job and a transactional one across the begin and the end  *)
(* of quiet hours; and every pair of hours as the window, for two days.    *)
EXTENDS QuietJobs, TLC

CONSTANTS c1, j1, t1, m1, w1

MCCampaignOf == t1 :> NoCampaign @@ j1 :> c1
MCMessageOf == [j \in Jobs |-> m1]
MCCategoryOf == t1 :> "transactional" @@ j1 :> "promotional"

\* Bound: one request or one crash; t1 is beside j1 before either, where every
\* tick raises on its backoff while j1 is queued, and alone beside a crash.  Only
\* requests, crashes and a submission lead out of it, and none of them is fair,
\* so that it cuts off no behaviour in which they do not happen.
OneDisturbance ==
    /\ ops + crashes <= 1
    /\ t1 \in fresh \/ ops + crashes = 0 \/ (live = {t1} /\ ops = 0)

\* Hours 0, 1 and 2 are quiet, allowed and quiet.
MCWindows == {[start |-> 2, end |-> 1]}

ASSUME EveryWindow ==
    \A w \in [start: Hours, end: Hours], t \in 0..47 :
        LET v == Verdict(w, t, "promotional") IN ~v.ok => FirstAllowed(w, v)
=============================================================================

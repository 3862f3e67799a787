--------------------------- MODULE MCMessageJobs ---------------------------
(* Instances of MessageJobs: jobs of one campaign and transactional jobs. *)
EXTENDS MessageJobs, TLC

CONSTANTS c1, j1, t1, m1, w1, w2

OneJob == {j1}
TransactionalJobs == {t1}

\* Bounds of WorkerRace.cfg: one request or one crash, and both beside a paused
\* campaign, whose pause then meets two entries of the job and two workers past
\* the check; the second job only while there is neither; two runs at a time
\* only of jobs on their first try.
OneInterruption == ops + crashes <= 1 \/ (live = {j1} /\ campaign[c1] = "paused")
TwoJobsUndisturbed == Cardinality(live) = 2 => ops + crashes = 0
FirstTriesRace == (\A w \in Workers : worker[w].pc # "idle")
                  => \A w \in Workers : worker[w].snap.retries = 0
\* RejectedJob.cfg: the policy lets every run pass, so that a job is given up by
\* errors of the provider, with the alert of messaging.py:81.
PolicyAllows == \A w \in Workers : At(w, "cleared") => worker'[w].pc # "idle"

SymmetricWorkers == Permutations({w1, w2})

MCCampaignOf == [j \in Jobs |-> IF j \in TransactionalJobs THEN NoCampaign ELSE c1]

\* Every job sends the same text to the same phone: the worst case for the
\* duplicate window.
OneMessage == [j \in Jobs |-> m1]
=============================================================================

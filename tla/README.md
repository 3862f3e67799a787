# Verification of email-sms

TLA+ models of the messaging platform under `src/`, the TLC configurations that
check them on small instances, and TLAPS proofs of the results that matter most
for every value of the constants. Everything is translated from the Python code;
the line references below are relative to `src/`. `PROJECT.json` maps each
definition to the lines it stands for.

## 1. The system

The platform sends SMS to customers, once per request ("transactional") or for a
campaign, under consent, quiet-hour and frequency rules.

| part | where | state it keeps | operations |
|---|---|---|---|
| API: intake | `apps/api/routes/messages.py`, `packages/services/messaging.py:11-22` | `MessageEvent` (unique `request_id`), `MessageJob` | `send_transactional` → `enqueue_transactional_message` |
| API: administration | `apps/api/routes/admin.py`, `packages/services/admin_dashboard.py` | `Campaign`, `MessageJob`, `ReviewAction` | approve/pause, dispatch a batch, approve/reject/retry a job, dashboards |
| API: audience | the same files | `Segment`, `SegmentMember`, `CampaignMember`, the campaign's `MessageJob` rows | create a segment or campaign, generate its members |
| API: consents | `apps/api/routes/consents.py`, `packages/services/consents.py` | `Consent` | `create_consent` |
| scheduler | `apps/scheduler/main.py`, `packages/services/scheduler.py` | `batch_locked` flags, queue entries | `run_scheduler_tick` every few seconds |
| worker | `apps/worker/worker.py`, `packages/services/messaging.py:24-83` | `MessageJob`, `MessageAttempt` | `send_message_job`, `_schedule_retry` |
| policy | `packages/services/policy_engine.py`, `packages/services/rate_limits.py` | Redis counters, cooldown and duplicate keys | `evaluate_message_policy` |
| webhook | `apps/webhook/routes/*.py`, `packages/services/twilio_webhooks.py` | `InboundMessage`, `Suppression`, attempt status | inbound replies, status callbacks |
| authentication | `apps/api/routes/auth.py`, `packages/auth/*` | `AdminUser`, `UserSession`, `AuthAuditLog`, Redis `login_attempt:*` | login, refresh, logout, change password |
| operator commands | `scripts/manage_users.py` | the same rows, from another process | create, unlock, reset-password, deactivate |
| passwords | `packages/auth/password.py`, `packages/schemas/auth.py` | none | what a new password must have |
| providers | `packages/providers/*`, `*_adapter.py` | none | one call of an external service |
| admin UI | `apps/admin_ui/app.js` | token, page and lists of one tab | sign-in, navigation, buttons, refresh, logout |
| migrations | `migrations/versions/*` | the tables, before anything runs | upgrade, downgrade |
| nginx, deployment checks | `infra`, `scripts/validate_deployment.py` | none | – |

**Interaction.** PostgreSQL is shared by all processes; Redis holds the RQ queue
`outbound_messages` and the policy's keys. A job row is committed first and its
id queued after that (`messaging.py:20-21`); the scheduler queues first and
commits its lock after that (`scheduler.py:18-26`). Workers call the policy,
which reads PostgreSQL and Redis command by command, and then the provider. The
provider calls the webhook back, at least once.

**What is hard.** Nothing here is one transaction: a run of `send_message_job`
spans several queries, half a dozen Redis commands and a remote call. Two
workers, the scheduler, an operator and a customer's STOP interleave with it.
SQLAlchemy writes only the columns that changed against what the session loaded,
so two writers of one row mix their columns. A process may end between any two
steps, and the order of commit and enqueue decides what is lost or doubled. The
hazards are listed, each at its line, in `PROJECT.json`.

**What makes each part correct.**

* jobs: a worker delivers a text once per window; no job is stranded behind its lock; a
  status "sent" is backed by an attempt; budget counts go up, and a job is given
  up only when they are spent; history is kept; a paused campaign stops;
* status callbacks: a row shows what was reported of its own message, and what
  was answered is neither lost nor taken back;
* audience: what a campaign writes to is one whole generation of its segment,
  and nobody without the consent it asks for;
* intake: one job for each key, and answers that are true;
* policy and webhook: a STOP takes effect, is never rolled back, and is followed
  by no more than what was already past its check; caps hold per window; one
  password per cooldown; quiet hours are kept and end when they say;
* authentication: enough failures lock the account, whatever else is written;
  every lock ends; a deactivated user gets no more tokens; once a revocation is
  committed, old passwords keep no sessions;
* admin UI: no page without the token or for another role; a button's effect is
  in what its own handler renders; a loaded tab shows something.

## 2. Modules

| module | models | composed or checked by |
|---|---|---|
| `MessageJobs` | the life of a job between API, scheduler, workers, operators and queue | `MCMessageJobs`; `MessageJobsProofs` |
| `QuietHours` | `quiet_hours_violation` over a clock of hours, as operators | `QuietJobs` |
| `QuietJobs` | `MessageJobs` with the quiet hours and a clock; implements `MessageJobs` | `MCQuietJobs`; `MessageJobsProofs` |
| `StatusCallbacks` | the status of an attempt between worker, provider and webhook | run directly; `StatusCallbacksProofs` |
| `IdempotentAccept` | abstract: a key is accepted once, and answers follow the acceptance | refined by `Intake` |
| `Intake` | `enqueue_transactional_message` under concurrent requests | `MCIntake`; `IntakeProofs` |
| `OptOut` | the worker's suppression and consent checks against inbound replies | `Audience`; `OptOutProofs` |
| `Audience` | `OptOut` with segments, campaigns and their jobs; implements `OptOut` | `MCAudience`; `OptOutProofs` |
| `Admission` | abstract: a message takes a place in each of its windows at once | refined by `RateLimits` |
| `RateLimits` | `check_global_caps` and `check_user_frequency`, command by command | `MCRateLimits`; `RateLimitsProofs` |
| `LoginThrottle` | attempts per address, failures and lock per account, the unlock command | run directly; `LoginThrottleProofs` |
| `AuthSessions` | users, tokens, sessions, audit rows, password changes, deactivation | `MCAuthSessions`; `AuthSessionsProofs` |
| `AdminUi` | one tab of the admin interface with overlapping handlers | run directly; `AdminUiProofs` |
| `Passwords` | the password score and who asks for it, as operators | `MCAuthSessions`; `AuthSessionsProofs` |
| `Migrations` | the tables, keys and order of both migrations | `MCAudience` |

One action is one stretch of code between two points at which another process
can see or change what it shares: a query or a commit in PostgreSQL, a Redis
command, a call of the provider. A definition whose comment begins "Variant:" is
a plausible mistake in the code of the definition that follows it. No
specification uses it; put in the place of that definition it must break a
property, which shows that the property depends on that code. `PROJECT.json`
pairs them under "mutants".

### MessageJobs

`row[j]` holds the columns that decide something: `status`, `retry_count`,
whether `next_retry_at` is set, `batch_locked`. `review_status` is written with
`status` and read by the dashboards only. `Updated(c, s, n)` is SQLAlchemy's
UPDATE: columns whose new value differs from the loaded `s`, over the current
`c`. `Commit` leaves the table alone when the row is deleted (`StaleDataError`).

* `SubmitTransactional`, `EnqueueSubmitted`, `SubmitInterrupted`: the API's
  commit, its enqueue, and the end of the process or of Redis between them.
* `TakeJob` ... `RecordFailed`: one worker. `TakeJob` loads row and snapshot;
  the campaign check, the policy's outcomes (`Block`, `Throttle`), `EXISTS` and
  `SETEX` of the duplicate key as two steps, the flush of the attempt (which
  locks the job's key, or fails if the row is gone), the provider's answer, and
  one commit at the end.
* `TickBegin`, `TickBatch`, `TickRetries`, `Mark`, `TickRaises`,
  `DispatchCommit`, `DispatchInterrupted`: the scheduler. Entries reach Redis
  one by one while the locks wait for the commit. `TickRaises` is what
  `scheduler.py:22` does with a `next_retry_at`: it compares a time with a zone
  to one without, which is a `TypeError`; the process ends and is restarted.
* `TriggerBatch`, `UpdateCampaignStatus`, `GenerateCampaignMembers`,
  `ApprovePausedJob`, `RejectPausedJob`, `RetryJobNow`: operator requests.
  They are modelled as service functions; see AuthSessions for what presently
  keeps a request from reaching them.
* `WorkerCrash`: the work horse ends, RQ files the entry under failed jobs and
  nobody runs it again.
* `DupKeyExpires`: the key lives for 60 minutes, a run for 180 seconds at most
  (RQ's default timeout), so that a run does not outlive the key it set.

History variables count each worker's deliveries per window (`inWindow`) and of a
campaign after its pause (`late`), and remember the jobs whose entry a crash dropped
(`lost`).

### Intake and IdempotentAccept

Statement by statement: look up the event, flush it (waiting for a transaction
that holds the key, `IntegrityError` if it commits), look up the template,
commit, enqueue, answer. A failed enqueue (`EnqueueFails`) may have left its entry: a
Redis client can time out after the push. The handler is a plain `def` and runs in a pool of
threads, so requests do interleave. The abstract specification accepts a key in
one step; the refinement maps `acceptedBy` to the event's request.

### OptOut

`HandleReply` is the inbound callback, one transaction. Redelivery fails on the
unique message id and rolls back (`HandleDuplicate`); a callback without an id
(`Anonymous`) is taken as new. Whether the answer reaches the provider is a
choice. `HandleMisread` is the same handler for a reply it does not understand: in
another provider's format neither id nor text is found (`base.py:37-45`,
`plivo.py:31-32`), and a STOP is answered OK and lost; a number spelled in another
way than the jobs spell it, say without its plus, is suppressed as it was sent, and
the policy never looks that spelling up. `misread` remembers the replies no delivery
of which was understood; `StopIsKept` and `StopTakesEffect` except them, and only
them. A run of the worker reads the suppression, then the consent, then sends or is
throttled; `lateBy` counts messages sent to a phone already suppressed. The bodies
of replies are represented by their intent.

### Audience

`OptOut` with the dashboard's side. `GenerateSegmentMembers` deletes the old
members and runs the join; `CheckMember` is the query of one phone's consent;
`CommitMembers` ends the one transaction, and `GenerationInterrupted` undoes it.
The handlers are `async def` that never await, so that two requests of the
dashboard do not overlap (`NoRequest`), while consents, replies and workers go
on between the queries. `GenerateCampaignMembers` replaces audience and jobs
(`round` counts the sets) and fails on a job that an attempt refers to.
`StartJob`, `CheckPolicy`, `NotSent` and `Sent` are the runs of `OptOut` for such
a job. `eligible` is narrower than `consented`: the segment asks for a marketing
or transactional consent of the phone's own customer, the policy for any.
What reviews, retries and batches do to a job is in `MessageJobs`.

### QuietHours and QuietJobs

`QuietHours` is all arithmetic of `rate_limits.py:33-46` over the hours of local
time, windows over midnight and empty windows included. The code looks at the
hour only and clears minutes and seconds of `retry_at`. `FirstAllowed` says
without cases what a refusal must name: an hour ahead, every hour up to it
quiet, itself not.

`QuietJobs` puts the question between the campaign check and the duplicate
window of each run (`AskQuietHours`), while `HourPasses` moves the clock, at most
one full hour in a run (RQ ends a run after 180 seconds). A throttled run goes
through `_schedule_retry` of `MessageJobs`, which drops the `retry_at`.

### StatusCallbacks

`Flush`, `Accept`, `Refuse` and `Commit` are the end of a run: other processes see
id and status of the attempt with the commit only. `Report` is the provider, and
`Callback` the handler of both status routes, which does not yield between query
and commit. A callback is repeated until it is answered 200. `Understood` says
whether the webhook process, configured for one provider, finds id and status in
the payload of another (`SwitchProvider`); the Twilio route reads Twilio's always.
It is never true of Telnyx: the id is read inside of `data`, the status outside
(`telnyx.py:25-26`), so that the callback finds its row, writes nothing
(`provider.py:48`) and is answered.
A Twilio callback without `MessageSid`, which would match attempts without an id,
is left out: Twilio names the message in every callback.

### RateLimits and Admission

`INCR` and `EXPIRE` of each counter, the comparison with the cap after all of a
family are incremented, and the cooldown's `EXISTS` and `SETEX`. A key's window
is fixed when the worker reads the clock, so a worker may stall and count in an
hour that has ended; `MaxStall` bounds that stall by the margin by which a
counter outlives its window. The hour's margin in the code is 100 seconds
(3700 − 3600), and the run is killed by RQ after 180 seconds: a worker that
stalls for more than 100 seconds between the two is excluded by assumption.

`Admission` has no counters: a message takes a place in every window it falls
into, in one step, and only while each has one left. The refinement maps its
places to `passed`, the messages let through per window, and not to the counters,
which count the refused as well. The windows of one message may be of two
readings of the clock (`Demand`): the global caps and the user's each take their
own (`rate_limits.py:50` and `:63`).

### LoginThrottle

The API is one uvicorn process and `login` is an `async def` that never awaits
once its body was read: logins are sequential, while time, Redis and
`manage_users.py unlock` are not. `GET` and `INCR`/`SETEX` of the counter are two steps.
`locked_until` is the time left. `Failed` and `Cleared` write only what differs
from what was loaded, which is why `unlock` and `login` can mix their columns.
`CountFails` is a Redis that does not answer (attempts are let through),
`Abandon` a failed commit or the end of a process.

### AuthSessions

A token carries its id, kind and time left; the session row says whether it was
revoked. `Audit` is `log_event`: its commit also commits the sessions or the
revocation that wait in the same SQLAlchemy session, and its rollback takes them
with it while the handler goes on. `version` numbers a user's passwords; each
session remembers the one it was opened with (a refresh inherits it). `swept` is
history: the password that was current when the last revocation of all of a user's
sessions was committed (`Sweep`), by a change of the password or a logout of all
sessions. A revocation that fails and the command line's reset leave sessions of
older passwords; `OldSessionsEnd` says that the next committed one ends them for
good, with all that was refreshed from them.
`CreateUser` is the command that adds a user; nobody else can. Whom
`require_roles` lets in is `Granted` of `AdminUi`. `SessionLookup` is TRUE when
`packages.db.models` defines the `UserSession` that `dependencies.py:38` imports. At this commit it does not, and every request that
needs `get_current_user` is a 500 that changes nothing: with `FALSE` the actions
`Logout` and `ChangePassword` are never enabled, and the behaviours are among
those of `TRUE`. The run uses `TRUE`; the theorems hold for both.

### AdminUi

One browser tab: `state.auth`, the `localStorage`, the page, the lists and the one
element that is rendered. `handler[h]` is a handler that waits: a sign-in, a
button or `init`, each with its request and then `refreshAll`, whose six requests
are answered one by one and assigned together (`Refreshed`). In between other
clicks are handled. `Fail` is a request that fails anywhere: nobody catches it for
a button, the sign-in renders the error, `init` forgets the token. At this commit
`dependencies.py:38` makes every request but the sign-in fail, which is one of the
behaviours. The role a page is opened for and the role a button needs are taken
from `canAccess` and `require_roles`; `GrantedIsReachable` relates the two.

### Passwords and Migrations

Both are functions of their input with nothing to interleave: operators with
`ASSUME`s that the runs `sessions` and `audience` evaluate. For `Passwords`
these are the passwords of up to 18 characters (`ShortPasswords`), and
`AuthSessionsProofs` proves the same predicates for every length: which lengths
and classes the score of 60 lets pass (`StrongMeans`), that the API's own
validator is the stricter one (`ApiIsStricter`), and that more is never weaker
(`ScoreGrows`, `FullScore`). `Migrations`: each table is created after and
dropped before those it refers to (`CreatedInOrder`, `DroppedInOrder`), and the
keys by which the handlers of the other modules are refused exist
(`RefusedDeletes`, `RefusedRows`).

## 3. Runs

| run | instance | checks |
|---|---|---|
| `worker_race` | a campaign job and a transactional one with the same text, two workers, two tries, one operator request or crash, or a pause and a crash | `AtMostOneDeliveryPerWindow`, `PauseStopsCampaign`, `HistoryKeepsItsJob` |
| `quiet_jobs` | a promotional job beside a transactional one, one worker, two tries, one operator request or one crash, three hours of which the first and the last are quiet, fair scheduling; all 576 windows over two days | `TypeOK`, `SentIsRecorded`, `QueuedJobIsCarried`, `RetryAtIsNextAllowed`, `GivenUpAfterBudget`, `RetriesCountUp`, `QuietHoursKept`, `QueuedJobIsTakenUp` |
| `status_callbacks` | a message under way and one sent through Twilio before, two reports each, two faults, three providers, Telnyx among them, and one change | `TypeOK`, `StatusWasReported`, `AnsweredIsApplied`, `StatusMovesForward`, `FinalStatusRecorded` |
| `intake` | three requests on one key, one on another, one crash | `OneJobPerKey`, `QueuedIsTrue`, `EveryRequestEnds`, `Accepts` |
| `audience` | two phones that reply STOP, one delivery misread or its answer lost, one segment, one campaign that the policy does not ask, two generations, one worker, two runs | `OneLateMessagePerWorker`, `StopIsKept`, `AudienceIsOneGeneration`, `CampaignReachesConsented`, `StopTakesEffect` |
| `rate_limits` | two workers, three evaluations, hour of two ticks, day of four | `CapsHold`, `OneOtpPerCooldown`, `AdmittedAtOnce` |
| `login_throttle` | two addresses, one account, three attempts, three failures | `LockedAfterFailures`, `LockIsTimed`, `LockLifts` |
| `sessions` | one user, five token ids, two password changes, two failed commits | `OneLateHandOut`, `SessionsAreAudited`, `OldSessionsEnd` |
| `admin_ui` | two users of different roles, two handlers at a time, two lists, two changes, two loads | `TypeOK`, `ShownHasToken`, `OwnPages`, `BlankIsLoading`, `ShowsItsChange`, `LoadEnds` |
| `scheduled_retry` | one transactional job | violates `ScheduledRetryHappens` |
| `rejected_job` | one campaign job that the policy lets pass, no operator | violates `RejectedJobIsNotSent` |
| `limit_ends` | one address | violates `LimitEnds` |

**Why the bounds are enough.** Two tries stand for five: the budget's last try
and one before it are what `_schedule_retry` tells apart. One operator request
reaches every operator action in every state of the job. `MaxQueue` of two lets
a second entry of the same job exist, which is what aborted ticks produce. All
jobs send the same text to the same phone, the worst case for the duplicate
window. Three state constraints keep `worker_race` small: one request or one
crash, and both where the campaign is paused (`OneInterruption`), the second job
only without either (`TwoJobsUndisturbed`), and two runs at a time of jobs on
their first try (`FirstTriesRace`). A crash that leaves a second entry of the job,
and a pause that finds both entries with workers past the check, are among what is
left: each of the two delivers its one late message. `OneDisturbance` does the same
for `quiet_jobs`: a request or a crash, and the transactional job beside the
promotional one until either, so that `TickRaises` happens on its backoff while the
other waits in the queue. Only steps that are not fair lead out of it, so that its
liveness is not weakened. The action constraint of `rejected_job` lets the policy
pass every run, so that its trace is one of errors of the provider. The
proofs know none of these. Three hours with a quiet, an allowed and a quiet one have both ends of
the window; the arithmetic of all windows is an `ASSUME` of the same run. Two
reports are an interim and a final one, which is what can be taken back; two
faults lose an answer and fail a commit. Three requests on a key allow one that
wins, one that waits at the index and one that looks the event up. Two
generations of a segment, or one of the segment and one of the campaign, are what
an audience can mix; one worker gets past its check before a STOP. The campaign of
`audience` has the category that the policy lets pass without a consent, so that only
its segment keeps it from whom it may not reach; `CampaignsReach` covers every
category. A delivery that is misread or whose answer is lost, or both, may be
followed by one that is understood. Three failures
stand for five and a lock of two ticks for fifteen minutes: the first, the last
and one between. Five ids let a login be followed by a second one and a refresh,
on both sides of a password change. Two lists can be read before and after a
change, and two handlers are what can overtake each other; a reviewer and an
admin differ in the page `segments`. Two workers are what a race of `EXISTS` and
`SETEX` needs; the proofs cover any number. `worker_race` has them; `quiet_jobs`
has one, as docker-compose starts it. `RetriesCountUp` is about that one: of two
workers with the same job, the slower may write its older count over a newer one.

**Where the system may stop.** `Intake` ends when every request was served.
`StatusCallbacks` ends when everything was reported and answered.
`RateLimits` ends at the horizon of its clock, `AuthSessions` when its ids are
used up; both are bounds of the model.

**Fairness.** `MessageJobs` and `QuietJobs`: the worker's loop, the scheduler's
`while` loop (restarted when it dies), a request that is being served, and the
enqueue after the commit. Crashes, operators, throttling in particular, expiry
and the clock are never fair; no liveness relies on a crash not happening beyond
its bound. `Intake`: a thread that serves a request goes on. `OptOut`, `Audience`
and `StatusCallbacks`: the provider, which is not part of the repository,
delivers a reply or a report until it gets an answer. `LoginThrottle`: only that
time passes. `AdminUi`: a request of the browser is answered or fails.

### Disagreements with what the repository says

Three runs show what the code does against what its own text promises.

* `scheduled_retry`: the alert says "scheduled for retry" (`messaging.py:65`).
  The second loop of the tick is the only one that reaches a transactional job,
  and it raises on the `next_retry_at` that the retry wrote (`scheduler.py:22`):
  the job is never queued again. The raise also undoes the locks of every other
  job of that tick, whose entries stay in the queue.
* `rejected_job`: the alert says "failed permanently" (`messaging.py:81`). In the
  trace a first run fails and schedules the retry; ticks enqueue the job and then
  raise on its backoff, so that two entries are left; the run of the first is the
  last retry, fails and rejects the job; that of the second hands it to the
  provider, since it does not look at the status it loads (`messaging.py:45`).
* `limit_ends`: "wait 5 minutes before retrying" (`SECURITY.md:364`). A counter
  that expires between `GET` and `INCR` comes back without an expiry
  (`security.py:36`); once at the limit it stays there.

Others were met while reading and need no interleaving, or follow directly from
one line; they are noted here without a run:

* `messaging.py:65` again, of a campaign job: a tick queues it before it commits the
  job's lock (`scheduler.py:18-26`). A worker that takes the entry in between loads
  an open lock, so that scheduling the retry does not write that column, and the
  lock is committed over the retry. The tick's first loop skips the locked job and the
  second raises at its time: without an operator it is never sent.
  `QueuedJobIsCarried` is about jobs that say "queued" for that reason.
* `provider.py:86` answers STOP with "No further messages will be sent"; a run
  past its check still sends one (bounded by `OneLateMessagePerWorker`). Of a number
  spelled in another way than the jobs spell it (`plivo.py:31-32`) the same answer is
  given and the phone is not suppressed; a STOP in another provider's format is
  answered OK (`provider.py:93`). Both are `HandleMisread`.
* `provider.py:52` answers a Telnyx report `{"ok": True, "matched_attempt": True}`
  and records nothing of it (`Understood` of `StatusCallbacks`).
* `twilio_webhooks.py:67` speaks of resuming after a re-subscription; no code
  takes a phone off the suppression list.
* `SECURITY.md:31` speaks of five failures; the count is kept when a lock
  passes (`security.py:75`), so one further failure locks again.
* `SECURITY.md:26` says a password change revokes all sessions; `reset-password`
  on the command line revokes none (`manage_users.py:140`), and the change's own
  revocation is a second commit that may fail (`auth.py:310`).
* `SECURITY.md:38` says each login creates a session; when the audit commit
  fails the tokens are handed out without one (`audit.py:39-41`).
* `SECURITY.md:41` says logout revokes the session; `dependencies.py:38` imports
  a class from a module that does not define it, so logout is a 500. The admin
  UI's logout (`app.js:231`) does not ask for it either: it forgets the token.
* `SECURITY.md:23` asks for upper and lower case, digits and special characters;
  the prompts take what scores 60 (`password.py:48`), any two classes from 16
  characters on and upper with lower case from 12, and `--password` any 12
  characters (`StrongMeans` of `Passwords`).
* `app.js:124` says "Requires marketing consent"; the generation is content with
  a transactional one (`admin_dashboard.py:66`).
* `validate_deployment.py:9` imports `AdminUser` from `packages.db.models`, which
  does not define it: the script cannot start.
* `001_add_auth_tables.py` says "Revises: None" in its docstring and revises 0001
  in `down_revision`.

## 4. Proofs

All theorems hold for every value of the constants that meets the module's
named ASSUMEs, which the runs evaluate. Each invariant is proved by an
induction over the actions, one step per action, and a final temporal step.

* **MessageJobsProofs.** `TypeCorrect`; `HistoryKept`, whose induction needs that
  a delivered job has an attempt, is unrecorded, or is held by a worker whose
  open transaction keeps the row from being deleted; `DeliveredOnce`: each worker
  delivers a text at most once per duplicate window, for any workers, jobs,
  retries, crashes and ambiguous answers of the provider, so that with one worker
  nothing is sent twice. Its induction (`WindowInv`) needs that a delivery is
  counted only under its key, and that a worker which found the key absent, or has
  set it and not called the provider yet, has not delivered in this window.
  `SentRecorded`: a commit writes "sent" with its attempt, and no other writes
  what it did not load changed. `PausedStops` (`PauseInv`): while a campaign is not
  approved, no worker gets past its check, and one that is past it has sent no late
  message of the campaign yet. `QueuedCarried`
  (`CarryInv`): no step writes "queued" again, so that a worker with a queued job
  has loaded "queued" and its commit writes the outcome; a job that says "queued"
  is held by somebody, or is unlocked and no open session is about to lock it;
  keys of deleted jobs are not used again. `RetriesCounted` is
  for at most one worker, as the property is. The second half of the module is
  about `QuietJobs`. `Implements`: every step of `QuietJobs` is one of
  `MessageJobs` or leaves its variables alone, so that the theorems above hold
  under the quiet hours too. `RefusalsAreExact`: arithmetic over all pairs of
  hours, then the invariant that every verdict is one of these. `QuietKept`: a run
  on its way to the provider has asked in an allowed hour and met one full hour at
  most (`PassedInTime`). `BudgetSpent`: a job's row and every session's snapshot of
  it count no more than the runs that were charged (`BudgetInv`), and only an
  operator or a full count rejects it, for any number of workers.
* **StatusCallbacksProofs.** `CallbackTypes`, `ReportedStatus`, `AnsweredApplied`
  and `MovesForward`, all from one invariant: rows and runs have their shape (a row
  with an id is committed), reports are numbered, and what is unanswered of a
  message that is not in `overlapped` is its last report. `SettledStatus` is what
  safety there is in `FinalStatusRecorded`: once everything was reported, understood
  and answered, the row shows the last report; that this state is reached is left
  to TLC.
* **IntakeProofs.** `KeyAcceptedOnce`, `AnswersAreTrue` and the refinement
  `IntakeAccepts`: initial states map to initial states and every step to a step
  of `IdempotentAccept` or a stutter. The invariant says that at most one thread
  per key holds the flushed event, and none once the event is committed.
* **OptOutProofs.** `OptOutTypes`; `LateMessagesBounded`: a
  worker past its suppression check has sent no late message to its phone yet;
  `StopsAreKept`: what exempts a reply is that no delivery of it was understood, and
  a repeat that is misread does not make it so. `AudienceImplements`: `Audience` implements `OptOut`, so both hold
  of campaigns. `AudienceChosen` (`RowInv`): the open generation owes no more than
  what it has chosen or still has to look at, consents only grow, and members and
  audience are each the whole of one generation. `CampaignsReach` adds what a
  worker's job and its place in the run say of its phone (`RunInv`).
* **RateLimitsProofs.** `RateLimitTypes`; `CooldownKept`: each worker lets one
  password pass per cooldown; `CapsAreKept`: the
  counter of a window is an upper bound of the messages let through in it for as
  long as a worker may still count there. It needs the assumption that counters
  outlive their window by the stall. `AdmitsAtOnce`: `RateLimits` implements
  `Admission`. What a worker has counted and what it still has to count are
  together the windows of the message (`AdmitInv`), so the step that lets it
  through takes a place in just these; that each had one left is `CapsHold` of the
  state after the step.
* **LoginThrottleProofs.** `LockTypes`, which needs that a counter just read is
  below the limit (`CountRead`); `LockHolds`, whose invariant relates the row to
  the history (`RowCounts`), what login and unlock have loaded to the row
  (`ReadCounts`), and the time left to the time since the last failure
  (`LockRuns`). `LocksEnd`: `is_locked` beside no `locked_until` is a lock for ever
  (`security.py:62`), and two writers that each write the columns they changed might
  part the two. They do not (`TimedInv`): whoever clears a row has either read it as
  locked and so writes that column, or read it as open, and then nobody else locks it
  before the commit.
* **AuthSessionsProofs.** `SessionTypes`, which includes that only users that were
  created act; `LateHandOuts`; `OldSessions`, from
  "the session of a live token belongs to its user" (`SessionOfToken`) and "no
  active session, nor the request being served, is of a password older than the one
  of the last committed revocation" (`SweptInv`): a refresh hands on what its own
  session had, and `version` only grows;
  `AuditedSessions`, a cardinality that each handler moves by one. `StrongPasswords`,
  `ApiPasswords` and `ScoreMonotone` are the predicates of `Passwords` for every
  length.
* **AdminUiProofs.** `TabTypes`; `PageNeedsToken` and `PageIsOwn`: token and stored
  copy are always assigned together, and what is rendered is rendered from the token
  of that moment. `BlankEnds`: an empty page is one whose `init` is still waiting
  for its lists. `ChangeIsShown` needs what each waiting handler holds (`Tasks`): a
  button has read no list before its change, however many handlers overlap.

**Only model-checked.** Liveness (`QueuedJobIsTakenUp`, `EveryRequestEnds`,
`StopTakesEffect`, `LockLifts`, `FinalStatusRecorded`, `LoadEnds`): fairness and
ENABLED are out of the prover's reach. The `ASSUME`s of `Migrations`, which TLC
evaluates over all tables there are. Every safety invariant, action property and
refinement that a passing run checks is stated by a theorem. No module uses a
RECURSIVE operator, which the provers do not support, and no proof needs an
induction over data.

## 5. Not modelled

* The payloads of providers and router: translations and one external call. What a
  call may answer is `Deliver` and `Refuse`, and whether the webhook understands a
  payload is `Understood` of `StatusCallbacks` and `HandleMisread` of `OptOut`.
* Dashboards and metrics: queries that change nothing. Schemas: validation of
  shapes, but for the one of a new password. `auth/tokens.py`, `auth/service.py`:
  called by no route. `middleware/security.py`: installed by no application.
  Deployment checks: a script that cannot start (see above). The admin UI's
  static server and nginx: they pass requests on.
* Columns that nothing reads: `approved` of a template, `category_filter` of a
  segment, `daily_cap` and `hourly_cap` of a campaign.
* In `AdminUi`, the markup; a second tab, which shares the `localStorage` only.
* Inside what is modelled: the texts of alerts and answers, correlation ids,
  times other than those a guard compares, `review_status`.

## 6. Plan

Done in this order: `MessageJobs` (the core), `Intake`, `OptOut`, `RateLimits`,
`QuietHours`, `LoginThrottle`, `AuthSessions` and the proofs of each; then
`StatusCallbacks`, `QuietJobs`, `Audience`, `AdminUi`, `Passwords`, `Migrations`,
and the proofs of the first three and of the rest of `MessageJobs`; then the
proofs of `AdminUi` and `Passwords`, the types of `StatusCallbacks`, and
`Admission` with its refinement.

What is left, in the order of what it would find:

1. A composition of `RateLimits` with the retries of `QuietJobs`: refused messages
   count (`rate_limits.py:82`), so that the retries of one job take from the week of
   the next; there is no statement of the repository to hold it against yet.
2. Abstract specifications of `LoginThrottle` (an account that counts and locks in
   one step) and of `AuthSessions` (one password, one set of sessions).
3. Two tabs of `AdminUi` over one `localStorage`.

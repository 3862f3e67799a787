--------------------------- MODULE LoginThrottle ---------------------------
(***************************************************************************)
(* What login does before and after it verifies a password: the counter    *)
(* of attempts per address that RateLimiter keeps in Redis, and the        *)
(* failures and the lock that BruteForceProtection keeps in the AdminUser  *)
(* row, which an operator may clear with "manage_users.py unlock".  The    *)
(* API is one process and login never awaits: logins follow one another;   *)
(* time, Redis and the command line do not wait for them.                  *)
(***************************************************************************)
EXTENDS Integers

CONSTANTS
    Addresses, Users,
    MaxAttempts, Window, \* attempts per address, and the life of their counter
    MaxFails, LockTime   \* MAX_FAILED_ATTEMPTS, LOCKOUT_DURATION_MINUTES

ASSUME ThrottleAssumption ==
    /\ MaxAttempts \in Nat \ {0} /\ Window \in Nat \ {0}
    /\ MaxFails \in Nat \ {0, 1} /\ LockTime \in Nat \ {0}

VARIABLES
    count, ttl,  \* login_attempt:<address>; ttl 0 beside a count: it never goes
    row,         \* failed_login_attempts, is_locked, locked_until of each user
    login,       \* the login being served
    unlock,      \* the unlock command being run
    since,       \* history: failures since the last success or unlock
    calm         \* history: time since the last failure

vars == <<count, ttl, row, login, unlock, since, calm>>
redis == <<count, ttl>>
history == <<since, calm>>

\* locked_until: the time left, or past, or NULL.
Past == -1
Null == -2
Row == [fails: 0..MaxFails, locked: BOOLEAN, left: Null..LockTime]
Fresh == [fails |-> 0, locked |-> FALSE, left |-> Null]
Idle == [pc |-> "idle"]

\* Failures beyond the limit are not told apart.
CapAt(n, max) == IF n > max THEN max ELSE n

TypeOK ==
    /\ count \in [Addresses -> 0..MaxAttempts] /\ ttl \in [Addresses -> 0..Window]
    /\ row \in [Users -> Row]
    /\ login \in {Idle} \cup [pc: {"got"}, address: Addresses, attempts: 0..MaxAttempts]
                        \cup [pc: {"counted"}, address: Addresses]
                        \cup [pc: {"verifying"}, address: Addresses, user: Users, seen: Row]
    /\ unlock \in {Idle} \cup [pc: {"loaded"}, user: Users, seen: Row]
    /\ since \in [Users -> 0..MaxFails]
    /\ calm \in [Users -> 0..(LockTime + 1)]

Init ==
    /\ count = [a \in Addresses |-> 0] /\ ttl = [a \in Addresses |-> 0]
    /\ row = [u \in Users |-> Fresh] /\ login = Idle /\ unlock = Idle
    /\ since = [u \in Users |-> 0]
    /\ calm = [u \in Users |-> LockTime + 1]

IsLocked(r) == r.locked /\ r.left # Past

-----------------------------------------------------------------------------
Tick ==
    /\ ttl' = [a \in Addresses |-> IF ttl[a] > 0 THEN ttl[a] - 1 ELSE 0]
    /\ count' = [a \in Addresses |-> IF ttl[a] = 1 THEN 0 ELSE count[a]]
    /\ row' = [u \in Users |-> IF row[u].left >= 0 THEN [row[u] EXCEPT !.left = @ - 1] ELSE row[u]]
    /\ calm' = [u \in Users |-> CapAt(calm[u] + 1, LockTime + 1)]
    /\ UNCHANGED <<login, unlock, since>>

(* is_rate_limited: GET in one command, SETEX or INCR in another. *)
GetAttempts(a) ==
    /\ login = Idle
    /\ login' = [pc |-> "got", address |-> a, attempts |-> count[a]]
    /\ UNCHANGED <<redis, row, unlock, history>>

CountAttempt ==
    LET a == login.address IN
    /\ login.pc = "got"
    /\ IF login.attempts >= MaxAttempts
       THEN login' = Idle /\ UNCHANGED redis
       ELSE /\ login' = [pc |-> "counted", address |-> a]
            /\ count' = [count EXCEPT ![a] = IF login.attempts = 0 THEN 1 ELSE @ + 1]
            /\ ttl' = IF login.attempts = 0 THEN [ttl EXCEPT ![a] = Window] ELSE ttl
    /\ UNCHANGED <<row, unlock, history>>

\* Redis does not answer: the attempt is let through.
CountFails ==
    /\ login.pc = "got" /\ login' = [pc |-> "counted", address |-> login.address]
    /\ UNCHANGED <<redis, row, unlock, history>>

\* The user is unknown or inactive.
NoAccount ==
    /\ login.pc = "counted" /\ login' = Idle
    /\ UNCHANGED <<redis, row, unlock, history>>

\* Variant: the password is verified before the lock is looked at.
LoadUserUnlocked(u) ==
    /\ login.pc = "counted"
    /\ login' = [pc |-> "verifying", address |-> login.address, user |-> u, seen |-> row[u]]
    /\ UNCHANGED <<redis, row, unlock, history>>
LoadUser(u) ==
    /\ login.pc = "counted"
    /\ login' = IF IsLocked(row[u]) THEN Idle
                ELSE [pc |-> "verifying", address |-> login.address, user |-> u, seen |-> row[u]]
    /\ UNCHANGED <<redis, row, unlock, history>>

\* Variant: one failure more.
FailedOnceMore(r, seen) ==
    LET n == seen.fails + 1 IN
    IF n > MaxFails
    THEN [fails |-> MaxFails, locked |-> r.locked \/ ~seen.locked, left |-> LockTime]
    ELSE [r EXCEPT !.fails = n]
\* An UPDATE writes the columns that differ from what was loaded.
Failed(r, seen) ==
    LET n == seen.fails + 1 IN
    IF n >= MaxFails
    THEN [fails |-> MaxFails, locked |-> r.locked \/ ~seen.locked, left |-> LockTime]
    ELSE [r EXCEPT !.fails = n]
\* Variant: is_locked is left as it is.
ClearedTimeOnly(r, seen) ==
    [fails  |-> IF seen.fails = 0 THEN r.fails ELSE 0,
     locked |-> r.locked,
     left   |-> IF seen.left = Null THEN r.left ELSE Null]
Cleared(r, seen) ==
    [fails  |-> IF seen.fails = 0 THEN r.fails ELSE 0,
     locked |-> r.locked /\ ~seen.locked,
     left   |-> IF seen.left = Null THEN r.left ELSE Null]

RecordFailedLogin ==
    LET u == login.user IN
    /\ login.pc = "verifying" /\ login' = Idle
    /\ row' = [row EXCEPT ![u] = Failed(@, login.seen)]
    /\ since' = [since EXCEPT ![u] = CapAt(@ + 1, MaxFails)]
    /\ calm' = [calm EXCEPT ![u] = 0]
    /\ UNCHANGED <<redis, unlock>>

\* reset_failed_attempts commits, and reset_rate_limit deletes the counter
\* unless Redis does not answer.
ResetFailedAttempts ==
    LET u == login.user IN
    /\ login.pc = "verifying" /\ login' = Idle
    /\ row' = [row EXCEPT ![u] = Cleared(@, login.seen)]
    /\ \/ count' = [count EXCEPT ![login.address] = 0] /\ ttl' = [ttl EXCEPT ![login.address] = 0]
       \/ UNCHANGED redis
    /\ since' = [since EXCEPT ![u] = 0]
    /\ UNCHANGED <<calm, unlock>>

(* unlock_user: loads the row, and commits. *)
UnlockLoad(u) ==
    /\ unlock = Idle /\ row[u].locked
    /\ unlock' = [pc |-> "loaded", user |-> u, seen |-> row[u]]
    /\ UNCHANGED <<redis, row, login, history>>
UnlockCommit ==
    LET u == unlock.user IN
    /\ unlock.pc = "loaded" /\ unlock' = Idle
    /\ row' = [row EXCEPT ![u] = Cleared(@, unlock.seen)]
    /\ since' = [since EXCEPT ![u] = 0]
    /\ UNCHANGED <<redis, login, calm>>

\* A commit fails or a process ends: what was read is forgotten.
Abandon ==
    /\ \/ login # Idle /\ login' = Idle /\ UNCHANGED unlock
       \/ unlock # Idle /\ unlock' = Idle /\ UNCHANGED login
    /\ UNCHANGED <<redis, row, history>>

Login ==
    \/ \E a \in Addresses : GetAttempts(a)
    \/ CountAttempt \/ CountFails \/ NoAccount \/ \E u \in Users : LoadUser(u)
    \/ RecordFailedLogin \/ ResetFailedAttempts
Next == Tick \/ Login \/ Abandon \/ UnlockCommit \/ \E u \in Users : UnlockLoad(u)
Spec == Init /\ [][Next]_vars
FairSpec == Spec /\ WF_vars(Tick)

-----------------------------------------------------------------------------
(***************************************************************************)
(* While less than the lockout has passed since the last of MaxFails       *)
(* failures, with no success or unlock between them, the account is        *)
(* locked: also when "unlock" loads the row before a login changes it and  *)
(* commits after it, and the two UPDATEs write different columns.          *)
(***************************************************************************)
LockedAfterFailures == \A u \in Users :
    since[u] >= MaxFails /\ calm[u] <= LockTime => IsLocked(row[u])

(***************************************************************************)
(* No lock outlasts the last failure by more than the lockout: although a  *)
(* row that says is_locked beside no locked_until is locked for ever, no   *)
(* mixture of the columns of "unlock" and login leaves one.                *)
(***************************************************************************)
LockIsTimed == \A u \in Users : IsLocked(row[u]) => calm[u] <= LockTime

(***************************************************************************)
(* A locked account unlocks by itself, although logins keep failing.       *)
(***************************************************************************)
LockLifts == \A u \in Users : IsLocked(row[u]) ~> ~IsLocked(row[u])

(***************************************************************************)
(* "Rate limit exceeded: wait 5 minutes before retrying" (SECURITY.md:364):*)
(* an address at the limit leaves it again.                                *)
(***************************************************************************)
LimitEnds == \A a \in Addresses : count[a] >= MaxAttempts ~> count[a] < MaxAttempts
=============================================================================

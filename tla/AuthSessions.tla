---------------------------- MODULE AuthSessions ----------------------------
(***************************************************************************)
(* Tokens and the UserSession rows behind them: the handlers of            *)
(* routes/auth.py and the commands of manage_users.py.  A token carries    *)
(* its jti, kind and expiry; the row with that jti says whether it was     *)
(* revoked.  The API is one process and its handlers never await once they *)
(* run, so they follow one another; the command line and the failures of   *)
(* a commit come between their queries and commits.                        *)
(***************************************************************************)
EXTENDS Integers, FiniteSets

CONSTANTS
    Users, Jtis,
    SessionLookup,  \* whether packages.db.models has the UserSession that
                    \* get_current_user imports: at this commit it has not, and
                    \* an authenticated request is a 500 that changes nothing
    AccessLife, RefreshLife, \* lifetimes of the two kinds of token
    MaxChanges,     \* bound: password changes
    MaxFailures     \* bound: failed commits and ends of the API process

ASSUME SessionAssumption ==
    /\ IsFiniteSet(Jtis) /\ SessionLookup \in BOOLEAN /\ AccessLife \in Nat /\ RefreshLife \in Nat
    /\ MaxChanges \in Nat /\ MaxFailures \in Nat

VARIABLES
    known,      \* users with an AdminUser row, by username
    active,     \* AdminUser.is_active
    version,    \* which of its passwords a user's hash is of
    token,      \* the tokens handed out
    session,    \* the UserSession rows
    audited,    \* audit rows of successful logins and refreshes
    api,        \* the request being served
    late,       \* history: tokens handed out after the user was deactivated
    swept,      \* history: the password current when all of a user's sessions
                \* were last revoked and the revocation committed
    changes, failures

vars == <<known, active, version, token, session, audited, api, late, swept, changes,
          failures>>
users == <<known, active, version, changes>>
rows == <<session, audited>>

None == [kind |-> "none"]
Idle == [pc |-> "idle"]
Tokens == {None} \cup [kind: {"access", "refresh"}, user: Users, left: Nat]
Sessions == {None} \cup [kind: {"access", "refresh"}, user: Users, active: BOOLEAN, version: Nat]

TypeOK ==
    /\ known \subseteq Users /\ active \subseteq known /\ version \in [Users -> Nat]
    /\ token \in [Jtis -> Tokens] /\ session \in [Jtis -> Sessions]
    /\ audited \in [Users -> Nat] /\ late \in [Users -> Nat]
    /\ api \in {Idle} \cup [pc: {"login", "refresh", "revoke"}, user: Users, version: Nat]
    /\ swept \in [Users -> Nat]
    /\ changes \in Nat /\ failures \in Nat

Init ==
    /\ known = {} /\ active = {} /\ version = [u \in Users |-> 0]
    /\ token = [j \in Jtis |-> None] /\ session = [j \in Jtis |-> None]
    /\ audited = [u \in Users |-> 0] /\ api = Idle /\ late = [u \in Users |-> 0]
    /\ swept = [u \in Users |-> 0] /\ changes = 0 /\ failures = 0

Unused == {j \in Jtis : token[j] = None}
Live(j, kind) == token[j].kind = kind /\ token[j].left > 0
Open(j) == session[j] # None /\ session[j].active
SessionsOf(u) == {j \in Jtis : session[j] # None /\ session[j].user = u}

Tick == \* access tokens are short-lived, refresh tokens less so
    /\ \E j \in Jtis : token[j] # None /\ token[j].left > 0
    /\ token' = [j \in Jtis |-> IF token[j] # None /\ token[j].left > 0
                                THEN [token[j] EXCEPT !.left = @ - 1] ELSE token[j]]
    /\ UNCHANGED <<users, rows, api, late, swept, failures>>

-----------------------------------------------------------------------------
(***************************************************************************)
(* The rows a handler added or changed are committed with its audit row;   *)
(* when that commit fails, log_event rolls all of it back and returns, and *)
(* the handler answers as if it had not.                                   *)
(***************************************************************************)
Audit(change, unchanged) ==
    \/ change /\ UNCHANGED failures
    \/ unchanged /\ failures < MaxFailures /\ failures' = failures + 1

HandOut(tokens, u) ==
    /\ token' = [j \in Jtis |-> IF j \in DOMAIN tokens THEN tokens[j] ELSE token[j]]
    /\ late' = IF u \in active THEN late ELSE [late EXCEPT ![u] = @ + 1]
Store(tokens, u) ==
    /\ session' = [j \in Jtis |->
           IF j \in DOMAIN tokens
           THEN [kind |-> tokens[j].kind, user |-> u, active |-> TRUE, version |-> api.version]
           ELSE session[j]]
    /\ audited' = [audited EXCEPT ![u] = @ + 1]
NewToken(kind, u) ==
    [kind |-> kind, user |-> u, left |-> IF kind = "access" THEN AccessLife ELSE RefreshLife]

\* login, once the password is verified (LoginThrottle is about the rest).
LoginVerified(u) ==
    /\ api = Idle /\ u \in active
    /\ api' = [pc |-> "login", user |-> u, version |-> version[u]]
    /\ UNCHANGED <<users, token, rows, late, swept, failures>>
LoginTokens ==
    \E a \in Unused : \E r \in Unused \ {a} :
        LET u == api.user
            tokens == [j \in {a, r} |-> NewToken(IF j = a THEN "access" ELSE "refresh", u)]
        IN /\ api.pc = "login" /\ api' = Idle
           /\ HandOut(tokens, u) /\ Audit(Store(tokens, u), UNCHANGED rows)
           /\ UNCHANGED <<users, swept>>

\* Variant: the user is not looked up again.
RefreshAnyUser(j) ==
    /\ api = Idle /\ Live(j, "refresh") /\ Open(j)
    /\ api' = [pc |-> "refresh", user |-> token[j].user, version |-> session[j].version]
    /\ UNCHANGED <<users, token, rows, late, swept, failures>>
RefreshChecked(j) ==
    /\ api = Idle /\ Live(j, "refresh") /\ Open(j) /\ token[j].user \in active
    /\ api' = [pc |-> "refresh", user |-> token[j].user, version |-> session[j].version]
    /\ UNCHANGED <<users, token, rows, late, swept, failures>>

\* Variant: the session is committed before it is logged.
RefreshTokenLogged ==
    \E a \in Unused :
        LET u == api.user tokens == [j \in {a} |-> NewToken("access", u)] IN
        /\ api.pc = "refresh" /\ api' = Idle
        /\ HandOut(tokens, u)
        /\ Audit(Store(tokens, u), session' = [session EXCEPT ![a] =
               [kind |-> "access", user |-> u, active |-> TRUE, version |-> api.version]]
               /\ UNCHANGED audited)
        /\ UNCHANGED <<users, swept>>
RefreshToken ==
    \E a \in Unused :
        LET u == api.user tokens == [j \in {a} |-> NewToken("access", u)] IN
        /\ api.pc = "refresh" /\ api' = Idle
        /\ HandOut(tokens, u) /\ Audit(Store(tokens, u), UNCHANGED rows)
        /\ UNCHANGED <<users, swept>>

(* get_current_user: without the class it imports it lets nobody in. *)
CurrentUser(j) == SessionLookup /\ Live(j, "access") /\ Open(j)

Revoke(js) == session' = [j \in Jtis |-> IF j \in js /\ session[j] # None
                                         THEN [session[j] EXCEPT !.active = FALSE]
                                         ELSE session[j]]

Sweep(u) == swept' = [swept EXCEPT ![u] = version[u]]

Logout(j, all) ==
    /\ api = Idle /\ CurrentUser(j)
    /\ Audit(IF all THEN Revoke({j} \cup SessionsOf(token[j].user)) /\ Sweep(token[j].user)
                    ELSE Revoke({j}) /\ UNCHANGED swept,
             UNCHANGED <<session, swept>>)
    /\ UNCHANGED <<users, token, audited, api, late>>

\* change_password commits the new hash, and then revokes the sessions.
ChangePassword(j) ==
    LET u == token[j].user IN
    /\ api = Idle /\ CurrentUser(j) /\ changes < MaxChanges /\ changes' = changes + 1
    /\ version' = [version EXCEPT ![u] = @ + 1]
    /\ api' = [pc |-> "revoke", user |-> u, version |-> version[u] + 1]
    /\ UNCHANGED <<known, active, token, rows, late, swept, failures>>
\* Variant: access tokens only.
RevokeAccessOnly ==
    /\ api.pc = "revoke" /\ api' = Idle
    /\ Audit(Revoke({j \in SessionsOf(api.user) : session[j].kind = "access"}) /\ Sweep(api.user),
             UNCHANGED <<session, swept>>)
    /\ UNCHANGED <<users, token, audited, late>>
RevokeSessions ==
    /\ api.pc = "revoke" /\ api' = Idle
    /\ Audit(Revoke(SessionsOf(api.user)) /\ Sweep(api.user), UNCHANGED <<session, swept>>)
    /\ UNCHANGED <<users, token, audited, late>>

ApiEnds ==
    /\ api # Idle /\ api' = Idle /\ failures < MaxFailures /\ failures' = failures + 1
    /\ UNCHANGED <<users, token, rows, late, swept>>

(* manage_users.py.  The look for the username and its unique key make the *)
(* creation one step: whichever comes second creates nothing.              *)
CreateUser(u) ==
    /\ u \notin known /\ known' = known \cup {u} /\ active' = active \cup {u}
    /\ UNCHANGED <<version, changes, token, rows, api, late, swept, failures>>
ResetPassword(u) ==
    /\ u \in known /\ changes < MaxChanges /\ changes' = changes + 1
    /\ version' = [version EXCEPT ![u] = @ + 1]
    /\ UNCHANGED <<known, active, token, rows, api, late, swept, failures>>
DeactivateUser(u) ==
    /\ u \in active /\ active' = active \ {u}
    /\ UNCHANGED <<known, version, changes, token, rows, api, late, swept, failures>>

Handle ==
    \/ \E u \in Users : LoginVerified(u)
    \/ \E j \in Jtis : RefreshChecked(j) \/ ChangePassword(j)
    \/ \E j \in Jtis, all \in BOOLEAN : Logout(j, all)
    \/ LoginTokens \/ RefreshToken \/ RevokeSessions \/ ApiEnds
Next == Tick \/ Handle \/ \E u \in Users : CreateUser(u) \/ ResetPassword(u) \/ DeactivateUser(u)
Spec == Init /\ [][Next]_vars

-----------------------------------------------------------------------------
(***************************************************************************)
(* Deactivating a user ends the handing out of tokens, except by the one   *)
(* request that had already looked the user up.                            *)
(***************************************************************************)
OneLateHandOut == \A u \in Users : late[u] <= 1

(***************************************************************************)
(* Every session is of a login or refresh that the audit log shows, and    *)
(* every one it shows has its session, whatever commit fails.              *)
(***************************************************************************)
SessionsAreAudited == \A u \in Users :
    audited[u] = Cardinality({j \in SessionsOf(u) : session[j].kind = "access"})

(***************************************************************************)
(* Once the revocation of a user's sessions is committed, by               *)
(* change_password or by a logout of all sessions, none opened with a      *)
(* password older than the one then current is ever active again: not      *)
(* those which an earlier revocation that failed, or a reset on the        *)
(* command line, had left, and none that a refresh opens from one of them. *)
(***************************************************************************)
OldSessionsEnd == \A u \in Users : \A j \in SessionsOf(u) :
    session[j].active => session[j].version >= swept[u]
=============================================================================

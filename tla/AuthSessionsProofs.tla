------------------------- MODULE AuthSessionsProofs -------------------------
(***************************************************************************)
(* Proofs that a deactivated user gets the tokens of one request at most   *)
(* and that a committed revocation ends the sessions of older passwords    *)
(* for good, for any users, tokens, lifetimes and bounds.                  *)
(***************************************************************************)
EXTENDS AuthSessions, Passwords, FiniteSetTheorems, TLAPS

Records == [kind: {"access", "refresh"}, user: Users, active: BOOLEAN, version: Nat]

LEMMA Serving ==
    ASSUME TypeOK, api # Idle
    PROVE  api.user \in Users /\ api.version \in Nat /\ api.pc \in {"login", "refresh", "revoke"}
BY DEF TypeOK

LEMMA Kept ==
    ASSUME TypeOK, NEW j \in Jtis, session[j] # None
    PROVE  session[j] \in Records
BY DEF TypeOK, Sessions, Records

LEMMA Held ==
    ASSUME TypeOK, NEW j \in Jtis, token[j] # None
    PROVE  token[j] \in [kind: {"access", "refresh"}, user: Users, left: Nat]
BY DEF TypeOK, Tokens

LEMMA HeldLive ==
    ASSUME TypeOK, NEW j \in Jtis, NEW kind \in {"access", "refresh"}, Live(j, kind)
    PROVE  token[j].user \in Users
BY DEF TypeOK, Tokens, Live, None

(***************************************************************************)
(* What handing tokens out and storing their sessions make of a jti.       *)
(***************************************************************************)
LEMMA TokensNew ==
    ASSUME NEW kind \in {"access", "refresh"}, NEW u \in Users
    PROVE  NewToken(kind, u) \in [kind: {kind}, user: {u}, left: Nat]
BY SessionAssumption DEF NewToken

LEMMA HandedOut ==
    ASSUME TypeOK, NEW u \in Users, NEW js \in SUBSET Jtis,
           NEW tokens, DOMAIN tokens = js,
           \A j \in js : tokens[j] \in [kind: {"access", "refresh"}, user: {u}, left: Nat],
           HandOut(tokens, u)
    PROVE  token' \in [Jtis -> Tokens] /\ late' \in [Users -> Nat]
BY DEF HandOut, TypeOK, Tokens

LEMMA Stored ==
    ASSUME TypeOK, NEW u \in Users, NEW js \in SUBSET Jtis,
           NEW tokens, DOMAIN tokens = js,
           \A j \in js : tokens[j] \in [kind: {"access", "refresh"}, user: {u}, left: Nat],
           api.version \in Nat, Store(tokens, u)
    PROVE  session' \in [Jtis -> Sessions] /\ audited' \in [Users -> Nat]
<1>1. \A j \in js : [kind |-> tokens[j].kind, user |-> u, active |-> TRUE,
                     version |-> api.version] \in Sessions
  BY DEF Sessions
<1> QED BY <1>1 DEF Store, TypeOK

LEMMA Revoked ==
    ASSUME TypeOK, NEW js, Revoke(js)
    PROVE  session' \in [Jtis -> Sessions]
<1>1. \A j \in Jtis : session[j] # None => [session[j] EXCEPT !.active = FALSE] \in Sessions
  BY Kept DEF Records, Sessions
<1> QED BY <1>1 DEF Revoke, TypeOK

LEMMA TypesInit == Init => TypeOK
BY SessionAssumption DEF Init, TypeOK, Tokens, Sessions

LEMMA TypesStep == TypeOK /\ [Next]_vars => TypeOK'
<1> SUFFICES ASSUME TypeOK, [Next]_vars PROVE TypeOK'
  OBVIOUS
<1> USE SessionAssumption
<1>1. CASE Tick
  <2>1. ASSUME NEW j \in Jtis, token[j] # None, token[j].left > 0
        PROVE  [token[j] EXCEPT !.left = @ - 1] \in Tokens
    BY <2>1, Held DEF Tokens
  <2>2. token' \in [Jtis -> Tokens]
    BY <1>1, <2>1 DEF Tick, TypeOK
  <2> QED BY <1>1, <2>2 DEF Tick, TypeOK, users, rows
<1>2. ASSUME NEW u \in Users, LoginVerified(u) PROVE TypeOK'
  BY <1>2 DEF LoginVerified, TypeOK, users, rows
<1>3. CASE LoginTokens
  <2> DEFINE u == api.user
             tokens(a, r) == [j \in {a, r} |-> NewToken(IF j = a THEN "access" ELSE "refresh", u)]
  <2>1. PICK a \in Jtis, r \in Jtis :
            /\ api.pc = "login" /\ api' = Idle /\ HandOut(tokens(a, r), u)
            /\ Audit(Store(tokens(a, r), u), UNCHANGED rows) /\ UNCHANGED <<users, swept>>
    BY <1>3 DEF LoginTokens, Unused
  <2>2. u \in Users /\ api.version \in Nat
    BY <2>1, Serving DEF Idle
  <2>3. \A j \in {a, r} : tokens(a, r)[j] \in [kind: {"access", "refresh"}, user: {u}, left: Nat]
    BY <2>2, TokensNew
  <2>4. token' \in [Jtis -> Tokens] /\ late' \in [Users -> Nat]
    BY <2>1, <2>2, <2>3, HandedOut
  <2>5. session' \in [Jtis -> Sessions] /\ audited' \in [Users -> Nat] /\ failures' \in Nat
    <3>1. failures' \in Nat
      BY <2>1 DEF Audit, TypeOK
    <3>2. CASE Store(tokens(a, r), u)
      BY <2>2, <2>3, <3>1, <3>2, Stored
    <3>3. CASE UNCHANGED rows
      BY <3>1, <3>3 DEF TypeOK, rows
    <3> QED BY <2>1, <3>2, <3>3 DEF Audit
  <2> QED BY <2>1, <2>4, <2>5 DEF TypeOK, users
<1>4. ASSUME NEW j \in Jtis, RefreshChecked(j) PROVE TypeOK'
  <2>1. session[j] # None
    BY <1>4 DEF RefreshChecked, Open
  <2>2. token[j].user \in Users /\ session[j].version \in Nat
    BY <1>4, <2>1, HeldLive, Kept DEF RefreshChecked, Records
  <2> QED BY <1>4, <2>2 DEF RefreshChecked, TypeOK, users, rows
<1>5. CASE RefreshToken
  <2> DEFINE u == api.user
             tokens(a) == [j \in {a} |-> NewToken("access", u)]
  <2>1. PICK a \in Jtis :
            /\ api.pc = "refresh" /\ api' = Idle /\ HandOut(tokens(a), u)
            /\ Audit(Store(tokens(a), u), UNCHANGED rows) /\ UNCHANGED <<users, swept>>
    BY <1>5 DEF RefreshToken, Unused
  <2>2. u \in Users /\ api.version \in Nat
    BY <2>1, Serving DEF Idle
  <2>3. \A j \in {a} : tokens(a)[j] \in [kind: {"access", "refresh"}, user: {u}, left: Nat]
    BY <2>2, TokensNew
  <2>4. token' \in [Jtis -> Tokens] /\ late' \in [Users -> Nat]
    BY <2>1, <2>2, <2>3, HandedOut
  <2>5. session' \in [Jtis -> Sessions] /\ audited' \in [Users -> Nat] /\ failures' \in Nat
    <3>1. failures' \in Nat
      BY <2>1 DEF Audit, TypeOK
    <3>2. CASE Store(tokens(a), u)
      BY <2>2, <2>3, <3>1, <3>2, Stored
    <3>3. CASE UNCHANGED rows
      BY <3>1, <3>3 DEF TypeOK, rows
    <3> QED BY <2>1, <3>2, <3>3 DEF Audit
  <2> QED BY <2>1, <2>4, <2>5 DEF TypeOK, users
<1>6. ASSUME NEW j \in Jtis, NEW all \in BOOLEAN, Logout(j, all) PROVE TypeOK'
  <2>1. session' \in [Jtis -> Sessions] /\ failures' \in Nat
    BY <1>6, Revoked DEF Logout, Audit, TypeOK
  <2>2. swept' \in [Users -> Nat]
    BY <1>6 DEF Logout, Audit, Sweep, TypeOK
  <2> QED BY <1>6, <2>1, <2>2 DEF Logout, TypeOK, users
<1>8. ASSUME NEW j \in Jtis, ChangePassword(j) PROVE TypeOK'
  <2>1. token[j].user \in Users
    BY <1>8, HeldLive DEF ChangePassword, CurrentUser
  <2> QED BY <1>8, <2>1 DEF ChangePassword, TypeOK, rows
<1>9. CASE RevokeSessions
  <2>1. session' \in [Jtis -> Sessions] /\ failures' \in Nat
    BY <1>9, Revoked DEF RevokeSessions, Audit, TypeOK
  <2>2. swept' \in [Users -> Nat]
    BY <1>9 DEF RevokeSessions, Audit, Sweep, TypeOK
  <2> QED BY <1>9, <2>1, <2>2 DEF RevokeSessions, TypeOK, users
<1>10. CASE ApiEnds
  BY <1>10 DEF ApiEnds, TypeOK, users, rows
<1>11. ASSUME NEW u \in Users, ResetPassword(u) PROVE TypeOK'
  BY <1>11 DEF ResetPassword, TypeOK, rows
<1>12. ASSUME NEW u \in Users, DeactivateUser(u) PROVE TypeOK'
  BY <1>12 DEF DeactivateUser, TypeOK, rows
<1>14. ASSUME NEW u \in Users, CreateUser(u) PROVE TypeOK'
  BY <1>14 DEF CreateUser, TypeOK, rows
<1>13. CASE UNCHANGED vars
  BY <1>13 DEF TypeOK, vars
<1> QED
  BY <1>1, <1>2, <1>3, <1>4, <1>5, <1>6, <1>8, <1>9, <1>10, <1>11, <1>12, <1>13, <1>14
  DEF Next, Handle

(***************************************************************************)
(* The variables keep their types.                                         *)
(***************************************************************************)
THEOREM SessionTypes == Spec => []TypeOK
BY TypesInit, TypesStep, PTL DEF Spec

-----------------------------------------------------------------------------
(***************************************************************************)
(* A user gets nothing late while active, nor while the request that found *)
(* them active is being served; that request is the last, and the user of  *)
(* it has an account, so that an account is new to both.                   *)
(***************************************************************************)
LateInv == \A u \in Users :
    /\ late[u] \in 0..1
    /\ u \in active => late[u] = 0
    /\ u \notin known => late[u] = 0
    /\ api.pc \in {"login", "refresh"} /\ api.user = u => late[u] = 0 /\ u \in known

LEMMA LateInit == Init => LateInv
BY DEF Init, LateInv, Idle

LEMMA LateHandOut ==
    ASSUME TypeOK, LateInv, api.pc \in {"login", "refresh"}, api' = Idle, UNCHANGED <<known, active>>,
           NEW tokens, HandOut(tokens, api.user)
    PROVE  LateInv'
<1>1. api.user \in known /\ api.user \in Users /\ late[api.user] = 0
  BY Serving DEF LateInv, Idle
<1>2. CASE api.user \in active
  BY <1>2 DEF HandOut, LateInv, Idle
<1>3. CASE api.user \notin active
  BY <1>1, <1>3 DEF HandOut, LateInv, Idle, TypeOK
<1> QED BY <1>2, <1>3

LEMMA LateStep == TypeOK /\ LateInv /\ [Next]_vars => LateInv'
<1> SUFFICES ASSUME TypeOK, LateInv, [Next]_vars PROVE LateInv'
  OBVIOUS
<1>1. ASSUME UNCHANGED <<late, known, active>>,
             api' # api => api'.pc \notin {"login", "refresh"} \/ api'.user \in active
      PROVE  LateInv'
  BY <1>1 DEF LateInv, TypeOK
<1>2. CASE LoginTokens
  <2>1. api.pc = "login" /\ api' = Idle /\ UNCHANGED <<known, active>>
    BY <1>2 DEF LoginTokens, users
  <2>2. \E tokens : HandOut(tokens, api.user)
    BY <1>2 DEF LoginTokens
  <2> QED BY <2>1, <2>2, LateHandOut
<1>3. CASE RefreshToken
  <2>1. api.pc = "refresh" /\ api' = Idle /\ UNCHANGED <<known, active>>
    BY <1>3 DEF RefreshToken, users
  <2>2. \E tokens : HandOut(tokens, api.user)
    BY <1>3 DEF RefreshToken
  <2> QED BY <2>1, <2>2, LateHandOut
<1>4. CASE \/ \E u \in Users : LoginVerified(u)
           \/ \E j \in Jtis : RefreshChecked(j) \/ ChangePassword(j)
  <2>1. api'.pc \notin {"login", "refresh"} \/ api'.user \in active
    BY <1>4 DEF LoginVerified, RefreshChecked, ChangePassword
  <2>2. UNCHANGED <<late, known, active>>
    BY <1>4 DEF LoginVerified, RefreshChecked, ChangePassword, users
  <2> QED BY <1>1, <2>1, <2>2
<1>5. CASE \/ \E j \in Jtis, all \in BOOLEAN : Logout(j, all)
           \/ \E u \in Users : ResetPassword(u)
  BY <1>1, <1>5 DEF Logout, ResetPassword, users
<1>6. ASSUME NEW u \in Users, DeactivateUser(u) PROVE LateInv'
  BY <1>6 DEF DeactivateUser, LateInv
<1>7. ASSUME NEW u \in Users, CreateUser(u) PROVE LateInv'
  BY <1>7 DEF CreateUser, LateInv
<1>8. CASE RevokeSessions \/ ApiEnds
  <2>1. api' = Idle
    BY <1>8 DEF RevokeSessions, ApiEnds
  <2>2. UNCHANGED <<late, known, active>>
    BY <1>8 DEF RevokeSessions, ApiEnds, users
  <2> QED BY <1>1, <2>1, <2>2 DEF Idle
<1>9. CASE Tick \/ UNCHANGED vars
  BY <1>1, <1>9 DEF Tick, vars, users
<1> QED BY <1>2, <1>3, <1>4, <1>5, <1>6, <1>7, <1>8, <1>9 DEF Next, Handle

(***************************************************************************)
(* After a deactivation one request at most hands tokens out.              *)
(***************************************************************************)
THEOREM LateHandOuts == Spec => []OneLateHandOut
<1>1. Init => TypeOK /\ LateInv
  BY TypesInit, LateInit
<1>2. TypeOK /\ LateInv /\ [Next]_vars => TypeOK' /\ LateInv'
  BY TypesStep, LateStep
<1>3. TypeOK /\ LateInv => OneLateHandOut
  BY DEF LateInv, OneLateHandOut
<1> QED BY <1>1, <1>2, <1>3, PTL DEF Spec

-----------------------------------------------------------------------------
(***************************************************************************)
(* A session is of a token, and of its user.  The last revocation of all   *)
(* of a user's sessions was made under a password they have had, every     *)
(* active session is of that password or a later one, and so is what a     *)
(* login or a refresh under way is going to store.                         *)
(***************************************************************************)
SessionOfToken == \A j \in Jtis : session[j] # None =>
    token[j] # None /\ token[j].user = session[j].user
NoneOlder(u) == \A j \in SessionsOf(u) : session[j].active => session[j].version >= swept[u]
SweptInv == \A u \in Users :
    /\ swept[u] <= version[u]
    /\ api.pc \in {"login", "refresh"} /\ api.user = u => api.version >= swept[u]
    /\ NoneOlder(u)
VersionInv == SessionOfToken /\ SweptInv

LEMMA VersionInit == Init => VersionInv
BY DEF Init, VersionInv, SessionOfToken, SweptInv, NoneOlder, SessionsOf, Idle

(* Tokens and sessions handed out together agree. *)
LEMMA StoredAgree ==
    ASSUME TypeOK, SessionOfToken, NEW u \in Users, NEW js \in SUBSET Unused,
           NEW tokens, DOMAIN tokens = js,
           \A j \in js : tokens[j] \in [kind: {"access", "refresh"}, user: {u}, left: Nat],
           HandOut(tokens, u)
    PROVE  /\ UNCHANGED session => SessionOfToken'
           /\ Store(tokens, u) => SessionOfToken'
<1>1. \A j \in js : token'[j] # None /\ token'[j].user = u
  BY DEF HandOut, Unused, None
<1>2. \A j \in Jtis \ js : token'[j] = token[j]
  BY DEF HandOut
<1>3. \A j \in js : session[j] = None
  BY DEF SessionOfToken, Unused
<1>4. ASSUME UNCHANGED session PROVE SessionOfToken'
  BY <1>2, <1>3, <1>4 DEF SessionOfToken
<1>5. ASSUME Store(tokens, u) PROVE SessionOfToken'
  <2>1. \A j \in js : session'[j].user = u
    BY <1>5 DEF Store, Unused
  <2>2. \A j \in Jtis \ js : session'[j] = session[j]
    BY <1>5 DEF Store
  <2> QED BY <1>1, <1>2, <2>1, <2>2 DEF SessionOfToken
<1> QED BY <1>4, <1>5

(* What a login or a refresh stores is of no password older than the sweep. *)
LEMMA StoredSwept ==
    ASSUME TypeOK, SweptInv, api.pc \in {"login", "refresh"}, api' = Idle,
           UNCHANGED <<version, swept>>, NEW js \in SUBSET Jtis,
           NEW tokens, DOMAIN tokens = js, Audit(Store(tokens, api.user), UNCHANGED rows)
    PROVE  SweptInv'
<1> SUFFICES ASSUME NEW u \in Users PROVE NoneOlder(u)'
  BY DEF SweptInv, Idle
<1>1. NoneOlder(u)
  BY DEF SweptInv
<1>2. CASE UNCHANGED rows
  BY <1>1, <1>2 DEF NoneOlder, SessionsOf, rows
<1>3. CASE Store(tokens, api.user)
  <2> SUFFICES ASSUME NEW j \in SessionsOf(u)', session'[j].active
               PROVE  session'[j].version >= swept[u]
    BY DEF NoneOlder
  <2>1. j \in Jtis /\ session'[j] # None /\ session'[j].user = u
    BY DEF SessionsOf
  <2>2. CASE j \in js
    <3>1. session'[j].user = api.user /\ session'[j].version = api.version
      BY <1>3, <2>1, <2>2 DEF Store
    <3> QED BY <2>1, <3>1 DEF SweptInv
  <2>3. CASE j \notin js
    <3>1. session'[j] = session[j]
      BY <1>3, <2>1, <2>3 DEF Store
    <3> QED BY <1>1, <2>1, <3>1 DEF NoneOlder, SessionsOf
  <2> QED BY <2>2, <2>3
<1> QED BY <1>2, <1>3 DEF Audit

LEMMA RevokedFields ==
    ASSUME TypeOK, NEW js, Revoke(js), NEW j \in Jtis
    PROVE  /\ session'[j] = None <=> session[j] = None
           /\ session[j] # None =>
                  /\ session'[j].user = session[j].user /\ session'[j].kind = session[j].kind
                  /\ session'[j].version = session[j].version
                  /\ session'[j].active => session[j].active /\ j \notin js
<1>1. CASE session[j] = None
  BY <1>1 DEF Revoke
<1>2. CASE session[j] # None
  <2>1. session[j] \in Records
    BY <1>2, Kept
  <2>2. CASE j \in js
    <3>1. session'[j] = [session[j] EXCEPT !.active = FALSE]
      BY <1>2, <2>2 DEF Revoke
    <3> QED BY <1>2, <2>1, <3>1 DEF Records, None
  <2>3. CASE j \notin js
    BY <1>2, <2>3 DEF Revoke
  <2> QED BY <2>2, <2>3
<1> QED BY <1>1, <1>2

(* A revocation of some sessions leaves none older, and one of all the       *)
(* sessions of a user raises what is older to the password of that moment.   *)
LEMMA RevokedSwept ==
    ASSUME TypeOK, SweptInv, UNCHANGED version, api' \in {api, Idle},
           NEW js, Revoke(js),
           \/ UNCHANGED swept
           \/ \E u \in Users : SessionsOf(u) \subseteq js /\ Sweep(u) /\ api' = Idle
    PROVE  SweptInv'
<1>1. \A u \in Users : SessionsOf(u)' = SessionsOf(u)
  BY RevokedFields DEF SessionsOf
<1>2. \A u \in Users : \A j \in SessionsOf(u) :
          session'[j].active => session[j].active /\ j \notin js /\ session'[j].version = session[j].version
  BY RevokedFields DEF SessionsOf
<1>3. CASE UNCHANGED swept
  BY <1>1, <1>2, <1>3 DEF SweptInv, NoneOlder, Idle
<1>4. CASE \E u \in Users : SessionsOf(u) \subseteq js /\ Sweep(u) /\ api' = Idle
  <2>1. PICK v \in Users : SessionsOf(v) \subseteq js /\ Sweep(v) /\ api' = Idle
    BY <1>4
  <2> SUFFICES ASSUME NEW u \in Users PROVE swept'[u] <= version'[u] /\ NoneOlder(u)'
    BY <2>1 DEF SweptInv, Idle
  <2>2. CASE u = v
    <3>1. swept'[u] = version[u] /\ version[u] \in Nat
      BY <2>1, <2>2 DEF Sweep, TypeOK
    <3>2. \A j \in SessionsOf(u)' : ~session'[j].active
      BY <1>1, <1>2, <2>1, <2>2
    <3> QED BY <3>1, <3>2 DEF NoneOlder
  <2>3. CASE u # v
    <3>1. swept'[u] = swept[u]
      BY <2>1, <2>3 DEF Sweep, TypeOK
    <3> QED BY <1>1, <1>2, <3>1 DEF SweptInv, NoneOlder
  <2> QED BY <2>2, <2>3
<1> QED BY <1>3, <1>4

LEMMA VersionStep == TypeOK /\ VersionInv /\ [Next]_vars => VersionInv'
<1> SUFFICES ASSUME TypeOK, VersionInv, [Next]_vars PROVE VersionInv'
  OBVIOUS
<1>i. SessionOfToken /\ SweptInv
  BY DEF VersionInv
<1>1. ASSUME UNCHANGED <<session, version, swept>>,
             api' = api \/ api'.pc \notin {"login", "refresh"} \/ api'.version >= swept[api'.user]
      PROVE  SweptInv'
  BY <1>i, <1>1 DEF SweptInv, NoneOlder, SessionsOf
<1>2. ASSUME NEW js, Revoke(js), UNCHANGED <<version, token>>, api' \in {api, Idle},
             \/ UNCHANGED swept
             \/ \E u \in Users : SessionsOf(u) \subseteq js /\ Sweep(u) /\ api' = Idle
      PROVE  VersionInv'
  <2>1. SessionOfToken'
    BY <1>i, <1>2, RevokedFields DEF SessionOfToken
  <2>2. SweptInv'
    BY <1>i, <1>2, RevokedSwept
  <2> QED BY <2>1, <2>2 DEF VersionInv
<1>3. ASSUME UNCHANGED <<session, token>> PROVE SessionOfToken'
  BY <1>i, <1>3 DEF SessionOfToken
<1>5. CASE Tick
  <2>1. ASSUME NEW j \in Jtis, token[j] # None
        PROVE  token'[j] # None /\ token'[j].user = token[j].user
    BY <1>5, <2>1, Held DEF Tick, None
  <2>2. SessionOfToken'
    BY <1>i, <1>5, <2>1 DEF SessionOfToken, Tick, rows
  <2> QED BY <1>1, <1>5, <2>2 DEF VersionInv, Tick, users, rows
<1>6. ASSUME NEW u \in Users, LoginVerified(u) PROVE VersionInv'
  <2>1. SweptInv'
    BY <1>i, <1>1, <1>6 DEF LoginVerified, SweptInv, users, rows
  <2> QED BY <1>3, <1>6, <2>1 DEF VersionInv, LoginVerified, rows
<1>7. CASE LoginTokens
  <2> DEFINE tokens(a, r) ==
        [j \in {a, r} |-> NewToken(IF j = a THEN "access" ELSE "refresh", api.user)]
  <2>1. PICK a \in Unused, r \in Unused :
            /\ api.pc = "login" /\ api' = Idle /\ HandOut(tokens(a, r), api.user)
            /\ Audit(Store(tokens(a, r), api.user), UNCHANGED rows)
            /\ UNCHANGED <<users, swept>>
    BY <1>7 DEF LoginTokens
  <2>2. api.user \in Users
    BY <2>1, Serving DEF Idle
  <2>3. \A j \in {a, r} :
            tokens(a, r)[j] \in [kind: {"access", "refresh"}, user: {api.user}, left: Nat]
    BY <2>2, TokensNew
  <2>4. SessionOfToken'
    <3>1. UNCHANGED session \/ Store(tokens(a, r), api.user)
      BY <2>1 DEF Audit, rows
    <3> QED BY <1>i, <2>1, <2>2, <2>3, <3>1, StoredAgree
  <2>5. SweptInv'
    <3>1. {a, r} \in SUBSET Jtis /\ UNCHANGED <<version, swept>>
      BY <2>1 DEF Unused, users
    <3> QED BY <1>i, <2>1, <3>1, StoredSwept
  <2> QED BY <2>4, <2>5 DEF VersionInv
<1>8. ASSUME NEW j \in Jtis, RefreshChecked(j) PROVE VersionInv'
  <2>1. j \in SessionsOf(token[j].user) /\ session[j].active /\ token[j].user \in Users
    BY <1>i, <1>8, HeldLive DEF RefreshChecked, Open, SessionOfToken, SessionsOf
  <2>2. SweptInv'
    BY <1>i, <1>1, <1>8, <2>1 DEF RefreshChecked, SweptInv, NoneOlder, users, rows
  <2> QED BY <1>3, <1>8, <2>2 DEF VersionInv, RefreshChecked, rows
<1>9. CASE RefreshToken
  <2> DEFINE tokens(a) == [j \in {a} |-> NewToken("access", api.user)]
  <2>1. PICK a \in Unused :
            /\ api.pc = "refresh" /\ api' = Idle /\ HandOut(tokens(a), api.user)
            /\ Audit(Store(tokens(a), api.user), UNCHANGED rows)
            /\ UNCHANGED <<users, swept>>
    BY <1>9 DEF RefreshToken
  <2>2. api.user \in Users
    BY <2>1, Serving DEF Idle
  <2>3. \A j \in {a} :
            tokens(a)[j] \in [kind: {"access", "refresh"}, user: {api.user}, left: Nat]
    BY <2>2, TokensNew
  <2>4. SessionOfToken'
    <3>1. UNCHANGED session \/ Store(tokens(a), api.user)
      BY <2>1 DEF Audit, rows
    <3> QED BY <1>i, <2>1, <2>2, <2>3, <3>1, StoredAgree
  <2>5. SweptInv'
    <3>1. {a} \in SUBSET Jtis /\ UNCHANGED <<version, swept>>
      BY <2>1 DEF Unused, users
    <3> QED BY <1>i, <2>1, <3>1, StoredSwept
  <2> QED BY <2>4, <2>5 DEF VersionInv
<1>10. ASSUME NEW j \in Jtis, NEW all \in BOOLEAN, Logout(j, all) PROVE VersionInv'
  <2> DEFINE u == token[j].user
  <2>1. api = Idle /\ UNCHANGED <<version, token, api>> /\ u \in Users
    BY <1>10, HeldLive DEF Logout, CurrentUser, users
  <2>2. CASE UNCHANGED <<session, swept>>
    BY <1>1, <1>3, <2>1, <2>2 DEF VersionInv
  <2>3. CASE all /\ Revoke({j} \cup SessionsOf(u)) /\ Sweep(u)
    BY <1>2, <2>1, <2>3
  <2>4. CASE Revoke({j}) /\ UNCHANGED swept
    BY <1>2, <2>1, <2>4
  <2> QED BY <1>10, <2>2, <2>3, <2>4 DEF Logout, Audit
<1>11. ASSUME NEW j \in Jtis, ChangePassword(j) PROVE VersionInv'
  <2>1. SweptInv'
    BY <1>i, <1>11 DEF ChangePassword, SweptInv, NoneOlder, SessionsOf, rows, TypeOK
  <2> QED BY <1>3, <1>11, <2>1 DEF VersionInv, ChangePassword, rows
<1>12. CASE RevokeSessions
  <2>1. api.user \in Users /\ api' = Idle /\ UNCHANGED <<version, token>>
    BY <1>12, Serving DEF RevokeSessions, users, Idle
  <2>2. CASE UNCHANGED <<session, swept>>
    BY <1>1, <1>3, <2>1, <2>2 DEF VersionInv, Idle
  <2>3. CASE Revoke(SessionsOf(api.user)) /\ Sweep(api.user)
    BY <1>2, <2>1, <2>3
  <2> QED BY <1>12, <2>2, <2>3 DEF RevokeSessions, Audit
<1>13. CASE ApiEnds
  BY <1>1, <1>3, <1>13 DEF VersionInv, ApiEnds, Idle, users, rows
<1>14. ASSUME NEW u \in Users, ResetPassword(u) PROVE VersionInv'
  <2>1. SweptInv'
    BY <1>i, <1>14 DEF ResetPassword, SweptInv, NoneOlder, SessionsOf, rows, TypeOK
  <2> QED BY <1>3, <1>14, <2>1 DEF VersionInv, ResetPassword, rows
<1>15. CASE (\E u \in Users : CreateUser(u) \/ DeactivateUser(u)) \/ UNCHANGED vars
  BY <1>1, <1>3, <1>15 DEF VersionInv, CreateUser, DeactivateUser, users, rows, vars
<1> QED
  BY <1>5, <1>6, <1>7, <1>8, <1>9, <1>10, <1>11, <1>12, <1>13, <1>14, <1>15 DEF Next, Handle

(***************************************************************************)
(* Once a revocation of all of a user's sessions is committed, no session  *)
(* of an older password is active, then or ever, whatever commit failed    *)
(* before and whatever the command line did.                               *)
(***************************************************************************)
THEOREM OldSessions == Spec => []OldSessionsEnd
<1>1. Init => TypeOK /\ VersionInv
  BY TypesInit, VersionInit
<1>2. TypeOK /\ VersionInv /\ [Next]_vars => TypeOK' /\ VersionInv'
  BY TypesStep, VersionStep
<1>3. VersionInv => OldSessionsEnd
  BY DEF VersionInv, SweptInv, NoneOlder, OldSessionsEnd
<1> QED BY <1>1, <1>2, <1>3, PTL DEF Spec

-----------------------------------------------------------------------------
(***************************************************************************)
(* Every user's audit rows are as many as their access sessions.           *)
(***************************************************************************)
AccessOf(u) == {j \in SessionsOf(u) : session[j].kind = "access"}
AuditInv == \A u \in Users : audited[u] = Cardinality(AccessOf(u))

LEMMA AuditInit == Init => AuditInv
<1> SUFFICES ASSUME Init, NEW u \in Users PROVE audited[u] = Cardinality(AccessOf(u))
  BY DEF AuditInv
<1>1. AccessOf(u) = {} /\ audited[u] = 0
  BY DEF Init, AccessOf, SessionsOf
<1> QED BY <1>1, FS_EmptySet

LEMMA StoredAudited ==
    ASSUME TypeOK, SessionOfToken, AuditInv, NEW u \in Users,
           NEW js \in SUBSET Unused, NEW a \in js,
           NEW tokens, DOMAIN tokens = js, tokens[a].kind = "access",
           \A j \in js \ {a} : tokens[j].kind # "access",
           Store(tokens, u)
    PROVE  AuditInv'
<1>1. \A j \in js : session[j] = None
  BY DEF SessionOfToken, Unused
<1>2. \A j \in Jtis \ js : session'[j] = session[j]
  BY DEF Store
<1>3. \A j \in js : session'[j] # None /\ session'[j].user = u
                    /\ session'[j].kind = tokens[j].kind
  BY DEF Store, Unused, None
<1>4. audited' = [audited EXCEPT ![u] = @ + 1]
  BY DEF Store
<1> SUFFICES ASSUME NEW v \in Users PROVE audited'[v] = Cardinality(AccessOf(v))'
  BY DEF AuditInv
<1>5. audited[v] = Cardinality(AccessOf(v))
  BY DEF AuditInv
<1>6. CASE v # u
  <2>1. AccessOf(v)' = AccessOf(v)
    BY <1>1, <1>2, <1>3, <1>6 DEF AccessOf, SessionsOf, Unused
  <2>2. audited'[v] = audited[v]
    BY <1>4, <1>6 DEF TypeOK
  <2> QED BY <1>5, <2>1, <2>2
<1>7. CASE v = u
  <2>1. AccessOf(v)' = AccessOf(v) \cup {a}
    BY <1>1, <1>2, <1>3, <1>7 DEF AccessOf, SessionsOf, Unused
  <2>2. a \notin AccessOf(v)
    BY <1>1 DEF AccessOf, SessionsOf
  <2>3. IsFiniteSet(AccessOf(v))
    BY SessionAssumption, FS_Subset DEF AccessOf, SessionsOf
  <2>4. Cardinality(AccessOf(v) \cup {a}) = Cardinality(AccessOf(v)) + 1
    BY <2>2, <2>3, FS_AddElement
  <2>5. audited'[v] = audited[v] + 1
    BY <1>4, <1>7 DEF TypeOK
  <2> QED BY <1>5, <2>1, <2>4, <2>5
<1> QED BY <1>6, <1>7

LEMMA AuditStep == TypeOK /\ SessionOfToken /\ AuditInv /\ [Next]_vars => AuditInv'
<1> SUFFICES ASSUME TypeOK, SessionOfToken, AuditInv, [Next]_vars PROVE AuditInv'
  OBVIOUS
<1>1. ASSUME UNCHANGED rows PROVE AuditInv'
  BY <1>1 DEF AuditInv, AccessOf, SessionsOf, rows
<1>2. ASSUME UNCHANGED audited, NEW js, Revoke(js) PROVE AuditInv'
  <2>1. \A u \in Users : AccessOf(u)' = AccessOf(u)
    BY <1>2, RevokedFields DEF AccessOf, SessionsOf
  <2> QED BY <1>2, <2>1 DEF AuditInv
<1>3. CASE LoginTokens
  <2> DEFINE tokens(a, r) ==
        [j \in {a, r} |-> NewToken(IF j = a THEN "access" ELSE "refresh", api.user)]
  <2>1. PICK a \in Unused, r \in Unused :
            /\ r # a
            /\ api.pc = "login" /\ Audit(Store(tokens(a, r), api.user), UNCHANGED rows)
    BY <1>3 DEF LoginTokens
  <2>2. api.user \in Users
    BY <2>1, Serving DEF Idle
  <2>3. tokens(a, r)[a].kind = "access" /\ \A j \in {a, r} \ {a} : tokens(a, r)[j].kind # "access"
    BY DEF NewToken
  <2>4. CASE Store(tokens(a, r), api.user)
    <3> DEFINE t == tokens(a, r)
               js == {a, r}
    <3>1. js \in SUBSET Unused /\ a \in js /\ DOMAIN t = js
      OBVIOUS
    <3>2. t[a].kind = "access" /\ (\A j \in js \ {a} : t[j].kind # "access") /\ Store(t, api.user)
      BY <2>3, <2>4
    <3> HIDE DEF t, js
    <3> QED BY <2>2, <3>1, <3>2, StoredAudited
  <2> QED BY <1>1, <2>1, <2>4 DEF Audit
<1>4. CASE RefreshToken
  <2> DEFINE tokens(a) == [j \in {a} |-> NewToken("access", api.user)]
  <2>1. PICK a \in Unused :
            /\ api.pc = "refresh" /\ Audit(Store(tokens(a), api.user), UNCHANGED rows)
    BY <1>4 DEF RefreshToken
  <2>2. api.user \in Users
    BY <2>1, Serving DEF Idle
  <2>3. tokens(a)[a].kind = "access" /\ \A j \in {a} \ {a} : tokens(a)[j].kind # "access"
    BY DEF NewToken
  <2>4. CASE Store(tokens(a), api.user)
    BY <2>2, <2>3, <2>4, StoredAudited
  <2> QED BY <1>1, <2>1, <2>4 DEF Audit
<1>5. CASE RevokeSessions \/ \E j \in Jtis, all \in BOOLEAN : Logout(j, all)
  BY <1>1, <1>2, <1>5 DEF RevokeSessions, Logout, Audit, rows
<1>6. CASE \/ \E u \in Users :
                LoginVerified(u) \/ CreateUser(u) \/ ResetPassword(u) \/ DeactivateUser(u)
           \/ \E j \in Jtis : RefreshChecked(j) \/ ChangePassword(j)
           \/ ApiEnds \/ Tick \/ UNCHANGED vars
  BY <1>1, <1>6 DEF LoginVerified, CreateUser, ResetPassword, DeactivateUser, RefreshChecked,
                    ChangePassword, ApiEnds, Tick, vars, rows
<1> QED BY <1>3, <1>4, <1>5, <1>6 DEF Next, Handle

(***************************************************************************)
(* Access sessions and the audit rows of logins and refreshes come and go  *)
(* together, whatever commit fails.                                        *)
(***************************************************************************)
THEOREM AuditedSessions == Spec => []SessionsAreAudited
<1>1. Init => TypeOK /\ VersionInv /\ AuditInv
  BY TypesInit, VersionInit, AuditInit
<1>2. TypeOK /\ VersionInv /\ AuditInv /\ [Next]_vars => TypeOK' /\ VersionInv' /\ AuditInv'
  BY TypesStep, VersionStep, AuditStep DEF VersionInv
<1>3. AuditInv => SessionsAreAudited
  BY DEF AuditInv, AccessOf, SessionsAreAudited
<1> QED BY <1>1, <1>2, <1>3, PTL DEF Spec

-----------------------------------------------------------------------------
(***************************************************************************)
(* Passwords of every length.  The number of classes is the sum over the   *)
(* four, and the rest is arithmetic.                                       *)
(***************************************************************************)
Has(C, class) == IF class \in C THEN 1 ELSE 0

LEMMA OneMore ==
    ASSUME NEW C, NEW S, IsFiniteSet(C), NEW class, class \notin S
    PROVE  Cardinality(C \cap (S \cup {class})) = Cardinality(C \cap S) + Has(C, class)
<1>1. IsFiniteSet(C \cap S)
  BY FS_Intersection
<1>2. CASE class \in C
  <2>1. C \cap (S \cup {class}) = (C \cap S) \cup {class}
    BY <1>2, Zenon
  <2>2. class \notin C \cap S /\ Cardinality(C \cap S) \in Nat
    BY <1>1, FS_CardinalityType
  <2>3. Cardinality((C \cap S) \cup {class}) = Cardinality(C \cap S) + 1
    BY <1>1, <2>2, FS_AddElement
  <2> QED BY <1>2, <2>1, <2>3 DEF Has
<1>3. CASE class \notin C
  <2>1. C \cap (S \cup {class}) = C \cap S
    BY <1>3, Zenon
  <2>2. Cardinality(C \cap S) \in Nat
    BY <1>1, FS_CardinalityType
  <2>3. Cardinality(C \cap (S \cup {class})) = Cardinality(C \cap S)
    BY <2>1
  <2> QED BY <1>3, <2>2, <2>3 DEF Has
<1> QED BY <1>2, <1>3

LEMMA PairIsFinite == ASSUME NEW x, NEW y PROVE IsFiniteSet({x, y})
<1>1. {x, y} = {x} \cup {y}
  OBVIOUS
<1>2. IsFiniteSet({x})
  BY FS_Singleton, Zenon
<1> QED BY <1>1, <1>2, FS_AddElement, Zenon

LEMMA CountOfClasses ==
    ASSUME NEW C \in SUBSET Classes
    PROVE  Cardinality(C) = Has(C, "upper") + Has(C, "lower") + Has(C, "digit") + Has(C, "special")
<1>1. IsFiniteSet(C)
  <2>1. IsFiniteSet({"upper", "lower"})
    BY PairIsFinite
  <2>2. IsFiniteSet({"digit", "special"})
    BY PairIsFinite
  <2>3. Classes = {"upper", "lower"} \cup {"digit", "special"}
    BY DEF Classes
  <2> QED BY <2>1, <2>2, <2>3, FS_Union, FS_Subset
<1>2. Cardinality(C \cap {}) = 0
  BY FS_EmptySet
<1>3. Cardinality(C \cap {"upper"}) = Has(C, "upper")
  <2>1. {"upper"} = {} \cup {"upper"}
    OBVIOUS
  <2> QED BY <1>1, <1>2, <2>1, OneMore DEF Has
<1>4. Cardinality(C \cap {"upper", "lower"}) = Cardinality(C \cap {"upper"}) + Has(C, "lower")
  <2>1. {"upper", "lower"} = {"upper"} \cup {"lower"}
    OBVIOUS
  <2> QED BY <1>1, <2>1, OneMore
<1>5. Cardinality(C \cap {"upper", "lower", "digit"})
      = Cardinality(C \cap {"upper", "lower"}) + Has(C, "digit")
  <2>1. {"upper", "lower", "digit"} = {"upper", "lower"} \cup {"digit"}
    OBVIOUS
  <2> QED BY <1>1, <2>1, OneMore
<1>6. Cardinality(C \cap Classes)
      = Cardinality(C \cap {"upper", "lower", "digit"}) + Has(C, "special")
  <2>1. Classes = {"upper", "lower", "digit"} \cup {"special"}
    BY DEF Classes
  <2> QED BY <1>1, <2>1, OneMore
<1>7. C \cap Classes = C
  OBVIOUS
<1> QED BY <1>3, <1>4, <1>5, <1>6, <1>7

(***************************************************************************)
(* What "strong" means, for passwords of every length.                     *)
(***************************************************************************)
THEOREM StrongPasswords == \A p \in Written : StrongMeans(p)
<1> SUFFICES ASSUME NEW p \in Written PROVE StrongMeans(p)
  OBVIOUS
<1>1. p.length \in Nat /\ p.classes \in SUBSET Classes
  BY DEF Written, Passwords
<1>2. Cardinality(p.classes) = Has(p.classes, "upper") + Has(p.classes, "lower")
                               + Has(p.classes, "digit") + Has(p.classes, "special")
  BY <1>1, CountOfClasses
<1> QED BY <1>1, <1>2
        DEF StrongMeans, is_password_strong, get_password_strength_score, Points, Has

(***************************************************************************)
(* The request schema alone decides what the API takes, and the prompts of *)
(* the command line take all of it, for passwords of every length.         *)
(***************************************************************************)
THEOREM ApiPasswords == \A p \in Written : ApiIsStricter(p)
<1> SUFFICES ASSUME NEW p \in Written PROVE ApiIsStricter(p)
  OBVIOUS
<1>1. p.length \in Nat /\ p.classes \in SUBSET Classes
  BY DEF Written, Passwords
<1> QED BY <1>1 DEF ApiIsStricter, ApiTakes, PromptTakes, ChangePasswordRequest,
                    is_password_strong, get_password_strength_score, Points

(***************************************************************************)
(* No character and no class that is added makes a password weaker, and    *)
(* only the strongest reach the cap.                                       *)
(***************************************************************************)
THEOREM ScoreMonotone == /\ \A p, q \in Written : ScoreGrows(p, q)
                         /\ \A p \in Written : FullScore(p)
<1> USE DEF get_password_strength_score, Points
<1>1. ASSUME NEW p \in Written, NEW q \in Written PROVE ScoreGrows(p, q)
  BY DEF ScoreGrows, Written, Passwords
<1>2. ASSUME NEW p \in Written PROVE FullScore(p)
  <2>1. p.length \in Nat /\ (p.classes = Classes <=> /\ "upper" \in p.classes /\ "lower" \in p.classes
                                     /\ "digit" \in p.classes /\ "special" \in p.classes)
    BY DEF Written, Passwords, Classes
  <2> QED BY <2>1 DEF FullScore
<1> QED BY <1>1, <1>2
=============================================================================

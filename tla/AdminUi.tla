------------------------------ MODULE AdminUi ------------------------------
(***************************************************************************)
(* One tab of the admin interface.  Its handlers are coroutines: between   *)
(* the requests of one, other clicks are handled and other answers arrive; *)
(* all of them share the token, the page, the lists and the one element    *)
(* that is rendered.  A request may fail at any time: no connection, a     *)
(* session that ended, or the import of dependencies.py:38, which at this  *)
(* commit fails every request but the sign-in.                             *)
(***************************************************************************)
EXTENDS Naturals

CONSTANTS
    Users,      \* the roles of those who use the tab
    Lists,      \* what refreshAll asks for, one request each
    Handlers,   \* bound: handlers that wait at the same time
    MaxChanges, \* bound: changes of the database
    MaxLoads    \* bound: how often the tab is loaded

Roles == {"admin", "operator", "reviewer", "viewer"}
Pages == {"overview", "segments", "campaigns", "paused", "monitoring", "settings"}
CanAccess(p, role) ==
    CASE role = "admin"    -> p \in Pages
      [] role = "viewer"   -> p \in {"overview", "monitoring", "settings"}
      [] role = "reviewer" -> p \in Pages \ {"segments"}
      [] role = "operator" -> p \in Pages
      [] OTHER             -> FALSE

\* The buttons of a page, and whom the API lets press them (require_roles).
Buttons(p) ==
    CASE p = "segments"  -> {"createSegment", "gen-segment"}
      [] p = "campaigns" -> {"createCampaign", "approve-campaign", "pause-campaign",
                             "gen-campaign", "dispatch-campaign"}
      [] p = "paused"    -> {"approve-job", "retry-job", "reject-job"}
      [] OTHER           -> {}
Granted(button) ==
    CASE button \in {"approve-campaign", "approve-job", "reject-job"} -> {"admin", "reviewer"}
      [] button = "retry-job" -> {"admin", "operator", "reviewer"}
      [] OTHER                -> {"admin", "operator"}

\* Whoever the API lets press a button has a page with it.
ASSUME GrantedIsReachable == \A role \in Roles, p \in Pages : \A button \in Buttons(p) :
    role \in Granted(button) => CanAccess(p, role)

ASSUME UsersAssumption == Users \subseteq Roles
ASSUME BoundsAssumption == MaxChanges \in Nat /\ MaxLoads \in Nat

VARIABLES
    auth,     \* role of state.auth, or None
    stored,   \* role of the auth in the localStorage, or None
    page,     \* state.page
    lists,    \* the change of the database that each list was read after
    view,     \* what is rendered: nothing yet, the sign-in, or a page for a role
    handler,  \* where each handler waits
    changes,  \* changes of the database
    loads

vars == <<auth, stored, page, lists, view, handler, changes, loads>>

None == "none"
Unread == MaxChanges + 1
Empty == [l \in Lists |-> 0]
Waiting(kind, at, role) ==
    [kind |-> kind, at |-> at, role |-> role, change |-> 0, got |-> [l \in Lists |-> Unread]]
Done == Waiting("init", "done", None)
Page(p, role) == [page |-> p, role |-> role]
Blank == Page("blank", None)
SignIn == Page("login", None)
Shown == view.page \in Pages

Init ==
    /\ auth \in Users \cup {None} /\ stored = auth /\ page = "overview" /\ lists = Empty
    /\ changes = 0 /\ loads = 1
    /\ IF auth = None
       THEN view = SignIn /\ handler = [h \in Handlers |-> Done]
       ELSE view = Blank /\ \E i \in Handlers : handler =
                [h \in Handlers |-> IF h = i THEN Waiting("init", "refresh", auth) ELSE Done]

-----------------------------------------------------------------------------
(***************************************************************************)
(* What is rendered.  Variants: without a look at the role, or the token.  *)
(***************************************************************************)
RenderAnyPage(p) ==
    /\ page' = p /\ view' = IF auth' = None THEN SignIn ELSE Page(p, auth')
RenderAtOnce(p) ==
    /\ page' = IF CanAccess(p, auth') THEN p ELSE "overview"
    /\ view' = Page(page', auth')
RenderApp(p) ==
    IF auth' = None THEN view' = SignIn /\ page' = p
    ELSE /\ page' = IF CanAccess(p, auth') THEN p ELSE "overview"
         /\ view' = Page(page', auth')

Start(h, w) == handler[h].at = "done" /\ handler' = [handler EXCEPT ![h] = w]
Loading(h) == handler[h].kind = "init" /\ handler[h].at = "refresh"
End(h) == handler' = [handler EXCEPT ![h] = Done]

-----------------------------------------------------------------------------
(* Clicks. *)
ClickLogin(h, role) ==
    /\ view = SignIn /\ Start(h, Waiting("login", "request", role))
    /\ UNCHANGED <<auth, stored, page, lists, view, changes, loads>>

ClickNav(p) ==
    /\ Shown /\ CanAccess(p, view.role) /\ UNCHANGED auth /\ RenderApp(p)
    /\ UNCHANGED <<stored, lists, handler, changes, loads>>

\* The server is not told.
ClickLogout ==
    /\ Shown /\ auth' = None /\ stored' = None /\ view' = SignIn
    /\ UNCHANGED <<page, lists, handler, changes, loads>>

\* A button that the role is not granted fails and changes nothing.
ClickButton(h, button) ==
    /\ Shown /\ button \in Buttons(view.page)
    /\ auth \in Granted(button) /\ Start(h, Waiting("button", "request", auth))
    /\ UNCHANGED <<auth, stored, page, lists, view, changes, loads>>

\* The tab is loaded again: the handlers are gone, init runs.
Reload(h) ==
    /\ auth' = stored /\ page' = "overview" /\ lists' = Empty
    /\ view' = IF stored = None THEN SignIn ELSE Blank
    /\ handler' = [i \in Handlers |->
           IF i = h /\ stored # None THEN Waiting("init", "refresh", stored) ELSE Done]
    /\ loads < MaxLoads /\ loads' = loads + 1 /\ UNCHANGED <<stored, changes>>

-----------------------------------------------------------------------------
(* Requests and answers. *)
ServeButton(h) ==
    /\ handler[h].kind = "button" /\ handler[h].at = "request" /\ changes < MaxChanges
    /\ changes' = changes + 1
    /\ handler' = [handler EXCEPT ![h].at = "answered", ![h].change = changes']
    /\ UNCHANGED <<auth, stored, page, lists, view, loads>>

\* refreshAll takes the token of this moment, which may be another one.
ButtonAnswered(h) ==
    /\ handler[h].at = "answered"
    /\ handler' = [handler EXCEPT ![h].at = "refresh", ![h].role = auth]
    /\ UNCHANGED <<auth, stored, page, lists, view, changes, loads>>

LoginAnswered(h) ==
    /\ handler[h].kind = "login" /\ handler[h].at = "request"
    /\ auth' = handler[h].role /\ stored' = auth'
    /\ handler' = [handler EXCEPT ![h].at = "refresh"]
    /\ UNCHANGED <<page, lists, view, changes, loads>>

\* Variant: the lists are asked for together with the button's request.
ServeListAtOnce(h, l) ==
    /\ handler[h].at \in {"request", "answered", "refresh"} /\ handler[h].role # None
    /\ handler[h].got[l] = Unread
    /\ handler' = [handler EXCEPT ![h].got[l] = changes]
    /\ UNCHANGED <<auth, stored, page, lists, view, changes, loads>>
ServeList(h, l) ==
    /\ handler[h].at = "refresh" /\ handler[h].role # None /\ handler[h].got[l] = Unread
    /\ handler' = [handler EXCEPT ![h].got[l] = changes]
    /\ UNCHANGED <<auth, stored, page, lists, view, changes, loads>>

\* Variant: the lists that have arrived are rendered.
RefreshedEarly(h) ==
    /\ handler[h].at = "refresh" /\ handler[h].role # None
    /\ lists' = handler[h].got /\ UNCHANGED auth /\ RenderApp(page) /\ End(h)
    /\ UNCHANGED <<stored, changes, loads>>
Refreshed(h) ==
    /\ handler[h].at = "refresh" /\ \A l \in Lists : handler[h].got[l] # Unread
    /\ lists' = handler[h].got /\ UNCHANGED auth /\ RenderApp(page) /\ End(h)
    /\ UNCHANGED <<stored, changes, loads>>

\* A request fails, or its answer is lost: nobody catches it for a button; the
\* sign-in shows the error; init forgets the token.
\* Variants: init tries again; init leaves the page as it is.
FailInitAgain(h) ==
    LET w == handler[h] init == w.kind = "init" IN
    /\ w.at # "done" /\ UNCHANGED <<auth, stored, page, lists, changes, loads>>
    /\ handler' = [handler EXCEPT ![h] = IF init THEN Waiting("init", "refresh", w.role) ELSE Done]
    /\ view' = IF w.kind = "login" THEN SignIn ELSE view
FailQuietly(h) ==
    /\ handler[h].at # "done" /\ End(h) /\ UNCHANGED <<page, lists, changes, loads>>
    /\ view' = IF handler[h].kind = "login" THEN SignIn ELSE view
    /\ IF handler[h].kind = "init" THEN auth' = None /\ stored' = None
                                   ELSE UNCHANGED <<auth, stored>>
Fail(h) ==
    /\ handler[h].at # "done" /\ End(h) /\ UNCHANGED <<page, lists, changes, loads>>
    /\ view' = IF handler[h].kind = "button" THEN view ELSE SignIn
    /\ IF handler[h].kind = "init" THEN auth' = None /\ stored' = None
                                   ELSE UNCHANGED <<auth, stored>>

OtherChange ==
    /\ changes < MaxChanges /\ changes' = changes + 1
    /\ UNCHANGED <<auth, stored, page, lists, view, handler, loads>>

-----------------------------------------------------------------------------
Step(h) ==
    \/ ServeButton(h) \/ ButtonAnswered(h) \/ LoginAnswered(h) \/ Refreshed(h) \/ Fail(h)
    \/ \E l \in Lists : ServeList(h, l)
Click(h) ==
    \/ \E role \in Users : ClickLogin(h, role)
    \/ \E p \in Pages : \E button \in Buttons(p) : ClickButton(h, button)
    \/ Reload(h)
Next ==
    \/ \E h \in Handlers : Click(h) \/ Step(h)
    \/ \E p \in Pages : ClickNav(p)
    \/ ClickLogout \/ OtherChange
Spec == Init /\ [][Next]_vars

\* A request is answered or its connection fails.
FairSpec == Spec /\ \A h \in Handlers : WF_vars(Step(h))

-----------------------------------------------------------------------------
TypeOK ==
    /\ auth \in Users \cup {None} /\ stored \in Users \cup {None} /\ page \in Pages
    /\ lists \in [Lists -> 0..MaxChanges] /\ changes \in 0..MaxChanges /\ loads \in Nat
    /\ view \in {Blank, SignIn} \cup [page : Pages, role : Users]
    /\ handler \in [Handlers ->
           [kind : {"init", "login", "button"}, at : {"request", "answered", "refresh", "done"},
            role : Users \cup {None}, change : 0..MaxChanges, got : [Lists -> 0..Unread]]]

(***************************************************************************)
(* A page is only shown while there is a token, the one that a reload      *)
(* finds: no answer that arrives after a logout, or after a failed init,   *)
(* brings the pages back (shell reads the role of a token that must be     *)
(* there).                                                                 *)
(***************************************************************************)
ShownHasToken == Shown => auth # None /\ stored = auth

(***************************************************************************)
(* Nobody sees a page that their role may not open, whoever used the tab   *)
(* before and wherever they left it.                                       *)
(***************************************************************************)
OwnPages == Shown => CanAccess(view.page, view.role)

(***************************************************************************)
(* When the handler of a button renders, every list was read after the     *)
(* change that the button made, whatever other handlers did in between.    *)
(***************************************************************************)
ShowsItsChange == [][\A h \in Handlers :
    handler[h].kind = "button" /\ Refreshed(h) =>
        \A l \in Lists : lists'[l] >= handler[h].change]_vars

(***************************************************************************)
(* A tab that shows nothing yet is still loading: no answer, failure or    *)
(* click leaves it blank with nobody left to render it (init catches what  *)
(* refreshAll throws).                                                     *)
(***************************************************************************)
BlankIsLoading == view = Blank => \E h \in Handlers : Loading(h)

(***************************************************************************)
(* A tab that is loaded shows something in the end, also if the token it   *)
(* finds is no longer good.                                                *)
(***************************************************************************)
LoadEnds == view = Blank ~> view # Blank
=============================================================================

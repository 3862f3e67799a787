--------------------------- MODULE AdminUiProofs ---------------------------
(***************************************************************************)
(* The tab, for any users, any lists and any number of handlers that wait  *)
(* at the same time.  Whatever one handler assigns it assigns to the token *)
(* and to its stored copy together, and what it renders it renders from    *)
(* the token of that moment; so the only thing to carry along is what each *)
(* waiting handler may hold (Tasks).                                       *)
(***************************************************************************)
EXTENDS AdminUi, TLAPS

Kinds == {"init", "login", "button"}
Places == {"request", "answered", "refresh", "done"}
Shapes == [kind : Kinds, at : Places, role : Users \cup {None}, change : 0..MaxChanges,
           got : [Lists -> 0..Unread]]

\* What a handler holds after so many changes: init only refreshes, a sign-in knows its user, and a
\* button has read no list before its change.
Holds(w, now) ==
    /\ w.change <= now
    /\ w.kind = "init" => w.at \in {"refresh", "done"}
    /\ w.kind = "login" => w.role \in Users /\ w.at # "answered"
    /\ w.kind = "button" => \A l \in Lists :
           /\ w.got[l] >= w.change
           /\ w.at # "refresh" => w.got[l] = Unread
Tasks == \A h \in Handlers : Holds(handler[h], changes)

SameToken == stored = auth /\ ShownHasToken
IInv == TypeOK /\ SameToken /\ OwnPages /\ BlankIsLoading /\ Tasks

-----------------------------------------------------------------------------
(***************************************************************************)
(* Whoever has a token sees the overview, and renderApp leaves a page that *)
(* they may not open for it.                                               *)
(***************************************************************************)
LEMMA Overview == \A role \in Roles : CanAccess("overview", role)
  BY DEF CanAccess, Roles, Pages

LEMMA NoneIsNoRole == None \notin Users
  BY UsersAssumption DEF None, Roles

LEMMA Waits ==
  ASSUME NEW kind \in Kinds, NEW at \in Places, NEW role \in Users \cup {None}
  PROVE  Waiting(kind, at, role) \in Shapes
  <1>1. Unread \in 0..Unread /\ 0 \in 0..MaxChanges
    BY BoundsAssumption DEF Unread
  <1> QED BY <1>1 DEF Waiting, Shapes

LEMMA DoneHolds ==
  ASSUME TypeOK PROVE Done \in Shapes /\ Holds(Done, changes)
  <1>1. Done \in Shapes
    BY Waits DEF Done, Kinds, Places
  <1> QED BY <1>1, BoundsAssumption DEF Done, Waiting, Holds, TypeOK

LEMMA Rendered ==
  ASSUME auth' \in Users \cup {None}, NEW p \in Pages, RenderApp(p)
  PROVE  /\ page' \in Pages
         /\ view' \in {SignIn} \cup [page : Pages, role : Users]
         /\ Shown' => auth' # None /\ CanAccess(view'.page, view'.role)
         /\ view' # Blank
  <1>1. CASE auth' = None
    BY <1>1 DEF RenderApp, SignIn, Blank, Page, Shown, Pages
  <1>2. CASE auth' # None
    <2>1. auth' \in Roles
      BY <1>2, UsersAssumption
    <2>2. "overview" \in Pages
      BY DEF Pages
    <2>3. page' \in Pages /\ CanAccess(page', auth') /\ view' = Page(page', auth')
      BY <1>2, <2>1, <2>2, Overview DEF RenderApp
    <2> QED BY <1>2, <2>3 DEF Page, Blank, SignIn, Pages
  <1> QED BY <1>1, <1>2

-----------------------------------------------------------------------------
LEMMA InitInv == Init => IInv
  <1> SUFFICES ASSUME Init PROVE IInv
    OBVIOUS
  <1> USE BoundsAssumption, UsersAssumption
  <1>1. Blank \notin [page : Pages, role : Users] /\ ~(SignIn.page \in Pages)
        /\ ~(Blank.page \in Pages) /\ SignIn # Blank
    BY DEF Blank, SignIn, Page, Pages
  <1>2. lists \in [Lists -> 0..MaxChanges] /\ page \in Pages
    BY DEF Init, Empty, Pages
  <1>3. CASE auth = None
    <2>1. view = SignIn /\ handler = [h \in Handlers |-> Done]
      BY <1>3 DEF Init
    <2>2. Done \in Shapes
      BY Waits DEF Done, Kinds, Places
    <2>3. TypeOK
      BY <1>2, <2>1, <2>2 DEF Init, TypeOK, Shapes, Kinds, Places
    <2>4. Tasks
      BY <2>1, <2>3, DoneHolds DEF Tasks
    <2> QED BY <1>1, <2>1, <2>3, <2>4
            DEF Init, IInv, SameToken, ShownHasToken, OwnPages, BlankIsLoading, Shown
  <1>4. CASE auth # None
    <2>1. PICK i \in Handlers : view = Blank /\ handler =
              [h \in Handlers |-> IF h = i THEN Waiting("init", "refresh", auth) ELSE Done]
      BY <1>4 DEF Init
    <2>2. Done \in Shapes /\ Waiting("init", "refresh", auth) \in Shapes
      BY Waits DEF Init, Done, Kinds, Places
    <2>3. TypeOK
      BY <1>2, <2>1, <2>2 DEF Init, TypeOK, Shapes, Kinds, Places
    <2>4. Tasks
      BY <2>1, <2>3, DoneHolds DEF Tasks, Holds, Waiting, Init
    <2>5. BlankIsLoading
      BY <2>1 DEF BlankIsLoading, Loading, Waiting
    <2> QED BY <1>1, <2>1, <2>3, <2>4, <2>5
            DEF Init, IInv, SameToken, ShownHasToken, OwnPages, Shown
  <1> QED BY <1>3, <1>4

(***************************************************************************)
(* A step that replaces what one handler holds, and leaves the page alone. *)
(***************************************************************************)
LEMMA Replaced ==
  ASSUME IInv, NEW h \in Handlers, NEW w \in Shapes,
         handler' = [handler EXCEPT ![h] = w],
         changes' \in 0..MaxChanges, changes' >= changes, Holds(w, changes')
  PROVE  handler' \in [Handlers -> Shapes] /\ Tasks'
  <1>1. handler \in [Handlers -> Shapes] /\ changes \in 0..MaxChanges
    BY DEF IInv, TypeOK, Shapes, Kinds, Places
  <1>2. handler'[h] = w /\ \A i \in Handlers : i # h => handler'[i] = handler[i]
    BY <1>1
  <1>3. \A i \in Handlers : i # h => Holds(handler[i], changes)'
    <2> SUFFICES ASSUME NEW i \in Handlers, i # h PROVE Holds(handler[i], changes)'
      OBVIOUS
    <2>1. Holds(handler[i], changes) /\ handler'[i] = handler[i] /\ handler[i] \in Shapes
      BY <1>1, <1>2 DEF IInv, Tasks
    <2> QED BY <1>1, <2>1, BoundsAssumption DEF Holds, Shapes
  <1> QED BY <1>1, <1>2, <1>3 DEF Tasks

\* A step that the user does not see.
LEMMA Behind ==
  ASSUME IInv, UNCHANGED <<auth, stored, page, lists, view, loads>>,
         handler' \in [Handlers -> Shapes], changes' \in 0..MaxChanges, Tasks',
         \A i \in Handlers : Loading(i) => Loading(i)'
  PROVE  IInv'
  <1>1. TypeOK'
    BY DEF IInv, TypeOK, Shapes, Kinds, Places, Blank, SignIn, Page
  <1>2. SameToken' /\ OwnPages'
    BY DEF IInv, SameToken, ShownHasToken, OwnPages, Shown
  <1>3. BlankIsLoading'
    BY DEF IInv, BlankIsLoading, Blank, Page
  <1> QED BY <1>1, <1>2, <1>3 DEF IInv

LEMMA HeldType ==
  ASSUME IInv, NEW h \in Handlers
  PROVE  handler[h] \in Shapes /\ Holds(handler[h], changes) /\ changes \in 0..MaxChanges
         /\ changes >= changes /\ MaxChanges \in Nat
         /\ auth \in Users \cup {None} /\ handler \in [Handlers -> Shapes]
  BY BoundsAssumption DEF IInv, TypeOK, Tasks, Shapes, Kinds, Places

-----------------------------------------------------------------------------
(* Clicks. *)
LEMMA StartInv ==
  ASSUME IInv, NEW h \in Handlers, NEW kind \in {"login", "button"},
         NEW role \in Users, Start(h, Waiting(kind, "request", role)),
         UNCHANGED <<auth, stored, page, lists, view, changes, loads>>
  PROVE  IInv'
  <1> DEFINE w == Waiting(kind, "request", role)
  <1>1. w \in Shapes
    BY Waits DEF Kinds, Places
  <1>2. Holds(w, changes')
    BY HeldType, BoundsAssumption DEF Holds, Waiting, Unread
  <1>3. handler' \in [Handlers -> Shapes] /\ Tasks'
    BY <1>1, <1>2, Replaced, HeldType DEF Start
  <1>4. \A i \in Handlers : Loading(i) => Loading(i)'
    BY HeldType DEF Start, Loading
  <1> QED BY <1>3, <1>4, Behind, HeldType

LEMMA ClickLoginInv ==
  ASSUME IInv, NEW h \in Handlers, NEW role \in Users, ClickLogin(h, role) PROVE IInv'
  BY StartInv DEF ClickLogin

LEMMA ClickButtonInv ==
  ASSUME IInv, NEW h \in Handlers, NEW p \in Pages, NEW button \in Buttons(p),
         ClickButton(h, button)
  PROVE  IInv'
  <1>1. auth \in Users
    BY HeldType DEF IInv, SameToken, ShownHasToken, ClickButton
  <1> QED BY <1>1, StartInv DEF ClickButton

LEMMA ClickNavInv == ASSUME IInv, NEW p \in Pages, ClickNav(p) PROVE IInv'
  <1>1. auth' \in Users \cup {None} /\ RenderApp(p) /\ UNCHANGED <<auth, stored, lists, handler, changes, loads>>
    BY DEF IInv, TypeOK, ClickNav
  <1>2. /\ page' \in Pages /\ view' \in {SignIn} \cup [page : Pages, role : Users]
        /\ Shown' => auth' # None /\ CanAccess(view'.page, view'.role)
        /\ view' # Blank
    BY <1>1, Rendered
  <1>3. TypeOK'
    BY <1>1, <1>2 DEF IInv, TypeOK, SignIn, Page
  <1>4. Tasks'
    BY <1>1 DEF IInv, Tasks, Holds
  <1> QED BY <1>1, <1>2, <1>3, <1>4
          DEF IInv, SameToken, ShownHasToken, OwnPages, BlankIsLoading, Shown, Blank, Page

LEMMA ClickLogoutInv == ASSUME IInv, ClickLogout PROVE IInv'
  <1>1. TypeOK'
    BY DEF IInv, TypeOK, ClickLogout, SignIn, Page
  <1>2. Tasks'
    BY DEF IInv, Tasks, Holds, ClickLogout
  <1>3. ~Shown' /\ view' # Blank
    BY DEF ClickLogout, Shown, SignIn, Blank, Page, Pages
  <1> QED BY <1>1, <1>2, <1>3
          DEF IInv, ClickLogout, SameToken, ShownHasToken, OwnPages, BlankIsLoading, Blank, Page, Shown

LEMMA ReloadInv == ASSUME IInv, NEW h \in Handlers, Reload(h) PROVE IInv'
  <1> DEFINE w == Waiting("init", "refresh", stored)
  <1>1. stored \in Users \cup {None} /\ w \in Shapes /\ Done \in Shapes
    BY Waits DEF IInv, TypeOK, Kinds, Places, Done
  <1>2. handler' = [i \in Handlers |-> IF i = h /\ stored # None THEN w ELSE Done]
    BY DEF Reload
  <1>3. TypeOK'
    <2>1. handler' \in [Handlers -> Shapes]
      BY <1>1, <1>2
    <2>2. lists' \in [Lists -> 0..MaxChanges] /\ page' \in Pages
      BY BoundsAssumption DEF Reload, Empty, Pages
    <2> QED BY <1>1, <2>1, <2>2, BoundsAssumption
            DEF IInv, TypeOK, Reload, Shapes, Kinds, Places
  <1>4. Holds(w, changes') /\ Holds(Done, changes')
    BY <1>3, BoundsAssumption DEF Holds, Waiting, Done, TypeOK
  <1>5. Tasks'
    BY <1>2, <1>4 DEF Tasks
  <1>6. BlankIsLoading'
    <2>1. stored # None => Loading(h)'
      BY <1>2 DEF Loading, Waiting
    <2> QED BY <2>1 DEF BlankIsLoading, Reload, SignIn, Blank, Page
  <1>7. ~Shown'
    BY DEF Reload, Shown, SignIn, Blank, Page, Pages
  <1> QED BY <1>3, <1>5, <1>6, <1>7 DEF IInv, SameToken, ShownHasToken, OwnPages, Reload

-----------------------------------------------------------------------------
(* Requests and answers. *)
LEMMA ServeButtonInv == ASSUME IInv, NEW h \in Handlers, ServeButton(h) PROVE IInv'
  <1> DEFINE w == [handler[h] EXCEPT !.at = "answered", !.change = changes + 1]
  <1>1. changes' = changes + 1 /\ changes' \in 0..MaxChanges /\ changes' >= changes
    BY HeldType DEF ServeButton
  <1>2. handler' = [handler EXCEPT ![h] = w] /\ w \in Shapes
    BY <1>1, HeldType DEF ServeButton, Shapes, Places
  <1>3. Holds(w, changes')
    BY <1>1, HeldType DEF ServeButton, Holds, Shapes, Unread
  <1>4. handler' \in [Handlers -> Shapes] /\ Tasks'
    BY <1>1, <1>2, <1>3, Replaced
  <1>5. \A i \in Handlers : Loading(i) => Loading(i)'
    BY HeldType DEF ServeButton, Loading
  <1> QED BY <1>1, <1>4, <1>5, Behind DEF ServeButton

LEMMA ButtonAnsweredInv == ASSUME IInv, NEW h \in Handlers, ButtonAnswered(h) PROVE IInv'
  <1> DEFINE w == [handler[h] EXCEPT !.at = "refresh", !.role = auth]
  <1>1. handler' = [handler EXCEPT ![h] = w] /\ w \in Shapes
    BY HeldType DEF ButtonAnswered, Shapes, Places
  <1>2. Holds(w, changes')
    BY HeldType DEF ButtonAnswered, Holds, Shapes
  <1>3. handler' \in [Handlers -> Shapes] /\ Tasks'
    BY <1>1, <1>2, Replaced, HeldType DEF ButtonAnswered
  <1>4. \A i \in Handlers : Loading(i) => Loading(i)'
    BY HeldType DEF ButtonAnswered, Loading
  <1> QED BY <1>3, <1>4, Behind, HeldType DEF ButtonAnswered

LEMMA LoginAnsweredInv == ASSUME IInv, NEW h \in Handlers, LoginAnswered(h) PROVE IInv'
  <1> DEFINE w == [handler[h] EXCEPT !.at = "refresh"]
  <1>1. /\ handler[h].role \in Users /\ auth' = handler[h].role /\ stored' = auth'
        /\ UNCHANGED <<page, lists, view, changes, loads>>
    BY HeldType DEF LoginAnswered, Holds
  <1>2. handler' = [handler EXCEPT ![h] = w] /\ w \in Shapes
    BY HeldType DEF LoginAnswered, Shapes, Places
  <1>3. Holds(w, changes')
    BY HeldType DEF LoginAnswered, Holds, Shapes
  <1>4. handler' \in [Handlers -> Shapes] /\ Tasks'
    BY <1>1, <1>2, <1>3, Replaced, HeldType
  <1>5. TypeOK'
    BY <1>1, <1>4 DEF IInv, TypeOK, Shapes, Kinds, Places, Blank, SignIn, Page
  <1>6. SameToken' /\ OwnPages'
    BY <1>1, NoneIsNoRole DEF IInv, SameToken, ShownHasToken, OwnPages, Shown
  <1>7. BlankIsLoading'
    BY <1>1, HeldType DEF LoginAnswered, IInv, BlankIsLoading, Loading, Blank, Page
  <1> QED BY <1>4, <1>5, <1>6, <1>7 DEF IInv

LEMMA ServeListInv ==
  ASSUME IInv, NEW h \in Handlers, NEW l \in Lists, ServeList(h, l) PROVE IInv'
  <1> DEFINE w == [handler[h] EXCEPT !.got[l] = changes]
  <1>1. changes \in 0..Unread
    BY HeldType DEF Unread
  <1>2. handler' = [handler EXCEPT ![h] = w] /\ w \in Shapes
    BY <1>1, HeldType DEF ServeList, Shapes
  <1>3. Holds(w, changes')
    BY HeldType DEF ServeList, Holds, Shapes
  <1>4. handler' \in [Handlers -> Shapes] /\ Tasks'
    BY <1>2, <1>3, Replaced, HeldType DEF ServeList
  <1>5. \A i \in Handlers : Loading(i) => Loading(i)'
    BY HeldType DEF ServeList, Loading, Shapes
  <1> QED BY <1>4, <1>5, Behind, HeldType DEF ServeList

\* The end of a handler.
LEMMA Ended ==
  ASSUME IInv, NEW h \in Handlers, End(h), changes' = changes
  PROVE  handler' \in [Handlers -> Shapes] /\ Tasks'
  BY DoneHolds, Replaced, HeldType DEF End, IInv

LEMMA RefreshedInv == ASSUME IInv, NEW h \in Handlers, Refreshed(h) PROVE IInv'
  <1>1. handler' \in [Handlers -> Shapes] /\ Tasks'
    BY Ended DEF Refreshed
  <1>2. auth' \in Users \cup {None} /\ page \in Pages
    BY DEF Refreshed, IInv, TypeOK
  <1>3. /\ page' \in Pages /\ view' \in {SignIn} \cup [page : Pages, role : Users]
        /\ Shown' => auth' # None /\ CanAccess(view'.page, view'.role)
        /\ view' # Blank
    BY <1>2, Rendered DEF Refreshed
  <1>4. lists' \in [Lists -> 0..MaxChanges]
    BY HeldType DEF Refreshed, Shapes, Unread
  <1>5. TypeOK'
    BY <1>1, <1>3, <1>4 DEF Refreshed, IInv, TypeOK, Shapes, Kinds, Places, SignIn, Page
  <1> QED BY <1>1, <1>3, <1>5
          DEF Refreshed, IInv, SameToken, ShownHasToken, OwnPages, BlankIsLoading, Shown, Blank, Page

LEMMA FailInv == ASSUME IInv, NEW h \in Handlers, Fail(h) PROVE IInv'
  <1>1. handler' \in [Handlers -> Shapes] /\ Tasks'
    BY Ended DEF Fail
  <1>2. CASE handler[h].kind = "button"
    <2>1. UNCHANGED <<auth, stored, page, lists, view, changes, loads>>
      BY <1>2 DEF Fail
    <2>2. \A i \in Handlers : Loading(i) => Loading(i)'
      BY <1>2, HeldType DEF Fail, End, Loading
    <2> QED BY <1>1, <2>1, <2>2, Behind, HeldType
  <1>3. CASE handler[h].kind # "button"
    <2>1. /\ view' = SignIn /\ UNCHANGED <<page, lists, changes, loads>>
          /\ stored' = auth' /\ auth' \in Users \cup {None}
      BY <1>3 DEF Fail, IInv, TypeOK, SameToken
    <2>2. TypeOK'
      BY <1>1, <2>1 DEF IInv, TypeOK, Shapes, Kinds, Places, SignIn, Page
    <2>3. ~Shown' /\ view' # Blank
      BY <2>1 DEF Shown, SignIn, Blank, Page, Pages
    <2> QED BY <1>1, <2>1, <2>2, <2>3
            DEF IInv, SameToken, ShownHasToken, OwnPages, BlankIsLoading, Shown, Blank, Page
  <1> QED BY <1>2, <1>3

LEMMA OtherChangeInv == ASSUME IInv, OtherChange PROVE IInv'
  <1>1. changes' = changes + 1 /\ changes \in 0..MaxChanges /\ changes < MaxChanges
    BY DEF IInv, TypeOK, OtherChange
  <1>2. handler' \in [Handlers -> Shapes] /\ changes' \in 0..MaxChanges
    BY <1>1, BoundsAssumption DEF OtherChange, IInv, TypeOK, Shapes, Kinds, Places
  <1>3. Tasks'
    <2> SUFFICES ASSUME NEW h \in Handlers PROVE Holds(handler[h], changes')
      BY DEF OtherChange, Tasks
    <2> QED BY <1>1, HeldType DEF Holds, Shapes
  <1> QED BY <1>2, <1>3, Behind DEF OtherChange, Loading

-----------------------------------------------------------------------------
LEMMA NextInv == IInv /\ [Next]_vars => IInv'
  <1> SUFFICES ASSUME IInv, [Next]_vars PROVE IInv'
    OBVIOUS
  <1>1. ASSUME NEW h \in Handlers, Click(h) PROVE IInv'
    BY <1>1, ClickLoginInv, ClickButtonInv, ReloadInv DEF Click
  <1>2. ASSUME NEW h \in Handlers, Step(h) PROVE IInv'
    BY <1>2, ServeButtonInv, ButtonAnsweredInv, LoginAnsweredInv, RefreshedInv, FailInv,
       ServeListInv DEF Step
  <1>3. CASE UNCHANGED vars
    <2>1. UNCHANGED <<auth, stored, page, lists, view, handler, changes, loads>>
      BY <1>3 DEF vars
    <2>2. handler' \in [Handlers -> Shapes] /\ changes' \in 0..MaxChanges
      BY <2>1 DEF IInv, TypeOK, Shapes, Kinds, Places
    <2> QED BY <2>1, <2>2, Behind DEF IInv, Tasks, Loading
  <1> QED BY <1>1, <1>2, <1>3, ClickNavInv, ClickLogoutInv, OtherChangeInv DEF Next

(***************************************************************************)
(* The tab only ever holds what its code can handle; above all, no list is *)
(* rendered that has not arrived.                                          *)
(***************************************************************************)
THEOREM TabTypes == Spec => []TypeOK
  <1>1. IInv => TypeOK
    BY DEF IInv
  <1> QED BY InitInv, NextInv, <1>1, PTL DEF Spec

(***************************************************************************)
(* A page is only shown while there is a token, the one that a reload      *)
(* finds, for any users and any number of handlers that wait while others  *)
(* log out, sign in or fail.                                               *)
(***************************************************************************)
THEOREM PageNeedsToken == Spec => []ShownHasToken
  <1>1. IInv => ShownHasToken
    BY DEF IInv, SameToken
  <1> QED BY InitInv, NextInv, <1>1, PTL DEF Spec

(***************************************************************************)
(* Nobody sees a page that their role may not open.                        *)
(***************************************************************************)
THEOREM PageIsOwn == Spec => []OwnPages
  <1>1. IInv => OwnPages
    BY DEF IInv
  <1> QED BY InitInv, NextInv, <1>1, PTL DEF Spec

(***************************************************************************)
(* A blank tab is still loading: what LoadEnds needs beside the fairness.  *)
(***************************************************************************)
THEOREM BlankEnds == Spec => []BlankIsLoading
  <1>1. IInv => BlankIsLoading
    BY DEF IInv
  <1> QED BY InitInv, NextInv, <1>1, PTL DEF Spec

(***************************************************************************)
(* The handler of a button renders lists that know of its change.          *)
(***************************************************************************)
THEOREM ChangeIsShown == Spec => ShowsItsChange
  <1> DEFINE Renders == \A h \in Handlers :
        handler[h].kind = "button" /\ Refreshed(h) =>
            \A l \in Lists : lists'[l] >= handler[h].change
  <1>1. IInv => Renders
    BY DEF IInv, Tasks, Holds, Refreshed
  <1>2. Init /\ [][Next]_vars => []IInv
    BY InitInv, NextInv, PTL
  <1> HIDE DEF Renders
  <1>3. Spec => [][Renders]_vars
    BY <1>1, <1>2, PTL DEF Spec
  <1> QED BY <1>3 DEF Renders, ShowsItsChange
=============================================================================

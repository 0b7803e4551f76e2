------------------------------- MODULE Session --------------------------------
(***************************************************************************)
(* Who is signed in and which workspace the dashboard shows: the session   *)
(* cookie, which the tabs of a browser share, and in one of its tabs the   *)
(* list of workspaces and the choice among them                            *)
(* (lib/workspace-context.tsx), the first run (onboarding.tsx), the        *)
(* workspace switcher (shell.tsx), and the requests behind them            *)
(* (backend/app/routers/workspaces.py).                                    *)
(*                                                                         *)
(* Names of workspaces are left out, and so is where signing in leads      *)
(* (module Login).                                                         *)
(***************************************************************************)
EXTENDS Naturals, QueryCache

CONSTANTS
  Users,       \* who use the browser
  Workspaces,  \* that there are or may be
  MaxMoves     \* changes of session and membership, and creations; bounds the runs

VARIABLES
  belongs,   \* workspace_members: the workspaces of a user
  made,      \* the rows there are for a workspace
  session,   \* the cookie: the user signed in, if any
  stored,    \* localStorage's tracyn_workspace_id
  page,      \* whether the tab shows the dashboard, or some page outside it
  list,      \* the query ["workspaces"]
  chosen,    \* workspaceId
  menu,      \* the switcher: "closed", "open", or "naming" a new workspace; the first
             \* run: "closed" to create a workspace, "joining" to join one by its link
  create,    \* the request for a new workspace
  troubled,  \* history: the dashboard may have to show none of its workspaces
  moves      \* history: moves so far

vars == <<belongs, made, session, stored, page, list, chosen, menu, create, troubled, moves>>

Rows == {"none", "workspace", "member", "whole"}
Lists == [user : Users, has : SUBSET Workspaces]
Idle == [pc |-> "idle"]
Create == [pc : {"insert", "member", "policy", "answered", "refetching"},
           from : {"first run", "switcher", "gone"},
           by : Users,
           ws : Workspaces]

Has == UNION {l.has : l \in list.data}
Shown == chosen \cap Has

(* The first run is shown when a list `l` has nothing, be it that the      *)
(* first request for it failed.                                            *)
FirstRunOf(l) == ~(l.data = {} /\ l.flight # "none") /\ \A ws \in l.data : ws.has = {}
IsFirstRun == page /\ FirstRunOf(list)

TypeOK ==
  /\ belongs \in [Users -> SUBSET Workspaces]
  /\ made \in [Workspaces -> Rows]
  /\ session \in Maybe(Users)
  /\ stored \in Maybe(Workspaces)
  /\ page \in BOOLEAN
  /\ list \in Entry(Lists)
  /\ chosen \in Maybe(Workspaces)
  /\ menu \in {"closed"} \cup IF IsFirstRun THEN {"joining"} ELSE {"open", "naming"}
  /\ create \in {Idle} \cup Create
  /\ troubled \in BOOLEAN
  /\ moves \in 0 .. MaxMoves
  /\ \A u \in Users : \A w \in belongs[u] : made[w] \in {"member", "whole"}
  /\ ~page => list = NoEntry /\ chosen = {} /\ menu = "closed"

Init ==
  /\ belongs \in [Users -> SUBSET Workspaces]
  /\ made = [w \in Workspaces |-> IF \E u \in Users : w \in belongs[u] THEN "whole" ELSE "none"]
  /\ session \in Maybe(Users)
  /\ stored \in Maybe(Workspaces)
  /\ page = FALSE
  /\ list = NoEntry
  /\ chosen = {}
  /\ menu = "closed"
  /\ create = Idle
  /\ troubled = FALSE
  /\ moves = 0

database == <<belongs, made>>
browser == <<session, stored>>
tab == <<page, list, chosen, menu>>

Move == moves < MaxMoves /\ moves' = moves + 1

(* The list changes, and with the first run comes and goes what it shows.  *)
ListBecomes(l) ==
  /\ list' = l
  /\ menu' = IF FirstRunOf(l) = FirstRunOf(list) THEN menu ELSE "closed"

-----------------------------------------------------------------------------
(* Coming and going. A tab that leaves the dashboard loses its state, and  *)
(* with it what a request under way would still do there.                  *)

Orphaned == create' = IF create = Idle THEN Idle ELSE [create EXCEPT !.from = "gone"]
Load == page' = TRUE /\ list' = Send(NoEntry) /\ chosen' = {} /\ menu' = "closed"

\* Mutant of Unload: the list and the choice outlive the dashboard.
UnloadKeeping == page' = FALSE /\ menu' = "closed" /\ UNCHANGED <<list, chosen>>

Unload == page' = FALSE /\ list' = NoEntry /\ chosen' = {} /\ menu' = "closed"

(* The middleware lets those who are signed in through.                    *)
OpenDashboard ==
  /\ ~page /\ session # {}
  /\ Load
  /\ troubled' = FALSE
  /\ UNCHANGED <<database, browser, create, moves>>

LeaveDashboard ==
  /\ page
  /\ Unload
  /\ Orphaned
  /\ UNCHANGED <<database, browser, troubled, moves>>

SignIn(u) ==
  /\ ~page /\ session = {}
  /\ Move
  /\ session' = {u}
  /\ UNCHANGED <<database, stored, tab, create, troubled>>

\* Mutant of SignOut: the dashboard stays, as after a push that raced the cookie.
SignOutPush ==
  /\ page
  /\ session' = {}
  /\ UNCHANGED <<database, stored, tab, create, troubled, moves>>

(* signOut: a full navigation to the login page.                           *)
SignOut ==
  /\ page
  /\ session' = {}
  /\ Unload
  /\ Orphaned
  /\ UNCHANGED <<database, stored, troubled, moves>>

(* In another tab somebody signs in or out, or the session expires.        *)
SessionChanges(s) ==
  /\ session # s
  /\ Move
  /\ session' = s
  /\ troubled' = (troubled \/ page)
  /\ UNCHANGED <<database, stored, tab, create>>

-----------------------------------------------------------------------------
(* The list of workspaces, and the choice made when it arrives.            *)

ReadList ==
  /\ list.flight = "sent"
  /\ \E u \in session : list' = Read(list, [user |-> u, has |-> belongs[u]])
  /\ UNCHANGED <<database, browser, page, chosen, menu, create, troubled, moves>>

(* The workspace stored, if it is on the list, or else the first; the list *)
(* has no particular order.                                                *)
InitialOf(has) ==
  {i \in Maybe(has) : IF stored # {} /\ stored \subseteq has THEN i = stored ELSE i # {} \/ has = {}}

ListLands ==
  /\ list.flight = "read"
  /\ ListBecomes(Landed(list))
  /\ IF chosen # {} THEN UNCHANGED chosen ELSE \E l \in list.got : chosen' \in InitialOf(l.has)
  /\ UNCHANGED <<database, browser, page, create, troubled, moves>>

(* One more reason for nothing to be shown: what was created meanwhile is  *)
(* chosen and not on the list.                                             *)
ListFails ==
  /\ list.flight # "none"
  /\ ListBecomes(Failed(list))
  /\ troubled' = (troubled \/ create.pc = "refetching")
  /\ UNCHANGED <<database, browser, page, chosen, create, moves>>

(* A reconnected browser asks again.                                       *)
Reconnect ==
  /\ page /\ list.flight = "none"
  /\ ListBecomes(Send(list))
  /\ UNCHANGED <<database, browser, page, chosen, create, troubled, moves>>

-----------------------------------------------------------------------------
(* The switcher.                                                           *)

OpenMenu ==
  /\ page /\ ~IsFirstRun /\ menu = "closed"
  /\ menu' = "open"
  /\ UNCHANGED <<database, browser, page, list, chosen, create, troubled, moves>>

NameWorkspace ==
  /\ menu = "open"
  /\ menu' = "naming"
  /\ UNCHANGED <<database, browser, page, list, chosen, create, troubled, moves>>

CloseMenu ==
  /\ menu \in {"open", "naming"}
  /\ menu' = "closed"
  /\ UNCHANGED <<database, browser, page, list, chosen, create, troubled, moves>>

SetWorkspaceId(w) == chosen' = {w} /\ stored' = {w} /\ menu' = "closed"

Choose(w) ==
  /\ menu # "closed" /\ w \in Has
  /\ SetWorkspaceId(w)
  /\ UNCHANGED <<database, session, page, list, create, troubled, moves>>

(* The two choices of the first run.                                       *)
ChooseFirst(how) ==
  /\ IsFirstRun /\ menu # how
  /\ menu' = how
  /\ UNCHANGED <<database, browser, page, list, chosen, create, troubled, moves>>

-----------------------------------------------------------------------------
(* A new workspace, from the first run or from the switcher. Its three     *)
(* inserts are three calls, and the request may end before any of them.    *)

Submit(w) ==
  /\ create = Idle /\ made[w] = "none"
  /\ menu = IF IsFirstRun THEN "closed" ELSE "naming"
  /\ Move
  /\ \E u \in session :
       create' = [pc |-> "insert", from |-> IF IsFirstRun THEN "first run" ELSE "switcher", by |-> u, ws |-> w]
  /\ UNCHANGED <<database, browser, tab, troubled>>

InsertWorkspace ==
  /\ create.pc = "insert"
  /\ made' = [made EXCEPT ![create.ws] = "workspace"]
  /\ create' = [create EXCEPT !.pc = "member"]
  /\ UNCHANGED <<belongs, browser, tab, troubled, moves>>

InsertMember ==
  /\ create.pc = "member"
  /\ made' = [made EXCEPT ![create.ws] = "member"]
  /\ belongs' = [belongs EXCEPT ![create.by] = belongs[create.by] \cup {create.ws}]
  /\ create' = [create EXCEPT !.pc = "policy"]
  /\ UNCHANGED <<browser, tab, troubled, moves>>

InsertPolicy ==
  /\ create.pc = "policy"
  /\ made' = [made EXCEPT ![create.ws] = "whole"]
  /\ create' = [create EXCEPT !.pc = "answered"]
  /\ UNCHANGED <<belongs, browser, tab, troubled, moves>>

(* The form shows an error and may be submitted again.                     *)
CreateFails ==
  /\ create.pc \in {"insert", "member", "policy", "answered"}
  /\ create' = Idle
  /\ UNCHANGED <<database, browser, tab, troubled, moves>>

(* A page that was left can still store the choice; see Load.              *)
CreatedInFirstRun ==
  /\ create.pc = "answered" /\ create.from = "first run"
  /\ stored' = {create.ws}
  /\ ListBecomes(Invalidate(list, TRUE))
  /\ create' = Idle
  /\ UNCHANGED <<database, session, page, chosen, troubled, moves>>

(* The switcher waits for the list. While its first answer is under way a  *)
(* list without the workspace is all that comes.                           *)
CreatedInSwitcher ==
  /\ create.pc = "answered" /\ create.from = "switcher"
  /\ ListBecomes(Invalidate(list, TRUE))
  /\ troubled' = (troubled \/ list.data = {})
  /\ create' = [create EXCEPT !.pc = "refetching"]
  /\ UNCHANGED <<database, browser, page, chosen, moves>>

\* Mutant of Switch: it does not wait.
SwitchAtOnce ==
  /\ create.pc = "refetching" /\ create.from = "switcher"
  /\ SetWorkspaceId(create.ws)
  /\ create' = Idle
  /\ UNCHANGED <<database, session, page, list, troubled, moves>>

Switch ==
  /\ create.pc = "refetching" /\ create.from = "switcher" /\ list.flight = "none"
  /\ SetWorkspaceId(create.ws)
  /\ create' = Idle
  /\ UNCHANGED <<database, session, page, list, troubled, moves>>

(* The tab was left: what is left of the request is to store the choice.   *)
CreatedElsewhere ==
  /\ create.pc \in {"answered", "refetching"} /\ create.from = "gone"
  /\ create' = Idle
  /\ stored' \in {stored, {create.ws}}
  /\ UNCHANGED <<database, session, tab, troubled, moves>>

-----------------------------------------------------------------------------
(* Others take a user into a workspace or out of it; joining oneself opens *)
(* the workspace, by a full navigation (openWorkspace).                    *)

Admit(u, w) ==
  /\ made[w] = "whole" /\ w \notin belongs[u]
  /\ Move
  /\ belongs' = [belongs EXCEPT ![u] = belongs[u] \cup {w}]
  /\ UNCHANGED <<made, browser, tab, create, troubled>>

OpenWorkspace(w) ==
  /\ page /\ made[w] = "whole"
  /\ Move
  /\ \E u \in session : belongs' = [belongs EXCEPT ![u] = belongs[u] \cup {w}]
  /\ stored' = {w}
  /\ Load
  /\ Orphaned
  /\ UNCHANGED <<made, session, troubled>>

Remove(u, w) ==
  /\ w \in belongs[u]
  /\ Move
  /\ belongs' = [belongs EXCEPT ![u] = belongs[u] \ {w}]
  /\ troubled' = (troubled \/ page)
  /\ UNCHANGED <<made, browser, tab, create>>

Next ==
  \/ OpenDashboard
  \/ LeaveDashboard
  \/ \E u \in Users : SignIn(u)
  \/ SignOut
  \/ \E s \in Maybe(Users) : SessionChanges(s)
  \/ ReadList
  \/ ListLands
  \/ ListFails
  \/ Reconnect
  \/ OpenMenu
  \/ NameWorkspace
  \/ CloseMenu
  \/ \E w \in Workspaces : Choose(w)
  \/ \E how \in {"closed", "joining"} : ChooseFirst(how)
  \/ \E w \in Workspaces : Submit(w)
  \/ InsertWorkspace
  \/ InsertMember
  \/ InsertPolicy
  \/ CreateFails
  \/ CreatedInFirstRun
  \/ CreatedInSwitcher
  \/ Switch
  \/ CreatedElsewhere
  \/ \E u \in Users, w \in Workspaces : Admit(u, w)
  \/ \E w \in Workspaces : OpenWorkspace(w)
  \/ \E u \in Users, w \in Workspaces : Remove(u, w)

Spec == Init /\ [][Next]_vars

-----------------------------------------------------------------------------
(* The workspace shown is one of the user who is signed in, unless         *)
(* somebody was removed or the session changed under the open page: what   *)
(* one user's page held is gone before the next one signs in               *)
(* (onboarding.tsx:22).                                                    *)
ShownIsOnesOwn ==
  ~troubled => \A w \in Shown : \E u \in session : w \in belongs[u]

(* Once the list has come and is not empty, one of its workspaces is       *)
(* shown, whatever id was stored before (workspace-context.tsx:27) and     *)
(* although nothing chooses again once a workspace is chosen: unless the   *)
(* chosen one was lost, or made while no list with it came.                *)
SomethingIsShown ==
  Has # {} /\ ~troubled => Shown # {}
=============================================================================

------------------------------ MODULE Members -------------------------------
(***************************************************************************)
(* Settings > Members (components/dashboard/members-view.tsx, PeopleCard)  *)
(* open in the browsers of several people of one workspace, over the API   *)
(* that changes roles, removes people and transfers the ownership          *)
(* (backend/app/routers/members.py).                                       *)
(*                                                                         *)
(* Every database call of the API is a step of its own; one that fails     *)
(* ends the request with an error and without an effect. Menus, which only *)
(* lead to the actions they list, are left out.                            *)
(***************************************************************************)
EXTENDS QueryCache

CONSTANTS
  Users,      \* the people of the workspace
  Creator,    \* who owns it at first
  Admins,     \* who are admins at first
  Pages,      \* those with the page open
  Calls       \* requests the pages may make; bounds the runs

ASSUME CreatorAssumption == Creator \in Users
ASSUME AdminsAssumption == Admins \subseteq Users \ {Creator}
ASSUME PagesAssumption == Pages \subseteq Users

VARIABLES
  role,     \* workspace_members: the role of a user, or "none"
  ownerId,  \* workspaces.owner_id
  list,     \* the query ["members", workspace] of a page
  pending,  \* the confirmation a page asks for, in a modal
  call,     \* the requests
  behind,   \* history: pages whose list misses a change that was not theirs
  alone,    \* history: no two calls overlapped
  whole     \* history: no transfer stopped half-way

vars == <<role, ownerId, list, pending, call, behind, alone, whole>>

Roles == {"owner", "admin", "member"}
RoleMap == [Users -> Roles \cup {"none"}]

ConfirmKinds == {"remove", "leave", "transfer"}
RoleKinds == {"make admin", "make member"}
Kinds == ConfirmKinds \cup RoleKinds

Idle == [pc |-> "idle"]
Ended == [pc |-> "ended"]
Busy == {"own role", "their role", "write", "owner_id", "promote", "demote"}
Call == [pc : Busy \cup {"done", "failed"}, kind : Kinds, by : Pages, who : Users,
         mine : Roles \cup {"none"}]
Modal == {{}} \cup {{q} : q \in [kind : ConfirmKinds, who : Users]}

TypeOK ==
  /\ role \in RoleMap
  /\ ownerId \in Users
  /\ list \in [Pages -> Entry(RoleMap)]
  /\ pending \in [Pages -> Modal]
  /\ call \in [Calls -> {Idle, Ended} \cup Call]
  /\ behind \in [Pages -> BOOLEAN]
  /\ alone \in BOOLEAN
  /\ whole \in BOOLEAN
  /\ \A c \in Calls : call[c].pc \in Busy /\ call[c].kind \in ConfirmKinds =>
       pending[call[c].by] = {[kind |-> call[c].kind, who |-> call[c].who]}

Init ==
  /\ role = [u \in Users |-> IF u = Creator THEN "owner" ELSE IF u \in Admins THEN "admin" ELSE "member"]
  /\ ownerId = Creator
  /\ list = [p \in Pages |-> NoEntry]
  /\ pending = [p \in Pages |-> {}]
  /\ call = [c \in Calls |-> Idle]
  /\ behind = [p \in Pages |-> FALSE]
  /\ alone = TRUE
  /\ whole = TRUE

Active(c) == call[c].pc \notin {"idle", "ended"}
IsConfirming(p) == \E c \in Calls : Active(c) /\ call[c].by = p /\ call[c].kind \in ConfirmKinds

-----------------------------------------------------------------------------
(* What the page of p offers on the row of u, by the roles r it shows and  *)
(* the role that it takes for its own.                                     *)

(* A list that was read after p had been removed has no row of p, and the  *)
(* page goes by the role in the list of workspaces, whenever that was read *)
(* (members-view.tsx:27).                                                  *)
MyRoles(r, p) == IF r[p] = "none" THEN Roles ELSE {r[p]}

ActionsFor(r, mine, p, u) ==
  IF u # p /\ mine = "owner" /\ r[u] # "owner"
  THEN {"transfer", IF r[u] = "admin" THEN "make member" ELSE "make admin"}
  ELSE {}

\* Mutant of CanRemove: admins may remove admins.
CanRemoveAdmins(r, mine, p, u) ==
  u # p /\ r[u] # "owner" /\ mine \in {"owner", "admin"}

CanRemove(r, mine, p, u) ==
  u # p /\ ((mine = "owner" /\ r[u] # "owner") \/ (mine = "admin" /\ r[u] = "member"))

(* The buttons of the row; there are none for who is not in the list.      *)
Offers(r, mine, p, u) ==
  IF r[u] = "none" THEN {}
  ELSE ActionsFor(r, mine, p, u)
       \cup (IF CanRemove(r, mine, p, u) THEN {"remove"} ELSE {})
       \cup (IF u = p /\ r[p] # "owner" THEN {"leave"} ELSE {})

IsOffered(p, k, u) ==
  \E r \in list[p].data : \E mine \in MyRoles(r, p) : k \in Offers(r, mine, p, u)

-----------------------------------------------------------------------------
(* The page.                                                               *)

OpenTab(p) ==
  /\ \E aged \in BOOLEAN : list' = [list EXCEPT ![p] = Mount(list[p], aged)]
  /\ UNCHANGED <<role, ownerId, pending, call, behind, alone, whole>>

Ask(p, k, u) ==
  /\ pending[p] = {}
  /\ IsOffered(p, k, u)
  /\ pending' = [pending EXCEPT ![p] = {[kind |-> k, who |-> u]}]
  /\ UNCHANGED <<role, ownerId, list, call, behind, alone, whole>>

\* Mutant of Cancel: the modal can be closed while its request is under way.
CancelAlways(p) ==
  /\ pending[p] # {}
  /\ pending' = [pending EXCEPT ![p] = {}]
  /\ UNCHANGED <<role, ownerId, list, call, behind, alone, whole>>

(* Cancel, Escape or a click outside, while nothing is under way.          *)
Cancel(p) ==
  /\ pending[p] # {}
  /\ ~IsConfirming(p)
  /\ pending' = [pending EXCEPT ![p] = {}]
  /\ UNCHANGED <<role, ownerId, list, call, behind, alone, whole>>

Submit(p, k, u) ==
  \E c \in Calls :
    /\ call[c] = Idle
    /\ call' = [call EXCEPT ![c] = [pc |-> "own role", kind |-> k, by |-> p, who |-> u,
                                    mine |-> "none"]]
    /\ alone' = (alone /\ \A d \in Calls : ~Active(d))
    /\ UNCHANGED <<role, ownerId, list, pending, behind, whole>>

(* confirm.mutate.                                                         *)
Confirm(p) ==
  /\ ~IsConfirming(p)
  /\ \E q \in pending[p] : Submit(p, q.kind, q.who)

(* setRole.mutate, at once from the menu, even while another is under way. *)
SetRole(p, k, u) ==
  /\ pending[p] = {}
  /\ k \in RoleKinds /\ IsOffered(p, k, u)
  /\ Submit(p, k, u)

Refresh(p) == list' = [list EXCEPT ![p] = Invalidate(list[p], TRUE)]

\* Mutant of RoleSettles: the list is not refreshed.
RoleSettlesOnly(c) ==
  /\ call[c].pc \in {"done", "failed"}
  /\ call[c].kind \in RoleKinds
  /\ call' = [call EXCEPT ![c] = Ended]
  /\ UNCHANGED <<role, ownerId, list, pending, behind, alone, whole>>

(* onSettled of setRole.                                                   *)
RoleSettles(c) ==
  /\ call[c].pc \in {"done", "failed"}
  /\ call[c].kind \in RoleKinds
  /\ call' = [call EXCEPT ![c] = Ended]
  /\ Refresh(call[c].by)
  /\ UNCHANGED <<role, ownerId, pending, behind, alone, whole>>

(* onSuccess of confirm: the modal closes.                                 *)
Confirmed(c) ==
  /\ call[c].pc = "done"
  /\ call[c].kind \in {"remove", "transfer"}
  /\ call' = [call EXCEPT ![c] = Ended]
  /\ pending' = [pending EXCEPT ![call[c].by] = {}]
  /\ Refresh(call[c].by)
  /\ UNCHANGED <<role, ownerId, behind, alone, whole>>

(* Having left, the browser opens another workspace, or none, afresh.      *)
HasLeft(c) ==
  /\ call[c].pc = "done"
  /\ call[c].kind = "leave"
  /\ call' = [call EXCEPT ![c] = Ended]
  /\ pending' = [pending EXCEPT ![call[c].by] = {}]
  /\ list' = [list EXCEPT ![call[c].by] = NoEntry]
  /\ UNCHANGED <<role, ownerId, behind, alone, whole>>

(* The modal stays, with the error; what was done half-way is not shown.   *)
NotConfirmed(c) ==
  /\ call[c].pc = "failed"
  /\ call[c].kind \in ConfirmKinds
  /\ call' = [call EXCEPT ![c] = Ended]
  /\ UNCHANGED <<role, ownerId, list, pending, behind, alone, whole>>

-----------------------------------------------------------------------------
(* list_members checks that one is a member and reads the list by another  *)
(* call. Only one's removal between them makes a difference, so the check  *)
(* is a step of its own as a call is about to remove p, which marks the    *)
(* request with the roles it saw; and is part of ReadList otherwise.       *)

IsGoing(p) ==
  \E c \in Calls : call[c].pc = "write" /\ call[c].kind \in {"remove", "leave"} /\ call[c].who = p

MayRead(p) ==
  /\ list[p].flight = "sent" /\ list[p].got = {}
  /\ role[p] # "none" /\ IsGoing(p)
  /\ list' = [list EXCEPT ![p] = [list[p] EXCEPT !.got = {role}]]
  /\ UNCHANGED <<role, ownerId, pending, call, behind, alone, whole>>

ReadList(p) ==
  /\ list[p].flight = "sent"
  /\ role[p] # "none" \/ list[p].got # {}
  /\ list' = [list EXCEPT ![p] = Read(list[p], role)]
  /\ behind' = [behind EXCEPT ![p] = FALSE]
  /\ UNCHANGED <<role, ownerId, pending, call, alone, whole>>

ListLands(p) ==
  /\ list[p].flight = "read"
  /\ list' = [list EXCEPT ![p] = Landed(list[p])]
  /\ UNCHANGED <<role, ownerId, pending, call, behind, alone, whole>>

(* The page is refused the list, and keeps the one it had.                 *)
ListRefused(p) ==
  /\ list[p].flight = "sent" /\ list[p].got = {}
  /\ role[p] = "none"
  /\ list' = [list EXCEPT ![p] = Failed(list[p])]
  /\ behind' = [behind EXCEPT ![p] = TRUE]
  /\ UNCHANGED <<role, ownerId, pending, call, alone, whole>>

-----------------------------------------------------------------------------
(* The API.                                                                *)

(* _require_role, and what follows from one's own role alone.              *)
Allowed(k, mine) ==
  CASE k \in RoleKinds \cup {"transfer"} -> mine = "owner"
    [] k = "leave" -> mine \in {"admin", "member"}
    [] k = "remove" -> mine # "none"

(* What the role of the other one decides.                                 *)
AllowedOn(k, mine, theirs) ==
  /\ theirs # "none"
  /\ k \in RoleKinds => theirs # "owner"
  /\ k = "remove" => mine = "owner" \/ (mine = "admin" /\ theirs = "member")

Goto(c, pc) == call' = [call EXCEPT ![c] = [call[c] EXCEPT !.pc = pc]]

OwnRole(c) ==
  /\ call[c].pc = "own role"
  /\ LET mine == role[call[c].by]
     IN  call' = [call EXCEPT ![c] = [call[c] EXCEPT
                    !.mine = mine,
                    !.pc = IF ~Allowed(call[c].kind, mine) THEN "failed"
                           ELSE IF call[c].kind = "leave" THEN "write" ELSE "their role"]]
  /\ UNCHANGED <<role, ownerId, list, pending, behind, alone, whole>>

TheirRole(c) ==
  /\ call[c].pc = "their role"
  /\ Goto(c, IF ~AllowedOn(call[c].kind, call[c].mine, role[call[c].who]) THEN "failed"
             ELSE IF call[c].kind = "transfer" THEN "owner_id" ELSE "write")
  /\ UNCHANGED <<role, ownerId, list, pending, behind, alone, whole>>

(* An UPDATE of the row of u, if it is there.                              *)
Becomes(u, r) == role' = [role EXCEPT ![u] = IF role[u] = "none" THEN "none" ELSE r]
ShownTo(c) == behind' = [p \in Pages |-> behind[p] \/ p # call[c].by]

Write(c) ==
  /\ call[c].pc = "write"
  /\ CASE call[c].kind = "make admin" -> Becomes(call[c].who, "admin")
       [] call[c].kind = "make member" -> Becomes(call[c].who, "member")
       [] OTHER -> Becomes(call[c].who, "none")
  /\ ShownTo(c)
  /\ Goto(c, "done")
  /\ UNCHANGED <<ownerId, list, pending, alone, whole>>

SetOwnerId(c) ==
  /\ call[c].pc = "owner_id"
  /\ ownerId' = call[c].who
  /\ Goto(c, "promote")
  /\ UNCHANGED <<role, list, pending, behind, alone, whole>>

\* Mutant of Promote: the previous owner is not demoted.
PromoteOnly(c) ==
  /\ call[c].pc = "promote"
  /\ Becomes(call[c].who, "owner")
  /\ ShownTo(c)
  /\ Goto(c, "done")
  /\ UNCHANGED <<ownerId, list, pending, alone, whole>>

Promote(c) ==
  /\ call[c].pc = "promote"
  /\ Becomes(call[c].who, "owner")
  /\ ShownTo(c)
  /\ Goto(c, "demote")
  /\ UNCHANGED <<ownerId, list, pending, alone, whole>>

Demote(c) ==
  /\ call[c].pc = "demote"
  /\ Becomes(call[c].by, "admin")
  /\ ShownTo(c)
  /\ Goto(c, "done")
  /\ UNCHANGED <<ownerId, list, pending, alone, whole>>

(* A database call fails, or the answer is lost.                           *)
Breaks(c) ==
  /\ call[c].pc \in Busy
  /\ Goto(c, "failed")
  /\ behind' = [behind EXCEPT ![call[c].by] = TRUE]
  /\ whole' = (whole /\ call[c].pc \notin {"promote", "demote"})
  /\ UNCHANGED <<role, ownerId, list, pending, alone>>

-----------------------------------------------------------------------------
Next ==
  \/ \E p \in Pages : OpenTab(p)
  \/ \E p \in Pages, k \in ConfirmKinds, u \in Users : Ask(p, k, u)
  \/ \E p \in Pages : Cancel(p)
  \/ \E p \in Pages : Confirm(p)
  \/ \E p \in Pages, k \in RoleKinds, u \in Users : SetRole(p, k, u)
  \/ \E c \in Calls : RoleSettles(c)
  \/ \E c \in Calls : Confirmed(c)
  \/ \E c \in Calls : HasLeft(c)
  \/ \E c \in Calls : NotConfirmed(c)
  \/ \E p \in Pages : MayRead(p)
  \/ \E p \in Pages : ReadList(p)
  \/ \E p \in Pages : ListLands(p)
  \/ \E p \in Pages : ListRefused(p)
  \/ \E c \in Calls : OwnRole(c)
  \/ \E c \in Calls : TheirRole(c)
  \/ \E c \in Calls : Write(c)
  \/ \E c \in Calls : SetOwnerId(c)
  \/ \E c \in Calls : Promote(c)
  \/ \E c \in Calls : Demote(c)
  \/ \E c \in Calls : Breaks(c)

Spec == Init /\ [][Next]_vars

-----------------------------------------------------------------------------
Owners == {u \in Users : role[u] = "owner"}
Quiet == \A c \in Calls : ~Active(c)

(* As long as calls come one at a time and no transfer stops half-way, the *)
(* workspace has the one owner that owner_id names whenever no call is     *)
(* under way, whatever lists the pages acted on (transfer_ownership,       *)
(* change_role and remove_member).                                         *)
OneOwnerUnlessTroubled == alone /\ whole /\ Quiet => Owners = {ownerId}

(* The page hides exactly the actions a role cannot take: by the roles it  *)
(* shows, one's own among them, it offers what the API would accept, as    *)
(* long as they have one owner (members-view.tsx:16-18).                   *)
OffersMatchRights ==
  \A p \in Pages : \A r \in list[p].data :
    r[p] # "none" /\ (\E o \in Users : {u \in Users : r[u] = "owner"} = {o}) =>
      \A mine \in MyRoles(r, p), u \in Users, k \in Kinds :
        (k = "leave") = (u = p) /\ k # (IF r[u] = "admin" THEN "make admin" ELSE "make member") =>
          (k \in Offers(r, mine, p, u) <=> Allowed(k, mine) /\ AllowedOn(k, mine, r[u]))

(* A page that is not told otherwise shows the roles as they are: after    *)
(* its own changes it fetches the list again, and no answer from before    *)
(* them is left on it (refresh).                                           *)
ListFollowsOwnChanges ==
  \A p \in Pages :
    /\ ~behind[p]
    /\ \A c \in Calls : Active(c) => call[c].by # p
    /\ list[p].flight = "none" /\ ~list[p].stale
    => \A r \in list[p].data : r = role
=============================================================================

--------------------------- MODULE AccountDeletion ----------------------------
(***************************************************************************)
(* Deleting one's own account: the card and its modal (Settings > Account, *)
(* components/dashboard/settings-view.tsx, DeleteAccountCard) and the      *)
(* request that hands over or erases the workspaces of the user before the *)
(* user (backend/app/routers/account.py), while others join and leave.     *)
(*                                                                         *)
(* Every call of the request is a step, and may fail; the user may try     *)
(* again. Only one account is deleted.                                     *)
(***************************************************************************)
EXTENDS Naturals, FiniteSets, QueryCache

CONSTANTS
  Workspaces,  \* that the user owns at first
  Others,      \* other people
  Me,          \* the user
  MaxMoves     \* people joining and leaving, and failures; bounds the runs

VARIABLES
  member,   \* workspace_members: the role of a person in a workspace, or "none"
  owner,    \* workspaces.owner_id; {} once the workspace is erased
  charged,  \* the memberships of a workspace that Whop charges for
  filed,    \* the one on file for it, and not marked as ended, or "none"
  user,     \* whether the user exists, in Supabase Auth
  request,  \* the request to delete the account
  found,    \* what was on file when billing was cancelled, or "unread"
  heir,     \* what its survey found: who takes over a workspace; {} to erase it
  troubled, \* history: the survey went out of date, or a handing over stopped half-way
  modal,    \* the modal, with the password typed: "closed", "none", "wrong", "right"
  error,    \* the error it shows
  signedIn, \* whether the browser has a session
  moves     \* history: moves so far

vars == <<member, owner, charged, filed, user, request, found, heir, troubled, modal, error, signedIn, moves>>

People == Others \cup {Me}
Roles == {"owner", "admin", "member"}
Bought == {"first", "second"}  \* memberships, each of one workspace
Errors == {"none", "password", "billing", "other"}

Idle == [pc |-> "idle"]
Request == [pc : {"password", "survey", "cancel", "owner_id", "role", "purge", "user"},
            left : SUBSET Workspaces,      \* to be done by this step
            survey : SUBSET Workspaces]    \* surveyed
Answered == [pc : {"answered"}, error : Errors]

TypeOK ==
  /\ member \in [Workspaces -> [People -> Roles \cup {"none"}]]
  /\ owner \in [Workspaces -> Maybe(People)]
  /\ charged \in [Workspaces -> SUBSET Bought]
  /\ filed \in [Workspaces -> Bought \cup {"none"}]
  /\ user \in BOOLEAN
  /\ request \in {Idle} \cup Request \cup Answered
  /\ found \in [Workspaces -> Bought \cup {"none", "unread"}]
  /\ heir \in [Workspaces -> Maybe(Others)]
  /\ troubled \in BOOLEAN
  /\ modal \in {"closed", "none", "wrong", "right"}
  /\ error \in Errors
  /\ signedIn \in BOOLEAN
  /\ moves \in 0 .. MaxMoves
  /\ \A w \in Workspaces : owner[w] = {} => \A p \in People : member[w][p] = "none"
  /\ ~user => \A w \in Workspaces : owner[w] # {Me} /\ member[w][Me] = "none"
  /\ ~signedIn => ~user

Init ==
  /\ \E rest \in [Workspaces -> [Others -> {"admin", "member", "none"}]] :
       member = [w \in Workspaces |-> [p \in People |-> IF p = Me THEN "owner" ELSE rest[w][p]]]
  /\ owner = [w \in Workspaces |-> {Me}]
  /\ charged \in [Workspaces -> SUBSET Bought]
  /\ filed \in [Workspaces -> {"none", "first"}]
  /\ user = TRUE
  /\ request = Idle
  /\ found = [w \in Workspaces |-> "unread"]
  /\ heir = [w \in Workspaces |-> {}]
  /\ troubled = FALSE
  /\ modal = "closed"
  /\ error = "none"
  /\ signedIn = TRUE
  /\ moves = 0

database == <<member, owner, charged, filed, user>>
card == <<modal, error, signedIn>>

-----------------------------------------------------------------------------
(* The card.                                                               *)

IsPending == request # Idle

Open ==
  /\ signedIn /\ modal = "closed"
  /\ modal' = "none"
  /\ UNCHANGED <<database, request, found, heir, troubled, error, signedIn, moves>>

TypePassword(x) ==
  /\ modal # "closed" /\ x # modal
  /\ modal' = x
  /\ error' = IF IsPending THEN error ELSE "none"
  /\ UNCHANGED <<database, request, found, heir, troubled, signedIn, moves>>

(* Cancel, or outside the modal, while nothing is under way.               *)
Close ==
  /\ modal # "closed" /\ ~IsPending
  /\ modal' = "closed"
  /\ error' = "none"
  /\ UNCHANGED <<database, request, found, heir, troubled, signedIn, moves>>

Submit ==
  /\ modal \in {"wrong", "right"} /\ ~IsPending
  /\ request' = IF modal = "right" THEN [pc |-> "password", left |-> {}, survey |-> {}]
                ELSE [pc |-> "answered", error |-> "password"]
  /\ error' = "none"
  /\ UNCHANGED <<database, found, heir, troubled, modal, signedIn, moves>>

(* Success signs out and leaves the dashboard.                             *)
Answer ==
  /\ request.pc = "answered"
  /\ request' = Idle
  /\ error' = request.error
  /\ IF request.error = "none" THEN signedIn' = FALSE /\ modal' = "closed"
     ELSE UNCHANGED <<signedIn, modal>>
  /\ UNCHANGED <<database, found, heir, troubled, moves>>

-----------------------------------------------------------------------------
(* delete_account. A step does its workspaces one by one.                  *)

Owned == {w \in Workspaces : owner[w] = {Me}}
Transfers == {w \in request.survey : heir[w] # {}}
Purges == request.survey \ Transfers

Goto(pc, left) == request' = [request EXCEPT !.pc = pc, !.left = left]

(* The password was checked, and purge_workspace is there.                 *)
FindOwned ==
  /\ request.pc = "password"
  /\ request' = [pc |-> "survey", left |-> Owned, survey |-> {}]
  /\ found' = [w \in Workspaces |-> IF w \in Owned THEN "unread" ELSE found[w]]
  /\ UNCHANGED <<database, heir, troubled, card, moves>>

(* An admin first; who joined first is not told apart.                     *)
Successors(w) ==
  {p \in Others : /\ member[w][p] # "none"
                  /\ member[w][p] = "member" => \A q \in Others : member[w][q] \in {"member", "none"}}

Survey(w) ==
  /\ request.pc = "survey" /\ w \in request.left
  /\ \E h \in Maybe(Successors(w)) :
       /\ h = {} => Successors(w) = {}
       /\ heir' = [heir EXCEPT ![w] = h]
  /\ request' = [request EXCEPT !.left = request.left \ {w}, !.survey = request.survey \cup {w}]
  /\ UNCHANGED <<database, found, troubled, card, moves>>

\* Mutant of Advance: workspaces are erased before billing is cancelled.
AdvanceToPurge ==
  /\ request.pc \in {"survey", "cancel", "owner_id", "purge"} /\ request.left = {}
  /\ CASE request.pc = "survey" -> Goto("purge", Purges)
       [] request.pc = "purge" -> Goto("owner_id", Transfers)
       [] request.pc = "owner_id" -> Goto("cancel", Purges)
       [] request.pc = "cancel" -> Goto("user", {})
  /\ UNCHANGED <<database, found, heir, troubled, card, moves>>

(* A step with nothing left to do gives way to the next.                   *)
Advance ==
  /\ request.pc \in {"survey", "cancel", "owner_id", "purge"} /\ request.left = {}
  /\ CASE request.pc = "survey" -> Goto("cancel", Purges)
       [] request.pc = "cancel" -> Goto("owner_id", Transfers)
       [] request.pc = "owner_id" -> Goto("purge", Purges)
       [] request.pc = "purge" -> Goto("user", {})
  /\ UNCHANGED <<database, found, heir, troubled, card, moves>>

(* The membership on file, passed over if it is marked as ended; and its   *)
(* cancellation, without which nothing goes on.                            *)
ReadSubscription(w) ==
  /\ request.pc = "cancel" /\ w \in request.left
  /\ \A v \in request.left : found[v] = "unread"
  /\ found' = [found EXCEPT ![w] = filed[w]]
  /\ UNCHANGED <<database, request, heir, troubled, card, moves>>

CancelSubscription(w) ==
  /\ request.pc = "cancel" /\ w \in request.left
  /\ found[w] # "unread"
  /\ charged' = [charged EXCEPT ![w] = charged[w] \ {found[w]}]
  /\ Goto("cancel", request.left \ {w})
  /\ UNCHANGED <<member, owner, filed, user, found, heir, troubled, card, moves>>

SetOwnerId(w) ==
  /\ request.pc = "owner_id" /\ w \in request.left
  /\ owner' = [owner EXCEPT ![w] = IF owner[w] = {} THEN {} ELSE heir[w]]
  /\ request' = [request EXCEPT !.pc = "role", !.left = {w}]
  /\ UNCHANGED <<member, charged, filed, user, found, heir, troubled, card, moves>>

\* Mutant of SetRole: the heir's role is left as it is.
SetRoleNot(w) ==
  /\ request.pc = "role" /\ w \in request.left
  /\ Goto("owner_id", {v \in Transfers : owner[v] = {Me}})
  /\ UNCHANGED <<member, owner, charged, filed, user, found, heir, troubled, card, moves>>

(* An update of the heir's row, if there still is one.                     *)
SetRole(w) ==
  /\ request.pc = "role" /\ w \in request.left
  /\ member' = [member EXCEPT ![w] = [p \in People |->
                  IF {p} = heir[w] /\ member[w][p] # "none" THEN "owner" ELSE member[w][p]]]
  /\ Goto("owner_id", {v \in Transfers : owner[v] = {Me}})
  /\ UNCHANGED <<owner, charged, filed, user, found, heir, troubled, card, moves>>

Nobody == [p \in People |-> "none"]

Purge(w) ==
  /\ request.pc = "purge" /\ w \in request.left
  /\ owner' = [owner EXCEPT ![w] = {}]
  /\ member' = [member EXCEPT ![w] = Nobody]
  /\ filed' = [filed EXCEPT ![w] = "none"]
  /\ Goto("purge", request.left \ {w})
  /\ UNCHANGED <<charged, user, found, heir, troubled, card, moves>>

(* Memberships go with the user; an owner cannot be deleted.               *)
DeleteUser ==
  /\ request.pc = "user"
  /\ user' = (Owned # {})
  /\ member' = IF Owned = {} THEN [w \in Workspaces |-> [member[w] EXCEPT ![Me] = "none"]] ELSE member
  /\ request' = [pc |-> "answered", error |-> IF Owned = {} THEN "none" ELSE "other"]
  /\ UNCHANGED <<owner, charged, filed, found, heir, troubled, card, moves>>

(* A call fails, one to Whop with an error of its own, or the answer is lost. *)
Breaks ==
  /\ request.pc # "idle" /\ moves < MaxMoves
  /\ moves' = moves + 1
  /\ request' = [pc |-> "answered", error |->
       IF request.pc = "cancel" /\ \E w \in request.left : found[w] # "unread" THEN "billing" ELSE "other"]
  /\ troubled' = (troubled \/ request.pc = "role")
  /\ UNCHANGED <<database, found, heir, card>>

-----------------------------------------------------------------------------
(* Other people.                                                           *)

Race(w) == troubled' = (troubled \/ (request.pc \notin {"idle", "answered"} /\ w \in request.survey))

Join(p, w) ==
  /\ owner[w] # {} /\ member[w][p] = "none" /\ moves < MaxMoves
  /\ moves' = moves + 1
  /\ member' = [member EXCEPT ![w] = [member[w] EXCEPT ![p] = "member"]]
  /\ Race(w)
  /\ UNCHANGED <<owner, charged, filed, user, request, found, heir, card>>

Leave(p, w) ==
  /\ member[w][p] \in {"admin", "member"} /\ moves < MaxMoves
  /\ moves' = moves + 1
  /\ member' = [member EXCEPT ![w] = [member[w] EXCEPT ![p] = "none"]]
  /\ Race(w)
  /\ UNCHANGED <<owner, charged, filed, user, request, found, heir, card>>

(* The webhook puts another membership on file, or marks one as ended; the *)
(* former may be charged for still (Billing).                              *)
Files(w) ==
  /\ owner[w] # {} /\ moves < MaxMoves
  /\ moves' = moves + 1
  /\ \E m \in Bought \cup {"none"} : filed' = [filed EXCEPT ![w] = m]
  /\ UNCHANGED <<member, owner, charged, user, request, found, heir, troubled, card>>

Next ==
  \/ Open
  \/ \E x \in {"none", "wrong", "right"} : TypePassword(x)
  \/ Close
  \/ Submit
  \/ Answer
  \/ FindOwned
  \/ \E w \in Workspaces : Survey(w)
  \/ Advance
  \/ \E w \in Workspaces : ReadSubscription(w)
  \/ \E w \in Workspaces : CancelSubscription(w)
  \/ \E w \in Workspaces : SetOwnerId(w)
  \/ \E w \in Workspaces : SetRole(w)
  \/ \E w \in Workspaces : Purge(w)
  \/ DeleteUser
  \/ Breaks
  \/ \E p \in Others, w \in Workspaces : Join(p, w)
  \/ \E p \in Others, w \in Workspaces : Leave(p, w)
  \/ \E w \in Workspaces : Files(w)

Spec == Init /\ [][Next]_vars

-----------------------------------------------------------------------------
(* Once the user is gone, every workspace that is left has one owner, whom *)
(* owner_id names, unless the survey was out of date or a handing over     *)
(* stopped half-way: failures elsewhere are made good by trying again      *)
(* (account.py:133-153).                                                   *)
HandedOver ==
  ~user /\ ~troubled => \A w \in Workspaces : {p \in People : member[w][p] = "owner"} = owner[w]

(* Billing is cancelled first: no workspace is erased, and none handed     *)
(* over, before what was on file for each of those about to be erased was  *)
(* looked at, and is no longer charged for, so that a billing failure      *)
(* leaves the account untouched (account.py:15-16 and 118-131).            *)
Ended(w) == found[w] # "unread" /\ found[w] \notin charged[w]

BillingEndsFirst ==
  /\ \A w \in Workspaces : owner[w] = {} => Ended(w)
  /\ request.pc = "cancel" => \A w \in request.survey : owner[w] = {Me}
  /\ request.pc \in {"owner_id", "role", "purge"} => \A w \in Purges : Ended(w)

(* "erase every workspace only you are in" (settings-view.tsx:332).        *)
ErasesOnlyOnesOwn ==
  [][\A w \in Workspaces : Purge(w) => \A p \in Others : member[w][p] = "none"]_vars
=============================================================================

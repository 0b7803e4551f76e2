------------------------------- MODULE ApiKeys -------------------------------
(***************************************************************************)
(* The tab API keys of the settings (components/dashboard/                 *)
(* settings-view.tsx, Keys): creating a key, which is shown in full once,  *)
(* and revoking one, in a workspace that the switcher may change meanwhile,*)
(* with the requests behind it (backend/app/routers/agents.py).            *)
(***************************************************************************)
EXTENDS Naturals, FiniteSets, QueryCache

CONSTANTS
  Workspaces,  \* of the user
  Keys,        \* that may be created
  MaxMoves     \* leaving the tab, switching, changes by others; bounds the runs

VARIABLES
  home,      \* api_keys: the workspace of a key, {} before it is created
  revoked,   \* the keys with a revoked_at
  selected,  \* the workspace of the dashboard
  tab,       \* whether the tab is open
  keys,      \* the query ["api-keys", w] of every workspace
  form,      \* whether the form for a new key is open
  creation,  \* the request for a new key
  newKey,    \* the key that is shown in full
  confirm,   \* confirmRevoke: the key asked about
  revoking,  \* the request to revoke one
  told,      \* history: the keys shown in full, or whose answer was lost or came too late
  listed,    \* history: the keys that the list was asked for again after making
  gone,      \* history: those that it was asked for again after revoking
  moves      \* history: moves so far

vars == <<home, revoked, selected, tab, keys, form, creation, newKey, confirm, revoking,
          told, listed, gone, moves>>

Rows == [key : Keys, active : BOOLEAN]
Idle == [pc |-> "idle"]
Creation == [pc : {"sent", "made"}, in : Workspaces, at : Workspaces, here : BOOLEAN, key : Maybe(Keys)]
Revocation == [pc : {"sent", "done"}, in : Workspaces, at : Workspaces, here : BOOLEAN, key : Keys]

TypeOK ==
  /\ home \in [Keys -> Maybe(Workspaces)]
  /\ revoked \subseteq {k \in Keys : home[k] # {}}
  /\ selected \in Workspaces
  /\ tab \in BOOLEAN
  /\ keys \in [Workspaces -> Entry(SUBSET Rows)]
  /\ form \in BOOLEAN
  /\ creation \in {Idle} \cup Creation
  /\ newKey \in Maybe(Keys) /\ confirm \in Maybe(Keys)
  /\ revoking \in {Idle} \cup Revocation
  /\ told \subseteq Keys /\ listed \subseteq Keys /\ gone \subseteq Keys
  /\ moves \in 0 .. MaxMoves
  /\ ~tab => ~form /\ newKey = {} /\ confirm = {}
  /\ creation.pc = "made" => creation.key # {}

Init ==
  /\ home = [k \in Keys |-> {}]
  /\ revoked = {}
  /\ selected \in Workspaces
  /\ tab = FALSE
  /\ keys = [w \in Workspaces |-> NoEntry]
  /\ form = FALSE
  /\ creation = Idle
  /\ newKey = {} /\ confirm = {}
  /\ revoking = Idle
  /\ told = {} /\ listed = {} /\ gone = {}
  /\ moves = 0

table == <<home, revoked>>
modals == <<form, newKey, confirm>>
history == <<told, listed, gone, moves>>

Move == moves < MaxMoves /\ moves' = moves + 1

-----------------------------------------------------------------------------
(* Coming, going and switching.                                            *)

MountKeys(w, aged) == keys' = [keys EXCEPT ![w] = Mount(keys[w], aged)]

OpenTab(aged) ==
  /\ ~tab
  /\ tab' = TRUE
  /\ MountKeys(selected, aged)
  /\ UNCHANGED <<table, selected, modals, creation, revoking, history>>

Away(call) == IF call = Idle THEN Idle ELSE [call EXCEPT !.here = FALSE]

(* No modal covers the page. What is under way goes on without the tab.    *)
LeaveTab ==
  /\ tab /\ newKey = {} /\ confirm = {}
  /\ Move
  /\ tab' = FALSE
  /\ form' = FALSE
  /\ creation' = Away(creation) /\ revoking' = Away(revoking)
  /\ UNCHANGED <<table, selected, keys, newKey, confirm, told, listed, gone>>

Follow(call, w) == IF call # Idle /\ call.here THEN [call EXCEPT !.at = w] ELSE call

(* The tab keeps its state, and what is under way then invalidates the     *)
(* list of the workspace that the tab shows when it ends, or showed last.  *)
Switch(w, aged) ==
  /\ w # selected /\ newKey = {} /\ confirm = {}
  /\ Move
  /\ selected' = w
  /\ IF tab THEN MountKeys(w, aged) ELSE UNCHANGED keys
  /\ creation' = Follow(creation, w) /\ revoking' = Follow(revoking, w)
  /\ UNCHANGED <<table, tab, modals, told, listed, gone>>

ReadKeys(w) ==
  /\ keys[w].flight = "sent"
  /\ keys' = [keys EXCEPT ![w] = Read(keys[w],
               {[key |-> k, active |-> k \notin revoked] : k \in {k \in Keys : home[k] = {w}}})]
  /\ UNCHANGED <<table, selected, tab, modals, creation, revoking, history>>

KeysLand(w) ==
  /\ keys[w].flight = "read"
  /\ keys' = [keys EXCEPT ![w] = Landed(keys[w])]
  /\ UNCHANGED <<table, selected, tab, modals, creation, revoking, history>>

KeysFail(w) ==
  /\ keys[w].flight # "none"
  /\ keys' = [keys EXCEPT ![w] = Failed(keys[w])]
  /\ UNCHANGED <<table, selected, tab, modals, creation, revoking, history>>

(* A first answer on its way is not dropped, nor one that no tab waits for. *)
Asked(call) ==
  /\ call.at = call.in
  /\ IF tab /\ call.in = selected THEN keys[call.in].data # {} ELSE keys[call.in].flight = "none"

InvalidateKeys(w) == keys' = [keys EXCEPT ![w] = Invalidate(keys[w], tab /\ w = selected)]

-----------------------------------------------------------------------------
(* A new key.                                                              *)

(* New key, or Cancel.                                                     *)
ToggleForm ==
  /\ tab /\ newKey = {} /\ confirm = {}
  /\ form' = ~form
  /\ UNCHANGED <<table, selected, tab, keys, creation, newKey, confirm, revoking, history>>

(* With a name, left out here.                                             *)
Submit ==
  /\ form /\ creation = Idle /\ newKey = {} /\ confirm = {}
  /\ creation' = [pc |-> "sent", in |-> selected, at |-> selected, here |-> TRUE, key |-> {}]
  /\ UNCHANGED <<table, selected, tab, keys, modals, revoking, history>>

CreateApiKey(k) ==
  /\ creation.pc = "sent" /\ home[k] = {}
  /\ home' = [home EXCEPT ![k] = {creation.in}]
  /\ creation' = [creation EXCEPT !.pc = "made", !.key = {k}]
  /\ UNCHANGED <<revoked, selected, tab, keys, modals, revoking, history>>

\* Mutant of Created: the key is shown in the form, if that is still open.
CreatedInForm ==
  /\ creation.pc = "made"
  /\ newKey' = IF form THEN creation.key ELSE newKey
  /\ told' = IF form \/ ~creation.here THEN told \cup creation.key ELSE told
  /\ form' = FALSE
  /\ InvalidateKeys(creation.at)
  /\ listed' = IF Asked(creation) THEN listed \cup creation.key ELSE listed
  /\ creation' = Idle
  /\ UNCHANGED <<table, selected, tab, confirm, revoking, gone, moves>>

(* The key is shown, over whatever workspace is selected by now.           *)
Created ==
  /\ creation.pc = "made"
  /\ IF creation.here THEN newKey' = creation.key /\ form' = FALSE
     ELSE UNCHANGED <<newKey, form>>
  /\ told' = told \cup creation.key
  /\ InvalidateKeys(creation.at)
  /\ listed' = IF Asked(creation) THEN listed \cup creation.key ELSE listed
  /\ creation' = Idle
  /\ UNCHANGED <<table, selected, tab, confirm, revoking, gone, moves>>

(* An error, which leaves the form as it is; the key may have been made.   *)
CreateFails ==
  /\ creation # Idle
  /\ told' = told \cup creation.key
  /\ creation' = Idle
  /\ UNCHANGED <<table, selected, tab, keys, modals, revoking, listed, gone, moves>>

Done ==
  /\ newKey # {}
  /\ newKey' = {}
  /\ UNCHANGED <<table, selected, tab, keys, form, creation, confirm, revoking, history>>

-----------------------------------------------------------------------------
(* Revoking.                                                               *)

Active == {r.key : r \in {r \in UNION keys[selected].data : r.active}}

AskRevoke(k) ==
  /\ tab /\ k \in Active /\ newKey = {} /\ confirm = {}
  /\ confirm' = {k}
  /\ UNCHANGED <<table, selected, tab, keys, form, newKey, creation, revoking, history>>

Cancel ==
  /\ confirm # {}
  /\ confirm' = {}
  /\ UNCHANGED <<table, selected, tab, keys, form, newKey, creation, revoking, history>>

ConfirmRevoke ==
  /\ revoking = Idle
  /\ \E k \in confirm : revoking' = [pc |-> "sent", in |-> selected, at |-> selected, here |-> TRUE, key |-> k]
  /\ UNCHANGED <<table, selected, tab, keys, modals, creation, history>>

(* The key is looked for in the workspace of the path.                     *)
RevokeApiKey ==
  /\ revoking.pc = "sent"
  /\ revoked' = IF home[revoking.key] = {revoking.in} THEN revoked \cup {revoking.key} ELSE revoked
  /\ revoking' = [revoking EXCEPT !.pc = "done"]
  /\ UNCHANGED <<home, selected, tab, keys, modals, creation, history>>

\* Mutant of Revoked: the modal closes and the list stays.
RevokedOnly ==
  /\ revoking.pc = "done"
  /\ confirm' = IF revoking.here THEN {} ELSE confirm
  /\ gone' = IF Asked(revoking) THEN gone \cup {revoking.key} ELSE gone
  /\ revoking' = Idle
  /\ UNCHANGED <<table, selected, tab, keys, form, newKey, creation, told, listed, moves>>

(* Whichever key the modal asks about by now.                              *)
Revoked ==
  /\ revoking.pc = "done"
  /\ confirm' = IF revoking.here THEN {} ELSE confirm
  /\ InvalidateKeys(revoking.at)
  /\ gone' = IF Asked(revoking) THEN gone \cup {revoking.key} ELSE gone
  /\ revoking' = Idle
  /\ UNCHANGED <<table, selected, tab, form, newKey, creation, told, listed, moves>>

RevokeFails ==
  /\ revoking # Idle
  /\ revoking' = Idle
  /\ UNCHANGED <<table, selected, tab, keys, modals, creation, history>>

(* Another member revokes a key.                                           *)
RevokeElsewhere(k) ==
  /\ home[k] # {} /\ k \notin revoked
  /\ Move
  /\ revoked' = revoked \cup {k}
  /\ UNCHANGED <<home, selected, tab, keys, modals, creation, revoking, told, listed, gone>>

Next ==
  \/ \E aged \in BOOLEAN : OpenTab(aged)
  \/ LeaveTab
  \/ \E w \in Workspaces, aged \in BOOLEAN : Switch(w, aged)
  \/ \E w \in Workspaces : ReadKeys(w)
  \/ \E w \in Workspaces : KeysLand(w)
  \/ \E w \in Workspaces : KeysFail(w)
  \/ ToggleForm
  \/ Submit
  \/ \E k \in Keys : CreateApiKey(k)
  \/ Created
  \/ CreateFails
  \/ Done
  \/ \E k \in Keys : AskRevoke(k)
  \/ Cancel
  \/ ConfirmRevoke
  \/ RevokeApiKey
  \/ Revoked
  \/ RevokeFails
  \/ \E k \in Keys : RevokeElsewhere(k)

Spec == Init /\ [][Next]_vars

-----------------------------------------------------------------------------
(* A key is shown in full when it is created, unless the answer to its     *)
(* creation was lost or came after the tab was left: then it stays active  *)
(* and nobody has it (settings-view.tsx:409).                              *)
KeysAreShownOnce ==
  \A k \in Keys : home[k] # {} => k \in told \cup (IF creation = Idle THEN {} ELSE creation.key)

(* Once a change of one's own is answered, the list of its workspace shows *)
(* it or is being fetched again, however many changes overlap; unless the  *)
(* workspace was switched at the time, or an answer under way was not      *)
(* dropped (settings-view.tsx:414 and 422).                                *)
OwnChangesAreListed ==
  \A w \in Workspaces :
    keys[w].flight = "none" /\ ~keys[w].stale =>
      \A rows \in keys[w].data :
        /\ \A k \in listed : home[k] = {w} => \E r \in rows : r.key = k
        /\ \A r \in rows : r.active => r.key \notin gone
=============================================================================

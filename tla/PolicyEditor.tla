---------------------------- MODULE PolicyEditor ----------------------------
(***************************************************************************)
(* The dashboard's policy page (components/dashboard/policy-view.tsx) over *)
(* the policies of some workspaces (routers/policies.py): the rules with   *)
(* their switches, the YAML editor, and the assistant that proposes edits. *)
(* The workspace can be switched at any time, from the sidebar, and others *)
(* may save a policy too.                                                  *)
(*                                                                         *)
(* A policy text is abstracted to the workspace whose rules it is about    *)
(* (`home`: a text typed for a workspace is about that one, and an edit of *)
(* a text is about what the text was) and the rules that need an approval  *)
(* (`on`). A text may also be YAML that the API refuses; one that is no    *)
(* YAML is never sent, and left out. So are the error line, and whether    *)
(* the editor and the assistant are folded away.                           *)
(***************************************************************************)
EXTENDS Naturals, QueryCache

CONSTANTS
  Workspaces,  \* the workspaces of the user
  Rules,       \* the rules of every policy
  Saves,       \* PUTs the page may make; bounds the runs
  MaxRev,      \* revisions of a policy; bounds what others save
  MaxTurns     \* questions put to the assistant; bounds the conversation

ASSUME WorkspacesAssumption == Workspaces # {}
ASSUME MaxRevAssumption == MaxRev \in Nat
ASSUME MaxTurnsAssumption == MaxTurns \in Nat

VARIABLES
  policy,  \* the policies table: the active text of a workspace, and its revision
  cache,   \* the query ["policy", w]
  screen,  \* the page: whether it is open, the workspace, the draft, the last save
  chat,    \* the assistant
  puts,    \* save.mutate: the PUTs made so far
  due      \* history: the revision the page has to come to show

vars == <<policy, cache, screen, chat, puts, due>>

Text == [home : Workspaces, on : SUBSET Rules, kind : {"policy"}]
        \cup [home : Workspaces, on : {{}}, kind : {"refused"}]
Row == [text : Text, rev : Nat]

NoSave == [pc |-> "unsent"]
SaveDone == [pc |-> "done"]
Put == [pc : {"sent", "orphaned", "refused", "written"},
        text : Text, to : Workspaces, inv : Workspaces, rev : Nat]

NoChat == [turn |-> 0, proposals |-> {}, pending |-> {}, asking |-> FALSE, base |-> {}]

TypeOK ==
  /\ policy \in [Workspaces -> Row]
  /\ cache \in [Workspaces -> Entry(Row)]
  /\ \A w \in Workspaces : cache[w].flight = "read" => cache[w].got # {}
  /\ screen \in [open : BOOLEAN, ws : Workspaces, draft : Maybe(Text), save : SUBSET Saves]
  /\ chat \in [turn : Nat, proposals : SUBSET Text, pending : Maybe(Text),
               asking : BOOLEAN, base : Maybe(Text)]
  /\ puts \in [Saves -> {NoSave, SaveDone} \cup Put]
  /\ due \in [Workspaces -> Nat]
  /\ ~screen.open => screen.draft = {} /\ screen.save = {} /\ chat = NoChat

Init ==
  /\ policy = [w \in Workspaces |-> [text |-> [home |-> w, on |-> {}, kind |-> "policy"],
                                     rev |-> 0]]
  /\ cache = [w \in Workspaces |-> NoEntry]
  /\ \E w \in Workspaces : screen = [open |-> FALSE, ws |-> w, draft |-> {}, save |-> {}]
  /\ chat = NoChat
  /\ puts = [i \in Saves |-> NoSave]
  /\ due = [w \in Workspaces |-> 0]

(* What the page shows: the row of the selected workspace, if it has come. *)
Shown == cache[screen.ws].data
Texts(rows) == {r.text : r \in rows}

InFlight(i) == puts[i].pc \in {"sent", "refused", "written"}
IsSaving == \E i \in screen.save : InFlight(i)
Dirty == Shown # {} /\ screen.draft # Texts(Shown)

(* The controls. The list of rules is of the draft, whether or not the     *)
(* policy of the selected workspace has come; the editor is never          *)
(* disabled; every proposal of the conversation keeps its Apply button.    *)
CanToggle == screen.open /\ ~IsSaving
CanSave == screen.open /\ Dirty /\ ~IsSaving
CanAsk == screen.open /\ ~chat.asking
CanApply(p) == screen.open /\ p \in chat.proposals /\ Texts(Shown) # {p}

-----------------------------------------------------------------------------
(* The page opens and closes, and the workspace is switched.               *)

(* The effect on `policy`: a row that has come replaces the draft.         *)
DraftFrom(rows) == IF rows # {} THEN Texts(rows) ELSE screen.draft

\* Mutant of Switch: the draft is kept.
SwitchOnly(w) ==
  /\ w # screen.ws
  /\ screen' = [screen EXCEPT !.ws = w]
  /\ \E aged \in BOOLEAN :
       cache' = IF screen.open THEN [cache EXCEPT ![w] = Mount(cache[w], aged)] ELSE cache
  /\ puts' = [i \in Saves |-> IF i \in screen.save /\ screen.open /\ InFlight(i)
                              THEN [puts[i] EXCEPT !.inv = w] ELSE puts[i]]
  /\ UNCHANGED <<policy, chat, due>>

(* setWorkspaceId. The options of the last save follow the page.           *)
Switch(w) ==
  /\ w # screen.ws
  /\ screen' = IF screen.open
               THEN [screen EXCEPT !.ws = w, !.draft = DraftFrom(cache[w].data)]
               ELSE [screen EXCEPT !.ws = w]
  /\ \E aged \in BOOLEAN :
       cache' = IF screen.open THEN [cache EXCEPT ![w] = Mount(cache[w], aged)] ELSE cache
  /\ puts' = [i \in Saves |-> IF i \in screen.save /\ screen.open /\ InFlight(i)
                              THEN [puts[i] EXCEPT !.inv = w] ELSE puts[i]]
  /\ UNCHANGED <<policy, chat, due>>

OpenPage ==
  /\ ~screen.open
  /\ screen' = [screen EXCEPT !.open = TRUE, !.draft = Texts(Shown)]
  /\ \E aged \in BOOLEAN :
       cache' = [cache EXCEPT ![screen.ws] = Mount(cache[screen.ws], aged)]
  /\ UNCHANGED <<policy, chat, puts, due>>

LeavePage ==
  /\ screen.open
  /\ screen' = [screen EXCEPT !.open = FALSE, !.draft = {}, !.save = {}]
  /\ chat' = NoChat
  /\ UNCHANGED <<policy, cache, puts, due>>

-----------------------------------------------------------------------------
(* Editing and saving.                                                     *)

(* A key pressed in the YAML editor, which is never disabled.              *)
Type(t) ==
  /\ screen.open
  /\ t.home = screen.ws
  /\ screen' = [screen EXCEPT !.draft = {t}]
  /\ UNCHANGED <<policy, cache, chat, puts, due>>

Discard ==
  /\ screen.open
  /\ Dirty
  /\ screen' = [screen EXCEPT !.draft = Texts(Shown)]
  /\ UNCHANGED <<policy, cache, chat, puts, due>>

(* persist.                                                                *)
Persist(t) ==
  /\ \E i \in Saves :
       /\ puts[i].pc = "unsent"
       /\ puts' = [puts EXCEPT ![i] = [pc |-> "sent", text |-> t, to |-> screen.ws,
                                       inv |-> screen.ws, rev |-> 0]]
       /\ screen' = [screen EXCEPT !.draft = {t}, !.save = {i}]

Toggled(t, r) == IF t.kind # "policy" THEN t ELSE [t EXCEPT !.on = IF r \in t.on THEN t.on \ {r} ELSE t.on \cup {r}]

(* A switch, of whatever rules the page shows.                             *)
Toggle(r) ==
  /\ CanToggle
  /\ \E t \in screen.draft : Persist(Toggled(t, r))
  /\ UNCHANGED <<policy, cache, chat, due>>

SavePolicy ==
  /\ CanSave
  /\ \E t \in screen.draft : Persist(t)
  /\ UNCHANGED <<policy, cache, chat, due>>

(* update_policy. A request that the page has given up may still arrive.   *)
Write(i) ==
  /\ puts[i].pc \in {"sent", "orphaned"}
  /\ LET w == puts[i].to
         rev == policy[w].rev + 1
         valid == puts[i].text.kind = "policy"
     IN  /\ policy' = IF valid THEN [policy EXCEPT ![w] = [text |-> puts[i].text, rev |-> rev]]
                      ELSE policy
         /\ puts' = [puts EXCEPT ![i] =
                       IF puts[i].pc = "orphaned" THEN SaveDone
                       ELSE IF valid THEN [puts[i] EXCEPT !.pc = "written", !.rev = rev]
                       ELSE [puts[i] EXCEPT !.pc = "refused"]]
  /\ UNCHANGED <<cache, screen, chat, due>>

OnScreen(w) == screen.open /\ w = screen.ws

\* Mutant of Saved: onSuccess does not invalidate the query.
SavedOnly(i) ==
  /\ puts[i].pc = "written"
  /\ puts' = [puts EXCEPT ![i] = SaveDone]
  /\ due' = IF OnScreen(puts[i].to) /\ puts[i].inv = puts[i].to /\ Shown # {}
            THEN [due EXCEPT ![puts[i].to] = IF puts[i].rev > @ THEN puts[i].rev ELSE @] ELSE due
  /\ UNCHANGED <<policy, cache, screen, chat>>

(* onSuccess. The page has to show what was saved if it still shows the    *)
(* policy of that workspace.                                               *)
Saved(i) ==
  /\ puts[i].pc = "written"
  /\ puts' = [puts EXCEPT ![i] = SaveDone]
  /\ cache' = [cache EXCEPT ![puts[i].inv] = Invalidate(cache[puts[i].inv], OnScreen(puts[i].inv))]
  /\ due' = IF OnScreen(puts[i].to) /\ puts[i].inv = puts[i].to /\ Shown # {}
            THEN [due EXCEPT ![puts[i].to] = IF puts[i].rev > @ THEN puts[i].rev ELSE @] ELSE due
  /\ UNCHANGED <<policy, screen, chat>>

(* onError: the text was refused, or the connection was lost.              *)
SaveFails(i) ==
  /\ InFlight(i)
  /\ puts' = [puts EXCEPT ![i] = IF puts[i].pc = "sent"
                                 THEN [puts[i] EXCEPT !.pc = "orphaned"] ELSE SaveDone]
  /\ UNCHANGED <<policy, cache, screen, chat, due>>

(* Somebody else saves a policy.                                           *)
OtherSaves(w, r) ==
  /\ policy[w].rev < MaxRev
  /\ policy' = [policy EXCEPT ![w] = [text |-> Toggled(policy[w].text, r),
                                      rev |-> policy[w].rev + 1]]
  /\ UNCHANGED <<cache, screen, chat, puts, due>>

-----------------------------------------------------------------------------
(* The query's requests.                                                   *)

GetPolicy(w) ==
  /\ cache[w].flight = "sent"
  /\ cache' = [cache EXCEPT ![w] = Read(cache[w], policy[w])]
  /\ UNCHANGED <<policy, screen, chat, puts, due>>

\* Mutant of PolicyLands: the effect runs whenever an answer comes.
PolicyAlwaysLands(w) ==
  /\ cache[w].flight = "read"
  /\ cache' = [cache EXCEPT ![w] = Landed(cache[w])]
  /\ screen' = IF OnScreen(w) THEN [screen EXCEPT !.draft = Texts(cache[w].got)] ELSE screen
  /\ UNCHANGED <<policy, chat, puts, due>>

(* An answer equal to the last one is not a new object: no effect runs.    *)
PolicyLands(w) ==
  /\ cache[w].flight = "read"
  /\ cache' = [cache EXCEPT ![w] = Landed(cache[w])]
  /\ screen' = IF OnScreen(w) /\ cache[w].got # cache[w].data
               THEN [screen EXCEPT !.draft = Texts(cache[w].got)] ELSE screen
  /\ UNCHANGED <<policy, chat, puts, due>>

PolicyFails(w) ==
  /\ cache[w].flight # "none"
  /\ cache' = [cache EXCEPT ![w] = Failed(cache[w])]
  /\ UNCHANGED <<policy, screen, chat, puts, due>>

-----------------------------------------------------------------------------
(* The assistant, which stays mounted when the workspace is switched.      *)

(* submit: the pending proposal, applied or not, is the base of the next,  *)
(* and without one the API takes the policy.                               *)
Ask ==
  /\ CanAsk
  /\ chat.turn < MaxTurns
  /\ chat' = [chat EXCEPT !.turn = chat.turn + 1, !.asking = TRUE, !.base =
                IF chat.pending # {} THEN chat.pending ELSE {policy[screen.ws].text}]
  /\ UNCHANGED <<policy, cache, screen, puts, due>>

(* What draft_policy may propose: an edit of the base.                     *)
Drafts == {Toggled(b, r) : b \in chat.base, r \in Rules}

Proposed(p) ==
  /\ chat.asking
  /\ p \in Drafts
  /\ chat' = [chat EXCEPT !.asking = FALSE, !.base = {}, !.proposals = chat.proposals \cup {p},
                          !.pending = {p}]
  /\ UNCHANGED <<policy, cache, screen, puts, due>>

(* The answer only explains, or does not come.                             *)
NotProposed ==
  /\ chat.asking
  /\ chat' = [chat EXCEPT !.asking = FALSE, !.base = {}]
  /\ UNCHANGED <<policy, cache, screen, puts, due>>

(* Apply, on any proposal of the conversation; a save may be under way.    *)
Apply(p) ==
  /\ CanApply(p)
  /\ Persist(p)
  /\ UNCHANGED <<policy, cache, chat, due>>

-----------------------------------------------------------------------------
Next ==
  \/ \E w \in Workspaces : Switch(w)
  \/ OpenPage
  \/ LeavePage
  \/ \E t \in Text : Type(t)
  \/ Discard
  \/ \E r \in Rules : Toggle(r)
  \/ SavePolicy
  \/ \E i \in Saves : Write(i)
  \/ \E i \in Saves : Saved(i)
  \/ \E i \in Saves : SaveFails(i)
  \/ \E w \in Workspaces, r \in Rules : OtherSaves(w, r)
  \/ \E w \in Workspaces : GetPolicy(w)
  \/ \E w \in Workspaces : PolicyLands(w)
  \/ \E w \in Workspaces : PolicyFails(w)
  \/ Ask
  \/ \E p \in Text : Proposed(p)
  \/ NotProposed
  \/ \E p \in Text : Apply(p)

Spec == Init /\ [][Next]_vars

-----------------------------------------------------------------------------
(* The page shows what it saved. A row older than a save that was          *)
(* acknowledged on this page is known to be stale, and whatever answer     *)
(* arrives next has the saved text: no answer read before the save can     *)
(* replace it, however saves, switches and fetches overlap                 *)
(* (policy-view.tsx, onSuccess).                                           *)
SavedIsShown ==
  \A w \in Workspaces : \A r \in cache[w].data :
    r.rev < due[w] =>
      /\ cache[w].stale
      /\ \A g \in cache[w].got : g.rev >= due[w]

(* Once the policy of the selected workspace has come, the editor holds    *)
(* rules of that policy or of a proposal to apply, never what is left of   *)
(* the workspace that was selected before (the effect on `policy`).        *)
EditorIsOfWorkspace ==
  screen.open =>
    \A t \in screen.draft, r \in Shown :
      t.home \in {screen.ws, r.text.home} \cup {p.home : p \in chat.proposals}

(* What is typed is not lost to a refetch that brings nothing new: only a  *)
(* row of a later revision replaces the draft (structural sharing).        *)
RefetchKeepsTyping ==
  [][\A w \in Workspaces :
       PolicyLands(w) /\ screen'.draft # screen.draft =>
         \A old \in cache[w].data, new \in cache'[w].data : old.rev < new.rev]_vars
=============================================================================

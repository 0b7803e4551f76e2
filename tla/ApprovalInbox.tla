--------------------------- MODULE ApprovalInbox ----------------------------
(***************************************************************************)
(* The page of approvals (components/dashboard/approvals-view.tsx): four   *)
(* lists, one per status, of which the pending one is polled and is also   *)
(* read by the sidebar; the request opened by the id of the URL, in a      *)
(* panel that stays through its exit (ui.tsx, useExiting); and decisions   *)
(* sent from the panel while others decide and requests expire.            *)
(***************************************************************************)
EXTENDS Naturals, FiniteSets, QueryCache

CONSTANTS
  Approvals,  \* requests of the workspace
  Outcomes,   \* statuses a request may end in
  MaxSent     \* decisions under way; bounds the runs

VARIABLES
  status,    \* of each request, in the database; "none" before it is made
  list,      \* the queries ["approvals", workspace, status]
  tab,       \* the tab of the page, "closed" when another page is shown
  selected,  \* the id of the URL, or {}
  moved,     \* history: the status of the selected request changed since it was found
  kept,      \* the request that useExiting keeps for the panel, or {}
  detail,    \* the state of the panel's ApprovalDetail
  sent,      \* decisions under way
  decided    \* history: the requests a decision of this page was answered for

vars == <<status, list, tab, selected, moved, kept, detail, sent, decided>>

Statuses == {"pending"} \cup Outcomes
Decisions == Outcomes \ {"denied_timeout"}
Item == [id : Approvals, status : Statuses]

(* `note` names the request for which a note was typed.                    *)
Detail == [note : Maybe(Approvals), busy : BOOLEAN]
Sent == [id : Approvals, decision : Decisions, note : Maybe(Approvals),
         pc : {"sent", "done"}, mine : BOOLEAN]  \* mine: of the panel as it is now
Blank == [note |-> {}, busy |-> FALSE]

(* The panel that is busy waits for a decision of its own.                 *)
TypeOK ==
  /\ status \in [Approvals -> {"none"} \cup Statuses]
  /\ list \in [Statuses -> Entry(SUBSET Approvals)]
  /\ tab \in {"closed"} \cup Statuses
  /\ selected \in Maybe(Approvals)
  /\ moved \in BOOLEAN
  /\ kept \in Maybe(Item)
  /\ detail \in Detail
  /\ sent \subseteq Sent
  /\ decided \subseteq Approvals
  /\ detail.busy => \E r \in sent : r.mine /\ kept # {} /\ \A p \in kept : r.id = p.id

Init ==
  /\ status = [a \in Approvals |-> "none"]
  /\ list = [s \in Statuses |-> IF s = "pending" THEN Send(NoEntry) ELSE NoEntry]
  /\ tab = "closed"
  /\ selected = {}
  /\ moved = FALSE
  /\ kept = {}
  /\ detail = Blank
  /\ sent = {}
  /\ decided = {}

-----------------------------------------------------------------------------
(* What is shown of given lists `l`, tab `t` and selection `sel`.          *)

Listed(l, s) == UNION l[s].data

\* The lists are searched in this order.
Rank == [pending |-> 1, approved |-> 2, rejected |-> 3, denied_timeout |-> 4]

Found(l, sel) ==
  {p \in Item : /\ p.id \in sel
                /\ p.id \in Listed(l, p.status)
                /\ \A s \in Statuses : p.id \in Listed(l, s) => Rank[p.status] <= Rank[s]}
Shown(l, t, sel) == {p \in Found(l, sel) : p.status = t}

Ids(items) == {p.id : p \in items}

\* Mutant of TabAfter: the tab does not follow the selection.
TabAfterFixed(found, before, t) == t

(* The effect on selected?.id.                                             *)
TabAfter(found, before, t) ==
  IF found # {} /\ Ids(found) # Ids(before) THEN CHOOSE s \in Statuses : \E p \in found : p.status = s
  ELSE t

\* Mutant of Remount: the panel is not keyed by its request.
RemountNone(panel) == UNCHANGED <<detail, sent>>

(* The panel is keyed by its request: another one starts afresh.           *)
Remount(panel) ==
  IF Ids(panel) = Ids(kept) THEN UNCHANGED <<detail, sent>>
  ELSE detail' = Blank /\ sent' = {[r EXCEPT !.mine = FALSE] : r \in sent}

Render(l, t, sel) ==
  LET found == Found(l, sel)
      before == IF tab = "closed" THEN {} ELSE Found(list, selected)
      shown == {p \in found : p.status = TabAfter(found, before, t)}
      panel == IF shown # {} THEN shown ELSE kept
  IN  /\ list' = l
      /\ tab' = TabAfter(found, before, t)
      /\ selected' = sel
      /\ moved' = (found # {} /\ Ids(found) = Ids(before) /\ (moved \/ found # before))
      /\ kept' = panel
      /\ Remount(panel)

(* Lists that change while another page is shown.                          *)
Lists(l) == IF tab = "closed" THEN list' = l /\ UNCHANGED <<tab, selected, moved, kept, detail, sent>>
            ELSE Render(l, tab, selected)

-----------------------------------------------------------------------------
(* The page.                                                               *)

(* A link to a request, or to none. `aged`: the lists are old.             *)
OpenPage(sel, aged) ==
  /\ tab = "closed"
  /\ Render([s \in Statuses |-> Mount(list[s], aged)], "pending", sel)
  /\ UNCHANGED <<status, decided>>

ClosePage ==
  /\ tab # "closed"
  /\ tab' = "closed"
  /\ selected' = {}
  /\ moved' = FALSE
  /\ kept' = {}
  /\ Remount({})
  /\ UNCHANGED <<status, list, decided>>

ChangeTab(t) ==
  /\ tab # "closed" /\ tab # t
  /\ Render(list, t, {})
  /\ UNCHANGED <<status, decided>>

(* A row opens its request, and closes the open one; so do the button of   *)
(* the panel and Escape.                                                   *)
ClickRow(a) ==
  /\ tab # "closed" /\ a \in Listed(list, tab)
  /\ Render(list, tab, IF Ids(Shown(list, tab, selected)) = {a} THEN {} ELSE {a})
  /\ UNCHANGED <<status, decided>>

ClosePanel ==
  /\ tab # "closed" /\ kept # {} /\ selected # {}
  /\ Render(list, tab, {})
  /\ UNCHANGED <<status, decided>>

(* The timer of useExiting.                                                *)
PanelExits ==
  /\ tab # "closed" /\ kept # {} /\ Shown(list, tab, selected) = {}
  /\ kept' = {}
  /\ Remount({})
  /\ UNCHANGED <<status, list, tab, selected, moved, decided>>

PanelIsPending(p) == p \in kept /\ p.status = "pending"

TypeNote(p) ==
  /\ PanelIsPending(p)
  /\ detail' = [detail EXCEPT !.note = {p.id}]
  /\ UNCHANGED <<status, list, tab, selected, moved, kept, sent, decided>>

Decide(p, d) ==
  /\ PanelIsPending(p) /\ ~detail.busy
  /\ Cardinality(sent) < MaxSent
  /\ detail' = [detail EXCEPT !.busy = TRUE]
  /\ sent' = sent \cup {[id |-> p.id, decision |-> d, note |-> detail.note, pc |-> "sent", mine |-> TRUE]}
  /\ UNCHANGED <<status, list, tab, selected, moved, kept, decided>>

-----------------------------------------------------------------------------
(* The API.                                                                *)

ReadList(s) ==
  /\ list[s].flight = "sent"
  /\ list' = [list EXCEPT ![s] = Read(list[s], {a \in Approvals : status[a] = s})]
  /\ UNCHANGED <<status, tab, selected, moved, kept, detail, sent, decided>>

ListLands(s) ==
  /\ list[s].flight = "read"
  /\ Lists([list EXCEPT ![s] = Landed(list[s])])
  /\ UNCHANGED <<status, decided>>

ListFails(s) ==
  /\ list[s].flight # "none"
  /\ list' = [list EXCEPT ![s] = Failed(list[s])]
  /\ UNCHANGED <<status, tab, selected, moved, kept, detail, sent, decided>>

(* refetchInterval, of the pending list alone.                             *)
Poll ==
  /\ list["pending"].flight = "none"
  /\ list' = [list EXCEPT !["pending"] = Send(list["pending"])]
  /\ UNCHANGED <<status, tab, selected, moved, kept, detail, sent, decided>>

(* A decision counts while the request is pending, and is refused after.   *)
ServeDecision(r) ==
  /\ r \in sent /\ r.pc = "sent"
  /\ status' = IF status[r.id] = "pending" THEN [status EXCEPT ![r.id] = r.decision] ELSE status
  /\ sent' = (sent \ {r}) \cup {[r EXCEPT !.pc = "done"]}
  /\ UNCHANGED <<list, tab, selected, moved, kept, detail, decided>>

OnScreen(s) == s = "pending" \/ tab # "closed"
Refetched == [s \in Statuses |-> Invalidate(list[s], OnScreen(s))]

Settle(r) ==
  /\ sent' = sent \ {r}
  /\ detail' = IF r.mine THEN [detail EXCEPT !.busy = FALSE] ELSE detail

\* Mutant of DecisionLands: the lists are not invalidated.
DecisionLandsOnly(r) ==
  /\ r \in sent /\ r.pc = "done"
  /\ Settle(r)
  /\ decided' = decided \cup {r.id}
  /\ UNCHANGED <<status, list, tab, selected, moved, kept>>

(* onSettled, on an answer and on an error.                                *)
DecisionLands(r) ==
  /\ r \in sent /\ r.pc = "done"
  /\ Settle(r)
  /\ list' = Refetched
  /\ decided' = decided \cup {r.id}
  /\ UNCHANGED <<status, tab, selected, moved, kept>>

DecisionLost(r) ==
  /\ r \in sent
  /\ Settle(r)
  /\ list' = Refetched
  /\ UNCHANGED <<status, tab, selected, moved, kept, decided>>

(* An agent asks; somebody decides elsewhere, or the request expires.      *)
Request(a) ==
  /\ status[a] = "none"
  /\ status' = [status EXCEPT ![a] = "pending"]
  /\ UNCHANGED <<list, tab, selected, moved, kept, detail, sent, decided>>

Ends(a, o) ==
  /\ status[a] = "pending"
  /\ status' = [status EXCEPT ![a] = o]
  /\ UNCHANGED <<list, tab, selected, moved, kept, detail, sent, decided>>

Next ==
  \/ \E sel \in Maybe(Approvals), aged \in BOOLEAN : OpenPage(sel, aged)
  \/ ClosePage
  \/ \E t \in Statuses : ChangeTab(t)
  \/ \E a \in Approvals : ClickRow(a)
  \/ ClosePanel
  \/ PanelExits
  \/ \E p \in Item : TypeNote(p)
  \/ \E p \in Item, d \in Decisions : Decide(p, d)
  \/ \E s \in Statuses : ReadList(s)
  \/ \E s \in Statuses : ListLands(s)
  \/ \E s \in Statuses : ListFails(s)
  \/ Poll
  \/ \E r \in sent : ServeDecision(r)
  \/ \E r \in sent : DecisionLands(r)
  \/ \E r \in sent : DecisionLost(r)
  \/ \E a \in Approvals : Request(a)
  \/ \E a \in Approvals, o \in Outcomes : Ends(a, o)

Spec == Init /\ [][Next]_vars

-----------------------------------------------------------------------------
(* A note is sent with a decision on the request it was typed for, however *)
(* the panel changed in between (the key at approvals-view.tsx:139).       *)
NotesStayWithRequests == \A r \in sent : r.note \subseteq {r.id}

(* Once this page's decision on a request was answered, a pending list     *)
(* that still has it is due to be fetched again: no answer that was read   *)
(* before the decision passes for a fresh one (approvals-view.tsx:287).    *)
AnsweredIsNotPending ==
  \A a \in decided : a \in Listed(list, "pending") => list["pending"].stale

(* A request that a link or a row opens is shown on its tab, until its     *)
(* status changes under it (approvals-view.tsx:53).                        *)
LandsOnItsTab ==
  tab # "closed" /\ ~moved => \A p \in Found(list, selected) : p.status = tab
=============================================================================

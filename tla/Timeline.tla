------------------------------ MODULE Timeline ------------------------------
(***************************************************************************)
(* The pages that read the log: the timeline with its filters, side panel  *)
(* and chain (components/dashboard/timeline-view.tsx), and the month's     *)
(* figures on the home page (home-view.tsx).                               *)
(*                                                                         *)
(* An event is its place in the log, which is chained in that order; 0 is  *)
(* none. Its created_at is the start of the transaction that inserts it,   *)
(* and the pages go by that: inserts that overlap may be chained the other *)
(* way round (module AuditChain). Its agent, status and name are its kind; *)
(* the agent, the status and the words to search for let a set of kinds    *)
(* through.                                                                *)
(***************************************************************************)
EXTENDS Naturals, Sequences, FiniteSets, QueryCache

CONSTANTS
  Kinds,      \* of events
  PageSize,   \* events that the API returns at most
  Recent,     \* events that the home page links to
  MaxEvents   \* bounds the runs

VARIABLES
  page,      \* "home", "timeline" or another
  log,       \* the events, in the order of the chain
  removed,   \* events deleted from the database since
  events,    \* the query ["events-latest", workspace]
  filters,   \* of the timeline
  selected   \* the event of the URL

vars == <<page, log, removed, events, filters, selected>>

Event == [kind : Kinds, created : 1 .. MaxEvents, month : BOOLEAN]
Ids == DOMAIN log

Older(i, j) == log[i].created < log[j].created

(* The kinds let through, and whether earlier months are.                  *)
Filters == [kinds : SUBSET Kinds, all : BOOLEAN]
NoFilter == [kinds |-> Kinds, all |-> FALSE]

TypeOK ==
  /\ page \in {"home", "timeline", "other"}
  /\ log \in Seq(Event)
  /\ removed \subseteq Ids
  /\ events \in Entry(SUBSET Ids)
  /\ filters \in Filters
  /\ selected \in {0} \cup Ids

Init ==
  /\ page = "home"
  /\ log = <<>>
  /\ removed = {}
  /\ events = Send(NoEntry)
  /\ filters = NoFilter
  /\ selected = 0

timeline == <<page, filters, selected>>

-----------------------------------------------------------------------------
(* The log and the API.                                                    *)

(* An insert commits, begun as the c-th of all (and this month, or not):   *)
(* it is chained last, whatever began before it or since.                  *)
Log(k, c, m) ==
  /\ \A i \in Ids : log[i].created # c
  /\ \A i \in Ids : IF log[i].created < c THEN log[i].month => m ELSE m => log[i].month
  /\ log' = Append(log, [kind |-> k, created |-> c, month |-> m])
  /\ UNCHANGED <<removed, events, timeline>>

Remove(i) ==
  /\ i \in Ids \ removed
  /\ removed' = removed \cup {i}
  /\ UNCHANGED <<log, events, timeline>>

Newer(i) == {j \in Ids \ removed : Older(i, j)}

\* Mutant of Latest: the last of the chain.
LatestChained == {i \in Ids \ removed : Cardinality({j \in Ids \ removed : j > i}) < PageSize}

(* list_events: newest first by created_at, a page of them.                *)
Latest == {i \in Ids \ removed : Cardinality(Newer(i)) < PageSize}

ReadEvents ==
  /\ events.flight = "sent"
  /\ events' = Read(events, Latest)
  /\ UNCHANGED <<log, removed, timeline>>

EventsLand ==
  /\ events.flight = "read"
  /\ events' = Landed(events)
  /\ UNCHANGED <<log, removed, timeline>>

EventsFail ==
  /\ events.flight # "none"
  /\ events' = Failed(events)
  /\ UNCHANGED <<log, removed, timeline>>

Poll ==
  /\ page # "other"
  /\ events.flight = "none"
  /\ events' = Send(events)
  /\ UNCHANGED <<log, removed, timeline>>

-----------------------------------------------------------------------------
(* The home page and the timeline.                                         *)

(* A page starts afresh, and reads what has grown old (`aged`).            *)
Show(p, i, aged) ==
  /\ page' = p
  /\ events' = IF p = "other" THEN events ELSE Mount(events, aged)
  /\ filters' = NoFilter /\ selected' = i
  /\ UNCHANGED <<log, removed>>

OpenPage(p, aged) == page # p /\ Show(p, 0, aged)

(* An answer cites events, with links to them.                             *)
OpenCitation(i, aged) == page = "other" /\ i \in Ids /\ Show("timeline", i, aged)

Page == UNION events.data

Filtered ==
  {i \in Page : log[i].kind \in filters.kinds /\ (filters.all \/ log[i].month)}

SetFilter(f) ==
  /\ page = "timeline" /\ f # filters
  /\ filters' = f
  /\ UNCHANGED <<page, log, removed, events, selected>>

\* Mutant of List: the panel steps through all events.
ListAll == Page

(* The panel steps through the filtered events if it shows one of them.    *)
List == IF selected \in Filtered THEN Filtered ELSE Page

Select(i) ==
  /\ page = "timeline" /\ i \in Filtered
  /\ selected' = i
  /\ UNCHANGED <<page, log, removed, events, filters>>

ClosePanel ==
  /\ page = "timeline" /\ selected \in Page
  /\ selected' = 0
  /\ UNCHANGED <<page, log, removed, events, filters>>

(* The event of the list next to the selected one, if there is one.        *)
Beside(older) ==
  LET way == {i \in List : IF older THEN Older(i, selected) ELSE Older(selected, i)}
  IN  {i \in way : \A j \in way : IF older THEN ~Older(i, j) ELSE ~Older(j, i)}

Step(older) ==
  /\ page = "timeline" /\ selected \in Page
  /\ \E i \in Beside(older) : selected' = i
  /\ UNCHANGED <<page, log, removed, events, filters>>

\* Mutant of Linked: by the event after instead of the one before.
LinkedNext(i) == i + 1 \in Page

(* The hash before an event's is that of an event of the page.             *)
Linked(i) == i - 1 \in Page

(* The home page: what the month's events are, by agent and by outcome,    *)
(* and links to the latest events.                                         *)
Month == {i \in Page : log[i].month}
ByKind(k) == Cardinality({i \in Month : log[i].kind = k})
Activity == {i \in Page : Cardinality({j \in Page : Older(i, j)}) < Recent}

OpenActivity(i, aged) == page = "home" /\ i \in Activity /\ Show("timeline", i, aged)

Next ==
  \/ \E k \in Kinds, c \in 1 .. MaxEvents, m \in BOOLEAN : Log(k, c, m)
  \/ \E i \in Ids : Remove(i)
  \/ ReadEvents
  \/ EventsLand
  \/ EventsFail
  \/ Poll
  \/ \E f \in Filters : SetFilter(f)
  \/ \E i \in Ids : Select(i)
  \/ ClosePanel
  \/ \E older \in BOOLEAN : Step(older)
  \/ \E p \in {"home", "timeline", "other"}, aged \in BOOLEAN : OpenPage(p, aged)
  \/ \E i \in Ids, aged \in BOOLEAN : OpenCitation(i, aged)
  \/ \E i \in Ids, aged \in BOOLEAN : OpenActivity(i, aged)

Spec == Init /\ [][Next]_vars

-----------------------------------------------------------------------------
(* Whatever arrives while the page is open, and in whatever order: what an *)
(* event without a link follows is older than all events of the page, if   *)
(* nothing was removed. No event between those of the page is missing; and *)
(* the one without a link is the first of the chain on the page, or an     *)
(* insert that overlapped others (timeline-view.tsx:65, events.py:45).     *)
UnlinkedFollowsOlder ==
  removed = {} => \A i \in Page : ~Linked(i) => i = 1 \/ \A j \in Page : Older(i - 1, j)

Between(i, j) == {k \in Ids : (Older(i, k) /\ Older(k, j)) \/ (Older(j, k) /\ Older(k, i))}

(* The panel steps from a filtered event to the next one of the filter,    *)
(* although events have come since it was opened (timeline-view.tsx:86).   *)
StepStays ==
  \A older \in BOOLEAN : Step(older) /\ selected \in Filtered =>
    /\ selected' \in Filtered
    /\ Filtered \cap Between(selected, selected') = {}
StepsWithinFilter == [][StepStays]_vars

(* The home page counts all events of the month that were chained up to    *)
(* any it has, each with its kind, unless there are more than a page of    *)
(* them (home-view.tsx:49-66).                                             *)
MonthIsWhole ==
  removed = {} /\ Cardinality(Page) < PageSize =>
    \A j \in Page, k \in Kinds :
      ByKind(k) >= Cardinality({i \in 1 .. j : log[i].month /\ log[i].kind = k})
=============================================================================

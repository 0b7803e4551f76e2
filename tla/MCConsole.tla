------------------------------ MODULE MCConsole -------------------------------
(***************************************************************************)
(* Instances of the dashboard's pages and parts for TLC, one of which is   *)
(* looked at in a behaviour: `part` says which. The others rest: the page  *)
(* of members as it was at first, the rest with all their variables 0.     *)
(***************************************************************************)
EXTENDS Integers, Sequences, Members, TLC

CONSTANTS
  Approvals, Outcomes, MaxSent,                 \* ApprovalInbox
  Questions, Texts, InsertAttempts, MaxRestarts, MaxReviews,  \* EvidencePack
  EventKinds, PageSize, Recent, MaxEvents,      \* Timeline, Soc2
  Criteria, Family, Live,                       \* Soc2
  OtherPlans,                                   \* BillingPage
  Names, Passwords, MaxMoves,                   \* AccountCards
  Items, Matches,                               \* CommandPalette
  Sizes, MaxDrafted                             \* HomePage, InsertAttempts too

(* What the theorems about the parts assume.                               *)
ASSUME PartsAssumption ==
  /\ {MaxEvents, Recent, MaxMoves} \subseteq Nat /\ PageSize \in Nat
  /\ Items \in Seq(STRING) /\ "" \in DOMAIN Matches
  /\ Sizes \in Seq(Nat)
  /\ Outcomes \subseteq {"approved", "rejected", "denied_timeout"}
  /\ Questions \in Nat /\ Texts \in Nat /\ InsertAttempts \in Nat
  /\ MaxDrafted \in Nat

(* Values for TLC.                                                         *)
TwoFamilies == <<"CC6", "CC6", "CC7">>
ThreeItems == <<"/dashboard", "/timeline", "/settings">>
ThreeQueries == "" :> {"/dashboard", "/timeline", "/settings"} @@ "t" :> {"/timeline", "/settings"}
                @@ "z" :> {}
TwoSizes == <<2, 1>>

VARIABLES
  part,
  status, lists, tab, selected, moved, kept, detail, sent, decided,
  pack, job, rows, restarts, repeats, upload, packs, packPage, answers, at, text, saves, alls, reviews, trouble,
  logPage, log, removed, events, filters, event,
  logged, failed, controls, counting, soc2Page, focus, filter,
  plan, had, billingPage, shown, poll, success,
  fullName, password, shownName, user, field, nameSave, typed, change, astray, raced, moves,
  path, nav, open, query, index,
  statuses, running, todo, drafted, reopened, packList, counts, rowsPage

inboxVars == <<status, lists, tab, selected, moved, kept, detail, sent, decided>>
packVars == <<pack, job, rows, restarts, repeats, upload, packs, packPage, answers, at, text, saves,
              alls, reviews, trouble>>
eventVars == <<logPage, log, removed, events, filters, event>>
controlVars == <<logged, failed, controls, counting, soc2Page, focus, filter>>
planVars == <<plan, had, billingPage, shown, poll, success>>
cardVars == <<fullName, password, shownName, user, field, nameSave, typed, change, astray, raced, moves>>
paletteVars == <<path, nav, open, query, index>>
rowVars == <<statuses, running, todo, drafted, reopened, packList, counts, rowsPage>>

Symmetry == Permutations(Passwords)

Inbox == INSTANCE ApprovalInbox WITH list <- lists
Pack == INSTANCE EvidencePack WITH page <- packPage
Events == INSTANCE Timeline WITH Kinds <- EventKinds, page <- logPage, selected <- event
Controls == INSTANCE Soc2 WITH Controls <- Criteria, page <- soc2Page
Plans == INSTANCE BillingPage WITH page <- billingPage
Cards == INSTANCE AccountCards WITH save <- nameSave, who <- shownName
Palette == INSTANCE CommandPalette
HomeRows == INSTANCE HomePage WITH status <- statuses, list <- packList,
              answers <- counts, page <- rowsPage

(* The rest of the parts.                                                  *)
NoInbox ==
  /\ status = 0 /\ lists = 0 /\ tab = 0 /\ selected = 0 /\ moved = 0 /\ kept = 0 /\ detail = 0
  /\ sent = 0 /\ decided = 0
NoPack ==
  /\ pack = 0 /\ job = 0 /\ rows = 0 /\ restarts = 0 /\ repeats = 0 /\ upload = 0 /\ packs = 0
  /\ packPage = 0 /\ answers = 0 /\ at = 0 /\ text = 0 /\ saves = 0 /\ alls = 0 /\ reviews = 0
  /\ trouble = 0
NoEvents ==
  /\ logPage = 0 /\ log = 0 /\ removed = 0 /\ events = 0 /\ filters = 0 /\ event = 0
NoControls ==
  /\ logged = 0 /\ failed = 0 /\ controls = 0 /\ counting = 0 /\ soc2Page = 0 /\ focus = 0
  /\ filter = 0
NoPlans ==
  /\ plan = 0 /\ had = 0 /\ billingPage = 0 /\ shown = 0 /\ poll = 0 /\ success = 0
NoCards ==
  /\ fullName = 0 /\ password = 0 /\ shownName = 0 /\ user = 0 /\ field = 0 /\ nameSave = 0
  /\ typed = 0 /\ change = 0 /\ astray = 0 /\ raced = 0 /\ moves = 0
NoPalette ==
  /\ path = 0 /\ nav = 0 /\ open = 0 /\ query = 0 /\ index = 0
NoHomeRows ==
  /\ statuses = 0 /\ running = 0 /\ todo = 0 /\ drafted = 0 /\ reopened = 0 /\ packList = 0
  /\ counts = 0 /\ rowsPage = 0

ConsoleInit ==
  /\ Init
  /\ \/ part = "members" /\ NoInbox /\ NoPack /\ NoEvents /\ NoControls /\ NoPlans
        /\ NoCards /\ NoPalette /\ NoHomeRows
     \/ part = "inbox" /\ Inbox!Init /\ NoPack /\ NoEvents /\ NoControls /\ NoPlans
        /\ NoCards /\ NoPalette /\ NoHomeRows
     \/ part = "pack" /\ NoInbox /\ Pack!Init /\ NoEvents /\ NoControls /\ NoPlans
        /\ NoCards /\ NoPalette /\ NoHomeRows
     \/ part = "events" /\ NoInbox /\ NoPack /\ Events!Init /\ NoControls /\ NoPlans
        /\ NoCards /\ NoPalette /\ NoHomeRows
     \/ part = "controls" /\ NoInbox /\ NoPack /\ NoEvents /\ Controls!Init /\ NoPlans
        /\ NoCards /\ NoPalette /\ NoHomeRows
     \/ part = "plans" /\ NoInbox /\ NoPack /\ NoEvents /\ NoControls /\ Plans!Init
        /\ NoCards /\ NoPalette /\ NoHomeRows
     \/ part = "cards" /\ NoInbox /\ NoPack /\ NoEvents /\ NoControls /\ NoPlans
        /\ Cards!Init /\ NoPalette /\ NoHomeRows
     \/ part = "palette" /\ NoInbox /\ NoPack /\ NoEvents /\ NoControls /\ NoPlans
        /\ NoCards /\ Palette!Init /\ NoHomeRows
     \/ part = "rows" /\ NoInbox /\ NoPack /\ NoEvents /\ NoControls /\ NoPlans /\ NoCards
        /\ NoPalette /\ HomeRows!Init

ConsoleNext ==
  \/ /\ part = "members" /\ Next
     /\ UNCHANGED <<part, inboxVars, packVars, eventVars, controlVars, planVars,
                   cardVars, paletteVars, rowVars>>
  \/ /\ part = "inbox" /\ Inbox!Next
     /\ UNCHANGED <<part, vars, packVars, eventVars, controlVars, planVars, cardVars,
                   paletteVars, rowVars>>
  \/ /\ part = "pack" /\ Pack!Next
     /\ UNCHANGED <<part, vars, inboxVars, eventVars, controlVars, planVars,
                   cardVars, paletteVars, rowVars>>
  \/ /\ part = "events" /\ Events!Next
     /\ UNCHANGED <<part, vars, inboxVars, packVars, controlVars, planVars, cardVars,
                   paletteVars, rowVars>>
  \/ /\ part = "controls" /\ Controls!Next
     /\ UNCHANGED <<part, vars, inboxVars, packVars, eventVars, planVars, cardVars,
                   paletteVars, rowVars>>
  \/ /\ part = "plans" /\ Plans!Next
     /\ UNCHANGED <<part, vars, inboxVars, packVars, eventVars, controlVars,
                   cardVars, paletteVars, rowVars>>
  \/ /\ part = "cards" /\ Cards!Next
     /\ UNCHANGED <<part, vars, inboxVars, packVars, eventVars, controlVars,
                   planVars, paletteVars, rowVars>>
  \/ /\ part = "palette" /\ Palette!Next
     /\ UNCHANGED <<part, vars, inboxVars, packVars, eventVars, controlVars,
                   planVars, cardVars, rowVars>>
  \/ /\ part = "rows" /\ HomeRows!Next
     /\ UNCHANGED <<part, vars, inboxVars, packVars, eventVars, controlVars,
                   planVars, cardVars, paletteVars>>

consoleVars == <<part, vars, inboxVars, packVars, eventVars, controlVars,
                 planVars, cardVars, paletteVars, rowVars>>

ConsoleSpec == ConsoleInit /\ [][ConsoleNext]_consoleVars

(* Bounds the runs: of runs of a job once more, inserts sent once more and *)
(* reviews there are three in all, or two once there is trouble; one event *)
(* is removed; and one of the questionnaires in rows has more answers than *)
(* questions, or is reopened.                                              *)
MishapsAreFew ==
  /\ part = "pack" => restarts + repeats + reviews <= IF trouble = "none" THEN 3 ELSE 2
  /\ part = "events" => \A i, j \in removed : i = j
  /\ part = "rows" => \E p \in HomeRows!Packs : \A q \in HomeRows!Packs \ {p} :
       q \notin reopened /\ drafted[q] <= Sizes[q]

-----------------------------------------------------------------------------
(* Every part keeps to its own types (its TypeOK).                         *)
PartTypeOK ==
  /\ part = "members" => TypeOK
  /\ part = "inbox" => Inbox!TypeOK
  /\ part = "pack" => Pack!TypeOK
  /\ part = "events" => Events!TypeOK
  /\ part = "controls" => Controls!TypeOK
  /\ part = "plans" => Plans!TypeOK
  /\ part = "cards" => Cards!TypeOK
  /\ part = "palette" => Palette!TypeOK
  /\ part = "rows" => HomeRows!TypeOK

(* What a page changed itself it shows, or is about to fetch, once it was  *)
(* answered: the roles on the page of members, a decided request no longer *)
(* pending, reviewed answers, and a saved name.                            *)
(* No answer that was read before the change, nor one that was under way   *)
(* when the change invalidated it, passes for a fresh one                  *)
(* (invalidateQueries in members-view.tsx:59, approvals-view.tsx:287,      *)
(* evidence-view.tsx:192 and 344; settings-view.tsx:135).                  *)
OwnChangesAreShown ==
  /\ part = "members" => ListFollowsOwnChanges
  /\ part = "inbox" => Inbox!AnsweredIsNotPending
  /\ part = "pack" => Pack!ReviewsAreShown
  /\ part = "cards" => Cards!FieldIsSaved

(* What the pages show is so. The page of members offers what the API      *)
(* accepts (members-view.tsx:87-103); a request is opened on the tab of    *)
(* its status (approvals-view.tsx:53); a ready pack has its answers        *)
(* (tasks.py:168-212), and the home page counts them all                   *)
(* (home-view.tsx:197); an event without a link is at the end of the page, *)
(* or was inserted while others were, and the month counts the events      *)
(* (timeline-view.tsx:65, events.py:45, home-view.tsx:49); failures are    *)
(* among the events (soc2_evidence.py:81, 92); a plan called active was    *)
(* reached (settings-view.tsx:709); and Enter finds a match                *)
(* (shell.tsx:443).                                                        *)
PagesTellTheTruth ==
  /\ part = "members" => OffersMatchRights
  /\ part = "inbox" => Inbox!LandsOnItsTab
  /\ part = "pack" => Pack!ReadyIsComplete
  /\ part = "rows" => HomeRows!RowsAreWhole
  /\ part = "events" => Events!UnlinkedFollowsOlder /\ Events!MonthIsWhole
  /\ part = "controls" => Controls!EvidenceAddsUp
  /\ part = "plans" => Plans!ActivePlanWasReached
  /\ part = "palette" => Palette!OneMatchIsHighlighted

(* A step does what was asked for on what was on the screen: a note goes   *)
(* with the decision on its own request (approvals-view.tsx:139),          *)
(* approving all changes no text (evidence-view.tsx:185), the keys step to *)
(* the neighbour within the filter (timeline-view.tsx:86), and a password  *)
(* is changed only by who gave the current one (settings-view.tsx:179).    *)
StepsDoAsAsked ==
  /\ [](part = "inbox" => Inbox!NotesStayWithRequests)
  /\ [][/\ part = "pack" => Pack!TextsKept
        /\ part = "events" => Events!StepStays
        /\ part = "cards" => Cards!CurrentGiven]_<<packVars, eventVars, cardVars>>
=============================================================================

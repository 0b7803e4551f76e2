--------------------------- MODULE CommandPalette ----------------------------
(***************************************************************************)
(* Getting from page to page (components/dashboard/shell.tsx): the command *)
(* palette, the navigation, and the drawer that holds it on a phone. The   *)
(* effects of an event have run before the next one.                       *)
(***************************************************************************)
EXTENDS Integers, Sequences, FiniteSets

CONSTANTS
  Items,   \* where the palette leads, in order: NAV, and more
  Matches  \* what may be typed, with the items that it is found in

VARIABLES
  path,   \* the page
  nav,    \* navOpen: the drawer
  open,   \* paletteOpen
  query,  \* what was typed
  index   \* the place of the item highlighted, from 0

vars == <<path, nav, open, query, index>>

Queries == DOMAIN Matches
Views == {Items[i] : i \in DOMAIN Items}

(* The places of the items listed, among all; and that of one among them.  *)
Listed == {i \in DOMAIN Items : Items[i] \in Matches[query]}
Place(i) == Cardinality({j \in Listed : j < i})

TypeOK ==
  /\ path \in Views
  /\ nav \in BOOLEAN /\ open \in BOOLEAN
  /\ query \in Queries
  /\ index \in -1 .. Len(Items) - 1

Init ==
  /\ path \in Views
  /\ nav = FALSE /\ open = FALSE
  /\ query = "" /\ index = 0

-----------------------------------------------------------------------------
(* The palette.                                                            *)

(* The search button, or the shortcut; each opening starts anew.           *)
OpenPalette ==
  /\ ~open
  /\ open' = TRUE
  /\ query' = "" /\ index' = 0
  /\ UNCHANGED <<path, nav>>

(* Escape reaches the drawer, too.                                         *)
ClosePalette(escape) ==
  /\ open
  /\ open' = FALSE
  /\ nav' = (nav /\ ~escape)
  /\ UNCHANGED <<path, query, index>>

\* Mutant of Type: the highlight stays where it is.
TypeOnly(q) ==
  /\ open /\ query # q
  /\ query' = q
  /\ UNCHANGED <<path, nav, open, index>>

Type(q) ==
  /\ open /\ query # q
  /\ query' = q
  /\ index' = 0
  /\ UNCHANGED <<path, nav, open>>

(* Above the list, if that is empty.                                       *)
ArrowDown ==
  /\ open
  /\ index' = IF index + 1 < Cardinality(Listed) THEN index + 1 ELSE Cardinality(Listed) - 1
  /\ UNCHANGED <<path, nav, open, query>>

ArrowUp ==
  /\ open
  /\ index' = IF index > 0 THEN index - 1 ELSE 0
  /\ UNCHANGED <<path, nav, open, query>>

Hover(i) ==
  /\ open /\ i \in 0 .. Cardinality(Listed) - 1
  /\ index' = i
  /\ UNCHANGED <<path, nav, open, query>>

(* A change of the page closes the drawer.                                 *)
Go(p) == path' = p /\ nav' = (nav /\ p = path)

Enter ==
  /\ open
  /\ \E i \in Listed : Place(i) = index /\ Go(Items[i])
  /\ open' = FALSE
  /\ UNCHANGED <<query, index>>

-----------------------------------------------------------------------------
(* The navigation, which the palette covers.                               *)

SetNav(to) ==
  /\ ~open /\ nav # to
  /\ nav' = to
  /\ UNCHANGED <<path, open, query, index>>

Click(p) ==
  /\ ~open
  /\ Go(p)
  /\ UNCHANGED <<open, query, index>>

Next ==
  \/ OpenPalette
  \/ \E escape \in BOOLEAN : ClosePalette(escape)
  \/ \E q \in Queries : Type(q)
  \/ ArrowDown
  \/ ArrowUp
  \/ \E i \in 0 .. Len(Items) - 1 : Hover(i)
  \/ Enter
  \/ \E to \in BOOLEAN : SetNav(to)
  \/ \E p \in Views : Click(p)

Spec == Init /\ [][Next]_vars

-----------------------------------------------------------------------------
(* As long as anything matches what was typed, one of the matches is       *)
(* highlighted, for Enter to go to, whatever was highlighted when more or  *)
(* fewer of the items matched (shell.tsx:443 and 467).                     *)
OneMatchIsHighlighted ==
  open /\ Listed # {} => index \in 0 .. Cardinality(Listed) - 1
=============================================================================

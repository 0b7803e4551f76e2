----------------------------- MODULE QueryCache -----------------------------
(***************************************************************************)
(* An entry of the query cache that the dashboard's pages read the API     *)
(* through (@tanstack/react-query, set up in app/providers.tsx), as        *)
(* operators on records; the modules of the pages keep the entries.        *)
(*                                                                         *)
(* An entry has the answer last received (`data`, {} before the first), is *)
(* `stale` once it has been invalidated, and has at most one request under *)
(* way: "sent", or "read" once the API has read the answer `got`.          *)
(***************************************************************************)

(* The sets of at most one element of S.                                   *)
Maybe(S) == {d \in SUBSET S : \A x, y \in d : x = y}

Entry(Answers) ==
  [data : Maybe(Answers),
   stale : BOOLEAN,
   flight : {"none", "sent", "read"},
   got : Maybe(Answers)]

NoEntry == [data |-> {}, stale |-> FALSE, flight |-> "none", got |-> {}]

Send(e) == [e EXCEPT !.flight = "sent", !.got = {}]

(* A query that mounts or polls joins the request under way, if any.       *)
Fetch(e) == IF e.flight = "none" THEN Send(e) ELSE e

(* On mounting, an answer is fetched again if it is stale or older than    *)
(* staleTime (`aged`).                                                     *)
Mount(e, aged) == IF e.data = {} \/ e.stale \/ aged THEN Fetch(e) ELSE e

(* invalidateQueries: an entry on screen is fetched again at once, and a   *)
(* request under way is dropped, unless it is the first.                   *)
Invalidate(e, onScreen) ==
  LET s == [e EXCEPT !.stale = TRUE]
  IN  IF onScreen /\ (e.data # {} \/ e.flight = "none") THEN Send(s) ELSE s

(* The API reads the answer; it arrives; or the request and its retry fail. *)
Read(e, answer) == [e EXCEPT !.flight = "read", !.got = {answer}]
Landed(e) == [data |-> e.got, stale |-> FALSE, flight |-> "none", got |-> {}]
Failed(e) == [e EXCEPT !.flight = "none", !.got = {}]
=============================================================================

------------------------------- MODULE HomePage -------------------------------
(***************************************************************************)
(* The rows of evidence packs, on the home page                            *)
(* (components/dashboard/home-view.tsx) and on their own                   *)
(* (EvidenceListView of evidence-view.tsx): several questionnaires that    *)
(* are drafted at their own pace, the list of them, and a query of answers *)
(* for each that is ready. Module EvidencePack has one of them in full.    *)
(***************************************************************************)
EXTENDS Naturals, Sequences, FiniteSets, QueryCache

CONSTANTS
  Sizes,           \* the questions of each questionnaire, in the order of the list
  InsertAttempts,  \* the times run_db sends an insert whose answer is lost (db.py:33)
  MaxDrafted       \* a job that has drafted as many answers is not run again

VARIABLES
  status,   \* of each questionnaire
  running,  \* the questionnaires whose job is not over
  todo,     \* the questions that the run of its job has still to answer
  drafted,  \* the rows of answers there are to each
  reopened, \* history: those whose job was run again when they were ready
  list,     \* the query ["questionnaires", workspace]
  answers,  \* the queries ["answers", questionnaire]: how many there are
  page      \* "rows", of the home page or of the list, or another page

vars == <<status, running, todo, drafted, reopened, list, answers, page>>

Packs == DOMAIN Sizes
Statuses == {"processing", "ready", "error"}

TypeOK ==
  /\ status \in [Packs -> Statuses]
  /\ running \subseteq Packs /\ reopened \subseteq Packs
  /\ todo \in [Packs -> Nat]
  /\ drafted \in [Packs -> Nat]
  /\ list \in Entry([Packs -> Statuses])
  /\ answers \in [Packs -> Entry(Nat)]
  /\ page \in {"rows", "other"}
  /\ \A p \in Packs : todo[p] <= Sizes[p]

Init ==
  /\ status = [p \in Packs |-> "processing"]
  /\ running = Packs /\ reopened = {}
  /\ todo = Sizes
  /\ drafted = [p \in Packs |-> 0]
  /\ list = NoEntry
  /\ answers = [p \in Packs |-> NoEntry]
  /\ page = "other"

database == <<status, running, todo, drafted, reopened>>

-----------------------------------------------------------------------------
(* The jobs draft answers, and end in success or failure.                  *)

(* The insert of an answer is sent again when its own answer is lost, and  *)
(* leaves a row each time that it had arrived.                             *)
Draft(p) ==
  /\ p \in running /\ todo[p] > 0
  /\ todo' = [todo EXCEPT ![p] = todo[p] - 1]
  /\ \E n \in 1 .. InsertAttempts : drafted' = [drafted EXCEPT ![p] = drafted[p] + n]
  /\ UNCHANGED <<status, running, reopened, list, answers, page>>

(* A job whose worker stopped is run again, from the first question on: it *)
(* looks neither at the status nor at the rows there are (tasks.py:158);   *)
(* the update that ends it may have been made.                             *)
RunAgain(p) ==
  /\ p \in running /\ drafted[p] < MaxDrafted
  /\ todo' = [todo EXCEPT ![p] = Sizes[p]]
  /\ \E s \in {status[p], "error"} \cup (IF todo[p] = 0 THEN {"ready"} ELSE {}) :
       /\ status' = [status EXCEPT ![p] = s]
       /\ reopened' = IF s = "ready" THEN reopened \cup {p} ELSE reopened
  /\ UNCHANGED <<running, drafted, list, answers, page>>

Ends(p, s) ==
  /\ p \in running
  /\ status' = [status EXCEPT ![p] = s]
  /\ running' = running \ {p}
  /\ UNCHANGED <<todo, drafted, reopened, list, answers, page>>

\* Mutant of Finish: the run ends with the answer to its last question under way.
FinishEarly(p) == todo[p] <= 1 /\ Ends(p, "ready")

Finish(p) == todo[p] = 0 /\ Ends(p, "ready")

JobFails(p) == Ends(p, "error")

-----------------------------------------------------------------------------
(* The rows.                                                               *)

\* Mutant of Ready: answers are fetched for every questionnaire.
ReadyAll(l) == IF l.data = {} THEN {} ELSE Packs

(* The questionnaires that have a query of answers.                        *)
Ready(l) == {p \in Packs : \E statuses \in l.data : statuses[p] = "ready"}

(* A query mounts as its questionnaire becomes ready.                      *)
Rows(l) ==
  /\ list' = l
  /\ answers' = [p \in Packs |-> IF page = "rows" /\ p \in Ready(l) \ Ready(list)
                                 THEN Mount(answers[p], FALSE) ELSE answers[p]]

Open(aged) ==
  /\ page = "other"
  /\ page' = "rows"
  /\ list' = Mount(list, aged)
  /\ answers' = [p \in Packs |-> IF p \in Ready(list) THEN Mount(answers[p], aged) ELSE answers[p]]
  /\ UNCHANGED database

Leave ==
  /\ page = "rows"
  /\ page' = "other"
  /\ UNCHANGED <<database, list, answers>>

(* refetchInterval, as long as the list has a questionnaire in processing. *)
Poll ==
  /\ page = "rows" /\ list.flight = "none"
  /\ \E statuses \in list.data : \E p \in Packs : statuses[p] = "processing"
  /\ list' = Send(list)
  /\ UNCHANGED <<database, answers, page>>

ReadList ==
  /\ list.flight = "sent"
  /\ list' = Read(list, status)
  /\ UNCHANGED <<database, answers, page>>

ListLands ==
  /\ list.flight = "read"
  /\ Rows(Landed(list))
  /\ UNCHANGED <<database, page>>

ListFails ==
  /\ list.flight # "none"
  /\ list' = Failed(list)
  /\ UNCHANGED <<database, answers, page>>

ReadAnswers(p) ==
  /\ answers[p].flight = "sent"
  /\ answers' = [answers EXCEPT ![p] = Read(answers[p], drafted[p])]
  /\ UNCHANGED <<database, list, page>>

AnswersLand(p) ==
  /\ answers[p].flight = "read"
  /\ answers' = [answers EXCEPT ![p] = Landed(answers[p])]
  /\ UNCHANGED <<database, list, page>>

AnswersFail(p) ==
  /\ answers[p].flight # "none"
  /\ answers' = [answers EXCEPT ![p] = Failed(answers[p])]
  /\ UNCHANGED <<database, list, page>>

Next ==
  \/ \E p \in Packs : Draft(p)
  \/ \E p \in Packs : RunAgain(p)
  \/ \E p \in Packs : Finish(p)
  \/ \E p \in Packs : JobFails(p)
  \/ \E aged \in BOOLEAN : Open(aged)
  \/ Leave
  \/ Poll
  \/ ReadList
  \/ ListLands
  \/ ListFails
  \/ \E p \in Packs : ReadAnswers(p)
  \/ \E p \in Packs : AnswersLand(p)
  \/ \E p \in Packs : AnswersFail(p)

Spec == Init /\ [][Next]_vars

-----------------------------------------------------------------------------
(* The queries are a sequence, those of the questionnaires that are ready; *)
(* a row finds its own by its place among them.                            *)
Place(p) == Cardinality({q \in Ready(list) : q < p})

QueryOf(p) == {q \in Ready(list) : p \in Ready(list) /\ Place(q) = Place(p)}

(* The row of a ready questionnaire shows the number of its answers; or a  *)
(* skeleton, until they have come or the request has failed.               *)
IsPending(p) == \E q \in QueryOf(p) : answers[q].data = {} /\ answers[q].flight # "none"
Figures(p) == UNION {answers[q].data : q \in QueryOf(p)}

(* A ready questionnaire's row counts the answers that there are to it, an *)
(* answer to every question of it among them however its job was           *)
(* interrupted and its inserts repeated: never those of another, or of a   *)
(* draft still under way; it misses only what a job adds that is run again *)
(* when it had made the questionnaire ready. Without figures it has none   *)
(* because a request failed (home-view.tsx:197-200).                       *)
RowsAreWhole ==
  page = "rows" => \A statuses \in list.data, p \in Packs :
    statuses[p] = "ready" =>
      IF Figures(p) = {} THEN IsPending(p) \/ answers[p].flight = "none"
      ELSE /\ Figures(p) \subseteq Sizes[p] .. drafted[p]
           /\ p \notin reopened => Figures(p) = {drafted[p]}
=============================================================================

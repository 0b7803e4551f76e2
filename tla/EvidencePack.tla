---------------------------- MODULE EvidencePack ----------------------------
(***************************************************************************)
(* A security questionnaire: its upload, the worker's job that drafts the  *)
(* answers (backend/app/worker/tasks.py, process_questionnaire), and the   *)
(* review of the answers on the pages of evidence packs                    *)
(* (components/dashboard/evidence-view.tsx), with somebody else reviewing  *)
(* too.                                                                    *)
(*                                                                         *)
(* A text is a number: 0 as drafted, others as typed.                      *)
(***************************************************************************)
EXTENDS Naturals, Sequences, QueryCache

CONSTANTS
  Questions,       \* questions in the file
  Texts,           \* texts that are typed: 1 .. Texts
  InsertAttempts,  \* attempts of run_db at an insert
  MaxRestarts,     \* restarts of the worker within the job; bounds the runs
  MaxReviews       \* saves, Approve alls and reviews of somebody else; bounds the runs

VARIABLES
  pack,      \* the row of questionnaires: its status, "none" before the upload
  job,       \* process_questionnaire: not queued, queued, or the question it is at
  rows,      \* the rows of answers, in the order of created_at
  restarts,  \* history: restarts of the worker so far
  repeats,   \* history: answers inserted once more so far, the first answer being lost
  upload,    \* the mutation of the list page
  packs,     \* the query ["questionnaires", workspace]
  page,      \* "list" or "pack"
  answers,   \* the query ["answers", pack]
  at,        \* the index of the question shown, or 0
  text,      \* the text of its editor
  saves,     \* the saves under way, the editor's own and those of editors that are gone
  alls,      \* the Approve alls under way, likewise
  reviews,   \* history: reviews so far
  trouble    \* history: whether somebody else has reviewed, or the job went on with a
             \* ready pack ("others"), the answer to a save was "lost", or reviews have
             \* "crossed": one was sent before the last one was settled and fetched

vars == <<pack, job, rows, restarts, repeats, upload, packs, page, answers, at, text, saves,
          alls, reviews, trouble>>

PackStatus == {"none", "processing", "ready", "error"}
Queued == 0
NoJob == Questions + 2

Row == [question : 1 .. Questions, text : 0 .. Texts, status : {"draft", "reviewed", "approved"}]
Review == [row : Nat \ {0}, text : 0 .. Texts]

(* Requests, numbered; they are an editor's, or the page's, until it is gone. *)
Save == [nr : Nat, pc : {"sent", "done"}, review : Review, status : {"reviewed", "approved"}, mine : BOOLEAN]
All == [nr : Nat, pc : {"sent", "done"}, left : SUBSET Review, mine : BOOLEAN]

TypeOK ==
  /\ pack \in PackStatus
  /\ job \in 0 .. NoJob
  /\ rows \in Seq(Row)
  /\ restarts \in Nat /\ repeats \in Nat /\ reviews \in Nat
  /\ upload \in {"none", "sent", "inserted"}
  /\ packs \in Entry(PackStatus)
  /\ page \in {"list", "pack"}
  /\ answers \in Entry(Seq(Row))
  /\ at \in Nat
  /\ text \in 0 .. Texts
  /\ saves \subseteq Save /\ alls \subseteq All
  /\ trouble \in {"none", "crossed", "lost", "others"}
  /\ page = "pack" => at <= 1 \/ \A a \in answers.data : at \in 1 .. Len(a)

Init ==
  /\ pack = "none"
  /\ job = NoJob
  /\ rows = <<>>
  /\ restarts = 0 /\ repeats = 0
  /\ upload = "none"
  /\ packs = Send(NoEntry)
  /\ page = "list"
  /\ answers = NoEntry
  /\ at = 1
  /\ text = 0
  /\ saves = {}
  /\ alls = {}
  /\ reviews = 0
  /\ trouble = "none"

drafting == <<pack, job, rows, restarts, repeats>>
listing == <<upload, packs>>
review == <<page, answers, at, text, saves, alls, reviews, trouble>>

-----------------------------------------------------------------------------
(* The upload and the job.                                                 *)

Upload ==
  /\ page = "list" /\ upload = "none" /\ pack = "none"
  /\ upload' = "sent"
  /\ UNCHANGED <<drafting, packs, review>>

InsertPack ==
  /\ upload = "sent"
  /\ upload' = "inserted"
  /\ pack' = "processing"
  /\ UNCHANGED <<job, rows, restarts, repeats, packs, review>>

(* The job is queued and the page told.                                    *)
Uploaded ==
  /\ upload = "inserted"
  /\ job' = Queued
  /\ upload' = "none"
  /\ packs' = Invalidate(packs, page = "list")
  /\ UNCHANGED <<pack, rows, restarts, repeats, review>>

(* The plan's limit, an unknown type, or no queue (a 503 after the insert); *)
(* or the job is queued, and the answer lost.                              *)
UploadFails ==
  /\ upload # "none"
  /\ job' = job \/ (upload = "inserted" /\ job' = Queued)
  /\ upload' = "none"
  /\ UNCHANGED <<pack, rows, restarts, repeats, packs, review>>

\* Mutant of Draft: a question whose insert was repeated passes for two.
DraftSkipping(q) ==
  /\ job = q
  /\ \E n \in 1 .. InsertAttempts :
       /\ rows' = rows \o [i \in 1 .. n |-> [question |-> q, text |-> 0, status |-> "draft"]]
       /\ repeats' = repeats + n - 1
       /\ job' = IF q + n <= Questions + 1 THEN q + n ELSE Questions + 1
  /\ UNCHANGED <<pack, restarts, listing, review>>

(* An insert whose answer was lost is made again (db.py:33): the question  *)
(* is answered once or more.                                               *)
Draft(q) ==
  /\ job = q
  /\ \E n \in 1 .. InsertAttempts :
       /\ rows' = rows \o [i \in 1 .. n |-> [question |-> q, text |-> 0, status |-> "draft"]]
       /\ repeats' = repeats + n - 1
  /\ job' = q + 1
  /\ UNCHANGED <<pack, restarts, listing, review>>

StartJob ==
  /\ job = Queued
  /\ job' = 1
  /\ UNCHANGED <<pack, rows, restarts, repeats, listing, review>>

\* Mutant of FinishJob: ready before the last answer.
FinishJobEarly ==
  /\ job \in {Questions, Questions + 1}
  /\ pack' = "ready"
  /\ job' = NoJob
  /\ UNCHANGED <<rows, restarts, repeats, listing, review>>

FinishJob ==
  /\ job = Questions + 1
  /\ pack' = "ready"
  /\ job' = NoJob
  /\ UNCHANGED <<rows, restarts, repeats, listing, review>>

(* A job whose last update fails leaves the pack in processing for good,   *)
(* like one that never goes on.                                            *)
JobFails ==
  /\ job \in 1 .. Questions + 1
  /\ pack' = "error"
  /\ job' = NoJob
  /\ UNCHANGED <<rows, restarts, repeats, listing, review>>

(* A job cut off by a restart runs again, from its first question: it      *)
(* looks at no status (tasks.py:158). The update that ends it may have     *)
(* been made, and then answers are added to a pack that is ready.          *)
WorkerRestarts ==
  /\ job \in 1 .. Questions + 1
  /\ restarts < MaxRestarts
  /\ restarts' = restarts + 1
  /\ job' = Queued
  /\ pack' \in {pack, "error"} \cup (IF job = Questions + 1 THEN {"ready"} ELSE {})
  /\ trouble' = IF pack' = "ready" THEN "others" ELSE trouble
  /\ UNCHANGED <<rows, repeats, listing, page, answers, at, text, saves, alls, reviews>>

-----------------------------------------------------------------------------
(* The list of packs.                                                      *)

Processing == \E s \in packs.data : s = "processing"
IsReady == \E s \in packs.data : s = "ready"

(* refetchInterval: every 5 s as long as a pack is being processed.        *)
PollPacks ==
  /\ Processing /\ packs.flight = "none"
  /\ packs' = Send(packs)
  /\ UNCHANGED <<drafting, upload, review>>

ReadPacks ==
  /\ packs.flight = "sent"
  /\ packs' = Read(packs, pack)
  /\ UNCHANGED <<drafting, upload, review>>

(* The answers of a ready pack are fetched for its progress.               *)
PacksLand ==
  /\ packs.flight = "read"
  /\ packs' = Landed(packs)
  /\ answers' = IF packs.got = {"ready"} /\ ~IsReady THEN Mount(answers, FALSE) ELSE answers
  /\ UNCHANGED <<drafting, upload, page, at, text, saves, alls, reviews, trouble>>

PacksFail ==
  /\ packs.flight # "none"
  /\ packs' = Failed(packs)
  /\ UNCHANGED <<drafting, upload, review>>

-----------------------------------------------------------------------------
(* The review of a pack.                                                   *)

\* Without an answer there is no editor.
Original(as, i) == IF i \in DOMAIN as THEN as[i].text ELSE 0
Shown == {as \in answers.data : at \in 1 .. Len(as)}

\* Requests of an editor, or a page, that is gone no longer hold its buttons.
Forget(rs) == {[r EXCEPT !.mine = FALSE] : r \in rs}
Busy(rs) == \E r \in rs : r.mine

(* A ready pack is a link. The editor takes the answer it first shows.     *)
OpenPack(aged) ==
  /\ page = "list" /\ IsReady
  /\ page' = "pack"
  /\ at' = 1
  /\ answers' = Mount(answers, aged)
  /\ text' = IF answers.data = {} THEN 0 ELSE Original(CHOOSE as \in answers.data : TRUE, 1)
  /\ UNCHANGED <<drafting, listing, saves, alls, reviews, trouble>>

Back ==
  /\ page = "pack"
  /\ page' = "list"
  /\ at' = 1 /\ text' = 0
  /\ saves' = Forget(saves) /\ alls' = Forget(alls)
  /\ UNCHANGED <<drafting, listing, answers, reviews, trouble>>

ReadAnswers ==
  /\ answers.flight = "sent"
  /\ answers' = Read(answers, rows)
  /\ UNCHANGED <<drafting, listing, page, at, text, saves, alls, reviews, trouble>>

AnswersLand ==
  /\ answers.flight = "read"
  /\ answers' = Landed(answers)
  /\ text' = IF page = "pack" /\ answers.data = {}
             THEN Original(CHOOSE as \in answers.got : TRUE, at) ELSE text
  /\ UNCHANGED <<drafting, listing, page, at, saves, alls, reviews, trouble>>

AnswersFail ==
  /\ answers.flight # "none"
  /\ answers' = Failed(answers)
  /\ UNCHANGED <<drafting, listing, page, at, text, saves, alls, reviews, trouble>>

(* The list, the arrows and the keys; the editor is keyed by its answer.   *)
GoTo(i) ==
  /\ page = "pack" /\ i # at
  /\ \E as \in answers.data : i \in 1 .. Len(as) /\ text' = Original(as, i)
  /\ at' = i
  /\ saves' = Forget(saves)
  /\ UNCHANGED <<drafting, listing, page, answers, alls, reviews, trouble>>

(* Without answers, a key leads before the first one, and another back; no *)
(* answer is shown before the first one, although they have come since.    *)
StepInVain(i) ==
  /\ page = "pack" /\ \A as \in answers.data : as = <<>>
  /\ i # at
  /\ at' = i
  /\ UNCHANGED <<drafting, listing, page, answers, text, saves, alls, reviews, trouble>>

Type(x) ==
  /\ page = "pack" /\ Shown # {}
  /\ x # text
  /\ text' = x
  /\ UNCHANGED <<drafting, listing, page, answers, at, saves, alls, reviews, trouble>>

Discard ==
  /\ page = "pack"
  /\ \E as \in Shown : text # Original(as, at) /\ text' = Original(as, at)
  /\ UNCHANGED <<drafting, listing, page, answers, at, saves, alls, reviews, trouble>>

Unsettled == saves # {} \/ alls # {} \/ answers.stale
Crossing == trouble' = IF Unsettled /\ trouble = "none" THEN "crossed" ELSE trouble

CanSave(status, as) ==
  /\ ~Busy(saves)
  /\ status = "approved" => as[at].status # "approved" \/ text # Original(as, at)

SaveAnswer(status) ==
  /\ page = "pack"
  /\ \E as \in Shown : CanSave(status, as)
  /\ saves' = saves \cup {[nr |-> reviews, pc |-> "sent", review |-> [row |-> at, text |-> text],
                           status |-> status, mine |-> TRUE]}
  /\ Crossing
  /\ reviews < MaxReviews /\ reviews' = reviews + 1
  /\ UNCHANGED <<drafting, listing, page, answers, at, text, alls>>

Unapproved(as) ==
  {[row |-> i, text |-> as[i].text] : i \in {i \in DOMAIN as : as[i].status # "approved"}}

(* It takes the texts that the page has.                                   *)
ApproveAll ==
  /\ page = "pack" /\ ~Busy(alls)
  /\ \E as \in answers.data :
       /\ Unapproved(as) # {}
       /\ alls' = alls \cup {[nr |-> reviews, pc |-> "sent", left |-> Unapproved(as), mine |-> TRUE]}
  /\ Crossing
  /\ reviews < MaxReviews /\ reviews' = reviews + 1
  /\ UNCHANGED <<drafting, listing, page, answers, at, text, saves>>

(* update_answer, whatever the answer has become.                          *)
Updated(r, status) == rows' = [rows EXCEPT ![r.row] = [rows[r.row] EXCEPT !.text = r.text, !.status = status]]

UpdateAnswer(r) ==
  /\ r.pc = "sent"
  /\ Updated(r.review, r.status)
  /\ saves' = (saves \ {r}) \cup {[r EXCEPT !.pc = "done"]}
  /\ UNCHANGED <<pack, job, restarts, repeats, listing, page, answers, at, text, alls, reviews, trouble>>

First(r, todo) == r \in todo /\ \A s \in todo : r.row <= s.row

(* One request after another, until all are done or one has failed.        *)
UpdateNext(b) ==
  /\ b.pc = "sent"
  /\ \E r \in b.left :
       /\ First(r, b.left)
       /\ Updated(r, "approved")
       /\ alls' = (alls \ {b}) \cup
                    {[b EXCEPT !.left = @ \ {r}, !.pc = IF b.left = {r} THEN "done" ELSE "sent"]}
  /\ UNCHANGED <<pack, job, restarts, repeats, listing, page, answers, at, text, saves, reviews, trouble>>

Reread == answers' = Invalidate(answers, page = "pack" \/ IsReady)

\* Mutant of SaveLands: the answers are not fetched again.
SaveLandsOnly(r) ==
  /\ r.pc = "done"
  /\ saves' = saves \ {r}
  /\ UNCHANGED <<drafting, listing, page, answers, at, text, alls, reviews, trouble>>

SaveLands(r) ==
  /\ r.pc = "done"
  /\ saves' = saves \ {r}
  /\ Reread
  /\ UNCHANGED <<drafting, listing, page, at, text, alls, reviews, trouble>>

(* An error is shown; what was saved all the same is not fetched again.    *)
SaveFails(r) ==
  /\ saves' = saves \ {r}
  /\ trouble' = IF r.pc = "done" /\ trouble # "others" THEN "lost" ELSE trouble
  /\ UNCHANGED <<drafting, listing, page, answers, at, text, alls, reviews>>

(* onSettled, after the last answer or a failed one.                       *)
AllSettles(b) ==
  /\ alls' = alls \ {b}
  /\ Reread
  /\ UNCHANGED <<drafting, listing, page, at, text, saves, reviews, trouble>>

(* Somebody else reviews an answer.                                        *)
OtherReviews(i, x) ==
  /\ pack = "ready" /\ reviews < MaxReviews
  /\ i \in DOMAIN rows
  /\ reviews' = reviews + 1
  /\ trouble' = "others"
  /\ Updated([row |-> i, text |-> x], "reviewed")
  /\ UNCHANGED <<pack, job, restarts, repeats, listing, page, answers, at, text, saves, alls>>

Next ==
  \/ Upload
  \/ InsertPack
  \/ Uploaded
  \/ UploadFails
  \/ StartJob
  \/ \E q \in 1 .. Questions : Draft(q)
  \/ FinishJob
  \/ JobFails
  \/ WorkerRestarts
  \/ PollPacks
  \/ ReadPacks
  \/ PacksLand
  \/ PacksFail
  \/ \E aged \in BOOLEAN : OpenPack(aged)
  \/ Back
  \/ ReadAnswers
  \/ AnswersLand
  \/ AnswersFail
  \/ \E i \in DOMAIN rows : GoTo(i)
  \/ \E i \in {0, 1} : StepInVain(i)
  \/ \E x \in 1 .. Texts : Type(x)
  \/ Discard
  \/ \E status \in {"reviewed", "approved"} : SaveAnswer(status)
  \/ ApproveAll
  \/ \E r \in saves : UpdateAnswer(r)
  \/ \E b \in alls : UpdateNext(b)
  \/ \E r \in saves : SaveLands(r)
  \/ \E r \in saves : SaveFails(r)
  \/ \E b \in alls : AllSettles(b)
  \/ \E i \in DOMAIN rows, x \in 1 .. Texts : OtherReviews(i, x)

Spec == Init /\ [][Next]_vars

-----------------------------------------------------------------------------
(* A pack that is ready has an answer to every question; and, unless the   *)
(* job was run again, no more of them than the inserts that were repeated  *)
(* account for (tasks.py:168-212).                                         *)
ReadyIsComplete ==
  pack = "ready" =>
    /\ \A q \in 1 .. Questions : \E i \in DOMAIN rows : rows[i].question = q
    /\ restarts = 0 => Len(rows) = Questions + repeats

(* What the page shows as fresh is what the reviews of this page have left, *)
(* as long as nobody else reviews, no job goes on with a ready pack, and   *)
(* no answer to a save is lost (evidence-view.tsx:192 and 344).            *)
ReviewsAreShown ==
  trouble \notin {"lost", "others"} /\ saves = {} /\ alls = {} /\ ~answers.stale =>
    \A as \in answers.data : as = rows

(* Approve all leaves every text as it is, unless it or a save was sent    *)
(* before the one before it was settled and fetched, or somebody else has  *)
(* reviewed, or a job gone on with the pack (evidence-view.tsx:185).       *)
TextsKept ==
  (\E b \in alls : UpdateNext(b)) /\ trouble = "none" =>
    \A i \in DOMAIN rows : rows'[i].text = rows[i].text
ApproveAllKeepsTexts == [][TextsKept]_vars

=============================================================================

---------------------------- MODULE EventIntake -----------------------------
(***************************************************************************)
(* The way of an event from the SDK's flush thread (sdk/tracyn/client.py)  *)
(* through POST /v1/events (routers/ingest.py), the event_intake table and *)
(* the arq queue in Redis to the worker's process_event_intake             *)
(* (worker/tasks.py), which inserts it into the append-only `events`.      *)
(*                                                                         *)
(* arq delivers a job at least once: a worker that is stopped leaves its   *)
(* job in Redis and another run starts it again. A run that raises, or     *)
(* exceeds arq's job_timeout, is not repeated.                             *)
(***************************************************************************)
EXTENDS Naturals

CONSTANTS
  Events,          \* events taken from the SDK's queue, of one new agent
  Outcomes,        \* those that report the outcome of an approval
  NoRow,           \* a null event_id
  SendAttempts,    \* `attempts` of _send_with_retry
  InsertAttempts,  \* run_db's `attempts`
  MaxTries         \* arq's max_tries

ASSUME OutcomesAssumption == Outcomes \subseteq Events
ASSUME NoRowAssumption == NoRow \notin Events \X (1..SendAttempts) \X (1..InsertAttempts)
ASSUME AttemptsAssumption ==
  SendAttempts \in Nat \ {0} /\ InsertAttempts \in Nat \ {0} /\ MaxTries \in Nat \ {0}

VARIABLES
  sender,   \* _send_with_retry of an event
  request,  \* ingest_event, serving one POST
  intake,   \* the status of the rows of event_intake
  jobs,     \* the rows whose job is in Redis
  worker,   \* process_event_intake, run for a row
  agent,    \* whether the agent's row exists
  logged,   \* how many rows of `events` were inserted for a row
  linked,   \* approvals.event_id, as the row the event came from
  fate      \* history: what went wrong with the processing of a row

vars == <<sender, request, intake, jobs, worker, agent, logged, linked, fate>>

(* The a-th POST of event e, and the row that the n-th insert of it makes. *)
Posts == Events \X (1..SendAttempts)
Rows == Events \X (1..SendAttempts) \X (1..InsertAttempts)
RowOf(p) == <<p[1], p[2], request[p].n>>

InTry == {"redacting", "resolving", "creating", "inserting", "linking", "finishing"}
Unlogged == {"redacting", "resolving", "creating", "inserting"}

TypeOK ==
  /\ sender \in [Events -> [pc : {"queued", "waiting", "accepted", "warned"},
                            attempt : 1..SendAttempts]]
  /\ request \in [Posts -> [pc : {"none", "inserting", "enqueueing", "accepted", "closed"},
                            n : 1..InsertAttempts]]
  /\ intake \in [Rows -> {"none", "queued", "processing", "done", "error"}]
  /\ jobs \in SUBSET Rows
  /\ worker \in [Rows -> [pc : {"idle", "marking", "failing", "ending"} \cup InTry, tries : 0..MaxTries]]
  /\ agent \in BOOLEAN
  /\ logged \in [Rows -> Nat]
  /\ linked \in [Outcomes -> Rows \cup {NoRow}]
  /\ fate \in [Rows -> {"smooth", "faulted", "interrupted"}]

Init ==
  /\ sender = [e \in Events |-> [pc |-> "queued", attempt |-> 1]]
  /\ request = [p \in Posts |-> [pc |-> "none", n |-> 1]]
  /\ intake = [r \in Rows |-> "none"]
  /\ jobs = {}
  /\ worker = [r \in Rows |-> [pc |-> "idle", tries |-> 0]]
  /\ agent = FALSE
  /\ logged = [r \in Rows |-> 0]
  /\ linked = [e \in Outcomes |-> NoRow]
  /\ fate = [r \in Rows |-> "smooth"]

-----------------------------------------------------------------------------
(* _send_with_retry.                                                       *)

Post(e) ==
  /\ sender[e].pc = "queued"
  /\ sender' = [sender EXCEPT ![e].pc = "waiting"]
  /\ UNCHANGED <<request, intake, jobs, worker, agent, logged, linked, fate>>

\* Mutant of PostFails: one attempt too many.
PostFailsOnceMore(e) ==
  /\ sender[e].pc = "waiting"
  /\ sender' = IF sender[e].attempt <= SendAttempts
                 THEN [sender EXCEPT ![e].attempt = @ + 1]
                 ELSE [sender EXCEPT ![e].pc = "warned"]
  /\ UNCHANGED <<request, intake, jobs, worker, agent, logged, linked, fate>>

(* A timeout, a lost connection or an answer of 300 and more: the next     *)
(* attempt, or a warning on stderr.                                        *)
PostFails(e) ==
  /\ sender[e].pc = "waiting"
  /\ sender' = IF sender[e].attempt < SendAttempts
                 THEN [sender EXCEPT ![e].attempt = @ + 1]
                 ELSE [sender EXCEPT ![e].pc = "warned"]
  /\ UNCHANGED <<request, intake, jobs, worker, agent, logged, linked, fate>>

Accept(p) ==
  sender' = IF sender[p[1]] = [pc |-> "waiting", attempt |-> p[2]]
              THEN [sender EXCEPT ![p[1]].pc = "accepted"]
              ELSE sender

-----------------------------------------------------------------------------
(* ingest_event. A request may be served after its client has given up.    *)

Goto(p, from, to) ==
  /\ request[p].pc = from
  /\ request' = [request EXCEPT ![p].pc = to]

(* The workspace's monthly limit lets the event in, or answers 402.        *)
Receive(p) ==
  /\ sender[p[1]].pc # "queued"
  /\ p[2] <= sender[p[1]].attempt
  /\ \E next \in {"inserting", "closed"} : Goto(p, "none", next)
  /\ UNCHANGED <<sender, intake, jobs, worker, agent, logged, linked, fate>>

(* run_db after a transport error: the next attempt makes another row.     *)
Retry(p) ==
  request' = IF request[p].n < InsertAttempts THEN [request EXCEPT ![p].n = @ + 1]
                                              ELSE [request EXCEPT ![p].pc = "closed"]

Insert(p, answered) ==
  /\ request[p].pc = "inserting"
  /\ intake' = [intake EXCEPT ![RowOf(p)] = "queued"]
  /\ IF answered THEN request' = [request EXCEPT ![p].pc = "enqueueing"] ELSE Retry(p)
  /\ UNCHANGED <<sender, jobs, worker, agent, logged, linked, fate>>

InsertLost(p) ==
  /\ request[p].pc = "inserting"
  /\ Retry(p)
  /\ UNCHANGED <<sender, intake, jobs, worker, agent, logged, linked, fate>>

\* Mutant of Enqueue: a Redis that is down is not noticed.
EnqueueUnnoticed(p) ==
  /\ Goto(p, "enqueueing", "accepted")
  /\ jobs' \in {jobs, jobs \cup {RowOf(p)}}
  /\ Accept(p)
  /\ UNCHANGED <<intake, worker, agent, logged, linked, fate>>

(* The job is in Redis before the 202 is sent.                             *)
Enqueue(p) ==
  /\ Goto(p, "enqueueing", "accepted")
  /\ jobs' = jobs \cup {RowOf(p)}
  /\ Accept(p)
  /\ UNCHANGED <<intake, worker, agent, logged, linked, fate>>

(* No pool (503), Redis fails during enqueue_job, or the API dies: with    *)
(* the job in Redis or without it.                                         *)
EnqueueUnanswered(p) ==
  /\ Goto(p, "enqueueing", "closed")
  /\ jobs' = jobs \cup {RowOf(p)}
  /\ UNCHANGED <<sender, intake, worker, agent, logged, linked, fate>>

RequestFails(p) ==
  /\ \E from \in {"inserting", "enqueueing"} : Goto(p, from, "closed")
  /\ UNCHANGED <<sender, intake, jobs, worker, agent, logged, linked, fate>>

-----------------------------------------------------------------------------
(* process_event_intake.                                                   *)

Move(r, from, to) ==
  /\ worker[r].pc = from
  /\ worker' = [worker EXCEPT ![r].pc = to]

(* A run takes a job whose intake passes the check on its status.          *)
Take(r, pass) ==
  /\ r \in jobs
  /\ worker[r].pc = "idle"
  /\ worker[r].tries < MaxTries
  /\ worker' = [worker EXCEPT ![r] = [pc |-> IF pass THEN "marking" ELSE "idle",
                                     tries |-> worker[r].tries + 1]]
  /\ jobs' = IF pass THEN jobs ELSE jobs \ {r}
  /\ UNCHANGED <<sender, request, intake, agent, logged, linked, fate>>

\* Mutant of Start: a row in "processing" is taken up again.
StartUnlessSettled(r) == Take(r, intake[r] \in {"queued", "processing"})

\* Mutant of Start: a row that ended in an error is tried again.
StartUnlessDone(r) == Take(r, intake[r] \in {"queued", "error"})

(* The SELECT of the row, and the return if it is not queued.              *)
Start(r) == Take(r, intake[r] = "queued")

Mark(r) ==
  /\ Move(r, "marking", "redacting")
  /\ intake' = [intake EXCEPT ![r] = "processing"]
  /\ UNCHANGED <<sender, request, jobs, agent, logged, linked, fate>>

Redact(r) ==
  /\ Move(r, "redacting", "resolving")
  /\ UNCHANGED <<sender, request, intake, jobs, agent, logged, linked, fate>>

(* _get_or_create_agent: the SELECT, and the INSERT that (workspace_id,    *)
(* name) being unique refuses when another run was faster.                 *)
SelectAgent(r) ==
  /\ Move(r, "resolving", IF agent THEN "inserting" ELSE "creating")
  /\ UNCHANGED <<sender, request, intake, jobs, agent, logged, linked, fate>>

CreateAgent(r) ==
  /\ Move(r, "creating", IF agent THEN "failing" ELSE "inserting")
  /\ agent' = TRUE
  /\ UNCHANGED <<sender, request, intake, jobs, logged, linked, fate>>

AfterInsert(r) == IF r[1] \in Outcomes THEN "linking" ELSE "finishing"

\* Mutant of InsertEvent: the approval is not linked.
InsertEventOnly(r) ==
  /\ Move(r, "inserting", "finishing")
  /\ logged' = [logged EXCEPT ![r] = @ + 1]
  /\ UNCHANGED <<sender, request, intake, jobs, agent, linked, fate>>

(* The one attempt to insert the immutable row.                            *)
InsertEvent(r) ==
  /\ Move(r, "inserting", AfterInsert(r))
  /\ logged' = [logged EXCEPT ![r] = @ + 1]
  /\ UNCHANGED <<sender, request, intake, jobs, agent, linked, fate>>

Link(r) ==
  /\ Move(r, "linking", "finishing")
  /\ linked' = [linked EXCEPT ![r[1]] = r]
  /\ UNCHANGED <<sender, request, intake, jobs, agent, logged, fate>>

Finish(r) ==
  /\ Move(r, "finishing", "ending")
  /\ intake' = [intake EXCEPT ![r] = "done"]
  /\ UNCHANGED <<sender, request, jobs, agent, logged, linked, fate>>

(* The run has returned or raised, and arq removes its job.                *)
End(r) ==
  /\ Move(r, "ending", "idle")
  /\ jobs' = jobs \ {r}
  /\ UNCHANGED <<sender, request, intake, agent, logged, linked, fate>>

Fault(r) == fate' = [fate EXCEPT ![r] = IF @ = "smooth" THEN "faulted" ELSE @]
Interrupt(r) == fate' = [fate EXCEPT ![r] = "interrupted"]

(* Presidio, Haiku or a database call raises without having had an effect. *)
Raise(r) ==
  /\ \E from \in InTry : Move(r, from, "failing")
  /\ Fault(r)
  /\ UNCHANGED <<sender, request, intake, jobs, agent, logged, linked>>

(* A database call had its effect, but its answer was lost.                *)
RaiseAfter(r) ==
  /\ \/ Move(r, "inserting", "failing") /\ logged' = [logged EXCEPT ![r] = @ + 1]
        /\ UNCHANGED <<linked, intake>>
     \/ Move(r, "linking", "failing") /\ linked' = [linked EXCEPT ![r[1]] = r]
        /\ UNCHANGED <<logged, intake>>
     \/ Move(r, "finishing", "failing") /\ intake' = [intake EXCEPT ![r] = "done"]
        /\ UNCHANGED <<logged, linked>>
  /\ Fault(r)
  /\ UNCHANGED <<sender, request, jobs, agent>>

\* Mutant of RecordError: the exception is raised without the update.
RecordNothing(r) ==
  /\ Move(r, "failing", "ending")
  /\ UNCHANGED <<sender, request, intake, jobs, agent, logged, linked, fate>>

(* except Exception: the row is set to "error", and the run raises.        *)
RecordError(r) ==
  /\ Move(r, "failing", "ending")
  /\ intake' = [intake EXCEPT ![r] = "error"]
  /\ UNCHANGED <<sender, request, jobs, agent, logged, linked, fate>>

(* The job ends without a verdict: a call outside the try raises, or the   *)
(* job_timeout cancels the run (CancelledError is no Exception).           *)
Abandon(r) ==
  /\ \E from \in {"marking", "failing"} \cup InTry : Move(r, from, "idle")
  /\ jobs' = jobs \ {r}
  /\ Interrupt(r)
  /\ UNCHANGED <<sender, request, intake, agent, logged, linked>>

(* The worker is stopped or dies: its job stays in Redis.                  *)
Stop(r) ==
  /\ \E from \in {"marking", "failing", "ending"} \cup InTry : Move(r, from, "idle")
  /\ Interrupt(r)
  /\ UNCHANGED <<sender, request, intake, jobs, agent, logged, linked>>

(* The SELECT fails, or arq finds the job tried too often.                 *)
Refuse(r) ==
  /\ r \in jobs
  /\ worker[r].pc = "idle"
  /\ jobs' = jobs \ {r}
  /\ Interrupt(r)
  /\ UNCHANGED <<sender, request, intake, worker, agent, logged, linked>>

(* The container restarts: Redis, the worker and the API start anew, and   *)
(* Redis, which persists nothing, is empty.                                *)
Restart ==
  /\ jobs' = {}
  /\ worker' = [r \in Rows |-> [worker[r] EXCEPT !.pc = "idle"]]
  /\ request' = [p \in Posts |-> IF request[p].pc \in {"inserting", "enqueueing"}
                                  THEN [request[p] EXCEPT !.pc = "closed"] ELSE request[p]]
  /\ fate' = [r \in Rows |-> IF r \in jobs THEN "interrupted" ELSE fate[r]]
  /\ UNCHANGED <<sender, intake, agent, logged, linked>>

-----------------------------------------------------------------------------
SendNext(e) == Post(e) \/ PostFails(e)

RequestNext(p) ==
  \/ Receive(p)
  \/ \E answered \in BOOLEAN : Insert(p, answered)
  \/ InsertLost(p)
  \/ Enqueue(p)
  \/ EnqueueUnanswered(p)
  \/ RequestFails(p)

WorkNext(r) ==
  Start(r) \/ Mark(r) \/ Redact(r) \/ SelectAgent(r) \/ CreateAgent(r)
    \/ InsertEvent(r) \/ Link(r) \/ Finish(r) \/ End(r)

FailNext(r) ==
  Raise(r) \/ RaiseAfter(r) \/ RecordError(r) \/ Abandon(r) \/ Stop(r) \/ Refuse(r)

Next ==
  \/ \E e \in Events : SendNext(e)
  \/ \E p \in Posts : RequestNext(p)
  \/ \E r \in Rows : WorkNext(r) \/ FailNext(r)
  \/ Restart

(* The worker's event loop runs on, and takes jobs while there are any.    *)
Fairness == \A r \in Rows : WF_vars(WorkNext(r) \/ RecordError(r))

Spec == Init /\ [][Next]_vars
FairSpec == Spec /\ Fairness

-----------------------------------------------------------------------------
(* Properties.                                                             *)

(* At most one event is inserted for an intake row, however often its job  *)
(* is delivered and wherever a run is cut: "processing" is written before  *)
(* the insert, the check on "queued" keeps later runs out, and the insert  *)
(* is not retried.                                                         *)
LoggedOncePerRow == \A r \in Rows : logged[r] <= 1

(* "done" is believable: the event is in the log, and the approval whose   *)
(* outcome it reports points to an event of that call that is in the log.  *)
DoneIsRecorded ==
  \A r \in Rows : intake[r] = "done" =>
    /\ logged[r] = 1
    /\ r[1] \in Outcomes => linked[r[1]] # NoRow /\ logged[linked[r[1]]] = 1
                            /\ linked[r[1]][1] = r[1]

(* A 202 is kept: the row of an accepted event is settled, or its job is   *)
(* in Redis, or its processing was interrupted.                            *)
AcceptedIsPending ==
  \A p \in Posts : request[p].pc = "accepted" =>
    LET r == RowOf(p)
    IN \/ intake[r] \in {"done", "error"}
       \/ intake[r] \in {"queued", "processing"} /\ r \in jobs
       \/ intake[r] # "none" /\ fate[r] = "interrupted"

(* The inductive invariant behind the three above. A request that has yet  *)
(* to insert finds its row absent; a row gets its job, its run and its     *)
(* status in that order; and each step of a run finds the row and the log  *)
(* as the steps before it left them.                                       *)
InsertsFresh ==
  \A p \in Posts : request[p].pc \in {"none", "inserting"} =>
    \A n \in request[p].n..InsertAttempts : intake[<<p[1], p[2], n>>] = "none"

EnqueuesQueued ==
  \A p \in Posts : request[p].pc = "enqueueing" =>
    intake[RowOf(p)] = "queued" /\ RowOf(p) \notin jobs

JobsAreEnqueued ==
  \A r \in Rows :
    /\ r \in jobs =>
         /\ intake[r] # "none"
         /\ \E p \in Posts : r = RowOf(p) /\ request[p].pc \in {"accepted", "closed"}
    /\ worker[r].pc # "idle" => r \in jobs

RunsInOrder ==
  \A r \in Rows :
    /\ intake[r] \in {"none", "queued"} => worker[r].pc \in {"idle", "marking"} /\ logged[r] = 0
    /\ intake[r] = "processing" =>
         \/ worker[r].pc \in InTry \cup {"failing"}
         \/ worker[r].pc = "idle" /\ fate[r] = "interrupted"
    /\ intake[r] = "done" => worker[r].pc \in {"idle", "failing", "ending"}
    /\ intake[r] = "error" => worker[r].pc \in {"idle", "ending"}

LogsInOrder ==
  \A r \in Rows :
    /\ worker[r].pc \in Unlogged => logged[r] = 0
    /\ worker[r].pc \in {"linking", "finishing"} => logged[r] = 1
    /\ worker[r].pc = "finishing" /\ r[1] \in Outcomes => linked[r[1]] # NoRow

LinksLogged ==
  \A e \in Outcomes : linked[e] # NoRow => logged[linked[e]] = 1 /\ linked[e][1] = e

IInv ==
  /\ TypeOK
  /\ LoggedOncePerRow
  /\ DoneIsRecorded
  /\ AcceptedIsPending
  /\ InsertsFresh
  /\ EnqueuesQueued
  /\ JobsAreEnqueued
  /\ RunsInOrder
  /\ LogsInOrder
  /\ LinksLogged

(* An event reported as failed is not logged afterwards, nor reported as   *)
(* done: nothing takes up a row in "error".                                *)
ErrorIsFinal ==
  [][\A r \in Rows : intake[r] = "error" =>
       intake'[r] = "error" /\ logged'[r] = logged[r]]_vars

(* A row whose job is in Redis is settled, whatever raises in its run,     *)
(* unless the run is interrupted.                                          *)
Settled(r) == intake[r] \in {"done", "error"}
SettlesUnlessInterrupted ==
  \A r \in Rows : r \in jobs ~> (Settled(r) \/ fate[r] = "interrupted")
=============================================================================

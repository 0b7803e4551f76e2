-------------------------- MODULE EventIntakeProofs -------------------------
(***************************************************************************)
(* Proofs about the event intake, for any number of events, of retries and *)
(* of deliveries of a job.                                                 *)
(***************************************************************************)
EXTENDS EventIntake, TLAPS

USE OutcomesAssumption, NoRowAssumption, AttemptsAssumption

(* Rows, requests and runs have their fields.                              *)
LEMMA RowOfType ==
  ASSUME TypeOK, NEW p \in Posts
  PROVE  /\ RowOf(p) \in Rows
         /\ p = <<p[1], p[2]>> /\ p[1] \in Events /\ p[2] \in 1..SendAttempts
         /\ RowOf(p)[1] = p[1]
         /\ request[p].n \in 1..InsertAttempts
BY DEF TypeOK, RowOf, Posts, Rows

LEMMA RowsDiffer ==
  ASSUME NEW p \in Posts, NEW q \in Posts, p # q, NEW n, NEW k
  PROVE  <<p[1], p[2], n>> # <<q[1], q[2], k>>
BY DEF Posts

LEMMA RunFields ==
  ASSUME TypeOK, NEW r \in Rows
  PROVE  /\ worker[r] \in [pc : {"idle", "marking", "failing", "ending"} \cup InTry, tries : 0..MaxTries]
         /\ worker[r].tries \in Nat
         /\ logged[r] \in Nat
         /\ r[1] \in Events
         /\ r # NoRow
BY DEF TypeOK, Rows

LEMMA MoveType ==
  ASSUME TypeOK, NEW r \in Rows, NEW from, NEW to \in {"idle", "marking", "failing", "ending"} \cup InTry,
         Move(r, from, to)
  PROVE  /\ worker' \in [Rows -> [pc : {"idle", "marking", "failing", "ending"} \cup InTry, tries : 0..MaxTries]]
         /\ worker[r].pc = from /\ worker'[r].pc = to
         /\ \A q \in Rows : q # r => worker'[q] = worker[q]
BY RunFields DEF Move, TypeOK

LEMMA RetryType ==
  ASSUME TypeOK, NEW p \in Posts, request[p].pc = "inserting", Retry(p)
  PROVE  /\ request' \in [Posts -> [pc : {"none", "inserting", "enqueueing", "accepted", "closed"},
                                    n : 1..InsertAttempts]]
         /\ \A q \in Posts : q # p => request'[q] = request[q]
         /\ \/ request'[p].pc = "inserting" /\ request'[p].n = request[p].n + 1
            \/ request'[p].pc = "closed"
<1>1. CASE request[p].n < InsertAttempts
  <2>1. request' = [request EXCEPT ![p].n = request[p].n + 1]
    BY <1>1 DEF Retry
  <2>2. request[p].n + 1 \in 1..InsertAttempts
    BY <1>1, RowOfType
  <2> QED BY <2>1, <2>2 DEF TypeOK
<1>2. CASE ~(request[p].n < InsertAttempts)
  BY <1>2 DEF Retry, TypeOK
<1> QED BY <1>1, <1>2

-----------------------------------------------------------------------------
(* Type correctness.                                                       *)

LEMMA TypeInit == Init => TypeOK
<1> SUFFICES ASSUME Init PROVE TypeOK
  OBVIOUS
<1>1. worker \in [Rows -> [pc : {"idle", "marking", "failing", "ending"} \cup InTry, tries : 0..MaxTries]]
  BY DEF Init
<1>2. sender \in [Events -> [pc : {"queued", "waiting", "accepted", "warned"},
                            attempt : 1..SendAttempts]]
  BY DEF Init
<1>3. request \in [Posts -> [pc : {"none", "inserting", "enqueueing", "accepted", "closed"},
                            n : 1..InsertAttempts]]
  BY DEF Init
<1> QED BY <1>1, <1>2, <1>3 DEF Init, TypeOK

LEMMA TypeSend ==
  ASSUME TypeOK, NEW e \in Events, SendNext(e)
  PROVE  TypeOK'
<1>1. CASE Post(e)
  BY <1>1 DEF Post, TypeOK
<1>2. CASE PostFails(e)
  <2>1. CASE sender[e].attempt < SendAttempts
    <3>1. sender' = [sender EXCEPT ![e].attempt = sender[e].attempt + 1]
      BY <1>2, <2>1 DEF PostFails
    <3>2. sender[e].attempt + 1 \in 1..SendAttempts
      BY <2>1 DEF TypeOK
    <3> QED BY <1>2, <3>1, <3>2 DEF PostFails, TypeOK
  <2>2. CASE ~(sender[e].attempt < SendAttempts)
    BY <1>2, <2>2 DEF PostFails, TypeOK
  <2> QED BY <2>1, <2>2
<1> QED BY <1>1, <1>2 DEF SendNext

LEMMA TypeRequest ==
  ASSUME TypeOK, NEW p \in Posts, RequestNext(p)
  PROVE  TypeOK'
<1>1. CASE Receive(p)
  BY <1>1 DEF Receive, Goto, TypeOK
<1>2. ASSUME NEW answered \in BOOLEAN, Insert(p, answered) PROVE TypeOK'
  <2>1. request' \in [Posts -> [pc : {"none", "inserting", "enqueueing", "accepted", "closed"},
                                n : 1..InsertAttempts]]
    <3>1. CASE answered
      BY <1>2, <3>1 DEF Insert, TypeOK
    <3>2. CASE ~answered
      <4>1. request[p].pc = "inserting" /\ Retry(p)
        BY <1>2, <3>2 DEF Insert
      <4> QED BY <4>1, RetryType
    <3> QED BY <3>1, <3>2
  <2> QED BY <1>2, <2>1, RowOfType DEF Insert, TypeOK
<1>3. CASE InsertLost(p)
  BY <1>3, RetryType DEF InsertLost, TypeOK
<1>4. CASE Enqueue(p)
  <2>1. sender' \in [Events -> [pc : {"queued", "waiting", "accepted", "warned"},
                                attempt : 1..SendAttempts]]
    BY <1>4, RowOfType DEF Enqueue, Accept, TypeOK
  <2> QED BY <1>4, <2>1, RowOfType DEF Enqueue, Goto, TypeOK
<1>5. CASE EnqueueUnanswered(p)
  BY <1>5, RowOfType DEF EnqueueUnanswered, Goto, TypeOK
<1>6. CASE RequestFails(p)
  BY <1>6 DEF RequestFails, Goto, TypeOK
<1> QED BY <1>1, <1>2, <1>3, <1>4, <1>5, <1>6 DEF RequestNext

LEMMA TypeWork ==
  ASSUME TypeOK, NEW r \in Rows, WorkNext(r)
  PROVE  TypeOK'
<1>1. CASE Start(r)
  <2>1. worker[r].tries + 1 \in 0..MaxTries
    BY <1>1, RunFields DEF Start, Take
  <2>2. PICK pc \in {"marking", "idle"} :
          worker' = [worker EXCEPT ![r] = [pc |-> pc, tries |-> worker[r].tries + 1]]
    BY <1>1 DEF Start, Take
  <2> QED BY <1>1, <2>1, <2>2 DEF Start, Take, TypeOK
<1>2. CASE Mark(r)
  BY <1>2, MoveType DEF Mark, TypeOK, InTry
<1>3. CASE Redact(r)
  BY <1>3, MoveType DEF Redact, TypeOK, InTry
<1>4. CASE SelectAgent(r)
  BY <1>4, MoveType DEF SelectAgent, TypeOK, InTry
<1>5. CASE CreateAgent(r)
  BY <1>5, MoveType DEF CreateAgent, TypeOK, InTry
<1>6. CASE InsertEvent(r)
  <2>1. AfterInsert(r) \in {"idle", "marking", "failing", "ending"} \cup InTry
    BY DEF AfterInsert, InTry
  <2>2. logged' = [logged EXCEPT ![r] = logged[r] + 1]
    BY <1>6 DEF InsertEvent
  <2>3. logged' \in [Rows -> Nat]
    BY <2>2, RunFields DEF TypeOK
  <2>4. worker' \in [Rows -> [pc : {"idle", "marking", "failing", "ending"} \cup InTry, tries : 0..MaxTries]]
    BY <1>6, <2>1, MoveType DEF InsertEvent
  <2> QED BY <1>6, <2>3, <2>4 DEF InsertEvent, TypeOK
<1>7. CASE Link(r)
  BY <1>7, MoveType, RunFields DEF Link, TypeOK, InTry
<1>8. CASE Finish(r) \/ End(r)
  BY <1>8, MoveType DEF Finish, End, TypeOK
<1> QED BY <1>1, <1>2, <1>3, <1>4, <1>5, <1>6, <1>7, <1>8 DEF WorkNext

LEMMA TypeFail ==
  ASSUME TypeOK, NEW r \in Rows, FailNext(r)
  PROVE  TypeOK'
<1>1. CASE Raise(r)
  BY <1>1, MoveType DEF Raise, Fault, TypeOK
<1>2. CASE RaiseAfter(r)
  <2>1. fate' \in [Rows -> {"smooth", "faulted", "interrupted"}]
    BY <1>2 DEF RaiseAfter, Fault, TypeOK
  <2>2. worker' \in [Rows -> [pc : {"idle", "marking", "failing", "ending"} \cup InTry, tries : 0..MaxTries]]
    BY <1>2, MoveType DEF RaiseAfter
  <2>3. logged' \in [Rows -> Nat]
    BY <1>2, RunFields DEF RaiseAfter, TypeOK
  <2>4. linked' \in [Outcomes -> Rows \cup {NoRow}] /\ intake' \in [Rows -> {"none", "queued", "processing", "done", "error"}]
    BY <1>2 DEF RaiseAfter, TypeOK
  <2> QED BY <1>2, <2>1, <2>2, <2>3, <2>4 DEF RaiseAfter, TypeOK
<1>3. CASE RecordError(r)
  BY <1>3, MoveType DEF RecordError, TypeOK
<1>4. CASE Abandon(r)
  BY <1>4, MoveType DEF Abandon, Interrupt, TypeOK
<1>5. CASE Stop(r)
  BY <1>5, MoveType DEF Stop, Interrupt, TypeOK
<1>6. CASE Refuse(r)
  BY <1>6 DEF Refuse, Interrupt, TypeOK
<1> QED BY <1>1, <1>2, <1>3, <1>4, <1>5, <1>6 DEF FailNext

LEMMA TypeStep ==
  ASSUME TypeOK, [Next]_vars
  PROVE  TypeOK'
<1>1. CASE Restart
  <2>1. \A p \in Posts : [request[p] EXCEPT !.pc = "closed"] \in
          [pc : {"none", "inserting", "enqueueing", "accepted", "closed"}, n : 1..InsertAttempts]
    BY DEF TypeOK
  <2>2. \A r \in Rows : [worker[r] EXCEPT !.pc = "idle"] \in
          [pc : {"idle", "marking", "failing", "ending"} \cup InTry, tries : 0..MaxTries]
    BY RunFields
  <2> QED BY <1>1, <2>1, <2>2 DEF Restart, TypeOK
<1>2. CASE UNCHANGED vars
  BY <1>2 DEF vars, TypeOK
<1> QED BY <1>1, <1>2, TypeSend, TypeRequest, TypeWork, TypeFail DEF Next

(* Type correctness of every reachable state.                              *)
THEOREM TypeCorrect == Spec => []TypeOK
BY TypeInit, TypeStep, PTL DEF Spec

-----------------------------------------------------------------------------
(* The inductive invariant.                                                *)

LEMMA IInit == Init => IInv
<1> SUFFICES ASSUME Init PROVE IInv
  OBVIOUS
<1>1. TypeOK
  BY TypeInit
<1>2. \A p \in Posts, n \in 1..InsertAttempts : <<p[1], p[2], n>> \in Rows
  BY DEF Posts, Rows
<1>3. InsertsFresh /\ EnqueuesQueued /\ AcceptedIsPending
  BY <1>2 DEF Init, InsertsFresh, EnqueuesQueued, AcceptedIsPending
<1> QED
  BY <1>1, <1>3 DEF Init, IInv, LoggedOncePerRow, DoneIsRecorded, JobsAreEnqueued, RunsInOrder,
     LogsInOrder, LinksLogged, Unlogged

(* The SDK's side matters to nothing else.                                 *)
LEMMA SendStep ==
  ASSUME IInv, NEW e \in Events, SendNext(e)
  PROVE  IInv'
<1>1. UNCHANGED <<request, intake, jobs, worker, agent, logged, linked, fate>>
  BY DEF SendNext, Post, PostFails
<1>2. TypeOK'
  BY TypeStep DEF IInv, Next
<1> QED
  BY <1>1, <1>2 DEF IInv, LoggedOncePerRow, DoneIsRecorded, AcceptedIsPending, InsertsFresh,
     EnqueuesQueued, JobsAreEnqueued, RunsInOrder, LogsInOrder, LinksLogged, RowOf

(* A request changes its own row before the row has a job.                 *)
LEMMA RequestStep ==
  ASSUME IInv, NEW p \in Posts, RequestNext(p)
  PROVE  IInv'
<1> USE DEF IInv
<1>1. TypeOK'
  BY TypeStep DEF Next
<1>2. UNCHANGED <<worker, agent, logged, linked, fate>>
  BY DEF RequestNext, Receive, Insert, InsertLost, Enqueue, EnqueueUnanswered, RequestFails
<1>3. LoggedOncePerRow' /\ LogsInOrder' /\ LinksLogged'
  BY <1>2 DEF LoggedOncePerRow, LogsInOrder, LinksLogged
<1>4. \A q \in Posts : q # p => request'[q] = request[q] /\ RowOf(q)' = RowOf(q) /\ RowOf(q) # RowOf(p)
  <2>1. \A q \in Posts : q # p => request'[q] = request[q]
    BY RetryType DEF RequestNext, Receive, Insert, InsertLost, Enqueue, EnqueueUnanswered,
       RequestFails, Goto, TypeOK
  <2> QED BY <2>1, RowsDiffer DEF RowOf
<1>5. RowOf(p) \in Rows
  BY RowOfType
<1>6. ASSUME NEW answered \in BOOLEAN, Insert(p, answered)
      PROVE  IInv'
  <2>1. intake[RowOf(p)] = "none" /\ intake'[RowOf(p)] = "queued" /\ jobs' = jobs
    BY <1>5, <1>6, RowOfType DEF Insert, InsertsFresh, RowOf, TypeOK
  <2>2. \A r \in Rows : r # RowOf(p) => intake'[r] = intake[r]
    BY <1>6 DEF Insert, TypeOK
  <2>3. \/ request'[p].pc = "enqueueing" /\ RowOf(p)' = RowOf(p)
        \/ request'[p].pc = "inserting" /\ request'[p].n = request[p].n + 1
        \/ request'[p].pc = "closed"
    BY <1>6, RetryType DEF Insert, RowOf, TypeOK
  <2>4. RowOf(p) \notin jobs
    BY <1>5, <2>1 DEF JobsAreEnqueued
  <2>5. DoneIsRecorded' /\ RunsInOrder'
    BY <1>2, <2>1, <2>2, <1>5 DEF DoneIsRecorded, RunsInOrder
  <2>6. AcceptedIsPending'
    BY <1>2, <1>4, <2>1, <2>2, <2>3, RowOfType DEF AcceptedIsPending
  <2>7. InsertsFresh'
    <3> SUFFICES ASSUME NEW q \in Posts, request'[q].pc \in {"none", "inserting"},
                        NEW n \in request'[q].n..InsertAttempts
                 PROVE  intake'[<<q[1], q[2], n>>] = "none"
      BY DEF InsertsFresh
    <3>1. request'[q].n \in 1..InsertAttempts
      BY <1>1 DEF TypeOK
    <3>2. <<q[1], q[2], n>> \in Rows
      BY <3>1, RowOfType DEF Rows
    <3>3. CASE q # p
      <4>1. intake[<<q[1], q[2], n>>] = "none"
        BY <1>4, <3>3 DEF InsertsFresh
      <4> QED BY <2>2, <3>2, <3>3, <4>1, RowsDiffer DEF RowOf
    <3>4. CASE q = p
      <4>1. request[p].pc = "inserting" /\ request'[p].n = request[p].n + 1
        BY <1>6, <2>3, <3>4 DEF Insert
      <4>2. request[p].n \in Nat /\ n \in request[p].n..InsertAttempts /\ n # request[p].n
        BY <3>4, <4>1, RowOfType
      <4>3. intake[<<p[1], p[2], n>>] = "none"
        BY <4>1, <4>2 DEF InsertsFresh
      <4> QED BY <2>2, <3>2, <3>4, <4>2, <4>3 DEF RowOf
    <3> QED BY <3>3, <3>4
  <2>8. EnqueuesQueued'
    BY <1>4, <2>1, <2>2, <2>3, <2>4, RowOfType DEF EnqueuesQueued
  <2>9. JobsAreEnqueued'
    BY <1>2, <1>4, <1>6, <2>1, <2>2, RowOfType DEF JobsAreEnqueued, Insert
  <2> QED BY <1>1, <1>3, <2>5, <2>6, <2>7, <2>8, <2>9
<1>7. CASE Receive(p) \/ InsertLost(p) \/ RequestFails(p)
  <2>1. UNCHANGED <<intake, jobs>>
    BY <1>7 DEF Receive, InsertLost, RequestFails
  <2>2. /\ request[p].pc \notin {"accepted", "closed"}
        /\ request'[p].pc \in {"inserting", "closed"}
        /\ request'[p].pc = "inserting" => /\ request'[p].n \in {request[p].n, request[p].n + 1}
                                          /\ request[p].pc \in {"none", "inserting"}
    BY <1>7, RetryType DEF Receive, InsertLost, RequestFails, Goto, TypeOK
  <2>3. InsertsFresh'
    BY <1>4, <2>1, <2>2, RowOfType DEF InsertsFresh
  <2>4. EnqueuesQueued' /\ AcceptedIsPending'
    BY <1>2, <1>4, <2>1, <2>2 DEF EnqueuesQueued, AcceptedIsPending
  <2>5. JobsAreEnqueued'
    BY <1>2, <1>4, <2>1, <2>2 DEF JobsAreEnqueued
  <2>6. DoneIsRecorded' /\ RunsInOrder'
    BY <1>2, <2>1 DEF DoneIsRecorded, RunsInOrder
  <2> QED BY <1>1, <1>3, <2>3, <2>4, <2>5, <2>6
<1>8. CASE Enqueue(p) \/ EnqueueUnanswered(p)
  <2>1. intake' = intake /\ jobs' = jobs \cup {RowOf(p)}
    BY <1>8 DEF Enqueue, EnqueueUnanswered
  <2>2. /\ request[p].pc = "enqueueing" /\ request'[p].pc \in {"accepted", "closed"}
        /\ RowOf(p)' = RowOf(p)
    BY <1>8 DEF Enqueue, EnqueueUnanswered, Goto, TypeOK, RowOf
  <2>3. intake[RowOf(p)] = "queued"
    BY <2>2 DEF EnqueuesQueued
  <2>4. InsertsFresh'
    BY <1>4, <2>1, <2>2 DEF InsertsFresh
  <2>5. EnqueuesQueued'
    BY <1>4, <2>1, <2>2 DEF EnqueuesQueued
  <2>6. AcceptedIsPending'
    BY <1>2, <1>4, <2>1, <2>2, <2>3 DEF AcceptedIsPending
  <2>7. JobsAreEnqueued'
    BY <1>2, <1>4, <2>1, <2>2, <2>3 DEF JobsAreEnqueued
  <2>8. DoneIsRecorded' /\ RunsInOrder'
    BY <1>2, <2>1 DEF DoneIsRecorded, RunsInOrder
  <2> QED BY <1>1, <1>3, <2>4, <2>5, <2>6, <2>7, <2>8
<1> QED BY <1>6, <1>7, <1>8 DEF RequestNext

(* What a step of r's run may do to the other rows: nothing.               *)
OnlyRow(r) ==
  \A q \in Rows : q # r =>
    /\ worker'[q] = worker[q] /\ intake'[q] = intake[q] /\ logged'[q] = logged[q]
    /\ fate'[q] = fate[q] /\ (q \in jobs' <=> q \in jobs)

LEMMA WorkTouchesOneRow ==
  ASSUME TypeOK, NEW r \in Rows, WorkNext(r) \/ FailNext(r)
  PROVE  OnlyRow(r) /\ UNCHANGED <<sender, request>>
<1> USE DEF OnlyRow
<1>1. CASE Start(r)
  BY <1>1 DEF Start, Take, TypeOK
<1>2. CASE Mark(r) \/ Finish(r) \/ End(r) \/ RecordError(r)
  BY <1>2 DEF Mark, Finish, End, RecordError, Move, TypeOK
<1>3. CASE Redact(r) \/ SelectAgent(r) \/ CreateAgent(r) \/ Link(r)
  BY <1>3 DEF Redact, SelectAgent, CreateAgent, Link, Move, TypeOK
<1>4. CASE InsertEvent(r)
  BY <1>4 DEF InsertEvent, Move, TypeOK
<1>5. CASE Raise(r)
  BY <1>5 DEF Raise, Fault, Move, TypeOK
<1>6. CASE RaiseAfter(r)
  <2>1. \A q \in Rows : q # r => worker'[q] = worker[q] /\ fate'[q] = fate[q]
    BY <1>6 DEF RaiseAfter, Fault, Move, TypeOK
  <2>2. \A q \in Rows : q # r => intake'[q] = intake[q] /\ logged'[q] = logged[q]
    BY <1>6 DEF RaiseAfter, TypeOK
  <2> QED BY <1>6, <2>1, <2>2 DEF RaiseAfter
<1>7. CASE Abandon(r) \/ Stop(r) \/ Refuse(r)
  BY <1>7 DEF Abandon, Stop, Refuse, Interrupt, Move, TypeOK
<1> QED BY <1>1, <1>2, <1>3, <1>4, <1>5, <1>6, <1>7 DEF WorkNext, FailNext

(* What a step of r's run has to do to its own row for IInv to be kept.    *)
RowKept(r) ==
  /\ r \in jobs
  /\ intake'[r] # "none"
  /\ logged'[r] <= 1 /\ (logged[r] = 1 => logged'[r] = 1)
  /\ linked' = linked
     \/ (logged'[r] = 1 /\ r[1] \in Outcomes /\ linked' = [linked EXCEPT ![r[1]] = r])
  /\ worker'[r].pc # "idle" => r \in jobs'
  /\ intake'[r] \in {"done", "error"} \/ r \in jobs' \/ fate'[r] = "interrupted"
  /\ intake'[r] = "queued" => worker'[r].pc \in {"idle", "marking"} /\ logged'[r] = 0
  /\ intake'[r] = "processing" =>
       worker'[r].pc \in InTry \cup {"failing"}
         \/ (worker'[r].pc = "idle" /\ fate'[r] = "interrupted")
  /\ intake'[r] = "done" =>
       /\ worker'[r].pc \in {"idle", "failing", "ending"}
       /\ logged'[r] = 1 /\ (r[1] \in Outcomes => linked'[r[1]] # NoRow)
  /\ intake'[r] = "error" => worker'[r].pc \in {"idle", "ending"}
  /\ worker'[r].pc \in Unlogged => logged'[r] = 0
  /\ worker'[r].pc \in {"linking", "finishing"} => logged'[r] = 1
  /\ worker'[r].pc = "finishing" /\ r[1] \in Outcomes => linked'[r[1]] # NoRow

LEMMA RowStep ==
  ASSUME IInv, TypeOK', NEW r \in Rows, OnlyRow(r), UNCHANGED <<sender, request>>, RowKept(r)
  PROVE  IInv'
<1> USE DEF IInv
<1>1. \A q \in Rows : q # r =>
        /\ worker'[q] = worker[q] /\ intake'[q] = intake[q] /\ logged'[q] = logged[q]
        /\ fate'[q] = fate[q] /\ (q \in jobs' <=> q \in jobs)
  BY DEF OnlyRow
<1>2. \A p \in Posts : RowOf(p)' = RowOf(p) /\ RowOf(p) \in Rows
  BY RowOfType DEF RowOf
<1>3. intake[r] # "none" /\ intake'[r] # "none" /\ r \in jobs
  BY DEF RowKept, JobsAreEnqueued
<1>4. \A e \in Outcomes : linked[e] # NoRow => linked'[e] # NoRow
  BY RunFields DEF RowKept, TypeOK
<1>5. LinksLogged'
  <2> SUFFICES ASSUME NEW e \in Outcomes, linked'[e] # NoRow
               PROVE  logged'[linked'[e]] = 1 /\ linked'[e][1] = e
    BY DEF LinksLogged
  <2>1. CASE linked' = linked
    <3>1. logged[linked[e]] = 1 /\ linked[e][1] = e /\ linked[e] \in Rows
      BY <2>1 DEF LinksLogged, TypeOK
    <3>2. logged'[linked[e]] = 1
      BY <1>1, <3>1 DEF RowKept
    <3> QED BY <2>1, <3>1, <3>2
  <2>2. CASE logged'[r] = 1 /\ r[1] \in Outcomes /\ linked' = [linked EXCEPT ![r[1]] = r]
    <3>1. CASE e = r[1]
      BY <2>2, <3>1 DEF TypeOK
    <3>2. CASE e # r[1]
      <4>1. linked'[e] = linked[e]
        BY <2>2, <3>2 DEF TypeOK
      <4>2. logged[linked[e]] = 1 /\ linked[e][1] = e /\ linked[e] \in Rows
        BY <4>1 DEF LinksLogged, TypeOK
      <4> QED BY <1>1, <2>2, <4>1, <4>2
    <3> QED BY <3>1, <3>2
  <2> QED BY <2>1, <2>2 DEF RowKept
<1>6. LoggedOncePerRow'
  BY <1>1 DEF LoggedOncePerRow, RowKept
<1>7. DoneIsRecorded'
  <2> SUFFICES ASSUME NEW q \in Rows, intake'[q] = "done"
               PROVE  logged'[q] = 1 /\ (q[1] \in Outcomes => linked'[q[1]] # NoRow)
    BY <1>5 DEF DoneIsRecorded, LinksLogged
  <2>1. CASE q = r
    BY <2>1 DEF RowKept
  <2>2. CASE q # r
    BY <1>1, <1>4, <2>2 DEF DoneIsRecorded
  <2> QED BY <2>1, <2>2
<1>8. AcceptedIsPending'
  <2> SUFFICES ASSUME NEW p \in Posts, request'[p].pc = "accepted"
               PROVE  \/ intake'[RowOf(p)] \in {"done", "error"}
                      \/ intake'[RowOf(p)] \in {"queued", "processing"} /\ RowOf(p) \in jobs'
                      \/ intake'[RowOf(p)] # "none" /\ fate'[RowOf(p)] = "interrupted"
    BY <1>2 DEF AcceptedIsPending
  <2>1. CASE RowOf(p) = r
    <3>1. intake'[r] \in {"queued", "processing", "done", "error"}
      BY <1>3 DEF TypeOK
    <3> QED BY <1>3, <2>1, <3>1 DEF RowKept
  <2>2. CASE RowOf(p) # r
    BY <1>1, <1>2, <2>2 DEF AcceptedIsPending
  <2> QED BY <2>1, <2>2
<1>9. InsertsFresh'
  <2> SUFFICES ASSUME NEW p \in Posts, request[p].pc \in {"none", "inserting"},
                      NEW n \in request[p].n..InsertAttempts
               PROVE  intake'[<<p[1], p[2], n>>] = "none"
    BY DEF InsertsFresh
  <2>1. intake[<<p[1], p[2], n>>] = "none"
    BY DEF InsertsFresh
  <2>2. <<p[1], p[2], n>> \in Rows
    BY RowOfType DEF Rows
  <2> QED BY <1>1, <1>3, <2>1, <2>2
<1>10. EnqueuesQueued'
  <2> SUFFICES ASSUME NEW p \in Posts, request[p].pc = "enqueueing"
               PROVE  intake'[RowOf(p)] = "queued" /\ RowOf(p) \notin jobs'
    BY <1>2 DEF EnqueuesQueued
  <2>1. intake[RowOf(p)] = "queued" /\ RowOf(p) \notin jobs
    BY DEF EnqueuesQueued
  <2> QED BY <1>1, <1>2, <1>3, <2>1
<1>11. JobsAreEnqueued'
  <2> SUFFICES ASSUME NEW q \in Rows
               PROVE  /\ q \in jobs' =>
                           /\ intake'[q] # "none"
                           /\ \E p \in Posts : q = RowOf(p) /\ request'[p].pc \in {"accepted", "closed"}
                      /\ worker'[q].pc # "idle" => q \in jobs'
    BY <1>2 DEF JobsAreEnqueued
  <2>1. CASE q = r
    BY <1>3, <2>1 DEF JobsAreEnqueued, RowKept
  <2>2. CASE q # r
    BY <1>1, <2>2 DEF JobsAreEnqueued
  <2> QED BY <2>1, <2>2
<1>12. RunsInOrder'
  <2>1. \A q \in Rows : q # r =>
          /\ worker'[q] = worker[q] /\ intake'[q] = intake[q] /\ logged'[q] = logged[q]
          /\ fate'[q] = fate[q]
    BY <1>1
  <2> QED BY <1>3, <2>1 DEF RunsInOrder, RowKept
<1>13. LogsInOrder'
  <2> SUFFICES ASSUME NEW q \in Rows
               PROVE  /\ worker'[q].pc \in Unlogged => logged'[q] = 0
                      /\ worker'[q].pc \in {"linking", "finishing"} => logged'[q] = 1
                      /\ worker'[q].pc = "finishing" /\ q[1] \in Outcomes => linked'[q[1]] # NoRow
    BY DEF LogsInOrder
  <2>1. CASE q = r
    BY <2>1 DEF RowKept
  <2>2. CASE q # r
    BY <1>1, <1>4, <2>2 DEF LogsInOrder
  <2> QED BY <2>1, <2>2
<1> QED BY <1>5, <1>6, <1>7, <1>8, <1>9, <1>10, <1>11, <1>12, <1>13

(* What IInv says of a row that a run works on.                            *)
LEMMA RunKnows ==
  ASSUME IInv, NEW r \in Rows
  PROVE  /\ worker[r].pc # "idle" => r \in jobs
         /\ r \in jobs => intake[r] # "none"
         /\ logged[r] \in {0, 1}
         /\ intake[r] \in {"none", "queued", "processing", "done", "error"}
         /\ worker[r].pc = "marking" => intake[r] = "queued"
         /\ worker[r].pc \in InTry => intake[r] = "processing"
         /\ worker[r].pc = "failing" => intake[r] \in {"processing", "done"}
         /\ worker[r].pc = "ending" => intake[r] \in {"done", "error"}
         /\ r[1] \notin Outcomes => [linked EXCEPT ![r[1]] = r] = linked
<1> USE DEF IInv
<1>1. logged[r] \in {0, 1}
  BY RunFields DEF LoggedOncePerRow
<1>2. intake[r] \in {"none", "queued", "processing", "done", "error"}
  BY DEF TypeOK
<1>3. r[1] \notin Outcomes => [linked EXCEPT ![r[1]] = r] = linked
  BY DEF TypeOK
<1> QED BY <1>1, <1>2, <1>3 DEF JobsAreEnqueued, RunsInOrder, InTry

LEMMA WorkStep ==
  ASSUME IInv, NEW r \in Rows, WorkNext(r)
  PROVE  IInv'
<1> USE DEF IInv
<1>1. TypeOK' /\ OnlyRow(r) /\ UNCHANGED <<sender, request>>
  BY TypeStep, WorkTouchesOneRow DEF Next
<1> SUFFICES RowKept(r)
  BY <1>1, RowStep
<1>2. CASE Start(r)
  <2>1. /\ r \in jobs /\ worker[r].pc = "idle" /\ UNCHANGED <<intake, logged, linked, fate>>
        /\ worker'[r].pc = IF intake[r] = "queued" THEN "marking" ELSE "idle"
        /\ intake[r] = "queued" => r \in jobs'
    BY <1>2 DEF Start, Take, TypeOK
  <2>2. intake[r] = "queued" => logged[r] = 0
    BY DEF RunsInOrder
  <2>3. intake[r] = "processing" => fate[r] = "interrupted"
    BY <2>1 DEF RunsInOrder, InTry
  <2>4. intake[r] = "done" => logged[r] = 1 /\ (r[1] \in Outcomes => linked[r[1]] # NoRow)
    BY DEF DoneIsRecorded
  <2> QED BY <2>1, <2>2, <2>3, <2>4, RunKnows DEF RowKept, InTry, Unlogged
<1>3. CASE Mark(r)
  <2>1. /\ worker[r].pc = "marking" /\ worker'[r].pc = "redacting" /\ intake'[r] = "processing"
        /\ UNCHANGED <<jobs, logged, linked, fate>>
    BY <1>3 DEF Mark, Move, TypeOK
  <2>2. logged[r] = 0
    BY <2>1, RunKnows DEF RunsInOrder
  <2> QED BY <2>1, <2>2, RunKnows DEF RowKept, InTry, Unlogged
<1>4. CASE Redact(r) \/ SelectAgent(r) \/ CreateAgent(r)
  <2>1. /\ worker[r].pc \in Unlogged
        /\ worker'[r].pc \in {"resolving", "creating", "inserting", "failing"}
        /\ UNCHANGED <<intake, jobs, logged, linked, fate>>
    BY <1>4 DEF Redact, SelectAgent, CreateAgent, Move, TypeOK, Unlogged
  <2>2. logged[r] = 0 /\ worker[r].pc \in InTry
    BY <2>1 DEF LogsInOrder, InTry, Unlogged
  <2> QED BY <2>1, <2>2, RunKnows DEF RowKept, InTry, Unlogged
<1>5. CASE InsertEvent(r)
  <2>1. /\ worker[r].pc = "inserting" /\ worker'[r].pc = AfterInsert(r)
        /\ UNCHANGED <<intake, jobs, linked, fate>>
    BY <1>5 DEF InsertEvent, Move, TypeOK
  <2>2. logged[r] = 0
    BY <2>1 DEF LogsInOrder, Unlogged
  <2>3. logged'[r] = 1
    BY <1>5, <2>2 DEF InsertEvent, TypeOK
  <2> QED BY <2>1, <2>2, <2>3, RunKnows DEF RowKept, AfterInsert, InTry, Unlogged
<1>6. CASE Link(r)
  <2>1. /\ worker[r].pc = "linking" /\ worker'[r].pc = "finishing"
        /\ linked' = [linked EXCEPT ![r[1]] = r]
        /\ UNCHANGED <<intake, jobs, logged, fate>>
    BY <1>6 DEF Link, Move, TypeOK
  <2>2. logged[r] = 1
    BY <2>1 DEF LogsInOrder
  <2>3. r[1] \in Outcomes => linked'[r[1]] # NoRow
    BY <2>1, RunFields DEF TypeOK
  <2> QED BY <2>1, <2>2, <2>3, RunKnows DEF RowKept, InTry, Unlogged
<1>7. CASE Finish(r)
  <2>1. /\ worker[r].pc = "finishing" /\ worker'[r].pc = "ending" /\ intake'[r] = "done"
        /\ UNCHANGED <<jobs, logged, linked, fate>>
    BY <1>7 DEF Finish, Move, TypeOK
  <2>2. logged[r] = 1 /\ (r[1] \in Outcomes => linked[r[1]] # NoRow)
    BY <2>1 DEF LogsInOrder
  <2> QED BY <2>1, <2>2, RunKnows DEF RowKept, InTry, Unlogged
<1>8. CASE End(r)
  <2>1. /\ worker[r].pc = "ending" /\ worker'[r].pc = "idle"
        /\ UNCHANGED <<intake, logged, linked, fate>>
    BY <1>8 DEF End, Move, TypeOK
  <2>2. intake[r] = "done" => logged[r] = 1 /\ (r[1] \in Outcomes => linked[r[1]] # NoRow)
    BY DEF DoneIsRecorded
  <2> QED BY <2>1, <2>2, RunKnows DEF RowKept, InTry, Unlogged
<1> QED BY <1>2, <1>3, <1>4, <1>5, <1>6, <1>7, <1>8 DEF WorkNext

LEMMA FailStep ==
  ASSUME IInv, NEW r \in Rows, FailNext(r)
  PROVE  IInv'
<1> USE DEF IInv
<1>1. TypeOK' /\ OnlyRow(r) /\ UNCHANGED <<sender, request>>
  BY TypeStep, WorkTouchesOneRow DEF Next
<1> SUFFICES RowKept(r)
  BY <1>1, RowStep
<1>2. intake[r] = "done" => logged[r] = 1 /\ (r[1] \in Outcomes => linked[r[1]] # NoRow)
  BY DEF DoneIsRecorded
<1>3. intake[r] = "queued" => logged[r] = 0
  BY DEF RunsInOrder
<1>4. CASE Raise(r)
  <2>1. /\ worker[r].pc \in InTry /\ worker'[r].pc = "failing"
        /\ UNCHANGED <<intake, jobs, logged, linked>>
    BY <1>4 DEF Raise, Move, TypeOK
  <2> QED BY <2>1, RunKnows DEF RowKept, InTry, Unlogged
<1>5. CASE RaiseAfter(r)
  <2>1. jobs' = jobs /\ worker'[r].pc = "failing"
    BY <1>5 DEF RaiseAfter, Move, TypeOK
  <2>2. CASE /\ worker[r].pc = "inserting" /\ logged' = [logged EXCEPT ![r] = logged[r] + 1]
             /\ UNCHANGED <<linked, intake>>
    <3>1. logged[r] = 0
      BY <2>2 DEF LogsInOrder, Unlogged
    <3>2. logged'[r] = 1
      BY <2>2, <3>1 DEF TypeOK
    <3> QED BY <2>1, <2>2, <3>1, <3>2, RunKnows DEF RowKept, InTry, Unlogged
  <2>3. CASE /\ worker[r].pc = "linking" /\ linked' = [linked EXCEPT ![r[1]] = r]
             /\ UNCHANGED <<logged, intake>>
    <3>1. logged[r] = 1
      BY <2>3 DEF LogsInOrder
    <3> QED BY <2>1, <2>3, <3>1, RunKnows DEF RowKept, InTry, Unlogged
  <2>4. CASE /\ worker[r].pc = "finishing" /\ intake' = [intake EXCEPT ![r] = "done"]
             /\ UNCHANGED <<logged, linked>>
    <3>1. logged[r] = 1 /\ (r[1] \in Outcomes => linked[r[1]] # NoRow)
      BY <2>4 DEF LogsInOrder
    <3>2. intake'[r] = "done"
      BY <2>4 DEF TypeOK
    <3> QED BY <2>1, <2>4, <3>1, <3>2, RunKnows DEF RowKept, InTry, Unlogged
  <2> QED BY <1>5, <2>2, <2>3, <2>4 DEF RaiseAfter, Move
<1>6. CASE RecordError(r)
  <2>1. /\ worker[r].pc = "failing" /\ worker'[r].pc = "ending" /\ intake'[r] = "error"
        /\ UNCHANGED <<jobs, logged, linked, fate>>
    BY <1>6 DEF RecordError, Move, TypeOK
  <2> QED BY <2>1, RunKnows DEF RowKept, InTry, Unlogged
<1>7. CASE Abandon(r) \/ Stop(r)
  <2>1. /\ worker[r].pc # "idle" /\ worker'[r].pc = "idle" /\ fate'[r] = "interrupted"
        /\ UNCHANGED <<intake, logged, linked>>
    BY <1>7 DEF Abandon, Stop, Interrupt, Move, TypeOK, InTry
  <2>2. r \in jobs' \/ fate'[r] = "interrupted"
    BY <2>1
  <2> QED BY <1>2, <1>3, <2>1, <2>2, RunKnows DEF RowKept, InTry, Unlogged
<1>8. CASE Refuse(r)
  <2>1. /\ r \in jobs /\ worker[r].pc = "idle" /\ fate'[r] = "interrupted"
        /\ UNCHANGED <<intake, worker, logged, linked>>
    BY <1>8 DEF Refuse, Interrupt, TypeOK
  <2> QED BY <1>2, <1>3, <2>1, RunKnows DEF RowKept, InTry, Unlogged
<1> QED BY <1>4, <1>5, <1>6, <1>7, <1>8 DEF FailNext

(* A restart interrupts exactly the rows whose jobs it drops.              *)
LEMMA RestartStep ==
  ASSUME IInv, Restart
  PROVE  IInv'
<1> USE DEF IInv
<1>1. TypeOK'
  BY TypeStep DEF Next
<1>2. /\ jobs' = {} /\ UNCHANGED <<intake, logged, linked>>
      /\ \A r \in Rows : worker'[r].pc = "idle"
      /\ \A r \in Rows : fate'[r] = IF r \in jobs THEN "interrupted" ELSE fate[r]
  BY RunFields DEF Restart, TypeOK
<1>3. \A p \in Posts : /\ request'[p].n = request[p].n
                        /\ request'[p].pc \in {request[p].pc, "closed"}
                        /\ request'[p].pc # "enqueueing"
  BY DEF Restart, TypeOK
<1>4. \A p \in Posts : RowOf(p)' = RowOf(p) /\ RowOf(p) \in Rows
  <2> SUFFICES ASSUME NEW p \in Posts PROVE RowOf(p)' = RowOf(p)
    BY RowOfType
  <2>1. request'[p].n = request[p].n
    BY <1>3
  <2> QED BY <2>1 DEF RowOf
<1>5. LoggedOncePerRow' /\ DoneIsRecorded' /\ LinksLogged'
  BY <1>2 DEF LoggedOncePerRow, DoneIsRecorded, LinksLogged
<1>6. InsertsFresh' /\ EnqueuesQueued'
  BY <1>2, <1>3 DEF InsertsFresh, EnqueuesQueued
<1>7. JobsAreEnqueued' /\ LogsInOrder'
  BY <1>2 DEF JobsAreEnqueued, LogsInOrder, Unlogged
<1>8. AcceptedIsPending'
  BY <1>2, <1>3, <1>4 DEF AcceptedIsPending
<1>9. RunsInOrder'
  <2>1. \A r \in Rows : intake[r] = "processing" => fate'[r] = "interrupted"
    BY <1>2 DEF RunsInOrder, JobsAreEnqueued, InTry
  <2> QED BY <1>2, <2>1 DEF RunsInOrder
<1> QED BY <1>1, <1>5, <1>6, <1>7, <1>8, <1>9

LEMMA IStep ==
  ASSUME IInv, [Next]_vars
  PROVE  IInv'
<1>1. CASE UNCHANGED vars
  BY <1>1 DEF vars, IInv, TypeOK, LoggedOncePerRow, DoneIsRecorded, AcceptedIsPending,
     InsertsFresh, EnqueuesQueued, JobsAreEnqueued, RunsInOrder, LogsInOrder, LinksLogged, RowOf
<1> QED BY <1>1, SendStep, RequestStep, WorkStep, FailStep, RestartStep DEF Next

(* The inductive invariant holds in every reachable state.                 *)
THEOREM InductiveInvariant == Spec => []IInv
BY IInit, IStep, PTL DEF Spec

(* However often arq delivers the job of an intake row, and wherever a run *)
(* is cut, process_event_intake inserts at most one event for the row.     *)
THEOREM AtMostOnce == Spec => []LoggedOncePerRow
<1>1. IInv => LoggedOncePerRow
  BY DEF IInv
<1> QED BY <1>1, InductiveInvariant, PTL

(* A row in "done" has its event in the log, and its approval linked to an *)
(* event of that call.                                                     *)
THEOREM DoneIsBelievable == Spec => []DoneIsRecorded
<1>1. IInv => DoneIsRecorded
  BY DEF IInv
<1> QED BY <1>1, InductiveInvariant, PTL

(* An event answered 202 is settled, in Redis, or was interrupted.         *)
THEOREM AcceptedIsKept == Spec => []AcceptedIsPending
<1>1. IInv => AcceptedIsPending
  BY DEF IInv
<1> QED BY <1>1, InductiveInvariant, PTL

(* No step of any run, request or restart changes what a row in "error"    *)
(* says, or logs its event.                                                *)
THEOREM ErrorStays == Spec => ErrorIsFinal
<1> DEFINE Final == \A r \in Rows : intake[r] = "error" =>
                      intake'[r] = "error" /\ logged'[r] = logged[r]
<1>1. ASSUME IInv, [Next]_vars PROVE [Final]_vars
  <2> SUFFICES ASSUME NEW r \in Rows, intake[r] = "error"
               PROVE  intake'[r] = "error" /\ logged'[r] = logged[r]
    OBVIOUS
  <2> USE DEF IInv
  <2>1. ASSUME NEW p \in Posts, RequestNext(p)
        PROVE  intake'[r] = "error" /\ logged'[r] = logged[r]
    <3>1. ASSUME NEW answered \in BOOLEAN, Insert(p, answered)
          PROVE  intake'[r] = "error"
      <4>1. intake[RowOf(p)] = "none"
        BY <1>1, <3>1, RowOfType DEF Insert, InsertsFresh, RowOf, TypeOK
      <4> QED BY <1>1, <3>1, <4>1 DEF Insert, TypeOK
    <3>2. \A answered \in BOOLEAN : Insert(p, answered) => logged' = logged
      BY DEF Insert
    <3> QED BY <2>1, <3>1, <3>2 DEF RequestNext, Receive, InsertLost, Enqueue,
             EnqueueUnanswered, RequestFails
  <2>2. ASSUME NEW q \in Rows, WorkNext(q) \/ FailNext(q)
        PROVE  intake'[r] = "error" /\ logged'[r] = logged[r]
    <3>1. CASE q # r
      BY <1>1, <2>2, <3>1, WorkTouchesOneRow DEF OnlyRow
    <3>2. CASE q = r
      <4>1. worker[r].pc \in {"idle", "ending"}
        BY <1>1 DEF RunsInOrder
      <4>2. Start(r) \/ Refuse(r) \/ End(r) \/ Stop(r)
        BY <2>2, <3>2, <4>1 DEF WorkNext, FailNext, Mark, Redact, SelectAgent, CreateAgent,
           InsertEvent, Link, Finish, Raise, RaiseAfter, RecordError, Abandon, Move, InTry
      <4> QED BY <4>2 DEF Start, Take, Refuse, End, Stop
    <3> QED BY <3>1, <3>2
  <2>3. ASSUME NEW e \in Events, SendNext(e)
        PROVE  intake'[r] = "error" /\ logged'[r] = logged[r]
    BY <2>3 DEF SendNext, Post, PostFails
  <2>4. CASE Restart \/ UNCHANGED vars
    BY <2>4 DEF Restart, vars
  <2> QED BY <1>1, <2>1, <2>2, <2>3, <2>4 DEF Next
<1>2. IInv /\ [Next]_vars => [Final]_vars
  BY <1>1
<1> QED BY <1>2, InductiveInvariant, PTL DEF Spec, ErrorIsFinal
=============================================================================

-------------------------- MODULE ApprovalsProofs ---------------------------
(***************************************************************************)
(* Proofs about the approval flow, for any number of calls, decisions and  *)
(* sweeps, and any number of insert attempts.                              *)
(***************************************************************************)
EXTENDS ApprovalsRefinement, TLAPS

USE InsertAttemptsAssumption, MaxPollErrorsAssumption

(* The rows and calls an action names are in their tables.                 *)
LEMMA RowOfType ==
  ASSUME TypeOK, NEW c \in Calls
  PROVE  RowOf(c) \in Rows
BY DEF TypeOK, RowOf, Rows, Handler

(* Components of a record of a table.                                      *)
LEMMA HandlerFields ==
  ASSUME TypeOK, NEW c \in Calls
  PROVE  /\ handler[c] \in Handler
         /\ handler[c].n \in 1..InsertAttempts
         /\ handler[c].n \in Nat
BY DEF TypeOK, Handler

LEMMA CallFields ==
  ASSUME TypeOK, NEW c \in Calls
  PROVE  /\ call[c] \in Call
         /\ call[c].n \in 0..InsertAttempts
         /\ call[c].errors \in 0..MaxPollErrors
BY DEF TypeOK, Call

LEMMA RowFields ==
  ASSUME TypeOK, NEW r \in Rows
  PROVE  /\ rows[r] \in Row
         /\ rows[r].status \in Statuses
         /\ rows[r].by \in SUBSET Deciders
BY DEF TypeOK, Row

LEMMA RetryType ==
  ASSUME TypeOK, NEW c \in Calls, Retry(c)
  PROVE  handler' \in [Calls -> Handler]
<1>1. CASE handler[c].n < InsertAttempts
  BY <1>1, HandlerFields DEF Retry, TypeOK, Handler
<1>2. CASE ~(handler[c].n < InsertAttempts)
  BY <1>2 DEF Retry, TypeOK, Handler
<1> QED BY <1>1, <1>2

-----------------------------------------------------------------------------
(* Type correctness.                                                       *)

LEMMA TypeInit == Init => TypeOK
BY DEF Init, TypeOK, Rows, Row, Statuses, Decisions, Handler, Call, IdleSweep

LEMMA TypeHandler ==
  ASSUME TypeOK, NEW c \in Calls, HandlerNext(c)
  PROVE  TypeOK'
<1>1. CASE Receive(c)
  BY <1>1 DEF Receive, Goto, TypeOK, Handler
<1>2. ASSUME NEW answered \in BOOLEAN, Insert(c, answered) PROVE TypeOK'
  <2>1. rows' \in [Rows -> Row]
    <3>1. [rows[RowOf(c)] EXCEPT !.status = "pending"] \in Row
      BY RowOfType, RowFields DEF Row, Statuses
    <3>2. rows' = [rows EXCEPT ![RowOf(c)] = [rows[RowOf(c)] EXCEPT !.status = "pending"]]
      BY <1>2 DEF Insert
    <3> QED BY <3>1, <3>2, RowOfType DEF TypeOK
  <2>2. handler' \in [Calls -> Handler]
    <3>1. CASE answered
      BY <1>2, <3>1 DEF Insert, TypeOK, Handler
    <3>2. CASE ~answered
      BY <1>2, <3>2, RetryType DEF Insert
    <3> QED BY <3>1, <3>2
  <2> QED BY <1>2, <2>1, <2>2 DEF Insert, TypeOK
<1>3. CASE InsertLost(c)
  BY <1>3, RetryType DEF InsertLost, TypeOK
<1>4. CASE ReadSettings(c)
  BY <1>4 DEF ReadSettings, Goto, TypeOK, Handler
<1>5. CASE PostToSlack(c)
  <2>1. handler' \in [Calls -> Handler]
    BY <1>5 DEF PostToSlack, Goto, TypeOK, Handler
  <2> QED BY <1>5, <2>1, RowOfType DEF PostToSlack, TypeOK
<1>6. CASE RecordMessage(c)
  <2>1. [rows[RowOf(c)] EXCEPT !.posted = TRUE] \in Row
    BY RowOfType, RowFields DEF Row
  <2>2. rows' = [rows EXCEPT ![RowOf(c)] = [rows[RowOf(c)] EXCEPT !.posted = TRUE]]
    BY <1>6 DEF RecordMessage
  <2>3. rows' \in [Rows -> Row]
    BY <2>1, <2>2, RowOfType DEF TypeOK
  <2> QED BY <1>6, <2>3 DEF RecordMessage, Goto, TypeOK, Handler
<1>7. CASE RecordLost(c)
  BY <1>7 DEF RecordLost, Goto, TypeOK, Handler
<1>8. CASE Reply(c)
  BY <1>8, CallFields, HandlerFields DEF Reply, Goto, TypeOK, Handler, Call
<1>9. CASE Expire(c)
  BY <1>9 DEF Expire, TypeOK
<1> QED BY <1>1, <1>2, <1>3, <1>4, <1>5, <1>6, <1>7, <1>8, <1>9 DEF HandlerNext

LEMMA TypeCall ==
  ASSUME TypeOK, NEW c \in Calls, CallNext(c)
  PROVE  TypeOK'
<1>1. CASE Request(c)
  BY <1>1 DEF Request, TypeOK, Call
<1>2. CASE RequestFails(c)
  BY <1>2 DEF RequestFails, TypeOK, Call
<1>3. CASE Poll(c)
  BY <1>3, CallFields DEF Poll, AfterPoll, TypeOK, Call
<1>4. CASE PollFails(c)
  BY <1>4, CallFields DEF PollFails, FailedPoll, TypeOK, Call
<1>5. CASE PollRefused(c)
  BY <1>5 DEF PollRefused, TypeOK, Call
<1>6. CASE Run(c)
  BY <1>6 DEF Run, TypeOK, Call
<1> QED BY <1>1, <1>2, <1>3, <1>4, <1>5, <1>6 DEF CallNext

LEMMA TaskFields ==
  ASSUME TypeOK, NEW d \in Deciders, decider[d].pc \in {"deciding", "notifying", "ignored"}
  PROVE  /\ decider[d] \in Task
         /\ decider[d].row \in Rows
         /\ decider[d].decision \in Decisions
         /\ decider[d].edited \in BOOLEAN
BY DEF TypeOK, Task, IdleDecider

LEMMA AfterConflictType ==
  ASSUME NEW t \in Task
  PROVE  AfterConflict(t) \in {IdleDecider} \cup Task
BY DEF AfterConflict, Task

LEMMA CompareAndSwapType ==
  ASSUME TypeOK, NEW d \in Deciders, NEW t \in Task, NEW after \in {IdleDecider} \cup Task,
         CompareAndSwap(d, t, after)
  PROVE  /\ rows' \in [Rows -> Row]
         /\ decider' \in [Deciders -> {IdleDecider} \cup Task]
         /\ accepted' \subseteq [row : Rows, by : Deciders, decision : Decisions]
<1>1. t.row \in Rows /\ t.decision \in Decisions /\ t.edited \in BOOLEAN
  BY DEF Task
<1>2. CASE rows[t.row].status = "pending"
  <2>1. rows' \in [Rows -> Row]
    BY <1>1, <1>2, RowFields DEF CompareAndSwap, Swap, Miss, TypeOK, Row, Statuses
  <2> QED BY <1>1, <1>2, <2>1 DEF CompareAndSwap, Swap, Miss, TypeOK
<1>3. CASE rows[t.row].status # "pending"
  BY <1>3, AfterConflictType DEF CompareAndSwap, Swap, Miss, TypeOK
<1> QED BY <1>2, <1>3

LEMMA TypeDecider ==
  ASSUME TypeOK, NEW d \in Deciders, DeciderNext(d)
  PROVE  TypeOK'
<1>1. ASSUME NEW r \in Rows, NEW via \in {"api", "slack"}, NEW decision \in Decisions,
             NEW edited \in BOOLEAN, ReadApproval(d, r, via, decision, edited)
      PROVE  TypeOK'
  <2> DEFINE task == [pc |-> "deciding", row |-> r, via |-> via, decision |-> decision,
                      edited |-> edited, posted |-> rows[r].posted]
  <2>1. task \in Task
    BY DEF Task, TypeOK, Row
  <2>2. decider' \in [Deciders -> {IdleDecider} \cup Task]
    <3> HIDE DEF task
    <3>1. decider' = [decider EXCEPT ![d] =
                        IF rows[r].status = "pending" THEN task ELSE AfterConflict(task)]
      BY <1>1 DEF ReadApproval, task
    <3> QED BY <2>1, <3>1, AfterConflictType DEF TypeOK
  <2> QED BY <1>1, <2>2 DEF ReadApproval, TypeOK
<1>2. CASE Decide(d)
  <2> DEFINE t == decider[d]
             after == IF t.posted THEN [t EXCEPT !.pc = "notifying"] ELSE IdleDecider
  <2>1. t \in Task
    BY <1>2, TaskFields DEF Decide
  <2>2. after \in {IdleDecider} \cup Task
    BY <2>1 DEF Task
  <2>3. CompareAndSwap(d, t, after)
    BY <1>2 DEF Decide
  <2> HIDE DEF t, after
  <2> QED BY <1>2, <2>1, <2>2, <2>3, CompareAndSwapType DEF Decide, TypeOK
<1>3. CASE DecideUnanswered(d)
  <2>1. decider[d] \in Task
    BY <1>3, TaskFields DEF DecideUnanswered
  <2>2. CompareAndSwap(d, decider[d], IdleDecider)
    BY <1>3 DEF DecideUnanswered
  <2> QED BY <1>3, <2>1, <2>2, CompareAndSwapType DEF DecideUnanswered, TypeOK
<1>4. CASE Notify(d)
  <2>1. decider[d].row \in Rows /\ decider[d].decision \in Decisions
    BY <1>4, TaskFields DEF Notify
  <2> QED BY <1>4, <2>1 DEF Notify, TypeOK, Decisions
<1> QED BY <1>1, <1>2, <1>3, <1>4 DEF DeciderNext

LEMMA TypeSweep ==
  ASSUME TypeOK, NEW s \in Sweepers, SweepNext(s)
  PROVE  TypeOK'
<1> DEFINE Job == [todo : SUBSET Rows, posted : SUBSET Rows, telling : SUBSET Rows]
<1>1. sweep[s] \in Job
  BY DEF TypeOK
<1>2. CASE SweepSelect(s)
  BY <1>2 DEF SweepSelect, StartSweep, TypeOK
<1>3. CASE SweepDeny(s)
  <2>1. PICK r \in sweep[s].todo :
          /\ rows' = [rows EXCEPT ![r].status = "denied_timeout"]
          /\ sweep' = [sweep EXCEPT ![s] = [todo |-> sweep[s].todo \ {r}, telling |-> {r},
                                            posted |-> sweep[s].posted]]
    BY <1>3 DEF SweepDeny
  <2>2. r \in Rows
    BY <1>1
  <2>3. rows' \in [Rows -> Row]
    <3>1. [rows[r] EXCEPT !.status = "denied_timeout"] \in Row
      BY <2>2, RowFields DEF Row, Statuses
    <3> QED BY <2>1, <2>2, <3>1 DEF TypeOK
  <2>4. sweep' \in [Sweepers -> Job]
    BY <1>1, <2>1, <2>2 DEF TypeOK
  <2> QED BY <1>3, <2>3, <2>4 DEF SweepDeny, TypeOK
<1>4. CASE SweepTell(s)
  <2>2. sweep' \in [Sweepers -> Job]
    BY <1>1, <1>4 DEF SweepTell, TypeOK
  <2>3. msg' \in [Rows -> {"none", "buttons", "approved", "rejected", "timeout"}]
    BY <1>4 DEF SweepTell, TypeOK
  <2> QED BY <1>4, <2>2, <2>3 DEF SweepTell, TypeOK
<1>5. CASE SweepAbort(s)
  BY <1>5 DEF SweepAbort, TypeOK, IdleSweep
<1> QED BY <1>2, <1>3, <1>4, <1>5 DEF SweepNext

LEMMA TypeCrash ==
  ASSUME TypeOK, ApiCrash
  PROVE  TypeOK'
BY DEF TypeOK, ApiCrash, Handler

(* TypeOK holds in every reachable state: in particular a call that polls  *)
(* has a row to poll, and has failed fewer times than the SDK tolerates.   *)
THEOREM TypeCorrect == Spec => []TypeOK
<1>1. TypeOK /\ [Next]_vars => TypeOK'
  <2> SUFFICES ASSUME TypeOK, [Next]_vars PROVE TypeOK'
    OBVIOUS
  <2>1. CASE UNCHANGED vars
    BY <2>1 DEF TypeOK, vars
  <2>2. CASE Next
    BY <2>2, TypeHandler, TypeCall, TypeDecider, TypeSweep, TypeCrash DEF Next
  <2> QED BY <2>1, <2>2
<1> QED BY <1>1, TypeInit, PTL DEF Spec

-----------------------------------------------------------------------------
(* The inductive invariant.                                                *)

LEMMA IInvInit == Init => IInv
<1> SUFFICES ASSUME Init PROVE IInv
  OBVIOUS
<1>1. InsertsFresh
  BY DEF Init, InsertsFresh, Rows
<1>2. SweepsExpired /\ NotifiesLanded
  BY DEF Init, SweepsExpired, NotifiesLanded, IdleSweep, IdleDecider
<1>3. OneDecisionLands /\ StatusExplained /\ RunsOnlyIfApproved /\ SlackTellsTheTruth
  BY DEF Init, OneDecisionLands, StatusExplained, RunsOnlyIfApproved, SlackTellsTheTruth,
         Decisions
<1> QED BY <1>1, <1>2, <1>3, TypeInit DEF IInv

(* Steps of a handler.                                                     *)
LEMMA InsertPreserves ==
  ASSUME IInv, NEW c \in Calls, NEW answered \in BOOLEAN, Insert(c, answered)
  PROVE  IInv'
<1> USE DEF IInv
<1>1. RowOf(c) \in Rows /\ rows[RowOf(c)].status = "none"
  BY RowOfType, HandlerFields DEF Insert, InsertsFresh, RowOf
<1>2. \A r \in Rows : /\ r # RowOf(c) => rows'[r] = rows[r]
                      /\ rows'[r].by = rows[r].by
  BY <1>1 DEF Insert, TypeOK, Row
<1>3. rows'[RowOf(c)].status = "pending"
  BY <1>1 DEF Insert, TypeOK, Row
<1>4. TypeOK'
  BY TypeHandler DEF HandlerNext
<1>5. InsertsFresh'
  <2> SUFFICES ASSUME NEW k \in Calls, handler'[k].pc \in {"idle", "inserting"},
                      NEW n \in handler'[k].n..InsertAttempts
               PROVE  rows'[<<k, n>>].status = "none"
    BY DEF InsertsFresh
  <2>1. CASE k # c
    <3>1. handler'[k] = handler[k] /\ <<k, n>> \in Rows /\ <<k, n>> # RowOf(c)
      BY <2>1, HandlerFields DEF Insert, Retry, TypeOK, Rows, RowOf
    <3> QED BY <1>2, <3>1 DEF InsertsFresh
  <2>2. CASE k = c
    <3>1. handler[c].n < InsertAttempts /\ handler'[c].n = handler[c].n + 1
      BY <2>2, HandlerFields DEF Insert, Retry, TypeOK, Handler
    <3>2. n \in handler[c].n..InsertAttempts /\ <<c, n>> \in Rows /\ <<c, n>> # RowOf(c)
      BY <2>2, <3>1, HandlerFields DEF Rows, RowOf
    <3> QED BY <1>2, <2>2, <3>2 DEF InsertsFresh, Insert
  <2> QED BY <2>1, <2>2
<1>6. SweepsExpired' /\ NotifiesLanded' /\ OneDecisionLands' /\ RunsOnlyIfApproved'
  BY <1>1, <1>2, <1>3 DEF Insert, SweepsExpired, NotifiesLanded, OneDecisionLands,
     RunsOnlyIfApproved, Exists, Polled
<1>7. StatusExplained'
  BY <1>1, <1>2, <1>3 DEF Insert, StatusExplained, Decisions
<1>8. SlackTellsTheTruth'
  BY <1>1, <1>2, <1>3 DEF Insert, SlackTellsTheTruth
<1> QED BY <1>4, <1>5, <1>6, <1>7, <1>8

LEMMA HandlerPreserves ==
  ASSUME IInv, NEW c \in Calls, HandlerNext(c)
  PROVE  IInv'
<1> USE DEF IInv
<1> TypeOK'
  BY TypeHandler
<1>1. ASSUME UNCHANGED <<rows, msg, call, decider, sweep, accepted>>,
             expired \subseteq expired',
             \A k \in Calls : handler'[k].pc \in {"idle", "inserting"} =>
               handler[k].pc \in {"idle", "inserting"} /\ handler'[k].n >= handler[k].n
      PROVE  IInv'
  <2>1. InsertsFresh'
    BY <1>1, HandlerFields DEF InsertsFresh, TypeOK, Handler
  <2>2. OneDecisionLands' /\ RunsOnlyIfApproved' /\ NotifiesLanded'
    BY <1>1 DEF OneDecisionLands, RunsOnlyIfApproved, NotifiesLanded, Polled
  <2>3. StatusExplained' /\ SlackTellsTheTruth' /\ SweepsExpired'
    BY <1>1 DEF StatusExplained, SlackTellsTheTruth, SweepsExpired, Exists
  <2> QED BY <2>1, <2>2, <2>3
<1>2. CASE Receive(c)
  BY <1>1, <1>2, HandlerFields DEF Receive, Goto, TypeOK, Handler
<1>3. CASE \E answered \in BOOLEAN : Insert(c, answered)
  BY <1>3, InsertPreserves
<1>4. CASE InsertLost(c)
  BY <1>1, <1>4, HandlerFields DEF InsertLost, Retry, TypeOK, Handler
<1>5. CASE ReadSettings(c)
  BY <1>1, <1>5, HandlerFields DEF ReadSettings, Goto, TypeOK, Handler
<1>6. CASE RecordLost(c)
  BY <1>1, <1>6, HandlerFields DEF RecordLost, Goto, TypeOK, Handler
<1>7. CASE Expire(c)
  BY <1>1, <1>7, HandlerFields DEF Expire
<1>8. CASE PostToSlack(c)
  <2>1. CASE msg' = msg
    BY <1>1, <1>8, <2>1, HandlerFields DEF PostToSlack, Goto, TypeOK, Handler
  <2>2. CASE msg' = [msg EXCEPT ![RowOf(c)] = "buttons"]
    <3>1. InsertsFresh'
      BY <1>8, HandlerFields DEF PostToSlack, Goto, InsertsFresh, TypeOK, Handler
    <3>2. SlackTellsTheTruth'
      BY <1>8, <2>2, RowOfType DEF PostToSlack, SlackTellsTheTruth, TypeOK, Decisions
    <3>3. UNCHANGED <<rows, expired, call, decider, sweep, accepted>>
      BY <1>8 DEF PostToSlack
    <3>4. OneDecisionLands' /\ RunsOnlyIfApproved' /\ NotifiesLanded'
      BY <3>3 DEF OneDecisionLands, RunsOnlyIfApproved, NotifiesLanded, Polled
    <3>5. StatusExplained' /\ SweepsExpired'
      BY <3>3 DEF StatusExplained, SweepsExpired, Exists
    <3> QED BY <3>1, <3>2, <3>4, <3>5
  <2> QED BY <1>8, <2>1, <2>2 DEF PostToSlack
<1>9. CASE RecordMessage(c)
  <2>1. \A r \in Rows : rows'[r].status = rows[r].status /\ rows'[r].by = rows[r].by
    BY <1>9, RowOfType, RowFields DEF RecordMessage, TypeOK, Row
  <2>2. InsertsFresh'
    <3> SUFFICES ASSUME NEW k \in Calls, handler'[k].pc \in {"idle", "inserting"},
                        NEW n \in handler'[k].n..InsertAttempts
                 PROVE  rows'[<<k, n>>].status = "none"
      BY DEF InsertsFresh
    <3>1. k # c /\ handler'[k] = handler[k]
      BY <1>9 DEF RecordMessage, Goto, TypeOK, Handler
    <3>2. <<k, n>> \in Rows
      BY <3>1, HandlerFields DEF Rows
    <3> QED BY <2>1, <3>1, <3>2 DEF InsertsFresh
  <2>3. OneDecisionLands' /\ RunsOnlyIfApproved' /\ NotifiesLanded'
    BY <1>9 DEF RecordMessage, OneDecisionLands, RunsOnlyIfApproved, NotifiesLanded, Polled
  <2>4. StatusExplained' /\ SlackTellsTheTruth' /\ SweepsExpired'
    BY <1>9, <2>1 DEF RecordMessage, StatusExplained, SlackTellsTheTruth, SweepsExpired, Exists
  <2> QED BY <2>2, <2>3, <2>4
<1>10. CASE Reply(c)
  <2>1. InsertsFresh'
    BY <1>10, HandlerFields DEF Reply, Goto, InsertsFresh, TypeOK, Handler
  <2>2. RunsOnlyIfApproved'
    BY <1>10 DEF Reply, RunsOnlyIfApproved, Polled, TypeOK, Call
  <2>3. OneDecisionLands' /\ NotifiesLanded' /\ StatusExplained' /\ SlackTellsTheTruth'
    BY <1>10 DEF Reply, OneDecisionLands, NotifiesLanded, StatusExplained, SlackTellsTheTruth
  <2>4. SweepsExpired'
    BY <1>10 DEF Reply, SweepsExpired, Exists
  <2> QED BY <2>1, <2>2, <2>3, <2>4
<1> QED BY <1>2, <1>3, <1>4, <1>5, <1>6, <1>7, <1>8, <1>9, <1>10 DEF HandlerNext

(* Steps of the SDK.                                                       *)
LEMMA CallPreserves ==
  ASSUME IInv, NEW c \in Calls, CallNext(c)
  PROVE  IInv'
<1> USE DEF IInv
<1>1. TypeOK'
  BY TypeCall
<1>2. UNCHANGED <<rows, expired, msg, handler, decider, sweep, accepted>>
  BY DEF CallNext, Request, RequestFails, Poll, PollFails, FailedPoll, PollRefused, Run
<1>3. InsertsFresh' /\ SweepsExpired' /\ NotifiesLanded'
  BY <1>2 DEF InsertsFresh, SweepsExpired, NotifiesLanded, Exists
<1>4. OneDecisionLands' /\ StatusExplained' /\ SlackTellsTheTruth'
  BY <1>2 DEF OneDecisionLands, StatusExplained, SlackTellsTheTruth
<1>5. RunsOnlyIfApproved'
  <2>1. ASSUME call'[c].pc \in {"running", "ran"} => call[c].pc \in {"running", "ran"}
                                                     /\ call'[c].n = call[c].n,
               \A k \in Calls : k # c => call'[k] = call[k]
        PROVE  RunsOnlyIfApproved'
    BY <1>2, <2>1 DEF RunsOnlyIfApproved, Polled
  <2>2. CASE Request(c)
    BY <2>1, <2>2, CallFields DEF Request, TypeOK, Call
  <2>3. CASE RequestFails(c)
    BY <2>1, <2>3, CallFields DEF RequestFails, TypeOK, Call
  <2>4. CASE Poll(c)
    <3>1. Polled(c) \in Rows
      BY <2>4, CallFields DEF Poll, Polled, Rows, TypeOK
    <3>2. /\ call'[c].n = call[c].n
          /\ call'[c].pc \in {"running", "ran"} => rows[Polled(c)].status = "approved"
          /\ \A k \in Calls : k # c => call'[k] = call[k]
      BY <2>4, CallFields DEF Poll, AfterPoll, TypeOK, Call
    <3>3. call'[c].pc \in {"running", "ran"} =>
            \E x \in accepted : x.row = Polled(c) /\ x.decision = "approved"
      BY <3>1, <3>2 DEF StatusExplained, Decisions
    <3> QED BY <1>2, <3>2, <3>3 DEF RunsOnlyIfApproved, Polled
  <2>5. CASE PollFails(c)
    BY <2>1, <2>5, CallFields DEF PollFails, FailedPoll, TypeOK, Call
  <2>6. CASE PollRefused(c)
    BY <2>1, <2>6, CallFields DEF PollRefused, TypeOK, Call
  <2>7. CASE Run(c)
    BY <2>1, <2>7, CallFields DEF Run, TypeOK, Call
  <2> QED BY <2>2, <2>3, <2>4, <2>5, <2>6, <2>7 DEF CallNext
<1> QED BY <1>1, <1>3, <1>4, <1>5

(* Steps of a decision: the compare-and-swap on a pending row.             *)
LEMMA SwapPreserves ==
  ASSUME IInv, NEW d \in Deciders, decider[d].pc = "deciding",
         rows[decider[d].row].status = "pending",
         NEW after \in {IdleDecider} \cup Task, CompareAndSwap(d, decider[d], after),
         after.pc = "notifying" => /\ after.row = decider[d].row
                                   /\ after.decision = decider[d].decision,
         UNCHANGED <<expired, msg, handler, call, sweep>>,
         TypeOK'
  PROVE  IInv'
<1> USE DEF IInv
<1> DEFINE t == decider[d]
           x == [row |-> t.row, by |-> d, decision |-> t.decision]
<1>1. t.row \in Rows /\ t.decision \in Decisions
  BY TaskFields
<1>2. accepted' = accepted \cup {x} /\ decider' = [decider EXCEPT ![d] = after]
  BY DEF CompareAndSwap, Swap, Miss
<1>3. /\ rows'[t.row].status = t.decision
      /\ rows'[t.row].by = {d}
      /\ \A r \in Rows : r # t.row => rows'[r] = rows[r]
  BY <1>1 DEF CompareAndSwap, Swap, Miss, TypeOK
<1>4. \A y \in accepted : y.row # t.row
  BY <1>1 DEF StatusExplained
<1> HIDE DEF t
<1>5. OneDecisionLands'
  BY <1>2, <1>4 DEF OneDecisionLands
<1>6. StatusExplained'
  <2> SUFFICES ASSUME NEW r \in Rows
               PROVE  /\ rows'[r].status \in Decisions =>
                           \E y \in accepted' : y.row = r /\ y.decision = rows'[r].status
                      /\ rows'[r].status = "denied_timeout" => r[1] \in expired'
                      /\ rows'[r].status \in {"none", "pending"} =>
                           \A y \in accepted' : y.row # r
                      /\ \A y \in accepted' : y.row = r => rows'[r].by = {y.by}
    BY DEF StatusExplained
  <2>1. CASE r = t.row
    <3>1. x \in accepted' /\ x.row = r /\ x.decision = rows'[r].status /\ x.by = d
      BY <1>2, <1>3, <2>1
    <3>2. \A y \in accepted' : y.row = r => y = x
      BY <1>2, <1>4, <2>1
    <3>3. rows'[r].status \in Decisions /\ rows'[r].by = {d}
      BY <1>1, <1>3, <2>1
    <3> HIDE DEF x
    <3> QED BY <3>1, <3>2, <3>3 DEF Decisions
  <2>2. CASE r # t.row
    BY <1>2, <1>3, <2>2 DEF StatusExplained
  <2> QED BY <2>1, <2>2
<1>7. RunsOnlyIfApproved'
  BY <1>2 DEF RunsOnlyIfApproved, Polled
<1>8. SlackTellsTheTruth'
  <2>1. msg[t.row] # "timeout"
    BY <1>1 DEF SlackTellsTheTruth, t
  <2> QED BY <1>1, <1>2, <1>3, <2>1 DEF SlackTellsTheTruth
<1>9. InsertsFresh'
  BY <1>1, <1>3, HandlerFields DEF InsertsFresh, Rows, t
<1>10. SweepsExpired'
  BY <1>1, <1>3 DEF SweepsExpired, Exists, Decisions, t
<1>11. NotifiesLanded'
  <2> SUFFICES ASSUME NEW e \in Deciders, decider'[e].pc = "notifying"
               PROVE  \E y \in accepted' : /\ y.row = decider'[e].row
                                          /\ y.decision = decider'[e].decision
    BY DEF NotifiesLanded
  <2>1. CASE e = d
    <3>1. decider'[e] = after
      BY <1>2, <2>1 DEF TypeOK
    <3>2. x \in accepted' /\ x.row = after.row /\ x.decision = after.decision
      BY <1>2, <3>1 DEF t
    <3> QED BY <3>1, <3>2
  <2>2. CASE e # d
    BY <1>2, <2>2 DEF NotifiesLanded, TypeOK
  <2> QED BY <2>1, <2>2
<1> QED BY <1>5, <1>6, <1>7, <1>8, <1>9, <1>10, <1>11

LEMMA DeciderPreserves ==
  ASSUME IInv, NEW d \in Deciders, DeciderNext(d)
  PROVE  IInv'
<1> USE DEF IInv
<1> TypeOK'
  BY TypeDecider
<1>1. ASSUME UNCHANGED <<rows, expired, msg, handler, call, sweep, accepted>>,
             \A e \in Deciders : decider'[e].pc = "notifying" => decider'[e] = decider[e]
      PROVE  IInv'
  <2>1. InsertsFresh' /\ SweepsExpired' /\ OneDecisionLands' /\ StatusExplained'
    BY <1>1 DEF InsertsFresh, SweepsExpired, OneDecisionLands, StatusExplained, Exists
  <2>2. RunsOnlyIfApproved' /\ SlackTellsTheTruth'
    BY <1>1 DEF RunsOnlyIfApproved, SlackTellsTheTruth, Polled
  <2>3. NotifiesLanded'
    BY <1>1 DEF NotifiesLanded
  <2> QED BY <2>1, <2>2, <2>3
<1>2. ASSUME NEW r \in Rows, NEW via \in {"api", "slack"}, NEW decision \in Decisions,
             NEW edited \in BOOLEAN, ReadApproval(d, r, via, decision, edited)
      PROVE  IInv'
  BY <1>1, <1>2 DEF ReadApproval, AfterConflict, IdleDecider, TypeOK
<1>3. ASSUME decider[d].pc = "deciding", rows[decider[d].row].status # "pending",
             NEW after \in {IdleDecider} \cup Task, CompareAndSwap(d, decider[d], after),
             UNCHANGED <<expired, msg, handler, call, sweep>>
      PROVE  IInv'
  BY <1>1, <1>3, TaskFields DEF CompareAndSwap, Swap, Miss, AfterConflict, IdleDecider, TypeOK, Task
<1>4. CASE Decide(d)
  <2> DEFINE t == decider[d]
             after == IF t.posted THEN [t EXCEPT !.pc = "notifying"] ELSE IdleDecider
  <2>1. t \in Task /\ t.pc = "deciding"
    BY <1>4, TaskFields DEF Decide
  <2>2. after \in {IdleDecider} \cup Task
    BY <2>1 DEF Task
  <2>3. after.pc = "notifying" => after.row = t.row /\ after.decision = t.decision
    BY <2>1 DEF Task, IdleDecider
  <2>4. CompareAndSwap(d, t, after) /\ UNCHANGED <<expired, msg, handler, call, sweep>>
    BY <1>4 DEF Decide
  <2> HIDE DEF after
  <2> QED BY <1>3, <2>1, <2>2, <2>3, <2>4, SwapPreserves
<1>5. CASE DecideUnanswered(d)
  BY <1>5, SwapPreserves DEF DecideUnanswered, IdleDecider
<1>6. CASE Notify(d)
  <2>1. /\ decider[d].row \in Rows
        /\ decider[d].decision \in Decisions
        /\ \E x \in accepted : x.row = decider[d].row /\ x.decision = decider[d].decision
    BY <1>6, TaskFields DEF Notify, NotifiesLanded
  <2>2. SlackTellsTheTruth'
    BY <1>6, <2>1 DEF Notify, SlackTellsTheTruth, TypeOK, Decisions
  <2>3. NotifiesLanded'
    BY <1>6 DEF Notify, NotifiesLanded, IdleDecider, TypeOK
  <2>4. InsertsFresh' /\ SweepsExpired' /\ OneDecisionLands' /\ StatusExplained'
    BY <1>6 DEF Notify, InsertsFresh, SweepsExpired, OneDecisionLands, StatusExplained, Exists
  <2>5. RunsOnlyIfApproved'
    BY <1>6 DEF Notify, RunsOnlyIfApproved, Polled
  <2> QED BY <2>2, <2>3, <2>4, <2>5
<1> QED BY <1>2, <1>4, <1>5, <1>6 DEF DeciderNext

(* Steps of the sweep. Denying an expired row that exists, whatever its    *)
(* status: a decision that landed on it stays in the history.              *)
LEMMA SweepPreserves ==
  ASSUME IInv, NEW s \in Sweepers, SweepNext(s)
  PROVE  IInv'
<1> USE DEF IInv
<1>1. TypeOK'
  BY TypeSweep
<1>2. UNCHANGED <<expired, handler, call, decider, accepted>>
  BY DEF SweepNext, SweepSelect, StartSweep, SweepDeny, SweepTell, SweepAbort
<1>3. OneDecisionLands' /\ NotifiesLanded'
  BY <1>2 DEF OneDecisionLands, NotifiesLanded
<1>4. RunsOnlyIfApproved'
  BY <1>2 DEF RunsOnlyIfApproved, Polled
<1>5. sweep[s].todo \subseteq Rows /\ sweep[s].telling \subseteq Rows
  BY DEF TypeOK
<1>6. ASSUME UNCHANGED rows, UNCHANGED msg, SweepsExpired'
      PROVE  IInv'
  <2>1. StatusExplained' /\ SlackTellsTheTruth' /\ InsertsFresh'
    BY <1>2, <1>6 DEF StatusExplained, SlackTellsTheTruth, InsertsFresh
  <2> QED BY <1>1, <1>3, <1>4, <1>6, <2>1
<1>7. CASE SweepSelect(s)
  BY <1>6, <1>7 DEF SweepSelect, StartSweep, SweepsExpired, Exists, TypeOK
<1>8. CASE SweepDeny(s)
  <2>1. PICK r \in sweep[s].todo :
          /\ rows' = [rows EXCEPT ![r].status = "denied_timeout"]
          /\ sweep' = [sweep EXCEPT ![s] = [todo |-> sweep[s].todo \ {r}, telling |-> {r},
                                            posted |-> sweep[s].posted]]
    BY <1>8 DEF SweepDeny
  <2>2. r \in Rows /\ r[1] \in expired /\ Exists(r)
    BY <1>5 DEF SweepsExpired
  <2>3. /\ rows'[r].status = "denied_timeout" /\ rows'[r].by = rows[r].by
        /\ \A q \in Rows : q # r => rows'[q] = rows[q]
    BY <2>1, <2>2, RowFields DEF TypeOK, Row
  <2>4. msg' = msg
    BY <1>8 DEF SweepDeny
  <2>5. StatusExplained'
    BY <1>2, <2>2, <2>3 DEF StatusExplained, Decisions
  <2>6. SlackTellsTheTruth'
    BY <1>2, <2>2, <2>3, <2>4 DEF SlackTellsTheTruth
  <2>7. InsertsFresh'
    BY <1>2, <2>2, <2>3, HandlerFields DEF InsertsFresh, Rows, Exists
  <2>8. SweepsExpired'
    <3>1. \A k \in Sweepers : /\ sweep'[k].todo \subseteq sweep[k].todo
                              /\ sweep'[k].telling \subseteq sweep[k].telling \cup {r}
      BY <2>1 DEF TypeOK
    <3>2. \A q \in Rows : /\ Exists(q) => rows'[q].status # "none"
                          /\ rows[q].status = "denied_timeout" =>
                               rows'[q].status = "denied_timeout"
      BY <2>3 DEF Exists
    <3> QED BY <1>2, <2>2, <2>3, <3>1, <3>2 DEF SweepsExpired, Exists
  <2> QED BY <1>1, <1>3, <1>4, <2>5, <2>6, <2>7, <2>8
<1>9. CASE SweepTell(s)
  <2>1. /\ rows' = rows
        /\ \A r \in Rows : \/ msg'[r] = msg[r]
                           \/ msg'[r] = "timeout" /\ r \in sweep[s].telling
    BY <1>9 DEF SweepTell
  <2>2. SlackTellsTheTruth'
    BY <1>2, <2>1 DEF SlackTellsTheTruth, SweepsExpired, Decisions
  <2>3. StatusExplained' /\ InsertsFresh'
    BY <1>2, <2>1 DEF StatusExplained, InsertsFresh
  <2>4. SweepsExpired'
    BY <1>2, <1>9, <2>1 DEF SweepTell, SweepsExpired, Exists, TypeOK
  <2> QED BY <1>1, <1>3, <1>4, <2>2, <2>3, <2>4
<1>10. CASE SweepAbort(s)
  BY <1>6, <1>10 DEF SweepAbort, SweepsExpired, Exists, IdleSweep, TypeOK
<1> QED BY <1>7, <1>8, <1>9, <1>10 DEF SweepNext

LEMMA CrashPreserves ==
  ASSUME IInv, ApiCrash
  PROVE  IInv'
<1> USE DEF IInv
<1>1. UNCHANGED <<rows, expired, msg, call, sweep, accepted>>
  BY DEF ApiCrash
<1>2. InsertsFresh'
  <2>1. \A c \in Calls : handler'[c].pc \in {"idle", "inserting"} => handler'[c] = handler[c]
    BY HandlerFields DEF ApiCrash, Handler
  <2> QED BY <1>1, <2>1 DEF InsertsFresh
<1>3. NotifiesLanded'
  BY DEF ApiCrash, NotifiesLanded, IdleDecider
<1>4. OneDecisionLands' /\ StatusExplained' /\ SlackTellsTheTruth' /\ SweepsExpired'
  BY <1>1 DEF OneDecisionLands, StatusExplained, SlackTellsTheTruth, SweepsExpired, Exists
<1>5. RunsOnlyIfApproved'
  BY <1>1 DEF RunsOnlyIfApproved, Polled
<1> QED BY <1>2, <1>3, <1>4, <1>5, TypeCrash

LEMMA IInvStep == IInv /\ [Next]_vars => IInv'
<1> SUFFICES ASSUME IInv, [Next]_vars PROVE IInv'
  OBVIOUS
<1>1. CASE UNCHANGED vars
  <2>1. TypeOK' /\ OneDecisionLands' /\ StatusExplained' /\ SlackTellsTheTruth'
    BY <1>1 DEF IInv, vars, TypeOK, OneDecisionLands, StatusExplained, SlackTellsTheTruth
  <2>2. RunsOnlyIfApproved' /\ InsertsFresh' /\ SweepsExpired' /\ NotifiesLanded'
    BY <1>1 DEF IInv, vars, RunsOnlyIfApproved, InsertsFresh, SweepsExpired, NotifiesLanded,
       Exists, Polled
  <2> QED BY <2>1, <2>2 DEF IInv
<1>2. CASE Next
  BY <1>2, HandlerPreserves, CallPreserves, DeciderPreserves, SweepPreserves, CrashPreserves
     DEF Next
<1> QED BY <1>1, <1>2

THEOREM InductiveInvariant == Spec => []IInv
BY IInvInit, IInvStep, PTL DEF Spec

(* However many decisions race for a row, one of them lands.               *)
THEOREM OneWinner == Spec => []OneDecisionLands
<1>1. IInv => OneDecisionLands
  BY DEF IInv
<1> QED BY <1>1, InductiveInvariant, PTL

(* A row says approved or rejected only by the decision that landed on it. *)
THEOREM StatusIsExplained == Spec => []StatusExplained
<1>1. IInv => StatusExplained
  BY DEF IInv
<1> QED BY <1>1, InductiveInvariant, PTL

(* The gate itself: no call runs unless a human approved its own row.      *)
THEOREM NoRunWithoutApproval == Spec => []RunsOnlyIfApproved
<1>1. IInv => RunsOnlyIfApproved
  BY DEF IInv
<1> QED BY <1>1, InductiveInvariant, PTL

(* Slack announces only decisions and denials that happened.               *)
THEOREM SlackIsTruthful == Spec => []SlackTellsTheTruth
<1>1. IInv => SlackTellsTheTruth
  BY DEF IInv
<1> QED BY <1>1, InductiveInvariant, PTL

-----------------------------------------------------------------------------
(* How a step may change the status of a row.                              *)

LEMMA StatusStep ==
  ASSUME IInv, [Next]_vars, NEW r \in Rows
  PROVE  \/ /\ rows'[r].status = rows[r].status
            /\ \A x \in accepted' : x.row = r => x \in accepted
         \/ /\ rows[r].status = "none" /\ rows'[r].status = "pending"
            /\ accepted' = accepted
         \/ /\ rows[r].status = "pending"
            /\ \E x \in accepted' : x.row = r /\ x.decision = rows'[r].status
         \/ /\ rows'[r].status = "denied_timeout" /\ rows[r].status # "none"
            /\ accepted' = accepted
<1> USE DEF IInv
<1>1. CASE UNCHANGED <<rows, accepted>>
  BY <1>1
<1>2. ASSUME NEW c \in Calls, NEW answered \in BOOLEAN, Insert(c, answered)
      PROVE  \/ rows'[r].status = rows[r].status /\ accepted' = accepted
             \/ /\ rows[r].status = "none" /\ rows'[r].status = "pending"
                /\ accepted' = accepted
  <2>1. RowOf(c) \in Rows /\ rows[RowOf(c)].status = "none"
    BY <1>2, RowOfType, HandlerFields DEF Insert, InsertsFresh, RowOf
  <2> QED BY <1>2, <2>1 DEF Insert, TypeOK, Row
<1>3. ASSUME NEW c \in Calls, RecordMessage(c)
      PROVE  rows'[r].status = rows[r].status /\ accepted' = accepted
  BY <1>3, RowOfType DEF RecordMessage, TypeOK, Row
<1>4. ASSUME NEW d \in Deciders, decider[d].pc = "deciding", NEW after,
             CompareAndSwap(d, decider[d], after)
      PROVE  \/ /\ rows'[r].status = rows[r].status
                /\ \A x \in accepted' : x.row = r => x \in accepted
             \/ /\ rows[r].status = "pending"
                /\ \E x \in accepted' : x.row = r /\ x.decision = rows'[r].status
  <2> DEFINE t == decider[d]
             x == [row |-> t.row, by |-> d, decision |-> t.decision]
  <2>1. CASE rows[t.row].status # "pending"
    BY <1>4, <2>1 DEF CompareAndSwap, Swap, Miss
  <2>2. CASE rows[t.row].status = "pending" /\ t.row # r
    BY <1>4, <2>2, TaskFields DEF CompareAndSwap, Swap, Miss, TypeOK
  <2>3. CASE rows[t.row].status = "pending" /\ t.row = r
    <3>1. x \in accepted' /\ x.row = r /\ x.decision = rows'[r].status
      BY <1>4, <2>3, TaskFields DEF CompareAndSwap, Swap, Miss, TypeOK
    <3> QED BY <2>3, <3>1
  <2> QED BY <2>1, <2>2, <2>3
<1>5. ASSUME NEW s \in Sweepers, SweepDeny(s)
      PROVE  \/ rows'[r].status = rows[r].status /\ accepted' = accepted
             \/ /\ rows'[r].status = "denied_timeout" /\ rows[r].status # "none"
                /\ accepted' = accepted
  <2>1. PICK q \in sweep[s].todo : rows' = [rows EXCEPT ![q].status = "denied_timeout"]
    BY <1>5 DEF SweepDeny
  <2>2. q \in Rows /\ Exists(q) /\ accepted' = accepted
    BY <1>5 DEF SweepDeny, SweepsExpired, TypeOK
  <2> QED BY <2>1, <2>2 DEF TypeOK, Row, Exists
<1>6. ASSUME NEW c \in Calls, HandlerNext(c),
             ~\E answered \in BOOLEAN : Insert(c, answered), ~RecordMessage(c)
      PROVE  UNCHANGED <<rows, accepted>>
  BY <1>6 DEF HandlerNext, Receive, InsertLost, ReadSettings, PostToSlack, RecordLost, Reply,
     Expire
<1>7. ASSUME NEW c \in Calls, CallNext(c)
      PROVE  UNCHANGED <<rows, accepted>>
  BY <1>7 DEF CallNext, Request, RequestFails, Poll, PollFails, FailedPoll, PollRefused, Run
<1>8. ASSUME NEW d \in Deciders, DeciderNext(d), ~Decide(d), ~DecideUnanswered(d)
      PROVE  UNCHANGED <<rows, accepted>>
  BY <1>8 DEF DeciderNext, ReadApproval, Notify
<1>9. ASSUME NEW s \in Sweepers, SweepNext(s), ~SweepDeny(s)
      PROVE  UNCHANGED <<rows, accepted>>
  BY <1>9 DEF SweepNext, SweepSelect, StartSweep, SweepTell, SweepAbort
<1>10. ASSUME NEW d \in Deciders, Decide(d) \/ DecideUnanswered(d)
       PROVE  decider[d].pc = "deciding" /\ \E after : CompareAndSwap(d, decider[d], after)
  BY <1>10 DEF Decide, DecideUnanswered
<1>11. CASE UNCHANGED vars \/ ApiCrash
  BY <1>1, <1>11 DEF vars, ApiCrash
<1>12. CASE \E c \in Calls : HandlerNext(c) \/ CallNext(c)
  BY <1>1, <1>2, <1>3, <1>6, <1>7, <1>12
<1>13. CASE \E d \in Deciders : DeciderNext(d)
  BY <1>1, <1>4, <1>8, <1>10, <1>13
<1>14. CASE \E s \in Sweepers : SweepNext(s)
  BY <1>1, <1>5, <1>9, <1>14
<1> QED BY <1>11, <1>12, <1>13, <1>14 DEF Next

(* A denial is final: no decision that read "pending" before the denial    *)
(* can turn it into an approval.                                           *)
THEOREM DenialIsFinal == Spec => DeniedStaysDenied
<1>1. IInv /\ [Next]_vars =>
        [\A r \in Rows : rows[r].status \in {"rejected", "denied_timeout"} =>
           rows'[r].status \in {"rejected", "denied_timeout"}]_vars
  <2> SUFFICES ASSUME IInv, [Next]_vars, NEW r \in Rows,
                      rows[r].status \in {"rejected", "denied_timeout"}
               PROVE  rows'[r].status \in {"rejected", "denied_timeout"}
    OBVIOUS
  <2> QED BY StatusStep
<1> QED BY <1>1, InductiveInvariant, PTL DEF Spec, DeniedStaysDenied

-----------------------------------------------------------------------------
(* The approval flow implements ApprovalGate.                              *)

(* The verdict of a row depends on its status and its landed decisions.    *)
LEMMA VerdictFrame ==
  ASSUME NEW r \in Rows, rows'[r].status = rows[r].status,
         \A x : x.row = r => (x \in accepted' <=> x \in accepted)
  PROVE  verdictBar'[r] = verdictBar[r]
<1>1. Landed(r, "approved")' <=> Landed(r, "approved")
  BY DEF Landed
<1>2. Landed(r, "rejected")' <=> Landed(r, "rejected")
  BY DEF Landed
<1> QED BY <1>1, <1>2 DEF verdictBar

(* A step that touches the status or the decisions of one row only, and    *)
(* leaves the calls alone, concludes that row or does nothing to the gate. *)
LEMMA ConcludeStep ==
  ASSUME IInv, IInv', [Next]_vars, NEW r \in Rows, UNCHANGED call,
         accepted \subseteq accepted',
         \A q \in Rows : q # r => /\ rows'[q].status = rows[q].status
                                 /\ \A x : x.row = q => (x \in accepted' <=> x \in accepted)
  PROVE  [Gate!Next]_(Gate!vars)
<1>1. heldBar' = heldBar
  BY DEF heldBar
<1>2. \A q \in Rows : q # r => verdictBar'[q] = verdictBar[q]
  BY VerdictFrame
<1>3. \/ verdictBar'[r] = verdictBar[r]
      \/ /\ verdictBar[r] = "open"
         /\ verdictBar'[r] \in {"granted", "refused", "lapsed"}
  <2>1. CASE /\ rows'[r].status = rows[r].status
             /\ \A x \in accepted' : x.row = r => x \in accepted
    BY <2>1, VerdictFrame
  <2>2. CASE rows[r].status = "none" /\ rows'[r].status = "pending" /\ accepted' = accepted
    BY <2>2 DEF verdictBar, Landed
  <2>3. CASE rows[r].status = "pending"
             /\ \E x \in accepted' : x.row = r /\ x.decision = rows'[r].status
    <3>1. verdictBar[r] = "open"
      BY <2>3 DEF verdictBar, Landed, IInv, StatusExplained
    <3>2. PICK x \in accepted' : x.row = r /\ x.decision = rows'[r].status
      BY <2>3
    <3>3. x.decision \in Decisions
      BY <3>2 DEF IInv, TypeOK
    <3>4. verdictBar'[r] \in {"granted", "refused"}
      BY <3>2, <3>3 DEF verdictBar, Landed, Decisions
    <3> QED BY <3>1, <3>4
  <2>4. CASE rows'[r].status = "denied_timeout" /\ accepted' = accepted
    <3>1. Landed(r, "approved")' <=> Landed(r, "approved")
      BY <2>4 DEF Landed
    <3>2. Landed(r, "rejected")' <=> Landed(r, "rejected")
      BY <2>4 DEF Landed
    <3> QED BY <2>4, <3>1, <3>2 DEF verdictBar
  <2> QED BY <2>1, <2>2, <2>3, <2>4, StatusStep
<1>4. CASE verdictBar'[r] = verdictBar[r]
  <2>1. verdictBar' = verdictBar
    BY <1>2, <1>4 DEF verdictBar
  <2> QED BY <1>1, <2>1 DEF Gate!vars
<1>5. CASE verdictBar[r] = "open" /\ verdictBar'[r] \in {"granted", "refused", "lapsed"}
  <2> DEFINE v == verdictBar'[r]
  <2>1. verdictBar' = [verdictBar EXCEPT ![r] = v]
    BY <1>2 DEF verdictBar
  <2>2. Gate!Conclude(r)
    <3> HIDE DEF v
    <3>1. v \in {"granted", "refused", "lapsed"}
      BY <1>5 DEF v
    <3> QED BY <1>1, <1>5, <2>1, <3>1 DEF Gate!Conclude
  <2> QED BY <2>2 DEF Gate!Next
<1> QED BY <1>3, <1>4, <1>5

(* A step that leaves the rows and the decisions alone and moves one call. *)
LEMMA ReleaseStep ==
  ASSUME IInv, IInv', NEW c \in Calls, UNCHANGED <<rows, accepted>>,
         \A k \in Calls : k # c => call'[k] = call[k],
         \/ heldBar'[c] = heldBar[c]
         \/ heldBar[c] = "held" /\ heldBar'[c] \in {"released", "stopped"}
  PROVE  [Gate!Next]_(Gate!vars)
<1>1. verdictBar' = verdictBar
  BY DEF verdictBar, Landed
<1>2. heldBar' = [heldBar EXCEPT ![c] = heldBar'[c]]
  BY DEF heldBar
<1>3. CASE heldBar'[c] = heldBar[c]
  BY <1>1, <1>2, <1>3 DEF Gate!vars, heldBar
<1>4. CASE heldBar[c] = "held" /\ heldBar'[c] = "released"
  <2>1. call'[c].pc \in {"running", "ran"}
    BY <1>4 DEF heldBar
  <2>2. PICK x \in accepted' : x.row = Polled(c)' /\ x.decision = "approved"
    BY <2>1 DEF IInv, RunsOnlyIfApproved
  <2>3. x.row \in Rows /\ x.row[1] = c
    <3>1. x.row \in Rows
      BY <2>2 DEF IInv, TypeOK
    <3>2. x.row = <<c, call'[c].n>>
      BY <2>2 DEF Polled
    <3> QED BY <3>1, <3>2
  <2>4. verdictBar[x.row] = "granted"
    BY <2>2, <2>3 DEF verdictBar, Landed
  <2>5. Gate!Release(c)
    BY <1>1, <1>2, <1>4, <2>3, <2>4 DEF Gate!Release
  <2> QED BY <2>5 DEF Gate!Next
<1>5. CASE heldBar[c] = "held" /\ heldBar'[c] = "stopped"
  BY <1>1, <1>2, <1>5 DEF Gate!Stop, Gate!Next
<1> QED BY <1>3, <1>4, <1>5

LEMMA GateStep == IInv /\ IInv' /\ [Next]_vars => [Gate!Next]_(Gate!vars)
<1> SUFFICES ASSUME IInv, IInv', [Next]_vars PROVE [Gate!Next]_(Gate!vars)
  OBVIOUS
<1> USE DEF IInv
<1>1. CASE UNCHANGED <<rows, accepted, call>>
  BY <1>1 DEF Gate!vars, verdictBar, heldBar, Landed
<1>2. ASSUME NEW c \in Calls, CallNext(c)
      PROVE  [Gate!Next]_(Gate!vars)
  <2>1. UNCHANGED <<rows, accepted>>
    BY <1>2 DEF CallNext, Request, RequestFails, Poll, PollFails, FailedPoll, PollRefused, Run
  <2>2. \A k \in Calls : k # c => call'[k] = call[k]
    BY <1>2 DEF CallNext, Request, RequestFails, Poll, PollFails, FailedPoll, PollRefused, Run, TypeOK
  <2>3. /\ call[c].pc \in {"idle", "requesting", "waiting", "running"}
        /\ call[c].pc = "running" => call'[c].pc = "ran"
        /\ call'[c].pc \in {"requesting", "waiting", "running", "ran", "denied", "raised"}
    BY <1>2, CallFields DEF CallNext, Request, RequestFails, Poll, AfterPoll, PollFails, FailedPoll,
       PollRefused, Run, TypeOK, Call
  <2>4. \/ heldBar'[c] = heldBar[c]
        \/ heldBar[c] = "held" /\ heldBar'[c] \in {"released", "stopped"}
    BY <2>3 DEF heldBar
  <2> QED BY <2>1, <2>2, <2>4, ReleaseStep
<1>3. ASSUME NEW c \in Calls, HandlerNext(c)
      PROVE  [Gate!Next]_(Gate!vars)
  <2>1. CASE \E answered \in BOOLEAN : Insert(c, answered)
    <3>1. /\ UNCHANGED <<call, accepted>>
          /\ \A q \in Rows : q # RowOf(c) => rows'[q] = rows[q]
      BY <2>1, RowOfType DEF Insert, TypeOK
    <3> QED BY <3>1, RowOfType, ConcludeStep
  <2>2. CASE RecordMessage(c)
    <3>1. /\ UNCHANGED <<call, accepted>>
          /\ \A q \in Rows : q # RowOf(c) => rows'[q] = rows[q]
      BY <2>2, RowOfType DEF RecordMessage, TypeOK
    <3> QED BY <3>1, RowOfType, ConcludeStep
  <2>3. CASE Reply(c)
    <3>1. UNCHANGED <<rows, accepted>> /\ \A k \in Calls : k # c => call'[k] = call[k]
      BY <2>3 DEF Reply, TypeOK
    <3>2. heldBar'[c] = heldBar[c]
      BY <2>3 DEF Reply, heldBar, TypeOK
    <3> QED BY <3>1, <3>2, ReleaseStep
  <2>4. CASE \/ Receive(c) \/ InsertLost(c) \/ ReadSettings(c) \/ PostToSlack(c)
             \/ RecordLost(c) \/ Expire(c)
    BY <1>1, <2>4 DEF Receive, InsertLost, ReadSettings, PostToSlack, RecordLost, Expire
  <2> QED BY <1>3, <2>1, <2>2, <2>3, <2>4 DEF HandlerNext
<1>4. ASSUME NEW d \in Deciders, DeciderNext(d)
      PROVE  [Gate!Next]_(Gate!vars)
  <2>1. ASSUME Decide(d) \/ DecideUnanswered(d)
        PROVE  [Gate!Next]_(Gate!vars)
    <3>1. PICK after : CompareAndSwap(d, decider[d], after)
      BY <2>1 DEF Decide, DecideUnanswered
    <3>2. decider[d].row \in Rows /\ UNCHANGED call
      BY <2>1, TaskFields DEF Decide, DecideUnanswered
    <3>3. /\ accepted \subseteq accepted'
          /\ \A q \in Rows : q # decider[d].row =>
               /\ rows'[q].status = rows[q].status
               /\ \A x : x.row = q => (x \in accepted' <=> x \in accepted)
      BY <3>1, <3>2 DEF CompareAndSwap, Swap, Miss, TypeOK
    <3> QED BY <3>2, <3>3, ConcludeStep
  <2>2. CASE ~(Decide(d) \/ DecideUnanswered(d))
    BY <1>1, <1>4, <2>2 DEF DeciderNext, ReadApproval, Notify
  <2> QED BY <2>1, <2>2
<1>5. ASSUME NEW s \in Sweepers, SweepNext(s)
      PROVE  [Gate!Next]_(Gate!vars)
  <2>1. CASE SweepDeny(s)
    <3>1. PICK q \in sweep[s].todo : rows' = [rows EXCEPT ![q].status = "denied_timeout"]
      BY <2>1 DEF SweepDeny
    <3>2. q \in Rows /\ UNCHANGED <<call, accepted>>
      BY <2>1 DEF SweepDeny, TypeOK
    <3>3. \A p \in Rows : p # q => rows'[p] = rows[p]
      BY <3>1, <3>2 DEF TypeOK
    <3> QED BY <3>2, <3>3, ConcludeStep
  <2>2. CASE ~SweepDeny(s)
    BY <1>1, <1>5, <2>2 DEF SweepNext, SweepSelect, StartSweep, SweepTell, SweepAbort
  <2> QED BY <2>1, <2>2
<1>6. CASE UNCHANGED vars \/ ApiCrash
  BY <1>1, <1>6 DEF vars, ApiCrash
<1> QED BY <1>2, <1>3, <1>4, <1>5, <1>6 DEF Next

(* Every behaviour of the approval flow is one of the gate: each approval  *)
(* gets one verdict for good, and only a granted call is released.         *)
THEOREM Refinement == Spec => ImplementsGate
<1>1. Init => Gate!Init
  BY DEF Init, Gate!Init, verdictBar, heldBar, Landed
<1> QED BY <1>1, GateStep, InductiveInvariant, PTL DEF Spec, ImplementsGate, Gate!Spec

=============================================================================

----------------------------- MODULE Approvals -----------------------------
(***************************************************************************)
(* The human-in-the-loop approval flow: the SDK asks for an approval and   *)
(* polls it (sdk/tracyn/client.py), the API inserts the row, posts it to   *)
(* Slack and takes decisions (routers/approvals.py, routers/slack.py,      *)
(* routers/mcp_data.py, services/approvals_service.py), and the arq worker *)
(* denies what has expired (worker/tasks.py).                              *)
(*                                                                         *)
(* Every database call, Slack call and HTTP exchange is a step of its own, *)
(* because another process may act between any two of them.                *)
(***************************************************************************)
EXTENDS Naturals, FiniteSets

CONSTANTS
  Calls,           \* track()ed calls whose policy requires an approval
  Deciders,        \* decisions in flight: dashboard, MCP or Slack requests
  Sweepers,        \* runs of the sweep cron that may overlap
  InsertAttempts,  \* run_db's `attempts`: how often one insert is tried
  MaxPollErrors    \* MAX_CONSECUTIVE_POLL_ERRORS of the SDK

ASSUME InsertAttemptsAssumption == InsertAttempts \in Nat \ {0}
ASSUME MaxPollErrorsAssumption == MaxPollErrors \in Nat \ {0}

VARIABLES
  rows,      \* the approvals table; an absent row has status "none"
  expired,   \* calls whose rows' expires_at has passed
  msg,       \* what the Slack message of a row shows
  handler,   \* the API's request_approval coroutine of a call
  call,      \* the SDK side of a call
  decider,   \* apply_decision coroutines
  sweep,     \* sweep_expired_approvals jobs
  accepted   \* history: the decisions whose UPDATE matched the row

vars == <<rows, expired, msg, handler, call, decider, sweep, accepted>>

(***************************************************************************)
(* The n-th attempt of the insert of call c creates row <<c, n>>: a retry  *)
(* after a lost response creates a second row for the same call.           *)
(***************************************************************************)
Rows == Calls \X (1..InsertAttempts)

Decisions == {"approved", "rejected"}
Statuses == Decisions \cup {"none", "pending", "denied_timeout"}

Row == [status : Statuses, by : SUBSET Deciders, edited : BOOLEAN, posted : BOOLEAN]

Handler == [pc : {"idle", "inserting", "settings", "posting", "recording",
                  "replying", "failed", "closed"},
            n : 1..InsertAttempts]

(* A call blocks in "requesting" and "waiting"; n is the row it polls.     *)
Call == [pc : {"idle", "requesting", "waiting", "running", "ran", "denied", "raised"},
         n : 0..InsertAttempts,
         errors : 0..MaxPollErrors]

IdleDecider == [pc |-> "idle"]
Task == [pc : {"deciding", "notifying", "ignored"}, row : Rows, via : {"api", "slack"},
         decision : Decisions, edited : BOOLEAN, posted : BOOLEAN]

IdleSweep == [todo |-> {}, posted |-> {}, telling |-> {}]

TypeOK ==
  /\ rows \in [Rows -> Row]
  /\ expired \subseteq Calls
  /\ msg \in [Rows -> {"none", "buttons", "approved", "rejected", "timeout"}]
  /\ handler \in [Calls -> Handler]
  /\ call \in [Calls -> Call]
  /\ \A c \in Calls :
       /\ call[c].pc \in {"waiting", "running", "ran", "denied"} => call[c].n # 0
       /\ call[c].pc = "waiting" => call[c].errors < MaxPollErrors
  /\ decider \in [Deciders -> {IdleDecider} \cup Task]
  /\ sweep \in [Sweepers -> [todo : SUBSET Rows, posted : SUBSET Rows,
                             telling : SUBSET Rows]]
  /\ accepted \subseteq [row : Rows, by : Deciders, decision : Decisions]

Init ==
  /\ rows = [r \in Rows |-> [status |-> "none", by |-> {}, edited |-> FALSE,
                             posted |-> FALSE]]
  /\ expired = {}
  /\ msg = [r \in Rows |-> "none"]
  /\ handler = [c \in Calls |-> [pc |-> "idle", n |-> 1]]
  /\ call = [c \in Calls |-> [pc |-> "idle", n |-> 0, errors |-> 0]]
  /\ decider = [d \in Deciders |-> IdleDecider]
  /\ sweep = [s \in Sweepers |-> IdleSweep]
  /\ accepted = {}

Exists(r) == rows[r].status # "none"
RowOf(c) == <<c, handler[c].n>>
Polled(c) == <<c, call[c].n>>

-----------------------------------------------------------------------------
(* request_approval: insert, read the settings, post to Slack, record ts.  *)

Goto(c, from, to) ==
  /\ handler[c].pc = from
  /\ handler' = [handler EXCEPT ![c].pc = to]

(* The SDK posts the request.                                              *)
Request(c) ==
  /\ call[c].pc = "idle"
  /\ call' = [call EXCEPT ![c].pc = "requesting"]
  /\ UNCHANGED <<rows, expired, msg, handler, decider, sweep, accepted>>

(* The API receives it, perhaps after the SDK has stopped waiting.         *)
Receive(c) ==
  /\ call[c].pc # "idle"
  /\ Goto(c, "idle", "inserting")
  /\ UNCHANGED <<rows, expired, msg, call, decider, sweep, accepted>>

(* run_db after a transport error: the next attempt, or give up.           *)
Retry(c) ==
  handler' = IF handler[c].n < InsertAttempts THEN [handler EXCEPT ![c].n = @ + 1]
                                              ELSE [handler EXCEPT ![c].pc = "failed"]

\* Mutant of Insert: the retry writes the same row again.
InsertUpserts(c, answered) ==
  /\ handler[c].pc = "inserting"
  /\ rows' = [rows EXCEPT ![<<c, 1>>].status = "pending"]
  /\ IF answered THEN handler' = [handler EXCEPT ![c].pc = "settings"] ELSE Retry(c)
  /\ UNCHANGED <<expired, msg, call, decider, sweep, accepted>>

Insert(c, answered) ==
  /\ handler[c].pc = "inserting"
  /\ rows' = [rows EXCEPT ![RowOf(c)].status = "pending"]
  /\ IF answered THEN handler' = [handler EXCEPT ![c].pc = "settings"] ELSE Retry(c)
  /\ UNCHANGED <<expired, msg, call, decider, sweep, accepted>>

InsertLost(c) ==
  /\ handler[c].pc = "inserting"
  /\ Retry(c)
  /\ UNCHANGED <<rows, expired, msg, call, decider, sweep, accepted>>

(* The workspace has a Slack channel, or gets an email, or neither.        *)
ReadSettings(c) ==
  /\ \E next \in {"posting", "replying", "failed"} : Goto(c, "settings", next)
  /\ UNCHANGED <<rows, expired, msg, call, decider, sweep, accepted>>

(* chat_postMessage; without a bot token nothing is posted, and the answer *)
(* may be lost after the message went out.                                 *)
PostToSlack(c) ==
  \/ /\ \E next \in {"recording", "failed"} : Goto(c, "posting", next)
     /\ msg' = [msg EXCEPT ![RowOf(c)] = "buttons"]
     /\ UNCHANGED <<rows, expired, call, decider, sweep, accepted>>
  \/ /\ \E next \in {"replying", "failed"} : Goto(c, "posting", next)
     /\ UNCHANGED <<rows, expired, msg, call, decider, sweep, accepted>>

(* slack_channel and slack_message_ts are stored on the row, by id.        *)
RecordMessage(c) ==
  /\ \E next \in {"replying", "failed"} : Goto(c, "recording", next)
  /\ rows' = [rows EXCEPT ![RowOf(c)].posted = TRUE]
  /\ UNCHANGED <<expired, msg, call, decider, sweep, accepted>>

RecordLost(c) ==
  /\ Goto(c, "recording", "failed")
  /\ UNCHANGED <<rows, expired, msg, call, decider, sweep, accepted>>

Reply(c) ==
  /\ Goto(c, "replying", "closed")
  /\ call' = IF call[c].pc = "requesting"
               THEN [call EXCEPT ![c] = [pc |-> "waiting", n |-> handler[c].n, errors |-> 0]]
               ELSE call
  /\ UNCHANGED <<rows, expired, msg, decider, sweep, accepted>>

(* The window computed by the handler runs out.                            *)
Expire(c) ==
  /\ handler[c].pc # "idle"
  /\ c \notin expired
  /\ expired' = expired \cup {c}
  /\ UNCHANGED <<rows, msg, handler, call, decider, sweep, accepted>>

-----------------------------------------------------------------------------
(* apply_decision, from the dashboard or MCP ("api") or from Slack.        *)

(* The two API routes answer 409 to a late decision; Slack ignores it.     *)
AfterConflict(t) == IF t.via = "slack" THEN [t EXCEPT !.pc = "ignored"] ELSE IdleDecider

(* A Slack click needs the buttons; the Edit modal approves, and may be    *)
(* submitted when the message that opened it has changed.                  *)
SlackMayDecide(r, decision, edited) ==
  IF edited THEN msg[r] # "none" /\ decision = "approved" ELSE msg[r] = "buttons"

(* The SELECT: an approval that is not pending is refused here.            *)
ReadApproval(d, r, via, decision, edited) ==
  LET task == [pc |-> "deciding", row |-> r, via |-> via, decision |-> decision,
               edited |-> edited, posted |-> rows[r].posted]
  IN /\ decider[d].pc \in {"idle", "ignored"}
     /\ Exists(r)
     /\ via = "slack" => SlackMayDecide(r, decision, edited)
     /\ decider' = [decider EXCEPT ![d] =
          IF rows[r].status = "pending" THEN task ELSE AfterConflict(task)]
     /\ UNCHANGED <<rows, expired, msg, handler, call, sweep, accepted>>

Swap(d, t, after) ==
  /\ rows' = [rows EXCEPT ![t.row] = [status |-> t.decision, by |-> {d},
                 edited |-> t.edited, posted |-> rows[t.row].posted]]
  /\ accepted' = accepted \cup {[row |-> t.row, by |-> d, decision |-> t.decision]}
  /\ decider' = [decider EXCEPT ![d] = after]

Miss(d, t) ==
  /\ decider' = [decider EXCEPT ![d] = AfterConflict(t)]
  /\ UNCHANGED <<rows, accepted>>

\* Mutant of CompareAndSwap: check-then-act, no condition on the UPDATE.
SwapAlways(d, t, after) == Swap(d, t, after)

\* Mutant of CompareAndSwap: conditioned on decision_by, which the sweep leaves null.
SwapIfNobodyDecided(d, t, after) ==
  IF rows[t.row].by = {} THEN Swap(d, t, after) ELSE Miss(d, t)

\* Mutant of CompareAndSwap: the empty result of the UPDATE is not looked at.
SwapUnchecked(d, t, after) ==
  IF rows[t.row].status = "pending"
    THEN Swap(d, t, after)
    ELSE decider' = [decider EXCEPT ![d] = after] /\ UNCHANGED <<rows, accepted>>

(* The UPDATE ... WHERE status = 'pending' of apply_decision.              *)
CompareAndSwap(d, t, after) ==
  IF rows[t.row].status = "pending" THEN Swap(d, t, after) ELSE Miss(d, t)

Decide(d) ==
  LET t == decider[d]
  IN /\ t.pc = "deciding"
     /\ CompareAndSwap(d, t, IF t.posted THEN [t EXCEPT !.pc = "notifying"] ELSE IdleDecider)
     /\ UNCHANGED <<expired, msg, handler, call, sweep>>

(* The UPDATE commits but its answer is lost: the handler raises.          *)
DecideUnanswered(d) ==
  LET t == decider[d]
  IN /\ t.pc = "deciding"
     /\ rows[t.row].status = "pending"
     /\ CompareAndSwap(d, t, IdleDecider)
     /\ UNCHANGED <<expired, msg, handler, call, sweep>>

(* update_message_with_decision; it may raise after the row has changed.   *)
Notify(d) ==
  /\ decider[d].pc = "notifying"
  /\ \/ msg' = [msg EXCEPT ![decider[d].row] = decider[d].decision]
     \/ msg' = msg
  /\ decider' = [decider EXCEPT ![d] = IdleDecider]
  /\ UNCHANGED <<rows, expired, handler, call, sweep, accepted>>

(* The API process dies with every coroutine in it.                        *)
ApiCrash ==
  /\ handler' = [c \in Calls |->
       IF handler[c].pc \in {"idle", "closed"} THEN handler[c]
                                               ELSE [handler[c] EXCEPT !.pc = "failed"]]
  /\ decider' = [d \in Deciders |-> IdleDecider]
  /\ UNCHANGED <<rows, expired, msg, call, sweep, accepted>>

-----------------------------------------------------------------------------
(* sweep_expired_approvals.                                                *)

StartSweep(s, due) ==
  /\ sweep[s] = IdleSweep
  /\ due # {}
  /\ sweep' = [sweep EXCEPT ![s] = [todo |-> due, telling |-> {},
                                    posted |-> {r \in due : rows[r].posted}]]
  /\ UNCHANGED <<rows, expired, msg, handler, call, decider, accepted>>

\* Mutant of SweepSelect: no condition on expires_at.
SweepSelectEarly(s) == StartSweep(s, {r \in Rows : rows[r].status = "pending"})

\* Mutant of SweepSelect: only what was posted to Slack.
SweepSelectPosted(s) ==
  StartSweep(s, {r \in Rows : rows[r].status = "pending" /\ r[1] \in expired /\ rows[r].posted})

SweepSelect(s) ==
  StartSweep(s, {r \in Rows : rows[r].status = "pending" /\ r[1] \in expired})

(* The UPDATE names the row by id alone, whatever its status is by now.    *)
SweepDeny(s) ==
  /\ sweep[s].telling = {}
  /\ \E r \in sweep[s].todo :
       /\ rows' = [rows EXCEPT ![r].status = "denied_timeout"]
       /\ sweep' = [sweep EXCEPT ![s] = [todo |-> sweep[s].todo \ {r}, telling |-> {r},
                                         posted |-> sweep[s].posted]]
  /\ UNCHANGED <<expired, msg, handler, call, decider, accepted>>

(* Slack and email of the row just denied.                                 *)
SweepTell(s) ==
  /\ sweep[s].telling # {}
  /\ msg' = [r \in Rows |-> IF r \in sweep[s].telling \cap sweep[s].posted
                              THEN "timeout" ELSE msg[r]]
  /\ sweep' = [sweep EXCEPT ![s] = [todo |-> sweep[s].todo, telling |-> {},
                                    posted |-> sweep[s].posted \cap sweep[s].todo]]
  /\ UNCHANGED <<rows, expired, handler, call, decider, accepted>>

(* A failed database, Slack or email call ends the job, as a crash does.   *)
SweepAbort(s) ==
  /\ sweep[s] # IdleSweep
  /\ sweep' = [sweep EXCEPT ![s] = IdleSweep]
  /\ UNCHANGED <<rows, expired, msg, handler, call, decider, accepted>>

-----------------------------------------------------------------------------
(* The SDK waits for the decision.                                         *)

(* The POST fails, times out or is answered with an error: not retried.    *)
RequestFails(c) ==
  /\ call[c].pc = "requesting"
  /\ call' = [call EXCEPT ![c].pc = "raised"]
  /\ UNCHANGED <<rows, expired, msg, handler, decider, sweep, accepted>>

\* Mutant of AfterPoll: only a rejection stops the call.
AfterPollTimeoutRuns(status) ==
  CASE status = "pending" -> "waiting"
    [] status = "rejected" -> "denied"
    [] OTHER -> "running"

\* Mutant of AfterPoll: the expiry is no answer.
AfterPollOnlyHuman(status) ==
  CASE status = "approved" -> "running"
    [] status = "rejected" -> "denied"
    [] OTHER -> "waiting"

(* A poll is answered; a decision is logged and lets the call run or not.  *)
AfterPoll(status) ==
  CASE status = "pending" -> "waiting"
    [] status = "approved" -> "running"
    [] OTHER -> "denied"

Poll(c) ==
  /\ call[c].pc = "waiting"
  /\ call' = [call EXCEPT ![c] = [pc |-> AfterPoll(rows[Polled(c)].status),
                                 n |-> call[c].n, errors |-> 0]]
  /\ UNCHANGED <<rows, expired, msg, handler, decider, sweep, accepted>>

(* A dropped connection or a 5xx.                                          *)
FailedPoll(c, errors, givesUp) ==
  /\ call[c].pc = "waiting"
  /\ call' = [call EXCEPT ![c] = [pc |-> IF givesUp THEN "raised" ELSE "waiting",
                                 n |-> call[c].n, errors |-> errors]]
  /\ UNCHANGED <<rows, expired, msg, handler, decider, sweep, accepted>>

\* Mutant of PollFails: one error too many.
PollFailsOffByOne(c) ==
  FailedPoll(c, call[c].errors + 1, call[c].errors + 1 > MaxPollErrors)

PollFails(c) ==
  FailedPoll(c, call[c].errors + 1, call[c].errors + 1 >= MaxPollErrors)

(* A 4xx, or the agent's process dies.                                     *)
PollRefused(c) ==
  /\ call[c].pc = "waiting"
  /\ call' = [call EXCEPT ![c].pc = "raised"]
  /\ UNCHANGED <<rows, expired, msg, handler, decider, sweep, accepted>>

Run(c) ==
  /\ call[c].pc = "running"
  /\ call' = [call EXCEPT ![c].pc = "ran"]
  /\ UNCHANGED <<rows, expired, msg, handler, decider, sweep, accepted>>

-----------------------------------------------------------------------------
HandlerNext(c) ==
  \/ Receive(c)
  \/ \E answered \in BOOLEAN : Insert(c, answered)
  \/ InsertLost(c)
  \/ ReadSettings(c)
  \/ PostToSlack(c)
  \/ RecordMessage(c)
  \/ RecordLost(c)
  \/ Reply(c)
  \/ Expire(c)

CallNext(c) ==
  \/ Request(c)
  \/ RequestFails(c)
  \/ Poll(c)
  \/ PollFails(c)
  \/ PollRefused(c)
  \/ Run(c)

DeciderNext(d) ==
  \/ \E r \in Rows, via \in {"api", "slack"}, decision \in Decisions, edited \in BOOLEAN :
       ReadApproval(d, r, via, decision, edited)
  \/ Decide(d)
  \/ DecideUnanswered(d)
  \/ Notify(d)

SweepNext(s) ==
  \/ SweepSelect(s)
  \/ SweepDeny(s)
  \/ SweepTell(s)
  \/ SweepAbort(s)

Next ==
  \/ \E c \in Calls : HandlerNext(c) \/ CallNext(c)
  \/ \E d \in Deciders : DeciderNext(d)
  \/ \E s \in Sweepers : SweepNext(s)
  \/ ApiCrash

(***************************************************************************)
(* The HTTP client's timeout ends a request, the clock reaches expires_at, *)
(* the SDK polls every two seconds, answered or not, and the cron fires    *)
(* every minute. A sweep may fail any number of times, but one that starts *)
(* again and again denies a row at last: strong fairness.                  *)
(***************************************************************************)
Fairness ==
  /\ \A c \in Calls : WF_vars(RequestFails(c)) /\ WF_vars(Expire(c))
                      /\ WF_vars(Poll(c) \/ PollFails(c))
  /\ \A s \in Sweepers : WF_vars(SweepSelect(s)) /\ WF_vars(SweepTell(s))
                         /\ SF_vars(SweepDeny(s))

Spec == Init /\ [][Next]_vars
FairSpec == Spec /\ Fairness

-----------------------------------------------------------------------------
(* Properties.                                                             *)

(* A decision given for a row lands once: of any number of dashboard, MCP  *)
(* and Slack decisions racing in apply_decision, one UPDATE matches.       *)
OneDecisionLands ==
  \A x, y \in accepted : x.row = y.row => x = y

(* A row's status is always explained: approved or rejected only by the    *)
(* decision that landed on it, denied_timeout only once its window is over.*)
(* decision_by keeps naming who decided even after the sweep denied it.    *)
StatusExplained ==
  \A r \in Rows :
    /\ rows[r].status \in Decisions =>
         \E x \in accepted : x.row = r /\ x.decision = rows[r].status
    /\ rows[r].status = "denied_timeout" => r[1] \in expired
    /\ rows[r].status \in {"none", "pending"} => \A x \in accepted : x.row # r
    /\ \A x \in accepted : x.row = r => rows[r].by = {x.by}

(* The wrapped function runs only if a human approved the row that its own *)
(* call polled: not a duplicate row of a retried insert, not another call. *)
RunsOnlyIfApproved ==
  \A c \in Calls : call[c].pc \in {"running", "ran"} =>
    \E x \in accepted : x.row = Polled(c) /\ x.decision = "approved"

(* What a Slack message announces has happened: the updates that           *)
(* apply_decision and the sweep send come after their own UPDATE.          *)
SlackTellsTheTruth ==
  \A r \in Rows :
    /\ msg[r] \in Decisions => \E x \in accepted : x.row = r /\ x.decision = msg[r]
    /\ msg[r] = "timeout" => r[1] \in expired /\ rows[r].status = "denied_timeout"

(* The inductive invariant behind the four properties above: a handler     *)
(* that has yet to insert finds its row absent, the sweep works on expired *)
(* rows and announces only what it denied, and a decision is announced     *)
(* only after it landed.                                                   *)
InsertsFresh ==
  \A c \in Calls : handler[c].pc \in {"idle", "inserting"} =>
    \A n \in handler[c].n..InsertAttempts : rows[<<c, n>>].status = "none"

SweepsExpired ==
  \A s \in Sweepers, r \in Rows :
    /\ r \in sweep[s].todo => r[1] \in expired /\ Exists(r)
    /\ r \in sweep[s].telling => r[1] \in expired /\ rows[r].status = "denied_timeout"

NotifiesLanded ==
  \A d \in Deciders : decider[d].pc = "notifying" =>
    \E x \in accepted : x.row = decider[d].row /\ x.decision = decider[d].decision

IInv ==
  /\ TypeOK
  /\ OneDecisionLands
  /\ StatusExplained
  /\ RunsOnlyIfApproved
  /\ SlackTellsTheTruth
  /\ InsertsFresh
  /\ SweepsExpired
  /\ NotifiesLanded

(* A denied row, by a human or by the sweep, is never approved later: the  *)
(* compare-and-swap of a decision that read "pending" before must miss.    *)
DeniedStaysDenied ==
  [][\A r \in Rows : rows[r].status \in {"rejected", "denied_timeout"} =>
       rows'[r].status \in {"rejected", "denied_timeout"}]_vars

(* No row stays pending for ever, however often the sweep or Slack fails.  *)
PendingIsResolved ==
  \A r \in Rows : (rows[r].status = "pending") ~> (rows[r].status # "pending")

(* A blocked call returns to its caller: the sweep denies what no human    *)
(* decides, and polling that keeps failing gives up.                       *)
CallsReturn ==
  \A c \in Calls : (call[c].pc \in {"requesting", "waiting"})
                     ~> (call[c].pc \notin {"requesting", "waiting"})

-----------------------------------------------------------------------------
(* What the repository says of the program and the code does not do.       *)

(* test_approvals_service.py: "The first decision must stand".             *)
FirstDecisionStands ==
  [][\A r \in Rows : rows[r].status \in Decisions =>
       rows'[r].status = rows[r].status]_vars
=============================================================================

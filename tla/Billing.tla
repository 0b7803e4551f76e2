------------------------------- MODULE Billing --------------------------------
(***************************************************************************)
(* Paid plans: memberships bought and charged for at Whop, and the webhook *)
(* that puts them on file and sets the plan of their workspace             *)
(* (backend/app/routers/billing.py).                                       *)
(*                                                                         *)
(* Whop delivers an event until it is answered, in any order and several   *)
(* at a time. Every call that the webhook makes is a step of its own.      *)
(***************************************************************************)
EXTENDS Naturals, SequencesExt, FiniteSets, QueryCache

CONSTANTS
  Memberships,  \* memberships that may be bought, 1 .. Memberships
  MaxFailures   \* runs of the webhook that fail or are not answered; bounds the runs

ASSUME MembershipsAssumption == Memberships \in Nat
ASSUME MaxFailuresAssumption == MaxFailures \in Nat

VARIABLES
  bought,    \* the plans of the memberships bought so far
  active,    \* the memberships that Whop charges for
  events,    \* events to be delivered, in the order in which Whop made them
  run,       \* the webhook's run for an event, if any
  sub,       \* the row of subscriptions, if any
  plan,      \* workspaces.plan
  spared,    \* history: memberships charged for still when Whop rejected their cancellation
  orderly,   \* history: events were handled one at a time, in order
  failures   \* history: failures so far

vars == <<bought, active, events, run, sub, plan, spared, orderly, failures>>

Paid == {"starter", "pro"}
Ids == 1 .. Memberships

Event == [type : {"activated", "deactivated"}, of : Ids]
Sub == [membership : Ids, active : BOOLEAN]
Run == [pc : {"read", "cancel", "subscription", "plan", "answer"}, onFile : Maybe(Ids)]

(* An event is delivered, and handled, once at a time.                     *)
TypeOK ==
  /\ bought \in Seq(Paid) /\ Len(bought) <= Memberships
  /\ active \subseteq DOMAIN bought
  /\ events \in Seq(Event)
  /\ run \in [Event -> Maybe(Run)]
  /\ sub \in Maybe(Sub)
  /\ plan \in {"free"} \cup Paid
  /\ spared \subseteq DOMAIN bought
  /\ orderly \in BOOLEAN
  /\ failures \in 0 .. MaxFailures
  /\ \A i, j \in DOMAIN events : events[i] = events[j] => i = j
  /\ \A e \in Event : run[e] # {} => \E i \in DOMAIN events : events[i] = e

Init ==
  /\ bought = <<>>
  /\ active = {}
  /\ events = <<>>
  /\ run = [e \in Event |-> {}]
  /\ sub = {}
  /\ plan = "free"
  /\ spared = {}
  /\ orderly = TRUE
  /\ failures = 0

-----------------------------------------------------------------------------
(* Whop.                                                                   *)

(* A checkout for this workspace is paid.                                  *)
Buy(p) ==
  /\ Len(bought) < Memberships
  /\ bought' = Append(bought, p)
  /\ active' = active \cup {Len(bought) + 1}
  /\ events' = Append(events, [type |-> "activated", of |-> Len(bought) + 1])
  /\ UNCHANGED <<run, sub, plan, spared, orderly, failures>>

Deactivate(m) ==
  /\ active' = active \ {m}
  /\ events' = IF m \in active THEN Append(events, [type |-> "deactivated", of |-> m]) ELSE events

(* The customer cancels, or a payment fails.                               *)
Ends(m) ==
  /\ m \in active
  /\ Deactivate(m)
  /\ UNCHANGED <<bought, run, sub, plan, spared, orderly, failures>>

-----------------------------------------------------------------------------
(* The webhook.                                                            *)

At(e, pc) == \E r \in run[e] : r.pc = pc
OnFile(e) == UNION {r.onFile : r \in run[e]}
Goto(e, pc) == run' = [run EXCEPT ![e] = {[pc |-> pc, onFile |-> OnFile(e)]}]

Deliver(i) ==
  /\ i \in DOMAIN events /\ run[events[i]] = {}
  /\ run' = [run EXCEPT ![events[i]] = {[pc |-> "read", onFile |-> {}]}]
  /\ orderly' = (orderly /\ i = 1 /\ \A e \in Event : run[e] = {})
  /\ UNCHANGED <<bought, active, events, sub, plan, spared, failures>>

\* Mutant of AfterRead: a deactivation does not look at what is on file.
AfterReadAlways(e, onFile) ==
  IF e.type = "activated" /\ onFile \notin {{}, {e.of}} THEN "cancel" ELSE "subscription"

(* What to do next, given the membership on file.                          *)
AfterRead(e, onFile) ==
  IF onFile \in {{}, {e.of}} THEN "subscription"
  ELSE IF e.type = "activated" THEN "cancel" ELSE "answer"

(* The membership and its metadata are fetched, then the one on file read. *)
ReadOnFile(e) ==
  /\ At(e, "read")
  /\ LET onFile == {s.membership : s \in sub}
     IN  run' = [run EXCEPT ![e] = {[pc |-> AfterRead(e, onFile), onFile |-> onFile]}]
  /\ UNCHANGED <<bought, active, events, sub, plan, spared, orderly, failures>>

(* The one replaced is cancelled. That Whop rejects this is passed over,   *)
(* whether it is over already or charged for still.                        *)
Cancel(e) ==
  /\ At(e, "cancel")
  /\ \E m \in OnFile(e) :
       \/ Deactivate(m) /\ UNCHANGED spared
       \/ spared' = spared \cup ({m} \cap active) /\ UNCHANGED <<active, events>>
  /\ Goto(e, "subscription")
  /\ UNCHANGED <<bought, sub, plan, orderly, failures>>

WriteSub(e) ==
  /\ At(e, "subscription")
  /\ sub' = {[membership |-> e.of, active |-> e.type = "activated"]}
  /\ Goto(e, "plan")
  /\ UNCHANGED <<bought, active, events, plan, spared, orderly, failures>>

WritePlan(e) ==
  /\ At(e, "plan")
  /\ plan' = IF e.type = "activated" THEN bought[e.of] ELSE "free"
  /\ Goto(e, "answer")
  /\ UNCHANGED <<bought, active, events, sub, spared, orderly, failures>>

\* Mutant of Answer: Whop is not answered.
AnswerNot(e) ==
  /\ At(e, "answer")
  /\ run' = [run EXCEPT ![e] = {}]
  /\ UNCHANGED <<bought, active, events, sub, plan, spared, orderly, failures>>

Answer(e) ==
  /\ At(e, "answer")
  /\ run' = [run EXCEPT ![e] = {}]
  /\ \E i \in DOMAIN events : events[i] = e /\ events' = RemoveAt(events, i)
  /\ UNCHANGED <<bought, active, sub, plan, spared, orderly, failures>>

(* An error, a crash, or an answer that is lost: Whop delivers again.      *)
Fails(e) ==
  /\ run[e] # {} /\ failures < MaxFailures
  /\ failures' = failures + 1
  /\ run' = [run EXCEPT ![e] = {}]
  /\ UNCHANGED <<bought, active, events, sub, plan, spared, orderly>>

Next ==
  \/ \E p \in Paid : Buy(p)
  \/ \E m \in Ids : Ends(m)
  \/ \E i \in DOMAIN events : Deliver(i)
  \/ \E e \in Event : ReadOnFile(e)
  \/ \E e \in Event : Cancel(e)
  \/ \E e \in Event : WriteSub(e)
  \/ \E e \in Event : WritePlan(e)
  \/ \E e \in Event : Answer(e)
  \/ \E e \in Event : Fails(e)

Spec == Init /\ [][Next]_vars

(* Whop delivers what is to be delivered, and a run goes on until its end. *)
Fairness ==
  /\ WF_vars(\E i \in DOMAIN events : Deliver(i))
  /\ \A e \in Event : WF_vars(ReadOnFile(e) \/ Cancel(e) \/ WriteSub(e) \/ WritePlan(e) \/ Answer(e))

FairSpec == Spec /\ Fairness

-----------------------------------------------------------------------------
(* When all that Whop had to say is handled, in order, with failures on    *)
(* the way, the customer pays for no membership but the one on file, whose *)
(* plan the workspace has, or else it has the free plan: only those that   *)
(* Whop would not cancel are paid for besides (billing.py:84-117).         *)
PlanIsPaidFor ==
  orderly /\ events = <<>> =>
    /\ \A m \in active \ spared : /\ active \ spared = {m}
                                /\ plan = bought[m]
                                /\ sub = {[membership |-> m, active |-> TRUE]}
    /\ active \subseteq spared => plan = "free"

(* Whatever the order, two runs are never cancelling one another's         *)
(* membership for ever: all events get their answer (billing.py:61-64).    *)
EventsSettle == <>[](events = <<>>)

(* "a deactivation for a membership that's already been superseded by a    *)
(* newer one is stale and must be a no-op" (billing.py:114-116).           *)
StaleDeactivationIsNoOp ==
  [][\A e \in Event : WriteSub(e) /\ e.type = "deactivated" => \A s \in sub : s.membership <= e.of]_vars
=============================================================================

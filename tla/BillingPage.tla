----------------------------- MODULE BillingPage ------------------------------
(***************************************************************************)
(* The tab Plan and billing and the message that follows a payment         *)
(* (components/dashboard/settings-view.tsx, Billing and PaymentSuccess),   *)
(* while the webhook of module Billing changes the workspace's plan.       *)
(***************************************************************************)
EXTENDS QueryCache

CONSTANT OtherPlans  \* the plans of the customer's other workspaces

VARIABLES
  plan,      \* workspaces.plan
  had,       \* history: the plans that the workspace has had
  page,      \* "billing", "elsewhere", or "away" at Whop
  shown,     \* the query ["workspaces"]: the plan of the workspace
  poll,      \* the query ["workspaces", "billing-poll"]
  success    \* the plan of the message Payment successful, if it is shown

vars == <<plan, had, page, shown, poll, success>>

Plans == {"free", "starter", "pro", "enterprise"}
Paid == {"starter", "pro"}

TypeOK ==
  /\ plan \in Plans
  /\ had \subseteq Plans
  /\ page \in {"billing", "elsewhere", "away"}
  /\ shown \in Entry(Plans) /\ poll \in Entry(Plans)
  /\ success \in Maybe(Paid)
  /\ UNION {shown.data, shown.got, poll.data, poll.got} \subseteq had

Init ==
  /\ plan = "free"
  /\ had = {"free"}
  /\ page = "elsewhere"
  /\ shown = Send(NoEntry)
  /\ poll = NoEntry
  /\ success = {}

Confirmed == success # {} /\ shown.data = success

\* Mutant of SaysActive: any plan that was polled will do.
SaysActiveAny == success # {} /\ (Confirmed \/ poll.data # {})

(* "You're on the plan now": this workspace, or another, was seen on it.   *)
SaysActive == Confirmed \/ \E p \in success : poll.data = {p} \/ (poll.data # {} /\ p \in OtherPlans)

OpenTab(aged) ==
  /\ page = "elsewhere"
  /\ page' = "billing"
  /\ shown' = Mount(shown, aged)
  /\ UNCHANGED <<plan, had, poll, success>>

LeaveTab ==
  /\ page = "billing"
  /\ page' = "elsewhere"
  /\ success' = {}
  /\ UNCHANGED <<plan, had, shown, poll>>

(* Upgrade, or Continue to checkout: of a plan other than the one shown.   *)
Checkout(p) ==
  /\ page = "billing" /\ shown.data # {} /\ shown.data # {p}
  /\ page' = "away"
  /\ success' = {}
  /\ UNCHANGED <<plan, had, shown, poll>>

(* Back from Whop the dashboard is loaded anew, whether paid for p or not. *)
Load == shown' = Send(NoEntry) /\ poll' = NoEntry

Return(p) ==
  /\ page = "away"
  /\ page' = "billing"
  /\ success' = {p}
  /\ Load
  /\ UNCHANGED <<plan, had>>

Abandon ==
  /\ page = "away"
  /\ page' = "billing"
  /\ success' = {}
  /\ Load
  /\ UNCHANGED <<plan, had>>

Dismiss ==
  /\ success # {}
  /\ success' = {}
  /\ UNCHANGED <<plan, had, page, shown, poll>>

(* Every 2 s, until the workspace of the page is on the plan.              *)
Poll ==
  /\ success # {} /\ ~Confirmed /\ poll.flight = "none"
  /\ poll' = Send(poll)
  /\ UNCHANGED <<plan, had, page, shown, success>>

ReadPoll ==
  /\ poll.flight = "sent"
  /\ poll' = Read(poll, plan)
  /\ UNCHANGED <<plan, had, page, shown, success>>

PollLands ==
  /\ poll.flight = "read"
  /\ poll' = Landed(poll)
  /\ UNCHANGED <<plan, had, page, shown, success>>

PollFails ==
  /\ poll.flight # "none"
  /\ poll' = Failed(poll)
  /\ UNCHANGED <<plan, had, page, shown, success>>

ReadPlan ==
  /\ shown.flight = "sent"
  /\ shown' = Read(shown, plan)
  /\ UNCHANGED <<plan, had, page, poll, success>>

PlanLands ==
  /\ shown.flight = "read"
  /\ shown' = Landed(shown)
  /\ UNCHANGED <<plan, had, page, poll, success>>

PlanFails ==
  /\ shown.flight # "none"
  /\ shown' = Failed(shown)
  /\ UNCHANGED <<plan, had, page, poll, success>>

(* The webhook has put a membership on file, or ended one.                 *)
PlanBecomes(p) ==
  /\ plan # p
  /\ plan' = p
  /\ had' = had \cup {p}
  /\ UNCHANGED <<page, shown, poll, success>>

Next ==
  \/ \E aged \in BOOLEAN : OpenTab(aged)
  \/ LeaveTab
  \/ \E p \in Paid : Checkout(p)
  \/ \E p \in Paid : Return(p)
  \/ Abandon
  \/ Dismiss
  \/ Poll
  \/ ReadPoll
  \/ PollLands
  \/ PollFails
  \/ ReadPlan
  \/ PlanLands
  \/ PlanFails
  \/ \E p \in Paid \cup {"free"} : PlanBecomes(p)

Spec == Init /\ [][Next]_vars

-----------------------------------------------------------------------------
(* The page says that a plan is active once the workspace has been on it,  *)
(* unless another workspace of the customer is (settings-view.tsx:716).    *)
ActivePlanWasReached == SaysActive /\ success \cap OtherPlans = {} => success \subseteq had
=============================================================================

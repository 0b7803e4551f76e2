---------------------------- MODULE ApprovalGate ----------------------------
(***************************************************************************)
(* What the approval flow promises, without the database, Slack, the sweep *)
(* or the polling: each approval gets at most one verdict, and the call    *)
(* that waits for it goes on only if that verdict is a human's "granted".  *)
(***************************************************************************)
CONSTANTS Calls,     \* calls that need an approval
          Approvals  \* the approvals that may be opened for them

VARIABLES verdict,   \* [Approvals -> {"open", "granted", "refused", "lapsed"}]
          held       \* the calls held back, released, or given up

vars == <<verdict, held>>

TypeOK ==
  /\ verdict \in [Approvals -> {"open", "granted", "refused", "lapsed"}]
  /\ held \in [Calls -> {"held", "released", "stopped"}]

Init ==
  /\ verdict = [a \in Approvals |-> "open"]
  /\ held = [c \in Calls |-> "held"]

Conclude(a) ==
  /\ verdict[a] = "open"
  /\ \E v \in {"granted", "refused", "lapsed"} : verdict' = [verdict EXCEPT ![a] = v]
  /\ UNCHANGED held

Release(c) ==
  /\ held[c] = "held"
  /\ \E a \in Approvals : a[1] = c /\ verdict[a] = "granted"
  /\ held' = [held EXCEPT ![c] = "released"]
  /\ UNCHANGED verdict

Stop(c) ==
  /\ held[c] = "held"
  /\ held' = [held EXCEPT ![c] = "stopped"]
  /\ UNCHANGED verdict

Next ==
  \/ \E a \in Approvals : Conclude(a)
  \/ \E c \in Calls : Release(c) \/ Stop(c)

Spec == Init /\ [][Next]_vars
=============================================================================

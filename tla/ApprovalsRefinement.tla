------------------------ MODULE ApprovalsRefinement -------------------------
(***************************************************************************)
(* The approval flow implements ApprovalGate. The verdict of a row is the  *)
(* human decision that landed on it, even where the sweep overwrites the   *)
(* row's status afterwards; a row the sweep denied first has lapsed.       *)
(***************************************************************************)
EXTENDS Approvals

Landed(r, decision) == \E x \in accepted : x.row = r /\ x.decision = decision

verdictBar ==
  [r \in Rows |-> CASE Landed(r, "approved") -> "granted"
                    [] ~Landed(r, "approved") /\ Landed(r, "rejected") -> "refused"
                    [] ~Landed(r, "approved") /\ ~Landed(r, "rejected")
                         /\ rows[r].status = "denied_timeout" -> "lapsed"
                    [] OTHER -> "open"]

heldBar ==
  [c \in Calls |-> CASE call[c].pc \in {"running", "ran"} -> "released"
                     [] call[c].pc \in {"denied", "raised"} -> "stopped"
                     [] OTHER -> "held"]

Gate == INSTANCE ApprovalGate WITH Approvals <- Rows, verdict <- verdictBar, held <- heldBar

(* Every step of the approval flow is a step of the gate, or none: a row   *)
(* gets one verdict for ever, and only a granted call is released.         *)
ImplementsGate == Gate!Spec
=============================================================================

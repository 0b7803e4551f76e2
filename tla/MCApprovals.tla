---------------------------- MODULE MCApprovals -----------------------------
(* Instances of the approval flow for TLC.                                 *)
EXTENDS ApprovalsRefinement, TLC

Symmetry == Permutations(Calls) \cup Permutations(Deciders) \cup Permutations(Sweepers)
=============================================================================

--------------------------- MODULE MCPolicyEditor ---------------------------
(* Instances of the policy page for TLC.                                   *)
EXTENDS PolicyEditor, TLC

Symmetry == Permutations(Workspaces)
=============================================================================

---------------------------- MODULE MCAuditChain ----------------------------
(* Instances of the audit chain for TLC.                                   *)
EXTENDS AuditChain, TLC

Symmetry == Permutations(Events)
=============================================================================

----------------------------- MODULE MCSdkQueue -----------------------------
(* Instances of the SDK's event queue for TLC.                             *)
EXTENDS SdkQueue, TLC

Symmetry == Permutations(Events)
=============================================================================

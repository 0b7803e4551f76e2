--------------------------- MODULE MCEventIntake ----------------------------
(* Instances of the event intake for TLC.                                  *)
EXTENDS EventIntake, TLC

Symmetry == Permutations(Events)
=============================================================================

----------------------------- MODULE MCMirTypes -----------------------------
(* A small instance of MirTypes for TLC.                                     *)
EXTENDS MirTypes, TLC

Symmetry == Permutations(VarNames) \cup Permutations(MethodNames)
=============================================================================

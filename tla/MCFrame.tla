------------------------------ MODULE MCFrame ------------------------------
(* Small instances of Frame for TLC. *)
EXTENDS Frame, TLC

\* Names are only compared with each other.
Symmetry == Permutations(Names)
=============================================================================

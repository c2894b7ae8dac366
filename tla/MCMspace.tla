------------------------------ MODULE MCMspace ------------------------------
(* Instances of Mspace: addresses are interchangeable.                        *)
EXTENDS Mspace, TLC

Symmetry == Permutations(Addr)
=============================================================================

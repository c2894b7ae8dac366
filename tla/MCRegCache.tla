----------------------------- MODULE MCRegCache -----------------------------
(* Small instances of RegCache for TLC. *)
EXTENDS RegCache, TLC

MCMarks == {"mir3_value1", "mir3_value2", "cmp_value1", "cmp_value2",
            "_last_ret", "arg"}

\* Every value but 0 is that of a short literal, and no wide literal means 0.
MCMeans == CHOOSE m \in [Literal -> Val] :
             /\ \A v \in Val \ {Zero} : \E l \in Int8 : m[l] = v
             /\ \A l \in Int32 : m[l] # Zero

\* Temporaries are only compared with each other.
Symmetry == Permutations(Temps)
=============================================================================

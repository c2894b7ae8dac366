------------------------------- MODULE Spaces -------------------------------
(***************************************************************************)
(* What the memory of the compiler promises: every block belongs to one    *)
(* space, a block that is returned leaves it, and a space that is released *)
(* loses all its blocks at once, and no other block, and is not used       *)
(* again.                                                                  *)
(***************************************************************************)
CONSTANTS
  Tags,  \* the names of the spaces
  Addr   \* the blocks

VARIABLES
  space,    \* the blocks of each space
  released  \* the spaces that were released

vars == <<space, released>>

Init == /\ space = [t \in Tags |-> {}]
        /\ released = {}

Allocate(t, a) ==
  /\ t \notin released
  /\ \A s \in Tags : a \notin space[s]
  /\ space' = [space EXCEPT ![t] = @ \cup {a}]
  /\ UNCHANGED released

Free(t, a) ==
  /\ a \in space[t]
  /\ space' = [space EXCEPT ![t] = @ \ {a}]
  /\ UNCHANGED released

Release(t) ==
  /\ t \notin released
  /\ space' = [space EXCEPT ![t] = {}]
  /\ released' = released \cup {t}

Next == \E t \in Tags : \/ \E a \in Addr : Allocate(t, a) \/ Free(t, a)
                        \/ Release(t)

Spec == Init /\ [][Next]_vars

=============================================================================

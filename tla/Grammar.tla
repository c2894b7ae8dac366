------------------------------- MODULE Grammar -------------------------------
(* The derivations of a text of the language, one step after the other.        *)
EXTENDS Language

VARIABLES
  text,  \* what is still to be derived, and the names that are defined
  said   \* the last step of the derivation

vars == <<text, said>>

Init == text = Start /\ said = <<"rule", "Program", <<>>>>

Next == /\ said' \in Steps(text)
        /\ text' = After(text, said')

\* A text that is not finished goes on.
Spec == Init /\ [][Next]_vars /\ WF_vars(Next)

=============================================================================

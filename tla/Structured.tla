----------------------------- MODULE Structured -----------------------------
(***************************************************************************)
(* What the statements of a source program mean.  A method runs through    *)
(* the statements it has still to do; what can be seen of it is the order  *)
(* in which it acts (definitions, assignments, calls) and evaluates the    *)
(* comparisons of its conditions.  Control shows that the code generated   *)
(* for the method implements this.                                         *)
(*                                                                         *)
(* A statement is one of                                                   *)
(*   [kind |-> "do",    act]                                               *)
(*   [kind |-> "if",    cond, yes, no]                                     *)
(*   [kind |-> "while", cond, body]                                        *)
(*   [kind |-> "for",   init, cond, after, body]                           *)
(* where yes, no and body are sequences of statements, and a condition is  *)
(* a sequence of "||" operands, each a sequence of "&&" operands, each a   *)
(* comparison with the number of "!" before it.  The condition of a for    *)
(* may be missing (the empty sequence).  A return only ends a sequence     *)
(* here: RegCache is about returns in other places.                        *)
(***************************************************************************)
EXTENDS Naturals, Sequences

CONSTANTS
  Methods  \* the methods that may be called: sequences of statements

VARIABLES
  todo,   \* the statements still to be done
  shown,  \* the last thing seen of the method
  turn    \* tells one from the next that is the same: 0 or 1

vars == <<todo, shown, turn>>

Acted(a)     == [kind |-> "act", what |-> a]
Tested(c, v) == [kind |-> "test", what |-> c, value |-> v]
Begun        == [kind |-> "begin"]
Ended        == [kind |-> "end"]

Do(a) == [kind |-> "do", act |-> a]

\* The statements with the loop at their head taken apart once.
Unroll(w) ==
  IF w = <<>> \/ Head(w).kind \in {"do", "if"} THEN w
  ELSE LET s == Head(w)
       IN CASE s.kind = "for" ->
                 <<Do(s.init), [kind |-> "while", cond |-> s.cond,
                                body |-> Append(s.body, Do(s.after))]>> \o Tail(w)
            [] s.kind = "while" /\ s.cond # <<>> ->
                 <<[kind |-> "if", cond |-> s.cond,
                    yes |-> Append(s.body, s), no |-> <<>>]>> \o Tail(w)
            [] OTHER -> s.body \o w

\* The statements with an action or a test at their head.  Only a for has no
\* condition, and its body ends in an action, so twice is enough.
Unfold(w) == Unroll(Unroll(w))

\* The comparison that decides next, and whether it holds under its "!".
FirstOf(cond)  == Head(Head(cond))
Holds(f, v)    == IF f.inverted % 2 = 0 THEN v ELSE ~v

\* What is left of an if once its next comparison is v.
Decide(s, v) ==
  LET ands == Tail(Head(s.cond))
      ors  == Tail(s.cond)
  IN IF Holds(FirstOf(s.cond), v)
     THEN IF ands = <<>> THEN s.yes ELSE <<[s EXCEPT !.cond = <<ands>> \o ors]>>
     ELSE IF ors = <<>> THEN s.no ELSE <<[s EXCEPT !.cond = ors]>>

\* What may be seen next of a method with the statements w to do.
Visible(w) ==
  LET u == Unfold(w)
  IN IF u = <<>> THEN {Ended}
     ELSE IF Head(u).kind = "do" THEN {Acted(Head(u).act)}
     ELSE {Tested(FirstOf(Head(u).cond).name, v) : v \in BOOLEAN}

\* The statements left after e, which is one of Visible(w); w after anything else.
After(w, e) ==
  LET u == Unfold(w)
  IN IF e \notin Visible(w) \/ u = <<>> THEN w
     ELSE IF e.kind = "act" THEN Tail(u)
     ELSE Decide(Head(u), e.value) \o Tail(u)

Init == /\ todo \in Methods
        /\ shown = Begun
        /\ turn = 0

Next == /\ shown # Ended
        /\ shown' \in Visible(todo)
        /\ todo' = After(todo, shown')
        /\ turn' = 1 - turn

\* A method that has something to do does it.
Spec == Init /\ [][Next]_vars /\ WF_vars(Next)

=============================================================================

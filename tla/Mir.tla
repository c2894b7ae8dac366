--------------------------------- MODULE Mir ---------------------------------
(***************************************************************************)
(* MIR generation for conditions, if, while, for and methods               *)
(* (compiler/mir.cpp): the statements of Structured become one list of     *)
(* codes.  What an action or a comparison computes is left to the modules  *)
(* that use this: here it is a name.                                       *)
(*                                                                         *)
(* Each function of the generator is an operator: what one call emits, and *)
(* the label counter behind it.  A call that it makes stands among the     *)
(* codes, where the codes of that call will be.                            *)
(***************************************************************************)
EXTENDS Naturals, Sequences

-----------------------------------------------------------------------------
(* MIR codes, and the calls that are still to be made.                     *)

Act(a)       == [op |-> "act", name |-> a]
Cmp(c, t, f) == [op |-> "cmp", name |-> c, true |-> t, false |-> f]
Jmp(l)       == [op |-> "jmp", label |-> l]
Label(l)     == [op |-> "label", label |-> l]
Flag(f)      == [op |-> "flag", flag |-> f]
Method(m)    == [op |-> "method", method |-> m]
Ret          == [op |-> "ret"]

MethodOf(m, body)   == [op |-> "methodOf", method |-> m, body |-> body]
StatementSeqOf(seq) == [op |-> "seqOf", seq |-> seq]
StatementOf(s)      == [op |-> "statementOf", statement |-> s]
BoolOf(cond, t, f)  == [op |-> "boolOf", cond |-> cond, true |-> t, false |-> f]
ItemOf(item, t, f)  == [op |-> "itemOf", item |-> item, true |-> t, false |-> f]
FactorOf(fac, t, f) == [op |-> "factorOf", factor |-> fac, true |-> t, false |-> f]

Calls == {"methodOf", "seqOf", "statementOf", "boolOf", "itemOf", "factorOf"}

\* emitMirCode, for each of the codes, with the labels up to l allocated.
Emit(codes, l) == [codes |-> codes, label |-> l]

-----------------------------------------------------------------------------
(* Conditions; l is the label allocTempLabel returns next.                 *)

\* Faulty: "!" is ignored.
FactorNotInverted(c, l) == Emit(<<Cmp(c.factor.name, c.true, c.false)>>, l)

\* Each "!" exchanges the labels.
GenerateFactorBool(c, l) ==
  LET f == c.factor
  IN Emit(<<IF f.inverted = 0 THEN Cmp(f.name, c.true, c.false)
            ELSE FactorOf([f EXCEPT !.inverted = @ - 1], c.false, c.true)>>, l)

\* "&&": a factor that holds goes on to the next, behind a label of its own.
GenerateItemBool(c, l) ==
  IF Len(c.item) = 1 THEN Emit(<<FactorOf(Head(c.item), c.true, c.false)>>, l)
  ELSE Emit(<<FactorOf(Head(c.item), l, c.false), Label(l),
              ItemOf(Tail(c.item), c.true, c.false)>>, l + 1)

\* "||": an item that fails goes on to the next.  No condition, no code.
GenerateExpressionBool(c, l) ==
  IF c.cond = <<>> THEN Emit(<<>>, l)
  ELSE IF Len(c.cond) = 1 THEN Emit(<<ItemOf(Head(c.cond), c.true, c.false)>>, l)
  ELSE Emit(<<ItemOf(Head(c.cond), c.true, l), Label(l),
              BoolOf(Tail(c.cond), c.true, c.false)>>, l + 1)

-----------------------------------------------------------------------------
(* Statements.                                                             *)

GenerateStatementIf(s, l) ==
  LET t == l  f == l + 1  finish == l + 2
  IN Emit(<<BoolOf(s.cond, t, f), Flag("ENTER_BLOCK"),
            Label(t), StatementSeqOf(s.yes), Jmp(finish),
            Label(f), StatementSeqOf(s.no),
            Label(finish), Flag("EXIT_BLOCK")>>, l + 3)

\* Faulty: the loop is left before the label that ends it.
LoopLeftEarly(cond, body, l) ==
  LET entry == l  t == l + 1  f == l + 2
  IN Emit(<<Flag("ENTER_LOOP_BLOCK"), Label(entry), BoolOf(cond, t, f),
            Label(t), StatementSeqOf(body), Jmp(entry),
            Flag("EXIT_LOOP_BLOCK"), Label(f)>>, l + 3)

\* What while and for have in common, up to the order in which the three labels
\* are allocated.
GenerateLoop(cond, body, l) ==
  LET entry == l  t == l + 1  f == l + 2
  IN Emit(<<Flag("ENTER_LOOP_BLOCK"), Label(entry), BoolOf(cond, t, f),
            Label(t), StatementSeqOf(body), Jmp(entry),
            Label(f), Flag("EXIT_LOOP_BLOCK")>>, l + 3)

GenerateStatementWhile(s, l) == GenerateLoop(s.cond, s.body, l)

\* The init expression comes before the loop, the after expression ends its body.
GenerateStatementFor(s, l) ==
  LET loop == GenerateLoop(s.cond, Append(s.body, [kind |-> "do", act |-> s.after]), l)
  IN Emit(<<Act(s.init)>> \o loop.codes, loop.label)

GenerateStatement(c, l) ==
  LET s == c.statement
  IN CASE s.kind = "do"    -> Emit(<<Act(s.act)>>, l)
       [] s.kind = "if"    -> GenerateStatementIf(s, l)
       [] s.kind = "while" -> GenerateStatementWhile(s, l)
       [] s.kind = "for"   -> GenerateStatementFor(s, l)

GenerateStatementSeq(c, l) ==
  Emit([i \in DOMAIN c.seq |-> StatementOf(c.seq[i])], l)

\* Faulty: the labels of each method start again at 0.
MethodWithOwnLabels(c, l) == Emit(<<Method(c.method), StatementSeqOf(c.body), Ret>>, 0)

\* Faulty: the code runs on into the next method.
MethodWithoutRet(c, l) == Emit(<<Method(c.method), StatementSeqOf(c.body)>>, l)

\* A method's label, its codes and the return; the label counter goes on.
GenerateMethod(c, l) == Emit(<<Method(c.method), StatementSeqOf(c.body), Ret>>, l)

\* The calls of generateMir.
GenerateMir(methods) == [m \in DOMAIN methods |-> MethodOf(m, methods[m])]

\* What the call c emits.
Generated(c, l) ==
  CASE c.op = "methodOf"    -> GenerateMethod(c, l)
    [] c.op = "seqOf"       -> GenerateStatementSeq(c, l)
    [] c.op = "statementOf" -> GenerateStatement(c, l)
    [] c.op = "boolOf"      -> GenerateExpressionBool(c, l)
    [] c.op = "itemOf"      -> GenerateItemBool(c, l)
    [] c.op = "factorOf"    -> GenerateFactorBool(c, l)

-----------------------------------------------------------------------------
(* The generator at work on code.  The open calls are made from the front. *)

Open(code)  == {i \in DOMAIN code : code[i].op \in Calls}
First(code) == CHOOSE i \in Open(code) : \A j \in Open(code) : i <= j

\* The code once the codes of the call at h are in its place.
Splice(code, h, codes) == SubSeq(code, 1, h - 1) \o codes \o SubSeq(code, h + 1, Len(code))

=============================================================================

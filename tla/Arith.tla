-------------------------------- MODULE Arith --------------------------------
(***************************************************************************)
(* MIR generation for expressions (compiler/mir.cpp).  The actions and     *)
(* comparisons that Mir names become the codes that compute them.          *)
(*                                                                         *)
(* A factor is an operand (a variable, a constant) or a call, here without *)
(* arguments; an item is a sequence of factors that are multiplied, an     *)
(* expression a sequence of items that are added.  An action is one of     *)
(*   [what |-> "set",    var, expr]    definition or assignment            *)
(*   [what |-> "return", expr]                                             *)
(*   [what |-> "call",   args]                                             *)
(* and a comparison is a pair of expressions.  Pointers, arrays and the    *)
(* widths of operands are left out.                                        *)
(***************************************************************************)
EXTENDS Mir, SequencesExt

\* Operands.  The value of the call just made has no name (type.isReturn).
Var(n)   == [kind |-> "var", name |-> n]
Const(n) == [kind |-> "const", name |-> n]
RetValue == [kind |-> "ret"]

\* The variables of allocTempValue.
Temp(n) == [kind |-> "temp", index |-> n]

\* A code that computes: what it writes, the operands it reads, in order.
\* Codes that write nothing have the target NoVar.
NoVar == [kind |-> "none"]
Mir2(d, o)      == [op |-> "mir2", dist |-> d, reads |-> <<o>>]
Mir3(d, o1, o2) == [op |-> "mir3", dist |-> d, reads |-> <<o1, o2>>]
Call(args)      == [op |-> "call", dist |-> NoVar, reads |-> args]
RetCode(o)      == [op |-> "ret", dist |-> NoVar, reads |-> <<o>>]
CmpCode(c, o1, o2) == [op |-> "cmp", dist |-> NoVar, reads |-> <<o1, o2>>,
                       true |-> c.true, false |-> c.false]
Plain(c) == c @@ [dist |-> NoVar, reads |-> <<>>]

-----------------------------------------------------------------------------
(* The generator's state g: the codes and the index of the next temporary. *)

Put(g, c)         == [g EXCEPT !.code = Append(@, c)]
AllocTempValue(g) == [g EXCEPT !.temp = @ + 1]

\* A call is made when its value is needed and leaves it unnamed.
GenerateArithmeticFactor(g, f) ==
  IF f.kind = "call" THEN [g |-> Put(g, Call(<<>>)), value |-> RetValue]
  ELSE [g |-> g, value |-> f]

\* One temporary takes the first factor and is multiplied by the others.
GenerateArithmeticItem(g, item) ==
  LET t == Temp(g.temp)
      first == GenerateArithmeticFactor(AllocTempValue(g), Head(item))
      More(h, f) == LET next == GenerateArithmeticFactor(h, f)
                    IN Put(next.g, Mir3(t, t, next.value))
  IN [g |-> FoldLeft(More, Put(first.g, Mir2(t, first.value)), Tail(item)), value |-> t]

\* Another takes the first item, and the others are added to it.
GenerateExpressionArithmetic(g, expr) ==
  LET t == Temp(g.temp)
      first == GenerateArithmeticItem(AllocTempValue(g), Head(expr))
      More(h, item) == LET next == GenerateArithmeticItem(h, item)
                       IN Put(next.g, Mir3(t, t, next.value))
  IN [g |-> FoldLeft(More, Put(first.g, Mir2(t, first.value)), Tail(expr)), value |-> t]

\* generateStatementDefine and generateExpressionAssignment.
GenerateSet(g, a) ==
  LET e == GenerateExpressionArithmetic(g, a.expr)
  IN Put(e.g, Mir2(Var(a.var), e.value))

GenerateStatementReturn(g, a) ==
  LET e == GenerateExpressionArithmetic(g, a.expr)
  IN Put(e.g, RetCode(e.value))

\* All arguments are computed before the call.
GenerateStatementMethodCall(g, a) ==
  LET Arg(r, e) == LET next == GenerateExpressionArithmetic(r.g, e)
                   IN [g |-> next.g, values |-> Append(r.values, next.value)]
      all == FoldLeft(Arg, [g |-> g, values |-> <<>>], a.args)
  IN Put(all.g, Call(all.values))

GenerateCmp(g, c) ==
  LET left  == GenerateExpressionArithmetic(g, c.name[1])
      right == GenerateExpressionArithmetic(left.g, c.name[2])
  IN Put(right.g, CmpCode(c, left.value, right.value))

\* The codes of Mir with the computations filled in.
Compute(g, c) ==
  CASE c.op = "cmp" -> GenerateCmp(g, c)
    [] c.op = "act" /\ c.name.what = "set"    -> GenerateSet(g, c.name)
    [] c.op = "act" /\ c.name.what = "return" -> GenerateStatementReturn(g, c.name)
    [] c.op = "act" /\ c.name.what = "call"   -> GenerateStatementMethodCall(g, c.name)
    [] OTHER -> Put(g, Plain(c))

\* The generator at work until no call is open, with the labels up to l allocated.
RECURSIVE Finished(_, _)
Finished(code, l) ==
  IF Open(code) = {} THEN code
  ELSE LET emitted == Generated(code[First(code)], l)
       IN Finished(Splice(code, First(code), emitted.codes), emitted.label)

\* The codes of one method.
MethodCode(body) ==
  FoldLeft(Compute, [code |-> <<>>, temp |-> 0], Finished(<<StatementSeqOf(body)>>, 0)).code

=============================================================================

-------------------------------- MODULE MCFold --------------------------------
(* Methods of a few statements over three variables, in a row and with an if  *)
(* or a while among them.                                                      *)
EXTENDS Fold, Sequences

A == INSTANCE Arith

a == A!Var("a")
x == A!Var("x")
y == A!Var("y")
f == [kind |-> "call"]

Set(v, e) == [kind |-> "do", act |-> [what |-> "set", var |-> v, expr |-> e]]
Return(e) == [kind |-> "do", act |-> [what |-> "return", expr |-> e]]
CallWith(e) == [kind |-> "do", act |-> [what |-> "call", args |-> <<e>>]]

Of(factor) == <<<<factor>>>>
Const0 == A!Const("0")

Exprs == {Of(Const0), Of(a), Of(x), Of(f), <<<<a>>, <<x>>>>, <<<<a, f>>>>, <<<<f>>, <<f>>>>}
Simples == {Set(v, e) : v \in {"a", "x"}, e \in Exprs}
           \cup {Return(Of(x)), Return(Of(a)), CallWith(Of(x)), CallWith(<<<<a>>, <<x>>>>)}
Few == {Set("x", Of(Const0)), Set("x", Of(a)), Set("a", Of(x)), Set("x", Of(f)),
        Set("y", Of(x)), CallWith(Of(x)), CallWith(Of(y))}

Cond == <<<<[name |-> <<Of(x), Of(a)>>, inverted |-> 0]>>>>
If(s, e) == [kind |-> "if", cond |-> Cond, yes |-> s, no |-> e]
While(s) == [kind |-> "while", cond |-> Cond, body |-> s]

Bodies == {<<s, t, Return(Of(x))>> : s \in Simples, t \in Simples}
  \cup {<<s, t, u, Return(Of(x))>> : s \in Few, t \in Few, u \in Few}
  \cup {<<s, If(<<t, u>>, <<>>), Return(Of(x))>> : s \in Few, t \in Few, u \in Few}
  \cup {<<s, If(<<t>>, <<u>>), Return(Of(x))>> : s \in Few, t \in Few, u \in Few}
  \cup {<<s, While(<<t, u>>), Return(Of(x))>> : s \in Few, t \in Few, u \in Few}

MCMethods == {A!MethodCode(b) : b \in Bodies}

=============================================================================

------------------------------- MODULE Language -------------------------------
(***************************************************************************)
(* The language of the compiler: what the structures of the syntax tree    *)
(* (compiler/ast.h) can hold, with the tokens that stand between their     *)
(* parts, and the names a method may use.  A text is derived from left to  *)
(* right: form is what is still to be derived, and a step either replaces  *)
(* its first symbol by one of its alternatives or says its first token.    *)
(*                                                                         *)
(* A list of the tree is an element followed by a "more", an optional part *)
(* an "opt".  Tokens that no decision of the parser tells apart share a    *)
(* symbol: "type" is a type or a pointer type, "+" is + and -, "/" is /    *)
(* and %, "pointer" is & and *, "==" any comparison.  The marks ; , { and  *)
(* } have names, because the provers' input takes no string that holds     *)
(* them.                                                                   *)
(***************************************************************************)
EXTENDS Naturals, Sequences, TLC

CONSTANTS
  VarNames,     \* the identifiers a text may use for variables
  MethodNames,  \* and for methods
  MaxParts      \* bound on the nesting: a compound part is derived only while no more
                \* parts than this are left

\* Programs and methods (AstProgram to AstMethodDefine, AstParamList).
MethodRules == [
  Program       |-> {<<>>, <<"MethodSeq">>},
  MethodSeq     |-> {<<"MethodDefine", "MethodMore">>},
  MethodMore    |-> {<<>>, <<"MethodSeq">>},
  MethodDefine  |-> {<<"extern", "type", "method:def", "(", "ParamOpt", ")", "semicolon",
                       "MethodEnd">>,
                     <<"type", "method:def", "(", "ParamOpt", ")", "MethodBody", "MethodEnd">>},
  MethodBody    |-> {<<"semicolon">>, <<"Block">>},
  MethodEnd     |-> {<<>>},
  ParamOpt      |-> {<<>>, <<"ParamList">>},
  ParamList     |-> {<<"type", "var:def", "ParamMore">>},
  ParamMore     |-> {<<>>, <<"comma", "ParamList">>}]

\* Statements (AstStatement and its parts).
StatementRules == [
  Block         |-> {<<"lbrace", "StatementOpt", "rbrace">>},
  StatementOpt  |-> {<<>>, <<"StatementSeq">>},
  StatementSeq  |-> {<<"Statement", "StatementMore">>},
  StatementMore |-> {<<>>, <<"StatementSeq">>},
  Statement     |-> {<<"if", "(", "Bool", ")", "Statement", "Else">>,
                     <<"while", "(", "Bool", ")", "Statement">>,
                     <<"for", "(", "ExpOpt", "semicolon", "BoolOpt", "semicolon", "AfterOpt",
                       ")", "Statement">>,
                     <<"return", "ExpOpt", "semicolon">>,
                     <<"type", "var:def", "=", "Expression", "semicolon">>,
                     <<"Block">>, <<"Call">>, <<"ExpOpt", "semicolon">>},
  Else          |-> {<<>>, <<"else", "Statement">>},
  ExpOpt        |-> {<<>>, <<"Expression">>},
  AfterOpt      |-> {<<>>, <<"Expression">>}]

\* Expressions (AstExpression, AstObjectList).
ExpressionRules == [
  Expression    |-> {<<"var:set", "=", "Expression">>, <<"Arithmetic">>},
  Arithmetic    |-> {<<"Item", "ArithMore">>},
  ArithMore     |-> {<<>>, <<"+", "Item", "ArithMore">>},
  Item          |-> {<<"Factor", "ItemMore">>},
  ItemMore      |-> {<<>>, <<"/", "Factor", "ItemMore">>},
  Factor        |-> {<<"var:use">>, <<"pointer", "var:adr">>, <<"integer">>, <<"chars">>,
                     <<"lbrace", "ArrayData", "rbrace">>, <<"Call">>},
  ArrayData     |-> {<<"integer", "ArrayMore">>},
  ArrayMore     |-> {<<>>, <<"comma", "ArrayData">>},
  Call          |-> {<<"method:use", "(", "ObjectOpt", ")">>},
  ObjectOpt     |-> {<<>>, <<"ObjectList">>},
  ObjectList    |-> {<<"Expression", "ObjectMore">>},
  ObjectMore    |-> {<<>>, <<"comma", "ObjectList">>}]

\* Conditions (AstExpressionBool).
BoolRules == [
  BoolOpt       |-> {<<>>, <<"Bool">>},
  Bool          |-> {<<"BoolItem", "BoolMore">>},
  BoolMore      |-> {<<>>, <<"||", "Bool">>},
  BoolItem      |-> {<<"BoolFactor", "BoolItemMore">>},
  BoolItemMore  |-> {<<>>, <<"&&", "BoolItem">>},
  BoolFactor    |-> {<<"!", "BoolFactor">>, <<"Arithmetic", "==", "Arithmetic">>}]

\* The symbols that have parts.
Compound == DOMAIN MethodRules \cup DOMAIN StatementRules
            \cup DOMAIN ExpressionRules \cup DOMAIN BoolRules

Rules == [s \in Compound |-> IF s \in DOMAIN MethodRules THEN MethodRules[s]
                             ELSE IF s \in DOMAIN StatementRules THEN StatementRules[s]
                             ELSE IF s \in DOMAIN ExpressionRules THEN ExpressionRules[s]
                             ELSE BoolRules[s]]

Identifiers == {"method:def", "method:use", "var:def", "var:use", "var:set", "var:adr"}

\* The symbols of a form that still have to be derived.
Parts(form) == Len(SelectSeq(form, LAMBDA s : s \in DOMAIN Rules))

Holds(alt, symbols) == \E i \in DOMAIN alt : alt[i] \in symbols

\* What was decided since the last token.  An else belongs to the nearest if, and
\* a statement that starts with a call or a brace is a call or a block, never an
\* expression.
Settles(s, alt) ==
  CASE s = "Else" /\ alt = <<>>                           -> {"noElse"}
    [] s = "Statement" /\ alt = <<"ExpOpt", "semicolon">> -> {"expression"}
    [] OTHER                                              -> {}

Allowed(g, s, alt) ==
  /\ ~ ("noElse" \in g.settled /\ Holds(alt, {"else"}))
  /\ ~ ("expression" \in g.settled /\ s = "Factor" /\ Holds(alt, {"Call", "lbrace"}))
  /\ s \in {"Statement", "Factor"} /\ Holds(alt, {"Statement", "Block", "Call", "lbrace"})
       => Parts(alt) + Parts(g.form) <= MaxParts
  /\ Holds(alt, {"var:set"}) => g.vars # {}

Names(s) == IF s \in {"method:def", "method:use"} THEN MethodNames ELSE VarNames

\* The names an identifier may be.  A method may call itself and the methods before
\* it; a variable is known from its definition to the end of the method, whatever
\* block it is in.
Known(g, s) == IF s = "method:use" THEN g.methods
               ELSE IF s \in {"var:use", "var:set"} THEN g.vars ELSE Names(s)

\* The steps g may take.  A use of an unknown name is rejected; the target of an
\* assignment is always known here.
Steps(g) ==
  IF g.form = <<>> THEN {}
  ELSE LET s == Head(g.form)
       IN IF s \in DOMAIN Rules
          THEN {<<"rule", s, alt>> : alt \in {a \in Rules[s] : Allowed(g, s, a)}}
          ELSE IF s \notin Identifiers THEN {<<"token", s, "none">>}
          ELSE {<<"token", s, n>> : n \in Known(g, s)}
            \cup (IF s = "var:set" THEN {} ELSE {<<"reject", s, n>> : n \in Names(s) \ Known(g, s)})

After(g, e) ==
  IF e[1] = "reject" THEN [g EXCEPT !.form = <<>>]
  ELSE IF e[1] = "rule"
  THEN [g EXCEPT !.form = e[3] \o Tail(@),
                 !.settled = @ \cup Settles(e[2], e[3]),
                 !.vars = IF e[2] = "MethodEnd" THEN {} ELSE @]
  ELSE [g EXCEPT !.form = Tail(@),
                 !.settled = {},
                 !.vars = IF e[2] = "var:def" THEN @ \cup {e[3]} ELSE @,
                 !.methods = IF e[2] = "method:def" THEN @ \cup {e[3]} ELSE @]

Start == [form |-> <<"Program">>, settled |-> {}, vars |-> {}, methods |-> {}]

=============================================================================

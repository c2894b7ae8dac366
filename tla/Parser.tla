------------------------------- MODULE Parser -------------------------------
(***************************************************************************)
(* The parser (compiler/syntaxer.cpp).  travelAst descends into the node   *)
(* it builds, looking at the current token and the one after it; the calls *)
(* that are still open are kept here as todo, the sequence of nodes to     *)
(* build and tokens to take.  It keeps the variables of the open method    *)
(* and the methods seen so far, and exits at a name it does not find.      *)
(*                                                                         *)
(* Its input is a text of Language, derived two tokens ahead of it: plan.   *)
(* The parser sees only the tokens of the plan.  A token it takes for      *)
(* granted is the goal "any".                                              *)
(***************************************************************************)
EXTENDS Language

VARIABLES
  author,      \* what the author of the text has still to derive
  plan,        \* the derivation the author is ahead of the parser
  todo,        \* the open calls of travelAst, innermost first
  varStack,    \* varStackHead: the variables of the open methods
  methodList,  \* methodListHead: the names of the methods
  text,        \* what the parser has still to derive (history)
  said         \* the last step of its derivation

vars == <<author, plan, todo, varStack, methodList, text, said>>

\* What the parser does is a derivation of its own.
Lang == INSTANCE Grammar WITH text <- text, said <- said

-----------------------------------------------------------------------------
(* Tokens.                                                                 *)

Token(e) == IF e[2] \in Identifiers THEN <<"identifier", e[3]>> ELSE <<e[2], "none">>

\* The places of the plan that say a token, and the first of some of them.
Tokens   == {i \in DOMAIN plan : plan[i][1] # "rule"}
First(S) == CHOOSE i \in S : \A j \in S : i <= j

None == <<"none", "none">>

\* The first token of some places, if there is one.
TokenOf(S) == IF S = {} THEN None ELSE Token(plan[First(S)])

\* token and token->next.
Current == TokenOf(Tokens)
Second  == TokenOf({i \in Tokens : \E j \in Tokens : j < i})

Is(kind)     == Current[1] = kind
NextIs(kind) == Second[1] = kind

\* The author is two tokens ahead, or finished.
Ready == (\E i, j \in Tokens : i # j) \/ author.form = <<>>

\* The text goes on after a name that will be rejected.
Written(e) == IF e[1] = "reject" THEN <<"token", e[2], e[3]>> ELSE e

Write ==
  /\ ~ Ready
  /\ \E e \in Steps(author) :
       /\ plan' = Append(plan, e)
       /\ author' = After(author, Written(e))
  /\ UNCHANGED <<todo, varStack, methodList, text, said>>

-----------------------------------------------------------------------------
(* Steps of the parser.                                                    *)

Goal(g) == todo # <<>> /\ Head(todo) = g /\ Ready

\* Report a step of the derivation.
Say(e) == /\ said' = e
          /\ text' = After(text, e)
          /\ plan' = IF plan = <<>> THEN plan ELSE Tail(plan)
          /\ UNCHANGED author

\* Descend into the parts of the node in front.
Build(parts) == todo' = parts \o Tail(todo)

\* The node in front has the parts alt; the calls that build them are parts.
ChooseBy(alt, parts) == /\ Say(<<"rule", Head(todo), alt>>)
                        /\ Build(parts)
                        /\ UNCHANGED <<varStack, methodList>>
Choose(alt) == ChooseBy(alt, alt)

\* exit(-1).
Exit == /\ Say(<<"reject", Head(todo), Current[2]>>)
        /\ todo' = <<>>
        /\ UNCHANGED <<varStack, methodList>>

\* token = token->next.
Consume(symbol) == /\ Say(<<"token", symbol, Current[2]>>)
                   /\ todo' = Tail(todo)

\* Faulty: a method's name passes for a variable.
HasVarOrMethod(n) == n \in methodList \/ \E i \in DOMAIN varStack : n \in varStack[i]

HasVarDefine(n)    == \E i \in DOMAIN varStack : n \in varStack[i]
HasMethodDefine(n) == n \in methodList

AddVar(n) == varStack' = [varStack EXCEPT ![Len(varStack)] = @ \cup {n}]

-----------------------------------------------------------------------------
(* Methods.                                                                *)

ProgramNode ==
  \/ Goal("Program")    /\ Choose(IF Is("none") THEN <<>> ELSE <<"MethodSeq">>)
  \/ Goal("MethodSeq")  /\ Choose(<<"MethodDefine", "MethodMore">>)
  \/ Goal("MethodMore") /\ Choose(IF Is("none") THEN <<>> ELSE <<"MethodSeq">>)

MethodDefine ==
  \/ /\ Goal("MethodDefine")
     /\ Choose(IF Is("extern")
               THEN <<"extern", "type", "method:def", "(", "ParamOpt", ")", "semicolon",
                      "MethodEnd">>
               ELSE <<"type", "method:def", "(", "ParamOpt", ")", "MethodBody", "MethodEnd">>)
  \/ Goal("MethodBody") /\ Choose(IF Is("semicolon") THEN <<"semicolon">> ELSE <<"Block">>)

\* The name of a method, and pushMethod once its parenthesis is open.
PushMethod ==
  /\ Goal("method:def")
  /\ IF ~ Is("identifier") THEN Exit
     ELSE /\ Consume("method:def")
          /\ methodList' = methodList \cup {Current[2]}
          /\ varStack' = Append(varStack, {})

\* Faulty: the variables of a declared method stay.
PopMethodKeep ==
  /\ Goal("MethodEnd")
  /\ Say(<<"rule", "MethodEnd", <<>>>>)
  /\ Build(<<>>)
  /\ UNCHANGED <<varStack, methodList>>

PopMethod ==
  /\ Goal("MethodEnd")
  /\ Say(<<"rule", "MethodEnd", <<>>>>)
  /\ Build(<<>>)
  /\ varStack' = SubSeq(varStack, 1, Len(varStack) - 1)
  /\ UNCHANGED methodList

Params ==
  \/ Goal("ParamOpt")  /\ Choose(IF Is(")") THEN <<>> ELSE <<"ParamList">>)
  \/ Goal("ParamList") /\ Choose(<<"type", "var:def", "ParamMore">>)
  \/ Goal("ParamMore") /\ Choose(IF Is("comma") THEN <<"comma", "ParamList">> ELSE <<>>)

-----------------------------------------------------------------------------
(* Statements.                                                             *)

Block ==
  \/ Goal("Block")         /\ Choose(<<"lbrace", "StatementOpt", "rbrace">>)
  \/ Goal("StatementOpt")  /\ Choose(IF Is("rbrace") THEN <<>> ELSE <<"StatementSeq">>)
  \/ Goal("StatementSeq")  /\ Choose(<<"Statement", "StatementMore">>)
  \/ Goal("StatementMore") /\ Choose(IF Is("rbrace") THEN <<>> ELSE <<"StatementSeq">>)

\* Another keyword builds nothing.  An expression statement takes whatever token
\* comes after its expression for its semicolon.
Statement ==
  /\ Goal("Statement")
  /\ CASE Is("if")     -> Choose(<<"if", "(", "Bool", ")", "Statement", "Else">>)
       [] Is("while")  -> Choose(<<"while", "(", "Bool", ")", "Statement">>)
       [] Is("for")    -> Choose(<<"for", "(", "ExpOpt", "semicolon", "BoolOpt", "semicolon",
                                   "AfterOpt", ")", "Statement">>)
       [] Is("return") -> Choose(<<"return", "ExpOpt", "semicolon">>)
       [] Is("else") \/ Is("extern") -> Choose(<<>>)
       [] Is("type")   -> Choose(<<"type", "var:def", "=", "Expression", "semicolon">>)
       [] Is("lbrace") -> Choose(<<"Block">>)
       [] Is("identifier") /\ NextIs("(") -> Choose(<<"Call">>)
       [] OTHER        -> ChooseBy(<<"ExpOpt", "semicolon">>, <<"ExpOpt", "any">>)

\* Faulty: the else is left to an outer if when there is one.
ElseOuter ==
  /\ Goal("Else")
  /\ Choose(IF Is("else") /\ \A i \in 2..Len(todo) : todo[i] # "Else"
            THEN <<"else", "Statement">> ELSE <<>>)

Else == Goal("Else") /\ Choose(IF Is("else") THEN <<"else", "Statement">> ELSE <<>>)

Optional ==
  \/ Goal("ExpOpt")   /\ Choose(IF Is("semicolon") THEN <<>> ELSE <<"Expression">>)
  \/ Goal("BoolOpt")  /\ Choose(IF Is("semicolon") THEN <<>> ELSE <<"Bool">>)
  \/ Goal("AfterOpt") /\ Choose(IF Is(")") THEN <<>> ELSE <<"Expression">>)

-----------------------------------------------------------------------------
(* Expressions.                                                            *)

\* An identifier with a bracket after it is never left; an assignment to an unknown
\* name is logged and builds nothing.
Expression ==
  /\ Goal("Expression")
  /\ ~ (Is("identifier") /\ NextIs("["))
  /\ Choose(IF ~ (Is("identifier") /\ NextIs("=")) THEN <<"Arithmetic">>
            ELSE IF HasVarDefine(Current[2]) THEN <<"var:set", "=", "Expression">>
            ELSE <<>>)

Arithmetic ==
  \/ Goal("Arithmetic") /\ Choose(<<"Item", "ArithMore">>)
  \/ Goal("ArithMore")  /\ Choose(IF Is("+") THEN <<"+", "Item", "ArithMore">> ELSE <<>>)
  \/ Goal("Item")       /\ Choose(<<"Factor", "ItemMore">>)
  \/ Goal("ItemMore")   /\ Choose(IF Is("/") THEN <<"/", "Factor", "ItemMore">> ELSE <<>>)

\* An expression in parentheses is not implemented.
Factor ==
  /\ Goal("Factor")
  /\ CASE Is("identifier") /\ NextIs("(") -> Choose(<<"Call">>)
       [] Is("identifier") /\ ~ NextIs("(") -> Choose(<<"var:use">>)
       [] Is("integer")    -> ChooseBy(<<"integer">>, <<"any">>)
       [] Is("lbrace")     -> Choose(<<"lbrace", "ArrayData", "rbrace">>)
       [] Is("chars")      -> Choose(<<"chars">>)
       [] Is("pointer")    -> Choose(<<"pointer", "var:adr">>)
       [] OTHER            -> Exit

ArrayData ==
  \/ Goal("ArrayData") /\ ChooseBy(<<"integer", "ArrayMore">>, <<"any", "ArrayMore">>)
  \/ Goal("ArrayMore") /\ Choose(IF Is("comma") THEN <<"comma", "ArrayData">> ELSE <<>>)

\* A missing parenthesis is only logged.
Call ==
  \/ /\ Goal("Call")
     /\ ChooseBy(<<"method:use", "(", "ObjectOpt", ")">>,
                 <<"method:use", "any", "ObjectOpt", "any">>)
  \/ Goal("ObjectOpt")  /\ Choose(IF Is(")") THEN <<>> ELSE <<"ObjectList">>)
  \/ Goal("ObjectList") /\ Choose(<<"Expression", "ObjectMore">>)
  \/ Goal("ObjectMore") /\ Choose(IF Is("comma") THEN <<"comma", "ObjectList">> ELSE <<>>)

Bool ==
  \/ Goal("Bool")         /\ Choose(<<"BoolItem", "BoolMore">>)
  \/ Goal("BoolMore")     /\ Choose(IF Is("||") THEN <<"||", "Bool">> ELSE <<>>)
  \/ Goal("BoolItem")     /\ Choose(<<"BoolFactor", "BoolItemMore">>)
  \/ Goal("BoolItemMore") /\ Choose(IF Is("&&") THEN <<"&&", "BoolItem">> ELSE <<>>)
  \/ Goal("BoolFactor")   /\ Choose(IF Is("!") THEN <<"!", "BoolFactor">>
                                    ELSE <<"Arithmetic", "==", "Arithmetic">>)

-----------------------------------------------------------------------------
(* Tokens.                                                                 *)

\* Tokens whose kind is checked.
Checked == {"extern", "type", "if", "else", "while", "for", "return", "=", "+", "/", "==",
            "!", "||", "&&", "(", ")", "lbrace", "rbrace", "comma", "semicolon", "chars", "pointer"}

Take ==
  \/ /\ todo # <<>> /\ Head(todo) \in Checked /\ Ready
     /\ IF Is(Head(todo))
        THEN Consume(Head(todo)) /\ UNCHANGED <<varStack, methodList>>
        ELSE Exit
  \/ /\ Goal("any")
     /\ Consume(Current[1]) /\ UNCHANGED <<varStack, methodList>>

\* addVar.
DefineVar ==
  /\ Goal("var:def")
  /\ IF ~ Is("identifier") THEN Exit
     ELSE Consume("var:def") /\ AddVar(Current[2]) /\ UNCHANGED methodList

\* The name a & or * is applied to, and the target of an assignment, are not looked
\* up here.
UseName ==
  \/ /\ Goal("var:use")
     /\ IF HasVarDefine(Current[2])
        THEN Consume("var:use") /\ UNCHANGED <<varStack, methodList>>
        ELSE Exit
  \/ /\ Goal("method:use")
     /\ IF HasMethodDefine(Current[2])
        THEN Consume("method:use") /\ UNCHANGED <<varStack, methodList>>
        ELSE Exit
  \/ /\ Goal("var:set")
     /\ Consume("var:set") /\ UNCHANGED <<varStack, methodList>>
  \/ /\ Goal("var:adr")
     /\ Consume("var:adr") /\ UNCHANGED <<varStack, methodList>>

-----------------------------------------------------------------------------
Init ==
  /\ Lang!Init
  /\ author = Start
  /\ plan = <<>>
  /\ todo = <<"Program">>
  /\ varStack = <<>>
  /\ methodList = {}

\* travelAst, one step.
TravelAst ==
  \/ ProgramNode \/ MethodDefine \/ PushMethod \/ PopMethod \/ Params
  \/ Block \/ Statement \/ Else \/ Optional
  \/ Expression \/ Arithmetic \/ Factor \/ ArrayData \/ Call \/ Bool
  \/ Take \/ DefineVar \/ UseName

Next == Write \/ TravelAst

\* The text is there already, and the parser runs.
Spec == Init /\ [][Next]_vars /\ WF_vars(Next)

-----------------------------------------------------------------------------
(* Properties.                                                             *)

\* The type invariant.  Methods do not nest: one is popped before the next is pushed.
TypeOK ==
  /\ Len(varStack) <= 1
  /\ \A i \in DOMAIN varStack : varStack[i] \subseteq VarNames
  /\ methodList \subseteq MethodNames
  /\ \A i, j, k \in Tokens : i = j \/ j = k \/ k = i
  /\ said[1] \in {"rule", "token", "reject"}

\* Two tokens are enough: the parser builds the tree the text was derived from, an
\* else goes to the nearest if, and a name is rejected (hasVarDefine,
\* hasMethodDefine) exactly when no parameter or definition before it in the same
\* method, or no method before it, has it.
FollowsAuthor ==
  [][Len(plan') < Len(plan) => said' = Head(plan)]_vars

\* Whatever the parser does is a derivation of the language, and it goes on until
\* the text is derived or rejected: no node waits for a token that never comes, and
\* none is entered again and again without one.
Parses == Lang!Spec

=============================================================================

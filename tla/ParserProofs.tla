---------------------------- MODULE ParserProofs ----------------------------
(***************************************************************************)
(* Whatever text its author writes, with however many names and however    *)
(* deep, the parser builds the tree the author meant, and rejects exactly  *)
(* the names that are not defined.                                         *)
(*                                                                         *)
(* The argument: the author's plan leads from the parser's text to the     *)
(* author's (Derivation).  What may stand behind a symbol (Follow) and the *)
(* tokens that may be next (Starts) are those the rules allow; what holds  *)
(* of a text and is kept by the rules still holds where the next token is  *)
(* said (Guided), so the token in front, and the one behind it, decide     *)
(* which rule the plan begins with (NodeSeen).  The parser's goals are the *)
(* text's symbols (Matches), and its scope has the text's variables        *)
(* (Scoped), so that it finds a name exactly when the text knows it.       *)
(***************************************************************************)
EXTENDS Parser, TLAPS

-----------------------------------------------------------------------------
(* What may come next.                                                     *)

Terminals == {"extern", "type", "if", "else", "while", "for", "return", "=", "+", "/", "==",
              "!", "||", "&&", "(", ")", "lbrace", "rbrace", "comma", "semicolon", "chars",
              "pointer", "integer"}
             \cup Identifiers

Symbols == Compound \cup Terminals

\* Symbol i of a form; "end" is behind the last one.
At(form, i) == IF i \in DOMAIN form THEN form[i] ELSE "end"

\* The symbols that may stand behind s in a form.
Follow(s) ==
  CASE s \in {"Program", "MethodSeq", "MethodMore"}     -> {"end"}
    [] s \in {"MethodDefine", "MethodEnd"}              -> {"MethodMore"}
    [] s = "MethodBody"                                 -> {"MethodEnd"}
    [] s = "extern"                                     -> {"type"}
    [] s = "type"                                       -> {"method:def", "var:def"}
    [] s \in {"method:def", "method:use", "if", "while", "for"}
                                                        -> {"("}
    [] s = "var:def"                                    -> {"=", "ParamMore"}
    [] s = "("
          -> {"ParamOpt", "Bool", "ExpOpt", "ObjectOpt"}
    [] s = ")"
          -> {"semicolon", "MethodBody", "Statement", "StatementMore", "Else", "ItemMore"}
    [] s = "lbrace"                                     -> {"StatementOpt", "ArrayData"}
    [] s = "rbrace"
          -> {"MethodEnd", "StatementMore", "Else", "ItemMore"}
    [] s = "semicolon"
          -> {"MethodEnd", "StatementMore", "Else", "BoolOpt", "AfterOpt"}
    [] s = "comma"                                      -> {"ParamList", "ArrayData", "ObjectList"}
    [] s \in {"ParamOpt", "ParamList", "ParamMore", "ObjectOpt", "ObjectList", "ObjectMore",
              "AfterOpt"} -> {")"}
    [] s \in {"StatementOpt", "StatementSeq", "StatementMore", "ArrayData", "ArrayMore"}
                                                        -> {"rbrace"}
    [] s = "Block"                                      -> {"MethodEnd", "StatementMore", "Else"}
    [] s \in {"Statement", "Else"}                      -> {"StatementMore", "Else"}
    [] s = "else"                                       -> {"Statement"}
    [] s = "return"                                     -> {"ExpOpt"}
    [] s \in {"ExpOpt", "BoolOpt"}                      -> {"semicolon"}
    [] s = "var:set"                                    -> {"="}
    [] s = "="                                          -> {"Expression"}
    [] s = "Expression"                                 -> {"semicolon", ")", "ObjectMore"}
    [] s \in {"Arithmetic", "ArithMore"}
          -> {"semicolon", ")", "ObjectMore", "==", "BoolItemMore"}
    [] s = "+"                                          -> {"Item"}
    [] s \in {"Item", "ItemMore"}                       -> {"ArithMore"}
    [] s = "/"                                          -> {"Factor"}
    [] s \in {"Factor", "var:use", "var:adr", "chars"}  -> {"ItemMore"}
    [] s = "pointer"                                    -> {"var:adr"}
    [] s = "integer"                                    -> {"ItemMore", "ArrayMore"}
    [] s = "Call"                                       -> {"StatementMore", "Else", "ItemMore"}
    [] s \in {"Bool", "BoolMore"}                       -> {")", "semicolon"}
    [] s = "||"                                         -> {"Bool"}
    [] s \in {"BoolItem", "BoolItemMore"}               -> {"BoolMore"}
    [] s = "&&"                                         -> {"BoolItem"}
    [] s = "BoolFactor"                                 -> {"BoolItemMore"}
    [] s = "!"                                          -> {"BoolFactor"}
    [] s = "=="                                         -> {"Arithmetic"}
    [] OTHER                                            -> {}

\* The tokens a part may begin with.
Operand  == {"var:use", "method:use", "pointer", "integer", "chars", "lbrace"}
Assigned == Operand \cup {"var:set"}
Tested   == Operand \cup {"!"}
Sentence == Assigned \cup {"semicolon", "if", "while", "for", "return", "type"}

\* The tokens that may be next when s is the first symbol of a form.
Starts(s) ==
  CASE s \in {"Program", "MethodMore", "MethodEnd"}          -> {"end", "extern", "type"}
    [] s \in {"MethodSeq", "MethodDefine"}                   -> {"extern", "type"}
    [] s = "MethodBody"                                      -> {"semicolon", "lbrace"}
    [] s = "ParamOpt"                                        -> {")", "type"}
    [] s = "ParamList"                                       -> {"type"}
    [] s \in {"ParamMore", "ObjectMore"}                     -> {")", "comma"}
    [] s = "Block"                                           -> {"lbrace"}
    [] s \in {"StatementOpt", "StatementMore"}               -> Sentence \cup {"rbrace"}
    [] s \in {"StatementSeq", "Statement"}                   -> Sentence
    [] s = "Else"                                            -> Sentence \cup {"rbrace", "else"}
    [] s = "ExpOpt"                                          -> Assigned \cup {"semicolon"}
    [] s \in {"AfterOpt", "ObjectOpt"}                       -> Assigned \cup {")"}
    [] s \in {"Expression", "ObjectList"}                    -> Assigned
    [] s \in {"Arithmetic", "Item", "Factor"}                -> Operand
    [] s = "ItemMore"                -> {"/", "+", "semicolon", ")", "comma", "==", "&&", "||"}
    [] s = "ArithMore"               -> {"+", "semicolon", ")", "comma", "==", "&&", "||"}
    [] s = "ArrayData"                                       -> {"integer"}
    [] s = "ArrayMore"                                       -> {"comma", "rbrace"}
    [] s = "Call"                                            -> {"method:use"}
    [] s = "BoolOpt"                                         -> Tested \cup {"semicolon"}
    [] s \in {"Bool", "BoolItem", "BoolFactor"}              -> Tested
    [] s = "BoolItemMore"                                    -> {"&&", "||", ")", "semicolon"}
    [] s = "BoolMore"                                        -> {"||", ")", "semicolon"}
    [] OTHER                                                 -> {s}

-----------------------------------------------------------------------------
(* The invariant.                                                          *)

Texts == [form : Seq(Symbols), settled : SUBSET {"noElse", "expression"},
          vars : SUBSET VarNames, methods : SUBSET MethodNames]

\* The symbols of a form stand behind each other as in the rules.
Formed(g) == \A i \in DOMAIN g.form : At(g.form, i + 1) \in Follow(g.form[i])

\* Between two methods, and in one, before (k > 0) or behind its name.
Between(form) == form \in {<<>>, <<"Program">>, <<"MethodSeq">>, <<"MethodMore">>,
                           <<"MethodDefine", "MethodMore">>}

Outer == {"Program", "MethodSeq", "MethodMore", "MethodDefine", "MethodEnd", "extern", "method:def"}

Within(form, k) ==
  /\ k + 2 <= Len(form)
  /\ form[Len(form) - 1] = "MethodEnd" /\ form[Len(form)] = "MethodMore"
  /\ \A i \in 1 .. k - 1 : form[i] \in {"extern", "type"}
  /\ k > 0 => form[k] = "method:def"
  /\ \A i \in k + 1 .. Len(form) - 2 : form[i] \notin Outer

\* The variables of the open method are those of the text.
Scoped(g, stack) ==
  \/ /\ Between(g.form)
     /\ g.vars = {} /\ stack = <<>>
  \/ \E k \in 0 .. 3 :
       /\ Within(g.form, k)
       /\ IF k = 0 THEN stack = <<g.vars>> ELSE g.vars = {} /\ stack = <<>>

\* The tokens taken for granted.
Granted == {"(", ")", "semicolon", "integer"}

Matches(goals, form) ==
  /\ Len(goals) = Len(form)
  /\ \A i \in DOMAIN form : goals[i] = form[i] \/ (goals[i] = "any" /\ form[i] \in Granted)

\* What holds of a text and stays true until the next token.
Kept(P) == \A g \in P : Formed(g) => \A e \in Steps(g) : e[1] = "rule" => After(g, e) \in P

\* The texts the steps p lead through.
Derivation(d, p, from, to) ==
  /\ d \in [0 .. Len(p) -> Texts]
  /\ d[0] = from /\ d[Len(p)] = to
  /\ \A i \in 0 .. Len(p) : Formed(d[i])
  /\ \A i \in 1 .. Len(p) : p[i] \in Steps(d[i - 1]) /\ d[i] = After(d[i - 1], Written(p[i]))

\* What stays true until the next token does so along p.
Guided(d, p) ==
  \A P \in SUBSET Texts : Kept(P) =>
    \A i, j \in 0 .. Len(p) :
      i <= j /\ d[i] \in P /\ (\A m \in i + 1 .. j : p[m][1] = "rule") => d[j] \in P

AllSteps == UNION {Steps(g) : g \in Texts}

\* The parser has come to the end, or exited.
Over == text.form = <<>> /\ todo = <<>>

\* A goal is a symbol, or a token taken for granted.
Goals == Symbols \cup {"any"}

Types == /\ TypeOK
         /\ author \in Texts /\ Formed(author)
         /\ plan \in Seq(AllSteps)
         /\ todo \in Seq(Goals)

\* The parser follows the plan.
Follows == /\ \E d : Derivation(d, plan, text, author) /\ Guided(d, plan)
           /\ methodList = text.methods
           /\ Scoped(text, varStack)
           /\ Matches(todo, text.form)

ParserInv == Types /\ (Over \/ Follows)

-----------------------------------------------------------------------------
(* The grammar.                                                            *)

\* What a rule has to be for the tables: alt is an alternative of s.
Fits(s, alt) ==
  /\ alt \in Seq(Symbols)
  /\ \A i \in 1 .. Len(alt) - 1 : alt[i + 1] \in Follow(alt[i])
  /\ alt # <<>> => Follow(s) \subseteq Follow(alt[Len(alt)]) /\ Starts(alt[1]) \subseteq Starts(s)
  /\ alt = <<>> => \A b \in Follow(s) : Starts(b) \subseteq Starts(s)
  /\ s \notin Outer => \A i \in 1 .. Len(alt) : alt[i] \notin Outer

(* The symbols that have parts, one by one.                                *)
LEMMA CompoundIs ==
  Compound =
    {"Program", "MethodSeq", "MethodMore", "MethodDefine", "MethodBody", "MethodEnd",
     "ParamOpt", "ParamList", "ParamMore",
     "Block", "StatementOpt", "StatementSeq", "StatementMore", "Statement", "Else",
     "ExpOpt", "AfterOpt",
     "Expression", "Arithmetic", "ArithMore", "Item", "ItemMore", "Factor",
     "ArrayData", "ArrayMore", "Call", "ObjectOpt", "ObjectList", "ObjectMore",
     "BoolOpt", "Bool", "BoolMore", "BoolItem", "BoolItemMore", "BoolFactor"}
BY DEF Compound, MethodRules, StatementRules, ExpressionRules, BoolRules

(* The tables fit the rules: what may follow a part may follow its last    *)
(* symbol, and the tokens that may start an alternative may start the part;*)
(* when a part is left out, so may those that follow it.                   *)
LEMMA RulesFit == \A s \in Compound : \A alt \in Rules[s] : Fits(s, alt)
<1>. USE DEF Follow, Starts, Operand, Assigned, Tested, Sentence
<1>1. \A alt \in Rules["Program"] : Fits("Program", alt)
  <2>1. Fits("Program", <<>>)
    BY CompoundIs DEF Fits, Symbols, Terminals, Identifiers, Outer
  <2>2. Fits("Program", <<"MethodSeq">>)
    BY CompoundIs DEF Fits, Symbols, Terminals, Identifiers, Outer
  <2>. QED
    BY <2>1, <2>2 DEF Rules, Compound, MethodRules, StatementRules, ExpressionRules, BoolRules
<1>2. \A alt \in Rules["MethodSeq"] : Fits("MethodSeq", alt)
  <2>1. Fits("MethodSeq", <<"MethodDefine", "MethodMore">>)
    BY CompoundIs DEF Fits, Symbols, Terminals, Identifiers, Outer
  <2>. QED
    BY <2>1 DEF Rules, Compound, MethodRules, StatementRules, ExpressionRules, BoolRules
<1>3. \A alt \in Rules["MethodMore"] : Fits("MethodMore", alt)
  <2>1. Fits("MethodMore", <<>>)
    BY CompoundIs DEF Fits, Symbols, Terminals, Identifiers, Outer
  <2>2. Fits("MethodMore", <<"MethodSeq">>)
    BY CompoundIs DEF Fits, Symbols, Terminals, Identifiers, Outer
  <2>. QED
    BY <2>1, <2>2 DEF Rules, Compound, MethodRules, StatementRules, ExpressionRules, BoolRules
<1>4. \A alt \in Rules["MethodDefine"] : Fits("MethodDefine", alt)
  <2>1. Fits("MethodDefine",
            <<"extern", "type", "method:def", "(", "ParamOpt", ")", "semicolon", "MethodEnd">>)
    BY CompoundIs DEF Fits, Symbols, Terminals, Identifiers, Outer
  <2>2. Fits("MethodDefine",
            <<"type", "method:def", "(", "ParamOpt", ")", "MethodBody", "MethodEnd">>)
    BY CompoundIs DEF Fits, Symbols, Terminals, Identifiers, Outer
  <2>. QED
    BY <2>1, <2>2 DEF Rules, Compound, MethodRules, StatementRules, ExpressionRules, BoolRules
<1>5. \A alt \in Rules["MethodBody"] : Fits("MethodBody", alt)
  <2>1. Fits("MethodBody", <<"semicolon">>)
    BY CompoundIs DEF Fits, Symbols, Terminals, Identifiers, Outer
  <2>2. Fits("MethodBody", <<"Block">>)
    BY CompoundIs DEF Fits, Symbols, Terminals, Identifiers, Outer
  <2>. QED
    BY <2>1, <2>2 DEF Rules, Compound, MethodRules, StatementRules, ExpressionRules, BoolRules
<1>6. \A alt \in Rules["MethodEnd"] : Fits("MethodEnd", alt)
  <2>1. Fits("MethodEnd", <<>>)
    BY CompoundIs DEF Fits, Symbols, Terminals, Identifiers, Outer
  <2>. QED
    BY <2>1 DEF Rules, Compound, MethodRules, StatementRules, ExpressionRules, BoolRules
<1>7. \A alt \in Rules["ParamOpt"] : Fits("ParamOpt", alt)
  <2>1. Fits("ParamOpt", <<>>)
    BY CompoundIs DEF Fits, Symbols, Terminals, Identifiers, Outer
  <2>2. Fits("ParamOpt", <<"ParamList">>)
    BY CompoundIs DEF Fits, Symbols, Terminals, Identifiers, Outer
  <2>. QED
    BY <2>1, <2>2 DEF Rules, Compound, MethodRules, StatementRules, ExpressionRules, BoolRules
<1>8. \A alt \in Rules["ParamList"] : Fits("ParamList", alt)
  <2>1. Fits("ParamList", <<"type", "var:def", "ParamMore">>)
    BY CompoundIs DEF Fits, Symbols, Terminals, Identifiers, Outer
  <2>. QED
    BY <2>1 DEF Rules, Compound, MethodRules, StatementRules, ExpressionRules, BoolRules
<1>9. \A alt \in Rules["ParamMore"] : Fits("ParamMore", alt)
  <2>1. Fits("ParamMore", <<>>)
    BY CompoundIs DEF Fits, Symbols, Terminals, Identifiers, Outer
  <2>2. Fits("ParamMore", <<"comma", "ParamList">>)
    BY CompoundIs DEF Fits, Symbols, Terminals, Identifiers, Outer
  <2>. QED
    BY <2>1, <2>2 DEF Rules, Compound, MethodRules, StatementRules, ExpressionRules, BoolRules
<1>10. \A alt \in Rules["Block"] : Fits("Block", alt)
  <2>1. Fits("Block", <<"lbrace", "StatementOpt", "rbrace">>)
    BY CompoundIs DEF Fits, Symbols, Terminals, Identifiers, Outer
  <2>. QED
    BY <2>1 DEF Rules, Compound, MethodRules, StatementRules, ExpressionRules, BoolRules
<1>11. \A alt \in Rules["StatementOpt"] : Fits("StatementOpt", alt)
  <2>1. Fits("StatementOpt", <<>>)
    BY CompoundIs DEF Fits, Symbols, Terminals, Identifiers, Outer
  <2>2. Fits("StatementOpt", <<"StatementSeq">>)
    BY CompoundIs DEF Fits, Symbols, Terminals, Identifiers, Outer
  <2>. QED
    BY <2>1, <2>2 DEF Rules, Compound, MethodRules, StatementRules, ExpressionRules, BoolRules
<1>12. \A alt \in Rules["StatementSeq"] : Fits("StatementSeq", alt)
  <2>1. Fits("StatementSeq", <<"Statement", "StatementMore">>)
    BY CompoundIs DEF Fits, Symbols, Terminals, Identifiers, Outer
  <2>. QED
    BY <2>1 DEF Rules, Compound, MethodRules, StatementRules, ExpressionRules, BoolRules
<1>13. \A alt \in Rules["StatementMore"] : Fits("StatementMore", alt)
  <2>1. Fits("StatementMore", <<>>)
    BY CompoundIs DEF Fits, Symbols, Terminals, Identifiers, Outer
  <2>2. Fits("StatementMore", <<"StatementSeq">>)
    BY CompoundIs DEF Fits, Symbols, Terminals, Identifiers, Outer
  <2>. QED
    BY <2>1, <2>2 DEF Rules, Compound, MethodRules, StatementRules, ExpressionRules, BoolRules
<1>14. \A alt \in Rules["Statement"] : Fits("Statement", alt)
  <2>1. Fits("Statement", <<"if", "(", "Bool", ")", "Statement", "Else">>)
    BY CompoundIs DEF Fits, Symbols, Terminals, Identifiers, Outer
  <2>2. Fits("Statement", <<"while", "(", "Bool", ")", "Statement">>)
    BY CompoundIs DEF Fits, Symbols, Terminals, Identifiers, Outer
  <2>3. Fits("Statement",
            <<"for", "(", "ExpOpt", "semicolon", "BoolOpt", "semicolon", "AfterOpt", ")",
              "Statement">>)
    BY CompoundIs DEF Fits, Symbols, Terminals, Identifiers, Outer
  <2>4. Fits("Statement", <<"return", "ExpOpt", "semicolon">>)
    BY CompoundIs DEF Fits, Symbols, Terminals, Identifiers, Outer
  <2>5. Fits("Statement", <<"type", "var:def", "=", "Expression", "semicolon">>)
    BY CompoundIs DEF Fits, Symbols, Terminals, Identifiers, Outer
  <2>6. Fits("Statement", <<"Block">>)
    BY CompoundIs DEF Fits, Symbols, Terminals, Identifiers, Outer
  <2>7. Fits("Statement", <<"Call">>)
    BY CompoundIs DEF Fits, Symbols, Terminals, Identifiers, Outer
  <2>8. Fits("Statement", <<"ExpOpt", "semicolon">>)
    BY CompoundIs DEF Fits, Symbols, Terminals, Identifiers, Outer
  <2>. QED
    BY <2>1, <2>2, <2>3, <2>4, <2>5, <2>6, <2>7, <2>8
    DEF Rules, Compound, MethodRules, StatementRules, ExpressionRules, BoolRules
<1>15. \A alt \in Rules["Else"] : Fits("Else", alt)
  <2>1. Fits("Else", <<>>)
    BY CompoundIs DEF Fits, Symbols, Terminals, Identifiers, Outer
  <2>2. Fits("Else", <<"else", "Statement">>)
    BY CompoundIs DEF Fits, Symbols, Terminals, Identifiers, Outer
  <2>. QED
    BY <2>1, <2>2 DEF Rules, Compound, MethodRules, StatementRules, ExpressionRules, BoolRules
<1>16. \A alt \in Rules["ExpOpt"] : Fits("ExpOpt", alt)
  <2>1. Fits("ExpOpt", <<>>)
    BY CompoundIs DEF Fits, Symbols, Terminals, Identifiers, Outer
  <2>2. Fits("ExpOpt", <<"Expression">>)
    BY CompoundIs DEF Fits, Symbols, Terminals, Identifiers, Outer
  <2>. QED
    BY <2>1, <2>2 DEF Rules, Compound, MethodRules, StatementRules, ExpressionRules, BoolRules
<1>17. \A alt \in Rules["AfterOpt"] : Fits("AfterOpt", alt)
  <2>1. Fits("AfterOpt", <<>>)
    BY CompoundIs DEF Fits, Symbols, Terminals, Identifiers, Outer
  <2>2. Fits("AfterOpt", <<"Expression">>)
    BY CompoundIs DEF Fits, Symbols, Terminals, Identifiers, Outer
  <2>. QED
    BY <2>1, <2>2 DEF Rules, Compound, MethodRules, StatementRules, ExpressionRules, BoolRules
<1>18. \A alt \in Rules["Expression"] : Fits("Expression", alt)
  <2>1. Fits("Expression", <<"var:set", "=", "Expression">>)
    BY CompoundIs DEF Fits, Symbols, Terminals, Identifiers, Outer
  <2>2. Fits("Expression", <<"Arithmetic">>)
    BY CompoundIs DEF Fits, Symbols, Terminals, Identifiers, Outer
  <2>. QED
    BY <2>1, <2>2 DEF Rules, Compound, MethodRules, StatementRules, ExpressionRules, BoolRules
<1>19. \A alt \in Rules["Arithmetic"] : Fits("Arithmetic", alt)
  <2>1. Fits("Arithmetic", <<"Item", "ArithMore">>)
    BY CompoundIs DEF Fits, Symbols, Terminals, Identifiers, Outer
  <2>. QED
    BY <2>1 DEF Rules, Compound, MethodRules, StatementRules, ExpressionRules, BoolRules
<1>20. \A alt \in Rules["ArithMore"] : Fits("ArithMore", alt)
  <2>1. Fits("ArithMore", <<>>)
    BY CompoundIs DEF Fits, Symbols, Terminals, Identifiers, Outer
  <2>2. Fits("ArithMore", <<"+", "Item", "ArithMore">>)
    BY CompoundIs DEF Fits, Symbols, Terminals, Identifiers, Outer
  <2>. QED
    BY <2>1, <2>2 DEF Rules, Compound, MethodRules, StatementRules, ExpressionRules, BoolRules
<1>21. \A alt \in Rules["Item"] : Fits("Item", alt)
  <2>1. Fits("Item", <<"Factor", "ItemMore">>)
    BY CompoundIs DEF Fits, Symbols, Terminals, Identifiers, Outer
  <2>. QED
    BY <2>1 DEF Rules, Compound, MethodRules, StatementRules, ExpressionRules, BoolRules
<1>22. \A alt \in Rules["ItemMore"] : Fits("ItemMore", alt)
  <2>1. Fits("ItemMore", <<>>)
    BY CompoundIs DEF Fits, Symbols, Terminals, Identifiers, Outer
  <2>2. Fits("ItemMore", <<"/", "Factor", "ItemMore">>)
    BY CompoundIs DEF Fits, Symbols, Terminals, Identifiers, Outer
  <2>. QED
    BY <2>1, <2>2 DEF Rules, Compound, MethodRules, StatementRules, ExpressionRules, BoolRules
<1>23. \A alt \in Rules["Factor"] : Fits("Factor", alt)
  <2>1. Fits("Factor", <<"var:use">>)
    BY CompoundIs DEF Fits, Symbols, Terminals, Identifiers, Outer
  <2>2. Fits("Factor", <<"pointer", "var:adr">>)
    BY CompoundIs DEF Fits, Symbols, Terminals, Identifiers, Outer
  <2>3. Fits("Factor", <<"integer">>)
    BY CompoundIs DEF Fits, Symbols, Terminals, Identifiers, Outer
  <2>4. Fits("Factor", <<"chars">>)
    BY CompoundIs DEF Fits, Symbols, Terminals, Identifiers, Outer
  <2>5. Fits("Factor", <<"lbrace", "ArrayData", "rbrace">>)
    BY CompoundIs DEF Fits, Symbols, Terminals, Identifiers, Outer
  <2>6. Fits("Factor", <<"Call">>)
    BY CompoundIs DEF Fits, Symbols, Terminals, Identifiers, Outer
  <2>. QED
    BY <2>1, <2>2, <2>3, <2>4, <2>5, <2>6
    DEF Rules, Compound, MethodRules, StatementRules, ExpressionRules, BoolRules
<1>24. \A alt \in Rules["ArrayData"] : Fits("ArrayData", alt)
  <2>1. Fits("ArrayData", <<"integer", "ArrayMore">>)
    BY CompoundIs DEF Fits, Symbols, Terminals, Identifiers, Outer
  <2>. QED
    BY <2>1 DEF Rules, Compound, MethodRules, StatementRules, ExpressionRules, BoolRules
<1>25. \A alt \in Rules["ArrayMore"] : Fits("ArrayMore", alt)
  <2>1. Fits("ArrayMore", <<>>)
    BY CompoundIs DEF Fits, Symbols, Terminals, Identifiers, Outer
  <2>2. Fits("ArrayMore", <<"comma", "ArrayData">>)
    BY CompoundIs DEF Fits, Symbols, Terminals, Identifiers, Outer
  <2>. QED
    BY <2>1, <2>2 DEF Rules, Compound, MethodRules, StatementRules, ExpressionRules, BoolRules
<1>26. \A alt \in Rules["Call"] : Fits("Call", alt)
  <2>1. Fits("Call", <<"method:use", "(", "ObjectOpt", ")">>)
    BY CompoundIs DEF Fits, Symbols, Terminals, Identifiers, Outer
  <2>. QED
    BY <2>1 DEF Rules, Compound, MethodRules, StatementRules, ExpressionRules, BoolRules
<1>27. \A alt \in Rules["ObjectOpt"] : Fits("ObjectOpt", alt)
  <2>1. Fits("ObjectOpt", <<>>)
    BY CompoundIs DEF Fits, Symbols, Terminals, Identifiers, Outer
  <2>2. Fits("ObjectOpt", <<"ObjectList">>)
    BY CompoundIs DEF Fits, Symbols, Terminals, Identifiers, Outer
  <2>. QED
    BY <2>1, <2>2 DEF Rules, Compound, MethodRules, StatementRules, ExpressionRules, BoolRules
<1>28. \A alt \in Rules["ObjectList"] : Fits("ObjectList", alt)
  <2>1. Fits("ObjectList", <<"Expression", "ObjectMore">>)
    BY CompoundIs DEF Fits, Symbols, Terminals, Identifiers, Outer
  <2>. QED
    BY <2>1 DEF Rules, Compound, MethodRules, StatementRules, ExpressionRules, BoolRules
<1>29. \A alt \in Rules["ObjectMore"] : Fits("ObjectMore", alt)
  <2>1. Fits("ObjectMore", <<>>)
    BY CompoundIs DEF Fits, Symbols, Terminals, Identifiers, Outer
  <2>2. Fits("ObjectMore", <<"comma", "ObjectList">>)
    BY CompoundIs DEF Fits, Symbols, Terminals, Identifiers, Outer
  <2>. QED
    BY <2>1, <2>2 DEF Rules, Compound, MethodRules, StatementRules, ExpressionRules, BoolRules
<1>30. \A alt \in Rules["BoolOpt"] : Fits("BoolOpt", alt)
  <2>1. Fits("BoolOpt", <<>>)
    BY CompoundIs DEF Fits, Symbols, Terminals, Identifiers, Outer
  <2>2. Fits("BoolOpt", <<"Bool">>)
    BY CompoundIs DEF Fits, Symbols, Terminals, Identifiers, Outer
  <2>. QED
    BY <2>1, <2>2 DEF Rules, Compound, MethodRules, StatementRules, ExpressionRules, BoolRules
<1>31. \A alt \in Rules["Bool"] : Fits("Bool", alt)
  <2>1. Fits("Bool", <<"BoolItem", "BoolMore">>)
    BY CompoundIs DEF Fits, Symbols, Terminals, Identifiers, Outer
  <2>. QED
    BY <2>1 DEF Rules, Compound, MethodRules, StatementRules, ExpressionRules, BoolRules
<1>32. \A alt \in Rules["BoolMore"] : Fits("BoolMore", alt)
  <2>1. Fits("BoolMore", <<>>)
    BY CompoundIs DEF Fits, Symbols, Terminals, Identifiers, Outer
  <2>2. Fits("BoolMore", <<"||", "Bool">>)
    BY CompoundIs DEF Fits, Symbols, Terminals, Identifiers, Outer
  <2>. QED
    BY <2>1, <2>2 DEF Rules, Compound, MethodRules, StatementRules, ExpressionRules, BoolRules
<1>33. \A alt \in Rules["BoolItem"] : Fits("BoolItem", alt)
  <2>1. Fits("BoolItem", <<"BoolFactor", "BoolItemMore">>)
    BY CompoundIs DEF Fits, Symbols, Terminals, Identifiers, Outer
  <2>. QED
    BY <2>1 DEF Rules, Compound, MethodRules, StatementRules, ExpressionRules, BoolRules
<1>34. \A alt \in Rules["BoolItemMore"] : Fits("BoolItemMore", alt)
  <2>1. Fits("BoolItemMore", <<>>)
    BY CompoundIs DEF Fits, Symbols, Terminals, Identifiers, Outer
  <2>2. Fits("BoolItemMore", <<"&&", "BoolItem">>)
    BY CompoundIs DEF Fits, Symbols, Terminals, Identifiers, Outer
  <2>. QED
    BY <2>1, <2>2 DEF Rules, Compound, MethodRules, StatementRules, ExpressionRules, BoolRules
<1>35. \A alt \in Rules["BoolFactor"] : Fits("BoolFactor", alt)
  <2>1. Fits("BoolFactor", <<"!", "BoolFactor">>)
    BY CompoundIs DEF Fits, Symbols, Terminals, Identifiers, Outer
  <2>2. Fits("BoolFactor", <<"Arithmetic", "==", "Arithmetic">>)
    BY CompoundIs DEF Fits, Symbols, Terminals, Identifiers, Outer
  <2>. QED
    BY <2>1, <2>2 DEF Rules, Compound, MethodRules, StatementRules, ExpressionRules, BoolRules
<1>. HIDE DEF Follow, Starts, Operand, Assigned, Tested, Sentence
<1>. QED
  BY CompoundIs,
     <1>1, <1>2, <1>3, <1>4, <1>5, <1>6, <1>7, <1>8, <1>9, <1>10, <1>11, <1>12,
     <1>13, <1>14, <1>15, <1>16, <1>17, <1>18, <1>19, <1>20, <1>21, <1>22, <1>23, <1>24,
     <1>25, <1>26, <1>27, <1>28, <1>29, <1>30, <1>31, <1>32, <1>33, <1>34, <1>35

-----------------------------------------------------------------------------
(* Sequences.                                                              *)

(* Two sequences behind each other.                                        *)
LEMMA ConcatIs ==
  ASSUME NEW S, NEW a \in Seq(S), NEW b \in Seq(S)
  PROVE  /\ a \o b \in Seq(S) /\ Len(a \o b) = Len(a) + Len(b)
         /\ Len(a) \in Nat /\ Len(b) \in Nat
         /\ \A i \in 1 .. Len(a) : (a \o b)[i] = a[i]
         /\ \A i \in 1 .. Len(b) : (a \o b)[Len(a) + i] = b[i]
OBVIOUS

(* A sequence without its first element.                                   *)
LEMMA TailIs ==
  ASSUME NEW S, NEW a \in Seq(S), a # <<>>, NEW c, c = Tail(a)
  PROVE  /\ c \in Seq(S) /\ Len(c) \in Nat /\ Len(a) = Len(c) + 1
         /\ \A i \in 1 .. Len(c) : c[i] = a[i + 1]
OBVIOUS

-----------------------------------------------------------------------------
(* Steps of a derivation.                                                  *)

(* What a step is, as Steps has it.                                        *)
LEMMA StepIs ==
  ASSUME NEW g \in Texts, NEW e \in Steps(g)
  PROVE  /\ g.form # <<>> /\ g.form[1] \in Symbols /\ e[2] = g.form[1]
         /\ \/ /\ e = <<"rule", e[2], e[3]>> /\ e[2] \in Compound
               /\ e[3] \in Rules[e[2]] /\ Allowed(g, e[2], e[3])
            \/ /\ e = <<"token", e[2], e[3]>> /\ e[2] \notin Compound
               /\ IF e[2] \in Identifiers THEN e[3] \in Known(g, e[2]) ELSE e[3] = "none"
            \/ /\ e = <<"reject", e[2], e[3]>> /\ e[2] \notin Compound
               /\ e[2] \in Identifiers \ {"var:set"} /\ e[3] \in Names(e[2]) \ Known(g, e[2])
<1>1. g.form \in Seq(Symbols)
  BY DEF Texts
<1>2. g.form # <<>>
  BY DEF Steps
<1>3. Head(g.form) = g.form[1] /\ g.form[1] \in Symbols
  BY <1>1, <1>2
<1>4. DOMAIN Rules = Compound
  BY DEF Rules
<1>. QED
  BY <1>2, <1>3, <1>4 DEF Steps

(* What a rule does to a text.                                             *)
LEMMA AfterRule ==
  ASSUME NEW g \in Texts, Formed(g), g.form # <<>>, g.form[1] \in Compound,
         NEW alt \in Rules[g.form[1]],
         NEW h, h = After(g, <<"rule", g.form[1], alt>>)
  PROVE  /\ h \in Texts /\ Formed(h)
         /\ h.form = alt \o Tail(g.form)
         /\ g.settled \subseteq h.settled /\ Settles(g.form[1], alt) \subseteq h.settled
         /\ h.vars = IF g.form[1] = "MethodEnd" THEN {} ELSE g.vars
         /\ h.methods = g.methods
         /\ IF alt = <<>> THEN At(h.form, 1) = At(g.form, 2) /\ At(h.form, 1) \in Follow(g.form[1])
            ELSE At(h.form, 1) = alt[1]
<1>. DEFINE s == g.form[1]
           f == g.form
           t == Tail(g.form)
<1>1. f \in Seq(Symbols) /\ f # <<>>
  BY DEF Texts
<1>2. Fits(s, alt)
  BY RulesFit
<1>3. alt \in Seq(Symbols)
  BY <1>2 DEF Fits
<1>4. Settles(s, alt) \subseteq {"noElse", "expression"}
  BY DEF Settles
<1>5. /\ h.form = alt \o t
      /\ h.settled = g.settled \cup Settles(s, alt)
      /\ h.vars = IF s = "MethodEnd" THEN {} ELSE g.vars
      /\ h.methods = g.methods
      /\ h = [form |-> h.form, settled |-> h.settled, vars |-> h.vars, methods |-> h.methods]
  BY DEF After, Texts
<1>. HIDE DEF t
<1>6. /\ t \in Seq(Symbols) /\ Len(t) \in Nat /\ Len(f) = Len(t) + 1
      /\ \A i \in 1 .. Len(t) : t[i] = f[i + 1]
  BY <1>1, TailIs DEF t
<1>. HIDE DEF f, s
<1>. DEFINE k == h.form
<1>7. /\ k \in Seq(Symbols) /\ Len(k) = Len(alt) + Len(t) /\ Len(alt) \in Nat
      /\ \A i \in 1 .. Len(alt) : k[i] = alt[i]
      /\ \A i \in 1 .. Len(t) : k[Len(alt) + i] = t[i]
  <2>1. /\ alt \o t \in Seq(Symbols) /\ Len(alt \o t) = Len(alt) + Len(t) /\ Len(alt) \in Nat
        /\ \A i \in 1 .. Len(alt) : (alt \o t)[i] = alt[i]
        /\ \A i \in 1 .. Len(t) : (alt \o t)[Len(alt) + i] = t[i]
    BY <1>3, <1>6, ConcatIs
  <2>. QED
    BY <2>1, <1>5
<1>8. h \in Texts
  BY <1>4, <1>5, <1>7 DEF Texts
<1>. HIDE DEF k
<1>9. \A i \in 1 .. Len(f) : At(f, i + 1) \in Follow(f[i])
  BY <1>1 DEF Formed, f
<1>10. \A i \in 1 .. Len(t) + 1 : At(k, Len(alt) + i) = At(f, i + 1)
  <2>. SUFFICES ASSUME NEW i \in 1 .. Len(t) + 1
                PROVE  At(k, Len(alt) + i) = At(f, i + 1)
    OBVIOUS
  <2>1. DOMAIN k = 1 .. Len(alt) + Len(t) /\ DOMAIN f = 1 .. Len(t) + 1 /\ Len(t) \in Nat
    BY <1>1, <1>6, <1>7
  <2>2. CASE i = Len(t) + 1
    <3>1. Len(alt) + i \notin DOMAIN k /\ i + 1 \notin DOMAIN f
      BY <2>1, <2>2, <1>7
    <3>. QED
      BY <3>1 DEF At
  <2>3. CASE i # Len(t) + 1
    <3>1. i \in 1 .. Len(t) /\ Len(alt) + i \in DOMAIN k /\ i + 1 \in DOMAIN f
      BY <2>1, <2>3, <1>7
    <3>2. k[Len(alt) + i] = t[i] /\ t[i] = f[i + 1]
      BY <3>1, <1>6, <1>7
    <3>. QED
      BY <3>1, <3>2 DEF At
  <2>. QED
    BY <2>2, <2>3
<1>11. Formed(h)
  <2>. SUFFICES ASSUME NEW i \in 1 .. Len(k)  PROVE At(k, i + 1) \in Follow(k[i])
    <3>. DOMAIN k = 1 .. Len(k)
      BY <1>7
    <3>. QED
      BY DEF Formed, k
  <2>1. CASE i < Len(alt)
    <3>1. i + 1 \in 1 .. Len(alt) /\ i \in 1 .. Len(alt) /\ i + 1 \in DOMAIN k
      BY <2>1, <1>6, <1>7
    <3>3. k[i + 1] = alt[i + 1] /\ k[i] = alt[i]
      BY <3>1, <1>7
    <3>2. alt[i + 1] \in Follow(alt[i])
      BY <2>1, <1>2, <1>7 DEF Fits
    <3>. QED
      BY <3>1, <3>2, <3>3 DEF At
  <2>2. CASE i = Len(alt)
    <3>1. At(k, i + 1) = At(f, 2)
      BY <2>2, <1>6, <1>10
    <3>2. At(f, 2) \in Follow(s)
      BY <1>6, <1>9 DEF s, f
    <3>3. alt # <<>> /\ k[i] = alt[Len(alt)]
      BY <2>2, <1>7
    <3>. QED
      BY <3>1, <3>2, <3>3, <1>2 DEF Fits
  <2>3. CASE i > Len(alt)
    <3>. DEFINE j == i - Len(alt)
    <3>1. j \in 1 .. Len(t) /\ i = Len(alt) + j /\ i + 1 = Len(alt) + (j + 1)
      BY <2>3, <1>6, <1>7
    <3>. HIDE DEF j
    <3>2. k[i] = f[j + 1]
      BY <3>1, <1>6, <1>7
    <3>3. At(k, i + 1) = At(f, (j + 1) + 1)
      BY <3>1, <1>6, <1>10
    <3>4. j + 1 \in 1 .. Len(f)
      BY <3>1, <1>6
    <3>. QED
      BY <3>2, <3>3, <3>4, <1>9
  <2>. QED
    BY <2>1, <2>2, <2>3, <1>7
<1>12. IF alt = <<>> THEN At(k, 1) = At(f, 2) /\ At(k, 1) \in Follow(s)
       ELSE At(k, 1) = alt[1]
  <2>1. CASE alt = <<>>
    <3>1. Len(alt) = 0
      BY <2>1
    <3>2. At(k, 1) = At(f, 2)
      BY <3>1, <1>6, <1>10
    <3>. QED
      BY <2>1, <3>2, <1>6, <1>9 DEF s, f
  <2>2. CASE alt # <<>>
    <3>1. 1 \in 1 .. Len(alt) /\ 1 \in DOMAIN k
      BY <2>2, <1>3, <1>6, <1>7
    <3>2. k[1] = alt[1]
      BY <3>1, <1>7
    <3>. QED
      BY <2>2, <3>1, <3>2 DEF At
  <2>. QED
    BY <2>1, <2>2
<1>. QED
  BY <1>5, <1>8, <1>11, <1>12 DEF s, f, t, k

\* A name is added to a set of names, and to the variables of the innermost method.
Plus(S, n)      == S \cup {n}
Noted(stack, n) == [stack EXCEPT ![Len(stack)] = @ \cup {n}]

(* What a token does to a text.                                            *)
LEMMA AfterToken ==
  ASSUME NEW g \in Texts, Formed(g), g.form # <<>>, NEW s, NEW n, s = g.form[1],
         s = "var:def" => n \in VarNames, s = "method:def" => n \in MethodNames,
         NEW h, h = After(g, <<"token", s, n>>)
  PROVE  /\ h \in Texts /\ Formed(h)
         /\ h.form = Tail(g.form)
         /\ h.vars = IF s = "var:def" THEN Plus(g.vars, n) ELSE g.vars
         /\ h.methods = IF s = "method:def" THEN Plus(g.methods, n) ELSE g.methods
         /\ At(h.form, 1) \in Follow(s)
<1>. DEFINE f == g.form
           t == Tail(g.form)
<1>1. f \in Seq(Symbols) /\ f # <<>>
  BY DEF Texts
<1>2. /\ h.form = t
      /\ h.vars = IF s = "var:def" THEN g.vars \cup {n} ELSE g.vars
      /\ h.methods = IF s = "method:def" THEN g.methods \cup {n} ELSE g.methods
      /\ h.settled = {}
      /\ h = [form |-> h.form, settled |-> h.settled, vars |-> h.vars, methods |-> h.methods]
  BY DEF After, Texts
<1>. HIDE DEF t
<1>3. /\ t \in Seq(Symbols) /\ Len(t) \in Nat /\ Len(f) = Len(t) + 1
      /\ \A i \in 1 .. Len(t) : t[i] = f[i + 1]
  BY <1>1, TailIs DEF t
<1>4. \A i \in 1 .. Len(f) : At(f, i + 1) \in Follow(f[i])
  BY <1>1 DEF Formed
<1>5. f[1] = s
  OBVIOUS
<1>6. h \in Texts
  <2>1. h.vars \subseteq VarNames /\ h.methods \subseteq MethodNames
    BY <1>2 DEF Texts
  <2>. QED
    BY <2>1, <1>2, <1>3 DEF Texts
<1>. HIDE DEF f
<1>7. \A i \in 1 .. Len(f) : At(t, i) = At(f, i + 1)
  <2>. SUFFICES ASSUME NEW i \in 1 .. Len(f)  PROVE At(t, i) = At(f, i + 1)
    OBVIOUS
  <2>1. DOMAIN t = 1 .. Len(f) - 1 /\ DOMAIN f = 1 .. Len(f)
    BY <1>1, <1>3
  <2>2. i \in DOMAIN t <=> i + 1 \in DOMAIN f
    BY <2>1, <1>3
  <2>3. i \in DOMAIN t => t[i] = f[i + 1]
    BY <2>1, <1>3
  <2>. QED
    BY <2>2, <2>3 DEF At
<1>8. Formed(h)
  <2>. SUFFICES ASSUME NEW i \in 1 .. Len(t)  PROVE At(t, i + 1) \in Follow(t[i])
    <3>. DOMAIN h.form = 1 .. Len(t) /\ h.form = t
      BY <1>2, <1>3
    <3>. QED
      BY DEF Formed
  <2>1. i + 1 \in 1 .. Len(f) /\ t[i] = f[i + 1]
    BY <1>3
  <2>2. At(t, i + 1) = At(f, (i + 1) + 1)
    BY <2>1, <1>7
  <2>. QED
    BY <2>1, <2>2, <1>4
<1>9. At(t, 1) \in Follow(s)
  <2>1. At(t, 1) = At(f, 1 + 1)
    BY <1>3, <1>7
  <2>. QED
    BY <2>1, <1>3, <1>4, <1>5
<1>. QED
  BY <1>2, <1>6, <1>8, <1>9 DEF t, Plus

(* A step leads from text to text.                                         *)
LEMMA AfterText ==
  ASSUME NEW g \in Texts, Formed(g), NEW e \in Steps(g)
  PROVE  After(g, Written(e)) \in Texts /\ Formed(After(g, Written(e)))
<1>1. CASE e[1] = "rule"
  <2>1. Written(e) = <<"rule", g.form[1], e[3]>> /\ g.form # <<>> /\ g.form[1] \in Compound
        /\ e[3] \in Rules[g.form[1]]
    BY <1>1, StepIs DEF Written
  <2>. QED
    BY <2>1, AfterRule
<1>2. CASE e[1] # "rule"
  <2>1. Written(e) = <<"token", g.form[1], e[3]>> /\ e[2] = g.form[1] /\ g.form # <<>>
    BY <1>2, StepIs DEF Written
  <2>2. e[2] \in {"var:def", "method:def"} => e[3] \in Names(e[2])
    BY <1>2, StepIs DEF Known, Identifiers
  <2>3. /\ g.form[1] = "var:def" => e[3] \in VarNames
        /\ g.form[1] = "method:def" => e[3] \in MethodNames
    BY <2>1, <2>2 DEF Names
  <2>4. PICK n : n = e[3]
    OBVIOUS
  <2>5. PICK h : h = After(g, <<"token", g.form[1], n>>)
    OBVIOUS
  <2>6. h \in Texts /\ Formed(h)
    BY <2>1, <2>3, <2>4, <2>5, AfterToken
  <2>. QED
    BY <2>1, <2>4, <2>5, <2>6
<1>. QED
  BY <1>1, <1>2

-----------------------------------------------------------------------------
(* The plan.                                                               *)

(* One more step of the to.                                                *)
LEMMA PlanGrows ==
  ASSUME NEW d, NEW p \in Seq(AllSteps), NEW from, NEW to, Derivation(d, p, from, to), Guided(d, p),
         NEW e \in Steps(to), NEW q, q = Append(p, e), NEW next, next = After(to, Written(e))
  PROVE  \E f : Derivation(f, q, from, next) /\ Guided(f, q)
<1>. DEFINE n == Len(p)
            f == [i \in 0 .. n + 1 |-> IF i = n + 1 THEN next ELSE d[i]]
<1>1. /\ n \in Nat /\ Len(q) = n + 1 /\ q[n + 1] = e
      /\ \A i \in 1 .. n : q[i] = p[i]
  <2>1. e \in AllSteps
    BY DEF Derivation, AllSteps
  <2>. QED
    BY <2>1
<1>2. to \in Texts /\ Formed(to) /\ next \in Texts /\ Formed(next)
  <2>1. to \in Texts /\ Formed(to)
    BY <1>1 DEF Derivation
  <2>. QED
    BY <2>1, AfterText
<1>3. /\ d \in [0 .. n -> Texts] /\ d[0] = from /\ d[n] = to
      /\ \A i \in 0 .. n : Formed(d[i])
      /\ \A i \in 1 .. n : p[i] \in Steps(d[i - 1]) /\ d[i] = After(d[i - 1], Written(p[i]))
  BY DEF Derivation
<1>. HIDE DEF n
<1>4. /\ f \in [0 .. n + 1 -> Texts] /\ f[n + 1] = next
      /\ \A i \in 0 .. n : f[i] = d[i]
  BY <1>1, <1>2, <1>3
<1>. HIDE DEF f
<1>5. \A i \in 0 .. n + 1 : Formed(f[i])
  <2>. TAKE i \in 0 .. n + 1
  <2>1. CASE i = n + 1
    BY <2>1, <1>2, <1>4
  <2>2. CASE i # n + 1
    <3>1. i \in 0 .. n
      BY <2>2, <1>1
    <3>. QED
      BY <3>1, <1>3, <1>4
  <2>. QED
    BY <2>1, <2>2
<1>6. \A i \in 1 .. n + 1 : q[i] \in Steps(f[i - 1]) /\ f[i] = After(f[i - 1], Written(q[i]))
  <2>. TAKE i \in 1 .. n + 1
  <2>1. CASE i = n + 1
    <3>1. i - 1 = n /\ n \in 0 .. n
      BY <2>1, <1>1
    <3>2. f[i - 1] = to
      BY <3>1, <1>3, <1>4
    <3>. QED
      BY <2>1, <3>2, <1>1, <1>4
  <2>2. CASE i # n + 1
    <3>1. i \in 1 .. n /\ i \in 0 .. n /\ i - 1 \in 0 .. n
      BY <2>2, <1>1
    <3>. QED
      BY <3>1, <1>1, <1>3, <1>4
  <2>. QED
    BY <2>1, <2>2
<1>7. Derivation(f, q, from, next)
  <2>1. f[0] = from
    BY <1>1, <1>3, <1>4
  <2>. QED
    BY <2>1, <1>1, <1>4, <1>5, <1>6 DEF Derivation
<1>8. Guided(f, q)
  <2>. SUFFICES ASSUME NEW P \in SUBSET Texts, Kept(P), NEW i \in 0 .. n + 1, NEW j \in 0 .. n + 1,
                       i <= j, f[i] \in P, \A m \in i + 1 .. j : q[m][1] = "rule"
                PROVE  f[j] \in P
    BY <1>1 DEF Guided, Kept
  <2>. DEFINE l == IF j = n + 1 THEN n ELSE j
  <2>1. CASE i = n + 1
    BY <2>1, <1>1
  <2>2. CASE i # n + 1
    <3>1. i \in 0 .. n /\ l \in 0 .. n /\ i <= l /\ l <= j
      BY <2>2, <1>1
    <3>2. \A m \in i + 1 .. l : p[m][1] = "rule"
      <4>. TAKE m \in i + 1 .. l
      <4>1. m \in i + 1 .. j /\ m \in 1 .. n
        BY <3>1, <1>1
      <4>. QED
        BY <4>1, <1>1
    <3>3. d[i] \in P
      BY <3>1, <1>4
    <3>4. d[l] \in P
      BY <3>1, <3>2, <3>3 DEF Guided, n
    <3>5. CASE j = n + 1
      <4>1. l = n /\ d[n] = to /\ f[j] = next
        BY <3>5, <1>3, <1>4
      <4>2. q[j][1] = "rule" /\ q[j] = e
        BY <3>1, <3>5, <1>1
      <4>3. next = After(to, e)
        BY <4>2 DEF Written
      <4>. QED
        BY <3>4, <4>1, <4>2, <4>3, <1>2 DEF Kept
    <3>6. CASE j # n + 1
      BY <3>1, <3>4, <3>6, <1>4
    <3>. QED
      BY <3>5, <3>6
  <2>. QED
    BY <2>1, <2>2
<1>. QED
  BY <1>7, <1>8

(* The parser takes the first step of the plan.                            *)
LEMMA PlanTaken ==
  ASSUME NEW d, NEW p \in Seq(AllSteps), NEW from, NEW to, Derivation(d, p, from, to), Guided(d, p),
         p # <<>>, p[1][1] # "reject"
  PROVE  /\ After(from, p[1]) = d[1]
         /\ \E f : Derivation(f, Tail(p), d[1], to) /\ Guided(f, Tail(p))
<1>. DEFINE t == Tail(p)
            next == d[1]
            n == Len(t)
            f == [i \in 0 .. n |-> d[i + 1]]
<1>1. /\ n \in Nat /\ Len(p) = n + 1
      /\ \A i \in 1 .. n : t[i] = p[i + 1]
  BY TailIs
<1>2. /\ d \in [0 .. n + 1 -> Texts] /\ d[0] = from /\ d[n + 1] = to
      /\ \A i \in 0 .. n + 1 : Formed(d[i])
      /\ \A i \in 1 .. n + 1 : p[i] \in Steps(d[i - 1]) /\ d[i] = After(d[i - 1], Written(p[i]))
  BY <1>1 DEF Derivation
<1>4. next = d[1] /\ next = After(from, p[1])
  <2>1. d[1] = After(d[1 - 1], Written(p[1]))
    BY <1>1, <1>2
  <2>2. Written(p[1]) = p[1]
    BY DEF Written
  <2>. QED
    BY <2>1, <2>2, <1>2
<1>. HIDE DEF t, next
<1>5. f \in [0 .. n -> Texts] /\ \A i \in 0 .. n : f[i] = d[i + 1]
  BY <1>1, <1>2
<1>6. f[0] = next /\ f[n] = to
  <2>1. 0 \in 0 .. n /\ n \in 0 .. n
    BY <1>1
  <2>. QED
    BY <2>1, <1>2, <1>4, <1>5 DEF next
<1>. HIDE DEF f
<1>7. Derivation(f, t, next, to)
  <2>1. \A i \in 0 .. n : Formed(f[i])
    BY <1>1, <1>2, <1>5
  <2>2. \A i \in 1 .. n : t[i] \in Steps(f[i - 1]) /\ f[i] = After(f[i - 1], Written(t[i]))
    <3>. TAKE i \in 1 .. n
    <3>1. i + 1 \in 1 .. n + 1 /\ i - 1 \in 0 .. n /\ i \in 0 .. n
          /\ (i + 1) - 1 = i /\ (i - 1) + 1 = i
      BY <1>1
    <3>2. f[i - 1] = d[i] /\ f[i] = d[i + 1] /\ t[i] = p[i + 1]
      BY <3>1, <1>1, <1>5
    <3>. QED
      BY <3>1, <3>2, <1>2
  <2>. QED
    BY <2>1, <2>2, <1>5, <1>6 DEF Derivation
<1>8. Guided(f, t)
  <2>. SUFFICES ASSUME NEW P \in SUBSET Texts, Kept(P), NEW i \in 0 .. n, NEW j \in 0 .. n,
                       i <= j, f[i] \in P, \A m \in i + 1 .. j : t[m][1] = "rule"
                PROVE  f[j] \in P
    BY DEF Guided, Kept
  <2>1. i + 1 \in 0 .. Len(p) /\ j + 1 \in 0 .. Len(p) /\ i + 1 <= j + 1
    BY <1>1
  <2>2. \A m \in (i + 1) + 1 .. j + 1 : p[m][1] = "rule"
    <3>. TAKE m \in (i + 1) + 1 .. j + 1
    <3>1. m - 1 \in i + 1 .. j /\ m - 1 \in 1 .. n /\ (m - 1) + 1 = m
      BY <1>1
    <3>2. t[m - 1] = p[m]
      BY <3>1, <1>1
    <3>. QED
      BY <3>1, <3>2
  <2>3. d[i + 1] \in P
    BY <1>5
  <2>. QED
    BY <2>1, <2>2, <2>3, <1>5 DEF Guided
<1>. QED
  BY <1>4, <1>7, <1>8 DEF t, next

-----------------------------------------------------------------------------
(* Looking ahead.                                                          *)

\* The kind of the token that is a symbol.
Kind(t) == IF t = "end" THEN "none" ELSE IF t \in Identifiers THEN "identifier" ELSE t

(* A token starts with itself, and so does the end of the text.            *)
LEMMA TokensStart ==
  ASSUME NEW t \in Symbols \cup {"end"}, t \notin Compound
  PROVE  Starts(t) = {t}
<1>1. t \in Terminals \cup {"end"}
  BY DEF Symbols
<1>. QED
  BY <1>1 DEF Starts, Terminals, Identifiers

(* "end" is no symbol.                                                     *)
LEMMA EndIs == "end" \notin Symbols /\ "end" \notin Compound
BY CompoundIs DEF Symbols, Terminals, Identifiers

(* The tokens that may be next do not become more until the next token.    *)
LEMMA KeptStarts ==
  ASSUME NEW c
  PROVE  Kept({g \in Texts : Starts(At(g.form, 1)) \subseteq Starts(c)})
<1>. SUFFICES ASSUME NEW g \in Texts, Starts(At(g.form, 1)) \subseteq Starts(c), Formed(g),
                     NEW e \in Steps(g), e[1] = "rule",
                     NEW h, h = After(g, e)
              PROVE  h \in Texts /\ Starts(At(h.form, 1)) \subseteq Starts(c)
  BY DEF Kept
<1>. DEFINE s == g.form[1]
            alt == e[3]
<1>1. /\ g.form # <<>> /\ s \in Compound /\ alt \in Rules[s] /\ e = <<"rule", s, alt>>
  BY StepIs
<1>2. At(g.form, 1) = s
  BY <1>1 DEF At, Texts
<1>. HIDE DEF alt
<1>3. /\ h \in Texts
      /\ IF alt = <<>> THEN At(h.form, 1) \in Follow(s) ELSE At(h.form, 1) = alt[1]
  BY <1>1, AfterRule
<1>4. Fits(s, alt)
  BY <1>1, RulesFit
<1>5. Starts(At(h.form, 1)) \subseteq Starts(s)
  BY <1>3, <1>4 DEF Fits
<1>. QED
  BY <1>2, <1>3, <1>5

\* An if was ended without an else.
NoElse == {g \in Texts : "noElse" \in g.settled /\ At(g.form, 1) # "else"}

(* No else comes before the next token then.                               *)
LEMMA KeptNoElse == Kept(NoElse)
<1>. SUFFICES ASSUME NEW g \in Texts, "noElse" \in g.settled, Formed(g),
                     NEW e \in Steps(g), e[1] = "rule",
                     NEW h, h = After(g, e)
              PROVE  h \in Texts /\ "noElse" \in h.settled /\ At(h.form, 1) # "else"
  BY DEF Kept, NoElse
<1>. DEFINE s == g.form[1]
            alt == e[3]
<1>1. /\ g.form # <<>> /\ s \in Compound /\ alt \in Rules[s] /\ e = <<"rule", s, alt>>
      /\ Allowed(g, s, alt)
  BY StepIs
<1>. HIDE DEF alt
<1>2. /\ h \in Texts /\ g.settled \subseteq h.settled
      /\ IF alt = <<>> THEN At(h.form, 1) \in Follow(s) ELSE At(h.form, 1) = alt[1]
  BY <1>1, AfterRule
<1>3. CASE alt = <<>>
  <2>1. "else" \notin Follow(s)
    BY DEF Follow
  <2>. QED
    BY <2>1, <1>2, <1>3
<1>4. CASE alt # <<>>
  <2>1. ~ Holds(alt, {"else"})
    BY <1>1 DEF Allowed
  <2>2. 1 \in DOMAIN alt
    BY <1>1, <1>4, RulesFit DEF Fits
  <2>3. alt[1] # "else"
    BY <2>1, <2>2 DEF Holds
  <2>. QED
    BY <2>3, <1>2, <1>4
<1>. QED
  BY <1>3, <1>4

\* An expression was chosen for a statement.
Simple == {"ExpOpt", "Expression", "Arithmetic", "Item", "Factor",
           "var:set", "var:use", "pointer", "integer", "chars", "semicolon"}
Expressed == {g \in Texts : "expression" \in g.settled /\ At(g.form, 1) \in Simple}

(* It starts with neither a call nor a brace.                              *)
LEMMA KeptExpressed == Kept(Expressed)
<1>. SUFFICES ASSUME NEW g \in Texts, "expression" \in g.settled, At(g.form, 1) \in Simple,
                     Formed(g),
                     NEW e \in Steps(g), e[1] = "rule",
                     NEW h, h = After(g, e)
              PROVE  h \in Texts /\ "expression" \in h.settled /\ At(h.form, 1) \in Simple
  BY DEF Kept, Expressed
<1>. DEFINE s == g.form[1]
            alt == e[3]
<1>1. /\ g.form # <<>> /\ s \in Compound /\ alt \in Rules[s] /\ e = <<"rule", s, alt>>
      /\ Allowed(g, s, alt)
  BY StepIs
<1>2. At(g.form, 1) = s
  BY <1>1 DEF At, Texts
<1>. HIDE DEF s, alt
<1>3. /\ h \in Texts /\ g.settled \subseteq h.settled
      /\ IF alt = <<>> THEN At(h.form, 1) \in Follow(s) ELSE At(h.form, 1) = alt[1]
  BY <1>1, AfterRule DEF s
<1>4. s \in {"ExpOpt", "Expression", "Arithmetic", "Item", "Factor"}
  BY <1>1, <1>2, CompoundIs DEF Simple
<1>5. CASE s = "ExpOpt"
  <2>1. alt \in {<<>>, <<"Expression">>}
    BY <1>1, <1>5 DEF Rules, Compound, MethodRules, StatementRules, ExpressionRules, BoolRules
  <2>2. Follow("ExpOpt") = {"semicolon"}
    BY DEF Follow
  <2>. QED
    BY <2>1, <2>2, <1>3, <1>5 DEF Simple
<1>6. CASE s = "Factor"
  <2>1. alt \in {<<"var:use">>, <<"pointer", "var:adr">>, <<"integer">>, <<"chars">>,
                 <<"lbrace", "ArrayData", "rbrace">>, <<"Call">>}
    BY <1>1, <1>6 DEF Rules, Compound, MethodRules, StatementRules, ExpressionRules, BoolRules
  <2>2. ~ Holds(alt, {"Call", "lbrace"})
    BY <1>1, <1>6 DEF Allowed
  <2>3. alt[1] \notin {"Call", "lbrace"} /\ alt # <<>>
    BY <2>1, <2>2 DEF Holds
  <2>4. alt[1] \in {"var:use", "pointer", "integer", "chars"}
    BY <2>1, <2>3
  <2>. QED
    BY <2>3, <2>4, <1>3 DEF Simple
<1>7. CASE s \in {"Expression", "Arithmetic", "Item"}
  <2>1. alt \in {<<"var:set", "=", "Expression">>, <<"Arithmetic">>, <<"Item", "ArithMore">>,
                 <<"Factor", "ItemMore">>}
    BY <1>1, <1>7 DEF Rules, Compound, MethodRules, StatementRules, ExpressionRules, BoolRules
  <2>. QED
    BY <2>1, <1>3 DEF Simple
<1>. QED
  BY <1>3, <1>4, <1>5, <1>6, <1>7

\* No more than two of the places hold.
AtMostTwo(S) == \A i, j, k \in S : i = j \/ j = k \/ k = i

(* Of one or two places one is the first.                                  *)
LEMMA FirstIs ==
  ASSUME NEW S, \A i \in S : i \in Nat, AtMostTwo(S), NEW i \in S
  PROVE  First(S) \in S /\ \A j \in S : First(S) <= j
<1>1. \E k \in S : \A j \in S : k <= j
  <2>1. CASE \A j \in S : i <= j
    BY <2>1
  <2>2. CASE ~ \A j \in S : i <= j
    <3>1. PICK k \in S : ~ (i <= k)
      BY <2>2
    <3>2. \A j \in S : j = i \/ j = k
      BY <3>1 DEF AtMostTwo
    <3>. QED
      BY <3>1, <3>2
  <2>. QED
    BY <2>1, <2>2
<1>. QED
  BY <1>1 DEF First

(* What the parser sees: its current token has been said in a text that    *)
(* kept what held of the present one, or of the one after the next rule;   *)
(* and the token behind it may start what may follow.                      *)
LEMMA TokensSeen ==
  ASSUME NEW d, Derivation(d, plan, text, author), Guided(d, plan),
         plan \in Seq(AllSteps), AtMostTwo(Tokens), Ready,
         NEW P \in SUBSET Texts, Kept(P),
         NEW i \in {0, 1}, i <= Len(plan), i = 1 => plan[1][1] = "rule", d[i] \in P
  PROVE  \E g \in P :
           /\ At(g.form, 1) \in (Symbols \cup {"end"}) \ Compound
           /\ Current[1] = Kind(At(g.form, 1))
           /\ At(g.form, 1) # "end" =>
                \E c \in Follow(At(g.form, 1)) : \E u \in Starts(c) : Second[1] = Kind(u)
<1>. DEFINE n == Len(plan)
<1>1. n \in Nat /\ plan \in Seq(AllSteps) /\ DOMAIN plan = 1 .. n
  OBVIOUS
<1>2. /\ d \in [0 .. n -> Texts] /\ d[0] = text /\ d[n] = author
      /\ \A j \in 0 .. n : Formed(d[j])
      /\ \A j \in 1 .. n : plan[j] \in Steps(d[j - 1]) /\ d[j] = After(d[j - 1], Written(plan[j]))
  BY DEF Derivation
<1>. HIDE DEF n
<1>3. Tokens \subseteq 1 .. n /\ \A j \in 1 .. n : j \notin Tokens => plan[j][1] = "rule"
  BY <1>1 DEF Tokens
<1>4. \A Q \in SUBSET Texts, j, k \in 0 .. n :
        Kept(Q) /\ j <= k /\ d[j] \in Q /\ (\A m \in j + 1 .. k : m \notin Tokens) => d[k] \in Q
  BY <1>3 DEF Guided, n
<1>5. i \in 0 .. n /\ (i = 1 => 1 \notin Tokens)
  BY <1>1 DEF Tokens, n
<1>6. \A j \in Tokens : d[j - 1].form # <<>> /\ At(d[j - 1].form, 1) = plan[j][2]
                        /\ plan[j][2] \in Symbols \ Compound /\ Token(plan[j])[1] = Kind(plan[j][2])
  <2>. TAKE j \in Tokens
  <2>1. j \in 1 .. n /\ j - 1 \in 0 .. n /\ plan[j][1] # "rule"
    BY <1>1, <1>3 DEF Tokens
  <2>2. d[j - 1] \in Texts /\ plan[j] \in Steps(d[j - 1])
    BY <2>1, <1>2
  <2>3. d[j - 1].form # <<>> /\ plan[j][2] = d[j - 1].form[1] /\ plan[j][2] \in Symbols \ Compound
    BY <2>1, <2>2, StepIs
  <2>4. At(d[j - 1].form, 1) = plan[j][2]
    BY <2>2, <2>3 DEF At, Texts
  <2>5. Token(plan[j])[1] = Kind(plan[j][2])
    BY <2>3, EndIs DEF Token, Kind
  <2>. QED
    BY <2>3, <2>4, <2>5
<1>7. CASE Tokens = {}
  <2>1. author.form = <<>> /\ Current[1] = "none"
    BY <1>7 DEF Ready, Current, TokenOf, None
  <2>2. author \in P
    <3>1. i <= n /\ n \in 0 .. n
      BY <1>1, <1>5
    <3>. QED
      BY <3>1, <1>2, <1>4, <1>5, <1>7
  <2>3. At(author.form, 1) = "end"
    BY <2>1 DEF At
  <2>. QED
    BY <2>1, <2>2, <2>3, EndIs DEF Kind
<1>8. CASE Tokens # {}
  <2>. DEFINE k == First(Tokens)
  <2>1. k \in Tokens /\ \A j \in Tokens : k <= j
    <3>1. \A j \in Tokens : j \in Nat
      BY <1>1, <1>3
    <3>. QED
      BY <3>1, <1>8, FirstIs
  <2>2. Current = Token(plan[k])
    BY <1>8 DEF Current, TokenOf
  <2>. HIDE DEF k
  <2>3. k \in 1 .. n /\ k - 1 \in 0 .. n /\ i <= k - 1
    BY <2>1, <1>1, <1>3, <1>5
  <2>. DEFINE g == d[k - 1]
              t == At(g.form, 1)
              h == d[k]
              c == At(h.form, 1)
  <2>4. g \in P
    <3>1. \A m \in i + 1 .. k - 1 : m \notin Tokens
      BY <2>1, <1>1, <1>3, <1>5
    <3>. QED
      BY <2>3, <3>1, <1>4, <1>5
  <2>5. t = plan[k][2] /\ t \in Symbols \ Compound /\ Current[1] = Kind(t) /\ t # "end"
    BY <2>1, <2>2, <1>6, EndIs
  <2>6. h \in Texts /\ c \in Follow(t)
    <3>1. g \in Texts /\ Formed(g) /\ plan[k] \in Steps(g) /\ plan[k][1] # "rule"
      BY <2>1, <2>3, <1>2 DEF Tokens
    <3>2. /\ g.form # <<>> /\ plan[k][2] = g.form[1]
          /\ Written(plan[k]) = <<"token", g.form[1], plan[k][3]>>
      BY <3>1, StepIs DEF Written
    <3>3. plan[k][2] \in {"var:def", "method:def"} => plan[k][3] \in Names(plan[k][2])
      BY <3>1, StepIs DEF Known, Identifiers
    <3>4. /\ g.form[1] = "var:def" => plan[k][3] \in VarNames
          /\ g.form[1] = "method:def" => plan[k][3] \in MethodNames
      BY <3>2, <3>3 DEF Names
    <3>5. PICK s, name, b, r : s = g.form[1] /\ name = plan[k][3] /\ b = g /\ r = h
      OBVIOUS
    <3>6. r = After(b, <<"token", s, name>>)
      BY <2>3, <3>2, <3>5, <1>2
    <3>7. /\ b \in Texts /\ Formed(b) /\ b.form # <<>> /\ s = b.form[1]
          /\ s = "var:def" => name \in VarNames
          /\ s = "method:def" => name \in MethodNames
      BY <3>1, <3>2, <3>4, <3>5
    <3>8. r \in Texts /\ At(r.form, 1) \in Follow(s)
      BY <3>6, <3>7, AfterToken
    <3>. QED
      BY <2>5, <3>2, <3>5, <3>8
  <2>7. \E u \in Starts(c) : Second[1] = Kind(u)
    <3>. DEFINE Q == {r \in Texts : Starts(At(r.form, 1)) \subseteq Starts(c)}
                Rest == {j \in Tokens : \E l \in Tokens : l < j}
    <3>1. Kept(Q) /\ h \in Q /\ k \in 0 .. n
      BY <2>3, <2>6, KeptStarts
    <3>2. \A j \in Rest : j \in Tokens /\ k < j
      BY <2>1, <1>1, <1>3
    <3>3. Second = TokenOf(Rest)
      BY DEF Second
    <3>4. CASE Rest = {}
      <4>1. \A j \in Tokens : j = k
        BY <2>1, <3>4, <1>1, <1>3
      <4>2. author.form = <<>> /\ Second[1] = "none"
        BY <3>3, <3>4, <4>1 DEF Ready, TokenOf, None
      <4>3. author \in Q
        <5>1. k <= n /\ n \in 0 .. n /\ \A m \in k + 1 .. n : m \notin Tokens
          BY <2>3, <4>1, <1>1
        <5>. QED
          BY <3>1, <5>1, <1>2, <1>4
      <4>4. At(author.form, 1) = "end" /\ Starts("end") = {"end"}
        BY <4>2, TokensStart, EndIs DEF At
      <4>. QED
        BY <4>2, <4>3, <4>4 DEF Kind
    <3>5. CASE Rest # {}
      <4>1. PICK l \in Rest : TRUE
        BY <3>5
      <4>2. Rest = {l}
        <5>. SUFFICES ASSUME NEW j \in Rest PROVE j = l
          BY <4>1
        <5>1. j \in Tokens /\ l \in Tokens /\ k \in Tokens /\ j # k /\ l # k
          BY <2>1, <3>2, <4>1, <1>1, <1>3
        <5>. QED
          BY <5>1 DEF AtMostTwo
      <4>3. Second = Token(plan[l])
        <5>1. First({l}) = l
          BY <3>2, <4>1, <1>1, <1>3 DEF First
        <5>. QED
          BY <3>3, <4>2, <5>1 DEF TokenOf
      <4>4. l \in Tokens /\ k < l /\ l \in 1 .. n /\ l - 1 \in 0 .. n /\ k <= l - 1
        BY <2>3, <3>2, <4>1, <1>1, <1>3
      <4>5. d[l - 1] \in Q
        <5>1. \A m \in k + 1 .. l - 1 : m \notin Tokens
          BY <2>1, <2>3, <4>4, <1>1 DEF AtMostTwo
        <5>. QED
          BY <3>1, <4>4, <5>1, <1>4
      <4>6. /\ At(d[l - 1].form, 1) = plan[l][2] /\ plan[l][2] \in Symbols \ Compound
            /\ Second[1] = Kind(plan[l][2])
        BY <4>3, <4>4, <1>6
      <4>7. plan[l][2] \in Starts(plan[l][2])
        BY <4>6, TokensStart
      <4>. QED
        BY <4>5, <4>6, <4>7
    <3>. QED
      BY <3>4, <3>5
  <2>. QED
    BY <2>4, <2>5, <2>6, <2>7
<1>. QED
  BY <1>7, <1>8

-----------------------------------------------------------------------------
(* What the steps preserve.                                                *)

(* Goals that match a form still do so when both have lost their first.    *)
LEMMA MatchesTail ==
  ASSUME NEW goals, NEW form, NEW S, goals \in Seq(S), form \in Seq(Symbols), form # <<>>,
         Matches(goals, form)
  PROVE  /\ goals # <<>> /\ (goals[1] = form[1] \/ (goals[1] = "any" /\ form[1] \in Granted))
         /\ Matches(Tail(goals), Tail(form))
<1>1. Len(goals) = Len(form) /\ DOMAIN form = 1 .. Len(form) /\ Len(form) \in Nat \ {0}
  BY DEF Matches
<1>2. goals # <<>> /\ 1 \in DOMAIN form
  BY <1>1
<1>3. /\ Tail(goals) \in Seq(S) /\ Len(Tail(goals)) = Len(goals) - 1
      /\ \A i \in 1 .. Len(Tail(goals)) : Tail(goals)[i] = goals[i + 1]
  BY <1>2
<1>4. /\ Tail(form) \in Seq(Symbols) /\ Len(Tail(form)) = Len(form) - 1
      /\ DOMAIN Tail(form) = 1 .. Len(Tail(form))
      /\ \A i \in 1 .. Len(Tail(form)) : Tail(form)[i] = form[i + 1]
  OBVIOUS
<1>5. \A i \in DOMAIN Tail(form) :
        Tail(goals)[i] = Tail(form)[i] \/ (Tail(goals)[i] = "any" /\ Tail(form)[i] \in Granted)
  <2>. TAKE i \in DOMAIN Tail(form)
  <2>1. i + 1 \in DOMAIN form /\ i \in 1 .. Len(Tail(form)) /\ i \in 1 .. Len(Tail(goals))
    BY <1>1, <1>3, <1>4
  <2>2. goals[i + 1] = form[i + 1] \/ (goals[i + 1] = "any" /\ form[i + 1] \in Granted)
    BY <2>1 DEF Matches
  <2>. QED
    BY <2>1, <2>2, <1>3, <1>4
<1>. QED
  BY <1>1, <1>2, <1>3, <1>4, <1>5 DEF Matches

(* And when matching parts are put in front of both.                       *)
LEMMA MatchesConcat ==
  ASSUME NEW goals, NEW form, NEW S, goals \in Seq(S), form \in Seq(Symbols), Matches(goals, form),
         NEW parts \in Seq(S), NEW alt \in Seq(Symbols), Matches(parts, alt)
  PROVE  Matches(parts \o goals, alt \o form)
<1>1. /\ Len(goals) = Len(form) /\ Len(parts) = Len(alt)
      /\ Len(alt) \in Nat /\ Len(form) \in Nat
      /\ DOMAIN form = 1 .. Len(form) /\ DOMAIN alt = 1 .. Len(alt)
  BY DEF Matches
<1>2. DOMAIN (alt \o form) = 1 .. Len(alt) + Len(form) /\ Len(alt \o form) = Len(alt) + Len(form)
  <2>1. alt \o form \in Seq(Symbols) /\ Len(alt \o form) = Len(alt) + Len(form)
    BY ConcatIs
  <2>2. DOMAIN (alt \o form) = 1 .. Len(alt \o form)
    BY <2>1
  <2>. QED
    BY <2>1, <2>2
<1>3. Len(parts \o goals) = Len(alt \o form)
  <2>1. Len(parts \o goals) = Len(parts) + Len(goals)
    BY ConcatIs
  <2>. QED
    BY <2>1, <1>1, <1>2
<1>4. ASSUME NEW i \in 1 .. Len(alt) + Len(form)
      PROVE  \/ (parts \o goals)[i] = (alt \o form)[i]
             \/ (parts \o goals)[i] = "any" /\ (alt \o form)[i] \in Granted
  <2>1. CASE i \in 1 .. Len(alt)
    <3>1. (parts \o goals)[i] = parts[i] /\ (alt \o form)[i] = alt[i]
      BY <2>1, <1>1, ConcatIs
    <3>. QED
      BY <3>1, <2>1, <1>1 DEF Matches
  <2>2. CASE i \notin 1 .. Len(alt)
    <3>1. PICK j \in 1 .. Len(form) : i = Len(alt) + j
      <4>1. i - Len(alt) \in 1 .. Len(form) /\ i = Len(alt) + (i - Len(alt))
        BY <2>2, <1>1
      <4>. QED
        BY <4>1
    <3>2. (parts \o goals)[i] = goals[j] /\ (alt \o form)[i] = form[j]
      BY <3>1, <1>1, ConcatIs
    <3>. QED
      BY <3>2, <1>1 DEF Matches
  <2>. QED
    BY <2>1, <2>2
<1>. QED
  BY <1>2, <1>3, <1>4 DEF Matches

(* Short sequences.                                                        *)
LEMMA OneIs ==
  ASSUME NEW S, NEW a \in Seq(S), Len(a) = 1
  PROVE  a = <<a[1]>>
OBVIOUS

(* Nothing behind a sequence.                                              *)
LEMMA ConcatEmpty ==
  ASSUME NEW S, NEW a \in Seq(S)
  PROVE  a \o <<>> = a
OBVIOUS

(* A name added to the only set of a stack.                                *)
LEMMA ExceptOne ==
  ASSUME NEW v, NEW n, NEW stack, stack = <<v>>, NEW t, t = [stack EXCEPT ![1] = @ \cup {n}]
  PROVE  t = <<v \cup {n}>>
OBVIOUS

(* One element behind a sequence.                                          *)
LEMMA AppendOne ==
  ASSUME NEW S, NEW a \in Seq(S), NEW x \in S, NEW o, o = a \o <<x>>
  PROVE  Len(o) = Len(a) + 1 /\ o[Len(a) + 1] = x /\ \A i \in 1 .. Len(a) : o[i] = a[i]
OBVIOUS

(* From one method to the next.                                            *)
LEMMA BetweenRule ==
  ASSUME NEW f, Between(f), f # <<>>, NEW s, s = f[1], NEW alt \in Rules[s],
         NEW o, o = alt \o Tail(f)
  PROVE  \/ s = "MethodDefine" /\ Within(o, 3)
         \/ s = "MethodDefine" /\ Within(o, 2)
         \/ s # "MethodDefine" /\ s # "MethodEnd" /\ Between(o)
<1>4. alt \in Seq(Symbols) /\ "MethodMore" \in Symbols
  <2>1. s \in Compound /\ "MethodMore" \in Symbols
    BY CompoundIs DEF Between, Symbols
  <2>. QED
    BY <2>1, RulesFit DEF Fits
<1>1. CASE f = <<"MethodDefine", "MethodMore">>
  <2>1. s = "MethodDefine" /\ Tail(f) = <<"MethodMore">>
    BY <1>1
  <2>2. alt = <<"extern", "type", "method:def", "(", "ParamOpt", ")", "semicolon", "MethodEnd">>
        \/ alt = <<"type", "method:def", "(", "ParamOpt", ")", "MethodBody", "MethodEnd">>
    BY <2>1 DEF Rules, Compound, MethodRules
  <2>3. CASE alt = <<"extern", "type", "method:def", "(", "ParamOpt", ")", "semicolon",
                     "MethodEnd">>
    <3>1. Len(alt) = 8
          /\ alt[1] = "extern" /\ alt[2] = "type" /\ alt[3] = "method:def" /\ alt[4] = "("
          /\ alt[5] = "ParamOpt" /\ alt[6] = ")" /\ alt[7] = "semicolon" /\ alt[8] = "MethodEnd"
      BY <2>3
    <3>2. /\ Len(o) = 9
          /\ o[1] = "extern" /\ o[2] = "type" /\ o[3] = "method:def" /\ o[4] = "("
          /\ o[5] = "ParamOpt" /\ o[6] = ")" /\ o[7] = "semicolon" /\ o[8] = "MethodEnd"
          /\ o[9] = "MethodMore"
      <4>1. o = alt \o <<"MethodMore">>
        BY <2>1
      <4>2. /\ Len(o) = Len(alt) + 1 /\ o[Len(alt) + 1] = "MethodMore"
            /\ \A i \in 1 .. Len(alt) : o[i] = alt[i]
        BY <4>1, <1>4, AppendOne
      <4>. QED
        BY <4>2, <3>1
    <3>3. \A i \in 4 .. 7 : o[i] \notin Outer
      <4>1. \A i \in 4 .. 7 : i \in {4, 5, 6, 7}
        OBVIOUS
      <4>. QED
        BY <3>2, <4>1 DEF Outer
    <3>4. \A i \in 1 .. 3 - 1 : o[i] \in {"extern", "type"}
      BY <3>2
    <3>5. Len(o) - 1 = 8 /\ Len(o) - 2 = 7 /\ 3 + 2 <= Len(o) /\ 3 + 1 = 4
      BY <3>2
    <3>8. o[Len(o) - 1] = "MethodEnd" /\ o[Len(o)] = "MethodMore" /\ o[3] = "method:def"
      BY <3>2, <3>5
    <3>6. \A i \in 3 + 1 .. Len(o) - 2 : o[i] \notin Outer
      BY <3>3, <3>5
    <3>7. Within(o, 3)
      BY <3>4, <3>5, <3>6, <3>8 DEF Within
    <3>. QED
      BY <2>1, <3>7
  <2>4. CASE alt = <<"type", "method:def", "(", "ParamOpt", ")", "MethodBody", "MethodEnd">>
    <3>1. Len(alt) = 7
          /\ alt[1] = "type" /\ alt[2] = "method:def" /\ alt[3] = "(" /\ alt[4] = "ParamOpt"
          /\ alt[5] = ")" /\ alt[6] = "MethodBody" /\ alt[7] = "MethodEnd"
      BY <2>4
    <3>2. /\ Len(o) = 8
          /\ o[1] = "type" /\ o[2] = "method:def" /\ o[3] = "(" /\ o[4] = "ParamOpt"
          /\ o[5] = ")" /\ o[6] = "MethodBody" /\ o[7] = "MethodEnd" /\ o[8] = "MethodMore"
      <4>1. o = alt \o <<"MethodMore">>
        BY <2>1
      <4>2. /\ Len(o) = Len(alt) + 1 /\ o[Len(alt) + 1] = "MethodMore"
            /\ \A i \in 1 .. Len(alt) : o[i] = alt[i]
        BY <4>1, <1>4, AppendOne
      <4>. QED
        BY <4>2, <3>1
    <3>3. \A i \in 3 .. 6 : o[i] \notin Outer
      <4>1. \A i \in 3 .. 6 : i \in {3, 4, 5, 6}
        OBVIOUS
      <4>. QED
        BY <3>2, <4>1 DEF Outer
    <3>4. \A i \in 1 .. 2 - 1 : o[i] \in {"extern", "type"}
      BY <3>2
    <3>5. Len(o) - 1 = 7 /\ Len(o) - 2 = 6 /\ 2 + 2 <= Len(o) /\ 2 + 1 = 3
      BY <3>2
    <3>8. o[Len(o) - 1] = "MethodEnd" /\ o[Len(o)] = "MethodMore" /\ o[2] = "method:def"
      BY <3>2, <3>5
    <3>6. \A i \in 2 + 1 .. Len(o) - 2 : o[i] \notin Outer
      BY <3>3, <3>5
    <3>7. Within(o, 2)
      BY <3>4, <3>5, <3>6, <3>8 DEF Within
    <3>. QED
      BY <2>1, <3>7
  <2>. QED
    BY <2>2, <2>3, <2>4
<1>2. CASE f \in {<<"Program">>, <<"MethodMore">>}
  <2>1. s \in {"Program", "MethodMore"} /\ Tail(f) = <<>>
    BY <1>2
  <2>2. alt = <<>> \/ alt = <<"MethodSeq">>
    BY <2>1 DEF Rules, Compound, MethodRules
  <2>3. o = <<>> \/ o = <<"MethodSeq">>
    BY <2>1, <2>2, <1>4, ConcatEmpty
  <2>. QED
    BY <2>1, <2>3 DEF Between
<1>3. CASE f = <<"MethodSeq">>
  <2>1. s = "MethodSeq" /\ Tail(f) = <<>>
    BY <1>3
  <2>2. alt = <<"MethodDefine", "MethodMore">>
    BY <2>1 DEF Rules, Compound, MethodRules
  <2>3. o = <<"MethodDefine", "MethodMore">>
    BY <2>1, <2>2, <1>4, ConcatEmpty
  <2>. QED
    BY <2>1, <2>3 DEF Between
<1>. QED
  BY <1>1, <1>2, <1>3 DEF Between

(* The variables follow a rule; only the end of a method drops them.       *)
LEMMA ScopedRule ==
  ASSUME NEW g \in Texts, NEW stack, Scoped(g, stack), g.form # <<>>,
         NEW s \in Compound, s = g.form[1], NEW alt \in Rules[s],
         NEW h \in Texts, h.form = alt \o Tail(g.form),
         h.vars = IF s = "MethodEnd" THEN {} ELSE g.vars,
         NEW next, next = IF s = "MethodEnd" THEN SubSeq(stack, 1, Len(stack) - 1) ELSE stack
  PROVE  Scoped(h, next)
<1>1. /\ Fits(s, alt) /\ alt \in Seq(Symbols) /\ g.form \in Seq(Symbols)
      /\ Len(g.form) \in Nat /\ Len(alt) \in Nat
  BY RulesFit DEF Fits, Texts
<1>2. CASE Between(g.form) /\ g.vars = {} /\ stack = <<>>
  <2>1. PICK f, o : f = g.form /\ o = h.form
    OBVIOUS
  <2>2. Between(f) /\ f # <<>> /\ s = f[1] /\ o = alt \o Tail(f)
    BY <2>1, <1>2
  <2>3. (s = "MethodDefine" /\ Within(o, 3)) \/ (s = "MethodDefine" /\ Within(o, 2))
        \/ (s # "MethodDefine" /\ s # "MethodEnd" /\ Between(o))
    BY <2>2, BetweenRule
  <2>. QED
    BY <2>1, <2>3, <1>2 DEF Scoped
<1>3. ASSUME NEW k \in 0 .. 3, Within(g.form, k),
             IF k = 0 THEN stack = <<g.vars>> ELSE g.vars = {} /\ stack = <<>>
      PROVE  Scoped(h, next)
  <2>. DEFINE n == Len(g.form)
              m == Len(alt)
  <2>1. k = 0
    <3>1. k > 0 => g.form[1] \in {"extern", "type", "method:def"}
      BY <1>3 DEF Within
    <3>. QED
      BY <3>1, CompoundIs
  <2>0. n \in Nat /\ n >= 2
    BY <1>1, <1>3, <2>1 DEF Within
  <2>7. n = 2 \/ n >= 3
    <3>1. \A i \in Nat : i >= 2 => i = 2 \/ i >= 3
      OBVIOUS
    <3>. HIDE DEF n
    <3>. QED
      BY <3>1, <2>0
  <2>2. n \in Nat /\ n >= 2 /\ g.form[n - 1] = "MethodEnd" /\ g.form[n] = "MethodMore"
        /\ \A i \in 1 .. n - 2 : g.form[i] \notin Outer
    BY <1>1, <1>3, <2>1 DEF Within
  <2>3. stack = <<g.vars>>
    BY <1>3, <2>1
  <2>4. /\ Tail(g.form) \in Seq(Symbols) /\ Len(Tail(g.form)) = n - 1
        /\ \A i \in 1 .. n - 1 : Tail(g.form)[i] = g.form[i + 1]
    BY <1>1
  <2>5. CASE n = 2
    <3>1. s = "MethodEnd"
      BY <2>2, <2>5
    <3>2. alt = <<>>
      BY <3>1 DEF Rules, Compound, MethodRules
    <3>3. h.form = Tail(g.form)
      BY <1>1, <2>4, <3>2
    <3>4. Tail(g.form) = <<"MethodMore">>
      <4>1. Len(Tail(g.form)) = 1 /\ Tail(g.form)[1] = "MethodMore"
        BY <2>2, <2>4, <2>5
      <4>. QED
        BY <4>1, <2>4, OneIs
    <3>5. next = <<>>
      BY <2>3, <3>1
    <3>. QED
      BY <3>1, <3>3, <3>4, <3>5 DEF Scoped, Between
  <2>6. CASE n # 2
    <3>1. s \notin Outer /\ s # "MethodEnd"
      <4>0. n >= 3
        BY <2>7, <2>6
      <4>1. 1 \in 1 .. n - 2
        BY <4>0, <2>2
      <4>. QED
        BY <4>1, <2>2 DEF Outer
    <3>2. /\ Len(h.form) = m + (n - 1)
          /\ \A i \in 1 .. m : h.form[i] = alt[i]
          /\ \A i \in 1 .. n - 1 : h.form[m + i] = Tail(g.form)[i]
      BY <1>1, <2>4, ConcatIs
    <3>3. \A i \in 1 .. n - 1 : h.form[m + i] = g.form[i + 1]
      BY <2>4, <3>2
    <3>. HIDE DEF n, m
    <3>4. m \in Nat /\ Len(h.form) = m + n - 1
      BY <1>1, <2>2, <3>2 DEF m
    <3>5. h.form[Len(h.form) - 1] = "MethodEnd" /\ h.form[Len(h.form)] = "MethodMore"
      <4>1. n - 1 \in 1 .. n - 1 /\ n - 2 \in 1 .. n - 1 /\ (n - 2) + 1 = n - 1 /\ (n - 1) + 1 = n
            /\ Len(h.form) = m + (n - 1) /\ Len(h.form) - 1 = m + (n - 2)
        BY <2>2, <2>6, <3>4
      <4>. QED
        BY <4>1, <2>2, <3>3
    <3>6. ASSUME NEW i \in 1 .. Len(h.form) - 2
          PROVE  h.form[i] \notin Outer
      <4>1. CASE i \in 1 .. m
        BY <4>1, <3>1, <3>2, <1>1 DEF Fits, m
      <4>2. CASE i \notin 1 .. m
        <5>1. PICK j \in 1 .. n - 3 : i = m + j
          <6>1. i - m \in 1 .. n - 3 /\ i = m + (i - m)
            BY <4>2, <3>4, <2>2
          <6>. QED
            BY <6>1
        <5>2. j \in 1 .. n - 1 /\ j + 1 \in 1 .. n - 2
          BY <2>2
        <5>. QED
          BY <5>1, <5>2, <2>2, <3>3
      <4>. QED
        BY <4>1, <4>2
    <3>7. Within(h.form, 0)
      <4>1. 0 + 2 <= Len(h.form)
        BY <2>2, <2>6, <3>4
      <4>2. \A i \in 1 .. 0 - 1 : h.form[i] \in {"extern", "type"}
        OBVIOUS
      <4>. QED
        BY <3>5, <3>6, <4>1, <4>2 DEF Within
    <3>8. next = <<h.vars>>
      BY <2>3, <3>1
    <3>9. 0 \in 0 .. 3
      OBVIOUS
    <3>. QED
      BY <3>7, <3>8, <3>9 DEF Scoped
  <2>. QED
    BY <2>5, <2>6
<1>. QED
  BY <1>2, <1>3 DEF Scoped

(* And a token: the name of a method opens it.                             *)
LEMMA ScopedToken ==
  ASSUME NEW g \in Texts, NEW stack, Scoped(g, stack), g.form # <<>>,
         NEW s, s = g.form[1], s \notin Compound, NEW n,
         NEW h \in Texts, h.form = Tail(g.form),
         h.vars = IF s = "var:def" THEN Plus(g.vars, n) ELSE g.vars,
         NEW next,
         next = IF s = "method:def" THEN Append(stack, {})
                ELSE IF s = "var:def" THEN Noted(stack, n) ELSE stack
  PROVE  Scoped(h, next)
<1>. DEFINE l == Len(g.form)
<1>1. /\ g.form \in Seq(Symbols) /\ l \in Nat
      /\ Tail(g.form) \in Seq(Symbols) /\ Len(Tail(g.form)) = l - 1
      /\ \A i \in 1 .. l - 1 : Tail(g.form)[i] = g.form[i + 1]
  BY DEF Texts
<1>2. ~ Between(g.form)
  BY CompoundIs DEF Between
<1>3. PICK k \in 0 .. 3 :
        /\ Within(g.form, k)
        /\ IF k = 0 THEN stack = <<g.vars>> ELSE g.vars = {} /\ stack = <<>>
  BY <1>2 DEF Scoped
<1>4. /\ k + 2 <= l /\ g.form[l - 1] = "MethodEnd" /\ g.form[l] = "MethodMore"
      /\ \A i \in 1 .. k - 1 : g.form[i] \in {"extern", "type"}
      /\ k > 0 => g.form[k] = "method:def"
      /\ \A i \in k + 1 .. l - 2 : g.form[i] \notin Outer
  BY <1>3 DEF Within
<1>. HIDE DEF l
<1>5. l # 2
  BY <1>4, CompoundIs
<1>6. /\ Len(h.form) = l - 1
      /\ h.form[Len(h.form) - 1] = "MethodEnd" /\ h.form[Len(h.form)] = "MethodMore"
  <2>0. l >= 3
    BY <1>1, <1>4, <1>5
  <2>1. l - 1 \in 1 .. l - 1 /\ l - 2 \in 1 .. l - 1 /\ (l - 2) + 1 = l - 1 /\ (l - 1) + 1 = l
        /\ (l - 1) - 1 = l - 2
    BY <2>0, <1>1
  <2>. QED
    BY <2>1, <1>1, <1>4
<1>7. CASE k = 0
  <2>1. s \notin Outer
    <3>1. 1 \in k + 1 .. l - 2
      BY <1>1, <1>4, <1>5, <1>7
    <3>. QED
      BY <3>1, <1>4
  <2>2. \A i \in 1 .. Len(h.form) - 2 : h.form[i] \notin Outer
    <3>. TAKE i \in 1 .. Len(h.form) - 2
    <3>1. i \in 1 .. l - 1 /\ i + 1 \in k + 1 .. l - 2
      BY <1>1, <1>6, <1>7
    <3>. QED
      BY <3>1, <1>1, <1>4
  <2>3. Within(h.form, 0)
    BY <1>1, <1>4, <1>5, <1>6, <1>7, <2>2 DEF Within
  <2>4. next = <<h.vars>>
    <3>1. stack = <<g.vars>> /\ Len(stack) = 1 /\ s # "method:def"
      BY <1>3, <1>7, <2>1 DEF Outer
    <3>2. CASE s = "var:def"
      <4>1. next = [stack EXCEPT ![1] = @ \cup {n}] /\ h.vars = g.vars \cup {n}
        BY <3>1, <3>2 DEF Plus, Noted
      <4>2. PICK v : v = g.vars
        OBVIOUS
      <4>3. next = <<v \cup {n}>>
        BY <4>1, <4>2, <3>1, ExceptOne
      <4>. QED
        BY <4>1, <4>2, <4>3
    <3>. QED
      BY <3>1, <3>2
  <2>5. 0 \in 0 .. 3
    OBVIOUS
  <2>. QED
    BY <2>3, <2>4, <2>5 DEF Scoped
<1>8. CASE k > 0
  <2>1. stack = <<>> /\ g.vars = {}
    BY <1>3, <1>8
  <2>2. (k = 1 => s = "method:def") /\ (k # 1 => s \in {"extern", "type"})
    <3>1. k # 1 => 1 \in 1 .. k - 1
      BY <1>8
    <3>. QED
      BY <3>1, <1>4, <1>8
  <2>3. k - 1 \in 0 .. 3 /\ (k - 1 = 0 <=> k = 1)
    BY <1>8
  <2>4. Within(h.form, k - 1)
    <3>1. (k - 1) + 2 <= Len(h.form)
      BY <1>1, <1>4, <1>6
    <3>2. \A i \in 1 .. (k - 1) - 1 : h.form[i] \in {"extern", "type"}
      <4>. TAKE i \in 1 .. (k - 1) - 1
      <4>1. i \in 1 .. l - 1 /\ i + 1 \in 1 .. k - 1
        BY <1>1, <1>4
      <4>. QED
        BY <4>1, <1>1, <1>4
    <3>3. k - 1 > 0 => h.form[k - 1] = "method:def"
      <4>. SUFFICES ASSUME k - 1 > 0 PROVE h.form[k - 1] = "method:def"
        OBVIOUS
      <4>1. k - 1 \in 1 .. l - 1 /\ (k - 1) + 1 = k
        BY <1>1, <1>4
      <4>. QED
        BY <4>1, <1>1, <1>4, <1>8
    <3>4. \A i \in (k - 1) + 1 .. Len(h.form) - 2 : h.form[i] \notin Outer
      <4>. TAKE i \in (k - 1) + 1 .. Len(h.form) - 2
      <4>1. i \in 1 .. l - 1 /\ i + 1 \in k + 1 .. l - 2
        BY <1>1, <1>6, <1>8
      <4>. QED
        BY <4>1, <1>1, <1>4
    <3>. QED
      BY <3>1, <3>2, <3>3, <3>4, <1>6 DEF Within
  <2>5. IF k - 1 = 0 THEN next = <<h.vars>> ELSE h.vars = {} /\ next = <<>>
    <3>1. CASE k = 1
      <4>1. s = "method:def"
        BY <2>2, <3>1
      <4>. QED
        BY <4>1, <2>1, <2>3, <3>1
    <3>2. CASE k # 1
      <4>1. s \in {"extern", "type"}
        BY <2>2, <3>2, <1>8
      <4>. QED
        BY <4>1, <2>1, <2>3, <3>2
    <3>. QED
      BY <3>1, <3>2
  <2>6. PICK j \in 0 .. 3 : j = k - 1
    BY <2>3
  <2>. QED
    BY <2>4, <2>5, <2>6 DEF Scoped
<1>. QED
  BY <1>7, <1>8

-----------------------------------------------------------------------------
(* Steps of the parser.                                                    *)

\* A step of the parser that keeps the invariant, takes the first step of the plan and
\* is a step of the derivation.
Right == /\ ParserInv'
         /\ Len(plan') < Len(plan) => said' = Head(plan)
         /\ said' \in Steps(text) /\ text' = After(text, said')

(* What holds before it.                                                   *)
LEMMA Present ==
  ASSUME NEW d, NEW p \in Seq(AllSteps), NEW from, NEW to, Derivation(d, p, from, to)
  PROVE  /\ from \in Texts /\ Formed(from) /\ to \in Texts /\ Formed(to)
         /\ from.form \in Seq(Symbols)
         /\ p = <<>> => from = to
         /\ p # <<>> => p[1] \in Steps(from)
<1>1. Len(p) \in Nat /\ (p # <<>> => 1 \in 1 .. Len(p)) /\ (p = <<>> => Len(p) = 0)
  OBVIOUS
<1>2. 0 \in 0 .. Len(p) /\ Len(p) \in 0 .. Len(p)
  BY <1>1
<1>3. from \in Texts /\ Formed(from) /\ to \in Texts /\ Formed(to)
  BY <1>1, <1>2 DEF Derivation
<1>4. p # <<>> => p[1] \in Steps(from)
  <2>. SUFFICES ASSUME p # <<>> PROVE p[1] \in Steps(from)
    OBVIOUS
  <2>1. p[1] \in Steps(d[1 - 1])
    BY <1>1 DEF Derivation
  <2>. QED
    BY <2>1 DEF Derivation
<1>. QED
  BY <1>1, <1>3, <1>4 DEF Derivation, Texts

(* The variables of a scope.                                               *)
LEMMA ScopedTypes ==
  ASSUME NEW g \in Texts, NEW stack, Scoped(g, stack)
  PROVE  Len(stack) <= 1 /\ \A i \in DOMAIN stack : stack[i] \subseteq VarNames
<1>1. stack = <<>> \/ stack = <<g.vars>>
  BY DEF Scoped
<1>2. g.vars \subseteq VarNames
  BY DEF Texts
<1>3. CASE stack = <<>>
  BY <1>3
<1>4. CASE stack = <<g.vars>>
  <2>1. Len(stack) = 1 /\ DOMAIN stack = {1} /\ stack[1] = g.vars
    BY <1>4
  <2>. QED
    BY <2>1, <1>2
<1>. QED
  BY <1>1, <1>3, <1>4

(* The plan has no more tokens after its first step.                       *)
LEMMA TokensTail ==
  ASSUME plan \in Seq(AllSteps), plan # <<>>, plan' = Tail(plan), AtMostTwo(Tokens)
  PROVE  AtMostTwo(Tokens')
<1>1. ASSUME NEW i \in Tokens' PROVE i \in Nat /\ i + 1 \in Tokens
  <2>1. i \in 1 .. Len(plan') /\ plan'[i][1] # "rule"
    BY <1>1, TailIs DEF Tokens
  <2>2. i \in Nat /\ i + 1 \in DOMAIN plan /\ plan'[i] = plan[i + 1]
    BY <2>1, TailIs
  <2>. QED
    BY <2>1, <2>2 DEF Tokens
<1>. SUFFICES ASSUME NEW i \in Tokens', NEW j \in Tokens', NEW k \in Tokens'
              PROVE  i = j \/ j = k \/ k = i
  BY DEF AtMostTwo
<1>2. i + 1 = j + 1 \/ j + 1 = k + 1 \/ k + 1 = i + 1
  BY <1>1 DEF AtMostTwo
<1>. QED
  BY <1>1, <1>2

(* It follows the plan.                                                    *)
LEMMA StepTaken ==
  ASSUME Types, Follows, plan # <<>>, NEW e, e = plan[1], e[1] # "reject", Say(e),
         NEW h, h = After(text, e), methodList' = h.methods,
         Scoped(h, varStack'), todo' \in Seq(Goals), Matches(todo', h.form)
  PROVE  Right
<1>1. PICK d : Derivation(d, plan, text, author) /\ Guided(d, plan)
  BY DEF Follows
<1>2. plan \in Seq(AllSteps) /\ AtMostTwo(Tokens) /\ author \in Texts /\ Formed(author)
  BY DEF Types, TypeOK, AtMostTwo
<1>3. said' = e /\ text' = h /\ plan' = Tail(plan) /\ author' = author
  BY DEF Say
<1>4. e \in Steps(text) /\ text \in Texts /\ Formed(text)
  BY <1>1, <1>2, Present
<1>5. h = d[1] /\ \E f : Derivation(f, Tail(plan), h, author) /\ Guided(f, Tail(plan))
  BY <1>1, <1>2, PlanTaken
<1>6. h \in Texts
  BY <1>2, <1>5, TailIs, Present
<1>7. Follows'
  BY <1>3, <1>5 DEF Follows
<1>8. Types'
  <2>1. Len(varStack') <= 1 /\ \A i \in DOMAIN varStack' : varStack'[i] \subseteq VarNames
    BY <1>6, ScopedTypes
  <2>2. methodList' \subseteq MethodNames
    BY <1>6 DEF Texts
  <2>3. AtMostTwo(Tokens')
    BY <1>2, <1>3, TokensTail
  <2>4. said'[1] \in {"rule", "token", "reject"}
    BY <1>3, <1>4, StepIs
  <2>5. plan' \in Seq(AllSteps)
    BY <1>2, <1>3
  <2>. QED
    BY <2>1, <2>2, <2>3, <2>4, <2>5, <1>2, <1>3 DEF Types, TypeOK, AtMostTwo
<1>9. said' = Head(plan)
  BY <1>2, <1>3
<1>. QED
  BY <1>3, <1>4, <1>7, <1>8, <1>9 DEF Right, ParserInv

(* A node gets the parts the plan has for it.                              *)
LEMMA RuleTaken ==
  ASSUME Types, Follows, NEW s \in Compound, Goal(s), NEW alt \in Rules[s],
         plan # <<>>, plan[1] = <<"rule", s, alt>>,
         Say(<<"rule", s, alt>>), NEW parts \in Seq(Goals), Matches(parts, alt), Build(parts),
         methodList' = methodList,
         varStack' = IF s = "MethodEnd" THEN SubSeq(varStack, 1, Len(varStack) - 1) ELSE varStack
  PROVE  Right
<1>1. PICK d : Derivation(d, plan, text, author) /\ Guided(d, plan)
  BY DEF Follows
<1>2. text \in Texts /\ Formed(text) /\ plan[1] \in Steps(text) /\ text.form \in Seq(Symbols)
  BY <1>1, Present DEF Types
<1>3. text.form # <<>> /\ text.form[1] = s
  BY <1>2, StepIs
<1>4. todo \in Seq(Goals) /\ Matches(todo, text.form) /\ Scoped(text, varStack)
      /\ methodList = text.methods
  BY DEF Types, Follows
<1>5. PICK h, next : h = After(text, <<"rule", s, alt>>) /\ next = varStack'
  OBVIOUS
<1>6. /\ h \in Texts /\ Formed(h) /\ h.form = alt \o Tail(text.form)
      /\ h.vars = IF s = "MethodEnd" THEN {} ELSE text.vars
      /\ h.methods = text.methods
  <2>1. PICK g : g = text
    OBVIOUS
  <2>2. g \in Texts /\ Formed(g) /\ g.form # <<>> /\ s = g.form[1]
    BY <2>1, <1>2, <1>3
  <2>3. /\ h = After(g, <<"rule", g.form[1], alt>>)
        /\ alt \in Rules[g.form[1]] /\ g.form[1] \in Compound
    BY <2>1, <2>2, <1>5
  <2>4. /\ h \in Texts /\ Formed(h) /\ h.form = alt \o Tail(g.form)
        /\ h.vars = IF g.form[1] = "MethodEnd" THEN {} ELSE g.vars
        /\ h.methods = g.methods
    BY ONLY <2>2, <2>3, AfterRule, alt \in Rules[s]
  <2>. QED
    BY <2>1, <2>2, <2>4
<1>7. Scoped(h, next)
  BY <1>2, <1>3, <1>4, <1>5, <1>6, ScopedRule
<1>8. Matches(Tail(todo), Tail(text.form)) /\ todo # <<>>
  BY <1>2, <1>3, <1>4, MatchesTail
<1>9. /\ parts \o Tail(todo) \in Seq(Goals)
      /\ Matches(parts \o Tail(todo), alt \o Tail(text.form))
  <2>1. Tail(todo) \in Seq(Goals) /\ Tail(text.form) \in Seq(Symbols) /\ alt \in Seq(Symbols)
    BY <1>2, <1>3, <1>4, <1>8, RulesFit DEF Fits
  <2>2. parts \o Tail(todo) \in Seq(Goals)
    BY <2>1
  <2>3. Matches(parts \o Tail(todo), alt \o Tail(text.form))
    BY <2>1, <1>8, MatchesConcat
  <2>. QED
    BY <2>2, <2>3
<1>10. todo' = parts \o Tail(todo)
  BY DEF Build
<1>. QED
  BY <1>4, <1>5, <1>6, <1>7, <1>9, <1>10, StepTaken

(* The parser sees the token the plan says next.                           *)
LEMMA TokenSeen ==
  ASSUME Types, Follows, Ready, todo # <<>>, NEW s, s = text.form[1], s \notin Compound
  PROVE  /\ text \in Texts /\ text.form # <<>> /\ s \in Symbols
         /\ todo[1] = s \/ (todo[1] = "any" /\ s \in Granted)
         /\ plan # <<>> /\ plan[1] \in Steps(text)
         /\ Current = <<Kind(s), plan[1][3]>>
         /\ \/ plan[1] = <<"token", s, plan[1][3]>>
               /\ (s \in Identifiers => plan[1][3] \in Known(text, s))
            \/ plan[1] = <<"reject", s, plan[1][3]>> /\ s \in Identifiers \ {"var:set"}
               /\ plan[1][3] \in Names(s) \ Known(text, s)
<1>1. PICK d : Derivation(d, plan, text, author) /\ Guided(d, plan)
  BY DEF Follows
<1>2. plan \in Seq(AllSteps) /\ todo \in Seq(Goals) /\ Matches(todo, text.form) /\ AtMostTwo(Tokens)
  BY DEF Types, TypeOK, Follows, AtMostTwo
<1>3. /\ text \in Texts /\ Formed(text) /\ text.form \in Seq(Symbols)
      /\ plan = <<>> => text = author
      /\ plan # <<>> => plan[1] \in Steps(text)
  BY <1>1, <1>2, Present
<1>4. text.form # <<>>
  BY <1>2 DEF Matches
<1>5. todo[1] = s \/ (todo[1] = "any" /\ s \in Granted)
  BY <1>2, <1>3, <1>4, MatchesTail
<1>6. plan # <<>>
  BY <1>3, <1>4 DEF Ready, Tokens
<1>7. plan[1] \in Steps(text) /\ s \in Symbols /\ plan[1][2] = s
  BY <1>3, <1>6, StepIs
<1>8. \/ /\ plan[1] = <<"token", s, plan[1][3]>>
         /\ IF s \in Identifiers THEN plan[1][3] \in Known(text, s) ELSE plan[1][3] = "none"
      \/ plan[1] = <<"reject", s, plan[1][3]>> /\ s \in Identifiers \ {"var:set"}
         /\ plan[1][3] \in Names(s) \ Known(text, s)
  BY <1>3, <1>7, StepIs
<1>9. Current = <<Kind(s), plan[1][3]>>
  <2>1. 1 \in Tokens /\ \A j \in Tokens : j \in Nat /\ 1 <= j
    BY <1>2, <1>6, <1>8 DEF Tokens
  <2>2. First(Tokens) = 1
    BY <2>1 DEF First
  <2>3. Current = Token(plan[1])
    BY <2>1, <2>2 DEF Current, TokenOf
  <2>4. s # "end"
    BY <1>7, EndIs
  <2>. QED
    BY <2>3, <2>4, <1>7, <1>8 DEF Token, Kind
<1>. QED
  BY <1>3, <1>4, <1>5, <1>6, <1>7, <1>8, <1>9

(* A token is taken by the goal that has its place.                        *)
LEMMA TokenTaken ==
  ASSUME Types, Follows, Ready, todo # <<>>, NEW s, s = text.form[1], s \notin Compound,
         NEW n, n = Current[2], plan[1] = <<"token", s, n>>,
         Say(<<"token", s, n>>), todo' = Tail(todo),
         methodList' = IF s = "method:def" THEN Plus(methodList, n) ELSE methodList,
         varStack' = IF s = "method:def" THEN Append(varStack, {})
                     ELSE IF s = "var:def" THEN Noted(varStack, n)
                     ELSE varStack
  PROVE  Right
<1>1. /\ text \in Texts /\ text.form # <<>> /\ s \in Symbols /\ plan # <<>>
      /\ plan[1] \in Steps(text)
      /\ s \in Identifiers => n \in Known(text, s)
  BY TokenSeen
<1>2. todo \in Seq(Goals) /\ Matches(todo, text.form) /\ Scoped(text, varStack)
      /\ methodList = text.methods /\ text.form \in Seq(Symbols)
  BY <1>1 DEF Types, Follows, Texts
<1>3. (s = "var:def" => n \in VarNames) /\ (s = "method:def" => n \in MethodNames)
  BY <1>1 DEF Known, Names, Identifiers
<1>4. Formed(text)
  BY Present DEF Types, Follows
<1>5. PICK g, h, next : g = text /\ h = After(text, <<"token", s, n>>) /\ next = varStack'
  OBVIOUS
<1>6. /\ h \in Texts /\ h.form = Tail(text.form)
      /\ h.vars = IF s = "var:def" THEN Plus(text.vars, n) ELSE text.vars
      /\ h.methods = IF s = "method:def" THEN Plus(text.methods, n) ELSE text.methods
  <2>1. /\ g \in Texts /\ Formed(g) /\ g.form # <<>> /\ s = g.form[1]
        /\ h = After(g, <<"token", s, n>>)
    BY <1>1, <1>4, <1>5
  <2>2. /\ h \in Texts /\ h.form = Tail(g.form)
        /\ h.vars = IF s = "var:def" THEN Plus(g.vars, n) ELSE g.vars
        /\ h.methods = IF s = "method:def" THEN Plus(g.methods, n) ELSE g.methods
    BY ONLY <2>1, <1>3, AfterToken
  <2>. QED
    BY <2>2, <1>5
<1>7. Scoped(h, next)
  <2>1. g \in Texts /\ Scoped(g, varStack) /\ g.form # <<>> /\ s = g.form[1]
        /\ h.form = Tail(g.form) /\ h.vars = IF s = "var:def" THEN Plus(g.vars, n) ELSE g.vars
    BY <1>1, <1>2, <1>5, <1>6
  <2>2. PICK stack : stack = varStack
    OBVIOUS
  <2>3. next = IF s = "method:def" THEN Append(stack, {})
               ELSE IF s = "var:def" THEN Noted(stack, n) ELSE stack
    BY <2>2, <1>5
  <2>. QED
    BY ONLY <2>1, <2>2, <2>3, <1>6, s \notin Compound, ScopedToken
<1>8. Matches(Tail(todo), Tail(text.form)) /\ Tail(todo) \in Seq(Goals)
  BY <1>1, <1>2, MatchesTail
<1>9. methodList' = h.methods
  BY <1>2, <1>6
<1>. QED
  BY <1>1, <1>5, <1>6, <1>7, <1>8, <1>9, StepTaken

(* The parser exits where the text is rejected.                            *)
LEMMA Rejected ==
  ASSUME Types, Follows, Ready, todo # <<>>, NEW s, s = text.form[1], s \notin Compound,
         Head(todo) = s, plan[1] = <<"reject", s, Current[2]>>, Exit
  PROVE  Right
<1>1. plan # <<>> /\ plan[1] \in Steps(text)
  BY TokenSeen
<1>2. plan \in Seq(AllSteps) /\ AtMostTwo(Tokens) /\ author \in Texts /\ Formed(author)
  BY DEF Types, TypeOK, AtMostTwo
<1>3. PICK e : e = <<"reject", s, Current[2]>>
  OBVIOUS
<1>4. /\ said' = e /\ text' = After(text, e) /\ plan' = Tail(plan) /\ author' = author
      /\ todo' = <<>> /\ varStack' = varStack /\ methodList' = methodList
      /\ e[1] = "reject" /\ e = plan[1]
  BY <1>1, <1>3 DEF Exit, Say
<1>5. Over'
  <2>1. text \in Texts
    BY TokenSeen
  <2>2. After(text, e).form = <<>>
    BY <2>1, <1>4 DEF After, Texts
  <2>. QED
    BY <2>2, <1>4 DEF Over
<1>6. Types'
  <2>1. AtMostTwo(Tokens')
    BY <1>1, <1>2, <1>4, TokensTail
  <2>2. plan' \in Seq(AllSteps) /\ todo' \in Seq(Goals)
    BY <1>1, <1>2, <1>4
  <2>. QED
    BY <2>1, <2>2, <1>2, <1>4 DEF Types, TypeOK, AtMostTwo
<1>7. said' = Head(plan) /\ said' \in Steps(text)
  BY <1>1, <1>2, <1>4
<1>. QED
  BY <1>4, <1>5, <1>6, <1>7 DEF Right, ParserInv

(* The variables of the open method are what the parser looks a name up in.*)
LEMMA ScopeSeen ==
  ASSUME NEW g \in Texts, NEW stack, Scoped(g, stack), g.form # <<>>, NEW s, s = g.form[1],
         s \notin {"Program", "MethodSeq", "MethodMore", "MethodDefine",
                   "extern", "type", "method:def"}
  PROVE  \A n : (\E i \in DOMAIN stack : n \in stack[i]) <=> n \in g.vars
<1>1. ~ Between(g.form)
  BY DEF Between
<1>2. PICK k \in 0 .. 3 : Within(g.form, k) /\ (k = 0 => stack = <<g.vars>>)
  BY <1>1 DEF Scoped
<1>3. k = 0
  <2>1. k > 1 => 1 \in 1 .. k - 1
    OBVIOUS
  <2>2. k > 0 => s \in {"extern", "type", "method:def"}
    BY <2>1, <1>2 DEF Within
  <2>. QED
    BY <2>2
<1>4. DOMAIN stack = {1} /\ stack[1] = g.vars
  BY <1>2, <1>3
<1>. QED
  BY <1>4

(* Tokens whose kind is checked.                                           *)
LEMMA TakeRight ==
  ASSUME Types, Follows, Take
  PROVE  Right
<1>. DEFINE s == text.form[1]
<1>1. Ready /\ todo # <<>> /\ Head(todo) = todo[1] /\ (todo[1] \in Checked \/ todo[1] = "any")
  <2>1. todo \in Seq(Goals)
    BY DEF Types
  <2>. QED
    BY <2>1 DEF Take, Goal
<1>2. s \notin Compound
  <2>1. todo \in Seq(Goals) /\ Matches(todo, text.form) /\ text.form \in Seq(Symbols)
    BY Present DEF Types, Follows
  <2>2. todo[1] = s \/ (todo[1] = "any" /\ s \in Granted)
    BY <2>1, <1>1, MatchesTail DEF Matches
  <2>. QED
    BY <2>2, <1>1, CompoundIs DEF Checked, Granted
<1>3. /\ todo[1] = s \/ (todo[1] = "any" /\ s \in Granted)
      /\ s \in Symbols
      /\ Current = <<Kind(s), plan[1][3]>>
      /\ \/ plan[1] = <<"token", s, plan[1][3]>>
         \/ s \in Identifiers
  BY <1>1, <1>2, TokenSeen
<1>4. s \in Checked \cup Granted /\ s \notin Identifiers /\ Kind(s) = s
  <2>1. s # "any"
    BY <1>3, CompoundIs DEF Symbols, Terminals, Identifiers
  <2>2. s \in Checked \cup Granted
    BY <2>1, <1>1, <1>3
  <2>. QED
    BY <2>2 DEF Checked, Granted, Identifiers, Kind
<1>5. PICK n : n = Current[2]
  OBVIOUS
<1>6. Current[1] = s /\ n = plan[1][3] /\ plan[1] = <<"token", s, n>>
  BY <1>3, <1>4, <1>5
<1>7. /\ Say(<<"token", s, n>>) /\ todo' = Tail(todo)
      /\ methodList' = methodList /\ varStack' = varStack
  <2>1. Consume(s) /\ methodList' = methodList /\ varStack' = varStack
    BY <1>1, <1>3, <1>6 DEF Take, Is, Goal, Checked
  <2>. QED
    BY <2>1, <1>5 DEF Consume
<1>8. s # "method:def" /\ s # "var:def"
  BY <1>4 DEF Identifiers
<1>. HIDE DEF s
<1>. QED
  BY <1>1, <1>2, <1>5, <1>6, <1>7, <1>8, TokenTaken DEF s

(* The node in front is the one the text has there.                        *)
LEMMA Front ==
  ASSUME Types, Follows, NEW s, Goal(s), s # "any"
  PROVE  /\ Ready /\ todo # <<>> /\ Head(todo) = s
         /\ text \in Texts /\ text.form # <<>> /\ text.form[1] = s
<1>1. todo \in Seq(Goals) /\ Matches(todo, text.form)
  BY DEF Types, Follows
<1>2. text \in Texts /\ text.form \in Seq(Symbols)
  BY Present DEF Types, Follows
<1>3. Ready /\ todo # <<>> /\ Head(todo) = s /\ todo[1] = s
  BY <1>1 DEF Goal
<1>4. text.form # <<>>
  BY <1>1, <1>3 DEF Matches
<1>5. text.form[1] = s
  BY <1>1, <1>2, <1>3, <1>4, MatchesTail
<1>. QED
  BY <1>2, <1>3, <1>4, <1>5

(* A new name.                                                             *)
LEMMA PushMethodRight ==
  ASSUME Types, Follows, PushMethod
  PROVE  Right
<1>. DEFINE s == text.form[1]
<1>1. Ready /\ todo # <<>> /\ s = "method:def" /\ text \in Texts
  BY Front DEF PushMethod
<1>2. s \notin Compound /\ s \in Identifiers
  BY <1>1, CompoundIs DEF Identifiers
<1>3. /\ Current = <<Kind(s), plan[1][3]>>
      /\ \/ plan[1] = <<"token", s, plan[1][3]>>
         \/ plan[1][3] \in Names(s) \ Known(text, s)
  BY <1>1, <1>2, TokenSeen
<1>4. PICK n : n = Current[2]
  OBVIOUS
<1>5. Current[1] = "identifier" /\ plan[1] = <<"token", s, n>>
  BY <1>1, <1>2, <1>3, <1>4 DEF Kind, Known
<1>6. /\ Say(<<"token", s, n>>) /\ todo' = Tail(todo)
      /\ methodList' = Plus(methodList, n) /\ varStack' = Append(varStack, {})
  BY <1>1, <1>4, <1>5 DEF PushMethod, Is, Consume, Plus
<1>. HIDE DEF s
<1>. QED
  BY <1>1, <1>2, <1>4, <1>5, <1>6, TokenTaken DEF s

(* The name of a variable.                                                 *)
LEMMA DefineVarRight ==
  ASSUME Types, Follows, DefineVar
  PROVE  Right
<1>. DEFINE s == text.form[1]
<1>1. Ready /\ todo # <<>> /\ s = "var:def" /\ text \in Texts
  BY Front DEF DefineVar
<1>2. s \notin Compound /\ s \in Identifiers
  BY <1>1, CompoundIs DEF Identifiers
<1>3. /\ Current = <<Kind(s), plan[1][3]>>
      /\ \/ plan[1] = <<"token", s, plan[1][3]>>
         \/ plan[1][3] \in Names(s) \ Known(text, s)
  BY <1>1, <1>2, TokenSeen
<1>4. PICK n : n = Current[2]
  OBVIOUS
<1>5. Current[1] = "identifier" /\ plan[1] = <<"token", s, n>>
  BY <1>1, <1>2, <1>3, <1>4 DEF Kind, Known
<1>6. /\ Say(<<"token", s, n>>) /\ todo' = Tail(todo)
      /\ methodList' = methodList /\ varStack' = Noted(varStack, n)
  BY <1>1, <1>4, <1>5 DEF DefineVar, Is, Consume, AddVar, Noted
<1>7. s # "method:def"
  BY <1>1
<1>. HIDE DEF s
<1>. QED
  BY <1>1, <1>2, <1>4, <1>5, <1>6, <1>7, TokenTaken DEF s

(* The use of a name.                                                      *)
LEMMA UseNameRight ==
  ASSUME Types, Follows, UseName
  PROVE  Right
<1>. DEFINE s == text.form[1]
<1>1. /\ Ready /\ todo # <<>> /\ Head(todo) = s /\ text \in Texts /\ text.form # <<>>
      /\ s \in {"var:use", "method:use", "var:set", "var:adr"}
  BY Front DEF UseName
<1>2. s \notin Compound /\ s \in Identifiers /\ s # "method:def" /\ s # "var:def"
  BY <1>1, CompoundIs DEF Identifiers
<1>3. /\ Current = <<Kind(s), plan[1][3]>>
      /\ \/ plan[1] = <<"token", s, plan[1][3]>> /\ plan[1][3] \in Known(text, s)
         \/ /\ plan[1] = <<"reject", s, plan[1][3]>> /\ s # "var:set"
            /\ plan[1][3] \in Names(s) \ Known(text, s)
  BY <1>1, <1>2, TokenSeen
<1>4. PICK n : n = Current[2]
  OBVIOUS
<1>5. n = plan[1][3]
  BY <1>3, <1>4
<1>6. Scoped(text, varStack) /\ methodList = text.methods
  BY DEF Follows
<1>7. s = "var:use" => (HasVarDefine(n) <=> n \in Known(text, s))
  <2>. SUFFICES ASSUME s = "var:use" PROVE HasVarDefine(n) <=> n \in text.vars
    BY DEF Known
  <2>1. PICK g, stack : g = text /\ stack = varStack
    OBVIOUS
  <2>2. (\E i \in DOMAIN stack : n \in stack[i]) <=> n \in g.vars
    BY <2>1, <1>1, <1>6, ScopeSeen
  <2>. QED
    BY <2>1, <2>2 DEF HasVarDefine
<1>8. s = "method:use" => (HasMethodDefine(n) <=> n \in Known(text, s))
  BY <1>6 DEF HasMethodDefine, Known
<1>9. s = "var:adr" => Known(text, s) = Names(s)
  BY DEF Known
<1>10. CASE plan[1] = <<"token", s, n>> /\ n \in Known(text, s)
  <2>1. Consume(s) /\ methodList' = methodList /\ varStack' = varStack
    BY <1>1, <1>4, <1>7, <1>8, <1>10 DEF UseName, Goal
  <2>2. Say(<<"token", s, n>>) /\ todo' = Tail(todo)
    BY <2>1, <1>4 DEF Consume
  <2>. HIDE DEF s
  <2>. QED
    BY <2>1, <2>2, <1>1, <1>2, <1>4, <1>10, TokenTaken DEF s
<1>11. CASE plan[1] = <<"reject", s, n>> /\ n \in Names(s) \ Known(text, s) /\ s # "var:set"
  <2>1. Exit
    BY <1>1, <1>4, <1>7, <1>8, <1>9, <1>11 DEF UseName, Goal
  <2>. HIDE DEF s
  <2>. QED
    BY <2>1, <1>1, <1>2, <1>4, <1>11, Rejected DEF s
<1>. QED
  BY <1>3, <1>5, <1>10, <1>11

-----------------------------------------------------------------------------
(* Choices of the parser.                                                  *)

\* The tokens that may be next when s gets the parts alt.
Ahead(s, alt, t) ==
  IF alt = <<>> THEN \E b \in Follow(s) : t \in Starts(b) ELSE t \in Starts(alt[1])

\* The kind of a token that may stand behind t.
Behind(t, kind) == \E c \in Follow(t) : \E u \in Starts(c) : kind = Kind(u)

Tokenized == (Symbols \cup {"end"}) \ Compound

(* What both keep.                                                         *)
LEMMA KeptBoth ==
  ASSUME NEW P, NEW Q, Kept(P), Kept(Q)
  PROVE  Kept(P \cap Q)
BY DEF Kept

(* What the plan has for a node, the parser sees in the tokens.            *)
LEMMA NodeSeen ==
  ASSUME Types, Follows, NEW s \in Compound, Goal(s)
  PROVE  /\ plan # <<>>
         /\ \E alt \in Rules[s], t \in Tokenized :
              /\ plan[1] = <<"rule", s, alt>> /\ Allowed(text, s, alt)
              /\ Current[1] = Kind(t) /\ Ahead(s, alt, t)
              /\ t # "end" => Behind(t, Second[1])
              /\ s = "Else" /\ alt = <<>> => t # "else"
              /\ s = "Statement" /\ alt = <<"ExpOpt", "semicolon">> => t \in Simple
<1>1. PICK d : Derivation(d, plan, text, author) /\ Guided(d, plan)
  BY DEF Follows
<1>2. plan \in Seq(AllSteps) /\ AtMostTwo(Tokens)
  BY DEF Types, TypeOK, AtMostTwo
<1>3. /\ text \in Texts /\ Formed(text)
      /\ plan = <<>> => text = author
      /\ plan # <<>> => plan[1] \in Steps(text)
  BY <1>1, <1>2, Present
<1>4. Ready /\ text.form # <<>> /\ text.form[1] = s
  <2>1. s # "any"
    BY CompoundIs
  <2>. QED
    BY <2>1, Front
<1>5. plan # <<>>
  BY <1>3, <1>4 DEF Ready, Tokens
<1>6. PICK alt \in Rules[s] : plan[1] = <<"rule", s, alt>> /\ Allowed(text, s, alt)
  BY <1>3, <1>4, <1>5, StepIs
<1>7. PICK h : h = d[1]
  OBVIOUS
<1>8. h = After(text, <<"rule", s, alt>>)
  BY <1>1, <1>2, <1>5, <1>6, <1>7, PlanTaken
<1>9. /\ h \in Texts /\ Settles(s, alt) \subseteq h.settled
      /\ IF alt = <<>> THEN At(h.form, 1) \in Follow(s) ELSE At(h.form, 1) = alt[1]
  <2>1. PICK g : g = text
    OBVIOUS
  <2>2. g \in Texts /\ Formed(g) /\ g.form # <<>> /\ g.form[1] = s
    BY <2>1, <1>3, <1>4
  <2>3. /\ h = After(g, <<"rule", g.form[1], alt>>)
        /\ alt \in Rules[g.form[1]] /\ g.form[1] \in Compound
    BY <2>1, <2>2, <1>8
  <2>4. /\ h \in Texts /\ Settles(g.form[1], alt) \subseteq h.settled
        /\ IF alt = <<>> THEN At(h.form, 1) \in Follow(g.form[1]) ELSE At(h.form, 1) = alt[1]
    BY ONLY <2>2, <2>3, AfterRule
  <2>. QED
    BY <2>2, <2>4
<1>. DEFINE c == At(h.form, 1)
            Next0 == {g \in Texts : Starts(At(g.form, 1)) \subseteq Starts(c)}
            Extra == IF s = "Else" /\ alt = <<>> THEN NoElse
                     ELSE IF s = "Statement" /\ alt = <<"ExpOpt", "semicolon">> THEN Expressed
                     ELSE Next0
            P == Next0 \cap Extra
<1>10. Kept(P) /\ P \in SUBSET Texts
  <2>1. Kept(Next0)
    BY KeptStarts
  <2>2. Kept(Extra)
    BY <2>1, KeptNoElse, KeptExpressed
  <2>3. P \in SUBSET Texts
    OBVIOUS
  <2>. HIDE DEF Next0, Extra
  <2>. QED
    BY <2>1, <2>2, <2>3, KeptBoth
<1>11. d[1] \in P
  <2>1. h \in Next0
    BY <1>9
  <2>2. CASE s = "Else" /\ alt = <<>>
    <3>1. "noElse" \in h.settled
      BY <2>2, <1>9 DEF Settles
    <3>2. c # "else"
      BY <2>2, <1>9 DEF Follow
    <3>. QED
      BY <2>1, <2>2, <3>1, <3>2, <1>7, <1>9 DEF NoElse
  <2>3. CASE s = "Statement" /\ alt = <<"ExpOpt", "semicolon">>
    <3>1. Settles(s, alt) = {"expression"}
      BY <2>3 DEF Settles
    <3>2. c = "ExpOpt"
      BY <2>3, <1>9
    <3>. QED
      BY <2>1, <2>3, <3>1, <3>2, <1>7, <1>9 DEF Expressed, Simple
  <2>. QED
    BY <2>1, <2>2, <2>3, <1>7
<1>12. PICK g \in P :
         /\ At(g.form, 1) \in Tokenized /\ Current[1] = Kind(At(g.form, 1))
         /\ At(g.form, 1) # "end" => Behind(At(g.form, 1), Second[1])
  <2>. HIDE DEF P
  <2>1. Len(plan) \in Nat /\ 1 <= Len(plan) /\ plan[1][1] = "rule" /\ 1 \in {0, 1}
    BY <1>2, <1>5, <1>6
  <2>. QED
    BY <2>1, <1>1, <1>2, <1>4, <1>10, <1>11, TokensSeen DEF Behind, Tokenized
<1>13. PICK t \in Tokenized : t = At(g.form, 1)
  BY <1>12
<1>14. t \in Starts(c)
  <2>1. t \in Starts(t)
    BY TokensStart DEF Tokenized
  <2>. QED
    BY <2>1, <1>12, <1>13
<1>15. Ahead(s, alt, t)
  BY <1>9, <1>14 DEF Ahead
<1>16. /\ s = "Else" /\ alt = <<>> => t # "else"
       /\ s = "Statement" /\ alt = <<"ExpOpt", "semicolon">> => t \in Simple
  BY <1>12, <1>13 DEF NoElse, Expressed
<1>. HIDE DEF c, Next0, Extra, P
<1>. QED
  BY <1>5, <1>6, <1>12, <1>13, <1>15, <1>16

(* A node built as the plan has it.                                        *)
LEMMA ChooseByRight ==
  ASSUME Types, Follows, NEW s \in Compound, Goal(s), s # "MethodEnd", NEW alt \in Rules[s],
         plan # <<>>, plan[1] = <<"rule", s, alt>>,
         NEW parts \in Seq(Goals), Matches(parts, alt), ChooseBy(alt, parts)
  PROVE  Right
<1>1. s # "any"
  BY CompoundIs
<1>2. Head(todo) = s
  BY <1>1, Front
<1>3. /\ Say(<<"rule", s, alt>>) /\ Build(parts)
      /\ methodList' = methodList /\ varStack' = varStack
  BY <1>2 DEF ChooseBy
<1>. QED
  BY <1>3, RuleTaken

(* The same where no part is taken for granted.                            *)
LEMMA ChooseRight ==
  ASSUME Types, Follows, NEW s \in Compound, Goal(s), s # "MethodEnd", NEW alt \in Rules[s],
         plan # <<>>, plan[1] = <<"rule", s, alt>>, Choose(alt)
  PROVE  Right
<1>1. alt \in Seq(Symbols)
  BY RulesFit DEF Fits
<1>2. alt \in Seq(Goals) /\ Matches(alt, alt)
  BY <1>1 DEF Goals, Matches
<1>3. ChooseBy(alt, alt)
  BY DEF Choose
<1>. QED
  BY <1>2, <1>3, ChooseByRight

(* A node that has its parts always.                                       *)
LEMMA SingleRight ==
  ASSUME Types, Follows, NEW s \in Compound, Goal(s), s # "MethodEnd",
         NEW alt, Rules[s] = {alt}, Choose(alt)
  PROVE  Right
<1>1. plan # <<>> /\ plan[1] = <<"rule", s, alt>> /\ alt \in Rules[s]
  BY NodeSeen
<1>. QED
  BY <1>1, ChooseRight

\* The parts the parser chooses.
Chosen(kind, a, b) == IF Is(kind) THEN a ELSE b

(* A node with two forms, told apart by the token in front.                *)
LEMMA OptionRight ==
  ASSUME Types, Follows, NEW s \in Compound, Goal(s), s # "MethodEnd", s # "Statement",
         NEW a, NEW b, Rules[s] = {a, b}, NEW kind,
         \A t \in Tokenized : Ahead(s, a, t) => Kind(t) = kind,
         \A t \in Tokenized : Ahead(s, b, t) /\ (s = "Else" => t # "else") => Kind(t) # kind,
         s = "Else" => b = <<>>,
         Choose(Chosen(kind, a, b))
  PROVE  Right
<1>1. PICK alt \in Rules[s], t \in Tokenized :
        /\ plan # <<>> /\ plan[1] = <<"rule", s, alt>>
        /\ Current[1] = Kind(t) /\ Ahead(s, alt, t)
        /\ s = "Else" /\ alt = <<>> => t # "else"
  BY NodeSeen
<1>2. CASE alt = a
  <2>1. Is(kind)
    BY <1>1, <1>2 DEF Is
  <2>2. Choose(alt)
    BY <2>1, <1>2 DEF Chosen
  <2>. QED
    BY <2>2, <1>1, ChooseRight
<1>3. CASE alt = b
  <2>1. ~ Is(kind)
    BY <1>1, <1>3 DEF Is
  <2>2. Choose(alt)
    BY <2>1, <1>3 DEF Chosen
  <2>. QED
    BY <2>2, <1>1, ChooseRight
<1>. QED
  BY <1>1, <1>2, <1>3

(* The methods of a program.                                               *)
LEMMA ProgramNodeRight ==
  ASSUME Types, Follows, ProgramNode
  PROVE  Right
<1>1. CASE Goal("Program") /\ Choose(IF Is("none") THEN <<>> ELSE <<"MethodSeq">>)
  <2>1. PICK s, kind, a, b : s \in Compound /\ s = "Program" /\ kind = "none"
          /\ a = <<>>
          /\ b = <<"MethodSeq">>
    BY CompoundIs
  <2>2. Rules[s] = {a, b}
    BY <2>1 DEF Rules, Compound, MethodRules, StatementRules, ExpressionRules, BoolRules
  <2>3. \A t \in Tokenized : Ahead(s, a, t) => Kind(t) = kind
    BY <2>1 DEF Ahead, Follow, Starts, Operand, Assigned, Tested, Sentence, Kind, Identifiers
  <2>4. \A t \in Tokenized : Ahead(s, b, t) => Kind(t) # kind
    BY <2>1 DEF Ahead, Follow, Starts, Operand, Assigned, Tested, Sentence, Kind, Identifiers
  <2>5. Goal(s) /\ Choose(Chosen(kind, a, b))
    BY <1>1, <2>1 DEF Chosen
  <2>6. s # "MethodEnd" /\ s # "Statement" /\ (s = "Else" => b = <<>>)
    BY <2>1
  <2>. QED
    BY <2>1, <2>2, <2>3, <2>4, <2>5, <2>6, OptionRight
<1>2. CASE Goal("MethodSeq") /\ Choose(<<"MethodDefine", "MethodMore">>)
  <2>1. Rules["MethodSeq"] = {<<"MethodDefine", "MethodMore">>}
    BY DEF Rules, Compound, MethodRules, StatementRules, ExpressionRules, BoolRules
  <2>. QED
    BY <1>2, <2>1, CompoundIs, SingleRight
<1>3. CASE Goal("MethodMore") /\ Choose(IF Is("none") THEN <<>> ELSE <<"MethodSeq">>)
  <2>1. PICK s, kind, a, b : s \in Compound /\ s = "MethodMore" /\ kind = "none"
          /\ a = <<>>
          /\ b = <<"MethodSeq">>
    BY CompoundIs
  <2>2. Rules[s] = {a, b}
    BY <2>1 DEF Rules, Compound, MethodRules, StatementRules, ExpressionRules, BoolRules
  <2>3. \A t \in Tokenized : Ahead(s, a, t) => Kind(t) = kind
    BY <2>1 DEF Ahead, Follow, Starts, Operand, Assigned, Tested, Sentence, Kind, Identifiers
  <2>4. \A t \in Tokenized : Ahead(s, b, t) => Kind(t) # kind
    BY <2>1 DEF Ahead, Follow, Starts, Operand, Assigned, Tested, Sentence, Kind, Identifiers
  <2>5. Goal(s) /\ Choose(Chosen(kind, a, b))
    BY <1>3, <2>1 DEF Chosen
  <2>6. s # "MethodEnd" /\ s # "Statement" /\ (s = "Else" => b = <<>>)
    BY <2>1
  <2>. QED
    BY <2>1, <2>2, <2>3, <2>4, <2>5, <2>6, OptionRight
<1>. QED
  BY <1>1, <1>2, <1>3 DEF ProgramNode

(* A declared method begins with extern.                                   *)
LEMMA MethodDefineRight ==
  ASSUME Types, Follows, MethodDefine
  PROVE  Right
<1>1. CASE /\ Goal("MethodDefine")
         /\ Choose(IF Is("extern")
                   THEN <<"extern", "type", "method:def", "(", "ParamOpt", ")", "semicolon",
                          "MethodEnd">>
                   ELSE <<"type", "method:def", "(", "ParamOpt", ")", "MethodBody", "MethodEnd">>)
  <2>1. PICK s, kind, a, b : s \in Compound /\ s = "MethodDefine" /\ kind = "extern"
          /\ a = <<"extern", "type", "method:def", "(", "ParamOpt", ")", "semicolon", "MethodEnd">>
          /\ b = <<"type", "method:def", "(", "ParamOpt", ")", "MethodBody", "MethodEnd">>
    BY CompoundIs
  <2>2. Rules[s] = {a, b}
    BY <2>1 DEF Rules, Compound, MethodRules, StatementRules, ExpressionRules, BoolRules
  <2>3. \A t \in Tokenized : Ahead(s, a, t) => Kind(t) = kind
    BY <2>1 DEF Ahead, Follow, Starts, Operand, Assigned, Tested, Sentence, Kind, Identifiers
  <2>4. \A t \in Tokenized : Ahead(s, b, t) => Kind(t) # kind
    BY <2>1 DEF Ahead, Follow, Starts, Operand, Assigned, Tested, Sentence, Kind, Identifiers
  <2>5. Goal(s) /\ Choose(Chosen(kind, a, b))
    BY <1>1, <2>1 DEF Chosen
  <2>6. s # "MethodEnd" /\ s # "Statement" /\ (s = "Else" => b = <<>>)
    BY <2>1
  <2>. QED
    BY <2>1, <2>2, <2>3, <2>4, <2>5, <2>6, OptionRight
<1>2. CASE Goal("MethodBody") /\ Choose(IF Is("semicolon") THEN <<"semicolon">> ELSE <<"Block">>)
  <2>1. PICK s, kind, a, b : s \in Compound /\ s = "MethodBody" /\ kind = "semicolon"
          /\ a = <<"semicolon">>
          /\ b = <<"Block">>
    BY CompoundIs
  <2>2. Rules[s] = {a, b}
    BY <2>1 DEF Rules, Compound, MethodRules, StatementRules, ExpressionRules, BoolRules
  <2>3. \A t \in Tokenized : Ahead(s, a, t) => Kind(t) = kind
    BY <2>1 DEF Ahead, Follow, Starts, Operand, Assigned, Tested, Sentence, Kind, Identifiers
  <2>4. \A t \in Tokenized : Ahead(s, b, t) => Kind(t) # kind
    BY <2>1 DEF Ahead, Follow, Starts, Operand, Assigned, Tested, Sentence, Kind, Identifiers
  <2>5. Goal(s) /\ Choose(Chosen(kind, a, b))
    BY <1>2, <2>1 DEF Chosen
  <2>6. s # "MethodEnd" /\ s # "Statement" /\ (s = "Else" => b = <<>>)
    BY <2>1
  <2>. QED
    BY <2>1, <2>2, <2>3, <2>4, <2>5, <2>6, OptionRight
<1>. QED
  BY <1>1, <1>2 DEF MethodDefine

(* Parameters end at the parenthesis.                                      *)
LEMMA ParamsRight ==
  ASSUME Types, Follows, Params
  PROVE  Right
<1>1. CASE Goal("ParamOpt") /\ Choose(IF Is(")") THEN <<>> ELSE <<"ParamList">>)
  <2>1. PICK s, kind, a, b : s \in Compound /\ s = "ParamOpt" /\ kind = ")"
          /\ a = <<>>
          /\ b = <<"ParamList">>
    BY CompoundIs
  <2>2. Rules[s] = {a, b}
    BY <2>1 DEF Rules, Compound, MethodRules, StatementRules, ExpressionRules, BoolRules
  <2>3. \A t \in Tokenized : Ahead(s, a, t) => Kind(t) = kind
    BY <2>1 DEF Ahead, Follow, Starts, Operand, Assigned, Tested, Sentence, Kind, Identifiers
  <2>4. \A t \in Tokenized : Ahead(s, b, t) => Kind(t) # kind
    BY <2>1 DEF Ahead, Follow, Starts, Operand, Assigned, Tested, Sentence, Kind, Identifiers
  <2>5. Goal(s) /\ Choose(Chosen(kind, a, b))
    BY <1>1, <2>1 DEF Chosen
  <2>6. s # "MethodEnd" /\ s # "Statement" /\ (s = "Else" => b = <<>>)
    BY <2>1
  <2>. QED
    BY <2>1, <2>2, <2>3, <2>4, <2>5, <2>6, OptionRight
<1>2. CASE Goal("ParamList") /\ Choose(<<"type", "var:def", "ParamMore">>)
  <2>1. Rules["ParamList"] = {<<"type", "var:def", "ParamMore">>}
    BY DEF Rules, Compound, MethodRules, StatementRules, ExpressionRules, BoolRules
  <2>. QED
    BY <1>2, <2>1, CompoundIs, SingleRight
<1>3. CASE Goal("ParamMore") /\ Choose(IF Is("comma") THEN <<"comma", "ParamList">> ELSE <<>>)
  <2>1. PICK s, kind, a, b : s \in Compound /\ s = "ParamMore" /\ kind = "comma"
          /\ a = <<"comma", "ParamList">>
          /\ b = <<>>
    BY CompoundIs
  <2>2. Rules[s] = {a, b}
    BY <2>1 DEF Rules, Compound, MethodRules, StatementRules, ExpressionRules, BoolRules
  <2>3. \A t \in Tokenized : Ahead(s, a, t) => Kind(t) = kind
    BY <2>1 DEF Ahead, Follow, Starts, Operand, Assigned, Tested, Sentence, Kind, Identifiers
  <2>4. \A t \in Tokenized : Ahead(s, b, t) => Kind(t) # kind
    BY <2>1 DEF Ahead, Follow, Starts, Operand, Assigned, Tested, Sentence, Kind, Identifiers
  <2>5. Goal(s) /\ Choose(Chosen(kind, a, b))
    BY <1>3, <2>1 DEF Chosen
  <2>6. s # "MethodEnd" /\ s # "Statement" /\ (s = "Else" => b = <<>>)
    BY <2>1
  <2>. QED
    BY <2>1, <2>2, <2>3, <2>4, <2>5, <2>6, OptionRight
<1>. QED
  BY <1>1, <1>2, <1>3 DEF Params

(* Statements end at the brace.                                            *)
LEMMA BlockRight ==
  ASSUME Types, Follows, Block
  PROVE  Right
<1>1. CASE Goal("Block") /\ Choose(<<"lbrace", "StatementOpt", "rbrace">>)
  <2>1. Rules["Block"] = {<<"lbrace", "StatementOpt", "rbrace">>}
    BY DEF Rules, Compound, MethodRules, StatementRules, ExpressionRules, BoolRules
  <2>. QED
    BY <1>1, <2>1, CompoundIs, SingleRight
<1>2. CASE Goal("StatementOpt") /\ Choose(IF Is("rbrace") THEN <<>> ELSE <<"StatementSeq">>)
  <2>1. PICK s, kind, a, b : s \in Compound /\ s = "StatementOpt" /\ kind = "rbrace"
          /\ a = <<>>
          /\ b = <<"StatementSeq">>
    BY CompoundIs
  <2>2. Rules[s] = {a, b}
    BY <2>1 DEF Rules, Compound, MethodRules, StatementRules, ExpressionRules, BoolRules
  <2>3. \A t \in Tokenized : Ahead(s, a, t) => Kind(t) = kind
    BY <2>1 DEF Ahead, Follow, Starts, Operand, Assigned, Tested, Sentence, Kind, Identifiers
  <2>4. \A t \in Tokenized : Ahead(s, b, t) => Kind(t) # kind
    BY <2>1 DEF Ahead, Follow, Starts, Operand, Assigned, Tested, Sentence, Kind, Identifiers
  <2>5. Goal(s) /\ Choose(Chosen(kind, a, b))
    BY <1>2, <2>1 DEF Chosen
  <2>6. s # "MethodEnd" /\ s # "Statement" /\ (s = "Else" => b = <<>>)
    BY <2>1
  <2>. QED
    BY <2>1, <2>2, <2>3, <2>4, <2>5, <2>6, OptionRight
<1>3. CASE Goal("StatementSeq") /\ Choose(<<"Statement", "StatementMore">>)
  <2>1. Rules["StatementSeq"] = {<<"Statement", "StatementMore">>}
    BY DEF Rules, Compound, MethodRules, StatementRules, ExpressionRules, BoolRules
  <2>. QED
    BY <1>3, <2>1, CompoundIs, SingleRight
<1>4. CASE Goal("StatementMore") /\ Choose(IF Is("rbrace") THEN <<>> ELSE <<"StatementSeq">>)
  <2>1. PICK s, kind, a, b : s \in Compound /\ s = "StatementMore" /\ kind = "rbrace"
          /\ a = <<>>
          /\ b = <<"StatementSeq">>
    BY CompoundIs
  <2>2. Rules[s] = {a, b}
    BY <2>1 DEF Rules, Compound, MethodRules, StatementRules, ExpressionRules, BoolRules
  <2>3. \A t \in Tokenized : Ahead(s, a, t) => Kind(t) = kind
    BY <2>1 DEF Ahead, Follow, Starts, Operand, Assigned, Tested, Sentence, Kind, Identifiers
  <2>4. \A t \in Tokenized : Ahead(s, b, t) => Kind(t) # kind
    BY <2>1 DEF Ahead, Follow, Starts, Operand, Assigned, Tested, Sentence, Kind, Identifiers
  <2>5. Goal(s) /\ Choose(Chosen(kind, a, b))
    BY <1>4, <2>1 DEF Chosen
  <2>6. s # "MethodEnd" /\ s # "Statement" /\ (s = "Else" => b = <<>>)
    BY <2>1
  <2>. QED
    BY <2>1, <2>2, <2>3, <2>4, <2>5, <2>6, OptionRight
<1>. QED
  BY <1>1, <1>2, <1>3, <1>4 DEF Block

(* An else belongs to the if that was read last.                           *)
LEMMA ElseRight ==
  ASSUME Types, Follows, Else
  PROVE  Right
<1>1. CASE Goal("Else") /\ Choose(IF Is("else") THEN <<"else", "Statement">> ELSE <<>>)
  <2>1. PICK s, kind, a, b : s \in Compound /\ s = "Else" /\ kind = "else"
          /\ a = <<"else", "Statement">>
          /\ b = <<>>
    BY CompoundIs
  <2>2. Rules[s] = {a, b}
    BY <2>1 DEF Rules, Compound, MethodRules, StatementRules, ExpressionRules, BoolRules
  <2>3. \A t \in Tokenized : Ahead(s, a, t) => Kind(t) = kind
    BY <2>1 DEF Ahead, Follow, Starts, Operand, Assigned, Tested, Sentence, Kind, Identifiers
  <2>4. \A t \in Tokenized : Ahead(s, b, t) /\ (s = "Else" => t # "else") => Kind(t) # kind
    BY <2>1 DEF Ahead, Follow, Starts, Operand, Assigned, Tested, Sentence, Kind, Identifiers
  <2>5. Goal(s) /\ Choose(Chosen(kind, a, b))
    BY <1>1, <2>1 DEF Chosen
  <2>6. s # "MethodEnd" /\ s # "Statement" /\ (s = "Else" => b = <<>>)
    BY <2>1
  <2>. QED
    BY <2>1, <2>2, <2>3, <2>4, <2>5, <2>6, OptionRight
<1>. QED
  BY <1>1 DEF Else

(* What may be left out.                                                   *)
LEMMA OptionalRight ==
  ASSUME Types, Follows, Optional
  PROVE  Right
<1>1. CASE Goal("ExpOpt") /\ Choose(IF Is("semicolon") THEN <<>> ELSE <<"Expression">>)
  <2>1. PICK s, kind, a, b : s \in Compound /\ s = "ExpOpt" /\ kind = "semicolon"
          /\ a = <<>>
          /\ b = <<"Expression">>
    BY CompoundIs
  <2>2. Rules[s] = {a, b}
    BY <2>1 DEF Rules, Compound, MethodRules, StatementRules, ExpressionRules, BoolRules
  <2>3. \A t \in Tokenized : Ahead(s, a, t) => Kind(t) = kind
    BY <2>1 DEF Ahead, Follow, Starts, Operand, Assigned, Tested, Sentence, Kind, Identifiers
  <2>4. \A t \in Tokenized : Ahead(s, b, t) => Kind(t) # kind
    BY <2>1 DEF Ahead, Follow, Starts, Operand, Assigned, Tested, Sentence, Kind, Identifiers
  <2>5. Goal(s) /\ Choose(Chosen(kind, a, b))
    BY <1>1, <2>1 DEF Chosen
  <2>6. s # "MethodEnd" /\ s # "Statement" /\ (s = "Else" => b = <<>>)
    BY <2>1
  <2>. QED
    BY <2>1, <2>2, <2>3, <2>4, <2>5, <2>6, OptionRight
<1>2. CASE Goal("BoolOpt") /\ Choose(IF Is("semicolon") THEN <<>> ELSE <<"Bool">>)
  <2>1. PICK s, kind, a, b : s \in Compound /\ s = "BoolOpt" /\ kind = "semicolon"
          /\ a = <<>>
          /\ b = <<"Bool">>
    BY CompoundIs
  <2>2. Rules[s] = {a, b}
    BY <2>1 DEF Rules, Compound, MethodRules, StatementRules, ExpressionRules, BoolRules
  <2>3. \A t \in Tokenized : Ahead(s, a, t) => Kind(t) = kind
    BY <2>1 DEF Ahead, Follow, Starts, Operand, Assigned, Tested, Sentence, Kind, Identifiers
  <2>4. \A t \in Tokenized : Ahead(s, b, t) => Kind(t) # kind
    BY <2>1 DEF Ahead, Follow, Starts, Operand, Assigned, Tested, Sentence, Kind, Identifiers
  <2>5. Goal(s) /\ Choose(Chosen(kind, a, b))
    BY <1>2, <2>1 DEF Chosen
  <2>6. s # "MethodEnd" /\ s # "Statement" /\ (s = "Else" => b = <<>>)
    BY <2>1
  <2>. QED
    BY <2>1, <2>2, <2>3, <2>4, <2>5, <2>6, OptionRight
<1>3. CASE Goal("AfterOpt") /\ Choose(IF Is(")") THEN <<>> ELSE <<"Expression">>)
  <2>1. PICK s, kind, a, b : s \in Compound /\ s = "AfterOpt" /\ kind = ")"
          /\ a = <<>>
          /\ b = <<"Expression">>
    BY CompoundIs
  <2>2. Rules[s] = {a, b}
    BY <2>1 DEF Rules, Compound, MethodRules, StatementRules, ExpressionRules, BoolRules
  <2>3. \A t \in Tokenized : Ahead(s, a, t) => Kind(t) = kind
    BY <2>1 DEF Ahead, Follow, Starts, Operand, Assigned, Tested, Sentence, Kind, Identifiers
  <2>4. \A t \in Tokenized : Ahead(s, b, t) => Kind(t) # kind
    BY <2>1 DEF Ahead, Follow, Starts, Operand, Assigned, Tested, Sentence, Kind, Identifiers
  <2>5. Goal(s) /\ Choose(Chosen(kind, a, b))
    BY <1>3, <2>1 DEF Chosen
  <2>6. s # "MethodEnd" /\ s # "Statement" /\ (s = "Else" => b = <<>>)
    BY <2>1
  <2>. QED
    BY <2>1, <2>2, <2>3, <2>4, <2>5, <2>6, OptionRight
<1>. QED
  BY <1>1, <1>2, <1>3 DEF Optional

(* Terms and factors go on at their operators.                             *)
LEMMA ArithmeticRight ==
  ASSUME Types, Follows, Arithmetic
  PROVE  Right
<1>1. CASE Goal("Arithmetic") /\ Choose(<<"Item", "ArithMore">>)
  <2>1. Rules["Arithmetic"] = {<<"Item", "ArithMore">>}
    BY DEF Rules, Compound, MethodRules, StatementRules, ExpressionRules, BoolRules
  <2>. QED
    BY <1>1, <2>1, CompoundIs, SingleRight
<1>2. CASE Goal("ArithMore") /\ Choose(IF Is("+") THEN <<"+", "Item", "ArithMore">> ELSE <<>>)
  <2>1. PICK s, kind, a, b : s \in Compound /\ s = "ArithMore" /\ kind = "+"
          /\ a = <<"+", "Item", "ArithMore">>
          /\ b = <<>>
    BY CompoundIs
  <2>2. Rules[s] = {a, b}
    BY <2>1 DEF Rules, Compound, MethodRules, StatementRules, ExpressionRules, BoolRules
  <2>3. \A t \in Tokenized : Ahead(s, a, t) => Kind(t) = kind
    BY <2>1 DEF Ahead, Follow, Starts, Operand, Assigned, Tested, Sentence, Kind, Identifiers
  <2>4. \A t \in Tokenized : Ahead(s, b, t) => Kind(t) # kind
    BY <2>1 DEF Ahead, Follow, Starts, Operand, Assigned, Tested, Sentence, Kind, Identifiers
  <2>5. Goal(s) /\ Choose(Chosen(kind, a, b))
    BY <1>2, <2>1 DEF Chosen
  <2>6. s # "MethodEnd" /\ s # "Statement" /\ (s = "Else" => b = <<>>)
    BY <2>1
  <2>. QED
    BY <2>1, <2>2, <2>3, <2>4, <2>5, <2>6, OptionRight
<1>3. CASE Goal("Item") /\ Choose(<<"Factor", "ItemMore">>)
  <2>1. Rules["Item"] = {<<"Factor", "ItemMore">>}
    BY DEF Rules, Compound, MethodRules, StatementRules, ExpressionRules, BoolRules
  <2>. QED
    BY <1>3, <2>1, CompoundIs, SingleRight
<1>4. CASE Goal("ItemMore") /\ Choose(IF Is("/") THEN <<"/", "Factor", "ItemMore">> ELSE <<>>)
  <2>1. PICK s, kind, a, b : s \in Compound /\ s = "ItemMore" /\ kind = "/"
          /\ a = <<"/", "Factor", "ItemMore">>
          /\ b = <<>>
    BY CompoundIs
  <2>2. Rules[s] = {a, b}
    BY <2>1 DEF Rules, Compound, MethodRules, StatementRules, ExpressionRules, BoolRules
  <2>3. \A t \in Tokenized : Ahead(s, a, t) => Kind(t) = kind
    BY <2>1 DEF Ahead, Follow, Starts, Operand, Assigned, Tested, Sentence, Kind, Identifiers
  <2>4. \A t \in Tokenized : Ahead(s, b, t) => Kind(t) # kind
    BY <2>1 DEF Ahead, Follow, Starts, Operand, Assigned, Tested, Sentence, Kind, Identifiers
  <2>5. Goal(s) /\ Choose(Chosen(kind, a, b))
    BY <1>4, <2>1 DEF Chosen
  <2>6. s # "MethodEnd" /\ s # "Statement" /\ (s = "Else" => b = <<>>)
    BY <2>1
  <2>. QED
    BY <2>1, <2>2, <2>3, <2>4, <2>5, <2>6, OptionRight
<1>. QED
  BY <1>1, <1>2, <1>3, <1>4 DEF Arithmetic

(* The elements of an array.                                               *)
LEMMA ArrayDataRight ==
  ASSUME Types, Follows, ArrayData
  PROVE  Right
<1>1. CASE /\ Goal("ArrayData")
         /\ ChooseBy(<<"integer", "ArrayMore">>, <<"any", "ArrayMore">>)
  <2>1. PICK s, alt, parts :
          /\ s \in Compound /\ s = "ArrayData" /\ alt = <<"integer", "ArrayMore">>
          /\ parts = <<"any", "ArrayMore">>
    BY CompoundIs
  <2>2. Rules[s] = {alt}
    BY <2>1 DEF Rules, Compound, MethodRules, StatementRules, ExpressionRules, BoolRules
  <2>3. plan # <<>> /\ plan[1] = <<"rule", s, alt>>
    BY <1>1, <2>1, <2>2, NodeSeen
  <2>4. parts \in Seq(Goals) /\ Matches(parts, alt)
    BY <2>1, CompoundIs DEF Goals, Symbols, Terminals, Identifiers, Matches, Granted
  <2>5. Goal(s) /\ ChooseBy(alt, parts) /\ s # "MethodEnd" /\ alt \in Rules[s]
    BY <1>1, <2>1, <2>2
  <2>. QED
    BY <2>1, <2>3, <2>4, <2>5, ChooseByRight
<1>2. CASE Goal("ArrayMore") /\ Choose(IF Is("comma") THEN <<"comma", "ArrayData">> ELSE <<>>)
  <2>1. PICK s, kind, a, b : s \in Compound /\ s = "ArrayMore" /\ kind = "comma"
          /\ a = <<"comma", "ArrayData">>
          /\ b = <<>>
    BY CompoundIs
  <2>2. Rules[s] = {a, b}
    BY <2>1 DEF Rules, Compound, MethodRules, StatementRules, ExpressionRules, BoolRules
  <2>3. \A t \in Tokenized : Ahead(s, a, t) => Kind(t) = kind
    BY <2>1 DEF Ahead, Follow, Starts, Operand, Assigned, Tested, Sentence, Kind, Identifiers
  <2>4. \A t \in Tokenized : Ahead(s, b, t) => Kind(t) # kind
    BY <2>1 DEF Ahead, Follow, Starts, Operand, Assigned, Tested, Sentence, Kind, Identifiers
  <2>5. Goal(s) /\ Choose(Chosen(kind, a, b))
    BY <1>2, <2>1 DEF Chosen
  <2>6. s # "MethodEnd" /\ s # "Statement" /\ (s = "Else" => b = <<>>)
    BY <2>1
  <2>. QED
    BY <2>1, <2>2, <2>3, <2>4, <2>5, <2>6, OptionRight
<1>. QED
  BY <1>1, <1>2 DEF ArrayData

(* The arguments of a call.                                                *)
LEMMA CallRight ==
  ASSUME Types, Follows, Call
  PROVE  Right
<1>1. CASE /\ Goal("Call")
         /\ ChooseBy(<<"method:use", "(", "ObjectOpt", ")">>,
                     <<"method:use", "any", "ObjectOpt", "any">>)
  <2>1. PICK s, alt, parts :
          /\ s \in Compound /\ s = "Call" /\ alt = <<"method:use", "(", "ObjectOpt", ")">>
          /\ parts = <<"method:use", "any", "ObjectOpt", "any">>
    BY CompoundIs
  <2>2. Rules[s] = {alt}
    BY <2>1 DEF Rules, Compound, MethodRules, StatementRules, ExpressionRules, BoolRules
  <2>3. plan # <<>> /\ plan[1] = <<"rule", s, alt>>
    BY <1>1, <2>1, <2>2, NodeSeen
  <2>4. parts \in Seq(Goals) /\ Matches(parts, alt)
    BY <2>1, CompoundIs DEF Goals, Symbols, Terminals, Identifiers, Matches, Granted
  <2>5. Goal(s) /\ ChooseBy(alt, parts) /\ s # "MethodEnd" /\ alt \in Rules[s]
    BY <1>1, <2>1, <2>2
  <2>. QED
    BY <2>1, <2>3, <2>4, <2>5, ChooseByRight
<1>2. CASE Goal("ObjectOpt") /\ Choose(IF Is(")") THEN <<>> ELSE <<"ObjectList">>)
  <2>1. PICK s, kind, a, b : s \in Compound /\ s = "ObjectOpt" /\ kind = ")"
          /\ a = <<>>
          /\ b = <<"ObjectList">>
    BY CompoundIs
  <2>2. Rules[s] = {a, b}
    BY <2>1 DEF Rules, Compound, MethodRules, StatementRules, ExpressionRules, BoolRules
  <2>3. \A t \in Tokenized : Ahead(s, a, t) => Kind(t) = kind
    BY <2>1 DEF Ahead, Follow, Starts, Operand, Assigned, Tested, Sentence, Kind, Identifiers
  <2>4. \A t \in Tokenized : Ahead(s, b, t) => Kind(t) # kind
    BY <2>1 DEF Ahead, Follow, Starts, Operand, Assigned, Tested, Sentence, Kind, Identifiers
  <2>5. Goal(s) /\ Choose(Chosen(kind, a, b))
    BY <1>2, <2>1 DEF Chosen
  <2>6. s # "MethodEnd" /\ s # "Statement" /\ (s = "Else" => b = <<>>)
    BY <2>1
  <2>. QED
    BY <2>1, <2>2, <2>3, <2>4, <2>5, <2>6, OptionRight
<1>3. CASE Goal("ObjectList") /\ Choose(<<"Expression", "ObjectMore">>)
  <2>1. Rules["ObjectList"] = {<<"Expression", "ObjectMore">>}
    BY DEF Rules, Compound, MethodRules, StatementRules, ExpressionRules, BoolRules
  <2>. QED
    BY <1>3, <2>1, CompoundIs, SingleRight
<1>4. CASE Goal("ObjectMore") /\ Choose(IF Is("comma") THEN <<"comma", "ObjectList">> ELSE <<>>)
  <2>1. PICK s, kind, a, b : s \in Compound /\ s = "ObjectMore" /\ kind = "comma"
          /\ a = <<"comma", "ObjectList">>
          /\ b = <<>>
    BY CompoundIs
  <2>2. Rules[s] = {a, b}
    BY <2>1 DEF Rules, Compound, MethodRules, StatementRules, ExpressionRules, BoolRules
  <2>3. \A t \in Tokenized : Ahead(s, a, t) => Kind(t) = kind
    BY <2>1 DEF Ahead, Follow, Starts, Operand, Assigned, Tested, Sentence, Kind, Identifiers
  <2>4. \A t \in Tokenized : Ahead(s, b, t) => Kind(t) # kind
    BY <2>1 DEF Ahead, Follow, Starts, Operand, Assigned, Tested, Sentence, Kind, Identifiers
  <2>5. Goal(s) /\ Choose(Chosen(kind, a, b))
    BY <1>4, <2>1 DEF Chosen
  <2>6. s # "MethodEnd" /\ s # "Statement" /\ (s = "Else" => b = <<>>)
    BY <2>1
  <2>. QED
    BY <2>1, <2>2, <2>3, <2>4, <2>5, <2>6, OptionRight
<1>. QED
  BY <1>1, <1>2, <1>3, <1>4 DEF Call

(* Conditions go on at their operators.                                    *)
LEMMA BoolRight ==
  ASSUME Types, Follows, Bool
  PROVE  Right
<1>1. CASE Goal("Bool") /\ Choose(<<"BoolItem", "BoolMore">>)
  <2>1. Rules["Bool"] = {<<"BoolItem", "BoolMore">>}
    BY DEF Rules, Compound, MethodRules, StatementRules, ExpressionRules, BoolRules
  <2>. QED
    BY <1>1, <2>1, CompoundIs, SingleRight
<1>2. CASE Goal("BoolMore") /\ Choose(IF Is("||") THEN <<"||", "Bool">> ELSE <<>>)
  <2>1. PICK s, kind, a, b : s \in Compound /\ s = "BoolMore" /\ kind = "||"
          /\ a = <<"||", "Bool">>
          /\ b = <<>>
    BY CompoundIs
  <2>2. Rules[s] = {a, b}
    BY <2>1 DEF Rules, Compound, MethodRules, StatementRules, ExpressionRules, BoolRules
  <2>3. \A t \in Tokenized : Ahead(s, a, t) => Kind(t) = kind
    BY <2>1 DEF Ahead, Follow, Starts, Operand, Assigned, Tested, Sentence, Kind, Identifiers
  <2>4. \A t \in Tokenized : Ahead(s, b, t) => Kind(t) # kind
    BY <2>1 DEF Ahead, Follow, Starts, Operand, Assigned, Tested, Sentence, Kind, Identifiers
  <2>5. Goal(s) /\ Choose(Chosen(kind, a, b))
    BY <1>2, <2>1 DEF Chosen
  <2>6. s # "MethodEnd" /\ s # "Statement" /\ (s = "Else" => b = <<>>)
    BY <2>1
  <2>. QED
    BY <2>1, <2>2, <2>3, <2>4, <2>5, <2>6, OptionRight
<1>3. CASE Goal("BoolItem") /\ Choose(<<"BoolFactor", "BoolItemMore">>)
  <2>1. Rules["BoolItem"] = {<<"BoolFactor", "BoolItemMore">>}
    BY DEF Rules, Compound, MethodRules, StatementRules, ExpressionRules, BoolRules
  <2>. QED
    BY <1>3, <2>1, CompoundIs, SingleRight
<1>4. CASE Goal("BoolItemMore") /\ Choose(IF Is("&&") THEN <<"&&", "BoolItem">> ELSE <<>>)
  <2>1. PICK s, kind, a, b : s \in Compound /\ s = "BoolItemMore" /\ kind = "&&"
          /\ a = <<"&&", "BoolItem">>
          /\ b = <<>>
    BY CompoundIs
  <2>2. Rules[s] = {a, b}
    BY <2>1 DEF Rules, Compound, MethodRules, StatementRules, ExpressionRules, BoolRules
  <2>3. \A t \in Tokenized : Ahead(s, a, t) => Kind(t) = kind
    BY <2>1 DEF Ahead, Follow, Starts, Operand, Assigned, Tested, Sentence, Kind, Identifiers
  <2>4. \A t \in Tokenized : Ahead(s, b, t) => Kind(t) # kind
    BY <2>1 DEF Ahead, Follow, Starts, Operand, Assigned, Tested, Sentence, Kind, Identifiers
  <2>5. Goal(s) /\ Choose(Chosen(kind, a, b))
    BY <1>4, <2>1 DEF Chosen
  <2>6. s # "MethodEnd" /\ s # "Statement" /\ (s = "Else" => b = <<>>)
    BY <2>1
  <2>. QED
    BY <2>1, <2>2, <2>3, <2>4, <2>5, <2>6, OptionRight
<1>5. CASE /\ Goal("BoolFactor")
           /\ Choose(IF Is("!") THEN <<"!", "BoolFactor">>
                     ELSE <<"Arithmetic", "==", "Arithmetic">>)
  <2>1. PICK s, kind, a, b : s \in Compound /\ s = "BoolFactor" /\ kind = "!"
          /\ a = <<"!", "BoolFactor">>
          /\ b = <<"Arithmetic", "==", "Arithmetic">>
    BY CompoundIs
  <2>2. Rules[s] = {a, b}
    BY <2>1 DEF Rules, Compound, MethodRules, StatementRules, ExpressionRules, BoolRules
  <2>3. \A t \in Tokenized : Ahead(s, a, t) => Kind(t) = kind
    BY <2>1 DEF Ahead, Follow, Starts, Operand, Assigned, Tested, Sentence, Kind, Identifiers
  <2>4. \A t \in Tokenized : Ahead(s, b, t) => Kind(t) # kind
    BY <2>1 DEF Ahead, Follow, Starts, Operand, Assigned, Tested, Sentence, Kind, Identifiers
  <2>5. Goal(s) /\ Choose(Chosen(kind, a, b))
    BY <1>5, <2>1 DEF Chosen
  <2>6. s # "MethodEnd" /\ s # "Statement" /\ (s = "Else" => b = <<>>)
    BY <2>1
  <2>. QED
    BY <2>1, <2>2, <2>3, <2>4, <2>5, <2>6, OptionRight
<1>. QED
  BY <1>1, <1>2, <1>3, <1>4, <1>5 DEF Bool

(* The end of a method.                                                    *)
LEMMA PopMethodRight ==
  ASSUME Types, Follows, PopMethod
  PROVE  Right
<1>1. PICK s, alt : s \in Compound /\ s = "MethodEnd" /\ alt = <<>>
  BY CompoundIs
<1>2. Rules[s] = {alt}
  BY <1>1 DEF Rules, Compound, MethodRules
<1>3. Goal(s) /\ Say(<<"rule", s, alt>>) /\ Build(alt) /\ methodList' = methodList
      /\ varStack' = SubSeq(varStack, 1, Len(varStack) - 1)
  BY <1>1 DEF PopMethod
<1>4. plan # <<>> /\ plan[1] = <<"rule", s, alt>> /\ alt \in Rules[s]
  BY <1>1, <1>2, <1>3, NodeSeen
<1>5. alt \in Seq(Goals) /\ Matches(alt, alt)
  BY <1>1 DEF Matches
<1>. QED
  BY <1>1, <1>3, <1>4, <1>5, RuleTaken

(* The token behind the one in front tells names apart.                    *)
LEMMA NamesTold ==
  ASSUME NEW t \in Tokenized, NEW kind, t # "end" => Behind(t, kind)
  PROVE  /\ t = "method:use" => kind = "("
         /\ t = "var:set" => kind = "="
         /\ t = "var:use" => kind \notin {"(", "=", "["}
<1>1. CASE t = "method:use"
  <2>1. Follow(t) = {"("}
    BY <1>1 DEF Follow
  <2>2. \A u \in Starts("(") : Kind(u) = "("
    BY <1>1, <2>1 DEF Behind, Follow, Starts, Kind, Identifiers
  <2>3. kind = "("
    BY <2>1, <2>2, <1>1 DEF Behind
  <2>. QED
    BY <2>3, <1>1
<1>2. CASE t = "var:set"
  <2>1. Follow(t) = {"="}
    BY <1>2 DEF Follow
  <2>2. \A u \in Starts("=") : Kind(u) = "="
    BY DEF Starts, Kind, Identifiers
  <2>3. kind = "="
    BY <2>1, <2>2, <1>2 DEF Behind
  <2>. QED
    BY <2>3, <1>2
<1>3. CASE t = "var:use"
  <2>1. Follow(t) = {"ItemMore"}
    BY <1>3 DEF Follow
  <2>2. \A u \in Starts("ItemMore") : Kind(u) \notin {"(", "=", "["}
    BY DEF Starts, Kind, Identifiers
  <2>3. kind \notin {"(", "=", "["}
    BY <2>1, <2>2, <1>3 DEF Behind
  <2>. QED
    BY <2>3, <1>3
<1>. QED
  BY <1>1, <1>2, <1>3

(* A factor.                                                               *)
LEMMA FactorRight ==
  ASSUME Types, Follows, Factor
  PROVE  Right
<1>1. PICK s \in Compound : s = "Factor"
  BY CompoundIs
<1>2. Goal(s) /\ s # "MethodEnd"
  BY <1>1 DEF Factor
<1>3. PICK alt \in Rules[s], t \in Tokenized :
        /\ plan # <<>> /\ plan[1] = <<"rule", s, alt>>
        /\ Current[1] = Kind(t) /\ Ahead(s, alt, t)
        /\ t # "end" => Behind(t, Second[1])
  BY <1>2, NodeSeen
<1>4. alt \in {<<"var:use">>, <<"pointer", "var:adr">>, <<"integer">>, <<"chars">>,
               <<"lbrace", "ArrayData", "rbrace">>, <<"Call">>}
  BY <1>1 DEF Rules, Compound, MethodRules, StatementRules, ExpressionRules, BoolRules
<1>5. alt # <<>> /\ t \in Starts(alt[1])
  <2>1. alt # <<>>
    BY <1>4
  <2>. QED
    BY <2>1, <1>3 DEF Ahead
<1>6. /\ t = "method:use" => Second[1] = "("
      /\ t = "var:use" => Second[1] # "("
  BY <1>3, NamesTold
<1>7. CASE alt = <<"Call">>
  <2>1. t = "method:use"
    BY <1>5, <1>7 DEF Starts
  <2>2. Is("identifier") /\ NextIs("(")
    BY <2>1, <1>3, <1>6 DEF Is, NextIs, Kind, Identifiers
  <2>3. Choose(alt)
    BY <2>2, <1>7 DEF Factor, Is
  <2>. QED
    BY <2>3, <1>2, <1>3, ChooseRight
<1>8. CASE alt = <<"var:use">>
  <2>1. t = "var:use"
    BY <1>5, <1>8 DEF Starts
  <2>2. Is("identifier") /\ ~ NextIs("(")
    BY <2>1, <1>3, <1>6 DEF Is, NextIs, Kind, Identifiers
  <2>3. Choose(alt)
    BY <2>2, <1>8 DEF Factor, Is
  <2>. QED
    BY <2>3, <1>2, <1>3, ChooseRight
<1>9. CASE alt = <<"integer">>
  <2>1. t = "integer"
    BY <1>5, <1>9 DEF Starts
  <2>2. Is("integer")
    BY <2>1, <1>3 DEF Is, Kind, Identifiers
  <2>3. PICK parts : parts = <<"any">>
    OBVIOUS
  <2>4. ChooseBy(alt, parts)
    BY <2>2, <2>3, <1>9 DEF Factor, Is
  <2>5. parts \in Seq(Goals) /\ Matches(parts, alt)
    BY <2>3, <1>9 DEF Goals, Matches, Granted
  <2>. QED
    BY <2>4, <2>5, <1>2, <1>3, ChooseByRight
<1>10. CASE alt = <<"lbrace", "ArrayData", "rbrace">>
  <2>1. t = "lbrace"
    BY <1>5, <1>10 DEF Starts
  <2>2. Is("lbrace")
    BY <2>1, <1>3 DEF Is, Kind, Identifiers
  <2>3. Choose(alt)
    BY <2>2, <1>10 DEF Factor, Is
  <2>. QED
    BY <2>3, <1>2, <1>3, ChooseRight
<1>11. CASE alt = <<"chars">>
  <2>1. t = "chars"
    BY <1>5, <1>11 DEF Starts
  <2>2. Is("chars")
    BY <2>1, <1>3 DEF Is, Kind, Identifiers
  <2>3. Choose(alt)
    BY <2>2, <1>11 DEF Factor, Is
  <2>. QED
    BY <2>3, <1>2, <1>3, ChooseRight
<1>12. CASE alt = <<"pointer", "var:adr">>
  <2>1. t = "pointer"
    BY <1>5, <1>12 DEF Starts
  <2>2. Is("pointer")
    BY <2>1, <1>3 DEF Is, Kind, Identifiers
  <2>3. Choose(alt)
    BY <2>2, <1>12 DEF Factor, Is
  <2>. QED
    BY <2>3, <1>2, <1>3, ChooseRight
<1>. QED
  BY <1>4, <1>7, <1>8, <1>9, <1>10, <1>11, <1>12

(* The target of an assignment is known.                                   *)
LEMMA TargetKnown ==
  ASSUME Types, Follows, Goal("Expression"),
         NEW alt, alt = <<"var:set", "=", "Expression">>,
         plan # <<>>, plan[1] = <<"rule", "Expression", alt>>
  PROVE  HasVarDefine(Current[2])
<1>1. PICK d : Derivation(d, plan, text, author) /\ Guided(d, plan)
  BY DEF Follows
<1>2. plan \in Seq(AllSteps) /\ Len(plan) \in Nat /\ Len(plan) >= 1 /\ DOMAIN plan = 1 .. Len(plan)
  BY DEF Types
<1>3. text \in Texts /\ Formed(text) /\ text.form # <<>> /\ text.form[1] = "Expression" /\ Ready
  BY <1>1, <1>2, Present, Front
<1>4. PICK h : h = d[1]
  OBVIOUS
<1>5. /\ h \in Texts /\ h.form # <<>> /\ h.form[1] = "var:set" /\ h.vars = text.vars
  <2>1. PICK g, s : g = text /\ s = "Expression"
    OBVIOUS
  <2>2. h = After(g, <<"rule", s, alt>>)
    BY <2>1, <1>1, <1>2, <1>4, PlanTaken
  <2>3. alt \in Rules[s] /\ s \in Compound /\ s # "MethodEnd"
    BY <2>1 DEF Rules, Compound, MethodRules, StatementRules, ExpressionRules, BoolRules
  <2>4. /\ g \in Texts /\ Formed(g) /\ g.form # <<>> /\ g.form[1] \in Compound
        /\ alt \in Rules[g.form[1]] /\ h = After(g, <<"rule", g.form[1], alt>>)
    BY <2>1, <2>2, <2>3, <1>3
  <2>5. /\ h \in Texts
        /\ h.vars = IF g.form[1] = "MethodEnd" THEN {} ELSE g.vars
        /\ alt # <<>> => At(h.form, 1) = alt[1]
    BY ONLY <2>4, AfterRule
  <2>6. At(h.form, 1) = "var:set"
    BY <2>5
  <2>7. h.form # <<>> /\ h.form[1] = "var:set"
    BY <2>5, <2>6 DEF At, Texts
  <2>. QED
    BY <2>1, <2>5, <2>7, <1>3
<1>6. Len(plan) >= 2
  <2>. SUFFICES ASSUME Len(plan) = 1 PROVE FALSE
    BY <1>2
  <2>1. Tokens = {}
    BY <1>2 DEF Tokens
  <2>2. author.form = <<>>
    BY <2>1, <1>3 DEF Ready
  <2>3. author = h
    BY <1>1, <1>4 DEF Derivation
  <2>. QED
    BY <2>2, <2>3, <1>5
<1>7. plan[2] \in Steps(h)
  <2>1. 2 \in 1 .. Len(plan)
    BY <1>2, <1>6
  <2>2. plan[2] \in Steps(d[2 - 1])
    BY <2>1, <1>1 DEF Derivation
  <2>. QED
    BY <2>2, <1>4
<1>8. plan[2] = <<"token", "var:set", plan[2][3]>> /\ plan[2][3] \in h.vars
  <2>1. plan[2][2] = "var:set" /\ "var:set" \notin Compound /\ "var:set" \in Identifiers
    BY <1>5, <1>7, StepIs, CompoundIs DEF Identifiers
  <2>2. plan[2] = <<"token", "var:set", plan[2][3]>> /\ plan[2][3] \in Known(h, "var:set")
    BY <2>1, <1>5, <1>7, StepIs
  <2>. QED
    BY <2>2 DEF Known
<1>9. Current[2] = plan[2][3]
  <2>1. 2 \in Tokens /\ \A j \in Tokens : j \in Nat /\ 2 <= j
    BY <1>2, <1>6, <1>8 DEF Tokens
  <2>2. First(Tokens) = 2
    BY <2>1 DEF First
  <2>3. Current = Token(plan[2])
    BY <2>1, <2>2 DEF Current, TokenOf
  <2>. QED
    BY <2>3, <1>8 DEF Token, Identifiers
<1>10. PICK g, stack, n : g = text /\ stack = varStack /\ n = Current[2]
  OBVIOUS
<1>11. n \in g.vars /\ g \in Texts /\ g.form # <<>> /\ g.form[1] = "Expression" /\ Scoped(g, stack)
  BY <1>3, <1>5, <1>8, <1>9, <1>10 DEF Follows
<1>12. \E i \in DOMAIN stack : n \in stack[i]
  BY <1>11, ScopeSeen
<1>. QED
  BY <1>10, <1>12 DEF HasVarDefine

(* An assignment is told by the token behind its name.                     *)
LEMMA ExpressionRight ==
  ASSUME Types, Follows, Expression
  PROVE  Right
<1>1. PICK s \in Compound : s = "Expression"
  BY CompoundIs
<1>2. Goal(s) /\ s # "MethodEnd"
  BY <1>1 DEF Expression
<1>3. PICK alt \in Rules[s], t \in Tokenized :
        /\ plan # <<>> /\ plan[1] = <<"rule", s, alt>>
        /\ Current[1] = Kind(t) /\ Ahead(s, alt, t)
        /\ t # "end" => Behind(t, Second[1])
  BY <1>2, NodeSeen
<1>4. alt \in {<<"var:set", "=", "Expression">>, <<"Arithmetic">>}
  BY <1>1 DEF Rules, Compound, MethodRules, StatementRules, ExpressionRules, BoolRules
<1>5. alt # <<>> /\ t \in Starts(alt[1])
  <2>1. alt # <<>>
    BY <1>4
  <2>. QED
    BY <2>1, <1>3 DEF Ahead
<1>6. /\ t = "method:use" => Second[1] = "("
      /\ t = "var:set" => Second[1] = "="
      /\ t = "var:use" => Second[1] # "="
  BY <1>3, NamesTold
<1>7. CASE alt = <<"var:set", "=", "Expression">>
  <2>1. t = "var:set"
    BY <1>5, <1>7 DEF Starts
  <2>2. Is("identifier") /\ NextIs("=")
    BY <2>1, <1>3, <1>6 DEF Is, NextIs, Kind, Identifiers
  <2>3. HasVarDefine(Current[2])
    BY <1>1, <1>2, <1>3, <1>7, TargetKnown
  <2>4. Choose(alt)
    BY <2>2, <2>3, <1>7 DEF Expression
  <2>. QED
    BY <2>4, <1>2, <1>3, ChooseRight
<1>8. CASE alt = <<"Arithmetic">>
  <2>1. t \in Operand
    BY <1>5, <1>8 DEF Starts
  <2>2. ~ (Is("identifier") /\ NextIs("="))
    BY <2>1, <1>3, <1>6 DEF Is, NextIs, Kind, Identifiers, Operand
  <2>3. Choose(alt)
    BY <2>2, <1>8 DEF Expression
  <2>. QED
    BY <2>3, <1>2, <1>3, ChooseRight
<1>. QED
  BY <1>4, <1>7, <1>8

(* A statement.                                                            *)
LEMMA StatementRight ==
  ASSUME Types, Follows, Statement
  PROVE  Right
<1>1. PICK s \in Compound : s = "Statement"
  BY CompoundIs
<1>2. Goal(s) /\ s # "MethodEnd"
  BY <1>1 DEF Statement
<1>3. PICK alt \in Rules[s], t \in Tokenized :
        /\ plan # <<>> /\ plan[1] = <<"rule", s, alt>>
        /\ Current[1] = Kind(t) /\ Ahead(s, alt, t)
        /\ t # "end" => Behind(t, Second[1])
        /\ s = "Statement" /\ alt = <<"ExpOpt", "semicolon">> => t \in Simple
  BY <1>2, NodeSeen
<1>. DEFINE For == <<"for", "(", "ExpOpt", "semicolon", "BoolOpt", "semicolon", "AfterOpt", ")",
                     "Statement">>
<1>4. \/ alt = <<"if", "(", "Bool", ")", "Statement", "Else">>
      \/ alt = <<"while", "(", "Bool", ")", "Statement">>
      \/ alt = For
      \/ alt = <<"return", "ExpOpt", "semicolon">>
      \/ alt = <<"type", "var:def", "=", "Expression", "semicolon">>
      \/ alt = <<"Block">> \/ alt = <<"Call">> \/ alt = <<"ExpOpt", "semicolon">>
  BY <1>1, <1>3 DEF Rules, Compound, MethodRules, StatementRules, ExpressionRules, BoolRules
<1>5. alt # <<>> /\ t \in Starts(alt[1])
  <2>1. alt # <<>>
    <3>1. alt[1] \in {"if", "while", "for", "return", "type", "Block", "Call", "ExpOpt"}
          /\ DOMAIN alt # {}
      BY <1>4
    <3>. QED
      BY <3>1
  <2>. QED
    BY <2>1, <1>3 DEF Ahead
<1>6. /\ t = "method:use" => Second[1] = "("
      /\ t = "var:set" => Second[1] = "="
      /\ t = "var:use" => Second[1] # "("
  BY <1>3, NamesTold
<1>7. CASE alt = <<"if", "(", "Bool", ")", "Statement", "Else">>
  <2>1. t = "if"
    BY <1>5, <1>7 DEF Starts
  <2>2. Is("if")
    BY <2>1, <1>3 DEF Is, Kind, Identifiers
  <2>3. Choose(alt)
    BY <2>2, <1>7 DEF Statement, Is
  <2>. QED
    BY <2>3, <1>2, <1>3, ChooseRight
<1>8. CASE alt = <<"while", "(", "Bool", ")", "Statement">>
  <2>1. t = "while"
    BY <1>5, <1>8 DEF Starts
  <2>2. Is("while")
    BY <2>1, <1>3 DEF Is, Kind, Identifiers
  <2>3. Choose(alt)
    BY <2>2, <1>8 DEF Statement, Is
  <2>. QED
    BY <2>3, <1>2, <1>3, ChooseRight
<1>9. CASE alt = For
  <2>1. t = "for"
    BY <1>5, <1>9 DEF Starts
  <2>2. Is("for")
    BY <2>1, <1>3 DEF Is, Kind, Identifiers
  <2>3. Choose(alt)
    BY <2>2, <1>9 DEF Statement, Is
  <2>. QED
    BY <2>3, <1>2, <1>3, ChooseRight
<1>10. CASE alt = <<"return", "ExpOpt", "semicolon">>
  <2>1. t = "return"
    BY <1>5, <1>10 DEF Starts
  <2>2. Is("return")
    BY <2>1, <1>3 DEF Is, Kind, Identifiers
  <2>3. Choose(alt)
    BY <2>2, <1>10 DEF Statement, Is
  <2>. QED
    BY <2>3, <1>2, <1>3, ChooseRight
<1>11. CASE alt = <<"type", "var:def", "=", "Expression", "semicolon">>
  <2>1. t = "type"
    BY <1>5, <1>11 DEF Starts
  <2>2. Is("type")
    BY <2>1, <1>3 DEF Is, Kind, Identifiers
  <2>3. Choose(alt)
    BY <2>2, <1>11 DEF Statement, Is
  <2>. QED
    BY <2>3, <1>2, <1>3, ChooseRight
<1>12. CASE alt = <<"Block">>
  <2>1. t = "lbrace"
    BY <1>5, <1>12 DEF Starts
  <2>2. Is("lbrace")
    BY <2>1, <1>3 DEF Is, Kind, Identifiers
  <2>3. Choose(alt)
    BY <2>2, <1>12 DEF Statement, Is
  <2>. QED
    BY <2>3, <1>2, <1>3, ChooseRight
<1>13. CASE alt = <<"Call">>
  <2>1. t = "method:use"
    BY <1>5, <1>13 DEF Starts
  <2>2. Is("identifier") /\ NextIs("(")
    BY <2>1, <1>3, <1>6 DEF Is, NextIs, Kind, Identifiers
  <2>3. Choose(alt)
    BY <2>2, <1>13 DEF Statement, Is
  <2>. QED
    BY <2>3, <1>2, <1>3, ChooseRight
<1>14. CASE alt = <<"ExpOpt", "semicolon">>
  <2>1. t \in {"var:use", "var:set", "pointer", "integer", "chars", "semicolon"}
    <3>1. t \in Simple /\ t \notin Compound
      BY <1>1, <1>3, <1>14 DEF Tokenized
    <3>. QED
      BY <3>1, CompoundIs DEF Simple
  <2>2. /\ Current[1] \in {"identifier", "pointer", "integer", "chars", "semicolon"}
        /\ ~ (Is("identifier") /\ NextIs("("))
    BY <2>1, <1>3, <1>6 DEF Is, NextIs, Kind, Identifiers
  <2>3. PICK parts : parts = <<"ExpOpt", "any">>
    OBVIOUS
  <2>4. ChooseBy(alt, parts)
    BY <2>2, <2>3, <1>14 DEF Statement, Is
  <2>5. parts \in Seq(Goals) /\ Matches(parts, alt)
    BY <2>3, <1>14, CompoundIs DEF Goals, Symbols, Matches, Granted
  <2>. QED
    BY <2>4, <2>5, <1>2, <1>3, ChooseByRight
<1>. QED
  BY <1>4, <1>7, <1>8, <1>9, <1>10, <1>11, <1>12, <1>13, <1>14

-----------------------------------------------------------------------------
(* The specification.                                                      *)

(* Whatever the parser does is right.                                      *)
LEMMA TravelAstRight ==
  ASSUME Types, Follows, TravelAst
  PROVE  Right
BY ProgramNodeRight, MethodDefineRight, PushMethodRight, PopMethodRight, ParamsRight, BlockRight,
   StatementRight, ElseRight, OptionalRight, ExpressionRight, ArithmeticRight, FactorRight,
   ArrayDataRight, CallRight, BoolRight, TakeRight, DefineVarRight, UseNameRight DEF TravelAst

(* It does nothing once the text is derived or rejected.                   *)
LEMMA OverStops ==
  ASSUME Over, TravelAst
  PROVE  FALSE
BY DEF Over, TravelAst, Goal, ProgramNode, MethodDefine, PushMethod, PopMethod, Params, Block,
       Statement, Else, Optional, Expression, Arithmetic, Factor, ArrayData, Call, Bool, Take,
       DefineVar, UseName

(* The author writes when there are less than two tokens.                  *)
LEMMA WriteKeeps ==
  ASSUME ParserInv, Write
  PROVE  ParserInv' /\ Len(plan') > Len(plan)
<1>1. PICK e \in Steps(author) : plan' = Append(plan, e) /\ author' = After(author, Written(e))
  BY DEF Write
<1>2. /\ todo' = todo /\ varStack' = varStack /\ methodList' = methodList
      /\ text' = text /\ said' = said /\ ~ Ready
  BY DEF Write
<1>3. /\ plan \in Seq(AllSteps) /\ author \in Texts /\ Formed(author) /\ TypeOK
      /\ todo \in Seq(Goals)
  BY DEF ParserInv, Types
<1>4. e \in AllSteps
  BY <1>3 DEF AllSteps
<1>5. /\ plan' \in Seq(AllSteps) /\ Len(plan') = Len(plan) + 1 /\ Len(plan) \in Nat
      /\ \A i \in 1 .. Len(plan) : plan'[i] = plan[i]
  BY <1>1, <1>3, <1>4
<1>6. author' \in Texts /\ Formed(author')
  BY <1>1, <1>3, AfterText
<1>7. AtMostTwo(Tokens')
  <2>1. \A i, j \in Tokens : i = j
    BY <1>2 DEF Ready
  <2>2. \A i \in Tokens' : i \in Tokens \/ i = Len(plan) + 1
    BY <1>3, <1>5 DEF Tokens
  <2>. SUFFICES ASSUME NEW i \in Tokens', NEW j \in Tokens', NEW k \in Tokens'
                PROVE  i = j \/ j = k \/ k = i
    BY DEF AtMostTwo
  <2>. QED
    BY <2>1, <2>2
<1>8. Types'
  BY <1>2, <1>3, <1>5, <1>6, <1>7 DEF Types, TypeOK, AtMostTwo
<1>9. CASE Over
  BY <1>2, <1>5, <1>8, <1>9 DEF Over, ParserInv
<1>10. CASE Follows
  <2>1. PICK d : Derivation(d, plan, text, author) /\ Guided(d, plan)
    BY <1>10 DEF Follows
  <2>2. PICK q, next : q = plan' /\ next = author'
    OBVIOUS
  <2>3. \E f : Derivation(f, q, text, next) /\ Guided(f, q)
    BY <2>1, <2>2, <1>1, <1>3, PlanGrows
  <2>4. Follows'
    BY <2>2, <2>3, <1>2, <1>10 DEF Follows
  <2>. QED
    BY <2>4, <1>5, <1>8 DEF ParserInv
<1>. QED
  BY <1>9, <1>10 DEF ParserInv

(* What the parser's derivation is, as Grammar has it.                     *)
LEMMA LangIs ==
  /\ Lang!Start = Start
  /\ \A g, e : Lang!After(g, e) = After(g, e)
  /\ \A g : Lang!Steps(g) = Steps(g)
<1>1. Lang!Rules = Rules /\ Lang!Compound = Compound
  <2>1. /\ Lang!MethodRules = MethodRules /\ Lang!StatementRules = StatementRules
        /\ Lang!ExpressionRules = ExpressionRules /\ Lang!BoolRules = BoolRules
    BY DEF Lang!MethodRules, MethodRules, Lang!StatementRules, StatementRules,
           Lang!ExpressionRules, ExpressionRules, Lang!BoolRules, BoolRules
  <2>2. Lang!Compound = Compound
    BY <2>1 DEF Lang!Compound, Compound
  <2>. QED
    BY <2>1, <2>2 DEF Lang!Rules, Rules
<1>2. /\ \A s, alt : Lang!Settles(s, alt) = Settles(s, alt)
      /\ \A alt, symbols : Lang!Holds(alt, symbols) <=> Holds(alt, symbols)
      /\ \A s : Lang!Names(s) = Names(s)
      /\ Lang!Identifiers = Identifiers
  BY DEF Lang!Settles, Settles, Lang!Holds, Holds, Lang!Names, Names, Lang!Identifiers, Identifiers
<1>3. \A f : Lang!Parts(f) = Parts(f)
  BY <1>1 DEF Lang!Parts, Parts
<1>4. \A g, s, alt : Lang!Allowed(g, s, alt) <=> Allowed(g, s, alt)
  BY <1>2, <1>3 DEF Lang!Allowed, Allowed
<1>5. \A g, s : Lang!Known(g, s) = Known(g, s)
  BY <1>2 DEF Lang!Known, Known
<1>6. \A g : Lang!Steps(g) = Steps(g)
  BY <1>1, <1>2, <1>4, <1>5 DEF Lang!Steps, Steps
<1>7. \A g, e : Lang!After(g, e) = After(g, e)
  BY <1>2 DEF Lang!After, After
<1>8. Lang!Start = Start
  BY DEF Lang!Start, Start
<1>. QED
  BY <1>6, <1>7, <1>8

(* The parser has the whole text before it.                                *)
LEMMA InitKeeps ==
  ASSUME Init
  PROVE  ParserInv
<1>1. /\ text = Start /\ said = <<"rule", "Program", <<>>>> /\ author = Start /\ plan = <<>>
      /\ todo = <<"Program">> /\ varStack = <<>> /\ methodList = {}
  BY LangIs DEF Init, Lang!Init
<1>2. Start \in Texts /\ Start.form = <<"Program">> /\ Start.vars = {} /\ Start.methods = {}
  BY CompoundIs DEF Start, Texts, Symbols
<1>3. Formed(Start)
  <2>1. DOMAIN Start.form = {1} /\ Start.form[1] = "Program" /\ At(Start.form, 1 + 1) = "end"
    BY <1>2 DEF At
  <2>. QED
    BY <2>1 DEF Formed, Follow
<1>4. Tokens = {}
  BY <1>1 DEF Tokens
<1>5. Types
  <2>1. TypeOK
    BY <1>1, <1>4 DEF TypeOK
  <2>2. plan \in Seq(AllSteps) /\ todo \in Seq(Goals)
    BY <1>1, CompoundIs DEF Goals, Symbols
  <2>. QED
    BY <2>1, <2>2, <1>1, <1>2, <1>3 DEF Types
<1>6. \E d : Derivation(d, plan, text, author) /\ Guided(d, plan)
  <2>. DEFINE d == [i \in 0 .. 0 |-> Start]
  <2>1. Len(plan) = 0 /\ d \in [0 .. 0 -> Texts] /\ d[0] = Start
    BY <1>1, <1>2
  <2>. HIDE DEF d
  <2>2. Derivation(d, plan, text, author)
    <3>1. \A i \in 0 .. 0 : Formed(d[i])
      BY <2>1, <1>3
    <3>2. \A i \in 1 .. 0 : plan[i] \in Steps(d[i - 1]) /\ d[i] = After(d[i - 1], Written(plan[i]))
      OBVIOUS
    <3>. QED
      BY <2>1, <3>1, <3>2, <1>1 DEF Derivation
  <2>3. Guided(d, plan)
    BY <2>1 DEF Guided
  <2>. QED
    BY <2>2, <2>3
<1>7. Scoped(text, varStack)
  BY <1>1, <1>2 DEF Scoped, Between
<1>8. Matches(todo, text.form)
  BY <1>1, <1>2 DEF Matches
<1>. QED
  BY <1>1, <1>2, <1>5, <1>6, <1>7, <1>8 DEF ParserInv, Follows

(* The invariant is inductive, and every step is one the properties allow. *)
LEMMA NextKeeps ==
  ASSUME ParserInv, [Next]_vars
  PROVE  /\ ParserInv'
         /\ Len(plan') < Len(plan) => said' = Head(plan)
         /\ \/ UNCHANGED <<text, said>>
            \/ said' \in Steps(text) /\ text' = After(text, said')
<1>1. CASE Write
  <2>1. ParserInv' /\ Len(plan') > Len(plan)
    BY <1>1, WriteKeeps
  <2>2. plan \in Seq(AllSteps) /\ plan' \in Seq(AllSteps)
    BY <2>1 DEF ParserInv, Types
  <2>3. ~ (Len(plan') < Len(plan))
    BY <2>1, <2>2
  <2>. QED
    BY <2>1, <2>3, <1>1 DEF Write
<1>2. CASE TravelAst
  <2>1. Types /\ Follows
    BY <1>2, OverStops DEF ParserInv
  <2>. QED
    BY <2>1, <1>2, TravelAstRight DEF Right
<1>3. CASE UNCHANGED vars
  <2>1. ParserInv'
    BY <1>3 DEF vars, ParserInv, Types, TypeOK, Tokens, Over, Follows
  <2>2. plan \in Seq(AllSteps) /\ plan' = plan
    BY <1>3 DEF vars, ParserInv, Types
  <2>. QED
    BY <2>1, <2>2, <1>3 DEF vars
<1>. QED
  BY <1>1, <1>2, <1>3 DEF Next

(* The invariant holds in every state the parser reaches.                  *)
THEOREM Invariance == Spec => []ParserInv
<1>1. Init => ParserInv
  BY InitKeeps
<1>2. ParserInv /\ [Next]_vars => ParserInv'
  BY NextKeeps
<1>. QED
  BY <1>1, <1>2, PTL DEF Spec

(* The parser's variables have their types: methods do not nest.           *)
THEOREM TypeCorrect == Spec => []TypeOK
<1>1. ParserInv => TypeOK
  BY DEF ParserInv, Types
<1>. QED
  BY <1>1, Invariance, PTL

(* The parser builds the tree the text was derived from.                   *)
THEOREM AuthorFollowed == Spec => FollowsAuthor
<1>1. ParserInv /\ [Next]_vars => [Len(plan') < Len(plan) => said' = Head(plan)]_vars
  BY NextKeeps
<1>. QED
  BY <1>1, Invariance, PTL DEF Spec, FollowsAuthor

(* Whatever the parser does is a derivation of the language.               *)
THEOREM Derives == Spec => Lang!Init /\ [][Lang!Next]_(Lang!vars)
<1>1. Init => Lang!Init
  BY DEF Init
<1>2. ParserInv /\ [Next]_vars => [Lang!Next]_(Lang!vars)
  BY NextKeeps, LangIs DEF Lang!Next, Lang!vars
<1>. QED
  BY <1>1, <1>2, Invariance, PTL DEF Spec

=============================================================================

------------------------------ MODULE MirTypes ------------------------------
(***************************************************************************)
(* The types MIR generation gives to the codes (compiler/mir.cpp).  A      *)
(* table gives each variable of the open method the type of the first      *)
(* value assigned to it, whatever type it is defined with; another gives   *)
(* each method its type; and the name of the last method called is kept    *)
(* until its result's type is wanted.                                      *)
(*                                                                         *)
(* The generator is called recursively over the syntax tree.  open holds   *)
(* the calls that are under way, innermost last, and value the operand     *)
(* the call that has just ended hands to the one around it.  The tree is   *)
(* any the parser accepts.  Conditions and return statements add nothing   *)
(* here to the expressions in them: any number of expressions may follow   *)
(* each other.                                                             *)
(***************************************************************************)
EXTENDS Integers, Sequences, FiniteSets

CONSTANTS
  VarNames, MethodNames,
  Types,       \* the primitive types a program uses, but for void
  None,        \* no name
  MaxTemps,    \* bound on the temporaries of a method
  MaxOpen      \* bound on the nesting

\* The values of MirOperandPrimitiveType, in order.
Rank == [VOID |-> 2, INT8 |-> 3, INT16 |-> 4, INT32 |-> 5, INT64 |-> 6,
         FLOAT32 |-> 7, FLOAT64 |-> 8, P |-> 9]

ASSUME TypesAssumption ==
  /\ Types \subseteq DOMAIN Rank \ {"VOID", "P"}
  /\ None \notin MethodNames
  /\ VarNames \cap Nat = {}

VARIABLES
  phase,       \* "outer" between methods, "body", or how the compiler ended
  varInfo,     \* currentStackVarNodeHead: what getVarInfo finds for a name
  methodInfo,  \* methodNodeHead: what getMethodInfo finds
  lastCalled,  \* lastCalledMethodIdentity
  tempValueIndex,
  open, value,
  code,        \* the code whose type the last step fixed, if it did, and the operand it took it from
  known,       \* the variables the parser knows in this method
  declared,    \* the methods it knows
  params,      \* the types the parameters of this method are declared with (history)
  foreign,     \* the parameters of prototypes since the last method (history)
  typed        \* the methods some declaration gives a type but void (history)

tables == <<varInfo, methodInfo, lastCalled>>
source == <<known, declared, params, foreign, typed>>
vars == <<phase, tables, tempValueIndex, open, value, code, source>>

-----------------------------------------------------------------------------
(* Operands, codes and calls under way.                                    *)

Direct(t)   == [type |-> t, isPointer |-> FALSE]
Pointer(t)  == [type |-> t, isPointer |-> TRUE]
OfType(t)   == [kind |-> "type", type |-> t]
Identity(n) == [kind |-> "identity", name |-> n]
\* The result of m, a call of which held other calls among its arguments or not.
Return(m, nested) == [kind |-> "return", name |-> m, nested |-> nested]
NoValue == [kind |-> "none"]

NoCode == [mir |-> "none"]

\* A call under way, for the variable, the temporary (a number) or the method d.  An
\* item or a sum has seen its first operand, a method call another call among its
\* arguments.
Frame(node, d) == [node |-> node, dist |-> d, seen |-> FALSE]
Seen(f)        == [node |-> f.node, dist |-> f.dist, seen |-> TRUE]

Top == open[Len(open)]
Pop == SubSeq(open, 1, Len(open) - 1)
TopIs(node) == open # <<>> /\ Top.node = node

-----------------------------------------------------------------------------
(* The tables.  An entry behind another of the same name is never found,   *)
(* so that a table is a function to the first entry of each name.          *)

\* Faulty: the last entry is found.
AddLast(table, n, t) ==
  IF Rank[t.type] < 3 THEN table
  ELSE [m \in DOMAIN table \cup {n} |-> IF m = n THEN t ELSE table[m]]

\* Faulty: char is taken for no type.
AddFromShort(table, n, t) ==
  IF Rank[t.type] < 4 \/ n \in DOMAIN table THEN table
  ELSE [m \in DOMAIN table \cup {n} |-> IF m = n THEN t ELSE table[m]]

\* addVarInfo, addMethodInfo: void is logged and left out.
Add(table, n, t) ==
  IF Rank[t.type] < 3 \/ n \in DOMAIN table THEN table
  ELSE [m \in DOMAIN table \cup {n} |-> IF m = n THEN t ELSE table[m]]

\* The parameters that get an entry, none as a pointer.
AddParams(table, ps) ==
  LET new == {p \in DOMAIN ps : Rank[ps[p]] >= 3}
  IN [n \in DOMAIN table \cup new |->
        IF n \in DOMAIN table THEN table[n] ELSE Direct(ps[n])]

\* The lookup of an operand's type; where nothing is found a null pointer is read.
Found(o) == /\ o.kind = "identity" => o.name \in DOMAIN varInfo
            /\ o.kind = "return" => lastCalled \in DOMAIN methodInfo

TypeOf(o) == IF o.kind = "identity" THEN varInfo[o.name]
             ELSE IF o.kind = "return" THEN methodInfo[lastCalled]
             ELSE o.type

\* Faulty: the name is not cleared.
LastCalledKept(o) == lastCalled

LastCalledAfter(o) == IF o.kind = "return" THEN None ELSE lastCalled

Larger(t, u) == IF Rank[t.type] > Rank[u.type] THEN t ELSE u

-----------------------------------------------------------------------------
(* Methods.                                                                *)

ParamLists == UNION {[S -> Types \cup {"VOID"}] : S \in SUBSET VarNames}

DeclareMethod(m, t) ==
  /\ methodInfo' = Add(methodInfo, m, Direct(t))
  /\ declared' = declared \cup {m}
  /\ typed' = IF t = "VOID" THEN typed ELSE typed \cup {m}

\* generateMethod for an extern or a prototype: the parameters are not reset.
Prototype(m, t, ps) ==
  /\ phase = "outer"
  /\ varInfo' = AddParams(varInfo, ps)
  /\ DeclareMethod(m, t)
  /\ foreign' = foreign \cup DOMAIN ps
  /\ UNCHANGED <<phase, lastCalled, tempValueIndex, open, value, code, known, params>>

BeginMethod(m, t, ps) ==
  /\ phase = "outer"
  /\ phase' = "body"
  /\ varInfo' = AddParams(varInfo, ps)
  /\ DeclareMethod(m, t)
  /\ known' = DOMAIN ps
  /\ params' = ps
  /\ UNCHANGED <<lastCalled, tempValueIndex, open, value, code, foreign>>

\* Faulty: the variables stay.
EndMethodKeep ==
  /\ phase = "body" /\ open = <<>> /\ value = NoValue
  /\ phase' = "outer"
  /\ tempValueIndex' = 0
  /\ code' = NoCode
  /\ known' = {} /\ params' = <<>> /\ foreign' = {}
  /\ UNCHANGED <<tables, open, value, declared, typed>>

\* finishMirCodeSession, resetTempValIndex.
EndMethod ==
  /\ phase = "body" /\ open = <<>> /\ value = NoValue
  /\ phase' = "outer"
  /\ varInfo' = <<>>
  /\ tempValueIndex' = 0
  /\ code' = NoCode
  /\ known' = {} /\ params' = <<>> /\ foreign' = {}
  /\ UNCHANGED <<methodInfo, lastCalled, open, value, declared, typed>>

-----------------------------------------------------------------------------
(* Going down the tree.                                                    *)

Descend(nodes) ==
  /\ phase = "body" /\ value = NoValue
  /\ Len(open) + Len(nodes) <= MaxOpen
  /\ open' = open \o nodes
  /\ code' = NoCode
  /\ UNCHANGED <<phase, value>>

\* allocTempValue, n times.
AllocTempValue(n) ==
  /\ tempValueIndex + n <= MaxTemps
  /\ tempValueIndex' = tempValueIndex + n

AtExpression == open = <<>> \/ TopIs("call") \/ TopIs("assignment")

\* generateStatementDefine; the parser knows the variable from here on.
BeginDefine(n) ==
  /\ open = <<>>
  /\ Descend(<<Frame("assignment", n)>>)
  /\ known' = known \cup {n}
  /\ UNCHANGED <<tables, tempValueIndex, declared, params, foreign, typed>>

\* generateExpressionAssignment.
BeginAssignment(n) ==
  /\ AtExpression /\ n \in known
  /\ Descend(<<Frame("assignment", n)>>)
  /\ UNCHANGED <<tables, tempValueIndex, source>>

\* generateExpressionArithmetic and the generateArithmeticItem it starts with.
BeginArithmetic ==
  /\ AtExpression
  /\ Descend(<<Frame("arithmetic", tempValueIndex), Frame("item", tempValueIndex + 1)>>)
  /\ AllocTempValue(2)
  /\ UNCHANGED <<tables, source>>

\* The next item of an expression.
NextItem ==
  /\ TopIs("arithmetic") /\ Top.seen
  /\ Descend(<<Frame("item", tempValueIndex)>>)
  /\ AllocTempValue(1)
  /\ UNCHANGED <<tables, source>>

\* generateStatementMethodCall, as a statement or as a factor.
BeginCall(m) ==
  /\ m \in declared
  /\ open = <<>> \/ TopIs("item")
  /\ Descend(<<Frame("call", m)>>)
  /\ lastCalled' = m
  /\ UNCHANGED <<varInfo, methodInfo, tempValueIndex, source>>

-----------------------------------------------------------------------------
(* Going up: a call that ends hands its operand to the one around it.      *)

HandUp(o) ==
  /\ value' = o
  /\ code' = NoCode
  /\ UNCHANGED <<phase, methodInfo, lastCalled, source>>

\* generateArithmeticFactor, for what it finds in the tree itself.
Factor(o) ==
  /\ phase = "body" /\ TopIs("item") /\ value = NoValue
  /\ HandUp(o)
  /\ UNCHANGED <<varInfo, tempValueIndex, open>>

\* generateAddressFromIdentity; the name is not looked up.
Address ==
  /\ phase = "body" /\ TopIs("item") /\ value = NoValue
  /\ varInfo' = Add(varInfo, tempValueIndex, Pointer("P"))
  /\ AllocTempValue(1)
  /\ HandUp(OfType(Pointer("P")))
  /\ UNCHANGED open

\* generateDereferenceFromIdentity, which gives its temporary no entry.
Dereference(n) ==
  /\ phase = "body" /\ TopIs("item") /\ value = NoValue
  /\ IF n \in DOMAIN varInfo /\ varInfo[n].isPointer
     THEN AllocTempValue(1) /\ HandUp(OfType(varInfo[n]))
     ELSE phase' = "exit" /\ UNCHANGED <<value, methodInfo, lastCalled, code, source, tempValueIndex>>
  /\ UNCHANGED <<varInfo, open>>

\* The end of generateArithmeticItem and generateExpressionArithmetic.
EndItems ==
  /\ phase = "body" /\ value = NoValue
  /\ TopIs("item") \/ TopIs("arithmetic")
  /\ Top.seen
  /\ open' = Pop
  /\ HandUp(Identity(Top.dist))
  /\ UNCHANGED <<varInfo, tempValueIndex>>

\* The end of generateStatementMethodCall; the calls around it hold a call.
EndCall ==
  /\ phase = "body" /\ TopIs("call") /\ value = NoValue
  /\ open' = [i \in 1 .. Len(open) - 1 |->
                IF open[i].node = "call" THEN Seen(open[i]) ELSE open[i]]
  /\ HandUp(IF Len(open) = 1 THEN NoValue ELSE Return(Top.dist, Top.seen))
  /\ UNCHANGED <<varInfo, tempValueIndex>>

Crash == phase' = "crash" /\ UNCHANGED <<tables, open, value, code>>

\* fixMir2Type and addVarInfo: the first factor, the first item, or what is assigned.
Mir2 ==
  /\ phase = "body" /\ value # NoValue
  /\ \/ TopIs("assignment")
     \/ (TopIs("item") \/ TopIs("arithmetic")) /\ ~ Top.seen
  /\ IF ~ Found(value) THEN Crash
     ELSE /\ varInfo' = Add(varInfo, Top.dist, TypeOf(value))
          /\ lastCalled' = LastCalledAfter(value)
          /\ code' = [mir |-> "mir2", from |-> value, fromType |-> TypeOf(value), distType |-> TypeOf(value)]
          /\ IF Top.node = "assignment"
             THEN open' = Pop /\ value' = Identity(Top.dist)
             ELSE open' = Append(Pop, Seen(Top)) /\ value' = NoValue
          /\ UNCHANGED <<phase, methodInfo>>
  /\ UNCHANGED <<tempValueIndex, source>>

\* fixMir3Type: the other factors and items.  The temporary keeps its entry.
Mir3 ==
  /\ phase = "body" /\ value # NoValue
  /\ TopIs("item") \/ TopIs("arithmetic")
  /\ Top.seen
  /\ IF ~ Found(value) \/ Top.dist \notin DOMAIN varInfo THEN Crash
     ELSE /\ lastCalled' = LastCalledAfter(value)
          /\ code' = [mir |-> "mir3", from |-> value, fromType |-> TypeOf(value),
                      distType |-> Larger(varInfo[Top.dist], TypeOf(value))]
          /\ value' = NoValue
          /\ UNCHANGED <<phase, varInfo, methodInfo, open>>
  /\ UNCHANGED <<tempValueIndex, source>>

\* An argument, or the expression of a statement.
TakeValue ==
  /\ phase = "body" /\ value # NoValue
  /\ open = <<>> \/ TopIs("call")
  /\ value' = NoValue
  /\ code' = NoCode
  /\ UNCHANGED <<phase, tables, tempValueIndex, open, source>>

-----------------------------------------------------------------------------
Init ==
  /\ phase = "outer"
  /\ varInfo = <<>> /\ methodInfo = <<>> /\ lastCalled = None
  /\ tempValueIndex = 0
  /\ open = <<>> /\ value = NoValue /\ code = NoCode
  /\ known = {} /\ declared = {} /\ params = <<>> /\ foreign = {} /\ typed = {}

Next ==
  \/ \E m \in MethodNames, t \in Types \cup {"VOID"}, ps \in ParamLists :
       Prototype(m, t, ps) \/ BeginMethod(m, t, ps)
  \/ EndMethod
  \/ \E n \in VarNames : BeginDefine(n) \/ BeginAssignment(n) \/ Dereference(n)
  \/ BeginArithmetic \/ NextItem
  \/ \E m \in MethodNames : BeginCall(m)
  \/ \E t \in Types : Factor(OfType(Direct(t))) \/ Factor(OfType(Pointer(t)))
  \/ \E n \in known : Factor(Identity(n))
  \/ Address \/ EndItems \/ EndCall
  \/ Mir2 \/ Mir3 \/ TakeValue

Spec == Init /\ [][Next]_vars

-----------------------------------------------------------------------------
(* Properties.                                                             *)

TypeSet == [type : Types \cup {"P"}, isPointer : BOOLEAN]

\* The type invariant.  No table holds void, and an item or a sum that has seen its first
\* operand has an entry.
TypeOK ==
  /\ phase \in {"outer", "body", "exit", "crash"}
  /\ DOMAIN varInfo \subseteq VarNames \cup 0 .. tempValueIndex - 1
  /\ \A n \in DOMAIN varInfo : varInfo[n] \in TypeSet
  /\ DOMAIN methodInfo \subseteq declared
  /\ \A m \in DOMAIN methodInfo : methodInfo[m] \in TypeSet
  /\ lastCalled \in declared \cup {None}
  /\ \A i \in DOMAIN open :
       open[i].node \in {"item", "arithmetic"} /\ open[i].seen => open[i].dist \in DOMAIN varInfo

\* A result never gets the type of another method than the one that was called
\* (lastCalledMethodIdentity), however calls are nested.
ResultOfItsOwnCall ==
  code.mir # "none" /\ code.from.kind = "return" =>
    code.from.name \in DOMAIN methodInfo /\ code.fromType = methodInfo[code.from.name]

\* A variable in its own first value, and a parameter of type void.
Excused(n) ==
  \/ \E i \in DOMAIN open : open[i].node = "assignment" /\ open[i].dist = n
  \/ n \in DOMAIN params /\ params[n] = "VOID"

\* The generator reads a null pointer (fixMir2Type, fixMir3Type) only for the result of
\* a method of no type, the result of a call with a call among its arguments, a
\* variable in its own first value, and a parameter of type void.
CrashesOnlyOn ==
  phase = "crash" =>
    \/ value.kind = "return" /\ (value.nested \/ value.name \notin typed)
    \/ /\ value.kind = "identity"
       /\ Excused(value.name)

\* A parameter has the type it is declared with throughout the method (getVarInfo),
\* whatever methods came before and whatever is assigned to it, unless a prototype
\* since the last method has a parameter of its name; and of these prototypes'
\* parameters nothing else is left.
ParamsKeepTypes ==
  /\ phase = "outer" => DOMAIN varInfo \subseteq foreign
  /\ phase = "body" => \A p \in DOMAIN params :
       p \notin foreign /\ params[p] # "VOID" =>
         p \in DOMAIN varInfo /\ varInfo[p] = Direct(params[p])

\* What later codes of a method find for a variable is what earlier codes of it found
\* (getVarInfo): its first assignment gives it its type.
TypesStay ==
  [][phase = "body" /\ phase' # "outer" =>
       \A n \in DOMAIN varInfo : n \in DOMAIN varInfo' /\ varInfo'[n] = varInfo[n]]_vars

=============================================================================

------------------------------- MODULE Control -------------------------------
(***************************************************************************)
(* The code that Mir generates for conditions, if, while and for, and what *)
(* the processor does with it.  A comparison becomes a conditional branch  *)
(* to its true label followed by a branch to its false label               *)
(* (generateCodes, MIR_CMP).  The code of all methods is generated first,  *)
(* one call of the generator per step; then one of them runs.  The         *)
(* properties are about the running code.                                  *)
(*                                                                         *)
(* Arithmetic is left out: a code that computes or calls is an action with *)
(* a name.                                                                 *)
(***************************************************************************)
EXTENDS Mir, FiniteSets

CONSTANTS
  Programs,     \* sequences of methods; a method is a sequence of statements
  Statements,   \* the statements in them, and in these
  Acts,         \* the names of actions
  Comparisons   \* the names of comparisons

Factors    == [name : Comparisons, inverted : Nat]
Conditions == Seq(Seq(Factors) \ {<<>>}) \ {<<>>}

\* The statements of the tree (ast.h).  Only the condition of a for may be missing.
Forms ==
  [kind : {"do"}, act : Acts]
  \cup [kind : {"if"}, cond : Conditions, yes : Seq(Statements), no : Seq(Statements)]
  \cup [kind : {"while"}, cond : Conditions, body : Seq(Statements)]
  \cup [kind : {"for"}, init : Acts, cond : Conditions \cup {<<>>}, after : Acts,
        body : Seq(Statements)]

ASSUME ProgramsAssumption ==
  /\ Programs \subseteq Seq(Seq(Statements))
  /\ Statements \subseteq Forms

VARIABLES
  code,   \* the codes of all methods, in the order they are emitted
  label,  \* the labels allocated: tempLabelIndex
  called, \* the method that will run
  pc,     \* the code that runs next; 0 before the method is called
  todo,   \* the statements the source has still to do (history)
  shown,  \* the last thing seen of the running method
  turn    \* tells it from the next

vars == <<code, label, called, pc, todo, shown, turn>>

Methods == UNION {{p[m] : m \in DOMAIN p} : p \in Programs}

Abs == INSTANCE Structured

-----------------------------------------------------------------------------
(* The generator.                                                          *)

\* An arbitrary method will be called.
Init ==
  \E p \in Programs : \E m \in DOMAIN p :
    /\ code = GenerateMir(p)
    /\ label = 0
    /\ called = m
    /\ pc = 0
    /\ todo = p[m]
    /\ shown = Abs!Begun
    /\ turn = 0

Complete == Open(code) = {}

\* The next call is made.
Generate ==
  /\ ~ Complete
  /\ LET emitted == Generated(code[First(code)], label)
     IN /\ code' = Splice(code, First(code), emitted.codes)
        /\ label' = emitted.label
  /\ UNCHANGED <<called, pc, todo, shown, turn>>

-----------------------------------------------------------------------------
(* The running code.                                                       *)

\* A branch goes to the first code with its label.
Target(l) == CHOOSE i \in DOMAIN code :
  /\ code[i] = Label(l)
  /\ \A j \in 1..(i - 1) : code[j] # Label(l)

See(e) == /\ shown' = e
          /\ turn' = 1 - turn
          /\ todo' = Abs!After(todo, e)

Unseen == UNCHANGED <<shown, turn, todo>>

\* The method is called.
Enter ==
  /\ Complete /\ pc = 0
  /\ pc' = CHOOSE i \in DOMAIN code : code[i] = Method(called)
  /\ Unseen /\ UNCHANGED <<code, label, called>>

Running(op) == pc # 0 /\ shown # Abs!Ended /\ code[pc].op = op

\* B.cc to the true label, then B to the false label.
Compare ==
  /\ Running("cmp")
  /\ \E v \in BOOLEAN :
       /\ See(Abs!Tested(code[pc].name, v))
       /\ pc' = Target(IF v THEN code[pc].true ELSE code[pc].false)
  /\ UNCHANGED <<code, label, called>>

Jump ==
  /\ Running("jmp")
  /\ pc' = Target(code[pc].label)
  /\ Unseen /\ UNCHANGED <<code, label, called>>

Compute ==
  /\ Running("act")
  /\ See(Abs!Acted(code[pc].name))
  /\ pc' = pc + 1
  /\ UNCHANGED <<code, label, called>>

\* Labels and flags emit no instruction.
Pass ==
  /\ Running("label") \/ Running("flag") \/ Running("method")
  /\ pc' = pc + 1
  /\ Unseen /\ UNCHANGED <<code, label, called>>

Return ==
  /\ Running("ret")
  /\ See(Abs!Ended)
  /\ UNCHANGED <<code, label, called, pc>>

Next == Generate \/ Enter \/ Compare \/ Jump \/ Compute \/ Pass \/ Return

\* The generator works, and the processor executes the next instruction.
Spec == Init /\ [][Next]_vars /\ WF_vars(Next)

-----------------------------------------------------------------------------
(* Properties.                                                             *)

Placed(l) == {i \in DOMAIN code : code[i] = Label(l)}

\* The labels a code branches to.
Aims(c) == CASE c.op = "cmp" -> {c.true, c.false}
             [] c.op = "jmp" -> {c.label}
             [] OTHER -> {}

\* The program counter stays in the code: control never runs off its end.
TypeOK == /\ pc = 0 \/ (Complete /\ pc \in DOMAIN code)
          /\ label \in Nat
          /\ turn \in {0, 1}
          /\ shown.kind \in {"begin", "act", "test", "end"}

\* The label a branch goes to is placed once in the whole program, not once in
\* each method (tempLabelIndex, allocTempLabel): relocation looks labels up in
\* one list of all methods and takes the first.
BranchesUnambiguous ==
  Complete /\ pc = 0 =>
    \A i \in DOMAIN code : \A l \in Aims(code[i]) : Cardinality(Placed(l)) = 1

\* The loop i is in: the last ENTER_LOOP_BLOCK before i not yet left, or 0.
Entered(i, j) == Cardinality({k \in i..j : code[k] = Flag("ENTER_LOOP_BLOCK")})
Left(i, j)    == Cardinality({k \in i..j : code[k] = Flag("EXIT_LOOP_BLOCK")})
LoopsAround(i) == {k \in 1..(i - 1) : /\ code[k] = Flag("ENTER_LOOP_BLOCK")
                                      /\ \A j \in k..(i - 1) : Entered(k, j) > Left(k, j)}

\* Control enters and leaves a loop only through its flags.  The code generator
\* empties its register cache at the flags and nowhere else in a loop
\* (generateCodes, MIR_OPT_FLAG): a branch across one would bring a cache along.
LoopsByTheirFlags ==
  [][pc # 0 /\ pc' # pc /\ code[pc].op # "flag" => LoopsAround(pc') = LoopsAround(pc)]_vars

\* The generated code does what the source says: it evaluates the comparisons
\* and acts in the order of the source, and it does not stop or run in circles
\* while the source has something to do.
Implements == Abs!Spec

=============================================================================

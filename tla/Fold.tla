--------------------------------- MODULE Fold ---------------------------------
(***************************************************************************)
(* The optimizer (compiler/optimization.cpp): foldMir2 walks the codes of  *)
(* a method once; for each assignment d = s it puts s in the place of d in *)
(* the codes that follow and then removes the assignment.                  *)
(*                                                                         *)
(* The model optimizes a method, one assignment per step, and then runs    *)
(* the codes as they were and as they are side by side, for every outcome  *)
(* of the comparisons.  A value is the place it comes from: two runs agree *)
(* on an operand exactly if they read what the same code has computed.     *)
(***************************************************************************)
EXTENDS Naturals, Sequences, FiniteSets

CONSTANTS
  Methods  \* code lists: sequences of [op, dist, reads], labels, jumps and flags

RetValue == [kind |-> "ret"]

\* The labels a code may jump to.
Jumps(m) == CASE m.op = "cmp" -> {m.true, m.false}
              [] m.op = "jmp" -> {m.label}
              [] OTHER        -> {}

IsList(s) == Len(s) \in Nat /\ s = [n \in 1 .. Len(s) |-> s[n]]

(* What MIR generation makes a code of.  Only assignments and operations   *)
(* have a target; an operation is t = t op o.                              *)
WellFormed(c) ==
  /\ IsList(c)
  /\ \A i \in DOMAIN c :
       /\ c[i].op \in {"mir2", "mir3", "call", "cmp", "jmp", "label", "flag", "ret"}
       /\ c[i].op = "mir2" => c[i].dist.kind \in {"var", "temp"} /\ Len(c[i].reads) = 1
       /\ c[i].op = "mir3" => c[i].dist.kind = "temp" /\ c[i].dist = c[i].reads[1]
                             /\ Len(c[i].reads) = 2
       /\ c[i].op \notin {"mir2", "mir3"} => c[i].dist.kind = "none"
       /\ IsList(c[i].reads)
       /\ \A n \in DOMAIN c[i].reads :
            c[i].reads[n].kind \in {"var", "temp", "const"} \/ c[i].reads[n] = RetValue
       /\ \A l \in Jumps(c[i]) : \E k \in DOMAIN c : c[k].op = "label" /\ c[k].label = l

(* How an expression uses temporaries.  One assignment starts each; it is  *)
(* read behind that, with no label or flag between; once it is assigned to *)
(* another variable it does not change any more.                           *)
Local(c) ==
  /\ \A i, j \in DOMAIN c :
       /\ c[i].op = "mir2" /\ c[i].dist.kind = "temp"
       /\ c[j].op = "mir2" /\ c[j].dist = c[i].dist
       => i = j
  /\ \A j \in DOMAIN c : \A n \in DOMAIN c[j].reads :
       c[j].reads[n].kind = "temp" =>
         \E i \in 1 .. j - 1 :
           /\ c[i].op = "mir2" /\ c[i].dist = c[j].reads[n]
           /\ \A k \in i + 1 .. j : c[k].op \notin {"label", "flag"}
  /\ \A i, j \in DOMAIN c :
       c[i].op = "mir2" /\ c[i].reads[1].kind = "temp" /\ c[j].dist = c[i].reads[1] => j < i

ASSUME MethodsAssumption == \A c \in Methods : WellFormed(c) /\ Local(c)

VARIABLES
  code,     \* the codes of the method before optimize
  now,      \* the operands of each code, by optimize
  removed,  \* the codes that removeMirCode has taken out
  at,       \* the code foldMir2 visits next
  pc,       \* the code that runs next; 0 while optimize works
  before,   \* what the variables hold in the code as it was
  after     \* what they hold in the code as it is

vars == <<code, now, removed, at, pc, before, after>>

Index == DOMAIN code

-----------------------------------------------------------------------------
(* replaceFutureUsedMir2.                                                  *)

IsFlag(i, fs) == code[i].op = "flag" /\ code[i].flag \in fs
LoopFlags == {"ENTER_LOOP_BLOCK", "EXIT_LOOP_BLOCK"}
Enters == {"ENTER_BLOCK", "ENTER_LOOP_BLOCK"}
Exits  == {"EXIT_BLOCK", "EXIT_LOOP_BLOCK"}

\* currentInLoop at j: the last loop flag after i enters.
InLoop(i, j) ==
  \E k \in i + 1 .. j : /\ IsFlag(k, {"ENTER_LOOP_BLOCK"})
                        /\ \A l \in k + 1 .. j : ~IsFlag(l, LoopFlags)

\* The variable is written in a loop that follows.
WrittenInLoop(i, d) == \E j \in i + 1 .. Len(code) : InLoop(i, j) /\ code[j].dist = d

\* blockLevel at j.
Level(i, j) == Cardinality({k \in i + 1 .. j : IsFlag(k, Enters)})
               - Cardinality({k \in i + 1 .. j : IsFlag(k, Exits)})

\* The codes after i in its block.
BlockAfter(i) == {j \in i + 1 .. Len(code) : \A k \in i + 1 .. j : Level(i, k) >= 0}

\* Faulty: replaces beyond a code that writes the variable.
SeenPastWrites(i, d) == BlockAfter(i)

\* The codes the walk reaches: up to the end of the block of i, and to the
\* first code that writes the variable.
Seen(i, d) == {j \in BlockAfter(i) : \A k \in i + 1 .. j - 1 : code[k].dist # d}

Replaced(i, d, s) ==
  LET seen == Seen(i, d)
  IN [j \in Index |-> IF j \in seen
                      THEN [n \in DOMAIN now[j] |-> IF now[j][n] = d THEN s ELSE now[j][n]]
                      ELSE now[j]]

-----------------------------------------------------------------------------
(* foldMir2: one code.                                                     *)

\* Faulty: the walk skips the code behind each one it visits.
VisitEverySecond ==
  /\ pc = 0 /\ at \in Index
  /\ at' = at + 2
  /\ IF code[at].op = "mir2" /\ ~WrittenInLoop(at, code[at].dist)
     THEN /\ now' = Replaced(at, code[at].dist, now[at][1])
          /\ removed' = IF now' # now THEN removed \cup {at} ELSE removed
     ELSE UNCHANGED <<now, removed>>
  /\ UNCHANGED <<code, pc, before, after>>

Visit ==
  /\ pc = 0 /\ at \in Index
  /\ at' = at + 1
  /\ IF code[at].op = "mir2" /\ ~WrittenInLoop(at, code[at].dist)
     THEN /\ now' = Replaced(at, code[at].dist, now[at][1])
          /\ removed' = IF now' # now THEN removed \cup {at} ELSE removed
     ELSE UNCHANGED <<now, removed>>
  /\ UNCHANGED <<code, pc, before, after>>

Run ==
  /\ pc = 0 /\ at \notin Index
  /\ pc' = 1
  /\ UNCHANGED <<code, now, removed, at, before, after>>

-----------------------------------------------------------------------------
(* The two runs.                                                           *)

Operands == UNION {{code[i].reads[n] : n \in DOMAIN code[i].reads} : i \in Index}
Variables == {code[i].dist : i \in Index} \cup {o \in Operands : o.kind # "const"}

\* What an operand is worth when the variables hold m: a constant itself.
Value(m, o) == IF o.kind = "const" THEN <<"const", o.name>> ELSE m[o]

\* What a code computes: its place, and not what it has computed the last time.
New(m, i, d) == <<"code", i, IF m[d] = <<"code", i, 0>> THEN 1 ELSE 0>>

Target(l) == CHOOSE i \in Index : code[i].op = "label" /\ code[i].label = l

Runs == pc \in Index
UnchangedCode == UNCHANGED <<code, now, removed, at>>

\* An assignment copies; a removed one is only in the code as it was.
Assign ==
  /\ Runs /\ code[pc].op = "mir2"
  /\ pc' = pc + 1
  /\ before' = [before EXCEPT ![code[pc].dist] = Value(before, code[pc].reads[1])]
  /\ after' = IF pc \in removed THEN after
              ELSE [after EXCEPT ![code[pc].dist] = Value(after, now[pc][1])]
  /\ UnchangedCode

\* An operation and a call compute something new; a call leaves it as the
\* value of the call just made.
Compute ==
  /\ Runs /\ code[pc].op \in {"mir3", "call"}
  /\ LET d == IF code[pc].op = "call" THEN RetValue ELSE code[pc].dist
         z == New(before, pc, d)
     IN /\ before' = [before EXCEPT ![d] = z]
        /\ after' = [after EXCEPT ![d] = z]
  /\ pc' = pc + 1
  /\ UnchangedCode

Branch ==
  /\ Runs
  /\ \E l \in Jumps(code[pc]) : pc' = Target(l)
  /\ UNCHANGED <<before, after>> /\ UnchangedCode

Pass ==
  /\ Runs /\ code[pc].op \in {"label", "flag", "ret"}
  /\ pc' = pc + 1
  /\ UNCHANGED <<before, after>> /\ UnchangedCode

Init ==
  /\ code \in Methods
  /\ now = [i \in Index |-> code[i].reads]
  /\ removed = {}
  /\ at = 1
  /\ pc = 0
  /\ before = [v \in Variables \cup {RetValue} |-> <<"given", v>>]
  /\ after = before

Next == Visit \/ Run \/ Assign \/ Compute \/ Branch \/ Pass

Spec == Init /\ [][Next]_vars

-----------------------------------------------------------------------------
TypeOK ==
  /\ removed \subseteq Index
  /\ at \in 1 .. Len(code) + 1
  /\ pc \in 0 .. Len(code) + 1
  /\ DOMAIN now = Index
  /\ \A i \in Index : Len(now[i]) = Len(code[i].reads)

\* A code that stays reads what it read before.
SameOperands ==
  Runs /\ pc \notin removed =>
    \A n \in DOMAIN now[pc] : Value(after, now[pc][n]) = Value(before, code[pc].reads[n])

\* The codes behind i up to e are reached by i only: no other code jumps there.
EnteredBy(i, e) ==
  \A j \in Index \ (i + 1 .. e) : \A l \in Jumps(code[j]) : Target(l) \notin i + 1 .. e

\* A simple method writes a variable of the source at most once, reads it only
\* behind that, in the same block and not in the other branch of an if, and makes
\* no call once it has read the value of one.
Writes(v) == {i \in Index : code[i].dist = v}
Reads(v)  == {i \in Index : \E n \in DOMAIN code[i].reads : code[i].reads[n] = v}
Calls     == {i \in Index : code[i].op = "call"}
Simple ==
  /\ \A v \in Variables : v.kind = "var" =>
       \A i \in Writes(v) :
         /\ Writes(v) = {i} /\ Reads(v) \subseteq BlockAfter(i)
         /\ \E e \in Index : Reads(v) \subseteq i + 1 .. e /\ EnteredBy(i, e)
  /\ \A i \in Reads(RetValue), j \in Calls : j < i

\* In simple methods the optimizer changes no operand's meaning.
SimpleMethodsKeepMeaning == SameOperands \/ ~Simple

=============================================================================

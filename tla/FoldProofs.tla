----------------------------- MODULE FoldProofs -----------------------------
(***************************************************************************)
(* The optimizer keeps the meaning of every simple method.                 *)
(*                                                                         *)
(* The argument has a part about the codes and one about the two runs.     *)
(* An operand is replaced by the source of the one assignment that reaches *)
(* it, which is replaced itself before (Settled); so what stands in a code *)
(* is an operand that this code, or an assignment ahead of it, has read in *)
(* the code as it was (Origin).  Nothing behind that code writes it.  So   *)
(* while the codes behind an assignment run, its source is still worth     *)
(* what the assigned variable was given (VarHeld, TempHeld), although the  *)
(* assignment itself may have been removed.                                *)
(***************************************************************************)
EXTENDS Fold, SequenceTheorems, FiniteSetTheorems, TLAPS

\* The assignments.
Moves == {i \in Index : code[i].op = "mir2"}

\* Operand n of the code j is one that the assignment i reaches.
Folds(i, j, n) ==
  /\ code[j].reads[n] = code[i].dist
  /\ j \in Seen(i, code[i].dist)
  /\ ~WrittenInLoop(i, code[i].dist)

Settled ==
  \A j \in Index : \A n \in DOMAIN code[j].reads :
    /\ \A i \in Moves : i < at /\ Folds(i, j, n) => now[j][n] = now[i][1]
    /\ (\A i \in Moves : ~(i < at /\ Folds(i, j, n))) => now[j][n] = code[j].reads[n]

Origin ==
  \A j \in Index : \A n \in DOMAIN code[j].reads :
    \E k \in 1 .. j : \E m \in DOMAIN code[k].reads :
      now[j][n] = code[k].reads[m] /\ (k = j \/ k \in Moves)

\* No label between i and e: the codes run one after the other.
Straight(i, e) == \A k \in i + 1 .. e : code[k].op \notin {"label", "flag"}

Rewritten(i, j) == \E k \in i + 1 .. j - 1 : code[k].dist = code[i].dist

\* The variable of the source that i writes is worth what i copied.
VarHeld ==
  \A i \in Moves, e \in Index :
    /\ code[i].dist.kind = "var" /\ EnteredBy(i, e) /\ pc \in i + 1 .. e
    => before[code[i].dist] = Value(after, now[i][1])

\* So is a temporary, until an operation has made something new of it.
TempHeld ==
  \A i \in Moves, e \in Index :
    /\ code[i].dist.kind = "temp" /\ Straight(i, e) /\ pc \in i + 1 .. e
    => IF Rewritten(i, pc) THEN before[code[i].dist] = after[code[i].dist]
       ELSE before[code[i].dist] = Value(after, now[i][1])

\* What optimize has no assignment for is the same in both runs.
Alike ==
  \A v \in Variables \cup {RetValue} :
    v = RetValue \/ (v.kind = "var" /\ Writes(v) = {}) => before[v] = after[v]

Shape ==
  /\ code \in Methods
  /\ at \in 1 .. Len(code) + 1 /\ pc \in 0 .. Len(code) + 1
  /\ pc # 0 => at = Len(code) + 1
  /\ removed \subseteq Index
  /\ now = [j \in Index |-> [n \in DOMAIN code[j].reads |-> now[j][n]]]
  /\ before = [v \in Variables \cup {RetValue} |-> before[v]]
  /\ after = [v \in Variables \cup {RetValue} |-> after[v]]

Meaning == Settled /\ Origin /\ Alike /\ VarHeld /\ TempHeld

FoldInv == Shape /\ (Simple => Meaning)

-----------------------------------------------------------------------------
(* The codes of a method.                                                  *)

LEMMA ListIs ==
  ASSUME NEW s, IsList(s)
  PROVE  Len(s) \in Nat /\ DOMAIN s = 1 .. Len(s) /\ s = [n \in DOMAIN s |-> s[n]]
<1>1. DOMAIN s = 1 .. Len(s)
  BY DEF IsList
<1>. QED
  BY <1>1 DEF IsList

\* The parts of the assumption that hold of the method at hand.
LEMMA Listed ==
  ASSUME code \in Methods
  PROVE  /\ Len(code) \in Nat /\ Index = 1 .. Len(code)
         /\ \A i \in Index : Len(code[i].reads) \in Nat
                             /\ DOMAIN code[i].reads = 1 .. Len(code[i].reads)
                             /\ code[i].reads = [n \in DOMAIN code[i].reads |-> code[i].reads[n]]
         /\ \A i \in Moves : code[i].dist.kind \in {"var", "temp"} /\ DOMAIN code[i].reads = {1}
<1>1. IsList(code) /\ \A i \in Index : IsList(code[i].reads)
  BY MethodsAssumption DEF WellFormed, Index
<1>2. \A i \in Moves : code[i].dist.kind \in {"var", "temp"} /\ Len(code[i].reads) = 1
  BY MethodsAssumption DEF WellFormed, Index, Moves
<1>3. \A i \in Index : /\ Len(code[i].reads) \in Nat
                        /\ DOMAIN code[i].reads = 1 .. Len(code[i].reads)
                        /\ code[i].reads = [n \in DOMAIN code[i].reads |-> code[i].reads[n]]
  BY <1>1, ListIs
<1>4. Moves \subseteq Index
  BY DEF Moves
<1>5. \A i \in Moves : DOMAIN code[i].reads = {1}
  BY <1>2, <1>3, <1>4
<1>. QED
  BY <1>1, <1>2, <1>3, <1>5, ListIs DEF Index

\* A variable has one assignment.
LEMMA OneMove ==
  ASSUME code \in Methods, Simple, NEW i \in Moves, NEW j \in Moves, code[i].dist = code[j].dist
  PROVE  i = j
<1>1. CASE code[i].dist.kind = "var"
  <2>1. code[i].dist \in Variables
    BY DEF Moves, Variables
  <2>2. {i, j} \subseteq Writes(code[i].dist)
    BY DEF Moves, Writes
  <2>. QED
    BY <1>1, <2>1, <2>2 DEF Simple
<1>2. CASE code[i].dist.kind = "temp"
  BY <1>2, MethodsAssumption DEF Local, Moves, Index
<1>. QED
  BY <1>1, <1>2, Listed

\* It is read behind that only.
LEMMA ReadBehind ==
  ASSUME code \in Methods, Simple, NEW i \in Moves, NEW k \in Index,
         NEW n \in DOMAIN code[k].reads, code[k].reads[n] = code[i].dist
  PROVE  i < k
<1>0. i \in Index /\ i \in Nat /\ k \in Nat
  BY Listed DEF Moves
<1>1. CASE code[i].dist.kind = "var"
  <2>1. code[i].dist \in Variables
    BY <1>0 DEF Variables
  <2>2. i \in Writes(code[i].dist) /\ k \in Reads(code[i].dist)
    BY <1>0 DEF Writes, Reads
  <2>3. k \in BlockAfter(i)
    BY <1>1, <2>1, <2>2 DEF Simple
  <2>. QED
    BY <2>3, <1>0, Listed DEF BlockAfter
<1>2. CASE code[i].dist.kind = "temp"
  <2>1. Local(code)
    BY MethodsAssumption
  <2>2. PICK h \in 1 .. k - 1 : code[h].op = "mir2" /\ code[h].dist = code[k].reads[n]
    BY <1>2, <2>1, <1>0 DEF Local, Index
  <2>3. h \in Moves
    BY <2>2, <1>0, Listed DEF Moves
  <2>. QED
    BY <2>2, <2>3, OneMove, <1>0
<1>. QED
  BY <1>1, <1>2, Listed

\* What an assignment has read does not change behind it, unless it is a call's value.
LEMMA Stable ==
  ASSUME code \in Methods, Simple, NEW k \in Moves, NEW j \in Index, k < j
  PROVE  /\ code[j].dist # code[k].reads[1]
         /\ code[j].op = "call" => code[k].reads[1] # RetValue
<1>0. k \in Index /\ 1 \in DOMAIN code[k].reads /\ k \in Nat /\ j \in Nat
  BY Listed DEF Moves
<1>. DEFINE v == code[k].reads[1]
<1>1. v.kind \in {"var", "temp", "const"} \/ v = RetValue
  BY <1>0, MethodsAssumption DEF WellFormed, Index
<1>2. code[j].dist.kind \in {"var", "temp", "none"}
  BY MethodsAssumption DEF WellFormed, Index
<1>3. CASE v.kind = "temp"
  <2>1. code[j].dist = v => j < k
    BY <1>3, <1>0, MethodsAssumption DEF Local, Moves, Index
  <2>. QED
    BY <1>3, <2>1, <1>0 DEF RetValue
<1>4. CASE v.kind = "var"
  <2>1. v \in Variables
    BY <1>0, <1>4 DEF Variables, Operands
  <2>2. k \in Reads(v)
    BY <1>0 DEF Reads
  <2>3. code[j].dist = v => k \in BlockAfter(j)
    BY <1>4, <2>1, <2>2 DEF Simple, Writes
  <2>4. code[j].dist = v => j < k
    BY <2>3, <1>0, Listed DEF BlockAfter
  <2>. QED
    BY <1>4, <2>4, <1>0 DEF RetValue
<1>5. CASE v = RetValue
  <2>1. k \in Reads(RetValue)
    BY <1>5, <1>0 DEF Reads
  <2>2. code[j].op = "call" => j < k
    BY <2>1 DEF Simple, Calls
  <2>. QED
    BY <1>5, <1>2, <2>2, <1>0 DEF RetValue
<1>6. CASE v.kind = "const"
  BY <1>6, <1>2 DEF RetValue
<1>. QED
  BY <1>1, <1>3, <1>4, <1>5, <1>6

-----------------------------------------------------------------------------
(* foldMir2.                                                               *)

\* The code visited reaches exactly the operands that are the variable it writes:
\* an operand replaced before is not one, since what an assignment copies is
\* written ahead of it.
LEMMA Reached ==
  ASSUME Shape, Simple, Settled, Origin, at \in Moves,
         NEW j \in Index, NEW n \in DOMAIN code[j].reads,
         j \in Seen(at, code[at].dist), ~WrittenInLoop(at, code[at].dist)
  PROVE  now[j][n] = code[at].dist <=> Folds(at, j, n)
<1>. DEFINE d == code[at].dist
<1>0. code \in Methods /\ at \in Nat /\ Moves \subseteq Index /\ Index \subseteq Nat
  BY Listed DEF Shape, Moves
<1>1. ASSUME Folds(at, j, n)  PROVE now[j][n] = d
  <2>1. \A i \in Moves : ~(i < at /\ Folds(i, j, n))
    BY <1>0, <1>1, OneMove DEF Folds
  <2>. QED
    BY <1>1, <2>1 DEF Settled, Folds
<1>2. ASSUME now[j][n] = d, code[j].reads[n] # d  PROVE FALSE
  <2>1. PICK i \in Moves : i < at /\ Folds(i, j, n)
    BY <1>2 DEF Settled
  <2>2. now[i][1] = d
    BY <1>2, <2>1 DEF Settled
  <2>3. i \in Index /\ 1 \in DOMAIN code[i].reads
    BY <1>0, Listed
  <2>4. PICK k \in 1 .. i : \E m \in DOMAIN code[k].reads : now[i][1] = code[k].reads[m]
    BY <2>3 DEF Origin
  <2>5. k \in Index /\ k < at
    BY <2>1, <2>3, <2>4, <1>0, Listed
  <2>6. at < k
    BY <2>2, <2>4, <2>5, <1>0, ReadBehind
  <2>. QED
    BY <2>5, <2>6, <1>0
<1>. QED
  BY <1>1, <1>2 DEF Folds

LEMMA VisitShape ==
  ASSUME Shape, Visit
  PROVE  Shape'
<1>1. at \in Index /\ at \in Nat /\ Len(code) \in Nat /\ Index = 1 .. Len(code)
  BY Listed DEF Shape, Visit
<1>2. now' = [j \in Index |-> [n \in DOMAIN code[j].reads |-> now'[j][n]]]
  BY <1>1 DEF Shape, Visit, Replaced
<1>3. removed' \subseteq Index
  BY <1>1 DEF Shape, Visit
<1>. QED
  BY <1>1, <1>2, <1>3 DEF Shape, Visit, Variables, Operands, Index

LEMMA VisitStep ==
  ASSUME Shape, Simple, Settled, Origin, Visit
  PROVE  Settled' /\ Origin'
<1>. DEFINE d == code[at].dist
            Acts == at \in Moves /\ ~WrittenInLoop(at, d)
<1>0. /\ code \in Methods /\ at \in Nat /\ at \in Index /\ Moves \subseteq Index /\ Index \subseteq Nat
      /\ at' = at + 1 /\ code' = code
  BY Listed DEF Shape, Moves, Visit
<1>1. ASSUME NEW j \in Index, NEW n \in DOMAIN code[j].reads
      PROVE  now'[j][n] = IF Acts /\ Folds(at, j, n) THEN now[at][1] ELSE now[j][n]
  <2>1. CASE ~Acts
    BY <2>1, <1>0 DEF Visit, Moves
  <2>2. CASE Acts /\ j \in Seen(at, d)
    <3>1. now' = Replaced(at, d, now[at][1])
      BY <2>2 DEF Visit, Moves
    <3>2. now[j][n] = d <=> Folds(at, j, n)
      BY <2>2, Reached
    <3>3. DOMAIN now[j] = DOMAIN code[j].reads
      BY DEF Shape
    <3>. QED
      BY <2>2, <3>1, <3>2, <3>3 DEF Replaced
  <2>3. CASE Acts /\ j \notin Seen(at, d)
    BY <2>3 DEF Visit, Moves, Replaced, Folds
  <2>. QED
    BY <2>1, <2>2, <2>3
<1>2. \A i \in Moves : i <= at => now'[i][1] = now[i][1]
  <2>. TAKE i \in Moves
  <2>. HAVE i <= at
  <2>1. i \notin Seen(at, d)
    BY <1>0, Listed DEF Seen, BlockAfter
  <2>2. 1 \in DOMAIN code[i].reads
    BY <1>0, Listed
  <2>. QED
    BY <2>1, <2>2, <1>0, <1>1 DEF Folds
<1>3. Index' = Index /\ Moves' = Moves
      /\ \A i, j, n : Folds(i, j, n)' = Folds(i, j, n)
  BY <1>0 DEF Index, Moves, Folds, Seen, BlockAfter, Level, IsFlag, WrittenInLoop, InLoop
<1>4. Settled'
  <2>. SUFFICES ASSUME NEW j \in Index, NEW n \in DOMAIN code[j].reads
       PROVE  /\ \A i \in Moves : i < at + 1 /\ Folds(i, j, n) => now'[j][n] = now'[i][1]
              /\ (\A i \in Moves : ~(i < at + 1 /\ Folds(i, j, n))) => now'[j][n] = code[j].reads[n]
    BY <1>0, <1>3 DEF Settled
  <2>1. ASSUME NEW i \in Moves, i < at + 1, Folds(i, j, n)  PROVE now'[j][n] = now'[i][1]
    <3>1. CASE i = at
      BY <3>1, <2>1, <1>0, <1>1, <1>2 DEF Folds
    <3>2. CASE i < at
      <4>1. ~(at \in Moves /\ Folds(at, j, n))
        BY <2>1, <3>2, <1>0, OneMove DEF Folds
      <4>2. now'[j][n] = now[j][n]
        BY <4>1, <1>1
      <4>3. now[j][n] = now[i][1]
        BY <2>1, <3>2 DEF Settled
      <4>4. now'[i][1] = now[i][1]
        <5>1. i <= at
          BY <3>2, <1>0
        <5>. QED
          BY <5>1, <2>1, <1>2
      <4>. QED
        BY <4>2, <4>3, <4>4
    <3>. QED
      BY <3>1, <3>2, <2>1, <1>0
  <2>2. ASSUME \A i \in Moves : ~(i < at + 1 /\ Folds(i, j, n))  PROVE now'[j][n] = code[j].reads[n]
    <3>1. ~(at \in Moves /\ Folds(at, j, n)) /\ \A i \in Moves : ~(i < at /\ Folds(i, j, n))
      BY <2>2, <1>0
    <3>. QED
      BY <3>1, <1>1 DEF Settled
  <2>. QED
    BY <2>1, <2>2
<1>5. Origin'
  <2>. SUFFICES ASSUME NEW j \in Index, NEW n \in DOMAIN code[j].reads
       PROVE  \E k \in 1 .. j : \E m \in DOMAIN code[k].reads :
                now'[j][n] = code[k].reads[m] /\ (k = j \/ k \in Moves)
    BY <1>0, <1>3 DEF Origin
  <2>1. CASE Acts /\ Folds(at, j, n)
    <3>0. 1 \in DOMAIN code[at].reads
      BY <2>1, <1>0, Listed
    <3>1. at < j
      BY <2>1, <1>0, Listed DEF Folds, Seen, BlockAfter
    <3>2. PICK k \in 1 .. at : \E m \in DOMAIN code[k].reads :
            now[at][1] = code[k].reads[m] /\ (k = at \/ k \in Moves)
      BY <3>0, <1>0 DEF Origin
    <3>3. k \in 1 .. j /\ k \in Moves
      BY <3>1, <3>2, <2>1, <1>0
    <3>. QED
      BY <3>2, <3>3, <2>1, <1>1
  <2>2. CASE ~(Acts /\ Folds(at, j, n))
    BY <2>2, <1>1 DEF Origin
  <2>. QED
    BY <2>1, <2>2
<1>. QED
  BY <1>4, <1>5

-----------------------------------------------------------------------------
(* What the walk of an assignment reaches.                                 *)

\* Of a temporary: the codes up to the operation that makes something new of it.
LEMMA TempReach ==
  ASSUME code \in Methods, Simple, NEW i \in Moves, code[i].dist.kind = "temp"
  PROVE  /\ ~WrittenInLoop(i, code[i].dist)
         /\ \A j \in Index : i < j /\ Straight(i, j) /\ ~Rewritten(i, j) => j \in Seen(i, code[i].dist)
<1>. DEFINE t == code[i].dist
<1>0. i \in Index /\ Index = 1 .. Len(code) /\ Len(code) \in Nat
  BY Listed DEF Moves
<1>1. ASSUME NEW j \in i + 1 .. Len(code), code[j].dist = t, InLoop(i, j)  PROVE FALSE
  <2>0. j \in Index /\ i # j
    BY <1>0
  <2>1. code[j].op = "mir3" /\ code[j].reads[1] = t /\ 1 \in DOMAIN code[j].reads
    <3>1. code[j].op \in {"mir2", "mir3"}
      BY <2>0, <1>1, MethodsAssumption DEF WellFormed, Index
    <3>2. code[j].op # "mir2"
      BY <2>0, <1>1, OneMove DEF Moves
    <3>. QED
      <4>1. code[j].op = "mir3" /\ code[j].dist = code[j].reads[1] /\ Len(code[j].reads) = 2
        BY <3>1, <3>2, <2>0, MethodsAssumption DEF WellFormed, Index
      <4>2. DOMAIN code[j].reads = 1 .. 2
        BY <4>1, <2>0, Listed
      <4>. QED
        BY <4>1, <4>2, <1>1
  <2>2. PICK h \in 1 .. j - 1 : /\ code[h].op = "mir2" /\ code[h].dist = t
                                /\ \A k \in h + 1 .. j : code[k].op \notin {"label", "flag"}
    BY <2>0, <2>1, MethodsAssumption DEF Local, Index
  <2>3. h = i
    BY <2>0, <2>2, <1>0, OneMove DEF Moves
  <2>. QED
    BY <2>2, <2>3, <1>1, <1>0 DEF InLoop, IsFlag
<1>2. ASSUME NEW j \in Index, i < j, Straight(i, j), ~Rewritten(i, j)
      PROVE  j \in Seen(i, t)
  <2>1. \A k \in i + 1 .. j : Level(i, k) = 0
    <3>. TAKE k \in i + 1 .. j
    <3>1. \A m \in i + 1 .. k : m \in i + 1 .. j
      BY <1>0
    <3>2. {m \in i + 1 .. k : IsFlag(m, Enters)} = {} /\ {m \in i + 1 .. k : IsFlag(m, Exits)} = {}
      BY <3>1, <1>2 DEF Straight, IsFlag
    <3>. QED
      BY <3>2, FS_EmptySet DEF Level
  <2>. QED
    BY <2>1, <1>2, <1>0 DEF Seen, BlockAfter, Rewritten
<1>. QED
  BY <1>1, <1>2 DEF WrittenInLoop

\* Of a variable of the source: every code that reads it.
LEMMA VarReach ==
  ASSUME code \in Methods, Simple, NEW i \in Moves, code[i].dist.kind = "var"
  PROVE  /\ ~WrittenInLoop(i, code[i].dist)
         /\ Writes(code[i].dist) = {i}
         /\ Reads(code[i].dist) \subseteq Seen(i, code[i].dist)
<1>0. i \in Index /\ Index = 1 .. Len(code) /\ Len(code) \in Nat
  BY Listed DEF Moves
<1>1. code[i].dist \in Variables /\ i \in Writes(code[i].dist)
  BY <1>0 DEF Variables, Writes
<1>2. Writes(code[i].dist) = {i} /\ Reads(code[i].dist) \subseteq BlockAfter(i)
  BY <1>1 DEF Simple
<1>3. \A k \in Index : k > i => code[k].dist # code[i].dist
  BY <1>2, <1>0 DEF Writes
<1>. QED
  BY <1>0, <1>2, <1>3 DEF WrittenInLoop, Seen, BlockAfter

\* So a code finds in the optimized run what it finds in the run as it was.
LEMMA SameRead ==
  ASSUME Shape, Simple, Meaning, pc \in Index, NEW n \in DOMAIN code[pc].reads
  PROVE  Value(after, now[pc][n]) = Value(before, code[pc].reads[n])
<1>. DEFINE v == code[pc].reads[n]
<1>0. /\ code \in Methods /\ Moves \subseteq Index /\ Index = 1 .. Len(code) /\ Len(code) \in Nat
      /\ \A i \in Moves : i < at
  BY Listed DEF Shape, Moves
<1>1. v.kind \in {"var", "temp", "const"} \/ v = RetValue
  BY <1>0, MethodsAssumption DEF WellFormed, Index
<1>2. ASSUME \A i \in Moves : code[i].dist # v  PROVE now[pc][n] = v
  BY <1>2 DEF Meaning, Settled, Folds
<1>3. CASE v = RetValue
  <2>1. now[pc][n] = v
    BY <1>2, <1>3, <1>0, Listed DEF RetValue
  <2>. QED
    BY <2>1, <1>3 DEF Meaning, Alike, Value, RetValue
<1>4. CASE v.kind = "const"
  <2>1. now[pc][n] = v
    BY <1>2, <1>4, <1>0, Listed
  <2>. QED
    BY <2>1, <1>4 DEF Value
<1>5. CASE v.kind = "var"
  <2>0. v \in Variables
    BY <1>5 DEF Variables, Operands
  <2>1. CASE Writes(v) = {}
    <3>1. now[pc][n] = v
      BY <2>1, <1>2 DEF Moves, Writes
    <3>. QED
      BY <3>1, <2>0, <2>1, <1>5 DEF Meaning, Alike, Value
  <2>2. CASE Writes(v) # {}
    <3>1. PICK i \in Index : code[i].dist = v
      BY <2>2 DEF Writes
    <3>2. i \in Moves
      BY <3>1, <1>5, <1>0, MethodsAssumption DEF WellFormed, Moves, Index
    <3>3. pc \in Reads(v)
      BY DEF Reads
    <3>4. Folds(i, pc, n)
      BY <3>1, <3>2, <3>3, <1>0, <1>5, VarReach DEF Folds
    <3>5. now[pc][n] = now[i][1]
      BY <3>2, <3>4, <1>0 DEF Meaning, Settled
    <3>6. PICK e \in Index : Reads(v) \subseteq i + 1 .. e /\ EnteredBy(i, e)
      BY <2>0, <3>1, <1>5 DEF Simple, Writes
    <3>7. before[v] = Value(after, now[i][1])
      BY <3>1, <3>2, <3>3, <3>6, <1>5 DEF Meaning, VarHeld
    <3>. QED
      BY <3>5, <3>7, <1>5 DEF Value
  <2>. QED
    BY <2>1, <2>2
<1>6. CASE v.kind = "temp"
  <2>1. PICK i \in 1 .. pc - 1 : code[i].op = "mir2" /\ code[i].dist = v /\ Straight(i, pc)
    BY <1>6, <1>0, MethodsAssumption DEF Local, Straight, Index
  <2>2. i \in Moves /\ i < pc /\ pc \in i + 1 .. pc
    BY <2>1, <1>0 DEF Moves
  <2>3. CASE Rewritten(i, pc)
    <3>1. \A h \in Moves : ~Folds(h, pc, n)
      <4>. SUFFICES ASSUME NEW h \in Moves, Folds(h, pc, n)  PROVE FALSE
        OBVIOUS
      <4>1. h = i
        BY <2>1, <2>2, <1>0, OneMove DEF Folds
      <4>. QED
        BY <4>1, <2>1, <2>3 DEF Folds, Seen, Rewritten
    <3>2. now[pc][n] = v
      BY <3>1 DEF Meaning, Settled
    <3>3. before[v] = after[v]
      BY <2>1, <2>2, <2>3, <1>6 DEF Meaning, TempHeld
    <3>. QED
      BY <3>2, <3>3, <1>6 DEF Value
  <2>4. CASE ~Rewritten(i, pc)
    <3>1. Folds(i, pc, n)
      BY <2>1, <2>2, <2>4, <1>0, <1>6, TempReach DEF Folds
    <3>2. now[pc][n] = now[i][1]
      BY <3>1, <2>2, <1>0 DEF Meaning, Settled
    <3>3. before[v] = Value(after, now[i][1])
      BY <2>1, <2>2, <2>4, <1>6 DEF Meaning, TempHeld
    <3>. QED
      BY <3>2, <3>3, <1>6 DEF Value
  <2>. QED
    BY <2>3, <2>4
<1>. QED
  BY <1>1, <1>3, <1>4, <1>5, <1>6

-----------------------------------------------------------------------------
(* The two runs.                                                           *)

LEMMA TargetIsLabel ==
  ASSUME code \in Methods, NEW j \in Index, NEW l \in Jumps(code[j])
  PROVE  Target(l) \in Index /\ code[Target(l)].op = "label"
<1>1. \E k \in Index : code[k].op = "label" /\ code[k].label = l
  BY MethodsAssumption DEF WellFormed, Index
<1>. QED
  BY <1>1 DEF Target

\* What an assignment copies is written neither by itself nor by a code behind it.
LEMMA SourceKept ==
  ASSUME Shape, Simple, Meaning, pc \in Index, NEW i \in Moves, i <= pc
  PROVE  /\ now[i][1] # code[pc].dist
         /\ code[pc].op = "call" => now[i][1] # RetValue
         /\ now[i][1] \in Operands
<1>0. code \in Methods /\ i \in Index /\ Index = 1 .. Len(code) /\ Len(code) \in Nat
      /\ 1 \in DOMAIN code[i].reads
  BY Listed DEF Shape, Moves
<1>1. PICK k \in 1 .. i : \E m \in DOMAIN code[k].reads :
        now[i][1] = code[k].reads[m] /\ (k = i \/ k \in Moves)
  BY <1>0 DEF Meaning, Origin
<1>2. k \in Moves /\ k \in Index /\ now[i][1] = code[k].reads[1] /\ 1 \in DOMAIN code[k].reads
  BY <1>0, <1>1, Listed
<1>3. now[i][1] \in Operands
  BY <1>2 DEF Operands
<1>4. CASE k < pc
  BY <1>0, <1>2, <1>3, <1>4, Stable
<1>5. CASE k = pc
  BY <1>0, <1>2, <1>3, <1>5, ReadBehind DEF Moves
<1>. QED
  BY <1>0, <1>1, <1>4, <1>5

\* A code behind an assignment is run after one in that stretch, or after the assignment.
LEMMA Onward ==
  ASSUME Shape, Runs, pc' = pc + 1 \/ \E l \in Jumps(code[pc]) : pc' = Target(l),
         NEW i \in Moves, NEW e \in Index, pc' \in i + 1 .. e,
         EnteredBy(i, e) \/ Straight(i, e)
  PROVE  /\ (pc' = pc + 1 /\ pc = i) \/ pc \in i + 1 .. e
         /\ Straight(i, e) => pc' = pc + 1
<1>0. code \in Methods /\ i \in Index /\ Index = 1 .. Len(code) /\ Len(code) \in Nat /\ pc \in Index
  BY Listed DEF Shape, Moves, Runs
<1>1. CASE pc' = pc + 1
  BY <1>0, <1>1
<1>2. ASSUME NEW l \in Jumps(code[pc]), pc' = Target(l)
      PROVE  pc \in i + 1 .. e /\ ~Straight(i, e)
  <2>1. code[pc'].op = "label"
    BY <1>0, <1>2, TargetIsLabel
  <2>2. ~Straight(i, e)
    BY <2>1 DEF Straight
  <2>. QED
    BY <2>2, <1>0, <1>2 DEF EnteredBy
<1>. QED
  BY <1>0, <1>1, <1>2

LEMMA RunShape ==
  ASSUME Shape, Run \/ Assign \/ Compute \/ Branch \/ Pass
  PROVE  Shape'
<1>0. code \in Methods /\ Index = 1 .. Len(code) /\ Len(code) \in Nat
  BY Listed DEF Shape
<1>1. CASE Run
  BY <1>0, <1>1 DEF Shape, Run, Index, Variables, Operands
<1>2. ASSUME Runs, UnchangedCode, pc' = pc + 1, NEW w, NEW y, NEW z,
             before' = [before EXCEPT ![w] = y],
             after' = after \/ after' = [after EXCEPT ![w] = z]
      PROVE  Shape'
  <2>. DEFINE D == Variables \cup {RetValue}
  <2>1. before' = [v \in D |-> before'[v]] /\ after' = [v \in D |-> after'[v]]
    BY <1>2 DEF Shape
  <2>2. D' = D
    BY <1>2 DEF UnchangedCode, Variables, Operands, Index
  <2>3. before' = [v \in D' |-> before'[v]] /\ after' = [v \in D' |-> after'[v]]
    BY <2>1, <2>2
  <2>4. /\ code' \in Methods /\ at' \in 1 .. Len(code') + 1 /\ pc' \in 0 .. Len(code') + 1
        /\ (pc' # 0 => at' = Len(code') + 1) /\ removed' \subseteq Index'
        /\ now' = [j \in Index' |-> [n \in DOMAIN code'[j].reads |-> now'[j][n]]]
    BY <1>0, <1>2 DEF Shape, Runs, UnchangedCode, Index
  <2>. QED
    BY <2>3, <2>4 DEF Shape
<1>3. CASE Assign \/ Compute
  BY <1>2, <1>3 DEF Assign, Compute
<1>4. CASE Branch
  <2>1. pc' \in Index
    BY <1>0, <1>4, TargetIsLabel DEF Branch, Runs
  <2>. QED
    BY <1>0, <1>4, <2>1 DEF Shape, Branch, Runs, UnchangedCode, Index, Variables, Operands
<1>5. CASE Pass
  BY <1>0, <1>5 DEF Shape, Pass, Runs, UnchangedCode, Index, Variables, Operands
<1>. QED
  BY <1>1, <1>3, <1>4, <1>5

\* A step of the runs leaves the codes and all that is said of them.
LEMMA CodesStay ==
  ASSUME UnchangedCode
  PROVE  /\ Settled' = Settled /\ Origin' = Origin /\ Moves' = Moves /\ Index' = Index
         /\ Variables' = Variables
         /\ \A v : Writes(v)' = Writes(v)
         /\ \A i, e : EnteredBy(i, e)' = EnteredBy(i, e) /\ Straight(i, e)' = Straight(i, e)
BY DEF UnchangedCode, Settled, Origin, Moves, Index, Variables, Operands, Writes, EnteredBy,
       Straight, Folds, Seen, BlockAfter, Level, IsFlag, WrittenInLoop, InLoop, Target

\* One code has run.  It writes w in both runs, or in the run as it was only, and
\* leaves the other variables alone.
LEMMA HeldOn ==
  ASSUME Shape, Simple, Meaning, Runs, UnchangedCode,
         pc' = pc + 1 \/ \E l \in Jumps(code[pc]) : pc' = Target(l),
         NEW w, w = IF code[pc].op = "call" THEN RetValue ELSE code[pc].dist,
         \A v \in Variables \cup {RetValue} :
           v # w => before'[v] = before[v] /\ after'[v] = after[v],
         code[pc].op \in {"mir3", "call"} => before'[w] = after'[w],
         code[pc].op = "mir2" => before'[w] = Value(after', now[pc][1])
  PROVE  Alike' /\ VarHeld' /\ TempHeld'
<1>. DEFINE D == Variables \cup {RetValue}
<1>0. /\ code \in Methods /\ Moves \subseteq Index /\ Index = 1 .. Len(code) /\ Len(code) \in Nat
      /\ pc \in Index /\ code' = code /\ now' = now
  BY Listed DEF Shape, Moves, Runs, UnchangedCode
<1>1. /\ code[pc].op \in {"mir2", "mir3", "call", "cmp", "jmp", "label", "flag", "ret"}
      /\ code[pc].op = "mir2" => code[pc].dist.kind \in {"var", "temp"}
      /\ code[pc].op = "mir3" => code[pc].dist.kind = "temp"
      /\ code[pc].op \notin {"mir2", "mir3"} => code[pc].dist.kind = "none"
  BY <1>0, MethodsAssumption DEF WellFormed, Index
<1>2. ASSUME NEW i \in Moves, i < pc
      PROVE  Value(after', now[i][1]) = Value(after, now[i][1])
  <2>1. now[i][1] # w /\ now[i][1] \in Operands
    BY <1>0, <1>2, SourceKept
  <2>2. now[i][1].kind = "const" \/ now[i][1] \in D
    BY <2>1 DEF Variables
  <2>. QED
    BY <2>1, <2>2 DEF Value
<1>3. \A i \in Moves : code[i].dist \in D /\ code[i].dist # RetValue
  BY <1>0, Listed DEF Variables, RetValue
<1>4. Alike'
  <2>. SUFFICES ASSUME NEW v \in D, v = RetValue \/ (v.kind = "var" /\ Writes(v) = {})
       PROVE  before'[v] = after'[v]
    BY CodesStay DEF Alike
  <2>1. CASE v # w
    BY <2>1 DEF Meaning, Alike
  <2>2. CASE v = w
    <3>1. v = RetValue => code[pc].op = "call"
      BY <2>2, <1>1 DEF RetValue
    <3>2. v.kind = "var" => code[pc].op = "mir2" /\ pc \in Writes(v)
      BY <2>2, <1>0, <1>1 DEF RetValue, Writes
    <3>. QED
      BY <2>2, <3>1, <3>2
  <2>. QED
    BY <2>1, <2>2
<1>5. VarHeld'
  <2>. SUFFICES ASSUME NEW i \in Moves, NEW e \in Index, code[i].dist.kind = "var",
                       EnteredBy(i, e), pc' \in i + 1 .. e
       PROVE  before'[code[i].dist] = Value(after', now[i][1])
    BY <1>0, CodesStay DEF VarHeld
  <2>1. CASE pc = i
    BY <2>1 DEF Moves
  <2>2. CASE pc # i
    <3>1. pc \in i + 1 .. e /\ i < pc
      BY <2>2, <1>0, Onward
    <3>2. before[code[i].dist] = Value(after, now[i][1])
      BY <3>1 DEF Meaning, VarHeld
    <3>3. code[i].dist # w
      <4>1. Writes(code[i].dist) = {i}
        BY <1>0, VarReach
      <4>. QED
        BY <4>1, <1>0, <1>3, <2>2 DEF Writes
    <3>. QED
      BY <3>1, <3>2, <3>3, <1>2, <1>3
  <2>. QED
    BY <2>1, <2>2
<1>6. TempHeld'
  <2>. DEFINE WillBe(i) == \E k \in i + 1 .. pc' - 1 : code[k].dist = code[i].dist
  <2>. SUFFICES ASSUME NEW i \in Moves, NEW e \in Index, code[i].dist.kind = "temp",
                       Straight(i, e), pc' \in i + 1 .. e
       PROVE  IF WillBe(i) THEN before'[code[i].dist] = after'[code[i].dist]
              ELSE before'[code[i].dist] = Value(after', now[i][1])
    BY <1>0 DEF TempHeld, Rewritten, Straight, Moves, Index, Value
  <2>0. pc' = pc + 1 /\ (pc = i \/ pc \in i + 1 .. e)
    BY Onward
  <2>1. CASE pc = i
    <3>1. ~WillBe(i)
      BY <2>0, <2>1, <1>0
    <3>. QED
      BY <2>1, <3>1 DEF Moves
  <2>2. CASE pc # i
    <3>0. pc \in i + 1 .. e /\ i < pc /\ i \in Nat
      BY <2>0, <2>2, <1>0
    <3>1. WillBe(i) <=> Rewritten(i, pc) \/ code[pc].dist = code[i].dist
      <4>1. \A k : k \in i + 1 .. pc' - 1 <=> k \in i + 1 .. pc - 1 \/ k = pc
        BY <2>0, <3>0, <1>0
      <4>. QED
        BY <4>1 DEF Rewritten
    <3>2. CASE code[pc].dist = code[i].dist
      <4>1. code[pc].op # "mir2"
        BY <3>2, <2>2, <1>0, OneMove DEF Moves
      <4>2. code[pc].op = "mir3"
        BY <4>1, <3>2, <1>1
      <4>. QED
        BY <3>1, <3>2, <4>2
    <3>3. CASE code[pc].dist # code[i].dist
      <4>1. code[i].dist # w
        BY <3>3, <1>3
      <4>2. before'[code[i].dist] = before[code[i].dist] /\ after'[code[i].dist] = after[code[i].dist]
        BY <4>1, <1>3
      <4>. QED
        BY <3>0, <3>1, <3>3, <4>2, <1>2 DEF Meaning, TempHeld
    <3>. QED
      BY <3>2, <3>3
  <2>. QED
    BY <2>1, <2>2
<1>. QED
  BY <1>4, <1>5, <1>6

LEMMA AssignStep ==
  ASSUME Shape, Simple, Meaning, Assign
  PROVE  Alike' /\ VarHeld' /\ TempHeld'
<1>. DEFINE d == code[pc].dist
            D == Variables \cup {RetValue}
<1>0. /\ code \in Methods /\ Runs /\ UnchangedCode /\ pc \in Moves /\ pc \in Index /\ pc \in Nat
      /\ 1 \in DOMAIN code[pc].reads /\ pc' = pc + 1
  BY Listed DEF Shape, Assign, Runs, Moves
<1>1. d \in D
  BY <1>0 DEF Variables
<1>2. before' = [before EXCEPT ![d] = Value(before, code[pc].reads[1])]
      /\ after' = IF pc \in removed THEN after ELSE [after EXCEPT ![d] = Value(after, now[pc][1])]
  BY DEF Assign
<1>3. \A v \in D : v # d => before'[v] = before[v] /\ after'[v] = after[v]
  BY <1>2 DEF Shape
<1>4. before'[d] = Value(after, now[pc][1])
  <2>1. before'[d] = Value(before, code[pc].reads[1])
    BY <1>1, <1>2 DEF Shape
  <2>. QED
    BY <2>1, <1>0, SameRead
<1>5. Value(after', now[pc][1]) = Value(after, now[pc][1])
  <2>1. now[pc][1] # d /\ now[pc][1] \in Operands
    BY <1>0, SourceKept
  <2>2. now[pc][1].kind = "const" \/ now[pc][1] \in D
    BY <2>1 DEF Variables
  <2>. QED
    BY <2>1, <2>2, <1>3 DEF Value
<1>. QED
  BY <1>0, <1>3, <1>4, <1>5, HeldOn DEF Moves

LEMMA ComputeStep ==
  ASSUME Shape, Simple, Meaning, Compute
  PROVE  Alike' /\ VarHeld' /\ TempHeld'
<1>. DEFINE D == Variables \cup {RetValue}
            w == IF code[pc].op = "call" THEN RetValue ELSE code[pc].dist
<1>0. Runs /\ UnchangedCode /\ pc' = pc + 1 /\ code[pc].op \in {"mir3", "call"} /\ w \in D
  BY DEF Compute, Runs, Variables
<1>1. before' = [before EXCEPT ![w] = New(before, pc, w)]
      /\ after' = [after EXCEPT ![w] = New(before, pc, w)]
  BY DEF Compute
<1>2. \A v \in D : v # w => before'[v] = before[v] /\ after'[v] = after[v]
  BY <1>1 DEF Shape
<1>3. before'[w] = after'[w]
  BY <1>0, <1>1 DEF Shape
<1>. QED
  BY <1>0, <1>2, <1>3, HeldOn

LEMMA BranchStep ==
  ASSUME Shape, Simple, Meaning, Branch \/ Pass
  PROVE  Alike' /\ VarHeld' /\ TempHeld'
<1>1. /\ Runs /\ UnchangedCode /\ before' = before /\ after' = after
      /\ pc' = pc + 1 \/ \E l \in Jumps(code[pc]) : pc' = Target(l)
  BY DEF Branch, Pass
<1>2. code[pc].op \notin {"mir2", "mir3", "call"}
  BY DEF Branch, Pass, Jumps
<1>. QED
  BY <1>1, <1>2, HeldOn

-----------------------------------------------------------------------------
(* The theorems.                                                           *)

LEMMA FoldInit == Init => FoldInv
<1>. SUFFICES ASSUME Init  PROVE FoldInv
  OBVIOUS
<1>0. Len(code) \in Nat /\ Index = 1 .. Len(code) /\ code \in Methods
  BY Listed DEF Init
<1>1. Shape
  <2>1. \A j \in Index : code[j].reads = [n \in DOMAIN code[j].reads |-> code[j].reads[n]]
    BY <1>0, Listed
  <2>2. now = [j \in Index |-> [n \in DOMAIN code[j].reads |-> now[j][n]]]
    BY <2>1 DEF Init
  <2>. QED
    BY <1>0, <2>2 DEF Init, Shape
<1>2. Settled /\ Origin
  BY <1>0, Listed DEF Init, Settled, Origin, Moves
<1>3. Alike /\ VarHeld /\ TempHeld
  BY <1>0, Listed DEF Init, Alike, VarHeld, TempHeld, Moves
<1>. QED
  BY <1>1, <1>2, <1>3 DEF FoldInv, Meaning

LEMMA FoldNext == FoldInv /\ [Next]_vars => FoldInv'
<1>. SUFFICES ASSUME FoldInv, [Next]_vars  PROVE FoldInv'
  OBVIOUS
<1>0. code' = code /\ Simple' = Simple
  <2>1. code' = code
    BY DEF Next, vars, Visit, Run, Assign, Compute, Branch, Pass, UnchangedCode
  <2>. QED
    BY <2>1 DEF Simple, Variables, Operands, Writes, Reads, Calls, BlockAfter, Level, IsFlag,
       EnteredBy, Target, Index
<1>1. CASE Visit
  <2>1. Shape'
    BY <1>1, VisitShape DEF FoldInv
  <2>2. ASSUME Simple  PROVE Meaning'
    <3>1. Settled' /\ Origin'
      BY <1>1, <2>2, VisitStep DEF FoldInv, Meaning
    <3>2. Alike'
      BY <1>1, <2>2 DEF Visit, FoldInv, Meaning, Alike, Variables, Operands, Writes, Index
    <3>3. VarHeld' /\ TempHeld'
      <4>1. pc' = 0 /\ Moves' \subseteq Nat
        BY <1>1, <1>0, Listed DEF Visit, Moves, FoldInv, Shape, Index
      <4>. QED
        BY <4>1 DEF VarHeld, TempHeld
    <3>. QED
      BY <3>1, <3>2, <3>3 DEF Meaning
  <2>. QED
    BY <2>1, <2>2, <1>0 DEF FoldInv
<1>2. CASE Run
  <2>1. Shape'
    BY <1>2, RunShape DEF FoldInv
  <2>2. UnchangedCode
    BY <1>2 DEF Run, UnchangedCode
  <2>3. ASSUME Simple  PROVE Meaning'
    <3>1. Settled' /\ Origin'
      BY <2>2, <2>3, CodesStay DEF FoldInv, Meaning
    <3>2. Alike'
      BY <1>2, <2>2, <2>3, CodesStay DEF Run, FoldInv, Meaning, Alike
    <3>3. VarHeld' /\ TempHeld'
      <4>1. pc' = 1 /\ Moves' \subseteq Nat \ {0}
        BY <1>2, <1>0, Listed DEF Run, Moves, FoldInv, Shape, Index
      <4>2. \A i \in Moves' : \A e : pc' \notin i + 1 .. e
        BY <4>1
      <4>. QED
        BY <4>2 DEF VarHeld, TempHeld
    <3>. QED
      BY <3>1, <3>2, <3>3 DEF Meaning
  <2>. QED
    BY <2>1, <2>3, <1>0 DEF FoldInv
<1>3. CASE Assign \/ Compute \/ Branch \/ Pass
  <2>1. Shape' /\ UnchangedCode
    BY <1>3, RunShape DEF FoldInv, Assign, Compute, Branch, Pass
  <2>2. ASSUME Simple  PROVE Meaning'
    <3>1. Settled' /\ Origin'
      BY <2>1, <2>2, CodesStay DEF FoldInv, Meaning
    <3>. QED
      BY <1>3, <2>2, <3>1, AssignStep, ComputeStep, BranchStep DEF FoldInv, Meaning
  <2>. QED
    BY <2>1, <2>2, <1>0 DEF FoldInv
<1>4. CASE UNCHANGED vars
  <2>1. Shape' = Shape
    BY <1>4 DEF vars, Shape, Index, Variables, Operands
  <2>2. UnchangedCode /\ pc' = pc /\ before' = before /\ after' = after
    BY <1>4 DEF vars, UnchangedCode
  <2>3. Meaning' = Meaning
    BY <2>2, CodesStay DEF Meaning, Alike, VarHeld, TempHeld, Value, Rewritten, UnchangedCode
  <2>. QED
    BY <2>1, <2>3, <1>0 DEF FoldInv
<1>. QED
  BY <1>1, <1>2, <1>3, <1>4 DEF Next

\* An operand list has the length it had.
LEMMA SameLength ==
  ASSUME Shape, NEW j \in Index
  PROVE  Len(now[j]) = Len(code[j].reads)
<1>. DEFINE n == Len(code[j].reads)
            S == {now[j][m] : m \in 1 .. n}
<1>1. n \in Nat /\ DOMAIN code[j].reads = 1 .. n
  BY Listed DEF Shape
<1>2. now[j] \in [1 .. n -> S]
  BY <1>1 DEF Shape
<1>3. now[j] \in Seq(S)
  BY <1>1, <1>2, SeqDef
<1>. QED
  BY <1>1, <1>2, <1>3

(* Whatever the methods, optimize visits codes of the method only, keeps   *)
(* the number of operands of each, and the method runs on from code to     *)
(* code.                                                                   *)
THEOREM TypeCorrect == Spec => []TypeOK
<1>1. FoldInv => TypeOK
  BY SameLength DEF FoldInv, Shape, TypeOK
<1>. QED
  BY <1>1, FoldInit, FoldNext, PTL DEF Spec

(* However long a simple method is and however its ifs and loops nest, a   *)
(* code that optimize has left finds in its operands what it found in them *)
(* before.                                                                 *)
THEOREM MeaningKept == Spec => []SimpleMethodsKeepMeaning
<1>1. FoldInv => SimpleMethodsKeepMeaning
  <2>. SUFFICES ASSUME FoldInv, Simple  PROVE SameOperands
    BY DEF SimpleMethodsKeepMeaning
  <2>1. pc \in Index => DOMAIN now[pc] = DOMAIN code[pc].reads
    BY DEF FoldInv, Shape
  <2>. QED
    BY <2>1, SameRead DEF FoldInv, SameOperands, Runs
<1>. QED
  BY <1>1, FoldInit, FoldNext, PTL DEF Spec

=============================================================================

---------------------------- MODULE ImageProofs ----------------------------
(***************************************************************************)
(* Every branch of the finished text reaches its label or has become the   *)
(* word 0, for every program and every reach of the branches; and the      *)
(* addresses it computes are those of its data.                            *)
(*                                                                         *)
(* The argument for branches: until relocation the index recorded with a   *)
(* node, or with a label, is its true position (Placed); relocation        *)
(* computes with these indices alone, and a distance within reach survives *)
(* being cut to the immediate field (WrapSigned).                          *)
(*                                                                         *)
(* For addresses: each element's offset is the sum of the sizes before it  *)
(* (Offsets), so that copying the elements end to end puts them where they *)
(* are said to be (CopiedWhereSaid); an ADRP has the ADD it needs behind   *)
(* it (Reserved); and what relocation makes of the two, for data that is   *)
(* not in front of the text, is a page and a place in it that add up to    *)
(* the place of the data (PageAndPlace).                                   *)
(*                                                                         *)
(* Writing object files keeps to the rules of the instruction lists: every *)
(* run of a generator for a platform is a run of Reloc, so that what is    *)
(* proved of Reloc holds in every file.  The one thing to show is that     *)
(* generateElfArm64 hands relocation the distance from the text to the     *)
(* page behind it, although it computes it from the two places in the      *)
(* file: its headers fill exactly one page (EntryPage).                    *)
(*                                                                         *)
(* What is written is then the same file whatever came before (ElfFile,    *)
(* PeFile, MachFile): the recursive definition of what a list of calls     *)
(* writes has one solution (WrittenIs), and each of these is one.  That    *)
(* the headers are true, that a loader finds the text, and that the code   *)
(* finds its data are then facts about these three files.                  *)
(***************************************************************************)
EXTENDS Image, FiniteSets, FiniteSetTheorems, TLAPS

Phases == {"text", "data", "relocated", "done", "exit"}
Entry  == [label : Labels, index : Nat, at : Nat]

\* The branch at position i of a list of nodes goes to its label, or nowhere.
Lands(list, i) ==
  list[i].kind = "branch" =>
    \E k \in DOMAIN labelList :
      /\ IsFirst(labelList, k, list[i].label)
      /\ \/ /\ list[i].inst.op = list[i].op
            /\ i - 1 + Signed(list[i].inst.imm, 2 * Reach[list[i].op]) = labelList[k].at
         \/ /\ list[i].inst = Zero
            /\ labelList[k].at - (i - 1) \notin -Reach[list[i].op] .. Reach[list[i].op] - 1

Placed ==
  /\ instList \in Seq(NodeType) /\ instCount = Len(instList) /\ text = <<>>
  /\ \A i \in DOMAIN instList :
       /\ instList[i].index = i - 1
       /\ instList[i].kind = "branch" => instList[i].op \in Branches

RelocInv ==
  /\ phase \in Phases
  /\ labelList \in Seq(Entry)
  /\ \A k \in DOMAIN labelList : labelList[k].at = labelList[k].index
  /\ Emitting => Placed
  /\ phase = "relocated" => \A i \in DOMAIN instList : Lands(instList, i)
  /\ \A i \in DOMAIN text : Lands(text, i)

-----------------------------------------------------------------------------
(* Induction by counting, since the theorems of the library that state     *)
(* induction take an operator as a parameter, which the provers cannot     *)
(* instantiate.                                                            *)
(* What holds for 0 and, with a number, for the next, holds up to n: were  *)
(* b a number that is missing, taking 1 from the missing numbers up to b   *)
(* would map them to fewer, and yet to different ones.                     *)
LEMMA UpTo ==
  ASSUME NEW n \in Nat, NEW S, 0 \in S, \A i \in 0 .. n - 1 : i \in S => i + 1 \in S
  PROVE  0 .. n \subseteq S
<1>. SUFFICES ASSUME NEW b \in 0 .. n, b \notin S  PROVE FALSE
  OBVIOUS
<1>. DEFINE D == {i \in 0 .. b : i \notin S}
           f == [i \in D |-> i - 1]
<1>1. \A i \in D : i - 1 \in D \ {b}
  <2>. TAKE i \in D
  <2>1. i \in Nat /\ i # 0 /\ i <= b /\ i \notin S /\ b <= n
    OBVIOUS
  <2>2. i - 1 \in 0 .. n - 1 /\ (i - 1) + 1 = i
    BY <2>1
  <2>3. i - 1 \notin S
    BY <2>1, <2>2
  <2>. QED
    BY <2>1, <2>2, <2>3
<1>2. IsFiniteSet(D)
  <2>1. IsFiniteSet(0 .. b)
    BY FS_Interval
  <2>. QED
    BY <2>1, FS_Subset
<1>3. IsFiniteSet(D \ {b}) /\ Cardinality(D \ {b}) = Cardinality(D) - 1 /\ Cardinality(D) \in Nat
  <2>1. b \in D
    OBVIOUS
  <2>. QED
    BY <1>2, <2>1, FS_RemoveElement, FS_CardinalityType
<1>4. f \in [D -> D \ {b}]
  BY <1>1
<1>5. \A i, j \in D : i # j => f[i] # f[j]
  OBVIOUS
<1>. HIDE DEF D, f
<1>6. Cardinality(D \ {b}) < Cardinality(D)
  BY <1>3
<1>. QED
  BY <1>2, <1>3, <1>4, <1>5, <1>6, FS_PigeonHole

(* A number within reach is what its two's complement field says.          *)
LEMMA WrapSigned ==
  ASSUME NEW R \in Nat \ {0}, NEW n \in Int, -R <= n, n < R
  PROVE  Signed(Field(n, 2 * R), 2 * R) = n
<1>1. (2 * R) \div 2 = R
  OBVIOUS
<1>2. n % (2 * R) = IF n < 0 THEN n + 2 * R ELSE n
  <2>1. CASE n < 0
    BY <2>1
  <2>2. CASE n >= 0
    BY <2>2
  <2> QED BY <2>1, <2>2
<1> QED BY <1>1, <1>2 DEF Signed, Field

LEMMA Element ==
  ASSUME NEW S, NEW s \in Seq(S)
  PROVE  \A i \in DOMAIN s : s[i] \in S /\ i \in Nat
OBVIOUS

LEMMA AppendAll ==
  ASSUME NEW S, NEW s \in Seq(S), NEW e \in S
  PROVE  /\ Append(s, e) \in Seq(S) /\ Len(Append(s, e)) = Len(s) + 1 /\ Len(s) \in Nat
         /\ DOMAIN Append(s, e) = 1 .. Len(s) + 1 /\ DOMAIN s = 1 .. Len(s)
         /\ Append(s, e)[Len(s) + 1] = e
         /\ \A i \in DOMAIN s : Append(s, e)[i] = s[i]
OBVIOUS

(* The nodes of one emit call take the next positions.                     *)
LEMMA EmitKeepsPlaced ==
  ASSUME RelocInv, NEW nodes \in Seq(NodeType), EmitNodes(nodes),
         \A i \in DOMAIN nodes : /\ nodes[i].index = instCount + i - 1
                                 /\ nodes[i].kind = "branch" => nodes[i].op \in Branches
  PROVE  RelocInv'
<1>1. /\ Placed /\ Emitting /\ phase = "text"
      /\ instList' = instList \o nodes /\ instCount' = instCount + Len(nodes)
      /\ UNCHANGED <<phase, labelList, text>>
  BY DEF EmitNodes, RelocInv, Emitting
<1>2. /\ instList' \in Seq(NodeType) /\ Len(instList') = Len(instList) + Len(nodes)
      /\ Len(instList) \in Nat /\ Len(nodes) \in Nat
      /\ DOMAIN instList = 1 .. Len(instList) /\ DOMAIN nodes = 1 .. Len(nodes)
      /\ DOMAIN instList' = 1 .. Len(instList) + Len(nodes)
      /\ \A i \in DOMAIN instList : instList'[i] = instList[i]
      /\ \A i \in DOMAIN nodes : instList'[Len(instList) + i] = nodes[i]
  BY <1>1 DEF Placed
<1>3. ASSUME NEW i \in DOMAIN instList'
      PROVE  /\ instList'[i].index = i - 1
             /\ instList'[i].kind = "branch" => instList'[i].op \in Branches
  <2>1. CASE i \in DOMAIN instList
    BY <1>1, <1>2, <2>1 DEF Placed
  <2>2. CASE i \notin DOMAIN instList
    <3>1. PICK j \in DOMAIN nodes : i = Len(instList) + j
      <4>1. i - Len(instList) \in DOMAIN nodes /\ i = Len(instList) + (i - Len(instList))
        BY <1>2, <2>2
      <4> QED BY <4>1
    <3>2. instCount + j - 1 = i - 1
      BY <1>1, <1>2, <3>1 DEF Placed
    <3> QED BY <1>2, <3>1, <3>2
  <2> QED BY <2>1, <2>2
<1>4. Placed'
  BY <1>1, <1>2, <1>3 DEF Placed
<1> QED BY <1>1, <1>4 DEF RelocInv, Emitting, Lands, IsFirst, Placed

LEMMA LabelStep ==
  ASSUME RelocInv, NEW l \in Labels, EmitLabel(l)
  PROVE  RelocInv'
<1> DEFINE e == [label |-> l, index |-> instCount, at |-> Len(instList)]
<1>1. /\ Placed /\ phase = "text" /\ labelList \in Seq(Entry)
      /\ labelList' = Append(labelList, e)
      /\ UNCHANGED <<phase, instList, instCount, text>>
  BY DEF EmitLabel, RelocInv, Emitting
<1>2. e \in Entry /\ e.at = e.index
  BY <1>1 DEF Placed, Entry
<1> HIDE DEF e
<1>3. /\ labelList' \in Seq(Entry)
      /\ \A k \in DOMAIN labelList' : labelList'[k].at = labelList'[k].index
  BY <1>1, <1>2, AppendAll DEF RelocInv
<1> QED BY <1>1, <1>3 DEF RelocInv, Emitting, Placed

(* The emit calls.                                                         *)
LEMMA EmitStep ==
  ASSUME RelocInv,
         \/ EmitInst
         \/ \E op \in Branches, l \in Labels : EmitRelocateBranchInst(op, l)
         \/ \E l \in DataLabels : EmitRelocateDataInst(l)
  PROVE  RelocInv'
<1> USE DEF Branches
<1>1. CASE phase = "text"
  <2>1. instCount \in Nat
    BY <1>1 DEF RelocInv, Emitting, Placed
  <2>2. Plain \in Codes /\ Zero \in Codes
    BY DEF Plain, Zero, Code, Codes
  <2>3. CASE EmitInst
    <3> DEFINE n == Node(instCount, "plain", NoLabel, NoLabel, Plain)
    <3>1. n \in NodeType /\ n.index = instCount /\ n.kind = "plain"
      BY <2>1, <2>2 DEF Node, NodeType
    <3>2. EmitNodes(<<n>>)
      BY <2>3 DEF EmitInst
    <3> HIDE DEF n
    <3>3. <<n>> \in Seq(NodeType)
          /\ \A i \in DOMAIN <<n>> : i = 1 /\ <<n>>[i] = n
      BY <3>1
    <3>4. \A i \in DOMAIN <<n>> :
            /\ <<n>>[i].index = instCount + i - 1
            /\ <<n>>[i].kind = "branch" => <<n>>[i].op \in Branches
      BY <2>1, <3>1, <3>3
    <3> QED BY <3>2, <3>3, <3>4, EmitKeepsPlaced
  <2>4. ASSUME NEW op \in Branches, NEW l \in Labels, EmitRelocateBranchInst(op, l)
        PROVE  RelocInv'
    <3> DEFINE n == Node(instCount, "branch", l, op, Zero)
    <3>1. n \in NodeType /\ n.index = instCount /\ n.op \in Branches
      BY <2>1, <2>2 DEF Node, NodeType
    <3>2. EmitNodes(<<n>>)
      BY <2>4 DEF EmitRelocateBranchInst
    <3> HIDE DEF n
    <3>3. <<n>> \in Seq(NodeType)
          /\ \A i \in DOMAIN <<n>> : i = 1 /\ <<n>>[i] = n
      BY <3>1
    <3>4. \A i \in DOMAIN <<n>> :
            /\ <<n>>[i].index = instCount + i - 1
            /\ <<n>>[i].kind = "branch" => <<n>>[i].op \in Branches
      BY <2>1, <3>1, <3>3
    <3> QED BY <3>2, <3>3, <3>4, EmitKeepsPlaced
  <2>5. ASSUME NEW l \in DataLabels, EmitRelocateDataInst(l)
        PROVE  RelocInv'
    <3> DEFINE m == Node(instCount, "data", l, "INST_ADRP", Zero)
               n == Node(instCount + 1, "fix", NoLabel, NoLabel, Zero)
    <3>1. /\ m \in NodeType /\ m.index = instCount /\ m.kind = "data"
          /\ n \in NodeType /\ n.index = instCount + 1 /\ n.kind = "fix"
      BY <2>1, <2>2 DEF Node, NodeType
    <3>2. EmitNodes(<<m, n>>)
      BY <2>5 DEF EmitRelocateDataInst
    <3> HIDE DEF m, n
    <3>3. <<m, n>> \in Seq(NodeType)
          /\ \A i \in DOMAIN <<m, n>> : \/ i = 1 /\ <<m, n>>[i] = m
                                        \/ i = 2 /\ <<m, n>>[i] = n
      BY <3>1
    <3>4. \A i \in DOMAIN <<m, n>> :
            /\ <<m, n>>[i].index = instCount + i - 1
            /\ <<m, n>>[i].kind = "branch" => <<m, n>>[i].op \in Branches
      BY <2>1, <3>1, <3>3
    <3> QED BY <3>2, <3>3, <3>4, EmitKeepsPlaced
  <2> QED BY <2>3, <2>4, <2>5
<1>2. CASE phase # "text"
  BY <1>2 DEF EmitInst, EmitRelocateBranchInst, EmitRelocateDataInst, EmitNodes
<1> QED BY <1>1, <1>2

(* Relocation lands every branch.                                          *)
LEMMA RelocateLands ==
  ASSUME RelocInv, NEW start, RelocateBinary(start), Resolvable, NEW i \in DOMAIN instList
  PROVE  Lands(instList, i)'
<1>1. /\ Placed /\ labelList' = labelList /\ labelList \in Seq(Entry)
      /\ \A k \in DOMAIN labelList : labelList[k].at = labelList[k].index
      /\ instList' = [j \in DOMAIN instList |->
                        [instList[j] EXCEPT !.inst = Relocated(j, start),
                                            !.needRelocation = FALSE]]
  BY DEF RelocInv, RelocateBinary
<1> DEFINE node == instList[i]
<1>2. node \in NodeType /\ node.index = i - 1 /\ i \in Nat
  <2>1. instList \in Seq(NodeType) /\ node.index = i - 1
    BY <1>1 DEF Placed
  <2> QED BY <2>1, Element
<1>3. /\ instList'[i].kind = node.kind /\ instList'[i].label = node.label
      /\ instList'[i].op = node.op /\ instList'[i].inst = Relocated(i, start)
  BY <1>1, <1>2 DEF NodeType
<1>4. SUFFICES ASSUME node.kind = "branch"
               PROVE  \E k \in DOMAIN labelList :
                        /\ IsFirst(labelList, k, node.label)
                        /\ \/ /\ Relocated(i, start).op = node.op
                              /\ i - 1 + Signed(Relocated(i, start).imm, 2 * Reach[node.op])
                                   = labelList[k].at
                           \/ /\ Relocated(i, start) = Zero
                              /\ labelList[k].at - (i - 1)
                                   \notin -Reach[node.op] .. Reach[node.op] - 1
  BY <1>1, <1>3 DEF Lands
<1>5. node.op \in Branches /\ Reach[node.op] \in Nat \ {0}
  BY <1>1, <1>4, RelocAssumption DEF Placed
<1>6. PICK k \in DOMAIN labelList : IsFirst(labelList, k, node.label)
  BY <1>4 DEF Resolvable, Defined
<1>7. \A j \in DOMAIN labelList : IsFirst(labelList, j, node.label) => j = k
  <2>1. \A j \in DOMAIN labelList : j \in Nat
    BY <1>1, Element
  <2> QED BY <1>6, <2>1 DEF IsFirst
<1>8. GetLabelIndex(node.label) = labelList[k].at
  BY <1>1, <1>6, <1>7 DEF GetLabelIndex
<1>9. labelList[k].at \in Nat
  <2>1. labelList[k] \in Entry
    BY <1>1, Element
  <2> QED BY <2>1 DEF Entry
<1> DEFINE offset == labelList[k].at - (i - 1)
           R      == Reach[node.op]
<1>10. offset \in Int /\ Relocated(i, start) = RealBinaryOpBranch(node.op, offset)
  BY <1>2, <1>4, <1>8, <1>9 DEF Relocated
<1>11. CASE offset < -R \/ offset >= R
  <2>1. Relocated(i, start) = Zero
    BY <1>10, <1>11 DEF RealBinaryOpBranch
  <2>2. offset \notin -R .. R - 1
    BY <1>5, <1>10, <1>11
  <2> QED BY <1>6, <2>1, <2>2
<1>12. CASE ~(offset < -R \/ offset >= R)
  <2>1. Relocated(i, start) = Code(node.op, Field(offset, 2 * R))
    BY <1>10, <1>12 DEF RealBinaryOpBranch
  <2>2. Signed(Field(offset, 2 * R), 2 * R) = offset
    <3>1. -R <= offset /\ offset < R
      BY <1>5, <1>10, <1>12
    <3> QED BY <1>5, <1>10, <3>1, WrapSigned
  <2>3. i - 1 + offset = labelList[k].at
    BY <1>2, <1>9
  <2> QED BY <1>6, <2>1, <2>2, <2>3 DEF Code
<1> QED BY <1>11, <1>12

LEMMA RelocateStep ==
  ASSUME RelocInv, NEW start, RelocateBinary(start)
  PROVE  RelocInv'
<1>1. /\ Placed /\ UNCHANGED <<labelList, text>> /\ text = <<>>
      /\ phase' \in {"relocated", "exit"}
      /\ phase' = "relocated" => Resolvable
      /\ Resolvable => DOMAIN instList' = DOMAIN instList
  BY DEF RelocInv, RelocateBinary, Placed
<1>2. phase' = "relocated" => \A i \in DOMAIN instList' : Lands(instList, i)'
  BY <1>1, RelocateLands
<1>3. \A i \in DOMAIN text' : Lands(text, i)'
  BY <1>1
<1>4. phase' \in Phases /\ ~Emitting'
  BY <1>1 DEF Emitting, Phases
<1>5. /\ labelList' \in Seq(Entry)
      /\ \A k \in DOMAIN labelList' : labelList'[k].at = labelList'[k].index
  BY <1>1 DEF RelocInv
<1> QED BY <1>2, <1>3, <1>4, <1>5 DEF RelocInv

LEMMA RelocInit == Init => RelocInv
BY DEF Init, RelocInv, Phases, Placed, Emitting

LEMMA RelocNext == RelocInv /\ [Next]_vars => RelocInv'
<1> SUFFICES ASSUME RelocInv, [Next]_vars PROVE RelocInv'
  OBVIOUS
<1>1. ASSUME NEW l \in Labels, EmitLabel(l) PROVE RelocInv'
  BY <1>1, LabelStep
<1>2. ASSUME NEW l \in DataLabels, NEW size \in Sizes, BinaryData(l, size)
      PROVE  RelocInv'
  <2>1. /\ Emitting /\ phase' = "data" /\ Placed
        /\ UNCHANGED <<instList, instCount, labelList, text>>
    BY <1>2 DEF BinaryData, RelocInv
  <2> QED BY <2>1 DEF RelocInv, Emitting, Placed, Phases
<1>3. ASSUME NEW start, RelocateBinary(start) PROVE RelocInv'
  BY <1>3, RelocateStep
<1>4. CASE GetEmittedInstBuffer
  <2>1. /\ phase = "relocated" /\ text' = instList /\ instList' = <<>>
        /\ UNCHANGED <<phase, labelList>>
    BY <1>4 DEF GetEmittedInstBuffer
  <2>2. \A i \in DOMAIN text' : Lands(text, i)'
    BY <2>1 DEF RelocInv, Lands, IsFirst
  <2> QED BY <2>1, <2>2 DEF RelocInv, Emitting
<1>5. CASE GetEmittedDataBuffer
  <2>1. /\ phase = "relocated" /\ phase' \in {"done", "exit"}
        /\ UNCHANGED <<labelList, text>>
    BY <1>5 DEF GetEmittedDataBuffer
  <2> QED BY <2>1 DEF RelocInv, Emitting, Lands, IsFirst, Phases
<1>6. CASE UNCHANGED vars
  BY <1>6 DEF vars, RelocInv, Emitting, Placed, Lands, IsFirst
<1> QED BY <1>1, <1>2, <1>3, <1>4, <1>5, <1>6, EmitStep DEF Next

(* In every program, every branch of the finished text goes to the first   *)
(* label of its name, or is the word 0 because the label is out of reach:  *)
(* the indices emitInst and emitLabel count and realBinaryOpBranch's cut   *)
(* of the offset agree.                                                    *)
THEOREM BranchesSafe == Spec => []BranchesLand
<1>1. RelocInv => BranchesLand
  BY DEF RelocInv, BranchesLand, Lands, Target
<1> QED BY RelocInit, RelocNext, <1>1, PTL DEF Spec

-----------------------------------------------------------------------------
(* Addresses.                                                              *)

Datum == [label : DataLabels, offset : Nat, size : Sizes]

EndOf(k) == dataList[k].offset + dataList[k].size

Offsets ==
  /\ dataList \in Seq(Datum)
  /\ dataOffset = IF dataList = <<>> THEN 0 ELSE EndOf(Len(dataList))
  /\ \A k \in DOMAIN dataList : dataList[k].offset = IF k = 1 THEN 0 ELSE EndOf(k - 1)

Reserved ==
  \A i \in DOMAIN instList :
    instList[i].kind = "data" => i + 1 \in DOMAIN instList /\ instList[i + 1].kind = "fix"

\* The ADRP at position i of a list of nodes and the ADD behind it compute the address
\* of their data.
Addressed(list, i) ==
  list[i].kind = "data" /\ dataStart >= 4 * Len(list) =>
    /\ list[i].inst.op = "INST_ADRP" /\ list[i + 1].inst.op = "INST_ADD"
    /\ \E k \in DOMAIN dataList :
         /\ IsFirst(dataList, k, list[i].label)
         /\ (PageOf(4 * (i - 1)) + list[i].inst.imm) * Page + list[i + 1].inst.imm
              = dataStart + dataList[k].offset

AddressInv ==
  /\ RelocInv
  /\ Offsets
  /\ Emitting => Reserved
  /\ phase = "relocated" => \A i \in DOMAIN instList : Addressed(instList, i)
  /\ \A i \in DOMAIN text : Addressed(text, i)
  /\ phase = "done" => \A k \in DOMAIN dataList : starts[k] = dataList[k].offset

-----------------------------------------------------------------------------
(* Numbers.                                                                *)

\* A number is its page and its place in it.
LEMMA Paged ==
  ASSUME NEW n \in Nat
  PROVE  /\ PageOf(n) \in Int /\ n % Page \in 0 .. Page - 1
         /\ n = Page * PageOf(n) + (n % Page)
<1>1. Page \in Nat \ {0}
  BY RelocAssumption
<1>. QED
  BY <1>1 DEF PageOf

\* Of two numbers, the larger is on no page before the other.
LEMMA PagesInOrder ==
  ASSUME NEW a \in Nat, NEW d \in Nat, a <= d
  PROVE  PageOf(a) <= PageOf(d)
<1>1. Page \in Nat \ {0}
  BY RelocAssumption
<1>2. /\ PageOf(a) \in Int /\ a % Page \in 0 .. Page - 1 /\ a = Page * PageOf(a) + (a % Page)
      /\ PageOf(d) \in Int /\ d % Page \in 0 .. Page - 1 /\ d = Page * PageOf(d) + (d % Page)
  BY Paged
<1>. DEFINE p == PageOf(a)  q == PageOf(d)  r == a % Page  s == d % Page
<1>. HIDE DEF p, q, r, s
<1>3. /\ p \in Int /\ q \in Int /\ r \in 0 .. Page - 1 /\ s \in 0 .. Page - 1
      /\ a = Page * p + r /\ d = Page * q + s
  BY <1>2 DEF p, q, r, s
<1>4. ASSUME q < p  PROVE FALSE
  <2>1. PICK e \in Nat : p = q + 1 + e
    <3>1. p - q - 1 \in Nat /\ p = q + 1 + (p - q - 1)
      BY <1>3, <1>4
    <3>. QED
      BY <3>1
  <2>2. Page * p = Page * q + Page + Page * e /\ Page * e \in Nat /\ Page * q \in Int
    BY <1>1, <1>3, <2>1
  <2>. QED
    BY <1>1, <1>3, <2>2
<1>. QED
  BY <1>3, <1>4 DEF p, q

\* What relocateBinary makes of an ADRP and its ADD, for data at d behind the ADRP at a.
LEMMA PageAndPlace ==
  ASSUME NEW a \in Nat, NEW d \in Nat, a <= d
  PROVE  /\ RealBinaryOpAdr(PageOf(d) - PageOf(a)) = Code("INST_ADRP", PageOf(d) - PageOf(a))
         /\ (PageOf(a) + (PageOf(d) - PageOf(a))) * Page + (d % Page) = d
<1>1. /\ PageOf(a) \in Int /\ PageOf(d) \in Int /\ PageOf(a) <= PageOf(d) /\ Page \in Nat
      /\ d % Page \in 0 .. Page - 1 /\ d = Page * PageOf(d) + (d % Page)
  BY Paged, PagesInOrder, RelocAssumption
<1>2. ~ PageOf(d) - PageOf(a) < 0 /\ PageOf(a) + (PageOf(d) - PageOf(a)) = PageOf(d)
  BY <1>1
<1>. QED
  BY <1>1, <1>2 DEF RealBinaryOpAdr

-----------------------------------------------------------------------------
(* The steps.                                                              *)

\* The nodes of an emit call: an ADRP among them brings what follows it.
LEMMA EmitKeepsReserved ==
  ASSUME AddressInv, RelocInv', NEW nodes \in Seq(NodeType), EmitNodes(nodes),
         \A i \in DOMAIN nodes :
           nodes[i].kind = "data" => i + 1 \in DOMAIN nodes /\ nodes[i + 1].kind = "fix"
  PROVE  AddressInv'
<1>1. /\ Placed /\ Reserved /\ Emitting /\ phase = "text" /\ text = <<>>
      /\ instList' = instList \o nodes
      /\ UNCHANGED <<phase, dataList, dataOffset, dataStart, text, starts>>
  BY DEF EmitNodes, AddressInv, RelocInv, Emitting, Placed
<1>2. /\ Len(instList) \in Nat /\ Len(nodes) \in Nat
      /\ DOMAIN instList = 1 .. Len(instList) /\ DOMAIN nodes = 1 .. Len(nodes)
      /\ DOMAIN instList' = 1 .. Len(instList) + Len(nodes)
      /\ \A i \in DOMAIN instList : instList'[i] = instList[i]
      /\ \A i \in DOMAIN nodes : instList'[Len(instList) + i] = nodes[i]
  BY <1>1 DEF Placed
<1>3. ASSUME NEW i \in DOMAIN instList', instList'[i].kind = "data"
      PROVE  i + 1 \in DOMAIN instList' /\ instList'[i + 1].kind = "fix"
  <2>1. CASE i \in DOMAIN instList
    <3>1. i + 1 \in DOMAIN instList /\ instList[i + 1].kind = "fix"
      BY <1>1, <1>2, <1>3, <2>1 DEF Reserved
    <3>. QED
      BY <1>2, <3>1
  <2>2. CASE i \notin DOMAIN instList
    <3>1. PICK j \in DOMAIN nodes : i = Len(instList) + j
      <4>1. i - Len(instList) \in DOMAIN nodes /\ i = Len(instList) + (i - Len(instList))
        BY <1>2, <2>2
      <4>. QED
        BY <4>1
    <3>2. j + 1 \in DOMAIN nodes /\ nodes[j + 1].kind = "fix"
      BY <1>2, <1>3, <3>1
    <3>3. i + 1 = Len(instList) + (j + 1)
      BY <1>2, <3>1
    <3>. QED
      BY <1>2, <3>2, <3>3
  <2>. QED
    BY <2>1, <2>2
<1>4. Reserved'
  BY <1>3 DEF Reserved
<1>5. Offsets'
  BY <1>1 DEF AddressInv, Offsets, EndOf
<1>. QED
  BY <1>1, <1>4, <1>5 DEF AddressInv

\* The emit calls.
LEMMA EmitsReserved ==
  ASSUME AddressInv, RelocInv',
         \/ EmitInst
         \/ \E op \in Branches, l \in Labels : EmitRelocateBranchInst(op, l)
         \/ \E l \in DataLabels : EmitRelocateDataInst(l)
  PROVE  AddressInv'
<1>1. CASE phase = "text"
  <2>1. instCount \in Nat
    BY <1>1 DEF AddressInv, RelocInv, Emitting, Placed
  <2>2. Plain \in Codes /\ Zero \in Codes
    BY DEF Plain, Zero, Code, Codes
  <2>3. CASE EmitInst
    <3>. DEFINE n == Node(instCount, "plain", NoLabel, NoLabel, Plain)
    <3>1. n \in NodeType /\ n.kind = "plain" /\ EmitNodes(<<n>>)
      BY <2>1, <2>2, <2>3 DEF Node, NodeType, EmitInst
    <3>. HIDE DEF n
    <3>2. <<n>> \in Seq(NodeType) /\ \A i \in DOMAIN <<n>> : <<n>>[i].kind # "data"
      BY <3>1
    <3>. QED
      BY <3>1, <3>2, EmitKeepsReserved
  <2>4. ASSUME NEW op \in Branches, NEW l \in Labels, EmitRelocateBranchInst(op, l)
        PROVE  AddressInv'
    <3>. DEFINE n == Node(instCount, "branch", l, op, Zero)
    <3>1. n \in NodeType /\ n.kind = "branch" /\ EmitNodes(<<n>>)
      BY <2>1, <2>2, <2>4 DEF Node, NodeType, EmitRelocateBranchInst
    <3>. HIDE DEF n
    <3>2. <<n>> \in Seq(NodeType) /\ \A i \in DOMAIN <<n>> : <<n>>[i].kind # "data"
      BY <3>1
    <3>. QED
      BY <3>1, <3>2, EmitKeepsReserved
  <2>5. ASSUME NEW l \in DataLabels, EmitRelocateDataInst(l)
        PROVE  AddressInv'
    <3>. DEFINE m == Node(instCount, "data", l, "INST_ADRP", Zero)
               n == Node(instCount + 1, "fix", NoLabel, NoLabel, Zero)
    <3>1. /\ m \in NodeType /\ n \in NodeType /\ n.kind = "fix"
          /\ EmitNodes(<<m, n>>)
      BY <2>1, <2>2, <2>5 DEF Node, NodeType, EmitRelocateDataInst
    <3>. HIDE DEF m, n
    <3>2. /\ <<m, n>> \in Seq(NodeType)
          /\ \A i \in DOMAIN <<m, n>> :
               <<m, n>>[i].kind = "data" => i + 1 \in DOMAIN <<m, n>> /\ <<m, n>>[i + 1].kind = "fix"
      BY <3>1
    <3>. QED
      BY <3>1, <3>2, EmitKeepsReserved
  <2>. QED
    BY <2>3, <2>4, <2>5
<1>2. CASE phase # "text"
  BY <1>2 DEF EmitInst, EmitRelocateBranchInst, EmitRelocateDataInst, EmitNodes
<1>. QED
  BY <1>1, <1>2

LEMMA DataStep ==
  ASSUME AddressInv, RelocInv', NEW l \in DataLabels, NEW size \in Sizes, BinaryData(l, size)
  PROVE  AddressInv'
<1>. DEFINE e == [label |-> l, offset |-> dataOffset, size |-> size]
<1>1. /\ Emitting /\ phase' = "data" /\ Placed /\ Reserved /\ text = <<>>
      /\ dataList' = Append(dataList, e) /\ dataOffset' = dataOffset + size
      /\ UNCHANGED <<instList, text>>
      /\ dataList \in Seq(Datum) /\ Offsets
  BY DEF BinaryData, AddressInv, RelocInv, Placed, Offsets
<1>2. dataOffset \in Nat
  <2>1. CASE dataList = <<>>
    BY <1>1, <2>1 DEF Offsets
  <2>2. CASE dataList # <<>>
    <3>1. dataList[Len(dataList)] \in Datum
      <4>1. Len(dataList) \in DOMAIN dataList
        BY <1>1, <2>2
      <4>. QED
        BY <1>1, <4>1, Element
    <3>2. dataList[Len(dataList)].offset \in Nat /\ dataList[Len(dataList)].size \in Nat
      BY <3>1, RelocAssumption DEF Datum
    <3>3. dataOffset = dataList[Len(dataList)].offset + dataList[Len(dataList)].size
      BY <1>1, <2>2 DEF Offsets, EndOf
    <3>. QED
      BY <3>2, <3>3
  <2>. QED
    BY <2>1, <2>2
<1>3. e \in Datum /\ e.offset = dataOffset /\ e.size = size
  BY <1>2 DEF Datum
<1>. HIDE DEF e
<1>4. /\ dataList' \in Seq(Datum) /\ Len(dataList') = Len(dataList) + 1 /\ Len(dataList) \in Nat
      /\ DOMAIN dataList' = 1 .. Len(dataList) + 1 /\ DOMAIN dataList = 1 .. Len(dataList)
      /\ dataList'[Len(dataList) + 1] = e
      /\ \A k \in DOMAIN dataList : dataList'[k] = dataList[k]
  BY <1>1, <1>3, AppendAll
<1>5. ASSUME NEW k \in DOMAIN dataList'
      PROVE  dataList'[k].offset = IF k = 1 THEN 0 ELSE EndOf(k - 1)'
  <2>1. CASE k \in DOMAIN dataList
    <3>1. k # 1 => k - 1 \in DOMAIN dataList
      BY <1>4, <2>1
    <3>. QED
      BY <1>1, <1>4, <2>1, <3>1 DEF Offsets, EndOf
  <2>2. CASE k \notin DOMAIN dataList
    <3>1. k = Len(dataList) + 1 /\ k - 1 = Len(dataList)
      BY <1>4, <2>2
    <3>2. dataList'[k].offset = dataOffset
      BY <1>3, <1>4, <3>1
    <3>3. CASE dataList = <<>>
      BY <1>1, <3>1, <3>2, <3>3 DEF Offsets
    <3>4. CASE dataList # <<>>
      <4>1. Len(dataList) \in DOMAIN dataList /\ k # 1
        BY <1>4, <3>1, <3>4
      <4>. QED
        BY <1>1, <1>4, <3>1, <3>2, <3>4, <4>1 DEF Offsets, EndOf
    <3>. QED
      BY <3>3, <3>4
  <2>. QED
    BY <2>1, <2>2
<1>6. Offsets'
  <2>1. dataList' # <<>> /\ dataOffset' = EndOf(Len(dataList))'
    BY <1>1, <1>3, <1>4 DEF EndOf
  <2>. QED
    BY <1>4, <1>5, <2>1 DEF Offsets
<1>. QED
  BY <1>1, <1>6 DEF AddressInv, Emitting, Reserved

LEMMA SameLength ==
  ASSUME NEW S, NEW s \in Seq(S), NEW T, NEW t \in [DOMAIN s -> T]
  PROVE  Len(t) = Len(s)
OBVIOUS

\* Relocation makes an address of every ADRP and the ADD behind it.
LEMMA RelocateAddresses ==
  ASSUME AddressInv, NEW start \in Int, RelocateBinary(start), Resolvable,
         NEW i \in DOMAIN instList
  PROVE  Addressed(instList, i)'
<1>1. /\ Placed /\ Reserved /\ dataList' = dataList /\ dataList \in Seq(Datum) /\ dataStart' = start
      /\ instList' = [j \in DOMAIN instList |->
                        [instList[j] EXCEPT !.inst = Relocated(j, start),
                                            !.needRelocation = FALSE]]
      /\ instList \in Seq(NodeType)
  BY DEF AddressInv, RelocInv, RelocateBinary, Placed, Offsets
<1>. DEFINE node == instList[i]
<1>2. \A j \in DOMAIN instList :
        /\ instList[j] \in NodeType /\ instList[j].index = j - 1 /\ j \in Nat
        /\ instList'[j].kind = instList[j].kind /\ instList'[j].label = instList[j].label
        /\ instList'[j].inst = Relocated(j, start)
  <2>. TAKE j \in DOMAIN instList
  <2>1. instList[j] \in NodeType /\ instList[j].index = j - 1 /\ j \in Nat
    BY <1>1, Element DEF Placed
  <2>2. instList'[j] = [instList[j] EXCEPT !.inst = Relocated(j, start), !.needRelocation = FALSE]
    BY <1>1
  <2>. QED
    BY <2>1, <2>2 DEF NodeType
<1>3. Len(instList') = Len(instList) /\ DOMAIN instList = 1 .. Len(instList) /\ Len(instList) \in Nat
  <2>1. instList \in Seq(NodeType)
    BY <1>1
  <2>2. DOMAIN instList = 1 .. Len(instList) /\ Len(instList) \in Nat
    BY <2>1
  <2>3. instList' \in [DOMAIN instList -> {instList'[j] : j \in DOMAIN instList}]
    BY <1>1
  <2>. QED
    BY <2>1, <2>2, <2>3, SameLength
<1>4. SUFFICES ASSUME node.kind = "data", start >= 4 * Len(instList)
               PROVE  /\ Relocated(i, start).op = "INST_ADRP" /\ Relocated(i + 1, start).op = "INST_ADD"
                      /\ \E k \in DOMAIN dataList :
                           /\ IsFirst(dataList, k, node.label)
                           /\ (PageOf(4 * (i - 1)) + Relocated(i, start).imm) * Page
                                + Relocated(i + 1, start).imm = start + dataList[k].offset
  <2>1. node.kind = "data" => i + 1 \in DOMAIN instList
    BY <1>1 DEF Reserved
  <2>. QED
    BY <1>1, <1>2, <1>3, <1>4, <2>1 DEF Addressed
<1>5. i + 1 \in DOMAIN instList /\ instList[i + 1].kind = "fix" /\ (i + 1) - 1 = i
  <2>1. Reserved /\ i \in Nat
    BY <1>1, <1>2
  <2>. QED
    BY <1>4, <2>1 DEF Reserved
<1>6. PICK k \in DOMAIN dataList : IsFirst(dataList, k, node.label)
  BY <1>4 DEF Resolvable, Defined
<1>7. \A j \in DOMAIN dataList : IsFirst(dataList, j, node.label) => j = k
  <2>1. \A j \in DOMAIN dataList : j \in Nat
    BY <1>1, Element
  <2>. QED
    BY <1>6, <2>1 DEF IsFirst
<1>8. GetDataOffset(node.label) = dataList[k].offset
  BY <1>6, <1>7 DEF GetDataOffset
<1>9. dataList[k].offset \in Nat
  <2>1. dataList[k] \in Datum
    BY <1>1, Element
  <2>. QED
    BY <2>1 DEF Datum
<1>. DEFINE a == 4 * (i - 1)  d == start + dataList[k].offset
<1>10. a \in Nat /\ d \in Nat /\ a <= d
  BY <1>3, <1>4, <1>9
<1>11. Relocated(i, start) = RealBinaryOpAdr(PageOf(d) - PageOf(a))
  <2>1. node.index = i - 1
    BY <1>2
  <2>2. Relocated(i, start) = AdrpOf(node, start)
    BY <1>4 DEF Relocated
  <2>. QED
    BY <1>8, <2>1, <2>2 DEF AdrpOf
<1>12. Relocated(i + 1, start) = Code("INST_ADD", d % Page)
  <2>1. Relocated(i + 1, start) = AddOf(node, start)
    BY <1>5 DEF Relocated
  <2>. QED
    BY <1>8, <2>1 DEF AddOf
<1>13. /\ Relocated(i, start) = Code("INST_ADRP", PageOf(d) - PageOf(a))
       /\ (PageOf(a) + (PageOf(d) - PageOf(a))) * Page + (d % Page) = d
  <2>. HIDE DEF a, d
  <2>. QED
    BY <1>10, <1>11, PageAndPlace
<1>. QED
  BY <1>6, <1>12, <1>13 DEF Code

LEMMA RelocateStepAddresses ==
  ASSUME AddressInv, RelocInv', NEW start \in Int, RelocateBinary(start)
  PROVE  AddressInv'
<1>1. /\ Placed /\ text = <<>> /\ UNCHANGED <<dataList, dataOffset, text, starts>>
      /\ phase' \in {"relocated", "exit"}
      /\ phase' = "relocated" => Resolvable /\ DOMAIN instList' = DOMAIN instList
  BY DEF AddressInv, RelocInv, RelocateBinary, Placed
<1>2. phase' = "relocated" => \A i \in DOMAIN instList' : Addressed(instList, i)'
  BY <1>1, RelocateAddresses
<1>3. Offsets'
  BY <1>1 DEF AddressInv, Offsets, EndOf
<1>. QED
  BY <1>1, <1>2, <1>3 DEF AddressInv, Emitting

\* Copied end to end, the elements lie where their offsets say.
LEMMA CopiedWhereSaid ==
  ASSUME Offsets, NEW end,
         end = [i \in 0 .. Len(dataList) |->
                  IF i = 0 THEN 0 ELSE end[i - 1] + dataList[i].size]
  PROVE  \A k \in DOMAIN dataList : end[k - 1] = dataList[k].offset
<1>1. Len(dataList) \in Nat /\ DOMAIN dataList = 1 .. Len(dataList)
  BY DEF Offsets
<1>. DEFINE n == Len(dataList)
           S == {i \in 0 .. n : end[i] = IF i = 0 THEN 0 ELSE EndOf(i)}
<1>2. 0 \in S
  BY <1>1
<1>3. ASSUME NEW i \in 0 .. n - 1, i \in S  PROVE i + 1 \in S
  <2>1. i + 1 \in 0 .. n /\ i + 1 # 0 /\ (i + 1) - 1 = i /\ i + 1 \in DOMAIN dataList
    BY <1>1
  <2>2. end[i + 1] = end[i] + dataList[i + 1].size
    BY <2>1
  <2>3. end[i] = dataList[i + 1].offset
    BY <1>1, <1>3, <2>1 DEF Offsets
  <2>. QED
    BY <2>1, <2>2, <2>3 DEF EndOf
<1>4. 0 .. n \subseteq S
  <2>. HIDE DEF S
  <2>. QED
    BY <1>1, <1>2, <1>3, UpTo
<1>. TAKE k \in DOMAIN dataList
<1>5. k - 1 \in 0 .. n /\ (k = 1 <=> k - 1 = 0)
  BY <1>1
<1>6. end[k - 1] = IF k - 1 = 0 THEN 0 ELSE EndOf(k - 1)
  BY <1>4, <1>5
<1>. QED
  BY <1>5, <1>6 DEF Offsets

\* The recursive definition by which the elements are copied has a solution, so it is one.
LEMMA DataCopied ==
  ASSUME Offsets, GetEmittedDataBuffer
  PROVE  /\ starts' \in [DOMAIN dataList -> Nat]
         /\ \A k \in DOMAIN dataList : starts'[k] = dataList[k].offset
<1>. DEFINE F(f) == [i \in 0 .. Len(dataList) |->
                       IF i = 0 THEN 0 ELSE f[i - 1] + dataList[i].size]
           end == CHOOSE f : f = F(f)
           g == [i \in 0 .. Len(dataList) |-> IF i = 0 THEN 0 ELSE EndOf(i)]
<1>1. starts' = [i \in DOMAIN dataList |-> end[i - 1]]
  BY DEF GetEmittedDataBuffer
<1>2. dataList \in Seq(Datum) /\ Len(dataList) \in Nat /\ DOMAIN dataList = 1 .. Len(dataList)
  BY DEF Offsets
<1>3. g = F(g)
  <2>1. ASSUME NEW i \in 0 .. Len(dataList), i # 0
        PROVE  EndOf(i) = g[i - 1] + dataList[i].size
    <3>1. i \in DOMAIN dataList /\ i - 1 \in 0 .. Len(dataList) /\ (i = 1 <=> i - 1 = 0)
      BY <1>2, <2>1
    <3>2. g[i - 1] = IF i - 1 = 0 THEN 0 ELSE EndOf(i - 1)
      BY <3>1
    <3>3. dataList[i].offset = g[i - 1]
      BY <1>2, <3>1, <3>2 DEF Offsets
    <3>. QED
      BY <3>3 DEF EndOf
  <2>. QED
    BY <2>1
<1>4. end = F(end)
  <2>. HIDE DEF g
  <2>. QED
    BY <1>3
<1>5. \A k \in DOMAIN dataList : end[k - 1] = dataList[k].offset
  <2>. HIDE DEF end
  <2>. QED
    BY <1>2, <1>4, CopiedWhereSaid
<1>. HIDE DEF end
<1>6. \A k \in DOMAIN dataList : dataList[k].offset \in Nat
  <2>. TAKE k \in DOMAIN dataList
  <2>1. dataList[k] \in Datum
    BY <1>2, Element
  <2>. QED
    BY <2>1 DEF Datum
<1>. QED
  BY <1>1, <1>5, <1>6

LEMMA BuffersStep ==
  ASSUME AddressInv, RelocInv', GetEmittedDataBuffer
  PROVE  AddressInv'
<1>1. /\ phase = "relocated" /\ phase' \in {"done", "exit"}
      /\ UNCHANGED <<instList, dataList, dataOffset, dataStart, text>>
  BY DEF GetEmittedDataBuffer
<1>2. \A k \in DOMAIN dataList' : starts'[k] = dataList'[k].offset
  BY <1>1, DataCopied DEF AddressInv
<1>3. Offsets' /\ \A i \in DOMAIN text' : Addressed(text, i)'
  BY <1>1 DEF AddressInv, Offsets, EndOf, Addressed, IsFirst
<1>. QED
  BY <1>1, <1>2, <1>3 DEF AddressInv, Emitting

LEMMA AddressInit == Init => AddressInv
BY RelocInit DEF Init, AddressInv, Offsets, Reserved

LEMMA AddressNext == AddressInv /\ [Next]_vars => AddressInv'
<1>. SUFFICES ASSUME AddressInv, [Next]_vars  PROVE AddressInv'
  OBVIOUS
<1>1. RelocInv'
  BY RelocNext DEF AddressInv
<1>2. ASSUME NEW l \in Labels, EmitLabel(l)  PROVE AddressInv'
  <2>1. /\ Placed /\ text = <<>>
        /\ UNCHANGED <<phase, instList, dataList, dataOffset, dataStart, text, starts>>
    BY <1>2 DEF EmitLabel, AddressInv, RelocInv, Emitting, Placed
  <2>2. phase = "text" /\ Emitting /\ Emitting'
    BY <1>2, <2>1 DEF EmitLabel, Emitting
  <2>3. Offsets' /\ Reserved'
    BY <2>1, <2>2 DEF AddressInv, Offsets, EndOf, Reserved
  <2>. QED
    BY <1>1, <2>1, <2>2, <2>3 DEF AddressInv
<1>3. ASSUME NEW l \in DataLabels, NEW size \in Sizes, BinaryData(l, size)
      PROVE  AddressInv'
  BY <1>1, <1>3, DataStep
<1>4. ASSUME NEW start \in {AlignTo(4 * instCount, Page), 0}, RelocateBinary(start)
      PROVE  AddressInv'
  <2>1. instCount \in Nat
    <3>1. Emitting /\ Placed
      BY <1>4 DEF RelocateBinary, AddressInv, RelocInv
    <3>. QED
      BY <3>1 DEF Placed
  <2>2. start \in Int
    <3>. DEFINE n == 4 * instCount
    <3>1. n \in Nat /\ start \in {AlignTo(n, Page), 0} /\ Page \in Nat \ {0}
      BY <2>1, RelocAssumption DEF RelocAssumption
    <3>. HIDE DEF n
    <3>2. n % Page \in Int
      BY <3>1
    <3>. QED
      BY <3>1, <3>2 DEF AlignTo
  <2>. QED
    BY <1>1, <1>4, <2>2, RelocateStepAddresses
<1>5. CASE GetEmittedInstBuffer
  <2>1. /\ phase = "relocated" /\ phase' = phase /\ text' = instList
        /\ instList' = <<>>
        /\ UNCHANGED <<dataList, dataOffset, dataStart, starts>>
    BY <1>5 DEF GetEmittedInstBuffer
  <2>2. \A i \in DOMAIN text' : Addressed(text, i)'
    BY <2>1 DEF AddressInv, Addressed, IsFirst
  <2>3. Offsets'
    BY <2>1 DEF AddressInv, Offsets, EndOf
  <2>. QED
    BY <1>1, <2>1, <2>2, <2>3 DEF AddressInv, Emitting
<1>6. CASE GetEmittedDataBuffer
  BY <1>1, <1>6, BuffersStep
<1>7. CASE UNCHANGED vars
  BY <1>1, <1>7 DEF vars, AddressInv, Offsets, EndOf, Reserved, Emitting, Addressed, IsFirst
<1>. QED
  BY <1>1, <1>2, <1>3, <1>4, <1>5, <1>6, <1>7, EmitsReserved DEF Next

\* In every program whose data does not lie in front of its text, every ADRP is followed by
\* its ADD, and the two compute where the data of the label is copied to: whatever the
\* page, the sizes of the elements, and the programs (emitRelocateDataInst, binaryData,
\* relocateBinary and getEmittedDataBuffer agree).
THEOREM AddressesSafe == Spec => []AddressesLand
<1>1. AddressInv => AddressesLand
  BY DEF AddressInv, AddressesLand, Addressed, Address
<1>. QED
  BY AddressInit, AddressNext, <1>1, PTL DEF Spec

-----------------------------------------------------------------------------
(* Types.                                                                  *)

\* The place of an ADD is behind its ADRP, whose label it computes with.
Led ==
  \A i \in DOMAIN instList :
    instList[i].kind = "fix" => i - 1 \in DOMAIN instList /\ instList[i - 1].kind = "data"

\* The buffer of the text is filled at most once, when the list is emptied.
TypeInv ==
  /\ TypeOK
  /\ AddressInv
  /\ instCount = Len(instList)
  /\ Emitting => Led
  /\ phase = "relocated" /\ instList # <<>> => text = <<>>

\* The nodes of an emit call: an ADD among them brings what is in front of it.
LEMMA EmitKeepsTypes ==
  ASSUME TypeInv, NEW nodes \in Seq(NodeType), EmitNodes(nodes),
         \A i \in DOMAIN nodes :
           nodes[i].kind = "fix" => i - 1 \in DOMAIN nodes /\ nodes[i - 1].kind = "data"
  PROVE  TypeOK' /\ instCount' = Len(instList') /\ Led' /\ phase' = "text"
<1>1. /\ Led /\ phase = "text" /\ instList \in Seq(NodeType)
      /\ instList' = instList \o nodes /\ instCount' = instCount + Len(nodes)
      /\ instCount = Len(instList)
      /\ UNCHANGED <<phase, labelList, dataList, dataOffset, dataStart, text, starts>>
  BY DEF EmitNodes, TypeInv, Emitting, TypeOK
<1>2. /\ Len(instList) \in Nat /\ Len(nodes) \in Nat /\ Len(instList') = Len(instList) + Len(nodes)
      /\ DOMAIN instList = 1 .. Len(instList) /\ DOMAIN nodes = 1 .. Len(nodes)
      /\ DOMAIN instList' = 1 .. Len(instList) + Len(nodes) /\ instList' \in Seq(NodeType)
      /\ \A i \in DOMAIN instList : instList'[i] = instList[i]
      /\ \A i \in DOMAIN nodes : instList'[Len(instList) + i] = nodes[i]
  BY <1>1
<1>3. ASSUME NEW i \in DOMAIN instList', instList'[i].kind = "fix"
      PROVE  i - 1 \in DOMAIN instList' /\ instList'[i - 1].kind = "data"
  <2>1. CASE i \in DOMAIN instList
    <3>1. i - 1 \in DOMAIN instList /\ instList[i - 1].kind = "data"
      BY <1>1, <1>2, <1>3, <2>1 DEF Led
    <3>. QED
      BY <1>2, <3>1
  <2>2. CASE i \notin DOMAIN instList
    <3>1. PICK j \in DOMAIN nodes : i = Len(instList) + j
      <4>1. i - Len(instList) \in DOMAIN nodes /\ i = Len(instList) + (i - Len(instList))
        BY <1>2, <2>2
      <4>. QED
        BY <4>1
    <3>2. j - 1 \in DOMAIN nodes /\ nodes[j - 1].kind = "data"
      BY <1>2, <1>3, <3>1
    <3>3. i - 1 = Len(instList) + (j - 1)
      BY <1>2, <3>1
    <3>. QED
      BY <1>2, <3>2, <3>3
  <2>. QED
    BY <2>1, <2>2
<1>4. Led'
  BY <1>3 DEF Led
<1>5. TypeOK'
  BY <1>1, <1>2 DEF TypeInv, TypeOK
<1>. QED
  BY <1>1, <1>2, <1>4, <1>5

\* The emit calls.
LEMMA EmitsTyped ==
  ASSUME TypeInv,
         \/ EmitInst
         \/ \E op \in Branches, l \in Labels : EmitRelocateBranchInst(op, l)
         \/ \E l \in DataLabels : EmitRelocateDataInst(l)
  PROVE  TypeOK' /\ instCount' = Len(instList') /\ Led' /\ phase' = "text"
<1>1. instCount \in Nat /\ Plain \in Codes /\ Zero \in Codes
  BY DEF TypeInv, TypeOK, Plain, Zero, Code, Codes
<1>2. CASE EmitInst
  <2>. DEFINE n == Node(instCount, "plain", NoLabel, NoLabel, Plain)
  <2>1. n \in NodeType /\ n.kind = "plain" /\ EmitNodes(<<n>>)
    BY <1>1, <1>2 DEF Node, NodeType, EmitInst
  <2>. HIDE DEF n
  <2>2. <<n>> \in Seq(NodeType) /\ \A i \in DOMAIN <<n>> : <<n>>[i].kind # "fix"
    BY <2>1
  <2>. QED
    BY <2>1, <2>2, EmitKeepsTypes
<1>3. ASSUME NEW op \in Branches, NEW l \in Labels, EmitRelocateBranchInst(op, l)
      PROVE  TypeOK' /\ instCount' = Len(instList') /\ Led' /\ phase' = "text"
  <2>. DEFINE n == Node(instCount, "branch", l, op, Zero)
  <2>1. n \in NodeType /\ n.kind = "branch" /\ EmitNodes(<<n>>)
    BY <1>1, <1>3 DEF Node, NodeType, EmitRelocateBranchInst
  <2>. HIDE DEF n
  <2>2. <<n>> \in Seq(NodeType) /\ \A i \in DOMAIN <<n>> : <<n>>[i].kind # "fix"
    BY <2>1
  <2>. QED
    BY <2>1, <2>2, EmitKeepsTypes
<1>4. ASSUME NEW l \in DataLabels, EmitRelocateDataInst(l)
      PROVE  TypeOK' /\ instCount' = Len(instList') /\ Led' /\ phase' = "text"
  <2>. DEFINE m == Node(instCount, "data", l, "INST_ADRP", Zero)
             n == Node(instCount + 1, "fix", NoLabel, NoLabel, Zero)
  <2>1. /\ m \in NodeType /\ n \in NodeType /\ m.kind = "data"
        /\ EmitNodes(<<m, n>>)
    BY <1>1, <1>4 DEF Node, NodeType, EmitRelocateDataInst
  <2>. HIDE DEF m, n
  <2>2. /\ <<m, n>> \in Seq(NodeType)
        /\ \A i \in DOMAIN <<m, n>> :
             <<m, n>>[i].kind = "fix" => i - 1 \in DOMAIN <<m, n>> /\ <<m, n>>[i - 1].kind = "data"
    BY <2>1
  <2>. QED
    BY <2>1, <2>2, EmitKeepsTypes
<1>. QED
  BY <1>2, <1>3, <1>4

\* What relocation makes of a node is an instruction.
LEMMA RelocatedTyped ==
  ASSUME TypeInv, Emitting, Resolvable, NEW start \in Nat, NEW i \in DOMAIN instList
  PROVE  Relocated(i, start) \in Codes
<1>. DEFINE node == instList[i]
<1>1. /\ instList \in Seq(NodeType) /\ labelList \in Seq(Entry) /\ dataList \in Seq(Datum)
      /\ Led /\ Placed
  BY DEF TypeInv, TypeOK, AddressInv, RelocInv, Entry, Datum
<1>2. node \in NodeType /\ i \in Nat /\ node.index \in Nat
  <2>1. node \in NodeType /\ i \in Nat
    BY <1>1, Element
  <2>. QED
    BY <2>1 DEF NodeType
<1>3. ASSUME NEW l, Defined(dataList, l)  PROVE start + GetDataOffset(l) \in Nat
  <2>1. PICK k \in DOMAIN dataList : k = CHOOSE j \in DOMAIN dataList : IsFirst(dataList, j, l)
    BY <1>3 DEF Defined, IsFirst
  <2>2. dataList[k] \in Datum
    BY <1>1, Element
  <2>3. dataList[k].offset \in Nat
    BY <2>2 DEF Datum
  <2>. QED
    BY <2>1, <2>3 DEF GetDataOffset
<1>4. CASE node.kind = "branch"
  <2>. DEFINE target == GetLabelIndex(node.label)
  <2>1. PICK k \in DOMAIN labelList :
          k = CHOOSE j \in DOMAIN labelList : IsFirst(labelList, j, node.label)
    BY <1>4 DEF Resolvable, Defined, IsFirst
  <2>2. labelList[k] \in Entry
    BY <1>1, Element
  <2>3. target \in Nat
    BY <2>1, <2>2 DEF GetLabelIndex, Entry
  <2>4. node.op \in Branches /\ Reach[node.op] \in Nat \ {0}
    BY <1>1, <1>4, RelocAssumption DEF Placed
  <2>5. Relocated(i, start) = RealBinaryOpBranch(node.op, target - node.index)
    BY <1>4 DEF Relocated
  <2>. HIDE DEF target
  <2>6. (target - node.index) % (2 * Reach[node.op]) \in Nat
    BY <1>2, <2>3, <2>4
  <2>. QED
    BY <2>4, <2>5, <2>6 DEF RealBinaryOpBranch, Codes, Code, Zero, Field
<1>5. CASE node.kind = "data"
  <2>1. start + GetDataOffset(node.label) \in Nat
    BY <1>3, <1>5 DEF Resolvable
  <2>. DEFINE d == start + GetDataOffset(node.label)  a == 4 * node.index
  <2>2. Relocated(i, start) = RealBinaryOpAdr(PageOf(d) - PageOf(a))
    BY <1>5 DEF Relocated, AdrpOf
  <2>3. d \in Nat /\ a \in Nat
    BY <1>2, <2>1
  <2>. HIDE DEF d, a
  <2>4. PageOf(d) \in Int /\ PageOf(a) \in Int
    BY <2>3, Paged
  <2>. QED
    BY <2>2, <2>4 DEF RealBinaryOpAdr, Corrupt, Code, Codes
<1>6. CASE node.kind = "fix"
  <2>. DEFINE d == start + GetDataOffset(instList[i - 1].label)
  <2>1. i - 1 \in DOMAIN instList /\ instList[i - 1].kind = "data"
    BY <1>1, <1>6 DEF Led
  <2>2. d \in Nat
    BY <1>3, <2>1 DEF Resolvable
  <2>3. Relocated(i, start) = Code("INST_ADD", d % Page)
    BY <1>6 DEF Relocated, AddOf
  <2>. HIDE DEF d
  <2>4. d % Page \in Nat
    BY <2>2, RelocAssumption
  <2>. QED
    BY <2>3, <2>4 DEF Code, Codes
<1>7. CASE node.kind = "plain"
  BY <1>2, <1>7 DEF Relocated, NodeType
<1>. QED
  BY <1>2, <1>4, <1>5, <1>6, <1>7 DEF NodeType

\* Relocation keeps the list and its types, whether it succeeds or exits.
LEMMA RelocateTyped ==
  ASSUME TypeInv, NEW start \in Nat, RelocateBinary(start)
  PROVE  TypeOK' /\ instCount' = Len(instList') /\ text' = <<>>
<1>1. /\ Emitting /\ Placed /\ text = <<>> /\ instCount = Len(instList)
      /\ instList \in Seq(NodeType)
      /\ UNCHANGED <<instCount, labelList, dataList, dataOffset, text, starts>>
      /\ dataStart' = start /\ phase' \in {"relocated", "exit"}
      /\ ~ Resolvable => instList' = instList
  BY DEF RelocateBinary, TypeInv, TypeOK, AddressInv, RelocInv, Placed
<1>2. CASE Resolvable
  <2>1. instList' = [i \in DOMAIN instList |->
                       [instList[i] EXCEPT !.inst = Relocated(i, start), !.needRelocation = FALSE]]
    BY <1>2 DEF RelocateBinary
  <2>2. \A i \in DOMAIN instList :
          [instList[i] EXCEPT !.inst = Relocated(i, start), !.needRelocation = FALSE] \in NodeType
    <3>. TAKE i \in DOMAIN instList
    <3>1. instList[i] \in NodeType
      BY <1>1, Element
    <3>2. Relocated(i, start) \in Codes
      BY <1>1, <1>2, RelocatedTyped
    <3>. QED
      BY <3>1, <3>2 DEF NodeType
  <2>3. instList' \in [DOMAIN instList -> NodeType]
    BY <2>1, <2>2
  <2>4. instList' \in Seq(NodeType) /\ Len(instList') = Len(instList)
    BY <1>1, <2>3, SameLength
  <2>. QED
    BY <1>1, <2>4 DEF TypeInv, TypeOK
<1>3. CASE ~ Resolvable
  BY <1>1, <1>3 DEF TypeInv, TypeOK
<1>. QED
  BY <1>2, <1>3

LEMMA TypeInit == Init => TypeInv
BY AddressInit DEF Init, TypeInv, TypeOK, Emitting, Led

\* What is rounded up is a number that is not smaller.
LEMMA AlignToNat ==
  ASSUME NEW P \in Nat \ {0}, NEW n \in Nat
  PROVE  AlignTo(n, P) \in Nat /\ n <= AlignTo(n, P)
<1>1. n % P \in 0 .. P - 1
  OBVIOUS
<1>. QED
  BY <1>1 DEF AlignTo

LEMMA TypeNext == TypeInv /\ [Next]_vars => TypeInv'
<1>. SUFFICES ASSUME TypeInv, [Next]_vars  PROVE TypeInv'
  OBVIOUS
<1>1. AddressInv'
  BY AddressNext DEF TypeInv
<1>2. ASSUME NEW l \in Labels, EmitLabel(l)  PROVE TypeInv'
  <2>. DEFINE e == [label |-> l, index |-> instCount, at |-> Len(instList)]
  <2>1. /\ phase = "text" /\ labelList' = Append(labelList, e)
        /\ UNCHANGED <<phase, instList, instCount, dataList, dataOffset, dataStart, text, starts>>
    BY <1>2 DEF EmitLabel
  <2>2. e \in Entry /\ labelList \in Seq(Entry)
    BY DEF TypeInv, TypeOK, Entry
  <2>. HIDE DEF e
  <2>3. labelList' \in Seq(Entry)
    BY <2>1, <2>2
  <2>. QED
    BY <1>1, <2>1, <2>3 DEF TypeInv, TypeOK, Entry, Emitting, Led
<1>3. ASSUME NEW l \in DataLabels, NEW size \in Sizes, BinaryData(l, size)  PROVE TypeInv'
  <2>. DEFINE e == [label |-> l, offset |-> dataOffset, size |-> size]
  <2>1. /\ Emitting /\ phase' = "data" /\ dataList' = Append(dataList, e)
        /\ dataOffset' = dataOffset + size
        /\ UNCHANGED <<instList, instCount, labelList, dataStart, text, starts>>
    BY <1>3 DEF BinaryData
  <2>2. e \in Datum /\ dataList \in Seq(Datum) /\ size \in Nat
    BY RelocAssumption DEF TypeInv, TypeOK, Datum
  <2>. HIDE DEF e
  <2>3. dataList' \in Seq(Datum)
    BY <2>1, <2>2
  <2>. QED
    BY <1>1, <2>1, <2>2, <2>3 DEF TypeInv, TypeOK, Datum, Emitting, Led
<1>4. ASSUME NEW start \in {AlignTo(4 * instCount, Page), 0}, RelocateBinary(start)
      PROVE  TypeInv'
  <2>1. 4 * instCount \in Nat /\ Page \in Nat \ {0}
    BY RelocAssumption DEF TypeInv, TypeOK
  <2>2. start \in Nat
    <3>. DEFINE n == 4 * instCount
    <3>1. n \in Nat /\ start \in {AlignTo(n, Page), 0}
      BY <2>1
    <3>. HIDE DEF n
    <3>. QED
      BY <2>1, <3>1, AlignToNat
  <2>3. TypeOK' /\ instCount' = Len(instList') /\ text' = <<>>
    BY <1>4, <2>2, RelocateTyped
  <2>4. ~ Emitting'
    BY <1>4 DEF RelocateBinary, Emitting
  <2>. QED
    BY <1>1, <2>3, <2>4 DEF TypeInv
<1>5. CASE GetEmittedInstBuffer
  BY <1>1, <1>5 DEF GetEmittedInstBuffer, TypeInv, TypeOK, Emitting
<1>6. CASE GetEmittedDataBuffer
  <2>1. starts' \in [DOMAIN dataList -> Nat]
    BY <1>6, DataCopied DEF TypeInv, AddressInv
  <2>2. DOMAIN dataList = 1 .. Len(dataList) /\ Len(dataList) \in Nat
    BY DEF TypeInv, TypeOK
  <2>3. starts' \in Seq(Nat)
    BY <2>1, <2>2
  <2>4. /\ phase' \in {"done", "exit"}
        /\ UNCHANGED <<instList, instCount, labelList, dataList, dataOffset, dataStart, text>>
    BY <1>6 DEF GetEmittedDataBuffer
  <2>. QED
    BY <1>1, <2>3, <2>4 DEF TypeInv, TypeOK, Emitting
<1>7. CASE UNCHANGED vars
  BY <1>1, <1>7 DEF vars, TypeInv, TypeOK, Emitting, Led
<1>8. CASE \/ EmitInst
           \/ \E op \in Branches, l \in Labels : EmitRelocateBranchInst(op, l)
           \/ \E l \in DataLabels : EmitRelocateDataInst(l)
  <2>1. TypeOK' /\ instCount' = Len(instList') /\ Led' /\ phase' = "text"
    BY <1>8, EmitsTyped
  <2>. QED
    BY <1>1, <2>1 DEF TypeInv
<1>. QED
  BY <1>1, <1>2, <1>3, <1>4, <1>5, <1>6, <1>7, <1>8 DEF Next

\* For every program the lists keep their types: relocation makes an instruction with an
\* immediate of every node, since the place reserved for an ADD follows its ADRP, whose
\* label it is computed from.
THEOREM TypeCorrect == Spec => []TypeOK
<1>1. TypeInv => TypeOK
  BY DEF TypeInv
<1>. QED
  BY TypeInit, TypeNext, <1>1, PTL DEF Spec

-----------------------------------------------------------------------------
(* The object files.                                                       *)

LEMMA SmallMod ==
  ASSUME NEW P \in Nat \ {0}, NEW n \in 0 .. P - 1
  PROVE  n % P = n
OBVIOUS

LEMMA ModSelf ==
  ASSUME NEW P \in Nat \ {0}
  PROVE  P % P = 0
OBVIOUS

(* A number has one remainder.                                             *)
LEMMA OneRemainder ==
  ASSUME NEW P \in Nat \ {0}, NEW q \in Nat, NEW s \in Nat, q < s,
         NEW r \in 0 .. P - 1, NEW t \in 0 .. P - 1
  PROVE  P * q + r # P * s + t
<1>1. PICK d \in Nat : s = q + 1 + d
  <2>1. s - q - 1 \in Nat /\ s = q + 1 + (s - q - 1)
    OBVIOUS
  <2> QED BY <2>1
<1>2. P * s = P * q + P + P * d
  BY <1>1
<1>3. P * d \in Nat /\ P * q \in Nat
  OBVIOUS
<1> QED BY <1>2, <1>3

LEMMA DivMod ==
  ASSUME NEW P \in Nat \ {0}, NEW n \in Nat
  PROVE  \E q \in Nat, r \in 0 .. P - 1 : n = P * q + r /\ r = n % P
<1> DEFINE d == n \div P
<1>1. d \in Int
  OBVIOUS
<1>2. n % P \in 0 .. P - 1
  OBVIOUS
<1>3. n = P * d + (n % P)
  OBVIOUS
<1> HIDE DEF d
<1>4. d \in Nat
  <2>1. CASE d >= 0
    BY <1>1, <2>1
  <2>2. CASE d < 0
    <3>1. PICK e \in Nat : d = -1 - e
      <4>1. -1 - d \in Nat /\ d = -1 - (-1 - d)
        BY <1>1, <2>2
      <4> QED BY <4>1
    <3>2. P * d = -P - P * e /\ P * e \in Nat
      BY <3>1
    <3> QED BY <1>2, <1>3, <3>2
  <2> QED BY <1>1, <2>1, <2>2
<1> QED BY <1>2, <1>3, <1>4

LEMMA NextPage ==
  ASSUME NEW P \in Nat \ {0}, NEW n \in Nat
  PROVE  (P + n) % P = n % P
<1>1. PICK q \in Nat, r \in 0 .. P - 1 : n = P * q + r /\ r = n % P
  BY DivMod
<1>2. PICK s \in Nat, t \in 0 .. P - 1 : P + n = P * s + t /\ t = (P + n) % P
  <2>1. P + n \in Nat
    OBVIOUS
  <2> QED BY <2>1, DivMod
<1>3. P * (q + 1) + r = P * s + t
  BY <1>1, <1>2
<1>4. ~ q + 1 < s /\ ~ s < q + 1
  BY <1>3, OneRemainder
<1>5. q + 1 = s
  BY <1>4
<1>6. P * s + r = P * s + t /\ P * s \in Nat
  BY <1>3, <1>5
<1>7. r = t
  BY <1>6
<1> QED BY <1>1, <1>2, <1>7

LEMMA AlignBehindPage ==
  ASSUME NEW P \in Nat \ {0}, NEW n \in Nat
  PROVE  AlignTo(P + n, P) - P = AlignTo(n, P)
<1>1. (P + n) % P = n % P
  BY NextPage
<1>2. n % P \in Nat
  BY DivMod
<1> QED BY <1>1, <1>2 DEF AlignTo

(* What fits into a page is rounded to one.                                *)
LEMMA OnePage ==
  ASSUME NEW v \in 1 .. Page
  PROVE  AlignTo(v, Page) = Page
<1>1. CASE v = Page
  BY <1>1, RelocAssumption, ModSelf DEF AlignTo
<1>2. CASE v # Page
  <2>1. v % Page = v
    BY <1>2, RelocAssumption, SmallMod
  <2> QED BY <1>2, <2>1, RelocAssumption DEF AlignTo
<1> QED BY <1>1, <1>2

(* The headers of an ELF file fill one page, with and without data.        *)
LEMMA EntryPage ==
  ProgramEntry = Page
<1> DEFINE v == Bytes["Elf64_Ehdr"] + SectionCount * Bytes["Elf64_Phdr"]
                  + (SectionCount + 1) * Bytes["Elf64_Shdr"]
<1>1. /\ Bytes["Elf64_Ehdr"] \in Nat \ {0} /\ Bytes["Elf64_Phdr"] \in Nat
      /\ Bytes["Elf64_Shdr"] \in Nat
      /\ Bytes["Elf64_Ehdr"] + 2 * Bytes["Elf64_Phdr"] + 3 * Bytes["Elf64_Shdr"] <= Page
  BY ImageAssumption DEF Structs
<1>2. SectionCount \in {1, 2}
  BY DEF SectionCount
<1>3. v \in Nat /\ v > 0 /\ v <= Page
  <2>1. CASE SectionCount = 1
    <3>1. v = Bytes["Elf64_Ehdr"] + Bytes["Elf64_Phdr"] + 2 * Bytes["Elf64_Shdr"]
      BY <1>1, <2>1
    <3> HIDE DEF v
    <3> QED BY <1>1, <3>1, RelocAssumption
  <2>2. CASE SectionCount = 2
    BY <1>1, <2>2
  <2> QED BY <1>2, <2>1, <2>2
<1> HIDE DEF v
<1>4. AlignTo(v, Page) = Page
  <2>1. v \in 1 .. Page
    BY <1>3, RelocAssumption
  <2> QED BY <2>1, OnePage
<1> QED BY <1>4 DEF ProgramEntry, v

(* Relocation gets one of the two places it gets in Reloc.                 *)
LEMMA DataPlace ==
  ASSUME RelocInv, Emitting
  PROVE  DataSectionVaddrOffset \in {AlignTo(4 * instCount, Page), 0}
<1>1. TextSize = 4 * instCount /\ TextSize \in Nat
  BY DEF RelocInv, Placed, TextSize
<1>2. DataEntry - ProgramEntry = AlignTo(4 * instCount, Page)
  BY <1>1, EntryPage, AlignBehindPage, RelocAssumption DEF DataEntry
<1> QED BY <1>2 DEF DataSectionVaddrOffset

LEMMA ImageStep ==
  ASSUME RelocInv, [ImageNext]_allVars
  PROVE  [Next]_vars
<1>1. ASSUME NEW p \in Platforms, OpenFile(p) PROVE [Next]_vars
  BY <1>1 DEF OpenFile
<1>2. CASE Emit
  BY <1>2 DEF Emit, Next
<1>3. CASE Relocate
  <2>1. Emitting
    BY <1>3 DEF Relocate, RelocateBinary
  <2> QED BY <1>3, <2>1, DataPlace DEF Relocate, Next
<1>4. CASE GetBuffers
  BY <1>4 DEF GetBuffers, Next
<1>5. ASSUME NEW p, NEW said, NEW calls, WriteImage(p, said, calls) PROVE [Next]_vars
  BY <1>5 DEF WriteImage
<1>6. CASE CloseFile
  BY <1>6 DEF CloseFile
<1>7. CASE UNCHANGED allVars
  BY <1>7 DEF allVars
<1> QED BY <1>1, <1>2, <1>3, <1>4, <1>5, <1>6, <1>7 DEF ImageNext

(* Every generator of an object file drives the instruction lists as Reloc *)
(* describes: for every platform, program and size of page.                *)
THEOREM ImageImplementsReloc == ImageSpec => Spec
<1>1. ImageInit => Init
  BY DEF ImageInit
<1>2. RelocInv /\ [ImageNext]_allVars => [Next]_vars
  BY ImageStep
<1>3. RelocInv /\ [ImageNext]_allVars => RelocInv'
  BY <1>2, RelocNext
<1> QED BY <1>1, <1>2, <1>3, RelocInit, PTL DEF ImageSpec, Spec

(* So the branches in every object file go to their labels, or are the     *)
(* word 0.                                                                 *)
THEOREM ImageBranchesSafe == ImageSpec => []BranchesLand
BY ImageImplementsReloc, BranchesSafe, PTL

(* And the addresses the text of every object file computes are those its  *)
(* data is written to, unless the data is in front of the text.            *)
THEOREM ImageAddressesSafe == ImageSpec => []AddressesLand
BY ImageImplementsReloc, AddressesSafe, PTL

-----------------------------------------------------------------------------
(* What is written: the file after a list of calls, as one formula.        *)

Piece(part, at, size) == [part |-> part, at |-> at, size |-> size]
PieceType == [part : Parts, at : Nat, size : Nat]
CallType == [name : {"writeFileB", "writeEmptyAlignment"}, part : Parts, size : Nat]

Behind(f, i) == IF i = 1 THEN 0 ELSE End(f[i - 1])

(* The parts of f are those of the calls, one behind the other.            *)
Follows(f, calls) ==
  /\ f \in Seq(PieceType) /\ Len(f) = Len(calls)
  /\ \A i \in 1 .. Len(calls) :
       f[i] = Piece(calls[i].part, Behind(f, i), Written(calls[i], Behind(f, i)))

(* A prefix is the one before it and an element.                           *)
LEMMA Prefixes ==
  ASSUME NEW S, NEW f \in Seq(S), NEW i \in 1 .. Len(f)
  PROVE  /\ SubSeq(f, 1, 0) = <<>> /\ SubSeq(f, 1, Len(f)) = f
         /\ SubSeq(f, 1, i) = Append(SubSeq(f, 1, i - 1), f[i])
         /\ Len(SubSeq(f, 1, i)) = i /\ SubSeq(f, 1, i)[i] = f[i] /\ SubSeq(f, 1, i) # <<>>
OBVIOUS

(* The calls write what follows from them: the prefixes of f solve the     *)
(* recursive definition, and it has no other solution.                     *)
LEMMA WrittenIs ==
  ASSUME NEW calls, Len(calls) \in Nat, NEW f, Follows(f, calls)
  PROVE  After(calls) = f
<1>. DEFINE n == Len(calls)
           Step(before, i) ==
             Append(before, [part |-> calls[i].part, at |-> FileOffset(before),
                             size |-> Written(calls[i], FileOffset(before))])
           F(w) == [i \in 0 .. n |-> IF i = 0 THEN <<>> ELSE Step(w[i - 1], i)]
           written == CHOOSE w : w = F(w)
           g == [i \in 0 .. n |-> SubSeq(f, 1, i)]
<1>1. f \in Seq(PieceType) /\ Len(f) = n /\ n \in Nat
  BY DEF Follows
<1>2. ASSUME NEW i \in 1 .. n  PROVE SubSeq(f, 1, i) = Step(SubSeq(f, 1, i - 1), i)
  <2>1. SubSeq(f, 1, i) = Append(SubSeq(f, 1, i - 1), f[i])
    BY <1>1, Prefixes
  <2>2. FileOffset(SubSeq(f, 1, i - 1)) = Behind(f, i)
    <3>1. CASE i = 1
      BY <1>1, <3>1 DEF FileOffset, Behind
    <3>2. CASE i # 1
      <4>1. i - 1 \in 1 .. Len(f)
        BY <1>1, <3>2
      <4>2. /\ SubSeq(f, 1, i - 1) # <<>> /\ Len(SubSeq(f, 1, i - 1)) = i - 1
            /\ SubSeq(f, 1, i - 1)[i - 1] = f[i - 1]
        BY <1>1, <4>1, Prefixes
      <4>. QED
        BY <3>2, <4>2 DEF FileOffset, Behind
    <3>. QED
      BY <3>1, <3>2
  <2>. QED
    BY <2>1, <2>2 DEF Follows, Piece
<1>3. SubSeq(f, 1, 0) = <<>>
  BY <1>1
<1>4. g = F(g)
  <2>. HIDE DEF Step
  <2>1. ASSUME NEW i \in 0 .. n
        PROVE  SubSeq(f, 1, i) = IF i = 0 THEN <<>> ELSE Step(g[i - 1], i)
    <3>1. CASE i = 0
      BY <1>3, <3>1
    <3>2. CASE i # 0
      <4>1. i \in 1 .. n /\ i - 1 \in 0 .. n
        BY <1>1, <3>2
      <4>2. g[i - 1] = SubSeq(f, 1, i - 1)
        BY <4>1
      <4>. QED
        BY <1>2, <3>2, <4>1, <4>2
    <3>. QED
      BY <3>1, <3>2
  <2>. QED
    BY <2>1
<1>5. written = F(written)
  <2>. HIDE DEF g, F
  <2>. QED
    BY <1>4
<1>6. After(calls) = written[n]
  BY DEF After
<1>. HIDE DEF written, g
<1>. DEFINE S == {i \in 0 .. n : written[i] = SubSeq(f, 1, i)}
<1>7. 0 \in S
  BY <1>1, <1>3, <1>5
<1>8. ASSUME NEW i \in 0 .. n - 1, i \in S  PROVE i + 1 \in S
  <2>. HIDE DEF Step
  <2>1. i + 1 \in 1 .. n /\ i + 1 \in 0 .. n /\ i + 1 # 0 /\ (i + 1) - 1 = i
    BY <1>1
  <2>2. written[i + 1] = Step(written[i], i + 1)
    BY <1>5, <2>1
  <2>3. SubSeq(f, 1, i + 1) = Step(SubSeq(f, 1, i), i + 1)
    BY <1>2, <2>1
  <2>. QED
    BY <1>8, <2>1, <2>2, <2>3
<1>9. 0 .. n \subseteq S
  <2>. HIDE DEF S
  <2>. QED
    BY <1>1, <1>7, <1>8, UpTo
<1>10. written[n] = SubSeq(f, 1, n) /\ SubSeq(f, 1, n) = f
  <2>1. n \in 0 .. n /\ SubSeq(f, 1, n) = f
    BY <1>1
  <2>. QED
    BY <1>9, <2>1
<1>. QED
  BY <1>6, <1>10

-----------------------------------------------------------------------------
(* The files.                                                              *)

Filled(at, alignment) == Piece("empty", at, AlignTo(at, alignment) - at)

ElfFile ==
  LET e == Bytes["Elf64_Ehdr"]
      p == Bytes["Elf64_Phdr"]
      s == Bytes["Elf64_Shdr"]
      end == DataEntry + dataOffset
  IN <<Piece("Elf64_Ehdr", 0, e), Piece("Elf64_Phdr", e, p), Piece("Elf64_Phdr", e + p, p),
       Piece("text shdr", e + 2 * p, s), Piece("data shdr", e + 2 * p + s, s),
       Piece("shstrtab shdr", e + 2 * p + 2 * s, s), Filled(e + 2 * p + 3 * s, Page),
       Piece("text", Page, TextSize), Filled(Page + TextSize, Page),
       Piece("data", DataEntry, dataOffset), Filled(end, Page),
       Piece("shstrtab", AlignTo(end, Page), Bytes["shstrtab"])>>

PeFile ==
  LET headers == Bytes["PeHeader"] + Bytes["SectionHeader"]
      a == FileAlignment["windows"]
      at == AlignTo(headers, a)
  IN <<Piece("PeHeader", 0, Bytes["PeHeader"]),
       Piece("SectionHeader", Bytes["PeHeader"], Bytes["SectionHeader"]), Filled(headers, a),
       Piece("text", at, TextSize), Filled(at + TextSize, a)>>

MachFile ==
  LET h == Bytes["mach_header_64"]
      c == Bytes["segment_command_64"]
      s == Bytes["section_64"]
      e == Bytes["entry_point_command"]
  IN <<Piece("mach_header_64", 0, h), Piece("segment_command_64", h, c),
       Piece("segment_command_64", h + c, c), Piece("section_64", h + 2 * c, s),
       Piece("entry_point_command", h + 2 * c + s, e),
       Filled(h + 2 * c + s + e, FileAlignment["macos"]),
       Piece("text", CodeFileAddr, TextSize)>>

(* The sizes of the text and of the data.                                  *)
Measured == TextSize \in Nat /\ dataOffset \in Nat

(* Behind a file that ends at the given place, the call writes this part,  *)
(* and the file then ends at end.                                          *)
Fits(piece, call, at, end) ==
  piece \in PieceType /\ piece = Piece(call.part, at, Written(call, at)) /\ End(piece) = end

(* A call of writeFileB, and one of writeEmptyAlignment.                   *)
LEMMA PieceFits ==
  ASSUME NEW part \in Parts, NEW at \in Nat, NEW size \in Nat, NEW end, end = at + size
  PROVE  Fits(Piece(part, at, size), Part(part, size), at, end) /\ end \in Nat
BY DEF Fits, Piece, PieceType, End, Written, Part

LEMMA FilledFits ==
  ASSUME NEW at \in Nat, NEW alignment \in Nat \ {0}, NEW end, end = AlignTo(at, alignment)
  PROVE  Fits(Filled(at, alignment), Empty(alignment), at, end) /\ end \in Nat
<1>1. end \in Nat /\ at <= end
  BY AlignToNat
<1>2. Empty(alignment).name # "writeFileB" /\ Empty(alignment).size = alignment
  BY DEF Empty
<1>. QED
  BY <1>1, <1>2 DEF Fits, Filled, Piece, PieceType, Parts, End, Written, Empty

(* The tables of an ELF file with three section headers fill a page, too.   *)
LEMMA ElfTables ==
  AlignTo(Bytes["Elf64_Ehdr"] + 2 * Bytes["Elf64_Phdr"] + 3 * Bytes["Elf64_Shdr"], Page) = Page
<1>. DEFINE e == Bytes["Elf64_Ehdr"]
           p == Bytes["Elf64_Phdr"]
           s == Bytes["Elf64_Shdr"]
<1>1. /\ e \in Nat \ {0} /\ p \in Nat /\ s \in Nat /\ Page \in Nat
      /\ e + 2 * p + 3 * s <= Page
  BY ImageAssumption, RelocAssumption DEF Structs
<1>2. AlignTo(e + 2 * p + 3 * s, Page) = Page
  <2>. HIDE DEF e, p, s
  <2>1. e + 2 * p + 3 * s \in 1 .. Page
    BY <1>1
  <2>. QED
    BY <2>1, OnePage
<1>. QED
  BY <1>2

(* The files are what the calls of the three generators write.             *)
LEMMA PeFollows ==
  ASSUME Measured
  PROVE  Follows(PeFile, PeWrites)
<1>. DEFINE h == Bytes["PeHeader"]
           s == Bytes["SectionHeader"]
           a == FileAlignment["windows"]
           at == AlignTo(h + s, a)
           t == TextSize
           f1 == Piece("PeHeader", 0, h)
           f2 == Piece("SectionHeader", h, s)
           f3 == Filled(h + s, a)
           f4 == Piece("text", at, t)
           f5 == Filled(at + t, a)
           c1 == Part("PeHeader", h)
           c2 == Part("SectionHeader", s)
           c3 == Empty(a)
           c4 == Part("text", t)
<1>1. h \in Nat /\ s \in Nat /\ a \in Nat \ {0} /\ t \in Nat /\ at = AlignTo(h + s, a)
  BY ImageAssumption DEF Structs, Measured
<1>2. PeFile = <<f1, f2, f3, f4, f5>> /\ PeWrites = <<c1, c2, c3, c4, c3>>
  BY DEF PeFile, PeWrites, Struct
<1>. HIDE DEF h, s, a, at, t
<1>3. "PeHeader" \in Parts /\ "SectionHeader" \in Parts /\ "text" \in Parts
  BY DEF Parts, Structs, SectionHeaders
<1>4. Fits(f1, c1, 0, h) /\ h \in Nat
  BY <1>1, <1>3, PieceFits
<1>5. Fits(f2, c2, h, h + s) /\ h + s \in Nat
  BY <1>1, <1>3, <1>4, PieceFits
<1>6. Fits(f3, c3, h + s, at) /\ at \in Nat
  BY <1>1, <1>5, FilledFits
<1>7. Fits(f4, c4, at, at + t) /\ at + t \in Nat
  BY <1>1, <1>3, <1>6, PieceFits
<1>8. Fits(f5, c3, at + t, AlignTo(at + t, a)) /\ AlignTo(at + t, a) \in Nat
  BY <1>1, <1>7, FilledFits
<1>. HIDE DEF f1, f2, f3, f4, f5, c1, c2, c3, c4
<1>. DEFINE f == <<f1, f2, f3, f4, f5>>
           calls == <<c1, c2, c3, c4, c3>>
<1>9. f \in Seq(PieceType) /\ Len(f) = 5 /\ Len(calls) = 5
  BY <1>4, <1>5, <1>6, <1>7, <1>8 DEF Fits
<1>10. ASSUME NEW i \in 1 .. 5
       PROVE  f[i] = Piece(calls[i].part, Behind(f, i), Written(calls[i], Behind(f, i)))
  <2>1. CASE i = 1
    BY <1>4, <2>1 DEF Behind, Fits
  <2>2. CASE i = 2
    BY <1>4, <1>5, <2>2 DEF Behind, Fits
  <2>3. CASE i = 3
    BY <1>5, <1>6, <2>3 DEF Behind, Fits
  <2>4. CASE i = 4
    BY <1>6, <1>7, <2>4 DEF Behind, Fits
  <2>5. CASE i = 5
    BY <1>7, <1>8, <2>5 DEF Behind, Fits
  <2>. QED
    BY <2>1, <2>2, <2>3, <2>4, <2>5
<1>. QED
  BY <1>2, <1>9, <1>10 DEF Follows

LEMMA MachFollows ==
  ASSUME Measured
  PROVE  Follows(MachFile, MachWrites)
<1>. DEFINE h == Bytes["mach_header_64"]
           c == Bytes["segment_command_64"]
           s == Bytes["section_64"]
           e == Bytes["entry_point_command"]
           a == FileAlignment["macos"]
           at == AlignTo(h + 2 * c + s + e, a)
           t == TextSize
           f1 == Piece("mach_header_64", 0, h)
           f2 == Piece("segment_command_64", h, c)
           f3 == Piece("segment_command_64", h + c, c)
           f4 == Piece("section_64", h + 2 * c, s)
           f5 == Piece("entry_point_command", h + 2 * c + s, e)
           f6 == Filled(h + 2 * c + s + e, a)
           f7 == Piece("text", at, t)
           c1 == Part("mach_header_64", h)
           c2 == Part("segment_command_64", c)
           c3 == Part("section_64", s)
           c4 == Part("entry_point_command", e)
           c5 == Empty(a)
           c6 == Part("text", t)
<1>1. h \in Nat /\ c \in Nat /\ s \in Nat /\ e \in Nat /\ a \in Nat \ {0} /\ t \in Nat
      /\ at = AlignTo(h + 2 * c + s + e, a)
  BY ImageAssumption DEF Structs, Measured
<1>place. CodeFileAddr = at
  <2>1. h + 2 * c + s + e = h + 2 * c + e + s
    BY <1>1
  <2>. QED
    BY <2>1 DEF CodeFileAddr
<1>2. MachFile = <<f1, f2, f3, f4, f5, f6, f7>> /\ MachWrites = <<c1, c2, c2, c3, c4, c5, c6>>
  BY <1>place DEF MachFile, MachWrites, Struct
<1>. HIDE DEF h, c, s, e, a, at, t
<1>3. /\ "mach_header_64" \in Parts /\ "segment_command_64" \in Parts
      /\ "section_64" \in Parts /\ "entry_point_command" \in Parts /\ "text" \in Parts
  BY DEF Parts, Structs, SectionHeaders
<1>4. Fits(f1, c1, 0, h) /\ h \in Nat
  BY <1>1, <1>3, PieceFits
<1>5. Fits(f2, c2, h, h + c) /\ h + c \in Nat
  BY <1>1, <1>3, <1>4, PieceFits
<1>6. Fits(f3, c2, h + c, h + 2 * c) /\ h + 2 * c \in Nat
  BY <1>1, <1>3, <1>5, PieceFits
<1>7. Fits(f4, c3, h + 2 * c, h + 2 * c + s) /\ h + 2 * c + s \in Nat
  BY <1>1, <1>3, <1>6, PieceFits
<1>8. Fits(f5, c4, h + 2 * c + s, h + 2 * c + s + e) /\ h + 2 * c + s + e \in Nat
  BY <1>1, <1>3, <1>7, PieceFits
<1>9. Fits(f6, c5, h + 2 * c + s + e, at) /\ at \in Nat
  BY <1>1, <1>8, FilledFits
<1>10. Fits(f7, c6, at, at + t) /\ at + t \in Nat
  BY <1>1, <1>3, <1>9, PieceFits
<1>. HIDE DEF f1, f2, f3, f4, f5, f6, f7, c1, c2, c3, c4, c5, c6
<1>. DEFINE f == <<f1, f2, f3, f4, f5, f6, f7>>
           calls == <<c1, c2, c2, c3, c4, c5, c6>>
<1>11. f \in Seq(PieceType) /\ Len(f) = 7 /\ Len(calls) = 7
  BY <1>4, <1>5, <1>6, <1>7, <1>8, <1>9, <1>10 DEF Fits
<1>12. ASSUME NEW i \in 1 .. 7
       PROVE  f[i] = Piece(calls[i].part, Behind(f, i), Written(calls[i], Behind(f, i)))
  <2>1. CASE i = 1
    BY <1>4, <2>1 DEF Behind, Fits
  <2>2. CASE i = 2
    BY <1>4, <1>5, <2>2 DEF Behind, Fits
  <2>3. CASE i = 3
    BY <1>5, <1>6, <2>3 DEF Behind, Fits
  <2>4. CASE i = 4
    BY <1>6, <1>7, <2>4 DEF Behind, Fits
  <2>5. CASE i = 5
    BY <1>7, <1>8, <2>5 DEF Behind, Fits
  <2>6. CASE i = 6
    BY <1>8, <1>9, <2>6 DEF Behind, Fits
  <2>7. CASE i = 7
    BY <1>9, <1>10, <2>7 DEF Behind, Fits
  <2>. QED
    BY <2>1, <2>2, <2>3, <2>4, <2>5, <2>6, <2>7
<1>. QED
  BY <1>2, <1>11, <1>12 DEF Follows

LEMMA ElfFollows ==
  ASSUME Measured
  PROVE  Follows(ElfFile, ElfWrites)
<1>. DEFINE e == Bytes["Elf64_Ehdr"]
           p == Bytes["Elf64_Phdr"]
           s == Bytes["Elf64_Shdr"]
           n == Bytes["shstrtab"]
           t == TextSize
           d == dataOffset
           at == DataEntry
           to == AlignTo(at + d, Page)
           f1 == Piece("Elf64_Ehdr", 0, e)
           f2 == Piece("Elf64_Phdr", e, p)
           f3 == Piece("Elf64_Phdr", e + p, p)
           f4 == Piece("text shdr", e + 2 * p, s)
           f5 == Piece("data shdr", e + 2 * p + s, s)
           f6 == Piece("shstrtab shdr", e + 2 * p + 2 * s, s)
           f7 == Filled(e + 2 * p + 3 * s, Page)
           f8 == Piece("text", Page, t)
           f9 == Filled(Page + t, Page)
           f10 == Piece("data", at, d)
           f11 == Filled(at + d, Page)
           f12 == Piece("shstrtab", to, n)
           c1 == Part("Elf64_Ehdr", e)
           c2 == Part("Elf64_Phdr", p)
           c3 == Part("text shdr", s)
           c4 == Part("data shdr", s)
           c5 == Part("shstrtab shdr", s)
           c6 == Empty(Page)
           c7 == Part("text", t)
           c8 == Part("data", d)
           c9 == Part("shstrtab", n)
<1>1. /\ e \in Nat /\ p \in Nat /\ s \in Nat /\ n \in Nat /\ t \in Nat /\ d \in Nat /\ Page \in Nat \ {0}
  BY ImageAssumption, RelocAssumption DEF Structs, Measured
<1>aligned. /\ AlignTo(e + 2 * p + 3 * s, Page) = Page /\ at = AlignTo(Page + t, Page)
      /\ to = AlignTo(at + d, Page)
  BY ElfTables, EntryPage DEF DataEntry
<1>2. /\ ElfFile = <<f1, f2, f3, f4, f5, f6, f7, f8, f9, f10, f11, f12>>
      /\ ElfWrites = <<c1, c2, c2, c3, c4, c5, c6, c7, c6, c8, c6, c9>>
  BY DEF ElfFile, ElfWrites, Struct
<1>. HIDE DEF e, p, s, n, t, d, at, to
<1>3. /\ "Elf64_Ehdr" \in Parts /\ "Elf64_Phdr" \in Parts /\ "text shdr" \in Parts
      /\ "data shdr" \in Parts /\ "shstrtab shdr" \in Parts /\ "text" \in Parts
      /\ "data" \in Parts /\ "shstrtab" \in Parts
  BY DEF Parts, Structs, SectionHeaders
<1>4. Fits(f1, c1, 0, e) /\ e \in Nat
  <2>1. 0 \in Nat /\ e \in Nat /\ e = 0 + e
    BY <1>1
  <2>2. "Elf64_Ehdr" \in Parts
    BY <1>3
  <2>. QED
    BY <2>1, <2>2, PieceFits
<1>5. Fits(f2, c2, e, e + p) /\ e + p \in Nat
  <2>1. e \in Nat /\ p \in Nat /\ e + p = e + p
    BY <1>1
  <2>2. "Elf64_Phdr" \in Parts
    BY <1>3
  <2>. QED
    BY <2>1, <2>2, PieceFits
<1>6. Fits(f3, c2, e + p, e + 2 * p) /\ e + 2 * p \in Nat
  <2>1. e + p \in Nat /\ p \in Nat /\ e + 2 * p = e + p + p
    BY <1>1
  <2>2. "Elf64_Phdr" \in Parts
    BY <1>3
  <2>. QED
    BY <2>1, <2>2, PieceFits
<1>7. Fits(f4, c3, e + 2 * p, e + 2 * p + s) /\ e + 2 * p + s \in Nat
  <2>1. e + 2 * p \in Nat /\ s \in Nat /\ e + 2 * p + s = e + 2 * p + s
    BY <1>1
  <2>2. "text shdr" \in Parts
    BY <1>3
  <2>. QED
    BY <2>1, <2>2, PieceFits
<1>8. Fits(f5, c4, e + 2 * p + s, e + 2 * p + 2 * s) /\ e + 2 * p + 2 * s \in Nat
  <2>1. e + 2 * p + s \in Nat /\ s \in Nat /\ e + 2 * p + 2 * s = e + 2 * p + s + s
    BY <1>1
  <2>2. "data shdr" \in Parts
    BY <1>3
  <2>. QED
    BY <2>1, <2>2, PieceFits
<1>9. Fits(f6, c5, e + 2 * p + 2 * s, e + 2 * p + 3 * s) /\ e + 2 * p + 3 * s \in Nat
  <2>1. e + 2 * p + 2 * s \in Nat /\ s \in Nat /\ e + 2 * p + 3 * s = e + 2 * p + 2 * s + s
    BY <1>1
  <2>2. "shstrtab shdr" \in Parts
    BY <1>3
  <2>. QED
    BY <2>1, <2>2, PieceFits
<1>10. Fits(f7, c6, e + 2 * p + 3 * s, Page) /\ Page \in Nat
  BY <1>aligned, <1>1, <1>9, FilledFits
<1>11. Fits(f8, c7, Page, Page + t) /\ Page + t \in Nat
  <2>1. Page \in Nat /\ t \in Nat /\ Page + t = Page + t
    BY <1>1
  <2>2. "text" \in Parts
    BY <1>3
  <2>. QED
    BY <2>1, <2>2, PieceFits
<1>12. Fits(f9, c6, Page + t, at) /\ at \in Nat
  BY <1>aligned, <1>1, <1>11, FilledFits
<1>13. Fits(f10, c8, at, at + d) /\ at + d \in Nat
  <2>1. at \in Nat /\ d \in Nat /\ at + d = at + d
    BY <1>1, <1>12
  <2>2. "data" \in Parts
    BY <1>3
  <2>. QED
    BY <2>1, <2>2, PieceFits
<1>14. Fits(f11, c6, at + d, to) /\ to \in Nat
  BY <1>aligned, <1>1, <1>13, FilledFits
<1>15. Fits(f12, c9, to, to + n) /\ to + n \in Nat
  <2>1. to \in Nat /\ n \in Nat /\ to + n = to + n
    BY <1>1, <1>14
  <2>2. "shstrtab" \in Parts
    BY <1>3
  <2>. QED
    BY <2>1, <2>2, PieceFits
<1>. HIDE DEF f1, f2, f3, f4, f5, f6, f7, f8, f9, f10, f11, f12, c1, c2, c3, c4, c5, c6, c7, c8, c9
<1>. DEFINE f == <<f1, f2, f3, f4, f5, f6, f7, f8, f9, f10, f11, f12>>
           calls == <<c1, c2, c2, c3, c4, c5, c6, c7, c6, c8, c6, c9>>
<1>16. f \in Seq(PieceType) /\ Len(f) = 12 /\ Len(calls) = 12
  BY <1>4, <1>5, <1>6, <1>7, <1>8, <1>9, <1>10, <1>11, <1>12, <1>13, <1>14, <1>15 DEF Fits
<1>17. ASSUME NEW i \in 1 .. 12
       PROVE  f[i] = Piece(calls[i].part, Behind(f, i), Written(calls[i], Behind(f, i)))
  <2>1. CASE i = 1
    BY <1>4, <2>1 DEF Behind, Fits
  <2>2. CASE i = 2
    BY <1>4, <1>5, <2>2 DEF Behind, Fits
  <2>3. CASE i = 3
    BY <1>5, <1>6, <2>3 DEF Behind, Fits
  <2>4. CASE i = 4
    BY <1>6, <1>7, <2>4 DEF Behind, Fits
  <2>5. CASE i = 5
    BY <1>7, <1>8, <2>5 DEF Behind, Fits
  <2>6. CASE i = 6
    BY <1>8, <1>9, <2>6 DEF Behind, Fits
  <2>7. CASE i = 7
    BY <1>9, <1>10, <2>7 DEF Behind, Fits
  <2>8. CASE i = 8
    BY <1>10, <1>11, <2>8 DEF Behind, Fits
  <2>9. CASE i = 9
    BY <1>11, <1>12, <2>9 DEF Behind, Fits
  <2>10. CASE i = 10
    BY <1>12, <1>13, <2>10 DEF Behind, Fits
  <2>11. CASE i = 11
    BY <1>13, <1>14, <2>11 DEF Behind, Fits
  <2>12. CASE i = 12
    BY <1>14, <1>15, <2>12 DEF Behind, Fits
  <2>. QED
    BY <2>1, <2>2, <2>3, <2>4, <2>5, <2>6, <2>7, <2>8, <2>9, <2>10, <2>11, <2>12
<1>. QED
  BY <1>2, <1>16, <1>17 DEF Follows

-----------------------------------------------------------------------------
(* The invariant: a file with something in it is the whole file of its     *)
(* platform, and its headers were computed from what it was written from.  *)
(* In an ELF file the data was taken to be where it then was written.      *)

Complete ==
  \/ platform = "linux" /\ phase = "done" /\ header = ElfHeader /\ file = ElfFile
  \/ platform = "windows" /\ phase = "relocated" /\ header = PeHeader /\ file = PeFile
  \/ platform = "macos" /\ phase = "relocated" /\ header = MachHeader /\ file = MachFile

ImageInv ==
  /\ TypeInv
  /\ stage \in {"start", "code", "written", "closed"}
  /\ platform \in Platforms \cup {"other"}
  /\ isOpen \in BOOLEAN /\ (isOpen => stage \in {"code", "written"})
  /\ stage = "start" => phase = "text"
  /\ file # <<>> => stage \in {"written", "closed"} /\ Complete
  /\ platform = "linux" /\ phase \in {"relocated", "done"} => dataStart = AlignTo(TextSize, Page)

(* The sizes are numbers.                                                  *)
LEMMA MeasuredAlways ==
  ASSUME TypeInv
  PROVE  Measured
<1>1. Len(text) \in Nat /\ instCount \in Nat /\ dataOffset \in Nat
  BY DEF TypeInv, TypeOK
<1>. QED
  BY <1>1 DEF Measured, TextSize

(* What is written, and what the headers say, depends on the lists alone.  *)
LEMMA SameFiles ==
  ASSUME UNCHANGED vars
  PROVE  /\ TextSize' = TextSize
         /\ ElfHeader' = ElfHeader /\ ElfFile' = ElfFile
         /\ PeHeader' = PeHeader /\ PeFile' = PeFile
         /\ MachHeader' = MachHeader /\ MachFile' = MachFile
BY DEF vars, ElfHeader, ElfFile, PeHeader, PeFile, MachHeader, MachFile, TextSize, DataEntry,
       ProgramEntry, SectionCount

LEMMA CompleteStays ==
  ASSUME UNCHANGED <<vars, platform, file, header>>, Complete
  PROVE  Complete'
<1>1. phase' = phase
  BY DEF vars
<1>. QED
  BY <1>1, SameFiles DEF Complete

LEMMA ImageInitInv == ImageInit => ImageInv
<1>. SUFFICES ASSUME ImageInit  PROVE ImageInv
  OBVIOUS
<1>1. TypeInv /\ phase = "text"
  BY TypeInit DEF ImageInit, Init
<1>. QED
  BY <1>1 DEF ImageInit, ImageInv

(* The code goes to the lists as long as nothing is written.               *)
LEMMA CodeStep ==
  ASSUME ImageInv, TypeInv', stage = "code", UNCHANGED imageVars,
         phase' \in {"relocated", "done"} /\ platform = "linux" =>
           dataStart' = AlignTo(TextSize, Page)'
  PROVE  ImageInv'
BY DEF ImageInv, imageVars

(* A generator writes the whole file, or nothing if it is not open.        *)
LEMMA WriteStep ==
  ASSUME ImageInv, TypeInv', NEW p, NEW said, NEW calls, NEW f, WriteImage(p, said, calls),
         f = After(calls),
         \/ p = "linux" /\ said = ElfHeader /\ f = ElfFile
         \/ p = "windows" /\ said = PeHeader /\ f = PeFile
         \/ p = "macos" /\ said = MachHeader /\ f = MachFile
  PROVE  ImageInv'
<1>1. /\ stage = "code" /\ platform = p /\ phase = (IF p = "linux" THEN "done" ELSE "relocated")
      /\ stage' = "written" /\ header' = said /\ file' = (IF isOpen THEN f ELSE <<>>)
      /\ UNCHANGED <<vars, platform, isOpen>>
  BY DEF WriteImage
<1>2. /\ TextSize' = TextSize /\ phase' = phase /\ dataStart' = dataStart
      /\ ElfHeader' = ElfHeader /\ ElfFile' = ElfFile
      /\ PeHeader' = PeHeader /\ PeFile' = PeFile
      /\ MachHeader' = MachHeader /\ MachFile' = MachFile
  BY <1>1, SameFiles DEF vars
<1>3. file' # <<>> => Complete'
  <2>1. CASE p = "linux"
    BY <1>1, <1>2, <2>1 DEF Complete
  <2>2. CASE p = "windows"
    BY <1>1, <1>2, <2>2 DEF Complete
  <2>3. CASE p = "macos"
    BY <1>1, <1>2, <2>3 DEF Complete
  <2>. QED
    BY <2>1, <2>2, <2>3
<1>. QED
  BY <1>1, <1>2, <1>3 DEF ImageInv

LEMMA ImageNextInv == ImageInv /\ [ImageNext]_allVars => ImageInv'
<1>. SUFFICES ASSUME ImageInv, [ImageNext]_allVars  PROVE ImageInv'
  OBVIOUS
<1>1. [Next]_vars
  BY ImageStep DEF ImageInv, TypeInv, AddressInv
<1>2. TypeInv' /\ Measured
  BY <1>1, TypeNext, MeasuredAlways DEF ImageInv
<1>3. ASSUME NEW p \in Platforms, OpenFile(p)  PROVE ImageInv'
  <2>1. /\ stage = "start" /\ platform' = p /\ stage' \in {"written", "code"}
        /\ isOpen' \in BOOLEAN /\ (isOpen' => stage' = "code")
        /\ UNCHANGED <<vars, file, header>>
    BY <1>3 DEF OpenFile
  <2>2. phase = "text" /\ phase' = "text" /\ file' = <<>>
    BY <2>1 DEF ImageInv, vars
  <2>. QED
    BY <1>2, <2>1, <2>2 DEF ImageInv
<1>4. CASE Emit
  <2>1. stage = "code" /\ UNCHANGED imageVars /\ phase' \in {"text", "data"}
    BY <1>4 DEF Emit, EmitLabel, EmitInst, EmitRelocateBranchInst, EmitRelocateDataInst, EmitNodes, BinaryData
  <2>. QED
    BY <1>2, <2>1, CodeStep
<1>5. CASE Relocate
  <2>1. /\ stage = "code" /\ UNCHANGED imageVars /\ Emitting
        /\ dataStart' = DataSectionVaddrOffset /\ UNCHANGED <<instCount, text>>
    BY <1>5 DEF Relocate, RelocateBinary
  <2>2. TextSize' = TextSize
    BY <2>1 DEF TextSize
  <2>3. platform = "linux" => DataSectionVaddrOffset = AlignTo(TextSize, Page)
    BY <1>2, EntryPage, AlignBehindPage, RelocAssumption DEF DataSectionVaddrOffset, DataEntry, Measured
  <2>4. AlignTo(TextSize, Page)' = AlignTo(TextSize, Page)
    BY <2>2 DEF AlignTo
  <2>. QED
    BY <1>2, <2>1, <2>3, <2>4, CodeStep
<1>6. CASE GetBuffers
  <2>1. stage = "code" /\ UNCHANGED imageVars
    BY <1>6 DEF GetBuffers
  <2>2. phase = "relocated" /\ dataStart' = dataStart /\ TextSize' = TextSize
    <3>1. CASE GetEmittedInstBuffer
      <4>1. /\ phase = "relocated" /\ text = <<>> /\ instCount = Len(instList) /\ Len(instList) \in Nat
            /\ text' = instList /\ instCount' = 0 /\ dataStart' = dataStart
        BY <3>1 DEF GetEmittedInstBuffer, ImageInv, TypeInv, TypeOK
      <4>. QED
        BY <4>1 DEF TextSize
    <3>2. CASE GetEmittedDataBuffer
      BY <3>2 DEF GetEmittedDataBuffer, TextSize
    <3>. QED
      BY <1>6, <3>1, <3>2 DEF GetBuffers
  <2>3. AlignTo(TextSize, Page)' = AlignTo(TextSize, Page)
    BY <2>2 DEF AlignTo
  <2>4. platform = "linux" => dataStart' = AlignTo(TextSize, Page)'
    BY <2>2, <2>3 DEF ImageInv
  <2>. QED
    BY <1>2, <2>1, <2>4, CodeStep
<1>7. CASE WriteImage("linux", ElfHeader, ElfWrites)
  <2>1. After(ElfWrites) = ElfFile
    BY <1>2, ElfFollows, WrittenIs DEF ElfWrites
  <2>. QED
    BY <1>2, <1>7, <2>1, WriteStep
<1>8. CASE WriteImage("windows", PeHeader, PeWrites)
  <2>1. After(PeWrites) = PeFile
    BY <1>2, PeFollows, WrittenIs DEF PeWrites
  <2>. QED
    BY <1>2, <1>8, <2>1, WriteStep
<1>9. CASE WriteImage("macos", MachHeader, MachWrites)
  <2>1. After(MachWrites) = MachFile
    BY <1>2, MachFollows, WrittenIs DEF MachWrites
  <2>. QED
    BY <1>2, <1>9, <2>1, WriteStep
<1>10. CASE CloseFile
  <2>1. /\ stage = "written" /\ stage' = "closed" /\ isOpen' = FALSE
        /\ UNCHANGED <<vars, platform, file, header>>
    BY <1>10 DEF CloseFile
  <2>2. phase' = phase /\ dataStart' = dataStart /\ TextSize' = TextSize
    BY <2>1, SameFiles DEF vars
  <2>3. file' # <<>> => Complete'
    BY <2>1, CompleteStays DEF ImageInv
  <2>. QED
    BY <1>2, <2>1, <2>2, <2>3 DEF ImageInv
<1>11. CASE UNCHANGED allVars
  <2>1. UNCHANGED <<vars, stage, platform, isOpen, file, header>>
    BY <1>11 DEF allVars, imageVars
  <2>2. phase' = phase /\ dataStart' = dataStart /\ TextSize' = TextSize
    BY <2>1, SameFiles DEF vars
  <2>3. file' # <<>> => Complete'
    BY <2>1, CompleteStays DEF ImageInv
  <2>. QED
    BY <1>2, <2>1, <2>2, <2>3 DEF ImageInv
<1>. QED
  BY <1>3, <1>4, <1>5, <1>6, <1>7, <1>8, <1>9, <1>10, <1>11 DEF ImageNext

-----------------------------------------------------------------------------
(* Types.                                                                  *)

(* A complete file is one that calls have written.                         *)
LEMMA CompleteFile ==
  ASSUME Measured, Complete
  PROVE  /\ \E calls : Follows(file, calls)
         /\ file \in Seq(PieceType) /\ phase \in {"relocated", "done"}
<1>1. \E calls : Follows(file, calls)
  BY ElfFollows, PeFollows, MachFollows DEF Complete
<1>. QED
  BY <1>1 DEF Complete, Follows

(* Every file that is written has only pieces with a place and a size in   *)
(* it, and is written when the code is relocated, and the file open.       *)
THEOREM ImageTypeCorrect == ImageSpec => []ImageTypeOK
<1>1. ImageInv => ImageTypeOK
  <2>. SUFFICES ASSUME ImageInv  PROVE ImageTypeOK
    OBVIOUS
  <2>1. Measured /\ TypeOK
    BY MeasuredAlways DEF ImageInv, TypeInv
  <2>2. CASE file = <<>>
    BY <2>1, <2>2 DEF ImageInv, ImageTypeOK
  <2>3. CASE file # <<>>
    <3>1. file \in Seq(PieceType) /\ phase \in {"relocated", "done"} /\ stage \in {"written", "closed"}
      BY <2>1, <2>3, CompleteFile DEF ImageInv
    <3>. QED
      BY <2>1, <3>1 DEF ImageInv, ImageTypeOK, PieceType
  <2>. QED
    BY <2>2, <2>3
<1>. QED
  BY ImageInitInv, ImageNextInv, <1>1, PTL DEF ImageSpec

-----------------------------------------------------------------------------
(* The headers of an ELF file.                                             *)

(* Stretches that begin where the one before ends.                         *)
LEMMA Chain ==
  ASSUME NEW N \in Nat, NEW A \in [1 .. N -> Nat], NEW E \in [1 .. N -> Nat],
         \A k \in 1 .. N : A[k] <= E[k] /\ (k # 1 => A[k] = E[k - 1]),
         NEW i \in 1 .. N, NEW j \in i .. N
  PROVE  A[i] <= A[j] /\ E[i] <= E[j] /\ (i < j => E[i] <= A[j])
<1>. DEFINE Beyond(k) == A[i] <= A[k] /\ E[i] <= E[k] /\ (i < k => E[i] <= A[k])
           n == N - i
           S == {d \in 0 .. n : Beyond(i + d)}
<1>1. n \in Nat /\ i \in Nat /\ j - i \in 0 .. n /\ i + (j - i) = j
  OBVIOUS
<1>2. Beyond(i)
  OBVIOUS
<1>3. ASSUME NEW k \in i .. N, k + 1 \in 1 .. N, Beyond(k)  PROVE Beyond(k + 1)
  <2>1. k \in 1 .. N /\ k + 1 # 1 /\ (k + 1) - 1 = k
    OBVIOUS
  <2>2. A[k + 1] = E[k] /\ A[k + 1] <= E[k + 1] /\ A[k] <= E[k]
    BY <1>3, <2>1
  <2>3. A[k] \in Nat /\ E[k] \in Nat /\ A[k + 1] \in Nat /\ E[k + 1] \in Nat /\ A[i] \in Nat /\ E[i] \in Nat
    BY <1>3, <2>1
  <2>4. A[i] <= A[k] /\ E[i] <= E[k]
    BY <1>3
  <2>5. A[i] <= A[k + 1] /\ E[i] <= E[k + 1] /\ E[i] <= A[k + 1]
    <3>. DEFINE a == A[i]  b == E[i]  c == A[k]  d == E[k]  e == A[k + 1]  g == E[k + 1]
    <3>1. /\ a \in Nat /\ b \in Nat /\ c \in Nat /\ d \in Nat /\ e \in Nat /\ g \in Nat
          /\ a <= c /\ b <= d /\ e = d /\ e <= g /\ c <= d
      BY <2>2, <2>3, <2>4
    <3>. HIDE DEF a, b, c, d, e, g
    <3>2. a <= e /\ b <= g /\ b <= e
      BY <3>1
    <3>. QED
      BY <3>2 DEF a, b, e, g
  <2>. QED
    BY <2>5
<1>4. 0 \in S
  <2>. HIDE DEF Beyond
  <2>1. i + 0 = i /\ 0 \in 0 .. n
    BY <1>1
  <2>. QED
    BY <1>2, <2>1
<1>5. ASSUME NEW d \in 0 .. n - 1, d \in S  PROVE d + 1 \in S
  <2>. HIDE DEF Beyond
  <2>1. i + d \in i .. N /\ (i + d) + 1 \in 1 .. N /\ (i + d) + 1 = i + (d + 1) /\ d + 1 \in 0 .. n
    BY <1>1
  <2>2. Beyond(i + d)
    BY <1>5
  <2>3. Beyond((i + d) + 1)
    BY <1>3, <2>1, <2>2
  <2>. QED
    BY <2>1, <2>3
<1>6. 0 .. n \subseteq S
  <2>. HIDE DEF S
  <2>. QED
    BY <1>1, <1>4, <1>5, UpTo
<1>7. Beyond(j)
  <2>. HIDE DEF Beyond
  <2>1. j - i \in S
    BY <1>1, <1>6
  <2>2. Beyond(i + (j - i))
    BY <2>1
  <2>. QED
    BY <1>1, <2>2
<1>. QED
  BY <1>7

(* Parts that are written later lie further behind.                        *)
LEMMA InOrder ==
  ASSUME NEW f, NEW calls, Follows(f, calls), NEW i \in 1 .. Len(f), NEW j \in i .. Len(f)
  PROVE  /\ f[i].at <= f[j].at /\ End(f[i]) <= End(f[j])
         /\ i < j => End(f[i]) <= f[j].at
<1>1. f \in Seq(PieceType) /\ Len(f) = Len(calls) /\ Len(f) \in Nat
  BY DEF Follows
<1>. DEFINE A == [k \in 1 .. Len(f) |-> f[k].at]  E == [k \in 1 .. Len(f) |-> End(f[k])]
<1>2. ASSUME NEW k \in 1 .. Len(f)
      PROVE  /\ f[k].at \in Nat /\ End(f[k]) \in Nat /\ f[k].at <= End(f[k])
             /\ k # 1 => f[k].at = End(f[k - 1])
  <2>1. f[k] \in PieceType
    BY <1>1
  <2>2. f[k].at = Behind(f, k)
    <3>1. f[k] = Piece(calls[k].part, Behind(f, k), Written(calls[k], Behind(f, k)))
      BY <1>1 DEF Follows
    <3>. QED
      BY <3>1 DEF Piece
  <2>3. f[k].at \in Nat /\ f[k].size \in Nat
    BY <2>1 DEF PieceType
  <2>4. End(f[k]) \in Nat /\ f[k].at <= End(f[k])
    BY <2>3 DEF End
  <2>. QED
    BY <2>2, <2>3, <2>4 DEF Behind
<1>3. A \in [1 .. Len(f) -> Nat] /\ E \in [1 .. Len(f) -> Nat]
  BY <1>2
<1>4. \A k \in 1 .. Len(f) : A[k] <= E[k] /\ (k # 1 => A[k] = E[k - 1])
  <2>. TAKE k \in 1 .. Len(f)
  <2>1. k # 1 => k - 1 \in 1 .. Len(f)
    BY <1>1
  <2>. QED
    BY <1>2, <2>1
<1>5. A[i] <= A[j] /\ E[i] <= E[j] /\ (i < j => E[i] <= A[j])
  <2>. HIDE DEF A, E
  <2>. QED
    BY <1>1, <1>3, <1>4, Chain
<1>6. j \in 1 .. Len(f)
  BY <1>1
<1>. QED
  BY <1>5, <1>6

(* A claim is true if the parts it names are those from lo to hi, and it   *)
(* starts where the first starts, and ends where the last ends.            *)
Covering(claim, lo, hi) ==
  /\ lo \in 1 .. Len(file) /\ hi \in lo .. Len(file)
  /\ claim.at = file[lo].at /\ End(claim) = End(file[hi])
  /\ \A i \in 1 .. Len(file) : file[i].part \in claim.parts <=> i \in lo .. hi

LEMMA Covers ==
  ASSUME NEW calls, Follows(file, calls), NEW claim, NEW lo, NEW hi, Covering(claim, lo, hi)
  PROVE  ClaimTrue(claim)
<1>. USE DEF Covering
<1>1. /\ file \in Seq(PieceType) /\ DOMAIN file = 1 .. Len(file) /\ Len(file) \in Nat
      /\ file # <<>> /\ lo \in Int /\ hi \in Int
  BY DEF Follows
<1>2. FileOffset(file) = End(file[Len(file)])
  BY <1>1 DEF FileOffset
<1>3. End(claim) <= FileOffset(file)
  <2>1. hi \in 1 .. Len(file) /\ Len(file) \in hi .. Len(file)
    BY <1>1
  <2>. QED
    BY <1>2, <2>1, InOrder
<1>4. lo \in DOMAIN file /\ file[lo].part \in claim.parts /\ file[lo].at = claim.at
  BY <1>1
<1>5. ASSUME NEW i \in DOMAIN file
      PROVE  IF file[i].part \in claim.parts
               THEN claim.at <= file[i].at /\ End(file[i]) <= End(claim)
               ELSE End(file[i]) <= claim.at \/ End(claim) <= file[i].at
  <2>1. CASE i < lo
    <3>1. i \in 1 .. Len(file) /\ lo \in i .. Len(file) /\ i \notin lo .. hi
      BY <1>1, <2>1
    <3>. QED
      BY <1>1, <2>1, <3>1, InOrder
  <2>2. CASE i > hi
    <3>1. hi \in 1 .. Len(file) /\ i \in hi .. Len(file) /\ i \notin lo .. hi /\ hi < i
      BY <1>1, <2>2
    <3>. QED
      BY <1>1, <3>1, InOrder
  <2>3. CASE i \in lo .. hi
    <3>1. i \in 1 .. Len(file) /\ i \in lo .. Len(file) /\ hi \in i .. Len(file)
      BY <1>1, <2>3
    <3>2. file[lo].at <= file[i].at /\ End(file[i]) <= End(file[hi])
      BY <3>1, InOrder
    <3>. QED
      BY <2>3, <3>1, <3>2
  <2>. QED
    BY <1>1, <2>1, <2>2, <2>3
<1>. QED
  BY <1>3, <1>4, <1>5 DEF ClaimTrue

(* Where the parts of an ELF file are.                                     *)
ElfParts ==
  <<"Elf64_Ehdr", "Elf64_Phdr", "Elf64_Phdr", "text shdr", "data shdr", "shstrtab shdr",
    "empty", "text", "empty", "data", "empty", "shstrtab">>

LEMMA ElfPlaces ==
  /\ Len(ElfFile) = 12 /\ DOMAIN ElfFile = 1 .. 12
  /\ \A i \in 1 .. 12 : ElfFile[i].part = ElfParts[i]
  /\ ElfFile[2].at = Bytes["Elf64_Ehdr"]
  /\ End(ElfFile[3]) = (Bytes["Elf64_Ehdr"] + Bytes["Elf64_Phdr"]) + Bytes["Elf64_Phdr"]
  /\ ElfFile[4].at = Bytes["Elf64_Ehdr"] + 2 * Bytes["Elf64_Phdr"]
  /\ ElfFile[6].at = Bytes["Elf64_Ehdr"] + 2 * Bytes["Elf64_Phdr"] + 2 * Bytes["Elf64_Shdr"]
  /\ ElfFile[6].size = Bytes["Elf64_Shdr"]
  /\ ElfFile[8].at = Page /\ ElfFile[8].size = TextSize
  /\ ElfFile[10].at = DataEntry /\ ElfFile[10].size = dataOffset
  /\ ElfFile[12].at = AlignTo(DataEntry + dataOffset, Page)
  /\ ElfFile[12].size = Bytes["shstrtab"]
<1>1. Len(ElfFile) = 12 /\ DOMAIN ElfFile = 1 .. 12
  BY DEF ElfFile
<1>2. ASSUME NEW i \in 1 .. 12  PROVE ElfFile[i].part = ElfParts[i]
  <2>1. ElfFile[1].part = ElfParts[1]
    BY DEF ElfFile, ElfParts, Piece, Filled
  <2>2. ElfFile[2].part = ElfParts[2]
    BY DEF ElfFile, ElfParts, Piece, Filled
  <2>3. ElfFile[3].part = ElfParts[3]
    BY DEF ElfFile, ElfParts, Piece, Filled
  <2>4. ElfFile[4].part = ElfParts[4]
    BY DEF ElfFile, ElfParts, Piece, Filled
  <2>5. ElfFile[5].part = ElfParts[5]
    BY DEF ElfFile, ElfParts, Piece, Filled
  <2>6. ElfFile[6].part = ElfParts[6]
    BY DEF ElfFile, ElfParts, Piece, Filled
  <2>7. ElfFile[7].part = ElfParts[7]
    BY DEF ElfFile, ElfParts, Piece, Filled
  <2>8. ElfFile[8].part = ElfParts[8]
    BY DEF ElfFile, ElfParts, Piece, Filled
  <2>9. ElfFile[9].part = ElfParts[9]
    BY DEF ElfFile, ElfParts, Piece, Filled
  <2>10. ElfFile[10].part = ElfParts[10]
    BY DEF ElfFile, ElfParts, Piece, Filled
  <2>11. ElfFile[11].part = ElfParts[11]
    BY DEF ElfFile, ElfParts, Piece, Filled
  <2>12. ElfFile[12].part = ElfParts[12]
    BY DEF ElfFile, ElfParts, Piece, Filled
  <2>. QED
    BY <2>1, <2>2, <2>3, <2>4, <2>5, <2>6, <2>7, <2>8, <2>9, <2>10, <2>11, <2>12
<1>. QED
  BY <1>1, <1>2 DEF ElfFile, Piece, Filled, End

(* Which of its parts have the names that the headers mention.             *)
NameOnlyAt(i) ==
  /\ ElfParts[i] \in {"Elf64_Phdr"} <=> i \in 2 .. 3
  /\ ElfParts[i] \in SectionHeaders <=> i \in 4 .. 6
  /\ ElfParts[i] \in {"shstrtab shdr"} <=> i \in 6 .. 6
  /\ ElfParts[i] \in {"text"} <=> i \in 8 .. 8
  /\ ElfParts[i] \in {"data"} <=> i \in 10 .. 10
  /\ ElfParts[i] \in {"shstrtab"} <=> i \in 12 .. 12

LEMMA ElfNames ==
  \A i \in 1 .. 12 : NameOnlyAt(i)
<1>. TAKE i \in 1 .. 12
<1>1. CASE i = 1
  BY <1>1 DEF NameOnlyAt, ElfParts, SectionHeaders
<1>2. CASE i = 2
  BY <1>2 DEF NameOnlyAt, ElfParts, SectionHeaders
<1>3. CASE i = 3
  BY <1>3 DEF NameOnlyAt, ElfParts, SectionHeaders
<1>4. CASE i = 4
  BY <1>4 DEF NameOnlyAt, ElfParts, SectionHeaders
<1>5. CASE i = 5
  BY <1>5 DEF NameOnlyAt, ElfParts, SectionHeaders
<1>6. CASE i = 6
  BY <1>6 DEF NameOnlyAt, ElfParts, SectionHeaders
<1>7. CASE i = 7
  BY <1>7 DEF NameOnlyAt, ElfParts, SectionHeaders
<1>8. CASE i = 8
  BY <1>8 DEF NameOnlyAt, ElfParts, SectionHeaders
<1>9. CASE i = 9
  BY <1>9 DEF NameOnlyAt, ElfParts, SectionHeaders
<1>10. CASE i = 10
  BY <1>10 DEF NameOnlyAt, ElfParts, SectionHeaders
<1>11. CASE i = 11
  BY <1>11 DEF NameOnlyAt, ElfParts, SectionHeaders
<1>12. CASE i = 12
  BY <1>12 DEF NameOnlyAt, ElfParts, SectionHeaders
<1>. QED
  BY <1>1, <1>2, <1>3, <1>4, <1>5, <1>6, <1>7, <1>8, <1>9, <1>10, <1>11, <1>12

(* With data, the headers of an ELF file are true.                         *)
LEMMA ElfClaims ==
  ASSUME Measured, dataList # <<>>, file = ElfFile, header = ElfHeader
  PROVE  \A claim \in header.claims : ClaimTrue(claim)
<1>. DEFINE e == Bytes["Elf64_Ehdr"]
           p == Bytes["Elf64_Phdr"]
           s == Bytes["Elf64_Shdr"]
           c1 == Claim({"Elf64_Phdr"}, e, 2 * p)
           c2 == Claim(SectionHeaders, e + 2 * p, 3 * s)
           c3 == Claim({"shstrtab shdr"}, e + 2 * p + 2 * s, s)
           c4 == Claim({"text"}, Page, TextSize)
           c5 == Claim({"data"}, DataEntry, dataOffset)
           c6 == Claim({"shstrtab"}, AlignTo(DataEntry + dataOffset, Page), Bytes["shstrtab"])
<1>1. e \in Nat /\ p \in Nat /\ s \in Nat
  BY ImageAssumption DEF Structs
<1>2. header.claims = {c1, c2, c3, c4, c5, c6}
  <2>1. SectionCount = 2 /\ ProgramEntry = Page
    BY EntryPage DEF SectionCount
  <2>2. /\ SectionCount * p = 2 * p /\ (SectionCount + 1) * s = 3 * s
        /\ e + SectionCount * p = e + 2 * p
        /\ e + SectionCount * p + ((SectionCount + 1) - 1) * s = e + 2 * p + 2 * s
    BY <1>1, <2>1
  <2>. QED
    BY <2>1, <2>2 DEF ElfHeader
<1>3. Follows(file, ElfWrites) /\ Len(file) = 12
  BY ElfFollows, ElfPlaces
<1>4. \A i \in 1 .. 12 : file[i].part = ElfParts[i]
  BY ElfPlaces
<1>5. /\ file[2].at = e /\ End(file[3]) = e + 2 * p
      /\ file[4].at = e + 2 * p /\ file[6].at = e + 2 * p + 2 * s
      /\ End(file[6]) = e + 2 * p + 3 * s
  <2>1. /\ file[2].at = e /\ End(file[3]) = (e + p) + p
        /\ file[4].at = e + 2 * p /\ file[6].at = e + 2 * p + 2 * s /\ file[6].size = s
    BY ElfPlaces
  <2>2. End(file[6]) = (e + 2 * p + 2 * s) + s
    BY <2>1 DEF End
  <2>. HIDE DEF e, p, s
  <2>3. (e + p) + p = e + 2 * p /\ (e + 2 * p + 2 * s) + s = e + 2 * p + 3 * s
    BY <1>1
  <2>. QED
    BY <2>1, <2>2, <2>3
<1>6. ClaimTrue(c1)
  <2>1. c1.parts = {"Elf64_Phdr"} /\ c1.at = file[2].at /\ End(c1) = End(file[3])
    BY <1>5 DEF Claim, End
  <2>2. \A i \in 1 .. Len(file) : file[i].part \in {"Elf64_Phdr"} <=> i \in 2 .. 3
    BY <1>3, <1>4, ElfNames DEF NameOnlyAt
  <2>. HIDE DEF c1
  <2>3. Covering(c1, 2, 3)
    BY <1>3, <2>1, <2>2 DEF Covering
  <2>. QED
    BY <1>3, <2>3, Covers
<1>7. ClaimTrue(c2)
  <2>1. c2.parts = SectionHeaders /\ c2.at = file[4].at /\ End(c2) = End(file[6])
    BY <1>5 DEF Claim, End
  <2>2. \A i \in 1 .. Len(file) : file[i].part \in SectionHeaders <=> i \in 4 .. 6
    BY <1>3, <1>4, ElfNames DEF NameOnlyAt
  <2>. HIDE DEF c2
  <2>3. Covering(c2, 4, 6)
    BY <1>3, <2>1, <2>2 DEF Covering
  <2>. QED
    BY <1>3, <2>3, Covers
<1>8. ClaimTrue(c3)
  <2>1. c3.parts = {"shstrtab shdr"} /\ c3.at = file[6].at /\ End(c3) = End(file[6])
    BY ElfPlaces DEF Claim, End
  <2>2. \A i \in 1 .. Len(file) : file[i].part \in {"shstrtab shdr"} <=> i \in 6 .. 6
    BY <1>3, <1>4, ElfNames DEF NameOnlyAt
  <2>. HIDE DEF c3
  <2>3. Covering(c3, 6, 6)
    <3>1. 6 \in 1 .. Len(file) /\ 6 \in 6 .. Len(file)
      BY <1>3
    <3>2. \A i \in 1 .. Len(file) : file[i].part \in c3.parts <=> i \in 6 .. 6
      BY <2>1, <2>2
    <3>. QED
      BY <2>1, <3>1, <3>2 DEF Covering
  <2>. QED
    BY <1>3, <2>3, Covers
<1>9. ClaimTrue(c4)
  <2>1. c4.parts = {"text"} /\ c4.at = file[8].at /\ End(c4) = End(file[8])
    BY ElfPlaces DEF Claim, End
  <2>2. \A i \in 1 .. Len(file) : file[i].part \in {"text"} <=> i \in 8 .. 8
    BY <1>3, <1>4, ElfNames DEF NameOnlyAt
  <2>. HIDE DEF c4
  <2>3. Covering(c4, 8, 8)
    BY <1>3, <2>1, <2>2 DEF Covering
  <2>. QED
    BY <1>3, <2>3, Covers
<1>10. ClaimTrue(c5)
  <2>1. c5.parts = {"data"} /\ c5.at = file[10].at /\ End(c5) = End(file[10])
    BY ElfPlaces DEF Claim, End
  <2>2. \A i \in 1 .. Len(file) : file[i].part \in {"data"} <=> i \in 10 .. 10
    BY <1>3, <1>4, ElfNames DEF NameOnlyAt
  <2>. HIDE DEF c5
  <2>3. Covering(c5, 10, 10)
    BY <1>3, <2>1, <2>2 DEF Covering
  <2>. QED
    BY <1>3, <2>3, Covers
<1>11. ClaimTrue(c6)
  <2>1. c6.parts = {"shstrtab"} /\ c6.at = file[12].at /\ End(c6) = End(file[12])
    BY ElfPlaces DEF Claim, End
  <2>2. \A i \in 1 .. Len(file) : file[i].part \in {"shstrtab"} <=> i \in 12 .. 12
    BY <1>3, <1>4, ElfNames DEF NameOnlyAt
  <2>. HIDE DEF c6
  <2>3. Covering(c6, 12, 12)
    BY <1>3, <2>1, <2>2 DEF Covering
  <2>. QED
    BY <1>3, <2>3, Covers
<1>. QED
  BY <1>2, <1>6, <1>7, <1>8, <1>9, <1>10, <1>11

(* In every ELF file with data, the program and section headers, the text, *)
(* the data and the names are where the headers say, and nothing else is:  *)
(* the places generateElfArm64 computes are those its writes come to.      *)
THEOREM HeadersSafe == ImageSpec => []ElfHeadersTrue
<1>1. ImageInv => ElfHeadersTrue
  <2>. SUFFICES ASSUME ImageInv, platform = "linux", dataList # <<>>, Finished,
                       NEW claim \in header.claims
                PROVE  ClaimTrue(claim)
    BY DEF ElfHeadersTrue, HeadersTrue
  <2>1. Measured
    BY MeasuredAlways DEF ImageInv
  <2>2. file = ElfFile /\ header = ElfHeader
    BY DEF Finished, ImageInv, Complete
  <2>. QED
    BY <2>1, <2>2, ElfClaims
<1>. QED
  BY ImageInitInv, ImageNextInv, <1>1, PTL DEF ImageSpec

-----------------------------------------------------------------------------
(* Loading.                                                                *)

(* A number has one quotient.                                              *)
LEMMA OneQuotient ==
  ASSUME NEW P \in Nat \ {0}, NEW q \in Nat, NEW r \in 0 .. P - 1
  PROVE  (P * q + r) \div P = q /\ (P * q + r) % P = r
<1>. DEFINE n == P * q + r
           d == n \div P
           m == n % P
<1>1. n \in Nat
  OBVIOUS
<1>2. d \in Int /\ m \in 0 .. P - 1 /\ n = P * d + m
  <2>. HIDE DEF n
  <2>. QED
    BY <1>1
<1>3. d \in Nat
  <2>1. PICK k \in Nat, t \in 0 .. P - 1 : n = P * k + t /\ t = n % P
    BY <1>1, DivMod
  <2>. HIDE DEF d, m, n
  <2>2. CASE d < 0
    <3>1. PICK e \in Nat : d = -1 - e
      <4>1. -1 - d \in Nat /\ d = -1 - (-1 - d)
        BY <1>2, <2>2
      <4>. QED
        BY <4>1
    <3>2. P * d = -P - P * e /\ P * e \in Nat
      BY <3>1
    <3>. QED
      BY <1>1, <1>2, <3>2
  <2>. QED
    BY <1>2, <2>2
<1>4. P * d + m = P * q + r
  BY <1>2
<1>. HIDE DEF d, m
<1>5. ~ d < q /\ ~ q < d
  BY <1>2, <1>3, <1>4, OneRemainder
<1>6. d = q
  BY <1>3, <1>5
<1>7. m = r
  <2>1. P * q + m = P * q + r /\ P * q \in Nat
    BY <1>4, <1>6
  <2>. QED
    BY <1>2, <2>1
<1>. QED
  BY <1>6, <1>7 DEF d, m

(* AlignTo finds the smallest multiple that is not smaller.                *)
LEMMA AlignRounds ==
  ASSUME NEW P \in Nat \ {0}, NEW n \in Nat
  PROVE  AlignTo(n, P) = Rounded(n, P)
<1>1. PICK q \in Nat, r \in 0 .. P - 1 : n = P * q + r /\ r = n % P
  BY DivMod
<1>2. CASE r = 0
  <2>1. P - 1 \in 0 .. P - 1 /\ n + P - 1 = P * q + (P - 1)
    BY <1>1, <1>2
  <2>2. (n + P - 1) \div P = q
    BY <2>1, OneQuotient
  <2>3. q * P = P * q /\ n = P * q
    BY <1>1, <1>2
  <2>. QED
    BY <1>1, <1>2, <2>2, <2>3 DEF AlignTo, Rounded
<1>3. CASE r # 0
  <2>1. r - 1 \in 0 .. P - 1 /\ q + 1 \in Nat /\ n + P - 1 = P * (q + 1) + (r - 1)
    BY <1>1, <1>3
  <2>2. (n + P - 1) \div P = q + 1
    BY <2>1, OneQuotient
  <2>3. n + P - r = (q + 1) * P
    BY <1>1
  <2>. QED
    BY <1>1, <1>3, <2>2, <2>3 DEF AlignTo, Rounded
<1>. QED
  BY <1>2, <1>3

(* In every file the text is where its segment expects it, the program is  *)
(* entered at its first instruction, and segments are on pages of their    *)
(* own.                                                                    *)
LEMMA ElfLoadable ==
  ASSUME Measured, file = ElfFile, header = ElfHeader
  PROVE  Loadable
<1>. DEFINE t == TextSize  d == dataOffset  at == DataEntry
           first == Segment(0, 0, Page + t)
           second == Segment(at, at, d)
<1>1. header.segments = {first, second} /\ header.entry = Page
  BY EntryPage DEF ElfHeader
<1>2. 8 \in DOMAIN file /\ file[8].part = "text" /\ file[8].at = Page /\ file[8].size = t
  <2>1. ElfParts[8] = "text" /\ 8 \in 1 .. 12
    BY DEF ElfParts
  <2>2. file[8].part = "text"
    BY <2>1, ElfPlaces
  <2>. QED
    BY <2>1, <2>2, ElfPlaces
<1>3. t \in Nat /\ d \in Nat /\ Page \in Nat /\ at = AlignTo(Page + t, Page) /\ at \in Nat
  <2>1. t \in Nat /\ d \in Nat /\ Page \in Nat \ {0}
    BY RelocAssumption DEF Measured
  <2>2. at = AlignTo(Page + t, Page)
    BY EntryPage DEF DataEntry
  <2>3. Page + t \in Nat
    BY <2>1
  <2>. HIDE DEF t, d, at
  <2>. QED
    BY <2>1, <2>2, <2>3, AlignToNat
<1>. HIDE DEF t, d, at
<1>4. /\ first.at <= file[8].at /\ End(file[8]) <= first.at + first.size
      /\ header.entry = first.vaddr + file[8].at - first.at
  BY <1>1, <1>2, <1>3 DEF Segment, End
<1>5. ASSUME NEW s \in header.segments, NEW u \in header.segments, s.vaddr < u.vaddr
      PROVE  AlignTo(s.vaddr + s.size, Page) <= u.vaddr
  <2>1. first.vaddr = 0 /\ first.size = Page + t /\ second.vaddr = at
    BY DEF Segment
  <2>2. s = first /\ u = second
    BY <1>1, <1>3, <1>5, <2>1
  <2>3. first.vaddr + first.size = Page + t
    BY <1>3, <2>1
  <2>. QED
    BY <1>3, <2>1, <2>2, <2>3
<1>. QED
  BY <1>1, <1>2, <1>4, <1>5 DEF Loadable

LEMMA PeLoadable ==
  ASSUME Measured, file = PeFile, header = PeHeader
  PROVE  Loadable
<1>. DEFINE h == Bytes["PeHeader"]
           s == Bytes["SectionHeader"]
           a == FileAlignment["windows"]
           t == TextSize
           at == AlignTo(h + s, a)
           size == AlignTo(t, a)
           vaddr == AlignTo(h + SectionCount * s, RamAlignment["windows"])
           only == Segment(at, vaddr, size)
<1>1. h \in Nat /\ s \in Nat /\ a \in Nat \ {0} /\ t \in Nat /\ RamAlignment["windows"] \in Nat \ {0}
  BY ImageAssumption DEF Structs, Measured
<1>2. SectionCount \in {1, 2}
  BY DEF SectionCount
<1>3. AlignTo(h + SectionCount * s, a) = at
  <2>1. Rounded(h + s, a) = Rounded(h + 2 * s, a)
    BY ImageAssumption
  <2>. HIDE DEF h, s, a
  <2>2. h + s \in Nat /\ h + 2 * s \in Nat /\ 1 * s = s
    BY <1>1
  <2>3. AlignTo(h + s, a) = AlignTo(h + 2 * s, a)
    BY <1>1, <2>1, <2>2, AlignRounds
  <2>. QED
    BY <1>2, <2>2, <2>3
<1>4. header.segments = {only} /\ header.entry = vaddr
  BY <1>3 DEF PeHeader
<1>5. 4 \in DOMAIN file /\ file[4].part = "text" /\ file[4].at = at /\ file[4].size = t
  BY DEF PeFile, Piece
<1>6. at \in Nat /\ vaddr \in Nat /\ t <= size /\ size \in Nat
  <2>. HIDE DEF h, s, a, t
  <2>1. h + s \in Nat /\ h + SectionCount * s \in Nat
    BY <1>1, <1>2
  <2>. QED
    BY <1>1, <2>1, AlignToNat
<1>. HIDE DEF at, vaddr, size, t
<1>7. /\ only.at <= file[4].at /\ End(file[4]) <= only.at + only.size
      /\ header.entry = only.vaddr + file[4].at - only.at
  BY <1>1, <1>4, <1>5, <1>6 DEF Segment, End
<1>8. ~ only.vaddr < only.vaddr
  BY <1>6 DEF Segment
<1>. QED
  BY <1>4, <1>5, <1>7, <1>8 DEF Loadable

LEMMA MachLoadable ==
  ASSUME Measured, file = MachFile, header = MachHeader
  PROVE  Loadable
<1>. DEFINE t == TextSize
           at == CodeFileAddr
           size == AlignTo(at + t, RamAlignment["macos"])
           only == Segment(0, 0, size)
<1>1. header.segments = {only} /\ header.entry = at
  BY DEF MachHeader
<1>2. 7 \in DOMAIN file /\ file[7].part = "text" /\ file[7].at = at /\ file[7].size = t
  BY DEF MachFile, Piece
<1>3. at \in Nat /\ t \in Nat /\ at + t <= size /\ size \in Nat
  <2>. DEFINE n == Bytes["mach_header_64"] + 2 * Bytes["segment_command_64"]
                     + Bytes["entry_point_command"] + Bytes["section_64"]
  <2>1. n \in Nat /\ FileAlignment["macos"] \in Nat \ {0} /\ RamAlignment["macos"] \in Nat \ {0} /\ t \in Nat
    BY ImageAssumption DEF Structs, Measured
  <2>2. at = AlignTo(n, FileAlignment["macos"])
    BY DEF CodeFileAddr
  <2>. HIDE DEF n, t, at
  <2>3. at \in Nat
    BY <2>1, <2>2, AlignToNat
  <2>4. at + t \in Nat
    BY <2>1, <2>3
  <2>. QED
    BY <2>1, <2>3, <2>4, AlignToNat
<1>. HIDE DEF at, size, t
<1>4. /\ only.at <= file[7].at /\ End(file[7]) <= only.at + only.size
      /\ header.entry = only.vaddr + file[7].at - only.at
  BY <1>1, <1>2, <1>3 DEF Segment, End
<1>5. ~ only.vaddr < only.vaddr
  BY DEF Segment
<1>. QED
  BY <1>1, <1>2, <1>4, <1>5 DEF Loadable

(* Every file of every platform can be loaded by what its headers say: for *)
(* PE files since a second section header does not move the text, for      *)
(* Mach-O files since the text is placed behind all that is written before *)
(* it, whatever sizeofcmds counts.                                         *)
THEOREM LoadableSafe == ImageSpec => []Loadable
<1>1. ImageInv => Loadable
  <2>. SUFFICES ASSUME ImageInv, Finished  PROVE Loadable
    BY DEF Loadable
  <2>1. Measured /\ Complete
    BY MeasuredAlways DEF ImageInv, Finished
  <2>. QED
    BY <2>1, ElfLoadable, PeLoadable, MachLoadable DEF Complete
<1>. QED
  BY ImageInitInv, ImageNextInv, <1>1, PTL DEF ImageSpec

(* In an ELF file the code looks for its data where the loader has put it: *)
(* the distance relocateBinary was given is the one between the two        *)
(* sections in the file, whose first is one page from its start.           *)
THEOREM DataSafe == ImageSpec => []DataWhereCodeLooks
<1>1. ImageInv => DataWhereCodeLooks
  <2>. SUFFICES ASSUME ImageInv, Finished, platform = "linux",
                       NEW i \in DOMAIN text, text[i].kind = "data"
                PROVE  \E k \in DOMAIN dataList, j \in DOMAIN file, s \in header.segments :
                         /\ IsFirst(dataList, k, text[i].label)
                         /\ file[j].part = "data"
                         /\ s.at <= file[j].at /\ End(file[j]) <= s.at + s.size
                         /\ header.entry + Address(i) = s.vaddr + (file[j].at + starts[k]) - s.at
    BY DEF DataWhereCodeLooks
  <2>1. Measured /\ phase = "done" /\ file = ElfFile /\ header = ElfHeader
    BY MeasuredAlways DEF ImageInv, Finished, Complete
  <2>. DEFINE at == DataEntry  t == TextSize
             second == Segment(at, at, dataOffset)
  <2>2. second \in header.segments /\ header.entry = Page
    BY <2>1, EntryPage DEF ElfHeader
  <2>3. 10 \in DOMAIN file /\ file[10].part = "data" /\ file[10].at = at /\ file[10].size = dataOffset
    <3>1. ElfParts[10] = "data" /\ 10 \in 1 .. 12
      BY DEF ElfParts
    <3>2. file[10].part = "data"
      BY <2>1, <3>1, ElfPlaces
    <3>. QED
      BY <2>1, <3>1, <3>2, ElfPlaces
  <2>4. t \in Nat /\ dataOffset \in Nat /\ Page \in Nat \ {0}
    BY <2>1, RelocAssumption DEF Measured
  <2>5. dataStart = AlignTo(t, Page) /\ at = AlignTo(Page + t, Page)
    BY <2>1, EntryPage DEF ImageInv, DataEntry
  <2>6. 4 * Len(text) <= t
    <3>1. Len(text) \in Nat /\ instCount \in Nat
      BY DEF ImageInv, TypeInv, TypeOK
    <3>. QED
      BY <3>1 DEF TextSize
  <2>. HIDE DEF at, t
  <2>7. dataStart \in Nat /\ t <= dataStart /\ at = Page + dataStart
    <3>1. dataStart \in Nat /\ t <= dataStart
      BY <2>4, <2>5, AlignToNat
    <3>2. AlignTo(Page + t, Page) - Page = AlignTo(t, Page)
      BY <2>4, AlignBehindPage
    <3>3. AlignTo(Page + t, Page) \in Nat
      <4>1. Page + t \in Nat
        BY <2>4
      <4>. QED
        BY <2>4, <4>1, AlignToNat
    <3>. QED
      BY <2>4, <2>5, <3>1, <3>2, <3>3
  <2>8. dataStart >= 4 * Len(text)
    <3>1. Len(text) \in Nat
      BY DEF ImageInv, TypeInv, TypeOK
    <3>. QED
      BY <2>4, <2>6, <2>7, <3>1
  <2>9. PICK k \in DOMAIN dataList :
          IsFirst(dataList, k, text[i].label) /\ Address(i) = dataStart + starts[k]
    <3>1. Addressed(text, i)
      BY DEF ImageInv, TypeInv, AddressInv
    <3>. QED
      BY <2>1, <2>8, <3>1 DEF Addressed, Address, ImageInv, TypeInv, AddressInv
  <2>10. starts[k] \in Nat
    <3>1. starts[k] = dataList[k].offset /\ dataList \in Seq(Datum)
      BY <2>1, <2>9 DEF ImageInv, TypeInv, AddressInv, Offsets
    <3>2. dataList[k] \in Datum
      BY <2>9, <3>1, Element
    <3>. QED
      BY <3>1, <3>2 DEF Datum
  <2>11. /\ second.at <= file[10].at /\ End(file[10]) <= second.at + second.size
         /\ header.entry + Address(i) = second.vaddr + (file[10].at + starts[k]) - second.at
    BY <2>2, <2>3, <2>4, <2>7, <2>9, <2>10 DEF Segment, End
  <2>. QED
    BY <2>2, <2>3, <2>9, <2>11
<1>. QED
  BY ImageInitInv, ImageNextInv, <1>1, PTL DEF ImageSpec

=============================================================================

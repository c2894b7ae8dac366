------------------------------- MODULE Reloc -------------------------------
(***************************************************************************)
(* Labels, branches and data addresses of the emitted program              *)
(* (generator/arm64/binary_arm64.cpp).  Instructions are collected in a    *)
(* list before the addresses they refer to are known; relocateBinary then  *)
(* fills in every branch and every ADRP/ADD pair, and getEmittedInstBuffer *)
(* and getEmittedDataBuffer turn the lists into the sections of the file.  *)
(*                                                                         *)
(* The program emits an arbitrary sequence of labels, instructions and     *)
(* data.  An encoded instruction is its opcode and its immediate field;    *)
(* the fields keep their widths.  INST_ADR, which no caller emits, is left *)
(* out.                                                                    *)
(***************************************************************************)
EXTENDS Integers, Sequences

CONSTANTS
  Labels,      \* labels of the text section
  DataLabels,  \* labels of the data section
  Sizes,       \* sizes of the data elements in bytes
  Reach,       \* half the range of the immediate of each branch: 2^18, 2^25
  Page,        \* the bytes of a page of ADRP, 4096
  MaxInsts,    \* bound on the instructions of a program
  MaxLabels,   \* bound on its labels
  MaxData      \* bound on its data elements

Branches == {"INST_BC", "INST_B", "INST_BL"}

ASSUME RelocAssumption ==
  /\ Sizes \subseteq Nat
  /\ Reach \in [Branches -> Nat \ {0}]
  /\ Page \in Nat \ {0}
  /\ MaxInsts \in Nat /\ MaxLabels \in Nat /\ MaxData \in Nat

VARIABLES
  phase,        \* "text", "data", "relocated", "done", or "exit" after an exit(-1)
  instList,     \* instListHead: the instructions, each with its index
  instCount,
  labelList,    \* labelListHead
  dataList,     \* dataListHead
  dataOffset,
  dataStart,    \* dataSectionVaddrOffset, where relocation puts the data
  text,         \* the nodes in the buffer of getEmittedInstBuffer
  starts        \* where each element starts in that of getEmittedDataBuffer

vars == <<phase, instList, instCount, labelList, dataList, dataOffset,
          dataStart, text, starts>>

-----------------------------------------------------------------------------
(* Encoded instructions.                                                   *)

Code(op, imm) == [op |-> op, imm |-> imm]
Plain   == Code("plain", 0)   \* an instruction without an address
Zero    == Code("zero", 0)    \* the word 0
Corrupt == Code("corrupt", 0) \* an immediate that runs over the opcode

\* The w-valued field of a two's complement number, and back.
Field(n, w)  == n % w
Signed(f, w) == IF f < w \div 2 THEN f ELSE f - w

\* Faulty: the bound of the range is let through.
BranchOffByOne(op, offset) ==
  IF offset < -Reach[op] \/ offset > Reach[op] THEN Zero
  ELSE Code(op, Field(offset, 2 * Reach[op]))

\* Faulty: a negative offset is not cut to its field.
BranchUnmasked(op, offset) ==
  IF offset < -Reach[op] \/ offset >= Reach[op] THEN Zero ELSE Code(op, offset)

\* realBinaryOpBranch: 0 when the label is out of reach; offset in instructions.
RealBinaryOpBranch(op, offset) ==
  IF offset < -Reach[op] \/ offset >= Reach[op] THEN Zero
  ELSE Code(op, Field(offset, 2 * Reach[op]))

\* realBinaryOpAdr: the page difference is not cut to its field.
RealBinaryOpAdr(pages) == IF pages < 0 THEN Corrupt ELSE Code("INST_ADRP", pages)

-----------------------------------------------------------------------------
\* generateArm64Target emits the text of all methods, then the data.
Emitting == phase \in {"text", "data"}

Node(index, kind, label, op, inst) ==
  [index |-> index, kind |-> kind, label |-> label, op |-> op, inst |-> inst,
   needRelocation |-> kind # "plain"]

\* at is where the label really stands.
EmitLabel(l) ==
  /\ phase = "text" /\ Len(labelList) < MaxLabels
  /\ labelList' = Append(labelList, [label |-> l, index |-> instCount,
                                     at |-> Len(instList)])
  /\ UNCHANGED <<phase, instList, instCount, dataList, dataOffset, dataStart,
                 text, starts>>

\* Faulty: the second node of an emit call is not counted.
EmitCountingOnce(nodes) ==
  /\ phase = "text" /\ Len(instList) + Len(nodes) <= MaxInsts
  /\ instList' = instList \o nodes
  /\ instCount' = instCount + 1
  /\ UNCHANGED <<phase, labelList, dataList, dataOffset, dataStart, text, starts>>

\* The nodes of one emit call, appended in order.
EmitNodes(nodes) ==
  /\ phase = "text" /\ Len(instList) + Len(nodes) <= MaxInsts
  /\ instList' = instList \o nodes
  /\ instCount' = instCount + Len(nodes)
  /\ UNCHANGED <<phase, labelList, dataList, dataOffset, dataStart, text, starts>>

NoLabel == "none"

EmitInst == EmitNodes(<<Node(instCount, "plain", NoLabel, NoLabel, Plain)>>)

EmitRelocateBranchInst(op, l) ==
  EmitNodes(<<Node(instCount, "branch", l, op, Zero)>>)

\* emitRelocateDataInst of an ADRP: a second node is reserved for the ADD.
EmitRelocateDataInst(l) ==
  EmitNodes(<<Node(instCount, "data", l, "INST_ADRP", Zero),
              Node(instCount + 1, "fix", NoLabel, NoLabel, Zero)>>)

BinaryData(l, size) ==
  /\ Emitting /\ Len(dataList) < MaxData
  /\ dataList' = Append(dataList, [label |-> l, offset |-> dataOffset, size |-> size])
  /\ dataOffset' = dataOffset + size
  /\ phase' = "data"
  /\ UNCHANGED <<instList, instCount, labelList, dataStart, text, starts>>

-----------------------------------------------------------------------------
\* The first entry of a list with the label, as getLabelIndex and getDataOffset
\* find it.
IsFirst(list, i, l) ==
  /\ i \in DOMAIN list /\ list[i].label = l
  /\ \A j \in DOMAIN list : j < i => list[j].label # l

Defined(list, l) == \E i \in DOMAIN list : IsFirst(list, i, l)

GetLabelIndex(l) == labelList[CHOOSE i \in DOMAIN labelList : IsFirst(labelList, i, l)].index
GetDataOffset(l) == dataList[CHOOSE i \in DOMAIN dataList : IsFirst(dataList, i, l)].offset

PageOf(byte) == byte \div Page

\* Faulty: the page of the data is taken relative to the instruction itself.
AdrpUnpaged(node, start) ==
  RealBinaryOpAdr((start + GetDataOffset(node.label) - 4 * node.index) \div Page)

AdrpOf(node, start) ==
  RealBinaryOpAdr(PageOf(start + GetDataOffset(node.label)) - PageOf(4 * node.index))

AddOf(node, start) == Code("INST_ADD", (start + GetDataOffset(node.label)) % Page)

\* What relocateBinary makes of node i.  An ADRP makes the node after it.
Relocated(i, start) ==
  LET node == instList[i] IN
  CASE node.kind = "branch" ->
         RealBinaryOpBranch(node.op, GetLabelIndex(node.label) - node.index)
    [] node.kind = "data"   -> AdrpOf(node, start)
    [] node.kind = "fix"    -> AddOf(instList[i - 1], start)
    [] OTHER                -> node.inst

Resolvable ==
  \A i \in DOMAIN instList :
    /\ instList[i].kind = "branch" => Defined(labelList, instList[i].label)
    /\ instList[i].kind = "data" =>
         /\ Defined(dataList, instList[i].label)
         /\ i + 1 \in DOMAIN instList /\ instList[i + 1].needRelocation

AlignTo(value, alignment) ==
  IF value % alignment = 0 THEN value ELSE value + alignment - (value % alignment)

(* relocateBinary.  An unknown label ends the compiler.  The data section  *)
(* is placed behind the text by generateElfArm64, and at the start of the  *)
(* text by generatePeArm64 and generateMachoArm64.                         *)
RelocateBinary(start) ==
  /\ Emitting /\ instCount > 0
  /\ dataStart' = start
  /\ IF Resolvable
       THEN /\ phase' = "relocated"
            /\ instList' = [i \in DOMAIN instList |->
                              [instList[i] EXCEPT !.inst = Relocated(i, start),
                                                  !.needRelocation = FALSE]]
       ELSE /\ phase' = "exit"
            /\ UNCHANGED instList
  /\ UNCHANGED <<instCount, labelList, dataList, dataOffset, text, starts>>

GetEmittedInstBuffer ==
  /\ phase = "relocated" /\ instList # <<>>
  /\ text' = instList
  /\ instList' = <<>>
  /\ instCount' = 0
  /\ UNCHANGED <<phase, labelList, dataList, dataOffset, dataStart, starts>>

\* The elements are copied end to end, whatever offsets they were given.
GetEmittedDataBuffer ==
  LET end[i \in 0 .. Len(dataList)] ==
        IF i = 0 THEN 0 ELSE end[i - 1] + dataList[i].size
  IN
  /\ phase = "relocated" /\ instList = <<>>
  /\ phase' = IF end[Len(dataList)] = dataOffset THEN "done" ELSE "exit"
  /\ starts' = [i \in DOMAIN dataList |-> end[i - 1]]
  /\ UNCHANGED <<instList, instCount, labelList, dataList, dataOffset,
                 dataStart, text>>

Init ==
  /\ phase = "text"
  /\ instList = <<>> /\ instCount = 0
  /\ labelList = <<>>
  /\ dataList = <<>> /\ dataOffset = 0
  /\ dataStart = 0
  /\ text = <<>> /\ starts = <<>>

Next ==
  \/ \E l \in Labels : EmitLabel(l)
  \/ EmitInst
  \/ \E op \in Branches, l \in Labels : EmitRelocateBranchInst(op, l)
  \/ \E l \in DataLabels : EmitRelocateDataInst(l)
  \/ \E l \in DataLabels, size \in Sizes : BinaryData(l, size)
  \/ \E start \in {AlignTo(4 * instCount, Page), 0} : RelocateBinary(start)
  \/ GetEmittedInstBuffer
  \/ GetEmittedDataBuffer

Spec == Init /\ [][Next]_vars

-----------------------------------------------------------------------------
Codes == [op : Branches \cup {"plain", "zero", "corrupt", "INST_ADRP", "INST_ADD"},
          imm : Nat]

NodeType == [index : Nat, kind : {"plain", "branch", "data", "fix"},
             label : Labels \cup DataLabels \cup {NoLabel},
             op : Branches \cup {"INST_ADRP", NoLabel}, inst : Codes,
             needRelocation : BOOLEAN]

TypeOK ==
  /\ phase \in {"text", "data", "relocated", "done", "exit"}
  /\ instList \in Seq(NodeType)
  /\ text \in Seq(NodeType)
  /\ instCount \in Nat
  /\ labelList \in Seq([label : Labels, index : Nat, at : Nat])
  /\ dataList \in Seq([label : DataLabels, offset : Nat, size : Sizes])
  /\ dataOffset \in Nat
  /\ dataStart \in Nat
  /\ starts \in Seq(Nat)

\* Where the branch at position i of the text goes.
Target(i) == i - 1 + Signed(text[i].inst.imm, 2 * Reach[text[i].op])

(* Every branch of the finished text goes to where its label stands, the   *)
(* first one of that name; one whose label is out of reach has become the  *)
(* word 0 and not a branch elsewhere.                                      *)
BranchesLand ==
  \A i \in DOMAIN text :
    text[i].kind = "branch" =>
      \E k \in DOMAIN labelList :
        /\ IsFirst(labelList, k, text[i].label)
        /\ \/ text[i].inst.op = text[i].op /\ Target(i) = labelList[k].at
           \/ /\ text[i].inst = Zero
              /\ labelList[k].at - (i - 1) \notin -Reach[text[i].op] .. Reach[text[i].op] - 1

\* The address the ADRP at position i and the ADD after it compute.
Address(i) ==
  (PageOf(4 * (i - 1)) + text[i].inst.imm) * Page + text[i + 1].inst.imm

(* With the data behind the text, every ADRP is followed by its ADD and    *)
(* the two compute where the data of the label starts in the data section. *)
AddressesLand ==
  phase = "done" /\ dataStart >= 4 * Len(text) =>
    \A i \in DOMAIN text :
      text[i].kind = "data" =>
        /\ text[i].inst.op = "INST_ADRP" /\ text[i + 1].inst.op = "INST_ADD"
        /\ \E k \in DOMAIN dataList :
             /\ IsFirst(dataList, k, text[i].label)
             /\ Address(i) = dataStart + starts[k]

=============================================================================

------------------------------- MODULE Frame -------------------------------
(***************************************************************************)
(* The stack frame of a generated method                                   *)
(* (generator/arm64/assembler_arm64.cpp).  generateText computes the size  *)
(* of the frame before it generates the body, stores the parameters to     *)
(* their slots and lets every variable have a slot at its first            *)
(* assignment.  Slots are handed out downwards from the saved X29 and X30, *)
(* one 8 byte cell each, and are found again by the name of the variable.  *)
(* The list of slots is never emptied: a method still finds the slots of   *)
(* the methods before it.                                                  *)
(*                                                                         *)
(* The model generates a sequence of arbitrary methods.  What a code does  *)
(* to registers is RegCache's subject; here a code is the variable it      *)
(* assigns, the variables it reads and the width of its loads and stores.  *)
(* Whether a variable is cached in a register is arbitrary.                *)
(***************************************************************************)
EXTENDS Integers, Sequences, FiniteSets

CONSTANTS
  Names,       \* the variables of all methods; methods may share names
  Bytes,       \* MirMethodParam.byte: 1, 2, 4 or 8, 1 for a pointer
  MaxParams,   \* bound on the parameters of a method
  MaxMethods   \* bound on the methods of a program

ASSUME FrameAssumption ==
  /\ IsFiniteSet(Names)
  /\ Bytes \subseteq {1, 2, 4, 8}
  /\ MaxParams \in Nat
  /\ MaxMethods \in Nat

Widths == {4, 8}     \* ARM_BLOCK_32_ALIGN, ARM_BLOCK_64_ALIGN

VARIABLES
  phase,           \* "between" methods, "params", "body", or "exit"
  methods,         \* methods begun so far
  stackVars,       \* currentStackVarStack, oldest first
  currentStackTop,
  params,          \* the parameters of the method not stored yet
  dists,           \* the variables the method assigns somewhere
  base,            \* the number of slots when the method began
  frameTop,        \* where the method saves X29 and X30, above its slots
  live,            \* parameters stored and variables assigned so far
  accesses,        \* the loads and stores the last code emitted
  sp               \* what the method's code did to SP so far

vars == <<phase, methods, stackVars, currentStackTop, params, dists, base,
          frameTop, live, accesses, sp>>

-----------------------------------------------------------------------------
AlignBlockSize(reqSize) == IF reqSize > 4 THEN 8 ELSE 4

\* Faulty: rounded down to 16 bytes.
AlignStackSizeDown(reqSize) == IF reqSize < 16 THEN 16 ELSE (reqSize \div 16) * 16

AlignStackSize(reqSize) ==
  IF reqSize < 16 THEN 16
  ELSE (reqSize \div 16 + (IF reqSize % 16 # 0 THEN 1 ELSE 0)) * 16

AlignDownTo(value, alignment) == value - (value % alignment)

\* computeMethodStackSize, for the parameters ps and the assigned variables ds.
ComputeMethodStackSize(ps, ds) == 8 * Len(ps) + 8 * Cardinality(ds)

\* What an instruction emitted by binaryOp3 does to SP: none is for INST_SUB.
SpAfter(inst, imm) == IF inst = "INST_ADD" THEN sp + imm ELSE sp

-----------------------------------------------------------------------------
Has(v) == \E i \in DOMAIN stackVars : stackVars[i].varName = v

IsNewest(i, v) ==
  /\ i \in DOMAIN stackVars /\ stackVars[i].varName = v
  /\ \A j \in DOMAIN stackVars : j > i => stackVars[j].varName # v

\* The slot getVarStackOffset and getVarSizeFromStack find: the newest one.
Slot(v) == stackVars[CHOOSE i \in DOMAIN stackVars : IsNewest(i, v)]

\* Faulty: the size is not rounded to a block.
NewSlotUnrounded(v, sizeInByte) ==
  [varName |-> v, varSize |-> sizeInByte,
   stackOffset |-> AlignDownTo(currentStackTop, 8) - sizeInByte]

\* The slot allocVarFromStack makes for v.
NewSlot(v, sizeInByte) ==
  [varName |-> v, varSize |-> AlignBlockSize(sizeInByte),
   stackOffset |-> AlignDownTo(currentStackTop, 8) - AlignBlockSize(sizeInByte)]

Push(slot) ==
  /\ stackVars' = Append(stackVars, slot)
  /\ currentStackTop' = slot.stackOffset

Access(v, offset, width) == [varName |-> v, stackOffset |-> offset, width |-> width]

\* Faulty: every access is let through.
AlignedAny(a) == TRUE

\* strInteger and ldrInteger refuse an offset that is no multiple of the width.
Aligned(a) == a.stackOffset % a.width = 0

MaxOf(S) == CHOOSE m \in S : \A n \in S : n <= m

-----------------------------------------------------------------------------
(* generateText up to storeParamsToStack.                                  *)
BeginMethod(ps, ds) ==
  LET size == ComputeMethodStackSize(ps, ds) + 1 IN
  /\ phase = "between" /\ methods < MaxMethods
  /\ phase' = "params"
  /\ methods' = methods + 1
  /\ params' = ps
  /\ dists' = ds
  /\ base' = Len(stackVars)
  /\ frameTop' = AlignStackSize(size)
  /\ currentStackTop' = AlignStackSize(size)
  /\ live' = {}
  /\ accesses' = {}
  /\ sp' = SpAfter("INST_SUB", AlignStackSize(size) + 16)
  /\ UNCHANGED stackVars

\* One turn of the loop of storeParamsToStack.
StoreParam ==
  /\ phase = "params" /\ params # <<>>
  /\ LET p    == Head(params)
         slot == NewSlot(p.name, p.byte)
     IN  /\ Push(slot)
         /\ accesses' = {Access(p.name, slot.stackOffset, slot.varSize)}
         /\ live' = live \cup {p.name}
  /\ params' = Tail(params)
  /\ UNCHANGED <<phase, methods, dists, base, frameTop, sp>>

BeginBody ==
  /\ phase = "params" /\ params = <<>>
  /\ phase' = "body"
  /\ accesses' = {}
  /\ UNCHANGED <<methods, stackVars, currentStackTop, params, dists, base,
                 frameTop, live, sp>>

\* Faulty: a target always gets a new slot.
StoreFresh(d, distSize, width, loads) ==
  LET slot == NewSlot(d, distSize)
      all  == loads \cup {Access(d, slot.stackOffset, width)}
  IN
  /\ Push(slot)
  /\ phase' = IF \A a \in all : Aligned(a) THEN phase ELSE "exit"
  /\ accesses' = {a \in all : Aligned(a)}
  /\ live' = live \cup {d}

(* The end of MIR_2 and MIR_3: the target's slot is found, or made when it *)
(* has none, and the result is stored.  The first access out of alignment  *)
(* ends the compiler.                                                      *)
Store(d, distSize, width, loads) ==
  LET slot == IF Has(d) THEN Slot(d) ELSE NewSlot(d, distSize)
      all  == loads \cup {Access(d, slot.stackOffset, width)}
  IN
  /\ IF Has(d) THEN UNCHANGED <<stackVars, currentStackTop>> ELSE Push(slot)
  /\ phase' = IF \A a \in all : Aligned(a) THEN phase ELSE "exit"
  /\ accesses' = {a \in all : Aligned(a)}
  /\ live' = live \cup {d}

UnchangedFrame == UNCHANGED <<methods, params, dists, base, frameTop, sp>>

(* MIR_2 from a variable, whose load has the width of the store, and from  *)
(* a constant or a call's result of the size fromSize.                     *)
Mir2Var(d, v, distSize, cached) ==
  /\ phase = "body"
  /\ LET width == MaxOf({distSize, Slot(v).varSize}) IN
     Store(d, distSize, width,
           IF cached THEN {} ELSE {Access(v, Slot(v).stackOffset, width)})
  /\ UnchangedFrame

Mir2Imm(d, distSize, fromSize) ==
  /\ phase = "body"
  /\ Store(d, distSize, MaxOf({distSize, fromSize}), {})
  /\ UnchangedFrame

\* loadVarIntoReg: the load has the width of the slot.
LoadsOf(vs) == {Access(v, Slot(v).stackOffset, Slot(v).varSize) : v \in vs}

(* MIR_3: vs are the variables among its operands, loaded those it loads,  *)
(* sizes the sizes of its other operands.                                  *)
Mir3(d, vs, loaded, sizes, distSize) ==
  /\ phase = "body"
  /\ Cardinality(vs) + Cardinality(sizes) <= 2
  /\ Store(d, distSize, MaxOf({distSize} \cup sizes \cup {Slot(v).varSize : v \in vs}),
           LoadsOf(loaded))
  /\ UnchangedFrame

\* MIR_CALL, MIR_RET and MIR_CMP load what is not cached.
LoadOnly(vs) ==
  /\ phase = "body"
  /\ accesses' = LoadsOf(vs)
  /\ UNCHANGED <<phase, stackVars, currentStackTop, live>>
  /\ UnchangedFrame

(* releaseStack.  Every variable of dists was assigned on the way.         *)
EndMethod ==
  /\ phase = "body" /\ dists \subseteq live
  /\ phase' = "between"
  /\ currentStackTop' = frameTop + 16
  /\ sp' = SpAfter("INST_ADD", frameTop + 16)
  /\ accesses' = {}
  /\ UNCHANGED <<methods, stackVars, params, dists, base, frameTop, live>>

Init ==
  /\ phase = "between"
  /\ methods = 0
  /\ stackVars = <<>>
  /\ currentStackTop = 0
  /\ params = <<>>
  /\ dists = {}
  /\ base = 0
  /\ frameTop = 0
  /\ live = {}
  /\ accesses = {}
  /\ sp = 0

\* Parameter lists without a repeated name.
ParamLists ==
  {ps \in UNION {[1 .. n -> [name : Names, byte : Bytes]] : n \in 0 .. MaxParams} :
     \A i, j \in DOMAIN ps : i # j => ps[i].name # ps[j].name}

Next ==
  \/ \E ps \in ParamLists, ds \in SUBSET Names : BeginMethod(ps, ds)
  \/ StoreParam
  \/ BeginBody
  \/ \E d \in dists, distSize \in Widths :
       \/ \E v \in live, cached \in BOOLEAN : Mir2Var(d, v, distSize, cached)
       \/ \E fromSize \in Widths : Mir2Imm(d, distSize, fromSize)
       \/ \E vs \in SUBSET live, sizes \in SUBSET Widths :
            \E loaded \in SUBSET vs : Mir3(d, vs, loaded, sizes, distSize)
  \/ \E vs \in SUBSET live : LoadOnly(vs)
  \/ EndMethod

Spec == Init /\ [][Next]_vars

-----------------------------------------------------------------------------
SlotType == [varName : Names, varSize : Widths, stackOffset : Int]

TypeOK ==
  /\ phase \in {"between", "params", "body", "exit"}
  /\ methods \in 0 .. MaxMethods
  /\ stackVars \in Seq(SlotType)
  /\ currentStackTop \in Int
  /\ params \in Seq([name : Names, byte : Bytes])
  /\ dists \subseteq Names
  /\ base \in 0 .. Len(stackVars)
  /\ frameTop \in Nat
  /\ live \subseteq Names
  /\ accesses \subseteq [varName : Names, stackOffset : Int, width : Widths]
  /\ sp \in Int

Apart(s, t) == \/ s.stackOffset + s.varSize <= t.stackOffset
               \/ t.stackOffset + t.varSize <= s.stackOffset

Inside(s) == 0 <= s.stackOffset /\ s.stackOffset + s.varSize <= frameTop

(* The slots a method makes share no byte with each other, nor with what   *)
(* lies below the frame or with the saved X29 and X30 above the slots: the *)
(* size computed before the body is enough for the slots made in it.       *)
OwnSlotsApart ==
  phase # "between" =>
    \A i \in base + 1 .. Len(stackVars) :
      /\ Inside(stackVars[i])
      /\ \A j \in base + 1 .. Len(stackVars) :
           i # j => Apart(stackVars[i], stackVars[j])

(* Every access the compiler lets through stays inside the slot of the     *)
(* variable it is for: one that is too wide starts in the upper half of an *)
(* 8 byte cell and is refused by the alignment check.                      *)
AccessInSlot ==
  \A a \in accesses : /\ a.stackOffset = Slot(a.varName).stackOffset
                      /\ a.width <= Slot(a.varName).varSize

(* Once a method has stored a variable, later codes of the method find it  *)
(* in the same slot.                                                       *)
SlotsStay ==
  [][phase' \in {"params", "body"} => \A v \in live : Slot(v)' = Slot(v)]_vars

(* The slots of the variables a method uses share no byte and lie in its   *)
(* frame.                                                                  *)
SlotsApart ==
  phase \in {"params", "body"} =>
    /\ \A v \in live : Inside(Slot(v))
    /\ \A v, w \in live : v # w => Apart(Slot(v), Slot(w))

(* A method gives SP back as it got it.                                    *)
StackBalanced == phase = "between" => sp = 0

=============================================================================

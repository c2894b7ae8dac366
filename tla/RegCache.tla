------------------------------ MODULE RegCache ------------------------------
(***************************************************************************)
(* The register cache of the arm64 code generator                          *)
(* (generator/arm64/assembler_arm64.cpp).  generateCodes walks the MIR of  *)
(* a method once, in order, and remembers in commonRegsVarName which       *)
(* variable each common register holds; a variable it finds there is read  *)
(* from the register, any other from its stack slot.  Every result is also *)
(* stored to its slot.                                                     *)
(*                                                                         *)
(* The model generates an arbitrary method, one MIR code per step, and     *)
(* executes the emitted instructions as it goes, on register contents x    *)
(* and slot contents mem.  A code that the branches taken so far jump over *)
(* is generated but not executed.  A loop body is generated once and runs  *)
(* many times: from the loop entry on the model follows one arbitrary      *)
(* iteration, so the slots hold arbitrary values there.  A literal is what *)
(* the generator makes of it, which is not always what the source means.   *)
(* Pointers, the width of operands and the layout of the slots are left    *)
(* out.                                                                    *)
(***************************************************************************)
EXTENDS Naturals, Sequences

CONSTANTS
  Users,      \* variables and parameters of the source method
  Temps,      \* the _tv_N variables of the MIR generator
  Val,        \* values
  Zero,       \* the value 0
  Int8,       \* the literals up to 127: OPERAND_INT8
  Int16,      \* those up to SHRT_MAX: OPERAND_INT16
  Int32,      \* the wider ones, and floating point
  Means,      \* the value the source means by each literal
  Ret,        \* the operand "value of the call just made" (type.isReturn)
  None,       \* nullptr in commonRegsVarName
  Marks,      \* the names generateCodes gives a register that holds no variable
  NumRegs,    \* COMMON_REG_SIZE
  MaxArgs,    \* the longest argument list
  MaxNest,    \* the deepest nesting of if, while and for
  Features    \* what the methods generated may contain, see below

Vars    == Users \cup Temps
Names   == Vars \cup Marks \cup {None}
Literal == Int8 \cup Int16 \cup Int32
Operand == Vars \cup Literal \cup {Ret}
Reg     == 0 .. NumRegs - 1

(***************************************************************************)
(* The class of methods: with "if" a method may contain if statements,     *)
(* with "spill" it may use more registers than there are, with "retInMir3" *)
(* a call may be the right operand of a division, with "fold" operands may *)
(* be what optimize makes of them at -O1 (literals, repeated variables),   *)
(* with "earlyReturn" statements may follow an executed return.  With      *)
(* "dirtyMemory" the memory malloc returns to the compiler may have been   *)
(* used before; without it the bytes nobody has written are 0.             *)
(***************************************************************************)
AllFeatures == {"if", "spill", "retInMir3", "fold", "earlyReturn", "dirtyMemory"}

ASSUME CacheAssumption ==
  /\ NumRegs \in Nat \ {0}
  /\ MaxArgs \in 0 .. NumRegs
  /\ MaxNest \in Nat
  /\ Features \subseteq AllFeatures
  /\ Zero \in Val
  /\ Means \in [Literal -> Val]
  /\ Marks = {"mir3_value1", "mir3_value2", "cmp_value1", "cmp_value2",
              "_last_ret", "arg"}

\* Variables, literals and the special names are different things.
ASSUME DisjointAssumption ==
  /\ Users \cap Temps = {}
  /\ Vars \cap (Literal \cup Marks \cup {Ret, None}) = {}
  /\ Int8 \cap (Int16 \cup Int32) = {}
  /\ Int16 \cap Int32 = {}
  /\ Ret \notin Literal
  /\ None \notin Val \cup Marks

VARIABLES
  commonRegsVarName,  \* the name each register is believed to hold
  usedRegs,           \* registers handed out since the last clearRegs
  x,                  \* what the registers really hold
  mem,                \* what the stack slot of each variable holds
  readable,           \* the variables the source may read here
  blocks,             \* the open statements: [kind, phase, scope] each
  jump,               \* <<>>, or <<depth, label>> while code is jumped over
  callResult,         \* the value of the call just made, or None
  returned,           \* the value of the first return executed, or None
  fetched,            \* <<got, wanted>> for each operand the last code read
  stale               \* registers renamed by code that was jumped over

cacheVars == <<commonRegsVarName, usedRegs>>
progVars  == <<readable, blocks, jump, callResult, returned>>
vars == <<cacheVars, x, mem, fetched, stale, progVars>>

Executing == jump = <<>>
Depth     == Len(blocks)

-----------------------------------------------------------------------------
(* The generator at work on one code: the names and contents of the        *)
(* registers, the counter, the registers this code has written and those   *)
(* it has spilled (regInUseList, emptied for every code).                  *)

Cg == [name |-> commonRegsVarName, used |-> usedRegs, x |-> x,
       wrote |-> {}, busy |-> {}]

Cached(c, v) == \E r \in Reg : c.name[r] = v

\* The register isVarExistInCommonReg returns: the first one named v.
FirstNamed(c, v) ==
  {r \in Reg : c.name[r] = v /\ \A s \in Reg : s < r => c.name[s] # v}

\* The register r gets the contents z, and the name n.
Put(c, r, z)    == [c EXCEPT !.x[r] = z, !.wrote = @ \cup {r}]
Rename(c, r, n) == [c EXCEPT !.name[r] = n]

(***************************************************************************)
(* The registers allocEmptyReg may spill.  It takes the one whose name is  *)
(* next used furthest from the current code; what follows the current code *)
(* is arbitrary, so that is any register whose name the current code does  *)
(* not use, and the first free one when it uses them all.                  *)
(***************************************************************************)
Victims(c, uses) ==
  LET free  == Reg \ c.busy
      later == {r \in free : c.name[r] \notin uses}
  IN  IF later # {} THEN later ELSE {r \in free : \A s \in free : r <= s}

\* Faulty: a spilled register is counted once more.
AllocCountingSpills(c, uses) ==
  IF c.used < NumRegs
    THEN {[r |-> c.used, c |-> [c EXCEPT !.used = @ + 1]]}
    ELSE {[r |-> r, c |-> [c EXCEPT !.used = @ + 1]] : r \in Victims(c, uses)}

\* The registers allocEmptyReg may hand out, each with the generator after it.
AllocEmptyReg(c, uses) ==
  IF c.used < NumRegs
    THEN {[r |-> c.used, c |-> [c EXCEPT !.used = @ + 1]]}
    ELSE {[r |-> r, c |-> [c EXCEPT !.busy = @ \cup {r}]] :
            r \in IF "spill" \in Features THEN Victims(c, uses) ELSE {}}

\* loadVarIntoReg: the cached register, or a fresh one loaded from the slot.
LoadVarIntoReg(c, v, uses) ==
  IF Cached(c, v)
    THEN {[r |-> r, c |-> c] : r \in FirstNamed(c, v)}
    ELSE {[r |-> a.r, c |-> Rename(Put(a.c, a.r, mem[v]), a.r, v)] :
            a \in AllocEmptyReg(c, uses)}

-----------------------------------------------------------------------------
(* Literals.  The parser writes one byte of every literal, the low one     *)
(* (dataChar), and MIR generation copies as many as the type has.  That is *)
(* the whole of a literal up to 127.                                       *)

\* convertMirOperandImmBinary: of an OPERAND_INT16 the high byte was never
\* written; any wider literal is reported and becomes 0.
ConvertMirOperandImmBinary(l) ==
  CASE l \in Int8  -> {Means[l]}
    [] l \in Int16 -> Val
    [] l \in Int32 -> {Zero}

(* What the register holds after movInteger of a value of which not all    *)
(* bytes were written.  One of more than 16 bits is not moved and leaves   *)
(* what was there; -1 goes to X0 whichever register was meant.             *)
MovUnwritten(c, r) ==
  {Put(c, q, z) : q \in {r} \cup (IF "dirtyMemory" \in Features THEN {0} ELSE {}),
                  z \in Val}

\* A literal moved to a register by all codes but MIR_2.
MovConverted(c, r, l) ==
  IF l \in Int16 THEN MovUnwritten(c, r)
                 ELSE {Put(c, r, z) : z \in ConvertMirOperandImmBinary(l)}

\* MIR_2 moves the four bytes of dataInt32 whatever the type.
MovDataInt32(c, r, l) ==
  CASE l \notin Int8 -> MovUnwritten(c, r)
    [] l \in Int8 /\ "dirtyMemory" \in Features -> {Put(c, r, z) : z \in Val}
    [] OTHER -> {Put(c, r, Means[l])}

\* An operand brought into a register: X0 for the value of the call.
OperandReg(c, o, uses) ==
  CASE o \in Vars -> LoadVarIntoReg(c, o, uses)
    [] o = Ret    -> {[r |-> 0, c |-> c]}
    [] OTHER      -> UNION {{[r |-> a.r, c |-> p] : p \in MovConverted(a.c, a.r, o)} :
                              a \in AllocEmptyReg(c, uses)}

\* What the source means by an operand.
Wanted(o) == CASE o \in Vars -> mem[o]
               [] o = Ret    -> callResult
               [] OTHER      -> Means[o]

-----------------------------------------------------------------------------
(* What a generated code leaves behind: the cache always, the machine only *)
(* when the code is executed.                                              *)

\* Faulty: the result is not stored to its slot.
EmitNoStore(c, newMem, operands) ==
  /\ commonRegsVarName' = c.name
  /\ usedRegs' = c.used
  /\ mem' = mem
  /\ IF Executing
       THEN x' = c.x /\ fetched' = operands /\ stale' = stale \ c.wrote
       ELSE x' = x /\ fetched' = {} /\ stale' = Reg

Emit(c, newMem, operands) ==
  /\ commonRegsVarName' = c.name
  /\ usedRegs' = c.used
  /\ IF Executing
       THEN /\ x' = c.x
            /\ mem' = newMem
            /\ fetched' = operands
            /\ stale' = stale \ c.wrote
       ELSE /\ UNCHANGED <<x, mem>>
            /\ fetched' = {}
            /\ stale' = stale \cup {r \in Reg : c.name[r] # commonRegsVarName[r]}

\* Faulty: clearRegs resets the counter and keeps the names.
ClearCounterOnly(newX, newMem, operands) ==
  /\ UNCHANGED commonRegsVarName
  /\ usedRegs' = 0
  /\ IF Executing THEN x' = newX /\ mem' = newMem /\ fetched' = operands
                  ELSE UNCHANGED <<x, mem>> /\ fetched' = {}
  /\ stale' = {}

\* The end of a code that calls clearRegs; newX is what the registers hold.
EmitAndClear(newX, newMem, operands) ==
  /\ commonRegsVarName' = [r \in Reg |-> None]
  /\ usedRegs' = 0
  /\ x' = IF Executing THEN newX ELSE x
  /\ mem' = IF Executing THEN newMem ELSE mem
  /\ fetched' = IF Executing THEN operands ELSE {}
  /\ stale' = {}

\* A code that reads o may stand here.
MayRead(o) == /\ o \in Vars => o \in readable
              /\ o = Ret => callResult # None

InPhase(p) == Depth > 0 /\ blocks[Depth].phase = p

\* Between a comparison and the label after it no code is generated.
MayGenerate ==
  /\ ~InPhase("branch")
  /\ returned = None \/ ~Executing \/ "earlyReturn" \in Features

InCondition == InPhase("cond")

\* d is the variable a code assigns; a condition assigns only temporaries.
MayAssign(d) == InCondition => d \in Temps

-----------------------------------------------------------------------------
\* Faulty: the target gets a new register even when it has one.
FreshTargetReg(d, o) == AllocEmptyReg(Cg, {d, o})

\* The register of the target of a MIR_2.
TargetReg(d, o) ==
  IF Cached(Cg, d) THEN {[r |-> r, c |-> Cg] : r \in FirstNamed(Cg, d)}
                   ELSE AllocEmptyReg(Cg, {d, o})

\* The source moved to the target's register; an uncached one is loaded
\* straight into it.
MovSource(c, r, o) ==
  CASE o \in Vars /\ Cached(c, o) -> {Put(c, r, c.x[s]) : s \in FirstNamed(c, o)}
    [] o \in Vars /\ ~Cached(c, o) -> {Put(c, r, mem[o])}
    [] o = Ret -> {Put(c, r, c.x[0])}
    [] OTHER -> MovDataInt32(c, r, o)

(* MIR_2: d = o.  The target's register is found or allocated first, and   *)
(* stored to the target's slot.                                            *)
Mir2(d, o) ==
  /\ MayGenerate /\ MayRead(o) /\ MayAssign(d)
  /\ \E t \in TargetReg(d, o) : \E c \in MovSource(t.c, t.r, o) :
       LET got == c.x[t.r] IN
       Emit(Rename(c, t.r, d), [mem EXCEPT ![d] = got], {<<got, Wanted(o)>>})
  /\ readable' = readable \cup {d}
  /\ callResult' = None
  /\ UNCHANGED <<blocks, jump, returned>>

(* MIR_3: d = o1 op o2, some value z, d a temporary.  The left operand is  *)
(* d itself until optimize replaces it.  A right operand that is a         *)
(* literal goes into a register of its own unless the operator takes       *)
(* immediates (inReg).  Only the names protect the two operand registers.  *)
Mir3(d, o1, o2, inReg, z) ==
  /\ MayGenerate
  /\ MayRead(d) /\ MayRead(o1) /\ MayRead(o2)
  /\ o1 = d \/ ("fold" \in Features /\ o1 # Ret)
  /\ o2 = Ret => "retInMir3" \in Features
  /\ inReg \/ o2 \in Literal
  /\ \E a \in OperandReg(Cg, o1, {d, o1, o2}) :
       LET c1 == Rename(a.c, a.r, "mir3_value1") IN
       \E b \in IF inReg THEN OperandReg(c1, o2, {d, o1, o2})
                         ELSE {[r |-> a.r, c |-> c1]} :
         LET c2 == IF inReg THEN Rename(b.c, b.r, "mir3_value2") ELSE c1 IN
         \E right \in IF inReg THEN {c2.x[b.r]} ELSE ConvertMirOperandImmBinary(o2) :
           \E r \in IF Cached(c2, d) THEN FirstNamed(c2, d) ELSE {a.r} :
             Emit(Rename(Put(c2, r, z), r, d), [mem EXCEPT ![d] = z],
                  {<<c2.x[a.r], Wanted(o1)>>, <<right, Wanted(o2)>>})
  /\ callResult' = None
  /\ UNCHANGED <<readable, blocks, jump, returned>>

-----------------------------------------------------------------------------
(* MIR_CALL: arg i is moved to register i - 1, one argument after the      *)
(* other; usedRegs does not count the registers taken that way.            *)

\* isMirCodeUseVar on a call: true as soon as one argument is not the name.
CallUses(args) ==
  {n \in Names \ {None} : \E i \in DOMAIN args : args[i] # n}

PassArg(c, o, p, uses) ==
  CASE o \in Vars -> {Rename(Put(l.c, p, l.c.x[l.r]), p, o) :
                        l \in LoadVarIntoReg(c, o, uses)}
    [] o = Ret    -> {Rename(Put(c, p, c.x[0]), p, "_last_ret")}
    [] OTHER      -> {Rename(q, p, "arg") : q \in MovConverted(c, p, o)}

\* The generator once all arguments are in place.
WithArgs(args) ==
  LET passed[i \in 0 .. Len(args)] ==
        IF i = 0 THEN {Cg}
                 ELSE UNION {PassArg(c, args[i], i - 1, CallUses(args)) :
                               c \in passed[i - 1]}
  IN  passed[Len(args)]

\* The optimizer apart, each argument is a temporary of its own.
ArgLists ==
  LET lists == UNION {[1 .. n -> Operand] : n \in 0 .. MaxArgs}
  IN  IF "fold" \in Features THEN lists
      ELSE {a \in lists : \A i, j \in DOMAIN a :
                             a[i] \in Vars /\ (i # j => a[i] # a[j])}

(* The callee leaves the caller's slots alone, its result z in X0 and      *)
(* anything in the other registers; clearRegs follows.                     *)
Call(args, z, newX) ==
  /\ MayGenerate
  /\ \A i \in DOMAIN args : MayRead(args[i])
  /\ newX[0] = z
  /\ \E c \in WithArgs(args) :
       EmitAndClear(newX, mem,
                    {<<c.x[i - 1], Wanted(args[i])>> : i \in DOMAIN args})
  /\ callResult' = z
  /\ UNCHANGED <<readable, blocks, jump, returned>>

(* MIR_RET: the value goes to X0, where a call's result is already; no     *)
(* branch to the end of the method is generated.  A return without a value *)
(* puts 0 in X0, the literal 0.                                            *)
Return(o) ==
  /\ MayGenerate /\ ~InCondition /\ MayRead(o)
  /\ o \in Vars \cup Int8 \/ "fold" \in Features
  /\ "earlyReturn" \in Features \/ \A i \in 1 .. Depth : blocks[i].kind = "if"
  /\ \E c \in CASE o \in Vars -> {Put(l.c, 0, l.c.x[l.r]) : l \in LoadVarIntoReg(Cg, o, {o})}
                [] o = Ret    -> {Cg}
                [] OTHER      -> MovConverted(Cg, 0, o) :
       Emit(Rename(c, 0, "_last_ret"), mem, {<<c.x[0], Wanted(o)>>})
  /\ returned' = IF Executing /\ returned = None THEN Wanted(o) ELSE returned
  /\ callResult' = None
  /\ UNCHANGED <<readable, blocks, jump>>

(* MIR_CMP: compare, then branch to one of two labels, which stand for the *)
(* rest of the condition ("next"), the body ("true") or what follows it    *)
(* ("false").  A right operand that is a literal is an immediate.          *)
Cmp(o1, o2, label) ==
  /\ MayGenerate /\ InCondition /\ MayRead(o1) /\ MayRead(o2)
  /\ {o1, o2} \subseteq Temps \/ "fold" \in Features
  /\ \E a \in OperandReg(Cg, o1, {o1, o2}) :
       LET c1 == Rename(a.c, a.r, "cmp_value1")
           imm == o2 \in Literal
       IN
       \E b \in IF imm THEN {[r |-> a.r, c |-> c1]}
                       ELSE OperandReg(c1, o2, {o1, o2}) :
         LET c2 == IF imm THEN c1 ELSE Rename(b.c, b.r, "cmp_value2") IN
         \E right \in IF imm THEN ConvertMirOperandImmBinary(o2) ELSE {c2.x[b.r]} :
           Emit(c2, mem, {<<c2.x[a.r], Wanted(o1)>>, <<right, Wanted(o2)>>})
  /\ jump' = IF Executing THEN <<Depth, label>> ELSE jump
  /\ blocks' = [blocks EXCEPT ![Depth].phase = "branch"]
  /\ readable' = readable \ Temps
  /\ callResult' = None
  /\ UNCHANGED returned

-----------------------------------------------------------------------------
(* Labels, jumps and block flags.  None but the loop flags touches the     *)
(* cache.                                                                  *)

Landed(label) == IF jump = <<Depth, label>> THEN <<>> ELSE jump

LeaveCache ==
  /\ UNCHANGED <<cacheVars, x, mem, stale, returned>>
  /\ fetched' = {}
  /\ callResult' = None

Open(kind) == Append(blocks, [kind |-> kind, phase |-> "cond",
                              scope |-> readable \ Temps])

BeginIf ==
  /\ MayGenerate /\ ~InCondition /\ Depth < MaxNest /\ "if" \in Features
  /\ blocks' = Open("if")
  /\ readable' = readable \ Temps
  /\ UNCHANGED jump
  /\ LeaveCache

\* A label inside the condition, after an operand of && or ||.
NextLabel ==
  /\ InPhase("branch")
  /\ blocks' = [blocks EXCEPT ![Depth].phase = "cond"]
  /\ jump' = Landed("next")
  /\ UNCHANGED readable
  /\ LeaveCache

TrueLabel ==
  /\ InPhase("branch") /\ jump # <<Depth, "next">>
  /\ blocks' = [blocks EXCEPT ![Depth].phase = "body"]
  /\ jump' = Landed("true")
  /\ UNCHANGED readable
  /\ LeaveCache

\* MIR_JMP over the false part, then the false label.
FalseLabel ==
  /\ InPhase("body") /\ blocks[Depth].kind = "if"
  /\ blocks' = [blocks EXCEPT ![Depth].phase = "else"]
  /\ jump' = IF Executing THEN <<Depth, "finish">> ELSE Landed("false")
  /\ readable' = blocks[Depth].scope
  /\ LeaveCache

FinishLabel ==
  /\ InPhase("else")
  /\ blocks' = SubSeq(blocks, 1, Depth - 1)
  /\ jump' = Landed("finish")
  /\ readable' = blocks[Depth].scope
  /\ LeaveCache

(* OPT_ENTER_LOOP_BLOCK and the loop label: the slots are those of some    *)
(* iteration.                                                              *)
BeginLoop(newMem) ==
  /\ MayGenerate /\ ~InCondition /\ Depth < MaxNest
  /\ EmitAndClear(x, newMem, {})
  /\ blocks' = Open("loop")
  /\ readable' = readable \ Temps
  /\ callResult' = None
  /\ UNCHANGED <<jump, returned>>

(* The jump back, the false label and OPT_EXIT_LOOP_BLOCK.  An execution   *)
(* that jumps back comes out after some later iteration.                   *)
EndLoop(newMem) ==
  /\ InPhase("body") /\ blocks[Depth].kind = "loop"
  /\ EmitAndClear(x, newMem, {})
  /\ blocks' = SubSeq(blocks, 1, Depth - 1)
  /\ jump' = Landed("false")
  /\ readable' = blocks[Depth].scope
  /\ callResult' = None
  /\ UNCHANGED returned

(* The end of a method, where its caller takes the result from X0, and the *)
(* start of the next one: clearRegs, the parameters stored to their slots. *)
NextMethod(params, newMem) ==
  /\ Depth = 0
  /\ EmitAndClear(x, newMem, IF returned = None THEN {} ELSE {<<x[0], returned>>})
  /\ readable' = params
  /\ callResult' = None
  /\ returned' = None
  /\ UNCHANGED <<blocks, jump>>

Init ==
  /\ commonRegsVarName = [r \in Reg |-> None]
  /\ usedRegs = 0
  /\ x \in [Reg -> Val]
  /\ mem \in [Vars -> Val]
  /\ readable \in SUBSET Users
  /\ blocks = <<>>
  /\ jump = <<>>
  /\ callResult = None
  /\ returned = None
  /\ fetched = {}
  /\ stale = {}

Statement ==
  \/ \E d \in Vars, o \in Operand : Mir2(d, o)
  \/ \E d \in Temps, o1, o2 \in Operand, inReg \in BOOLEAN, z \in Val :
       Mir3(d, o1, o2, inReg, z)
  \/ \E args \in ArgLists, z \in Val, newX \in [Reg -> Val] : Call(args, z, newX)
  \/ \E o \in Operand : Return(o)
  \/ \E o1, o2 \in Operand, label \in {"next", "true", "false"} : Cmp(o1, o2, label)

Structure ==
  \/ BeginIf \/ NextLabel \/ TrueLabel \/ FalseLabel \/ FinishLabel
  \/ \E newMem \in [Vars -> Val] :
       \/ BeginLoop(newMem)
       \/ EndLoop(newMem)
       \/ \E params \in SUBSET Users : NextMethod(params, newMem)

Next == Statement \/ Structure

Spec == Init /\ [][Next]_vars

-----------------------------------------------------------------------------
Labels == {"next", "true", "false", "finish"}

(* The cache, the machine and the position in the program have the values  *)
(* generateCodes gives them.  (fetched is an observation each step makes.) *)
CacheOK ==
  /\ commonRegsVarName \in [Reg -> Names]
  /\ usedRegs \in 0 .. NumRegs
  /\ x \in [Reg -> Val]
  /\ mem \in [Vars -> Val]
  /\ stale \subseteq Reg

Block == [kind : {"if", "loop"}, phase : {"cond", "branch", "body", "else"},
          scope : SUBSET Vars]

TypeOK ==
  /\ CacheOK
  /\ readable \subseteq Vars
  /\ blocks \in Seq(Block)
  /\ jump = <<>> \/ jump \in (1 .. Depth) \X Labels
  /\ callResult \in Val \cup {None}
  /\ returned \in Val \cup {None}

(* No variable is believed to be in two registers: a store of one of them  *)
(* would leave the other behind (isVarExistInCommonReg finds the first).   *)
UniqueNames ==
  \A r, s \in Reg : (commonRegsVarName[r] = commonRegsVarName[s]
                      /\ commonRegsVarName[r] \in Vars) => r = s

(* A register named by a variable holds what the variable's slot holds,    *)
(* unless it got that name in code that was jumped over: where movInteger  *)
(* writes the register it is given (no "dirtyMemory", or no literal over   *)
(* 127), a lookup of isVarExistInCommonReg can only go wrong behind a      *)
(* label.  Accesses are taken to be as wide as the slots.                  *)
CoherentRegs ==
  \A r \in Reg \ stale :
    commonRegsVarName[r] \in Vars => x[r] = mem[commonRegsVarName[r]]

(* Every operand an instruction reads has the value the source means, a    *)
(* literal's included, and the caller of a method finds the value of its   *)
(* first return in X0.                                                     *)
OperandsFresh == \A p \in fetched : p[1] = p[2]

=============================================================================

--------------------------- MODULE RegCacheProofs ---------------------------
(***************************************************************************)
(* The register cache is coherent for every number of registers, every set *)
(* of variables and values and every class of methods (Features) in which  *)
(* a literal moved to a register reaches it (MovesReach).                  *)
(*                                                                         *)
(* The argument: Good(c, m) says of a generator c at work on one code that *)
(* its names are unique and that a register outside stale named by a       *)
(* variable holds what the slot contents m hold.  Every helper of the      *)
(* generator keeps it (the lemmas), and a code that ends in Emit hands it  *)
(* on to the next one.                                                     *)
(*                                                                         *)
(* The second part adds the position in the program (Path), for TypeOK;    *)
(* the third restricts Features to none and the literals to those up to    *)
(* 127, where the cache not only is coherent but hands every instruction   *)
(* the operand the source means.                                           *)
(***************************************************************************)
EXTENDS RegCache, Integers, FiniteSets, FiniteSetTheorems, TLAPS

Gen == [name : [Reg -> Names], used : 0 .. NumRegs, x : [Reg -> Val],
        wrote : SUBSET Reg, busy : SUBSET Reg]

Uniq(c) == \A r, s \in Reg : (c.name[r] = c.name[s] /\ c.name[r] \in Vars) => r = s

(* movInteger writes the register it is given, unless memory nobody has    *)
(* written makes a literal over 127 the value -1, which goes to X0.        *)
MovesReach == "dirtyMemory" \notin Features \/ Int16 \cup Int32 = {}

Coh(c, m) ==
  MovesReach => \A r \in Reg : (r \notin stale \ c.wrote /\ c.name[r] \in Vars)
                               => c.x[r] = m[c.name[r]]

Good(c, m) == c \in Gen /\ Uniq(c) /\ Coh(c, m)

Inv == CacheOK /\ UniqueNames /\ (MovesReach => CoherentRegs)

-----------------------------------------------------------------------------
(* Induction by counting, since the theorems of the library that state     *)
(* induction take an operator as a parameter, which the provers cannot     *)
(* instantiate.                                                            *)
(* What holds for 0 and, with a number, for the next, holds up to n: were  *)
(* b a number that is missing, taking 1 from the missing numbers up to b   *)
(* would map them to fewer, and yet to different ones.                     *)
LEMMA UpTo ==
  ASSUME NEW n \in Nat, NEW S, 0 \in S, \A i \in 0 .. n - 1 : i \in S => i + 1 \in S
  PROVE  0 .. n \subseteq S
<1>. SUFFICES ASSUME NEW b \in 0 .. n, b \notin S  PROVE FALSE
  OBVIOUS
<1>. DEFINE D == {i \in 0 .. b : i \notin S}
           f == [i \in D |-> i - 1]
<1>1. \A i \in D : i - 1 \in D \ {b}
  <2>. TAKE i \in D
  <2>1. i \in Nat /\ i # 0 /\ i <= b /\ i \notin S /\ b <= n
    OBVIOUS
  <2>2. i - 1 \in 0 .. n - 1 /\ (i - 1) + 1 = i
    BY <2>1
  <2>3. i - 1 \notin S
    BY <2>1, <2>2
  <2>. QED
    BY <2>1, <2>2, <2>3
<1>2. IsFiniteSet(D)
  <2>1. IsFiniteSet(0 .. b)
    BY FS_Interval
  <2>. QED
    BY <2>1, FS_Subset
<1>3. IsFiniteSet(D \ {b}) /\ Cardinality(D \ {b}) = Cardinality(D) - 1 /\ Cardinality(D) \in Nat
  <2>1. b \in D
    OBVIOUS
  <2>. QED
    BY <1>2, <2>1, FS_RemoveElement, FS_CardinalityType
<1>4. f \in [D -> D \ {b}]
  BY <1>1
<1>5. \A i, j \in D : i # j => f[i] # f[j]
  OBVIOUS
<1>. HIDE DEF D, f
<1>6. Cardinality(D \ {b}) < Cardinality(D)
  BY <1>3
<1>. QED
  BY <1>2, <1>3, <1>4, <1>5, <1>6, FS_PigeonHole

(* The special names are not variables; register 0 exists.                 *)
LEMMA Marks0 ==
  /\ \A m \in Marks : m \in Names /\ m \notin Vars
  /\ None \in Names /\ None \notin Vars
  /\ 0 \in Reg
  /\ {"mir3_value1", "mir3_value2", "cmp_value1", "cmp_value2", "_last_ret"}
       \subseteq Marks
BY CacheAssumption, DisjointAssumption DEF Names, Reg

(* Writing a register and renaming it change these fields only.            *)
LEMMA PutFields ==
  ASSUME NEW c \in Gen, NEW r \in Reg, NEW z \in Val
  PROVE  /\ Put(c, r, z) \in Gen
         /\ Put(c, r, z).name = c.name
         /\ Put(c, r, z).x = [c.x EXCEPT ![r] = z]
         /\ Put(c, r, z).wrote = c.wrote \cup {r}
         /\ Put(c, r, z).used = c.used
BY DEF Put, Gen

LEMMA RenameFields ==
  ASSUME NEW c \in Gen, NEW r \in Reg, NEW n \in Names
  PROVE  /\ Rename(c, r, n) \in Gen
         /\ Rename(c, r, n).name = [c.name EXCEPT ![r] = n]
         /\ Rename(c, r, n).x = c.x
         /\ Rename(c, r, n).wrote = c.wrote
         /\ Rename(c, r, n).used = c.used
BY DEF Rename, Gen

(* A register that gets a special name, whatever it holds, keeps Good.     *)
LEMMA Mark ==
  ASSUME NEW c, NEW m \in [Vars -> Val], Good(c, m),
         NEW r \in Reg, NEW n \in Marks, NEW z \in Val
  PROVE  /\ Good(Rename(c, r, n), m)
         /\ Good(Rename(Put(c, r, z), r, n), m)
<1>1. n \in Names /\ n \notin Vars
  BY Marks0
<1>2. c \in Gen
  BY DEF Good
<1>3. Good(Rename(c, r, n), m)
  <2> DEFINE q == Rename(c, r, n)
  <2>1. /\ q \in Gen /\ q.name = [c.name EXCEPT ![r] = n]
        /\ q.x = c.x /\ q.wrote = c.wrote
    BY <1>1, <1>2, RenameFields
  <2> HIDE DEF q
  <2>2. Uniq(q) /\ Coh(q, m)
    BY <1>1, <1>2, <2>1 DEF Good, Uniq, Coh, Gen
  <2> QED BY <2>1, <2>2 DEF Good, q
<1>4. Good(Rename(Put(c, r, z), r, n), m)
  <2> DEFINE p == Put(c, r, z)
             q == Rename(p, r, n)
  <2>1. /\ p \in Gen /\ p.name = c.name /\ p.x = [c.x EXCEPT ![r] = z]
        /\ p.wrote = c.wrote \cup {r}
    BY <1>2, PutFields
  <2>2. /\ q \in Gen /\ q.name = [p.name EXCEPT ![r] = n]
        /\ q.x = p.x /\ q.wrote = p.wrote
    BY <2>1, <1>1, RenameFields
  <2> HIDE DEF p, q
  <2>3. Uniq(q) /\ Coh(q, m)
    BY <1>1, <1>2, <2>1, <2>2 DEF Good, Uniq, Coh, Gen
  <2> QED BY <2>2, <2>3 DEF Good, p, q
<1> QED BY <1>3, <1>4

(* A register that gets the name d and the contents z, when no other has   *)
(* that name, is coherent with slots where d holds z.                      *)
LEMMA Assign ==
  ASSUME NEW c, NEW m \in [Vars -> Val], Good(c, m),
         NEW r \in Reg, NEW d \in Vars, NEW z \in Val,
         \A s \in Reg : s # r => c.name[s] # d
  PROVE  Good(Rename(Put(c, r, z), r, d), [m EXCEPT ![d] = z])
<1> DEFINE p == Put(c, r, z)
           q == Rename(p, r, d)
<1>1. c \in Gen /\ d \in Names
  BY DEF Good, Names
<1>2. /\ p \in Gen /\ p.name = c.name /\ p.x = [c.x EXCEPT ![r] = z]
      /\ p.wrote = c.wrote \cup {r}
  BY <1>1, PutFields
<1>3. /\ q \in Gen /\ q.name = [p.name EXCEPT ![r] = d]
      /\ q.x = p.x /\ q.wrote = p.wrote
  BY <1>1, <1>2, RenameFields
<1> HIDE DEF p, q
<1>4. Uniq(q) /\ Coh(q, [m EXCEPT ![d] = z])
  BY <1>1, <1>2, <1>3 DEF Good, Uniq, Coh, Gen
<1> QED BY <1>3, <1>4 DEF Good, p, q

(* The same for a literal moved to r, wherever movInteger put it.          *)
LEMMA MarkMoved ==
  ASSUME NEW c, NEW m \in [Vars -> Val], Good(c, m), NEW r \in Reg, NEW n \in Marks,
         NEW q \in Reg, NEW z \in Val, MovesReach => q = r
  PROVE  Good(Rename(Put(c, q, z), r, n), m)
<1>1. CASE MovesReach
  BY <1>1, Mark
<1>2. CASE ~MovesReach
  <2>. DEFINE p == Put(c, q, z)
              e == Rename(p, r, n)
  <2>1. n \in Names /\ n \notin Vars /\ c \in Gen /\ Uniq(c)
    BY Marks0 DEF Good
  <2>2. p \in Gen /\ p.name = c.name
    BY <2>1, PutFields
  <2>3. e \in Gen /\ e.name = [p.name EXCEPT ![r] = n]
    BY <2>1, <2>2, RenameFields
  <2>. HIDE DEF p, e
  <2>4. Uniq(e) /\ Coh(e, m)
    BY <1>2, <2>1, <2>2, <2>3 DEF Uniq, Coh, Gen
  <2>. QED
    BY <2>3, <2>4 DEF Good, p, e
<1>. QED
  BY <1>1, <1>2

LEMMA AssignMoved ==
  ASSUME NEW c, NEW m \in [Vars -> Val], Good(c, m), NEW r \in Reg, NEW d \in Vars,
         NEW q \in Reg, NEW z \in Val, MovesReach => q = r,
         \A s \in Reg : s # r => c.name[s] # d
  PROVE  /\ Put(c, q, z).x[r] \in Val
         /\ Good(Rename(Put(c, q, z), r, d), [m EXCEPT ![d] = Put(c, q, z).x[r]])
<1>. DEFINE p == Put(c, q, z)
            e == Rename(p, r, d)
<1>1. d \in Names /\ c \in Gen /\ Uniq(c)
  BY DEF Good, Names
<1>2. p \in Gen /\ p.name = c.name /\ p.x = [c.x EXCEPT ![q] = z] /\ p.x[r] \in Val
  BY <1>1, PutFields DEF Gen
<1>3. CASE MovesReach
  <2>1. p.x[r] = z /\ q = r
    BY <1>1, <1>2, <1>3 DEF Gen
  <2>2. Good(Rename(Put(c, r, z), r, d), [m EXCEPT ![d] = z])
    BY Assign
  <2>. QED
    BY <1>2, <2>1, <2>2
<1>4. CASE ~MovesReach
  <2>1. e \in Gen /\ e.name = [p.name EXCEPT ![r] = d]
    BY <1>1, <1>2, RenameFields
  <2>. HIDE DEF p, e
  <2>2. Uniq(e) /\ Coh(e, [m EXCEPT ![d] = p.x[r]])
    BY <1>1, <1>2, <1>4, <2>1 DEF Uniq, Coh, Gen
  <2>. QED
    BY <1>2, <2>1, <2>2 DEF Good, p, e
<1>. QED
  BY <1>3, <1>4

(* What a literal moved to a register writes: one register, the one meant  *)
(* or X0.                                                                  *)
LEMMA Moved ==
  ASSUME NEW c, NEW r \in Reg, NEW l \in Literal,
         NEW p \in MovConverted(c, r, l) \cup MovDataInt32(c, r, l)
  PROVE  \E q \in Reg, z \in Val : p = Put(c, q, z) /\ (MovesReach => q = r)
<1>1. Means[l] \in Val /\ Zero \in Val /\ 0 \in Reg
  BY CacheAssumption, Marks0
<1>2. CASE p \in MovUnwritten(c, r) /\ l \notin Int8
  BY <1>1, <1>2 DEF MovUnwritten, MovesReach, Literal
<1>3. CASE p \in MovConverted(c, r, l) /\ l \notin Int16
  BY <1>1, <1>3 DEF MovConverted, ConvertMirOperandImmBinary, Literal
<1>4. CASE p \in MovDataInt32(c, r, l) /\ l \in Int8
  BY <1>1, <1>4 DEF MovDataInt32
<1>. QED
  BY <1>2, <1>3, <1>4, DisjointAssumption DEF MovConverted, MovDataInt32

(* allocEmptyReg hands out a register and touches neither names nor        *)
(* contents.                                                               *)
LEMMA Alloc ==
  ASSUME NEW c, NEW m \in [Vars -> Val], Good(c, m), NEW uses,
         NEW a \in AllocEmptyReg(c, uses)
  PROVE  a.r \in Reg /\ Good(a.c, m) /\ a.c.name = c.name
<1>1. c \in Gen
  BY DEF Good
<1>2. CASE c.used < NumRegs
  <2>1. a.r = c.used /\ a.c = [c EXCEPT !.used = @ + 1]
    BY <1>2 DEF AllocEmptyReg
  <2>2. c.used \in 0 .. NumRegs /\ NumRegs \in Nat
    BY <1>1, CacheAssumption DEF Gen
  <2>3. c.used \in Reg /\ c.used + 1 \in 0 .. NumRegs
    BY <1>2, <2>2 DEF Reg
  <2>4. a.r \in Reg /\ a.c \in Gen
    BY <1>1, <2>1, <2>3 DEF Gen
  <2>5. a.c.name = c.name /\ a.c.x = c.x /\ a.c.wrote = c.wrote
    BY <1>1, <2>1 DEF Gen
  <2> QED BY <2>4, <2>5 DEF Good, Uniq, Coh
<1>3. CASE ~(c.used < NumRegs)
  <2>1. PICK r \in Victims(c, uses) : a = [r |-> r, c |-> [c EXCEPT !.busy = @ \cup {r}]]
    BY <1>3 DEF AllocEmptyReg
  <2>2. r \in Reg
    BY <2>1 DEF Victims
  <2>3. /\ a.r \in Reg /\ a.c \in Gen
        /\ a.c.name = c.name /\ a.c.x = c.x /\ a.c.wrote = c.wrote
    BY <1>1, <2>1, <2>2 DEF Gen
  <2> QED BY <2>3 DEF Good, Uniq, Coh
<1> QED BY <1>2, <1>3

(* loadVarIntoReg returns a register of that name and keeps Good.          *)
LEMMA Load ==
  ASSUME mem \in [Vars -> Val],
         NEW c, Good(c, mem), NEW v \in Vars, NEW uses,
         NEW l \in LoadVarIntoReg(c, v, uses)
  PROVE  l.r \in Reg /\ Good(l.c, mem)
<1>1. CASE Cached(c, v)
  BY <1>1 DEF LoadVarIntoReg, FirstNamed
<1>2. CASE ~Cached(c, v)
  <2>1. PICK a \in AllocEmptyReg(c, uses) :
           l = [r |-> a.r, c |-> Rename(Put(a.c, a.r, mem[v]), a.r, v)]
    BY <1>2 DEF LoadVarIntoReg
  <2>2. a.r \in Reg /\ Good(a.c, mem) /\ a.c.name = c.name
    BY <2>1, Alloc
  <2>3. \A s \in Reg : s # a.r => a.c.name[s] # v
    BY <1>2, <2>2 DEF Cached
  <2>4. [mem EXCEPT ![v] = mem[v]] = mem /\ mem[v] \in Val
    OBVIOUS
  <2>5. Good(Rename(Put(a.c, a.r, mem[v]), a.r, v), [mem EXCEPT ![v] = mem[v]])
    BY <2>2, <2>3, <2>4, Assign
  <2> QED BY <2>1, <2>2, <2>4, <2>5
<1> QED BY <1>1, <1>2

(* An operand is brought into a register that may then get a special name. *)
LEMMA Bring ==
  ASSUME mem \in [Vars -> Val],
         NEW c, Good(c, mem), NEW o \in Operand, NEW uses,
         NEW l \in OperandReg(c, o, uses), NEW n \in Marks
  PROVE  l.r \in Reg /\ Good(Rename(l.c, l.r, n), mem)
<1>1. CASE o \in Vars
  <2>0. o # Ret
    BY <1>1, DisjointAssumption
  <2>1. l.r \in Reg /\ Good(l.c, mem)
    BY <1>1, <2>0, Load DEF OperandReg
  <2>2. l.c.x[l.r] \in Val
    BY <2>1 DEF Good, Gen
  <2> QED BY <2>1, <2>2, Mark
<1>2. CASE o \notin Vars /\ o = Ret
  <2>1. l = [r |-> 0, c |-> c]
    BY <1>2 DEF OperandReg
  <2>2. l.r \in Reg /\ l.c = c
    BY <2>1, Marks0
  <2>3. c.x[l.r] \in Val
    BY <2>2 DEF Good, Gen
  <2> QED BY <2>2, <2>3, Mark
<1>3. CASE o \notin Vars /\ o # Ret
  <2>1. o \in Literal
    BY <1>3 DEF Operand
  <2>2. PICK a \in AllocEmptyReg(c, uses) :
           l \in {[r |-> a.r, c |-> p] : p \in MovConverted(a.c, a.r, o)}
    BY <1>3 DEF OperandReg
  <2>3. a.r \in Reg /\ Good(a.c, mem)
    BY <2>2, Alloc
  <2>4. PICK p \in MovConverted(a.c, a.r, o) : l = [r |-> a.r, c |-> p]
    BY <2>2
  <2>5. PICK q \in Reg, z \in Val : p = Put(a.c, q, z) /\ (MovesReach => q = a.r)
    BY <2>1, <2>3, Moved
  <2> QED BY <2>3, <2>4, <2>5, MarkMoved
<1> QED BY <1>1, <1>2, <1>3

(* A code that ends in Emit hands a good generator on to the next code.    *)
LEMMA EmitStep ==
  ASSUME Inv, NEW c, NEW m \in [Vars -> Val], Good(c, m), NEW ops,
         Emit(c, m, ops)
  PROVE  Inv'
<1>1. c \in Gen
  BY DEF Good
<1>2. commonRegsVarName' = c.name /\ usedRegs' = c.used
  BY DEF Emit
<1>3. UniqueNames'
  BY <1>2 DEF Good, Uniq, UniqueNames
<1>4. CASE Executing
  <2>1. x' = c.x /\ mem' = m /\ stale' = stale \ c.wrote
    BY <1>4 DEF Emit
  <2>2. CacheOK'
    BY <1>1, <1>2, <2>1 DEF CacheOK, Gen, Inv
  <2>3. MovesReach => CoherentRegs'
    BY <1>2, <2>1 DEF Good, Coh, CoherentRegs
  <2> QED BY <1>3, <2>2, <2>3 DEF Inv, MovesReach
<1>5. CASE ~Executing
  <2>1. /\ x' = x /\ mem' = mem
        /\ stale' = stale \cup {r \in Reg : c.name[r] # commonRegsVarName[r]}
    BY <1>5 DEF Emit
  <2>2. CacheOK'
    BY <1>1, <1>2, <2>1 DEF CacheOK, Gen, Inv
  <2>3. MovesReach => CoherentRegs'
    BY <1>2, <2>1 DEF CoherentRegs, Inv
  <2> QED BY <1>3, <2>2, <2>3 DEF Inv, MovesReach
<1> QED BY <1>4, <1>5

(* After clearRegs there is nothing to be coherent with.                   *)
LEMMA ClearStep ==
  ASSUME Inv, NEW newX \in [Reg -> Val], NEW m \in [Vars -> Val], NEW ops,
         EmitAndClear(newX, m, ops)
  PROVE  Inv'
<1>1. /\ commonRegsVarName' = [r \in Reg |-> None]
      /\ usedRegs' = 0 /\ stale' = {}
  BY DEF EmitAndClear
<1>2. x' \in [Reg -> Val] /\ mem' \in [Vars -> Val]
  BY DEF EmitAndClear, Inv, CacheOK
<1>3. CacheOK'
  BY <1>1, <1>2, Marks0, CacheAssumption DEF CacheOK
<1>4. UniqueNames' /\ CoherentRegs'
  BY <1>1, Marks0 DEF UniqueNames, CoherentRegs
<1> QED BY <1>3, <1>4 DEF Inv

(* Between codes the generator is good.                                    *)
LEMMA CgGood ==
  ASSUME Inv
  PROVE  Good(Cg, mem) /\ mem \in [Vars -> Val]
<1>1. Cg \in Gen
  BY DEF Cg, Gen, Inv, CacheOK
<1>2. Cg.name = commonRegsVarName /\ Cg.x = x /\ Cg.wrote = {}
  BY DEF Cg
<1>3. Uniq(Cg) /\ Coh(Cg, mem)
  BY <1>2 DEF Uniq, Coh, Inv, UniqueNames, CoherentRegs
<1> QED BY <1>1, <1>3 DEF Good, Inv, CacheOK

-----------------------------------------------------------------------------
(* The source of a MIR_2 moved to the target's register.                   *)
LEMMA MovedSource ==
  ASSUME mem \in [Vars -> Val], NEW c, Good(c, mem), NEW r \in Reg, NEW o \in Operand,
         NEW p \in MovSource(c, r, o)
  PROVE  \E q \in Reg, z \in Val : p = Put(c, q, z) /\ (MovesReach => q = r)
<1>1. c.x \in [Reg -> Val] /\ 0 \in Reg
  BY Marks0 DEF Good, Gen
<1>2. CASE o \in Vars /\ Cached(c, o)
  <2>1. PICK s \in FirstNamed(c, o) : p = Put(c, r, c.x[s])
    BY <1>2, DisjointAssumption DEF MovSource
  <2>2. c.x[s] \in Val
    BY <1>1, <2>1 DEF FirstNamed
  <2>. QED
    BY <2>1, <2>2
<1>3. CASE o \in Vars /\ ~Cached(c, o)
  BY <1>3, DisjointAssumption DEF MovSource
<1>4. CASE o \notin Vars /\ o = Ret
  <2>1. p = Put(c, r, c.x[0]) /\ c.x[0] \in Val
    BY <1>1, <1>4 DEF MovSource
  <2>. QED
    BY <2>1
<1>5. CASE o \notin Vars /\ o # Ret
  BY <1>5, Moved DEF MovSource, Operand
<1>. QED
  BY <1>2, <1>3, <1>4, <1>5

LEMMA Mir2Step ==
  ASSUME Inv, NEW d \in Vars, NEW o \in Operand, Mir2(d, o)
  PROVE  Inv'
<1>1. Good(Cg, mem) /\ mem \in [Vars -> Val]
  BY CgGood
<1>2. PICK t \in TargetReg(d, o) : \E c \in MovSource(t.c, t.r, o) :
        Emit(Rename(c, t.r, d), [mem EXCEPT ![d] = c.x[t.r]], {<<c.x[t.r], Wanted(o)>>})
  BY DEF Mir2
<1>3. PICK c \in MovSource(t.c, t.r, o) :
        Emit(Rename(c, t.r, d), [mem EXCEPT ![d] = c.x[t.r]], {<<c.x[t.r], Wanted(o)>>})
  BY <1>2
<1>4. t.r \in Reg /\ Good(t.c, mem) /\ \A s \in Reg : s # t.r => t.c.name[s] # d
  <2>1. CASE Cached(Cg, d)
    <3>1. PICK r \in FirstNamed(Cg, d) : t = [r |-> r, c |-> Cg]
      BY <1>2, <2>1 DEF TargetReg
    <3>2. r \in Reg /\ Cg.name[r] = d
      BY <3>1 DEF FirstNamed
    <3>3. \A s \in Reg : s # r => Cg.name[s] # d
      BY <1>1, <3>2 DEF Good, Uniq
    <3> QED BY <1>1, <3>1, <3>2, <3>3
  <2>2. CASE ~Cached(Cg, d)
    <3>1. t \in AllocEmptyReg(Cg, {d, o})
      BY <1>2, <2>2 DEF TargetReg
    <3>2. t.r \in Reg /\ Good(t.c, mem) /\ t.c.name = Cg.name
      BY <1>1, <3>1, Alloc
    <3> QED BY <2>2, <3>2 DEF Cached
  <2> QED BY <2>1, <2>2
<1>6. PICK q \in Reg, z \in Val : c = Put(t.c, q, z) /\ (MovesReach => q = t.r)
  BY <1>1, <1>3, <1>4, MovedSource
<1>7. c.x[t.r] \in Val /\ Good(Rename(c, t.r, d), [mem EXCEPT ![d] = c.x[t.r]])
  BY <1>1, <1>4, <1>6, AssignMoved
<1>8. [mem EXCEPT ![d] = c.x[t.r]] \in [Vars -> Val]
  BY <1>1, <1>7
<1> QED BY <1>3, <1>7, <1>8, EmitStep

LEMMA Mir3Step ==
  ASSUME Inv, NEW d \in Temps, NEW o1 \in Operand, NEW o2 \in Operand,
         NEW inReg \in BOOLEAN, NEW z \in Val, Mir3(d, o1, o2, inReg, z)
  PROVE  Inv'
<1> DEFINE C1(a) == Rename(a.c, a.r, "mir3_value1")
           B(a) == IF inReg THEN OperandReg(C1(a), o2, {d, o1, o2})
                            ELSE {[r |-> a.r, c |-> C1(a)]}
           C2(a, b) == IF inReg THEN Rename(b.c, b.r, "mir3_value2") ELSE C1(a)
           R(a, b) == IF Cached(C2(a, b), d) THEN FirstNamed(C2(a, b), d) ELSE {a.r}
           Ops(a, b, v) == {<<C2(a, b).x[a.r], Wanted(o1)>>, <<v, Wanted(o2)>>}
           V(a, b) == IF inReg THEN {C2(a, b).x[b.r]} ELSE ConvertMirOperandImmBinary(o2)
<1>1. Good(Cg, mem) /\ mem \in [Vars -> Val] /\ d \in Vars
  BY CgGood DEF Vars
<1>2. PICK a \in OperandReg(Cg, o1, {d, o1, o2}) :
        \E b \in B(a) : \E v \in V(a, b) : \E r \in R(a, b) :
          Emit(Rename(Put(C2(a, b), r, z), r, d), [mem EXCEPT ![d] = z], Ops(a, b, v))
  BY DEF Mir3
<1>3. PICK b \in B(a) : \E v \in V(a, b) : \E r \in R(a, b) :
          Emit(Rename(Put(C2(a, b), r, z), r, d), [mem EXCEPT ![d] = z], Ops(a, b, v))
  BY <1>2
<1>4. PICK v \in V(a, b), r \in R(a, b) :
          Emit(Rename(Put(C2(a, b), r, z), r, d), [mem EXCEPT ![d] = z], Ops(a, b, v))
  BY <1>3
<1>5. a.r \in Reg /\ Good(C1(a), mem)
  BY <1>1, Bring, Marks0
<1> HIDE DEF C1
<1>6. Good(C2(a, b), mem)
  <2>1. CASE inReg
    <3>1. b \in OperandReg(C1(a), o2, {d, o1, o2})
      BY <1>3, <2>1
    <3> QED BY <1>1, <1>5, <2>1, <3>1, Bring, Marks0
  <2> QED BY <1>5, <2>1
<1> HIDE DEF C2
<1>7. r \in Reg /\ \A s \in Reg : s # r => C2(a, b).name[s] # d
  <2>1. CASE Cached(C2(a, b), d)
    <3>1. r \in Reg /\ C2(a, b).name[r] = d
      BY <1>4, <2>1 DEF FirstNamed
    <3> QED BY <1>1, <1>6, <3>1 DEF Good, Uniq
  <2> QED BY <1>4, <1>5, <2>1 DEF Cached
<1>8. Good(Rename(Put(C2(a, b), r, z), r, d), [mem EXCEPT ![d] = z])
  BY <1>1, <1>6, <1>7, Assign
<1>9. [mem EXCEPT ![d] = z] \in [Vars -> Val]
  BY <1>1
<1> QED BY <1>4, <1>8, <1>9, EmitStep

LEMMA CallStep ==
  ASSUME Inv, NEW args, NEW z \in Val, NEW newX \in [Reg -> Val],
         Call(args, z, newX)
  PROVE  Inv'
<1>1. PICK c \in WithArgs(args) :
        EmitAndClear(newX, mem,
                     {<<c.x[i - 1], Wanted(args[i])>> : i \in DOMAIN args})
  BY DEF Call
<1> QED BY <1>1, CgGood, ClearStep

LEMMA ReturnStep ==
  ASSUME Inv, NEW o \in Operand, Return(o)
  PROVE  Inv'
<1>1. Good(Cg, mem) /\ mem \in [Vars -> Val] /\ 0 \in Reg /\ "_last_ret" \in Marks
  BY CgGood, Marks0
<1>. DEFINE C == CASE o \in Vars -> {Put(l.c, 0, l.c.x[l.r]) : l \in LoadVarIntoReg(Cg, o, {o})}
                   [] o = Ret    -> {Cg}
                   [] OTHER      -> MovConverted(Cg, 0, o)
<1>2. PICK c \in C : Emit(Rename(c, 0, "_last_ret"), mem, {<<c.x[0], Wanted(o)>>})
  BY DEF Return
<1>3. Good(Rename(c, 0, "_last_ret"), mem)
  <2>1. CASE o \in Vars
    <3>1. PICK l \in LoadVarIntoReg(Cg, o, {o}) : c = Put(l.c, 0, l.c.x[l.r])
      BY <1>2, <2>1, DisjointAssumption
    <3>2. l.r \in Reg /\ Good(l.c, mem)
      BY <1>1, <2>1, <3>1, Load
    <3>3. l.c.x[l.r] \in Val
      BY <3>2 DEF Good, Gen
    <3>. QED
      BY <1>1, <3>1, <3>2, <3>3, Mark
  <2>2. CASE o \notin Vars /\ o = Ret
    <3>1. c = Cg
      BY <1>2, <2>2
    <3>2. \A z \in Val : Good(Rename(Cg, 0, "_last_ret"), mem)
      BY <1>1, Mark
    <3>. QED
      BY <3>1, <3>2, CacheAssumption
  <2>3. CASE o \notin Vars /\ o # Ret
    <3>1. c \in MovConverted(Cg, 0, o) /\ o \in Literal
      BY <1>2, <2>3 DEF Operand
    <3>2. PICK q \in Reg, z \in Val : c = Put(Cg, q, z) /\ (MovesReach => q = 0)
      BY <1>1, <3>1, Moved
    <3>. QED
      BY <1>1, <3>2, MarkMoved
  <2>. QED
    BY <2>1, <2>2, <2>3
<1>. QED
  BY <1>1, <1>2, <1>3, EmitStep

LEMMA CmpStep ==
  ASSUME Inv, NEW o1 \in Operand, NEW o2 \in Operand, NEW label, Cmp(o1, o2, label)
  PROVE  Inv'
<1> DEFINE imm == o2 \in Literal
           C1(a) == Rename(a.c, a.r, "cmp_value1")
           B(a) == IF imm THEN {[r |-> a.r, c |-> C1(a)]}
                          ELSE OperandReg(C1(a), o2, {o1, o2})
           C2(a, b) == IF imm THEN C1(a) ELSE Rename(b.c, b.r, "cmp_value2")
           Ops(a, b, v) == {<<C2(a, b).x[a.r], Wanted(o1)>>, <<v, Wanted(o2)>>}
           V(a, b) == IF imm THEN ConvertMirOperandImmBinary(o2) ELSE {C2(a, b).x[b.r]}
<1>1. Good(Cg, mem) /\ mem \in [Vars -> Val]
  BY CgGood
<1>2. PICK a \in OperandReg(Cg, o1, {o1, o2}) :
        \E b \in B(a) : \E v \in V(a, b) : Emit(C2(a, b), mem, Ops(a, b, v))
  BY DEF Cmp
<1>3. PICK b \in B(a) : \E v \in V(a, b) : Emit(C2(a, b), mem, Ops(a, b, v))
  BY <1>2
<1>4. Good(C1(a), mem)
  BY <1>1, Bring, Marks0
<1> HIDE DEF C1
<1>5. Good(C2(a, b), mem)
  <2>1. CASE ~imm
    <3>1. b \in OperandReg(C1(a), o2, {o1, o2})
      BY <1>3, <2>1
    <3> QED BY <1>1, <1>4, <2>1, <3>1, Bring, Marks0
  <2> QED BY <1>4, <2>1
<1> QED BY <1>1, <1>3, <1>5, EmitStep

(* Labels and jumps leave the cache alone.                                 *)
LEMMA LeaveStep ==
  ASSUME Inv, LeaveCache
  PROVE  Inv'
BY DEF Inv, LeaveCache, cacheVars, CacheOK, UniqueNames, CoherentRegs

LEMMA NextStep ==
  ASSUME Inv, [Next]_vars
  PROVE  Inv'
<1>1. CASE Statement
  BY <1>1, Mir2Step, Mir3Step, CallStep, ReturnStep, CmpStep DEF Statement
<1>2. CASE BeginIf \/ NextLabel \/ TrueLabel \/ FalseLabel \/ FinishLabel
  BY <1>2, LeaveStep DEF BeginIf, NextLabel, TrueLabel, FalseLabel, FinishLabel
<1>3. ASSUME NEW newMem \in [Vars -> Val],
             \/ BeginLoop(newMem) \/ EndLoop(newMem)
             \/ \E params \in SUBSET Users : NextMethod(params, newMem)
      PROVE  Inv'
  <2>1. PICK ops : EmitAndClear(x, newMem, ops)
    BY <1>3 DEF BeginLoop, EndLoop, NextMethod
  <2>2. x \in [Reg -> Val]
    BY DEF Inv, CacheOK
  <2> QED BY <2>1, <2>2, ClearStep
<1>4. CASE UNCHANGED vars
  BY <1>4 DEF vars, cacheVars, Inv, CacheOK, UniqueNames, CoherentRegs
<1> QED BY <1>1, <1>2, <1>3, <1>4 DEF Next, Structure

(* A method starts with an empty cache.                                    *)
LEMMA InvInit == Init => Inv
BY CacheAssumption, DisjointAssumption, Marks0
DEF Init, Inv, CacheOK, UniqueNames, CoherentRegs

(* Whatever methods are generated, no variable is ever believed to be in   *)
(* two registers: allocReg looks the name up before it gives it a          *)
(* register.                                                               *)
THEOREM NamesSafe == Spec => []UniqueNames
<1>1. Inv /\ [Next]_vars => Inv'
  BY NextStep
<1>2. Inv => UniqueNames
  BY DEF Inv
<1> QED BY InvInit, <1>1, <1>2, PTL DEF Spec

(* Where literals are at most 127 or the compiler's memory is zeroed, a    *)
(* register named by a variable holds what its slot holds, except where    *)
(* code that was jumped over gave it the name: generateCodes stores every  *)
(* result at once.                                                         *)
THEOREM CacheSafe ==
  ASSUME "dirtyMemory" \notin Features \/ Int16 \cup Int32 = {}
  PROVE  Spec => []CoherentRegs
<1>1. Inv /\ [Next]_vars => Inv'
  BY NextStep
<1>2. Inv => CoherentRegs
  BY DEF Inv, MovesReach
<1> QED BY InvInit, <1>1, <1>2, PTL DEF Spec

-----------------------------------------------------------------------------
(* The position in the program.  Code is jumped over up to a label that    *)
(* the block it belongs to still has ahead of it (Ahead), and only the     *)
(* innermost block is in its condition.                                    *)

Phases == {"cond", "branch", "body", "else"}

Ahead(p, l) ==
  \/ p = "cond" /\ l \in {"true", "false"}
  \/ p = "branch" /\ l \in {"next", "true", "false"}
  \/ p = "body" /\ l = "false"
  \/ p = "else" /\ l = "finish"

Path ==
  /\ readable \subseteq Vars
  /\ blocks \in Seq(Block)
  /\ callResult \in Val \cup {None}
  /\ returned \in Val \cup {None}
  /\ \A i \in 1 .. Depth - 1 : blocks[i].phase \in {"body", "else"}
  /\ \A i \in 1 .. Depth : blocks[i].phase = "else" => blocks[i].kind = "if"
  /\ \/ jump = <<>>
     \/ \E d \in 1 .. Depth, l \in Labels : jump = <<d, l>> /\ Ahead(blocks[d].phase, l)

\* The innermost block is a block.
LEMMA Innermost ==
  ASSUME Path, Depth > 0
  PROVE  blocks[Depth] \in Block /\ blocks[Depth].scope \subseteq Vars
<1>1. blocks[Depth] \in Block
  BY DEF Path, Depth
<1>. QED
  BY <1>1 DEF Block

\* The innermost block gets another phase.
LEMMA PhaseFields ==
  ASSUME Path, Depth > 0, NEW p \in Phases,
         blocks' = [blocks EXCEPT ![Depth].phase = p]
  PROVE  /\ blocks' \in Seq(Block) /\ Len(blocks') = Depth
         /\ \A i \in 1 .. Depth : i # Depth => blocks'[i] = blocks[i]
         /\ blocks'[Depth].phase = p /\ blocks'[Depth].kind = blocks[Depth].kind
<1>. DEFINE r == [blocks[Depth] EXCEPT !.phase = p]
<1>1. blocks \in Seq(Block) /\ Depth \in 1 .. Len(blocks) /\ Depth = Len(blocks)
  BY DEF Path, Depth
<1>2. r \in Block /\ r.phase = p /\ r.kind = blocks[Depth].kind
  BY Innermost DEF Block, Phases
<1>3. blocks' = [blocks EXCEPT ![Depth] = r]
  OBVIOUS
<1>. HIDE DEF r
<1>. QED
  BY <1>1, <1>2, <1>3

\* A block is opened, or the innermost one closed.
LEMMA OpenFields ==
  ASSUME Path, NEW kind \in {"if", "loop"}
  PROVE  /\ Open(kind) \in Seq(Block) /\ Len(Open(kind)) = Depth + 1
         /\ \A i \in 1 .. Depth : Open(kind)[i] = blocks[i]
         /\ Open(kind)[Depth + 1].phase = "cond" /\ Open(kind)[Depth + 1].kind = kind
<1>. DEFINE b == [kind |-> kind, phase |-> "cond", scope |-> readable \ Temps]
<1>1. b \in Block /\ b.phase = "cond" /\ b.kind = kind
  BY DEF Block, Path
<1>. HIDE DEF b
<1>2. Open(kind) = Append(blocks, b) /\ blocks \in Seq(Block)
  BY DEF Open, b, Path
<1>. QED
  BY <1>1, <1>2 DEF Depth

\* A sequence of blocks without its last one.
LEMMA CloseFields ==
  ASSUME NEW b \in Seq(Block), Len(b) > 0
  PROVE  /\ SubSeq(b, 1, Len(b) - 1) \in Seq(Block)
         /\ Len(SubSeq(b, 1, Len(b) - 1)) = Len(b) - 1
         /\ \A i \in 1 .. Len(b) - 1 : SubSeq(b, 1, Len(b) - 1)[i] = b[i]
<1>. DEFINE n == Len(b) - 1
<1>1. n \in Nat /\ 1 .. n \subseteq 1 .. Len(b) /\ \A i \in 1 .. n : b[i] \in Block
  OBVIOUS
<1>2. SubSeq(b, 1, n) = [i \in 1 .. n |-> b[i]]
  OBVIOUS
<1>. HIDE DEF n
<1>3. SubSeq(b, 1, n) \in [1 .. n -> Block]
  BY <1>1, <1>2
<1>4. SubSeq(b, 1, n) \in Seq(Block) /\ Len(SubSeq(b, 1, n)) = n
  BY <1>1, <1>3
<1>. QED
  BY <1>2, <1>4 DEF n

\* The code of a block goes on in another phase; a jump lands or stays ahead.
LEMMA PhaseStep ==
  ASSUME Path, Depth > 0, NEW p \in Phases,
         blocks' = [blocks EXCEPT ![Depth].phase = p],
         p = "else" => blocks[Depth].kind = "if",
         readable' \subseteq Vars, callResult' \in Val \cup {None},
         returned' \in Val \cup {None},
         \/ jump' = <<>>
         \/ jump' = jump /\ \A l \in Labels :
              jump = <<Depth, l>> /\ Ahead(blocks[Depth].phase, l) => Ahead(p, l)
         \/ \E l \in Labels : jump' = <<Depth, l>> /\ Ahead(p, l)
  PROVE  Path'
<1>1. /\ blocks' \in Seq(Block) /\ Len(blocks') = Depth
      /\ \A i \in 1 .. Depth : i # Depth => blocks'[i] = blocks[i]
      /\ blocks'[Depth].phase = p /\ blocks'[Depth].kind = blocks[Depth].kind
  BY PhaseFields
<1>2. Depth \in Nat /\ Depth' = Depth
  BY <1>1 DEF Path, Depth
<1>3. \A i \in 1 .. Depth' - 1 : blocks'[i].phase \in {"body", "else"}
  BY <1>1, <1>2 DEF Path
<1>4. \A i \in 1 .. Depth' : blocks'[i].phase = "else" => blocks'[i].kind = "if"
  BY <1>1, <1>2 DEF Path
<1>5. \/ jump' = <<>>
      \/ \E d \in 1 .. Depth', l \in Labels : jump' = <<d, l>> /\ Ahead(blocks'[d].phase, l)
  <2>1. CASE jump' = jump /\ \A l \in Labels :
              jump = <<Depth, l>> /\ Ahead(blocks[Depth].phase, l) => Ahead(p, l)
    <3>1. CASE jump # <<>>
      <4>1. PICK d \in 1 .. Depth, l \in Labels : jump = <<d, l>> /\ Ahead(blocks[d].phase, l)
        BY <3>1 DEF Path
      <4>2. Ahead(blocks'[d].phase, l)
        BY <1>1, <2>1, <4>1
      <4>. QED
        BY <1>2, <2>1, <4>1, <4>2
    <3>. QED
      BY <2>1, <3>1
  <2>2. CASE \E l \in Labels : jump' = <<Depth, l>> /\ Ahead(p, l)
    BY <1>1, <1>2, <2>2
  <2>. QED
    BY <2>1, <2>2
<1>. QED
  BY <1>1, <1>3, <1>4, <1>5 DEF Path

\* A block is opened after a condition, or code follows in the same block.
LEMMA OpenStep ==
  ASSUME Path, MayGenerate, ~InCondition, NEW kind \in {"if", "loop"},
         blocks' = Open(kind), jump' = jump,
         readable' \subseteq Vars, callResult' \in Val \cup {None},
         returned' \in Val \cup {None}
  PROVE  Path'
<1>1. /\ blocks' \in Seq(Block) /\ Len(blocks') = Depth + 1
      /\ \A i \in 1 .. Depth : blocks'[i] = blocks[i]
      /\ blocks'[Depth + 1].phase = "cond" /\ blocks'[Depth + 1].kind = kind
  BY OpenFields
<1>2. Depth \in Nat /\ Depth' = Depth + 1 /\ \A i \in 1 .. Depth : blocks[i].phase \in Phases
  <2>1. Depth \in Nat /\ Depth' = Depth + 1
    BY <1>1 DEF Path, Depth
  <2>2. \A i \in 1 .. Depth : blocks[i] \in Block
    BY DEF Path, Depth
  <2>. QED
    BY <2>1, <2>2 DEF Block, Phases
<1>3. \A i \in 1 .. Depth : blocks[i].phase \in {"body", "else"}
  BY <1>2 DEF Path, MayGenerate, InCondition, InPhase, Phases
<1>4. \A i \in 1 .. Depth' - 1 : blocks'[i].phase \in {"body", "else"}
  BY <1>1, <1>2, <1>3
<1>5. \A i \in 1 .. Depth' : blocks'[i].phase = "else" => blocks'[i].kind = "if"
  BY <1>1, <1>2 DEF Path
<1>6. \/ jump' = <<>>
      \/ \E d \in 1 .. Depth', l \in Labels : jump' = <<d, l>> /\ Ahead(blocks'[d].phase, l)
  BY <1>1, <1>2 DEF Path
<1>. QED
  BY <1>1, <1>4, <1>5, <1>6 DEF Path

\* The innermost block is closed at the only label it still had ahead.
LEMMA CloseStep ==
  ASSUME Path, Depth > 0, blocks' = SubSeq(blocks, 1, Depth - 1),
         NEW label, jump' = Landed(label),
         \A l \in Labels : Ahead(blocks[Depth].phase, l) => l = label,
         readable' \subseteq Vars, callResult' \in Val \cup {None},
         returned' \in Val \cup {None}
  PROVE  Path'
<1>1. /\ blocks' \in Seq(Block) /\ Len(blocks') = Depth - 1
      /\ \A i \in 1 .. Depth - 1 : blocks'[i] = blocks[i]
  BY CloseFields DEF Path, Depth
<1>2. Depth \in Nat /\ Depth' = Depth - 1
  BY <1>1 DEF Path, Depth
<1>3. /\ \A i \in 1 .. Depth' - 1 : blocks'[i].phase \in {"body", "else"}
      /\ \A i \in 1 .. Depth' : blocks'[i].phase = "else" => blocks'[i].kind = "if"
  BY <1>1, <1>2 DEF Path
<1>4. \/ jump' = <<>>
      \/ \E d \in 1 .. Depth', l \in Labels : jump' = <<d, l>> /\ Ahead(blocks'[d].phase, l)
  <2>1. CASE jump' # <<>>
    <3>1. jump' = jump /\ jump # <<Depth, label>> /\ jump # <<>>
      BY <2>1 DEF Landed
    <3>2. PICK d \in 1 .. Depth, l \in Labels : jump = <<d, l>> /\ Ahead(blocks[d].phase, l)
      BY <3>1 DEF Path
    <3>3. d \in 1 .. Depth'
      BY <1>2, <3>1, <3>2
    <3>. QED
      BY <1>1, <1>2, <3>1, <3>2, <3>3
  <2>. QED
    BY <2>1
<1>. QED
  BY <1>1, <1>3, <1>4 DEF Path

\* A code in the middle of a block.
LEMMA CodeStep ==
  ASSUME Path, UNCHANGED <<blocks, jump>>,
         readable' \subseteq Vars, callResult' \in Val \cup {None},
         returned' \in Val \cup {None}
  PROVE  Path'
BY DEF Path, Depth

\* What the source means by an operand it may read is a value.
LEMMA WantedVal ==
  ASSUME Inv, Path, NEW o \in Operand, MayRead(o)
  PROVE  Wanted(o) \in Val
<1>1. CASE o \in Vars
  BY <1>1, DisjointAssumption DEF Wanted, Inv, CacheOK
<1>2. CASE o \notin Vars /\ o = Ret
  <2>1. Wanted(o) = callResult
    BY <1>2 DEF Wanted
  <2>. QED
    BY <1>2, <2>1 DEF MayRead, Path
<1>3. CASE o \notin Vars /\ o # Ret
  BY <1>3, CacheAssumption DEF Wanted, Operand
<1>. QED
  BY <1>1, <1>2, <1>3

\* Every step keeps the position in the program.
LEMMA PathNext ==
  ASSUME Inv, Path, [Next]_vars
  PROVE  Path'
<1>1. /\ readable \subseteq Vars /\ Temps \subseteq Vars /\ Users \subseteq Vars
      /\ None \in Val \cup {None} /\ callResult \in Val \cup {None}
      /\ returned \in Val \cup {None} /\ Depth \in Nat
  BY DEF Path, Vars, Depth
<1>2. ASSUME NEW d \in Vars, NEW o \in Operand, Mir2(d, o)  PROVE Path'
  BY <1>1, <1>2, CodeStep DEF Mir2
<1>3. ASSUME NEW d \in Temps, NEW o1 \in Operand, NEW o2 \in Operand,
             NEW inReg \in BOOLEAN, NEW z \in Val, Mir3(d, o1, o2, inReg, z)
      PROVE  Path'
  BY <1>1, <1>3, CodeStep DEF Mir3
<1>4. ASSUME NEW args, NEW z \in Val, NEW newX, Call(args, z, newX)  PROVE Path'
  BY <1>1, <1>4, CodeStep DEF Call
<1>5. ASSUME NEW o \in Operand, Return(o)  PROVE Path'
  <2>1. returned' \in Val \cup {None}
    BY <1>1, <1>5, WantedVal DEF Return
  <2>. QED
    BY <1>1, <1>5, <2>1, CodeStep DEF Return
<1>6. ASSUME NEW o1 \in Operand, NEW o2 \in Operand,
             NEW label \in {"next", "true", "false"}, Cmp(o1, o2, label)
      PROVE  Path'
  <2>1. /\ Depth > 0 /\ blocks[Depth].phase = "cond"
        /\ blocks' = [blocks EXCEPT ![Depth].phase = "branch"]
        /\ readable' = readable \ Temps /\ callResult' = None /\ returned' = returned
        /\ jump' = IF Executing THEN <<Depth, label>> ELSE jump
    BY <1>6 DEF Cmp, InCondition, InPhase
  <2>2. \/ jump' = jump /\ \A l \in Labels :
             jump = <<Depth, l>> /\ Ahead(blocks[Depth].phase, l) => Ahead("branch", l)
        \/ \E l \in Labels : jump' = <<Depth, l>> /\ Ahead("branch", l)
    BY <2>1 DEF Ahead, Labels
  <2>3. "branch" \in Phases /\ readable' \subseteq Vars
    BY <1>1, <2>1 DEF Phases
  <2>. QED
    BY <1>1, <2>1, <2>2, <2>3, PhaseStep
<1>7. CASE BeginIf
  BY <1>1, <1>7, OpenStep DEF BeginIf, LeaveCache
<1>8. CASE NextLabel
  <2>1. /\ Depth > 0 /\ blocks[Depth].phase = "branch"
        /\ blocks' = [blocks EXCEPT ![Depth].phase = "cond"]
        /\ readable' = readable /\ callResult' = None /\ returned' = returned
        /\ jump' = Landed("next")
    BY <1>8 DEF NextLabel, InPhase, LeaveCache
  <2>2. \/ jump' = <<>>
        \/ jump' = jump /\ \A l \in Labels :
             jump = <<Depth, l>> /\ Ahead(blocks[Depth].phase, l) => Ahead("cond", l)
    BY <2>1 DEF Ahead, Labels, Landed
  <2>3. "cond" \in Phases
    BY DEF Phases
  <2>. QED
    BY <1>1, <2>1, <2>2, <2>3, PhaseStep
<1>9. CASE TrueLabel
  <2>1. /\ Depth > 0 /\ blocks[Depth].phase = "branch" /\ jump # <<Depth, "next">>
        /\ blocks' = [blocks EXCEPT ![Depth].phase = "body"]
        /\ readable' = readable /\ callResult' = None /\ returned' = returned
        /\ jump' = Landed("true")
    BY <1>9 DEF TrueLabel, InPhase, LeaveCache
  <2>2. \/ jump' = <<>>
        \/ jump' = jump /\ \A l \in Labels :
             jump = <<Depth, l>> /\ Ahead(blocks[Depth].phase, l) => Ahead("body", l)
    BY <2>1 DEF Ahead, Labels, Landed
  <2>3. "body" \in Phases
    BY DEF Phases
  <2>. QED
    BY <1>1, <2>1, <2>2, <2>3, PhaseStep
<1>10. CASE FalseLabel
  <2>1. /\ Depth > 0 /\ blocks[Depth].phase = "body" /\ blocks[Depth].kind = "if"
        /\ blocks' = [blocks EXCEPT ![Depth].phase = "else"]
        /\ readable' = blocks[Depth].scope /\ callResult' = None /\ returned' = returned
        /\ jump' = IF Executing THEN <<Depth, "finish">> ELSE Landed("false")
    BY <1>10 DEF FalseLabel, InPhase, LeaveCache
  <2>2. \/ jump' = <<>>
        \/ jump' = jump /\ \A l \in Labels :
             jump = <<Depth, l>> /\ Ahead(blocks[Depth].phase, l) => Ahead("else", l)
        \/ \E l \in Labels : jump' = <<Depth, l>> /\ Ahead("else", l)
    BY <2>1 DEF Ahead, Labels, Landed, Executing
  <2>3. "else" \in Phases
    BY DEF Phases
  <2>4. blocks[Depth].scope \subseteq Vars
    BY <2>1, Innermost
  <2>. QED
    BY <1>1, <2>1, <2>2, <2>3, <2>4, PhaseStep
<1>11. CASE FinishLabel
  <2>1. /\ Depth > 0 /\ blocks[Depth].phase = "else"
        /\ blocks' = SubSeq(blocks, 1, Depth - 1)
        /\ readable' = blocks[Depth].scope /\ callResult' = None /\ returned' = returned
        /\ jump' = Landed("finish")
    BY <1>11 DEF FinishLabel, InPhase, LeaveCache
  <2>2. \A l \in Labels : Ahead(blocks[Depth].phase, l) => l = "finish"
    BY <2>1 DEF Ahead
  <2>3. blocks[Depth].scope \subseteq Vars
    BY <2>1, Innermost
  <2>. QED
    BY <1>1, <2>1, <2>2, <2>3, CloseStep
<1>12. ASSUME NEW newMem, BeginLoop(newMem)  PROVE Path'
  BY <1>1, <1>12, OpenStep DEF BeginLoop
<1>13. ASSUME NEW newMem, EndLoop(newMem)  PROVE Path'
  <2>1. /\ Depth > 0 /\ blocks[Depth].phase = "body"
        /\ blocks' = SubSeq(blocks, 1, Depth - 1)
        /\ readable' = blocks[Depth].scope /\ callResult' = None /\ returned' = returned
        /\ jump' = Landed("false")
    BY <1>13 DEF EndLoop, InPhase
  <2>2. \A l \in Labels : Ahead(blocks[Depth].phase, l) => l = "false"
    BY <2>1 DEF Ahead
  <2>3. blocks[Depth].scope \subseteq Vars
    BY <2>1, Innermost
  <2>. QED
    BY <1>1, <2>1, <2>2, <2>3, CloseStep
<1>14. ASSUME NEW newMem, NEW params \in SUBSET Users, NextMethod(params, newMem)
       PROVE  Path'
  BY <1>1, <1>14, CodeStep DEF NextMethod
<1>15. CASE UNCHANGED vars
  BY <1>1, <1>15, CodeStep DEF vars, progVars
<1>. QED
  BY <1>2, <1>3, <1>4, <1>5, <1>6, <1>7, <1>8, <1>9, <1>10, <1>11, <1>12, <1>13, <1>14,
     <1>15 DEF Next, Statement, Structure

\* A method starts outside of all blocks, with an empty cache.
LEMMA PathInit == Init => Inv /\ Path
BY InvInit DEF Init, Path, Depth, Vars

(* The generator, the machine and the position in the program stay what    *)
(* they are meant to be: in particular the label a jump leads to belongs   *)
(* to an open block and is still ahead.                                    *)
THEOREM TypeCorrect == Spec => []TypeOK
<1>1. Inv /\ Path /\ [Next]_vars => Inv' /\ Path'
  BY NextStep, PathNext
<1>2. Inv /\ Path => TypeOK
  BY DEF Inv, Path, TypeOK
<1>. QED
  BY PathInit, <1>1, <1>2, PTL DEF Spec

-----------------------------------------------------------------------------
(* Plain methods: no if, no more registers than there are, calls only as   *)
(* the whole value of an assignment, no optimizer, no code behind a        *)
(* return, and no literal over 127, since the generator moves or compares  *)
(* another value.  A register named by a variable is one handed out        *)
(* (Counted), so that the next one handed out holds no other operand; what *)
(* was renamed while a condition was jumped over is named by temporaries   *)
(* (StaleTemps), which no code behind the condition reads (StaleHidden).   *)

Plain == Features = {} /\ Int16 \cup Int32 = {}

\* The jump taken ends within the innermost block's condition.
InsideCondition == \E l \in {"next", "true"} : jump = <<Depth, l>>

OnlyLoops  == \A i \in 1 .. Depth : blocks[i].kind = "loop"
Counted    == \A r \in Reg : commonRegsVarName[r] \in Vars => r < usedRegs
StaleTemps == Executing \/ InsideCondition =>
                \A r \in stale : commonRegsVarName[r] \in Vars => commonRegsVarName[r] \in Temps
StaleHidden == Executing => \A r \in stale : commonRegsVarName[r] \notin readable
BranchBare == InPhase("branch") => readable \cap Temps = {}
ResultHeld == callResult # None /\ Executing => x[0] = callResult
ReturnHeld == returned # None => Depth = 0 /\ x[0] = returned

PlainInv ==
  /\ Inv /\ Path
  /\ OnlyLoops /\ Counted /\ StaleTemps /\ StaleHidden /\ BranchBare
  /\ ResultHeld /\ ReturnHeld /\ OperandsFresh

\* Code is generated before the return and not behind a comparison.
LEMMA NoBranchCode ==
  ASSUME Plain, PlainInv, MayGenerate
  PROVE  returned = None /\ ~InPhase("branch")
<1>1. ~InPhase("branch") /\ (returned = None \/ ~Executing)
  BY DEF MayGenerate, Plain
<1>2. returned # None => Depth = 0
  BY DEF PlainInv, ReturnHeld
<1>3. Depth = 0 => Executing
  BY DEF PlainInv, Path, Executing
<1>. QED
  BY <1>1, <1>2, <1>3

\* A literal reaches the register it is moved to, and means what the source means.
LEMMA PlainLiteral ==
  ASSUME Plain, NEW l \in Literal, NEW c, NEW r
  PROVE  /\ Means[l] \in Val
         /\ ConvertMirOperandImmBinary(l) = {Means[l]}
         /\ MovConverted(c, r, l) = {Put(c, r, Means[l])}
         /\ MovDataInt32(c, r, l) = {Put(c, r, Means[l])}
<1>1. l \in Int8 /\ l \notin Int16 /\ l \notin Int32 /\ "dirtyMemory" \notin Features /\ Means[l] \in Val
  BY CacheAssumption DEF Plain, Literal
<1>. QED
  BY <1>1 DEF ConvertMirOperandImmBinary, MovConverted, MovDataInt32

(* The generator's names are old ones, of registers handed out, and where  *)
(* the code is executed and may read the variable, its value is there.     *)
Old(c) ==
  /\ c \in Gen
  /\ \A r \in Reg : c.name[r] \in Vars =>
       /\ c.name[r] = commonRegsVarName[r]
       /\ r < c.used
       /\ Executing /\ c.name[r] \in readable => c.x[r] = mem[c.name[r]]

\* Before a code the names are the cache's own.
LEMMA CgOld ==
  ASSUME Plain, PlainInv
  PROVE  Old(Cg)
<1>1. Cg \in Gen /\ Cg.name = commonRegsVarName /\ Cg.x = x /\ Cg.used = usedRegs
  <2>1. Inv
    BY DEF PlainInv
  <2>. QED
    BY <2>1, CgGood DEF Cg, Good
<1>2. ASSUME NEW r \in Reg, commonRegsVarName[r] \in Vars, Executing,
             commonRegsVarName[r] \in readable
      PROVE  x[r] = mem[commonRegsVarName[r]]
  BY <1>2 DEF Plain, MovesReach, PlainInv, StaleHidden, Inv, CoherentRegs
<1>. QED
  BY <1>1, <1>2 DEF Old, PlainInv, Counted

\* Without spills, the next register is handed out, while there is one.
LEMMA PlainAlloc ==
  ASSUME Plain, NEW c \in Gen, NEW uses, NEW a \in AllocEmptyReg(c, uses)
  PROVE  /\ a.r = c.used /\ a.r \in Reg /\ a.c \in Gen
         /\ a.c.used = c.used + 1 /\ a.c.name = c.name /\ a.c.x = c.x
         /\ a.c.wrote = c.wrote
<1>1. c.used < NumRegs /\ a = [r |-> c.used, c |-> [c EXCEPT !.used = @ + 1]]
  BY DEF AllocEmptyReg, Plain
<1>2. c.used \in 0 .. NumRegs /\ NumRegs \in Nat
  BY CacheAssumption DEF Gen
<1>3. c.used \in Reg /\ c.used + 1 \in 0 .. NumRegs
  BY <1>1, <1>2 DEF Reg
<1>. QED
  BY <1>1, <1>3 DEF Gen

(* A variable is found in a register of its name, or loaded into the next. *)
Loaded(c, v, l) ==
  \/ l.r \in Reg /\ c.name[l.r] = v /\ l.c = c
  \/ /\ l.r = c.used /\ l.r \in Reg /\ l.c \in Gen /\ l.c.used = c.used + 1
     /\ l.c.name = [c.name EXCEPT ![l.r] = v]
     /\ l.c.x = [c.x EXCEPT ![l.r] = mem[v]]
     /\ l.c.wrote = c.wrote \cup {l.r}

\* loadVarIntoReg, without spills.
LEMMA PlainLoad ==
  ASSUME Plain, Inv, NEW c \in Gen, NEW v \in Vars, NEW uses,
         NEW l \in LoadVarIntoReg(c, v, uses)
  PROVE  Loaded(c, v, l)
<1>1. CASE Cached(c, v)
  BY <1>1 DEF LoadVarIntoReg, FirstNamed, Loaded
<1>2. CASE ~Cached(c, v)
  <2>1. PICK a \in AllocEmptyReg(c, uses) :
           l = [r |-> a.r, c |-> Rename(Put(a.c, a.r, mem[v]), a.r, v)]
    BY <1>2 DEF LoadVarIntoReg
  <2>2. /\ a.r = c.used /\ a.r \in Reg /\ a.c \in Gen
        /\ a.c.used = c.used + 1 /\ a.c.name = c.name /\ a.c.x = c.x
        /\ a.c.wrote = c.wrote
    BY <2>1, PlainAlloc
  <2>. DEFINE p == Put(a.c, a.r, mem[v])
              q == Rename(p, a.r, v)
  <2>3. mem[v] \in Val /\ v \in Names
    BY DEF Inv, CacheOK, Names
  <2>4. /\ p \in Gen /\ p.name = a.c.name /\ p.x = [a.c.x EXCEPT ![a.r] = mem[v]]
        /\ p.wrote = a.c.wrote \cup {a.r} /\ p.used = a.c.used
    BY <2>2, <2>3, PutFields
  <2>5. /\ q \in Gen /\ q.name = [p.name EXCEPT ![a.r] = v] /\ q.x = p.x
        /\ q.wrote = p.wrote /\ q.used = p.used
    BY <2>2, <2>3, <2>4, RenameFields
  <2>6. l.r = a.r /\ l.c = q
    BY <2>1
  <2>. HIDE DEF p, q
  <2>. QED
    BY <2>2, <2>4, <2>5, <2>6 DEF Loaded
<1>. QED
  BY <1>1, <1>2

(* An operand that is not a call's result comes into a register that no    *)
(* other operand is in, and is the one the source means.                   *)
LEMMA PlainBring ==
  ASSUME Plain, PlainInv, NEW c, Old(c), NEW o \in Vars \cup Literal, MayRead(o), NEW uses,
         NEW l \in OperandReg(c, o, uses), NEW n \in Marks
  PROVE  LET q == Rename(l.c, l.r, n) IN
         /\ Old(q) /\ l.r \in Reg /\ l.r < q.used /\ q.name[l.r] = n
         /\ Executing => q.x[l.r] = Wanted(o)
         /\ \A s \in Reg : c.name[s] \notin Vars /\ s < c.used =>
              s # l.r /\ s < q.used /\ q.x[s] = c.x[s]
<1>. DEFINE q == Rename(l.c, l.r, n)
<1>1. c \in Gen /\ Inv /\ n \in Names /\ n \notin Vars /\ o # Ret
  BY Marks0, DisjointAssumption DEF Old, PlainInv
<1>2. CASE o \in Vars
  <2>1. l \in LoadVarIntoReg(c, o, uses) /\ Wanted(o) = mem[o] /\ o \in readable
    BY <1>1, <1>2 DEF OperandReg, Wanted, MayRead
  <2>2. CASE l.r \in Reg /\ c.name[l.r] = o /\ l.c = c
    <3>1. /\ q \in Gen /\ q.name = [c.name EXCEPT ![l.r] = n] /\ q.x = c.x
          /\ q.used = c.used
      BY <1>1, <2>2, RenameFields
    <3>. HIDE DEF q
    <3>2. Old(q) /\ l.r < q.used /\ q.name[l.r] = n /\ (Executing => q.x[l.r] = Wanted(o))
      BY <1>1, <1>2, <2>1, <2>2, <3>1 DEF Old, Gen
    <3>3. \A s \in Reg : c.name[s] \notin Vars /\ s < c.used =>
              s # l.r /\ s < q.used /\ q.x[s] = c.x[s]
      BY <1>2, <2>2, <3>1
    <3>. QED
      BY <2>2, <3>2, <3>3 DEF q
  <2>3. CASE /\ l.r = c.used /\ l.r \in Reg /\ l.c \in Gen /\ l.c.used = c.used + 1
             /\ l.c.name = [c.name EXCEPT ![l.r] = o]
             /\ l.c.x = [c.x EXCEPT ![l.r] = mem[o]]
    <3>1. /\ q \in Gen /\ q.name = [l.c.name EXCEPT ![l.r] = n] /\ q.x = l.c.x
          /\ q.used = l.c.used
      BY <1>1, <2>3, RenameFields
    <3>. HIDE DEF q
    <3>2. c.used \in Int /\ q.used = c.used + 1
      BY <1>1, <2>3, <3>1 DEF Gen
    <3>3. /\ \A s \in Reg : s # l.r => q.name[s] = c.name[s] /\ q.x[s] = c.x[s]
          /\ q.name[l.r] = n /\ q.x[l.r] = mem[o]
      BY <1>1, <2>3, <3>1 DEF Gen
    <3>4. Old(q)
      BY <1>1, <2>3, <3>1, <3>2, <3>3 DEF Old, Reg
    <3>5. l.r < q.used
      BY <2>3, <3>2
    <3>6. \A s \in Reg : c.name[s] \notin Vars /\ s < c.used =>
              s # l.r /\ s < q.used /\ q.x[s] = c.x[s]
      BY <2>3, <3>2, <3>3 DEF Reg
    <3>. QED
      BY <2>1, <2>3, <3>3, <3>4, <3>5, <3>6 DEF q
  <2>. QED
    <3>1. Loaded(c, o, l)
      BY <1>1, <1>2, <2>1, PlainLoad
    <3>. QED
      BY <2>2, <2>3, <3>1 DEF Loaded
<1>3. CASE o \notin Vars
  <2>. DEFINE k == Means[o]
  <2>1. o \in Literal /\ Wanted(o) = k /\ k \in Val
    BY <1>1, <1>3, PlainLiteral DEF Wanted
  <2>. HIDE DEF k
  <2>2. PICK a \in AllocEmptyReg(c, uses) : l = [r |-> a.r, c |-> Put(a.c, a.r, k)]
    <3>1. PICK a \in AllocEmptyReg(c, uses) :
             l \in {[r |-> a.r, c |-> p] : p \in MovConverted(a.c, a.r, o)}
      BY <1>1, <1>3 DEF OperandReg
    <3>. QED
      BY <2>1, <3>1, PlainLiteral DEF k
  <2>3. /\ a.r = c.used /\ a.r \in Reg /\ a.c \in Gen
        /\ a.c.used = c.used + 1 /\ a.c.name = c.name /\ a.c.x = c.x
    BY <1>1, <2>2, PlainAlloc
  <2>4. /\ l.r = a.r /\ l.c \in Gen /\ l.c.name = a.c.name /\ l.c.used = a.c.used
        /\ l.c.x = [a.c.x EXCEPT ![a.r] = k]
    BY <2>1, <2>2, <2>3, PutFields
  <2>5. /\ q \in Gen /\ q.name = [l.c.name EXCEPT ![l.r] = n] /\ q.x = l.c.x
        /\ q.used = l.c.used
    BY <1>1, <2>3, <2>4, RenameFields
  <2>. HIDE DEF q
  <2>6. c.used \in Int /\ q.used = c.used + 1 /\ l.r = c.used /\ l.r \in Reg
    BY <1>1, <2>3, <2>4, <2>5 DEF Gen
  <2>7. /\ \A s \in Reg : s # l.r => q.name[s] = c.name[s] /\ q.x[s] = c.x[s]
        /\ q.name[l.r] = n /\ q.x[l.r] = k
    BY <1>1, <2>3, <2>4, <2>5 DEF Gen
  <2>8. Old(q)
    BY <1>1, <2>5, <2>6, <2>7 DEF Old, Reg
  <2>9. \A s \in Reg : c.name[s] \notin Vars /\ s < c.used =>
              s # l.r /\ s < q.used /\ q.x[s] = c.x[s]
    BY <2>6, <2>7 DEF Reg
  <2>. QED
    BY <2>1, <2>6, <2>7, <2>8, <2>9 DEF q
<1>. QED
  BY <1>2, <1>3

(* A code gives the name of a variable only to registers it writes: what   *)
(* is said of the registers that code jumped over has renamed holds on.    *)
LEMMA StaleStep ==
  ASSUME PlainInv, NEW c \in Gen, Uniq(c), NEW m, NEW ops, Emit(c, m, ops),
         \A r \in Reg : c.name[r] \in Vars =>
           /\ r < c.used
           /\ \/ c.name[r] = commonRegsVarName[r]
              \/ r \in c.wrote /\ (~Executing /\ InsideCondition => c.name[r] \in Temps),
         \A v \in readable' \ readable : \E r \in c.wrote : c.name[r] = v,
         readable' \subseteq Vars,
         Executing' => Executing,
         (Executing \/ InsideCondition)' => Executing \/ InsideCondition
  PROVE  Counted' /\ StaleTemps' /\ StaleHidden'
<1>1. commonRegsVarName' = c.name /\ usedRegs' = c.used /\ c.wrote \subseteq Reg
  BY DEF Emit, Gen
<1>2. Counted'
  BY <1>1 DEF Counted
<1>3. stale \subseteq Reg /\ StaleTemps /\ StaleHidden
  BY DEF PlainInv, Inv, CacheOK
<1>4. CASE Executing
  <2>1. stale' = stale \ c.wrote
    BY <1>4 DEF Emit
  <2>2. \A r \in stale' : c.name[r] \in Vars => c.name[r] = commonRegsVarName[r] /\ r \in stale
    BY <1>3, <2>1
  <2>3. StaleTemps'
    BY <1>1, <1>3, <1>4, <2>2 DEF StaleTemps
  <2>4. ASSUME NEW r \in stale', c.name[r] \in readable'  PROVE FALSE
    <3>1. c.name[r] = commonRegsVarName[r] /\ r \in stale /\ r \in Reg /\ r \notin c.wrote
      BY <1>3, <2>1, <2>2, <2>4
    <3>2. c.name[r] \notin readable
      BY <1>3, <1>4, <3>1 DEF StaleHidden
    <3>3. PICK w \in c.wrote : c.name[w] = c.name[r]
      BY <2>4, <3>2
    <3>. QED
      BY <1>1, <2>4, <3>1, <3>3 DEF Uniq
  <2>5. StaleHidden'
    BY <1>1, <2>4 DEF StaleHidden
  <2>. QED
    BY <1>2, <2>3, <2>5
<1>5. CASE ~Executing
  <2>1. stale' = stale \cup {r \in Reg : c.name[r] # commonRegsVarName[r]}
    BY <1>5 DEF Emit
  <2>2. StaleHidden'
    BY <1>5 DEF StaleHidden
  <2>3. ASSUME InsideCondition, NEW r \in stale', c.name[r] \in Vars  PROVE c.name[r] \in Temps
    BY <1>3, <1>5, <2>1, <2>3 DEF StaleTemps
  <2>4. StaleTemps'
    BY <1>1, <1>5, <2>3 DEF StaleTemps
  <2>. QED
    BY <1>2, <2>2, <2>4
<1>. QED
  BY <1>4, <1>5

\* A code in the middle of a block.
LEMMA PlainCode ==
  ASSUME Plain, PlainInv, Inv', Path', MayGenerate,
         UNCHANGED <<blocks, jump, returned>>, callResult' = None,
         NEW c \in Gen, NEW m, NEW ops, Emit(c, m, ops),
         \A r \in Reg : c.name[r] \in Vars =>
           /\ r < c.used
           /\ \/ c.name[r] = commonRegsVarName[r]
              \/ r \in c.wrote /\ (~Executing /\ InsideCondition => c.name[r] \in Temps),
         \A v \in readable' \ readable : \E r \in c.wrote : c.name[r] = v,
         Executing => \A p \in ops : p[1] = p[2]
  PROVE  PlainInv'
<1>1. Executing' = Executing /\ InsideCondition' = InsideCondition /\ Depth' = Depth
  BY DEF Executing, InsideCondition, Depth
<1>2. readable' \subseteq Vars /\ Uniq(c)
  BY DEF Path, Inv, UniqueNames, Uniq, Emit
<1>3. Counted' /\ StaleTemps' /\ StaleHidden'
  BY <1>1, <1>2, StaleStep
<1>4. OnlyLoops' /\ BranchBare'
  BY <1>1, NoBranchCode DEF PlainInv, OnlyLoops, BranchBare, InPhase
<1>5. ResultHeld' /\ ReturnHeld'
  BY NoBranchCode DEF ResultHeld, ReturnHeld
<1>6. OperandsFresh'
  BY DEF OperandsFresh, Emit
<1>. QED
  BY <1>3, <1>4, <1>5, <1>6 DEF PlainInv

\* An assignment: the source is read before the target is renamed.
LEMMA PlainMir2 ==
  ASSUME Plain, PlainInv, Inv', Path', NEW d \in Vars, NEW o \in Operand, Mir2(d, o)
  PROVE  PlainInv'
<1>1. Old(Cg) /\ Cg \in Gen /\ Uniq(Cg) /\ Inv /\ mem \in [Vars -> Val]
  BY CgOld, CgGood DEF PlainInv, Good
<1>2. PICK t \in TargetReg(d, o) : \E e \in MovSource(t.c, t.r, o) :
         Emit(Rename(e, t.r, d), [mem EXCEPT ![d] = e.x[t.r]], {<<e.x[t.r], Wanted(o)>>})
  BY DEF Mir2
<1>3. PICK e \in MovSource(t.c, t.r, o) :
         Emit(Rename(e, t.r, d), [mem EXCEPT ![d] = e.x[t.r]], {<<e.x[t.r], Wanted(o)>>})
  BY <1>2
<1>4. /\ t.r \in Reg /\ t.c \in Gen /\ t.r < t.c.used
      /\ t.c.name = commonRegsVarName /\ t.c.x = x /\ t.c.wrote = {} /\ usedRegs <= t.c.used
  <2>1. /\ Cg.name = commonRegsVarName /\ Cg.x = x /\ Cg.wrote = {} /\ Cg.used = usedRegs
        /\ usedRegs \in Int
    BY <1>1 DEF Cg, Inv, CacheOK
  <2>2. CASE Cached(Cg, d)
    <3>1. PICK r \in FirstNamed(Cg, d) : t = [r |-> r, c |-> Cg]
      BY <1>2, <2>2 DEF TargetReg
    <3>2. r \in Reg /\ Cg.name[r] = d /\ t.r = r /\ t.c = Cg
      BY <3>1 DEF FirstNamed
    <3>. QED
      BY <1>1, <2>1, <3>2 DEF Old
  <2>3. CASE ~Cached(Cg, d)
    <3>1. t \in AllocEmptyReg(Cg, {d, o})
      BY <1>2, <2>3 DEF TargetReg
    <3>2. /\ t.r = Cg.used /\ t.r \in Reg /\ t.c \in Gen
          /\ t.c.used = Cg.used + 1 /\ t.c.name = Cg.name /\ t.c.x = Cg.x
          /\ t.c.wrote = Cg.wrote
      BY <1>1, <3>1, PlainAlloc
    <3>. QED
      BY <2>1, <3>2
  <2>. QED
    BY <2>2, <2>3
<1>. DEFINE c == t.c  w == t.r
<1>. HIDE DEF c, w
<1>0. /\ w \in Reg /\ c \in Gen /\ w < c.used
      /\ c.name = commonRegsVarName /\ c.x = x /\ c.wrote = {} /\ usedRegs <= c.used
  BY <1>4 DEF c, w
<1>5. x \in [Reg -> Val] /\ 0 \in Reg
  BY <1>1, Marks0 DEF Inv, CacheOK
<1>6. PICK got \in Val : e = Put(c, w, got) /\ (Executing => got = Wanted(o))
  <2>1. CASE o \in Vars /\ Cached(t.c, o)
    <3>1. PICK r \in FirstNamed(t.c, o) : e = Put(t.c, t.r, t.c.x[r])
      BY <1>3, <2>1, DisjointAssumption DEF MovSource
    <3>2. r \in Reg /\ commonRegsVarName[r] = o /\ t.c.x[r] = x[r]
      BY <1>4, <3>1 DEF FirstNamed
    <3>3. Wanted(o) = mem[o] /\ o \in readable
      BY <2>1, DisjointAssumption DEF Wanted, Mir2, MayRead
    <3>4. Executing => x[r] = mem[o]
      BY <2>1, <3>2, <3>3, <1>1 DEF Old, Cg
    <3>. QED
      BY <1>5, <3>1, <3>2, <3>3, <3>4 DEF c, w
  <2>2. CASE o \in Vars /\ ~Cached(t.c, o)
    <3>1. Wanted(o) = mem[o] /\ mem[o] \in Val
      BY <1>1, <2>2, DisjointAssumption DEF Wanted
    <3>2. e = Put(t.c, t.r, mem[o])
      BY <1>3, <2>2, DisjointAssumption DEF MovSource
    <3>. QED
      BY <3>1, <3>2 DEF c, w
  <2>3. CASE o \notin Vars /\ o = Ret
    <3>1. e = Put(t.c, t.r, x[0]) /\ Wanted(o) = callResult /\ callResult # None
      BY <1>3, <1>4, <2>3 DEF MovSource, Wanted, Mir2, MayRead
    <3>. QED
      BY <1>5, <3>1 DEF PlainInv, ResultHeld, c, w
  <2>4. CASE o \notin Vars /\ o # Ret
    <3>1. o \in Literal /\ Wanted(o) = Means[o] /\ e \in MovDataInt32(t.c, t.r, o)
      BY <1>3, <2>4 DEF MovSource, Wanted, Operand
    <3>. QED
      BY <3>1, PlainLiteral DEF c, w
  <2>. QED
    BY <2>1, <2>2, <2>3, <2>4
<1>. DEFINE p == Put(c, w, got)
            q == Rename(p, w, d)
<1>7. d \in Names
  BY DEF Names
<1>8. /\ p \in Gen /\ p.name = c.name /\ p.wrote = c.wrote \cup {w} /\ p.used = c.used
      /\ p.x[w] = got
  <2>1. /\ p \in Gen /\ p.name = c.name /\ p.wrote = c.wrote \cup {w} /\ p.used = c.used
        /\ p.x = [c.x EXCEPT ![w] = got]
    BY <1>0, PutFields, ZenonT(30)
  <2>2. c.x \in [Reg -> Val]
    BY <1>0, <1>5
  <2>. QED
    BY <1>0, <2>1, <2>2
<1>9. /\ q \in Gen /\ q.name = [p.name EXCEPT ![w] = d] /\ q.wrote = p.wrote
      /\ q.used = p.used
  BY <1>0, <1>7, <1>8, RenameFields
<1>10. Emit(q, [mem EXCEPT ![d] = got], {<<got, Wanted(o)>>})
  BY <1>3, <1>6, <1>8 DEF c, w
<1>. HIDE DEF p, q
<1>11. /\ \A s \in Reg : s # w => q.name[s] = commonRegsVarName[s]
       /\ q.name[w] = d /\ q.wrote = {w} /\ w < q.used /\ usedRegs <= q.used
       /\ q.used \in Int
  BY <1>0, <1>1, <1>8, <1>9 DEF Inv, CacheOK, Gen
<1>12. ~Executing /\ InsideCondition => d \in Temps
  <2>1. ASSUME ~Executing, InsideCondition  PROVE InCondition
    <3>1. PICK l \in {"next", "true"} : jump = <<Depth, l>>
      BY <2>1 DEF InsideCondition
    <3>2. Depth > 0 /\ Ahead(blocks[Depth].phase, l)
      BY <3>1, <2>1 DEF PlainInv, Path, Executing, Depth
    <3>3. ~InPhase("branch")
      BY NoBranchCode DEF Mir2
    <3>. QED
      BY <3>2, <3>3 DEF Ahead, InCondition, InPhase
  <2>. QED
    BY <2>1 DEF Mir2, MayAssign
<1>13. \A r \in Reg : q.name[r] \in Vars =>
         /\ r < q.used
         /\ \/ q.name[r] = commonRegsVarName[r]
            \/ r \in q.wrote /\ (~Executing /\ InsideCondition => q.name[r] \in Temps)
  <2>1. \A r \in Reg : r \in Int /\ (commonRegsVarName[r] \in Vars => r < usedRegs)
    BY DEF PlainInv, Counted, Reg
  <2>2. usedRegs \in Int
    BY <1>1 DEF Inv, CacheOK
  <2>3. ASSUME NEW r \in Reg, q.name[r] \in Vars, r # w
        PROVE  r < q.used /\ q.name[r] = commonRegsVarName[r]
    <3>1. q.name[r] = commonRegsVarName[r] /\ r \in Int /\ r < usedRegs
      BY <1>11, <2>1, <2>3
    <3>. QED
      BY <1>11, <2>2, <3>1
  <2>4. ASSUME NEW r \in Reg, r = w
        PROVE  q.name[r] = d /\ r \in q.wrote /\ r < q.used
    BY <1>11, <2>4
  <2>. QED
    BY <1>12, <2>3, <2>4
<1>14. \A v \in readable' \ readable : \E r \in q.wrote : q.name[r] = v
  BY <1>11 DEF Mir2
<1>15. Executing => \A y \in {<<got, Wanted(o)>>} : y[1] = y[2]
  BY <1>6
<1>16. /\ MayGenerate /\ UNCHANGED <<blocks, jump, returned>> /\ callResult' = None
       /\ q \in Gen
  BY <1>9 DEF Mir2
<1>. QED
  BY <1>10, <1>12, <1>13, <1>14, <1>15, <1>16, PlainCode

\* A binary operation: each operand register keeps its operand under its mark.
LEMMA PlainMir3 ==
  ASSUME Plain, PlainInv, Inv', Path', NEW d \in Temps, NEW o1 \in Operand,
         NEW o2 \in Operand, NEW inReg \in BOOLEAN, NEW z \in Val,
         Mir3(d, o1, o2, inReg, z)
  PROVE  PlainInv'
<1>. DEFINE C1(a) == Rename(a.c, a.r, "mir3_value1")
            B(a) == IF inReg THEN OperandReg(C1(a), o2, {d, o1, o2})
                             ELSE {[r |-> a.r, c |-> C1(a)]}
            C2(a, b) == IF inReg THEN Rename(b.c, b.r, "mir3_value2") ELSE C1(a)
            R(a, b) == IF Cached(C2(a, b), d) THEN FirstNamed(C2(a, b), d) ELSE {a.r}
            V(a, b) == IF inReg THEN {C2(a, b).x[b.r]} ELSE ConvertMirOperandImmBinary(o2)
            Ops(a, b, v) == {<<C2(a, b).x[a.r], Wanted(o1)>>, <<v, Wanted(o2)>>}
            Q(a, b, r) == Rename(Put(C2(a, b), r, z), r, d)
<1>1. /\ d \in Vars /\ Old(Cg) /\ MayRead(o1) /\ MayRead(o2) /\ MayGenerate
      /\ o1 = d /\ o2 \in Vars \cup Literal
      /\ inReg \/ o2 \in Literal
      /\ {"mir3_value1", "mir3_value2"} \subseteq Marks
      /\ \A m \in Marks : m \notin Vars
  BY CgOld, Marks0 DEF Mir3, Vars, Plain, Operand
<1>2. PICK a \in OperandReg(Cg, o1, {d, o1, o2}) :
        \E b \in B(a) : \E v \in V(a, b) : \E r \in R(a, b) :
          Emit(Q(a, b, r), [mem EXCEPT ![d] = z], Ops(a, b, v))
  BY DEF Mir3
<1>3. PICK b \in B(a) : \E v \in V(a, b) : \E r \in R(a, b) :
          Emit(Q(a, b, r), [mem EXCEPT ![d] = z], Ops(a, b, v))
  BY <1>2
<1>4. PICK v \in V(a, b), r \in R(a, b) :
          Emit(Q(a, b, r), [mem EXCEPT ![d] = z], Ops(a, b, v))
  BY <1>3
<1>. HIDE DEF Q
<1>5. /\ Old(C1(a)) /\ a.r \in Reg /\ a.r < C1(a).used
      /\ C1(a).name[a.r] = "mir3_value1"
      /\ Executing => C1(a).x[a.r] = Wanted(o1)
  BY <1>1, <1>2, PlainBring
<1>. HIDE DEF C1
<1>6. /\ Old(C2(a, b)) /\ a.r < C2(a, b).used
      /\ Executing => C2(a, b).x[a.r] = Wanted(o1)
      /\ Executing /\ inReg => C2(a, b).x[b.r] = Wanted(o2)
  <2>1. CASE inReg
    <3>1. b \in OperandReg(C1(a), o2, {d, o1, o2})
      BY <1>3, <2>1
    <3>2. C1(a).name[a.r] \notin Vars
      BY <1>1, <1>5
    <3>3. /\ Old(C2(a, b))
          /\ Executing => C2(a, b).x[b.r] = Wanted(o2)
          /\ \A s \in Reg : C1(a).name[s] \notin Vars /\ s < C1(a).used =>
               s # b.r /\ s < C2(a, b).used /\ C2(a, b).x[s] = C1(a).x[s]
      BY <1>1, <1>5, <2>1, <3>1, PlainBring
    <3>. QED
      BY <1>5, <3>2, <3>3
  <2>. QED
    BY <1>5, <2>1
<1>7. \A e \in Ops(a, b, v) : Executing => e[1] = e[2]
  <2>1. CASE ~inReg
    <3>1. o2 \in Literal /\ Wanted(o2) = Means[o2]
      BY <1>1, <2>1, DisjointAssumption DEF Wanted
    <3>2. v = Means[o2]
      BY <1>4, <2>1, <3>1, PlainLiteral
    <3>. QED
      BY <1>6, <3>1, <3>2
  <2>2. CASE inReg
    BY <1>4, <1>6, <2>2
  <2>. QED
    BY <2>1, <2>2
<1>. HIDE DEF C2, Ops
<1>8. r \in Reg /\ r < C2(a, b).used
  <2>1. CASE Cached(C2(a, b), d)
    <3>1. r \in Reg /\ C2(a, b).name[r] = d
      BY <1>4, <2>1 DEF FirstNamed
    <3>. QED
      BY <1>1, <1>6, <3>1 DEF Old
  <2>. QED
    BY <1>4, <1>5, <1>6, <2>1
<1>. DEFINE c == C2(a, b)  p == Put(c, r, z)  q == Rename(p, r, d)
<1>9. c \in Gen /\ d \in Names
  BY <1>1, <1>6 DEF Old, Names
<1>10. /\ p \in Gen /\ p.name = c.name /\ p.wrote = c.wrote \cup {r} /\ p.used = c.used
  BY <1>8, <1>9, PutFields, ZenonT(30)
<1>11. /\ q \in Gen /\ q.name = [p.name EXCEPT ![r] = d] /\ q.wrote = p.wrote
       /\ q.used = p.used
  BY <1>8, <1>9, <1>10, RenameFields
<1>12. Emit(q, [mem EXCEPT ![d] = z], Ops(a, b, v))
  BY <1>4 DEF Q
<1>. HIDE DEF p, q, c
<1>13. /\ \A s \in Reg : s # r => q.name[s] = c.name[s]
       /\ q.name[r] = d /\ r \in q.wrote /\ q.used = c.used
  BY <1>8, <1>9, <1>10, <1>11 DEF Gen
<1>14. Old(c) /\ r \in Reg /\ r < c.used
  BY <1>6, <1>8 DEF c
<1>15. \A s \in Reg : q.name[s] \in Vars =>
         /\ s < q.used
         /\ \/ q.name[s] = commonRegsVarName[s]
            \/ s \in q.wrote /\ (~Executing /\ InsideCondition => q.name[s] \in Temps)
  BY <1>13, <1>14 DEF Old
<1>16. /\ UNCHANGED <<blocks, jump, returned>> /\ callResult' = None /\ readable' = readable
  BY DEF Mir3
<1>17. \A y \in readable' \ readable : \E s \in q.wrote : q.name[s] = y
  BY <1>16
<1>. QED
  BY <1>1, <1>7, <1>11, <1>12, <1>15, <1>16, <1>17, PlainCode

\* A comparison: the innermost block goes over to the branch.
LEMMA PlainCmp ==
  ASSUME Plain, PlainInv, Inv', Path', NEW o1 \in Operand, NEW o2 \in Operand,
         NEW label \in {"next", "true", "false"}, Cmp(o1, o2, label)
  PROVE  PlainInv'
<1>. DEFINE imm == o2 \in Literal
            C1(a) == Rename(a.c, a.r, "cmp_value1")
            B(a) == IF imm THEN {[r |-> a.r, c |-> C1(a)]}
                           ELSE OperandReg(C1(a), o2, {o1, o2})
            C2(a, b) == IF imm THEN C1(a) ELSE Rename(b.c, b.r, "cmp_value2")
            V(a, b) == IF imm THEN ConvertMirOperandImmBinary(o2) ELSE {C2(a, b).x[b.r]}
            Ops(a, b, v) == {<<C2(a, b).x[a.r], Wanted(o1)>>, <<v, Wanted(o2)>>}
<1>1. /\ o1 \in Vars /\ o2 \in Vars /\ ~imm /\ Old(Cg) /\ MayRead(o1) /\ MayRead(o2)
      /\ {"cmp_value1", "cmp_value2"} \subseteq Marks
      /\ \A m \in Marks : m \notin Vars
  BY CgOld, Marks0, DisjointAssumption DEF Cmp, Vars, Plain
<1>2. PICK a \in OperandReg(Cg, o1, {o1, o2}) :
        \E b \in B(a) : \E v \in V(a, b) : Emit(C2(a, b), mem, Ops(a, b, v))
  BY DEF Cmp
<1>3. PICK b \in B(a) : \E v \in V(a, b) : Emit(C2(a, b), mem, Ops(a, b, v))
  BY <1>2
<1>0. PICK v \in V(a, b) : Emit(C2(a, b), mem, Ops(a, b, v))
  BY <1>3
<1>4. /\ Old(C1(a)) /\ a.r \in Reg /\ a.r < C1(a).used
      /\ C1(a).name[a.r] = "cmp_value1"
      /\ Executing => C1(a).x[a.r] = Wanted(o1)
  BY <1>1, <1>2, PlainBring
<1>. HIDE DEF C1
<1>5. /\ Old(C2(a, b))
      /\ Executing => C2(a, b).x[a.r] = Wanted(o1) /\ C2(a, b).x[b.r] = Wanted(o2)
  <2>1. b \in OperandReg(C1(a), o2, {o1, o2})
    BY <1>1, <1>3
  <2>2. C1(a).name[a.r] \notin Vars
    BY <1>1, <1>4
  <2>3. /\ Old(C2(a, b))
        /\ Executing => C2(a, b).x[b.r] = Wanted(o2)
        /\ \A s \in Reg : C1(a).name[s] \notin Vars /\ s < C1(a).used =>
             s # b.r /\ s < C2(a, b).used /\ C2(a, b).x[s] = C1(a).x[s]
    BY <1>1, <1>4, <2>1, PlainBring
  <2>. QED
    BY <1>4, <2>2, <2>3
<1>6. \A e \in Ops(a, b, v) : Executing => e[1] = e[2]
  BY <1>0, <1>1, <1>5
<1>. HIDE DEF C2, Ops
<1>. DEFINE c == C2(a, b)
<1>7. Old(c) /\ c \in Gen /\ Emit(c, mem, Ops(a, b, v))
  BY <1>0, <1>5 DEF Old
<1>. HIDE DEF c
<1>8. /\ Depth > 0 /\ blocks[Depth].phase = "cond"
      /\ blocks' = [blocks EXCEPT ![Depth].phase = "branch"]
      /\ readable' = readable \ Temps /\ callResult' = None /\ returned' = returned
      /\ jump' = IF Executing THEN <<Depth, label>> ELSE jump
      /\ MayGenerate
  BY DEF Cmp, InCondition, InPhase
<1>9. /\ Len(blocks') = Depth /\ Depth \in Nat
      /\ \A i \in 1 .. Depth : i # Depth => blocks'[i] = blocks[i]
      /\ blocks'[Depth].kind = blocks[Depth].kind
  BY <1>8, PhaseFields DEF PlainInv, Path, Depth, Phases
<1>10. Depth' = Depth
  BY <1>9 DEF Depth
<1>11. ~Executing' /\ (InsideCondition' => Executing \/ InsideCondition)
  BY <1>8, <1>10 DEF Executing, InsideCondition
<1>12. Counted' /\ StaleTemps' /\ StaleHidden'
  <2>1. Uniq(c)
    BY <1>7 DEF Inv, UniqueNames, Uniq, Emit
  <2>2. \A r \in Reg : c.name[r] \in Vars => r < c.used /\ c.name[r] = commonRegsVarName[r]
    BY <1>7 DEF Old
  <2>3. readable' \subseteq Vars /\ readable' \ readable = {}
    BY <1>8 DEF Path
  <2>. QED
    BY <1>7, <1>11, <2>1, <2>2, <2>3, StaleStep
<1>13. OnlyLoops'
  BY <1>9, <1>10 DEF PlainInv, OnlyLoops
<1>14. BranchBare' /\ ResultHeld' /\ ReturnHeld'
  BY <1>8, NoBranchCode DEF BranchBare, ResultHeld, ReturnHeld
<1>15. OperandsFresh'
  BY <1>6, <1>7 DEF OperandsFresh, Emit
<1>. QED
  BY <1>12, <1>13, <1>14, <1>15 DEF PlainInv

\* Without the optimizer a return stands at the end of the method, outside of all loops.
LEMMA PlainReturn ==
  ASSUME Plain, PlainInv, Inv', Path', NEW o \in Operand, Return(o)
  PROVE  PlainInv'
<1>. DEFINE C == CASE o \in Vars -> {Put(l.c, 0, l.c.x[l.r]) : l \in LoadVarIntoReg(Cg, o, {o})}
                   [] o = Ret    -> {Cg}
                   [] OTHER      -> MovConverted(Cg, 0, o)
<1>1. /\ Old(Cg) /\ Cg \in Gen /\ Inv /\ o \in Vars \cup Int8 /\ MayRead(o) /\ MayGenerate
      /\ returned = None /\ callResult' = None /\ UNCHANGED <<readable, blocks, jump>>
      /\ returned' = IF Executing /\ returned = None THEN Wanted(o) ELSE returned
  BY CgOld, NoBranchCode DEF Return, Operand, Plain, PlainInv, Old
<1>2. Depth = 0 /\ Executing
  <2>1. Depth \in Nat /\ \A i \in 1 .. Depth : blocks[i].kind = "if" /\ blocks[i].kind = "loop"
    BY DEF Return, Plain, PlainInv, OnlyLoops, Path, Depth
  <2>2. Depth = 0
    BY <2>1
  <2>. QED
    BY <2>2 DEF PlainInv, Path, Executing
<1>3. PICK e \in C : Emit(Rename(e, 0, "_last_ret"), mem, {<<e.x[0], Wanted(o)>>})
  BY DEF Return
<1>4. PICK c \in Gen, g \in Val :
        /\ e = Put(c, 0, g) /\ g = Wanted(o)
        /\ \A s \in Reg : c.name[s] \in Vars =>
             s < c.used /\ (c.name[s] = commonRegsVarName[s] \/ s \in c.wrote)
  <2>1. CASE o \in Vars
    <3>1. PICK l \in LoadVarIntoReg(Cg, o, {o}) : e = Put(l.c, 0, l.c.x[l.r])
      BY <1>3, <2>1, DisjointAssumption
    <3>2. Wanted(o) = mem[o] /\ o \in readable /\ mem[o] \in Val
      BY <1>1, <2>1, DisjointAssumption DEF Wanted, MayRead, Inv, CacheOK
    <3>3. CASE l.r \in Reg /\ Cg.name[l.r] = o /\ l.c = Cg
      BY <1>1, <1>2, <2>1, <3>1, <3>2, <3>3 DEF Old
    <3>4. CASE /\ l.r = Cg.used /\ l.r \in Reg /\ l.c \in Gen /\ l.c.used = Cg.used + 1
               /\ l.c.name = [Cg.name EXCEPT ![l.r] = o]
               /\ l.c.x = [Cg.x EXCEPT ![l.r] = mem[o]]
               /\ l.c.wrote = Cg.wrote \cup {l.r}
      <4>. DEFINE w == l.r  b == l.c
      <4>1. /\ w = Cg.used /\ w \in Reg /\ b \in Gen /\ b.used = Cg.used + 1
            /\ b.name = [Cg.name EXCEPT ![w] = o] /\ b.x = [Cg.x EXCEPT ![w] = mem[o]]
            /\ b.wrote = Cg.wrote \cup {w} /\ e = Put(b, 0, b.x[w])
        BY <3>1, <3>4
      <4>. HIDE DEF w, b
      <4>2. /\ b.x[w] = mem[o] /\ w \in b.wrote
            /\ \A s \in Reg : s # w => b.name[s] = Cg.name[s]
        BY <1>1, <4>1 DEF Gen
      <4>3. Cg.used \in Int
        BY <1>1 DEF Gen
      <4>4. \A s \in Reg : b.name[s] \in Vars =>
              s < b.used /\ (b.name[s] = commonRegsVarName[s] \/ s \in b.wrote)
        BY <1>1, <4>1, <4>2, <4>3 DEF Old, Reg
      <4>. QED
        BY <3>2, <4>1, <4>2, <4>4
    <3>. QED
      <4>1. Loaded(Cg, o, l)
        BY <1>1, <2>1, <3>1, PlainLoad
      <4>. QED
        BY <3>3, <3>4, <4>1 DEF Loaded
  <2>2. CASE o \in Int8
    <3>1. o \in Literal /\ o \notin Vars /\ o # Ret
      BY <2>2, DisjointAssumption DEF Literal
    <3>2. e = Put(Cg, 0, Means[o]) /\ Wanted(o) = Means[o] /\ Means[o] \in Val
      BY <1>3, <3>1, PlainLiteral DEF Wanted
    <3>. QED
      BY <1>1, <3>2 DEF Old
  <2>. QED
    BY <1>1, <2>1, <2>2
<1>. DEFINE p == Put(c, 0, g)  q == Rename(p, 0, "_last_ret")
<1>5. 0 \in Reg /\ "_last_ret" \in Names /\ "_last_ret" \notin Vars
  BY Marks0
<1>6. /\ p \in Gen /\ p.name = c.name /\ p.x = [c.x EXCEPT ![0] = g]
      /\ p.wrote = c.wrote \cup {0} /\ p.used = c.used
  BY <1>4, <1>5, PutFields
<1>7. /\ q \in Gen /\ q.name = [p.name EXCEPT ![0] = "_last_ret"] /\ q.x = p.x
      /\ q.wrote = p.wrote /\ q.used = p.used
  BY <1>5, <1>6, RenameFields
<1>8. Emit(q, mem, {<<g, Wanted(o)>>})
  <2>1. p.x[0] = g
    BY <1>4, <1>5, <1>6 DEF Gen
  <2>. QED
    BY <1>3, <1>4, <2>1
<1>. HIDE DEF p, q
<1>9. /\ \A s \in Reg : s # 0 => q.name[s] = c.name[s]
      /\ q.name[0] = "_last_ret" /\ q.x[0] = g /\ q.used = c.used /\ q.wrote = c.wrote \cup {0}
  BY <1>4, <1>5, <1>6, <1>7 DEF Gen
<1>10. \A s \in Reg : q.name[s] \in Vars =>
         /\ s < q.used
         /\ \/ q.name[s] = commonRegsVarName[s]
            \/ s \in q.wrote /\ (~Executing /\ InsideCondition => q.name[s] \in Temps)
  BY <1>2, <1>4, <1>5, <1>9
<1>11. Executing' = Executing /\ InsideCondition' = InsideCondition /\ Depth' = Depth
  BY <1>1 DEF Executing, InsideCondition, Depth
<1>12. Counted' /\ StaleTemps' /\ StaleHidden'
  <2>1. Uniq(q)
    BY <1>8 DEF Inv, UniqueNames, Uniq, Emit
  <2>2. readable' \subseteq Vars /\ readable' \ readable = {}
    BY <1>1 DEF Path
  <2>. QED
    BY <1>7, <1>8, <1>10, <1>11, <2>1, <2>2, StaleStep
<1>13. x'[0] = g /\ returned' = g
  BY <1>1, <1>2, <1>4, <1>8, <1>9 DEF Emit
<1>14. OnlyLoops' /\ BranchBare' /\ ResultHeld' /\ ReturnHeld'
  BY <1>1, <1>2, <1>11, <1>13
  DEF PlainInv, OnlyLoops, BranchBare, InPhase, ResultHeld, ReturnHeld
<1>15. OperandsFresh'
  BY <1>4, <1>8 DEF OperandsFresh, Emit
<1>. QED
  BY <1>12, <1>14, <1>15 DEF PlainInv

\* clearRegs: what the registers hold and are named no longer matters.
LEMMA PlainClear ==
  ASSUME Inv', Path', NEW newX, NEW m, NEW ops, EmitAndClear(newX, m, ops),
         Executing => \A e \in ops : e[1] = e[2]
  PROVE  Counted' /\ StaleTemps' /\ StaleHidden' /\ OperandsFresh'
<1>1. /\ commonRegsVarName' = [r \in Reg |-> None] /\ stale' = {}
      /\ fetched' = IF Executing THEN ops ELSE {}
  BY DEF EmitAndClear
<1>2. None \notin Vars
  BY Marks0
<1>. QED
  BY <1>1, <1>2 DEF Counted, StaleTemps, StaleHidden, OperandsFresh

(* The arguments of a call.  After i arguments at least i registers have   *)
(* been handed out, although argument registers are not counted: an        *)
(* argument that was cached came from a register above those used up, and  *)
(* any other is loaded into the next.  So no argument is overwritten.      *)
Passing(c, args, i) ==
  /\ c \in Gen /\ i <= c.used
  /\ \A r \in Reg : c.name[r] \in Vars =>
       r < c.used /\ (c.name[r] \in readable => c.x[r] = mem[c.name[r]])
  /\ \A j \in 1 .. i : c.name[j - 1] = args[j] /\ c.x[j - 1] = mem[args[j]]

\* One more argument is put in place.
LEMMA PassStep ==
  ASSUME Plain, Inv, NEW n \in 0 .. NumRegs, NEW args \in [1 .. n -> Vars],
         \A i, j \in 1 .. n : i # j => args[i] # args[j],
         \A i \in 1 .. n : args[i] \in readable,
         NEW i \in 1 .. n, NEW c, Passing(c, args, i - 1), NEW uses,
         NEW e \in PassArg(c, args[i], i - 1, uses)
  PROVE  Passing(e, args, i)
<1>. DEFINE v == args[i]  k == i - 1
<1>1. /\ v \in Vars /\ v \in readable /\ v \in Names /\ k \in Reg /\ k \in Int /\ i = k + 1
      /\ v # Ret /\ c \in Gen /\ c.used \in Int /\ k <= c.used /\ mem[v] \in Val
      /\ c.used \in 0 .. NumRegs
  BY CacheAssumption, DisjointAssumption DEF Names, Reg, Passing, Gen, Inv, CacheOK
<1>2. PICK l \in LoadVarIntoReg(c, v, uses) : e = Rename(Put(l.c, k, l.c.x[l.r]), k, v)
  BY <1>1 DEF PassArg
<1>. DEFINE b == l.c  w == l.r
<1>3. \/ w \in Reg /\ c.name[w] = v /\ b = c
      \/ /\ w = c.used /\ w \in Reg /\ b \in Gen /\ b.used = c.used + 1
         /\ b.name = [c.name EXCEPT ![w] = v]
         /\ b.x = [c.x EXCEPT ![w] = mem[v]]
  <2>1. Loaded(c, v, l)
    BY <1>1, <1>2, PlainLoad
  <2>. QED
    BY <2>1 DEF Loaded
<1>4. \A j \in 1 .. k : args[j] # v
  BY <1>1
<1>5. \A j \in 1 .. k : j - 1 \in Reg /\ j - 1 \in Int /\ j - 1 < k
  BY <1>1, CacheAssumption DEF Reg
<1>6. /\ \A r \in Reg : c.name[r] \in Vars =>
            r < c.used /\ (c.name[r] \in readable => c.x[r] = mem[c.name[r]])
      /\ \A j \in 1 .. k : c.name[j - 1] = args[j] /\ c.x[j - 1] = mem[args[j]]
  BY DEF Passing
<1>7. e = Rename(Put(b, k, b.x[w]), k, v)
  BY <1>2
<1>8. Reg \subseteq Int /\ \A r \in Reg : r >= 0
  BY DEF Reg
<1>. HIDE DEF v, k, b, w
<1>9. /\ b \in Gen /\ k < b.used /\ w \in Reg /\ b.x[w] = mem[v]
      /\ \A r \in Reg : b.name[r] \in Vars =>
           r < b.used /\ (b.name[r] \in readable => b.x[r] = mem[b.name[r]])
      /\ \A j \in 1 .. k : b.name[j - 1] = args[j] /\ b.x[j - 1] = mem[args[j]]
  <2>1. CASE w \in Reg /\ c.name[w] = v /\ b = c
    <3>1. ASSUME w < k  PROVE FALSE
      <4>1. w \in Int /\ w >= 0 /\ k \in Int
        BY <1>1, <1>8, <2>1
      <4>2. w + 1 \in 1 .. k /\ (w + 1) - 1 = w
        BY <3>1, <4>1
      <4>. QED
        BY <1>4, <1>6, <2>1, <4>2
    <3>2. w < c.used /\ c.x[w] = mem[v] /\ w \in Int
      BY <1>1, <1>6, <1>8, <2>1
    <3>3. k < c.used
      BY <1>1, <3>1, <3>2
    <3>. QED
      BY <1>1, <1>6, <2>1, <3>2, <3>3
  <2>2. CASE /\ w = c.used /\ w \in Reg /\ b \in Gen /\ b.used = c.used + 1
             /\ b.name = [c.name EXCEPT ![w] = v] /\ b.x = [c.x EXCEPT ![w] = mem[v]]
    <3>1. /\ \A r \in Reg : r # w => b.name[r] = c.name[r] /\ b.x[r] = c.x[r]
          /\ b.name[w] = v /\ b.x[w] = mem[v]
      BY <1>1, <2>2 DEF Gen
    <3>2. k < b.used
      BY <1>1, <2>2
    <3>3. \A j \in 1 .. k : j - 1 # w
      BY <1>1, <1>5, <2>2
    <3>4. ASSUME NEW r \in Reg, b.name[r] \in Vars
          PROVE  r < b.used /\ (b.name[r] \in readable => b.x[r] = mem[b.name[r]])
      <4>1. CASE r = w
        BY <1>1, <2>2, <3>1, <4>1
      <4>2. CASE r # w
        <5>1. r < c.used /\ b.name[r] = c.name[r] /\ b.x[r] = c.x[r]
          BY <1>6, <3>1, <3>4, <4>2
        <5>2. r < b.used
          BY <1>1, <1>8, <2>2, <5>1
        <5>. QED
          BY <1>6, <3>4, <5>1, <5>2
      <4>. QED
        BY <4>1, <4>2
    <3>5. \A j \in 1 .. k : b.name[j - 1] = args[j] /\ b.x[j - 1] = mem[args[j]]
      BY <1>5, <1>6, <3>1, <3>3
    <3>. QED
      BY <2>2, <3>1, <3>2, <3>4, <3>5
  <2>. QED
    BY <1>3, <2>1, <2>2
<1>. DEFINE p == Put(b, k, mem[v])
<1>10. e = Rename(p, k, v)
  BY <1>7, <1>9
<1>11. /\ p \in Gen /\ p.name = b.name /\ p.x = [b.x EXCEPT ![k] = mem[v]] /\ p.used = b.used
  BY <1>1, <1>9, PutFields
<1>12. /\ e \in Gen /\ e.name = [p.name EXCEPT ![k] = v] /\ e.x = p.x /\ e.used = p.used
  BY <1>1, <1>10, <1>11, RenameFields
<1>. HIDE DEF p
<1>13. /\ \A r \in Reg : r # k => e.name[r] = b.name[r] /\ e.x[r] = b.x[r]
       /\ e.name[k] = v /\ e.x[k] = mem[v] /\ e.used = b.used /\ b.used \in Int
  BY <1>1, <1>9, <1>11, <1>12 DEF Gen
<1>14. i <= e.used
  BY <1>1, <1>9, <1>13
<1>15. \A r \in Reg : e.name[r] \in Vars =>
        r < e.used /\ (e.name[r] \in readable => e.x[r] = mem[e.name[r]])
  BY <1>9, <1>13
<1>16. \A j \in 1 .. i : e.name[j - 1] = args[j] /\ e.x[j - 1] = mem[args[j]]
  <2>1. ASSUME NEW j \in 1 .. i, j # i
        PROVE  e.name[j - 1] = args[j] /\ e.x[j - 1] = mem[args[j]]
    <3>1. j \in 1 .. k
      BY <1>1, <2>1
    <3>2. j - 1 \in Reg /\ j - 1 # k
      BY <1>1, <1>5, <3>1
    <3>. QED
      BY <1>9, <1>13, <3>1, <3>2
  <2>. QED
    BY <1>13, <2>1 DEF v, k
<1>. QED
  BY <1>12, <1>14, <1>15, <1>16 DEF Passing

\* Executed, the arguments are in the registers the callee reads.
LEMMA PlainArgs ==
  ASSUME Plain, PlainInv, Executing, NEW n \in 0 .. NumRegs, NEW args \in [1 .. n -> Vars],
         \A i, j \in 1 .. n : i # j => args[i] # args[j],
         \A i \in 1 .. n : args[i] \in readable,
         NEW c \in WithArgs(args)
  PROVE  Passing(c, args, n)
<1>. DEFINE uses == CallUses(args)
            U(s, i) == UNION {PassArg(b, args[i], i - 1, uses) : b \in s}
            All(f, k) == [i \in 0 .. k |-> IF i = 0 THEN {Cg} ELSE U(f[i - 1], i)]
            passed == CHOOSE f : f = All(f, n)
<1>1. n \in Nat /\ Len(args) = n
  BY CacheAssumption
<1>2. WithArgs(args) = passed[n]
  BY <1>1 DEF WithArgs
<1>3. ASSUME NEW i \in 1 .. n, NEW s, \A b \in s : Passing(b, args, i - 1)
      PROVE  \A b \in U(s, i) : Passing(b, args, i)
  <2>1. Inv
    BY DEF PlainInv
  <2>. TAKE e \in U(s, i)
  <2>2. PICK b \in s : e \in PassArg(b, args[i], i - 1, uses)
    OBVIOUS
  <2>. QED
    BY <1>3, <2>1, <2>2, PassStep
<1>. HIDE DEF uses, U
<1>4. \E f : f = All(f, n)
  <2>. DEFINE S == {k \in 0 .. n : \E f : f = All(f, k)}
  <2>1. 0 \in S
    <3>1. [i \in 0 .. 0 |-> {Cg}] = All([i \in 0 .. 0 |-> {Cg}], 0)
      OBVIOUS
    <3>2. 0 \in 0 .. n
      BY <1>1
    <3>. HIDE DEF All
    <3>3. \E f : f = All(f, 0)
      BY <3>1
    <3>. QED
      BY <3>2, <3>3
  <2>2. ASSUME NEW k \in 0 .. n - 1, k \in S  PROVE k + 1 \in S
    <3>1. PICK f : f = All(f, k)
      BY <2>2
    <3>. DEFINE g == [i \in 0 .. k + 1 |-> IF i <= k THEN f[i] ELSE U(f[k], i)]
    <3>2. \A i \in 0 .. k + 1 : g[i] = All(g, k + 1)[i]
      <4>. TAKE i \in 0 .. k + 1
      <4>1. CASE i = 0
        BY <3>1, <4>1
      <4>2. CASE i \in 1 .. k
        <5>1. i - 1 \in 0 .. k + 1 /\ i - 1 <= k /\ i \in 0 .. k /\ i # 0 /\ i <= k
          BY <4>2
        <5>2. f[i] = All(f, k)[i]
          BY <3>1
        <5>3. f[i] = U(f[i - 1], i)
          BY <5>1, <5>2
        <5>. QED
          BY <5>1, <5>3
      <4>3. CASE i = k + 1
        <5>1. i - 1 = k /\ ~ i <= k /\ i # 0 /\ k <= k /\ k \in 0 .. k + 1
          BY <4>3
        <5>. QED
          BY <5>1
      <4>. QED
        BY <4>1, <4>2, <4>3
    <3>3. g = All(g, k + 1)
      BY <3>2
    <3>. HIDE DEF g, All
    <3>4. k + 1 \in 0 .. n
      BY <1>1
    <3>. QED
      BY <3>3, <3>4
  <2>. HIDE DEF S
  <2>3. 0 .. n \subseteq S
    BY <1>1, <2>1, <2>2, UpTo
  <2>4. n \in S
    BY <1>1, <2>3
  <2>. HIDE DEF All
  <2>. QED
    BY <2>4 DEF S
<1>5. passed = All(passed, n)
  BY <1>4
<1>. HIDE DEF passed
<1>. DEFINE T == {i \in 0 .. n : \A b \in passed[i] : Passing(b, args, i)}
<1>6. 0 \in T
  <2>1. passed[0] = {Cg} /\ 0 \in 0 .. n
    BY <1>1, <1>5
  <2>2. Passing(Cg, args, 0)
    <3>1. Old(Cg)
      BY CgOld
    <3>2. Cg.used >= 0
      BY <3>1 DEF Old, Gen
    <3>. QED
      BY <3>1, <3>2 DEF Old, Passing
  <2>. QED
    BY <2>1, <2>2
<1>7. ASSUME NEW k \in 0 .. n - 1, k \in T  PROVE k + 1 \in T
  <2>1. k + 1 \in 1 .. n /\ k + 1 \in 0 .. n /\ (k + 1) - 1 = k /\ k + 1 # 0
    BY <1>1
  <2>2. passed[k + 1] = U(passed[k], k + 1)
    BY <1>5, <2>1
  <2>3. \A b \in passed[k] : Passing(b, args, (k + 1) - 1)
    BY <1>7, <2>1
  <2>4. \A b \in U(passed[k], k + 1) : Passing(b, args, k + 1)
    BY <1>3, <2>1, <2>3
  <2>. QED
    BY <2>1, <2>2, <2>4
<1>. HIDE DEF T
<1>8. 0 .. n \subseteq T
  BY <1>1, <1>6, <1>7, UpTo
<1>. QED
  BY <1>1, <1>2, <1>8 DEF T

\* A call: its arguments are temporaries of their own, and it clears the cache.
LEMMA PlainCall ==
  ASSUME Plain, PlainInv, Inv', Path', NEW args \in ArgLists, NEW z \in Val, NEW newX,
         Call(args, z, newX)
  PROVE  PlainInv'
<1>1. /\ MayGenerate /\ callResult' = z /\ newX[0] = z
      /\ UNCHANGED <<readable, blocks, jump, returned>>
  BY DEF Call
<1>2. PICK n \in 0 .. MaxArgs : args \in [1 .. n -> Operand]
  BY DEF ArgLists
<1>3. /\ DOMAIN args = 1 .. n /\ n \in 0 .. NumRegs /\ args \in [1 .. n -> Vars]
      /\ \A i, j \in 1 .. n : i # j => args[i] # args[j]
      /\ \A i \in 1 .. n : args[i] \in readable
  <2>1. DOMAIN args = 1 .. n /\ n \in 0 .. NumRegs
    BY <1>2, CacheAssumption
  <2>2. \A i, j \in 1 .. n : args[i] \in Vars /\ (i # j => args[i] # args[j])
    BY <2>1 DEF ArgLists, Plain
  <2>3. \A i \in 1 .. n : args[i] \in readable
    BY <2>1, <2>2 DEF Call, MayRead
  <2>. QED
    BY <1>2, <2>1, <2>2, <2>3
<1>. DEFINE Ops(c) == {<<c.x[i - 1], Wanted(args[i])>> : i \in DOMAIN args}
<1>4. PICK c \in WithArgs(args) : EmitAndClear(newX, mem, Ops(c))
  BY DEF Call
<1>5. Executing => \A e \in Ops(c) : e[1] = e[2]
  <2>1. ASSUME Executing  PROVE Passing(c, args, n)
    BY <1>3, <2>1, PlainArgs
  <2>2. \A i \in 1 .. n : Wanted(args[i]) = mem[args[i]]
    BY <1>3, DisjointAssumption DEF Wanted
  <2>. QED
    BY <1>3, <2>1, <2>2 DEF Passing
<1>. HIDE DEF Ops
<1>6. Counted' /\ StaleTemps' /\ StaleHidden' /\ OperandsFresh'
  BY <1>4, <1>5, PlainClear
<1>7. Executing' = Executing /\ Depth' = Depth
  BY <1>1 DEF Executing, Depth
<1>8. OnlyLoops' /\ BranchBare'
  BY <1>1, <1>7, NoBranchCode DEF PlainInv, OnlyLoops, BranchBare, InPhase
<1>9. ResultHeld' /\ ReturnHeld'
  <2>1. Executing => x' = newX
    BY <1>4 DEF EmitAndClear
  <2>. QED
    BY <1>1, <1>7, <2>1, NoBranchCode DEF ResultHeld, ReturnHeld
<1>. QED
  BY <1>6, <1>8, <1>9 DEF PlainInv

\* A label inside a condition or at its end: what was renamed while code was
\* jumped over is named by temporaries, and none is read from here on.
LEMMA PlainLabel ==
  ASSUME Plain, PlainInv, Inv', Path', InPhase("branch"), NEW p \in {"cond", "body"},
         blocks' = [blocks EXCEPT ![Depth].phase = p],
         NEW label \in {"next", "true"}, jump' = Landed(label),
         UNCHANGED readable, LeaveCache
  PROVE  PlainInv'
<1>1. /\ Depth > 0 /\ Depth \in Nat /\ p \in Phases /\ Path /\ readable \subseteq Vars
      /\ UNCHANGED <<commonRegsVarName, usedRegs, stale, readable, returned>>
      /\ fetched' = {} /\ callResult' = None
  BY DEF PlainInv, Path, Depth, Phases, InPhase, LeaveCache, cacheVars
<1>2. /\ Len(blocks') = Depth /\ \A i \in 1 .. Depth : i # Depth => blocks'[i] = blocks[i]
      /\ blocks'[Depth].phase = p /\ blocks'[Depth].kind = blocks[Depth].kind
  BY <1>1, PhaseFields
<1>3. Depth' = Depth
  BY <1>2 DEF Depth
<1>4. Executing' \/ InsideCondition' => Executing \/ InsideCondition
  BY <1>3 DEF Executing, InsideCondition, Landed
<1>5. Counted' /\ StaleTemps'
  BY <1>1, <1>4 DEF PlainInv, Counted, StaleTemps
<1>6. StaleHidden'
  <2>1. readable \cap Temps = {}
    BY DEF PlainInv, BranchBare
  <2>2. stale \subseteq Reg
    BY DEF PlainInv, Inv, CacheOK
  <2>. QED
    BY <1>1, <1>4, <2>1, <2>2 DEF PlainInv, StaleTemps, StaleHidden
<1>7. OnlyLoops'
  BY <1>1, <1>2, <1>3 DEF PlainInv, OnlyLoops
<1>8. BranchBare'
  BY <1>2, <1>3 DEF BranchBare, InPhase
<1>9. ResultHeld' /\ ReturnHeld' /\ OperandsFresh'
  BY <1>1 DEF PlainInv, ResultHeld, ReturnHeld, OperandsFresh
<1>. QED
  BY <1>5, <1>6, <1>7, <1>8, <1>9 DEF PlainInv

\* A loop starts, and ends, with an empty cache.
LEMMA PlainBeginLoop ==
  ASSUME Plain, PlainInv, Inv', Path', NEW newMem, BeginLoop(newMem)
  PROVE  PlainInv'
<1>1. /\ EmitAndClear(x, newMem, {}) /\ callResult' = None /\ blocks' = Open("loop")
      /\ MayGenerate /\ UNCHANGED <<jump, returned>> /\ Path /\ Depth \in Nat
  BY DEF BeginLoop, PlainInv, Path, Depth
<1>2. Counted' /\ StaleTemps' /\ StaleHidden' /\ OperandsFresh'
  BY <1>1, PlainClear
<1>3. /\ Len(blocks') = Depth + 1 /\ \A i \in 1 .. Depth : blocks'[i] = blocks[i]
      /\ blocks'[Depth + 1].phase = "cond" /\ blocks'[Depth + 1].kind = "loop"
  BY <1>1, OpenFields
<1>4. Depth' = Depth + 1
  BY <1>3 DEF Depth
<1>5. OnlyLoops'
  BY <1>1, <1>3, <1>4 DEF PlainInv, OnlyLoops
<1>6. BranchBare'
  BY <1>3, <1>4 DEF BranchBare, InPhase
<1>7. ResultHeld' /\ ReturnHeld'
  BY <1>1, NoBranchCode DEF ResultHeld, ReturnHeld
<1>. QED
  BY <1>2, <1>5, <1>6, <1>7 DEF PlainInv

LEMMA PlainEndLoop ==
  ASSUME Plain, PlainInv, Inv', Path', NEW newMem, EndLoop(newMem)
  PROVE  PlainInv'
<1>1. /\ EmitAndClear(x, newMem, {}) /\ callResult' = None /\ Depth > 0 /\ Depth \in Nat
      /\ blocks' = SubSeq(blocks, 1, Depth - 1) /\ blocks \in Seq(Block)
      /\ UNCHANGED returned
  BY DEF EndLoop, InPhase, PlainInv, Path, Depth
<1>2. Counted' /\ StaleTemps' /\ StaleHidden' /\ OperandsFresh'
  BY <1>1, PlainClear
<1>3. Len(blocks') = Depth - 1 /\ \A i \in 1 .. Depth - 1 : blocks'[i] = blocks[i]
  BY <1>1, CloseFields DEF Depth
<1>4. Depth' = Depth - 1
  BY <1>3 DEF Depth
<1>5. OnlyLoops'
  BY <1>1, <1>3, <1>4 DEF PlainInv, OnlyLoops
<1>6. BranchBare'
  BY <1>1, <1>3, <1>4 DEF PlainInv, Path, BranchBare, InPhase
<1>7. ResultHeld' /\ ReturnHeld'
  BY <1>1 DEF PlainInv, ResultHeld, ReturnHeld
<1>. QED
  BY <1>2, <1>5, <1>6, <1>7 DEF PlainInv

\* The caller finds the method's result in X0.
LEMMA PlainNextMethod ==
  ASSUME Plain, PlainInv, Inv', Path', NEW params, NEW newMem, NextMethod(params, newMem)
  PROVE  PlainInv'
<1>. DEFINE ops == IF returned = None THEN {} ELSE {<<x[0], returned>>}
<1>1. /\ EmitAndClear(x, newMem, ops) /\ callResult' = None /\ returned' = None /\ Depth = 0
      /\ UNCHANGED <<blocks, jump>>
  BY DEF NextMethod
<1>2. \A e \in ops : e[1] = e[2]
  BY DEF PlainInv, ReturnHeld
<1>. HIDE DEF ops
<1>3. Counted' /\ StaleTemps' /\ StaleHidden' /\ OperandsFresh'
  BY <1>1, <1>2, PlainClear
<1>4. Depth' = 0
  BY <1>1 DEF Depth
<1>. QED
  BY <1>1, <1>3, <1>4
  DEF PlainInv, OnlyLoops, BranchBare, InPhase, ResultHeld, ReturnHeld

\* Every step of a plain method, and the step to the next method.
LEMMA PlainNext ==
  ASSUME Plain, PlainInv, [Next]_vars
  PROVE  PlainInv'
<1>1. Inv' /\ Path'
  BY NextStep, PathNext DEF PlainInv
<1>2. \A i \in 1 .. Depth : blocks[i].kind = "loop"
  BY DEF PlainInv, OnlyLoops
<1>3. Depth \in Nat /\ \A i \in 1 .. Depth : blocks[i].phase # "else"
  BY <1>2 DEF PlainInv, Path, Depth
<1>4. ASSUME NEW d \in Temps, NEW o1 \in Operand, NEW o2 \in Operand,
             NEW inReg \in BOOLEAN, NEW z \in Val, Mir3(d, o1, o2, inReg, z)
      PROVE  PlainInv'
  BY <1>1, <1>4, PlainMir3
<1>5. CASE NextLabel
  BY <1>1, <1>5, PlainLabel DEF NextLabel
<1>6. CASE TrueLabel
  BY <1>1, <1>6, PlainLabel DEF TrueLabel
<1>7. ~BeginIf /\ ~FalseLabel /\ ~FinishLabel
  <2>1. Depth > 0 => blocks[Depth].kind = "loop" /\ blocks[Depth].phase # "else"
    BY <1>2, <1>3
  <2>2. "if" \notin Features
    BY DEF Plain
  <2>. QED
    BY <2>1, <2>2 DEF BeginIf, FalseLabel, FinishLabel, InPhase
<1>8. CASE UNCHANGED vars
  <2>1. UNCHANGED <<commonRegsVarName, usedRegs, x, mem, fetched, stale, readable, blocks,
                    jump, callResult, returned>>
    BY <1>8 DEF vars, cacheVars, progVars
  <2>2. Depth' = Depth /\ Executing' = Executing /\ InsideCondition' = InsideCondition
    BY <2>1 DEF Depth, Executing, InsideCondition
  <2>3. OnlyLoops' /\ Counted' /\ BranchBare'
    BY <2>1, <2>2 DEF PlainInv, OnlyLoops, Counted, BranchBare, InPhase
  <2>4. StaleTemps' /\ StaleHidden'
    BY <2>1, <2>2 DEF PlainInv, StaleTemps, StaleHidden
  <2>5. ResultHeld' /\ ReturnHeld' /\ OperandsFresh'
    BY <2>1, <2>2 DEF PlainInv, ResultHeld, ReturnHeld, OperandsFresh
  <2>. QED
    BY <1>1, <2>3, <2>4, <2>5 DEF PlainInv
<1>. QED
  BY <1>1, <1>4, <1>5, <1>6, <1>7, <1>8, PlainMir2, PlainCall, PlainReturn, PlainCmp,
     PlainBeginLoop, PlainEndLoop, PlainNextMethod DEF Next, Statement, Structure

\* The first method starts with an empty cache.
LEMMA PlainInit == Init => PlainInv
<1>1. None \notin Vars
  BY Marks0
<1>. QED
  BY <1>1, PathInit
  DEF Init, PlainInv, OnlyLoops, Depth, Counted, StaleTemps, StaleHidden, BranchBare, InPhase,
      ResultHeld, ReturnHeld, OperandsFresh

(* In plain methods whose literals are at most 127, compiled in memory     *)
(* that is zeroed, whatever the variables and the values, however many     *)
(* registers there are and however deeply loops nest, every instruction    *)
(* that generateCodes emits reads the operand the source means, and the    *)
(* caller finds the result of a method in X0.                              *)
THEOREM OperandsSafe ==
  ASSUME Features = {}, Int16 \cup Int32 = {}
  PROVE  Spec => []OperandsFresh
<1>1. Plain
  BY DEF Plain
<1>2. PlainInv /\ [Next]_vars => PlainInv'
  BY <1>1, PlainNext
<1>3. PlainInv => OperandsFresh
  BY DEF PlainInv
<1>. QED
  BY PlainInit, <1>2, <1>3, PTL DEF Spec

=============================================================================

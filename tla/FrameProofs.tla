---------------------------- MODULE FrameProofs ----------------------------
(***************************************************************************)
(* The slots of a method fit its frame and do not overlap, for every       *)
(* number of methods, parameters and variables; every access stays in its  *)
(* slot, and a variable keeps its slot.                                    *)
(*                                                                         *)
(* The argument: the n-th slot a method makes lies in the n-th 8 byte cell *)
(* below the saved registers, at the cell's upper end (Cell), and the      *)
(* cells left are at least as many as the parameters still to store and    *)
(* the targets that have no slot yet (Room).                               *)
(***************************************************************************)
EXTENDS Frame, FiniteSetTheorems, TLAPS

Own    == base + 1 .. Len(stackVars)
Stored == {v \in Names : Has(v)}

FrameType ==
  /\ phase \in {"between", "params", "body", "exit"}
  /\ stackVars \in Seq(SlotType)
  /\ currentStackTop \in Int
  /\ params \in Seq([name : Names, byte : Bytes])
  /\ dists \subseteq Names
  /\ base \in 0 .. Len(stackVars)
  /\ frameTop \in Nat /\ frameTop % 8 = 0

Cell(i) ==
  stackVars[i].stackOffset = frameTop - 8 * (i - base) + (8 - stackVars[i].varSize)

Cells  == \A i \in Own : Cell(i)
Cursor == currentStackTop = IF Len(stackVars) = base THEN frameTop
                            ELSE stackVars[Len(stackVars)].stackOffset
Room   == 8 * ((Len(stackVars) - base) + Len(params) + Cardinality(dists \ Stored))
            <= frameTop

Layout == phase # "between" => Cells /\ Cursor /\ Room

(* Slots of 8 bytes are aligned to 8, slots of 4 bytes are not; every      *)
(* stored variable has a newest slot; live variables are stored.           *)
Ends(s) == IF s.varSize = 8 THEN s.stackOffset % 8 = 0 ELSE s.stackOffset % 8 = 4

Found ==
  /\ \A i \in DOMAIN stackVars : Ends(stackVars[i])
  /\ \A v \in Names : Has(v) => \E i \in DOMAIN stackVars : IsNewest(i, v)
  /\ live \subseteq Stored

(* The parameters still to store have names of their own.                  *)
Fresh ==
  phase = "params" =>
    /\ \A i, j \in DOMAIN params : i # j => params[i].name # params[j].name
    /\ \A i \in DOMAIN params : params[i].name \notin live

FrameInv == FrameType /\ Layout /\ Found /\ Fresh /\ AccessInSlot

-----------------------------------------------------------------------------
(* Facts of sequences and of numbers.                                      *)
LEMMA IsSeq ==
  ASSUME NEW S, NEW n \in Nat, NEW f \in [1 .. n -> S]
  PROVE  f \in Seq(S)
OBVIOUS

\* The first parameter and the others.
LEMMA HeadTail ==
  ASSUME NEW S, NEW s \in Seq(S), s # <<>>
  PROVE  /\ Head(s) = s[1] /\ 1 \in DOMAIN s /\ Head(s) \in S
         /\ Len(s) \in Nat /\ Len(Tail(s)) = Len(s) - 1 /\ Tail(s) \in Seq(S)
         /\ \A i \in DOMAIN Tail(s) :
              i + 1 \in DOMAIN s /\ i + 1 # 1 /\ Tail(s)[i] = s[i + 1]
OBVIOUS

\* A slot in its cell is in the frame, and clear of a slot in another cell.
LEMMA CellBounds ==
  ASSUME NEW t \in Nat, NEW b \in Nat, NEW n \in Nat, 8 * (n - b) <= t,
         NEW i \in b + 1 .. n, NEW j \in b + 1 .. n,
         NEW o \in Int, NEW s \in {4, 8}, NEW p \in Int, NEW r \in {4, 8},
         o = t - 8 * (i - b) + (8 - s), p = t - 8 * (j - b) + (8 - r)
  PROVE  /\ 0 <= o /\ o + s <= t
         /\ i # j => o + s <= p \/ p + r <= o
<1>1. o + s = t - 8 * (i - b) + 8 /\ p + r = t - 8 * (j - b) + 8
  OBVIOUS
<1>2. i < j => p + r <= o
  BY <1>1
<1>3. j < i => o + s <= p
  BY <1>1
<1> QED BY <1>1, <1>2, <1>3

(* The computed size holds a cell for each thing counted.                  *)
LEMMA AlignSize ==
  ASSUME NEW k \in Nat
  PROVE  /\ AlignStackSize(8 * k + 1) \in Nat
         /\ AlignStackSize(8 * k + 1) % 8 = 0
         /\ 8 * k <= AlignStackSize(8 * k + 1)
BY DEF AlignStackSize

LEMMA Sizes ==
  /\ \A b \in Bytes \cup Widths : AlignBlockSize(b) \in Widths
  /\ \A w \in Widths : w = 4 \/ w = 8
BY FrameAssumption DEF Widths, AlignBlockSize

LEMMA Mod8 ==
  /\ \A k \in Int : (8 * k) % 8 = 0 /\ (8 * k + 4) % 8 = 4
  /\ \A t \in Nat : t % 8 = 0 => \E q \in Int : t = 8 * q
OBVIOUS

(* Of a sequence of slots with one more, the last is the newest of its     *)
(* name and the others are found where they were.                          *)
LEMMA PushFinds ==
  ASSUME stackVars \in Seq(SlotType), NEW slot \in SlotType,
         stackVars' = Append(stackVars, slot), NEW k, k = Len(stackVars) + 1
  PROVE  /\ IsNewest(k, slot.varName)'
         /\ Slot(slot.varName)' = slot
         /\ \A i \in DOMAIN stackVars, v \in Names \ {slot.varName} :
              IsNewest(i, v) => IsNewest(i, v)' /\ Slot(v)' = stackVars[i] /\ Slot(v) = stackVars[i]
<1>1. /\ Len(stackVars') = Len(stackVars) + 1
      /\ DOMAIN stackVars = 1 .. Len(stackVars)
      /\ DOMAIN stackVars' = 1 .. Len(stackVars) + 1
      /\ stackVars'[Len(stackVars) + 1] = slot
      /\ \A i \in DOMAIN stackVars : stackVars'[i] = stackVars[i]
      /\ Len(stackVars) \in Nat
  OBVIOUS
<1>2. IsNewest(k, slot.varName)'
  BY <1>1 DEF IsNewest
<1>3. \A i \in DOMAIN stackVars' : IsNewest(i, slot.varName)' => i = k
  BY <1>1 DEF IsNewest
<1>4. Slot(slot.varName)' = slot
  BY <1>1, <1>2, <1>3 DEF Slot
<1>5. ASSUME NEW i \in DOMAIN stackVars, NEW v \in Names \ {slot.varName}, IsNewest(i, v)
      PROVE  IsNewest(i, v)' /\ Slot(v)' = stackVars[i] /\ Slot(v) = stackVars[i]
  <2>1. IsNewest(i, v)' /\ i \in DOMAIN stackVars'
    BY <1>1, <1>5 DEF IsNewest
  <2>2. \A j \in DOMAIN stackVars' : IsNewest(j, v)' => j = i
    BY <1>1, <2>1 DEF IsNewest
  <2>3. \A j \in DOMAIN stackVars : IsNewest(j, v) => j = i
    BY <1>1, <1>5 DEF IsNewest
  <2>4. Slot(v)' = stackVars'[i]
    BY <2>1, <2>2 DEF Slot
  <2>5. Slot(v) = stackVars[i]
    BY <1>5, <2>3 DEF Slot
  <2> QED BY <1>1, <2>1, <2>4, <2>5
<1> QED BY <1>2, <1>4, <1>5

(* A slot that is found is one of the list.                                *)
LEMMA SlotIsOne ==
  ASSUME Found, NEW v \in Names, Has(v)
  PROVE  \E i \in DOMAIN stackVars : IsNewest(i, v) /\ Slot(v) = stackVars[i]
<1>1. \E i \in DOMAIN stackVars : IsNewest(i, v)
  BY DEF Found
<1> DEFINE c == CHOOSE i \in DOMAIN stackVars : IsNewest(i, v)
<1>2. c \in DOMAIN stackVars /\ IsNewest(c, v)
  BY <1>1
<1>3. Slot(v) = stackVars[c]
  BY DEF Slot
<1> QED BY <1>2, <1>3

(* The new slot takes the next cell.                                       *)
LEMMA NextCell ==
  ASSUME FrameType, Cells, Cursor, NEW v \in Names, NEW b \in Bytes \cup Widths
  PROVE  /\ NewSlot(v, b) \in SlotType
         /\ NewSlot(v, b).varName = v
         /\ NewSlot(v, b).stackOffset =
              frameTop - 8 * (Len(stackVars) + 1 - base) + (8 - NewSlot(v, b).varSize)
         /\ Ends(NewSlot(v, b))
<1> DEFINE n == Len(stackVars) - base
           size == AlignBlockSize(b)
<1>1. n \in Nat /\ size \in Widths /\ (size = 4 \/ size = 8)
  BY Sizes DEF FrameType
<1>2. AlignDownTo(currentStackTop, 8) = frameTop - 8 * n
  <2>1. CASE n = 0
    BY <2>1, <1>1 DEF Cursor, AlignDownTo, FrameType
  <2>2. CASE n # 0
    <3> DEFINE last == stackVars[Len(stackVars)]
    <3>1. Len(stackVars) \in Own /\ Len(stackVars) # base
      BY <2>2, <1>1 DEF Own, FrameType
    <3>2. last \in SlotType
      BY <3>1 DEF Own, FrameType
    <3>3. last.varSize = 4 \/ last.varSize = 8
      BY <3>2, Sizes DEF SlotType
    <3>4. currentStackTop = frameTop - 8 * n + (8 - last.varSize)
      BY <3>1 DEF Cells, Cell, Cursor
    <3>5. PICK q \in Int : frameTop = 8 * q
      BY Mod8 DEF FrameType
    <3> HIDE DEF last
    <3>6. currentStackTop = 8 * (q - n) \/ currentStackTop = 8 * (q - n) + 4
      BY <1>1, <3>3, <3>4, <3>5
    <3>7. q - n \in Int
      BY <1>1
    <3>8. currentStackTop - (currentStackTop % 8) = 8 * (q - n)
      BY <3>6, <3>7, Mod8
    <3> QED BY <1>1, <3>5, <3>8 DEF AlignDownTo
  <2> QED BY <2>1, <2>2
<1>3. NewSlot(v, b) = [varName |-> v, varSize |-> size, stackOffset |-> frameTop - 8 * n - size]
  BY <1>2 DEF NewSlot
<1>4. frameTop - 8 * n - size \in Int
  BY <1>1 DEF FrameType
<1>5. NewSlot(v, b) \in SlotType
  BY <1>1, <1>3, <1>4 DEF SlotType
<1>6. frameTop - 8 * n - size = frameTop - 8 * (Len(stackVars) + 1 - base) + (8 - size)
  BY <1>1 DEF FrameType
<1>7. Ends(NewSlot(v, b))
  <2>1. PICK q \in Int : frameTop = 8 * q
    BY Mod8 DEF FrameType
  <2>2. q - n \in Int /\ q - n - 1 \in Int
    BY <1>1
  <2>3. /\ size = 8 => frameTop - 8 * n - size = 8 * (q - n - 1)
        /\ size = 4 => frameTop - 8 * n - size = 8 * (q - n - 1) + 4
    BY <1>1, <2>1
  <2> QED BY <1>1, <1>3, <2>2, <2>3, Mod8 DEF Ends
<1> QED BY <1>3, <1>5, <1>6, <1>7

\* A new slot takes the next cell.
LEMMA PushKeeps ==
  ASSUME FrameType, Cells, Cursor, Found,
         NEW v \in Names, NEW b \in Bytes \cup Widths, NEW slot, slot = NewSlot(v, b),
         Push(slot), base' = base, frameTop' = frameTop, live' \subseteq live \cup {v}
  PROVE  /\ stackVars' \in Seq(SlotType) /\ currentStackTop' \in Int
         /\ base' \in 0 .. Len(stackVars') /\ Len(stackVars') = Len(stackVars) + 1
         /\ Cells' /\ Cursor' /\ Found'
         /\ Slot(v)' = slot /\ Has(v)'
         /\ \A w \in Names \ {v} : Has(w) => Slot(w)' = Slot(w)
         /\ Stored \subseteq Stored'
<1>1. /\ slot \in SlotType /\ slot.varName = v /\ Ends(slot)
      /\ slot.stackOffset = frameTop - 8 * (Len(stackVars) + 1 - base) + (8 - slot.varSize)
  BY NextCell
<1>2. /\ stackVars' = Append(stackVars, slot) /\ currentStackTop' = slot.stackOffset
      /\ stackVars \in Seq(SlotType) /\ base \in 0 .. Len(stackVars)
  BY DEF Push, FrameType
<1>3. PICK k : k = Len(stackVars) + 1
  OBVIOUS
<1>4. /\ IsNewest(k, v)' /\ Slot(v)' = slot
      /\ \A i \in DOMAIN stackVars, w \in Names \ {v} :
           IsNewest(i, w) => IsNewest(i, w)' /\ Slot(w)' = stackVars[i] /\ Slot(w) = stackVars[i]
  BY <1>1, <1>2, <1>3, PushFinds
<1>5. /\ Len(stackVars') = k /\ Len(stackVars) \in Nat
      /\ DOMAIN stackVars = 1 .. Len(stackVars) /\ DOMAIN stackVars' = 1 .. k
      /\ stackVars'[k] = slot
      /\ \A i \in DOMAIN stackVars : stackVars'[i] = stackVars[i]
      /\ stackVars' \in Seq(SlotType)
  BY <1>1, <1>2, <1>3
<1>6. Cells'
  <2> SUFFICES ASSUME NEW i \in Own' PROVE Cell(i)'
    BY DEF Cells
  <2>1. i \in base + 1 .. k
    BY <1>5 DEF Own
  <2>2. CASE i = k
    <3>1. stackVars'[i] = slot
      BY <1>5, <2>2
    <3>2. i = Len(stackVars) + 1
      BY <1>3, <2>2
    <3>3. slot.stackOffset = frameTop - 8 * (i - base) + (8 - slot.varSize)
      BY <1>1, <1>2, <1>5, <3>2 DEF FrameType, SlotType
    <3>4. slot.stackOffset = frameTop' - 8 * (i - base') + (8 - slot.varSize)
      BY <3>3
    <3> QED BY <3>1, <3>4 DEF Cell
  <2>3. CASE i # k
    <3>1. i \in Own /\ i \in DOMAIN stackVars
      BY <1>2, <1>3, <1>5, <2>1, <2>3 DEF Own
    <3> QED BY <1>5, <3>1 DEF Cells, Cell
  <2> QED BY <2>2, <2>3
<1>7. Cursor'
  BY <1>2, <1>3, <1>5 DEF Cursor
<1>8. Has(v)' /\ Stored \subseteq Stored'
  <2>1. Has(v)'
    BY <1>4, <1>5 DEF Has, IsNewest
  <2>2. \A w \in Names : Has(w) => Has(w)'
    BY <1>3, <1>5 DEF Has
  <2> QED BY <2>1, <2>2 DEF Stored
<1>9. Found'
  <2>1. \A i \in DOMAIN stackVars' : Ends(stackVars'[i])
    BY <1>1, <1>3, <1>5 DEF Found
  <2>2. ASSUME NEW w \in Names, Has(w)'
        PROVE  \E i \in DOMAIN stackVars' : IsNewest(i, w)'
    <3>1. CASE w = v
      BY <1>4, <3>1 DEF IsNewest
    <3>2. CASE w # v
      <4>1. Has(w)
        BY <1>1, <1>3, <1>5, <2>2, <3>2 DEF Has
      <4>2. PICK i \in DOMAIN stackVars : IsNewest(i, w)
        BY <4>1 DEF Found
      <4> QED BY <1>3, <1>4, <1>5, <3>2, <4>2
    <3> QED BY <3>1, <3>2
  <2>3. live' \subseteq Stored'
    BY <1>8 DEF Found, Stored
  <2>4. (\A i \in DOMAIN stackVars : Ends(stackVars[i]))'
    BY <2>1 DEF Ends
  <2>5. (\A w \in Names : Has(w) => \E i \in DOMAIN stackVars : IsNewest(i, w))'
    BY <2>2
  <2> QED BY <2>3, <2>4, <2>5 DEF Found
<1>10. \A w \in Names \ {v} : Has(w) => Slot(w)' = Slot(w)
  BY <1>4 DEF Found
<1> QED BY <1>1, <1>2, <1>3, <1>4, <1>5, <1>6, <1>7, <1>8, <1>9, <1>10 DEF SlotType

(* An aligned access at the start of a slot is not wider than the slot.    *)
LEMMA FitsIfAligned ==
  ASSUME NEW s \in SlotType, Ends(s), NEW w \in Widths, s.stackOffset % w = 0
  PROVE  w <= s.varSize
BY Sizes DEF Ends, SlotType

LEMMA MaxOfWidths ==
  ASSUME NEW S \in SUBSET Widths, S # {}
  PROVE  MaxOf(S) \in Widths
<1>1. \E m \in S : \A n \in S : n <= m
  <2>1. CASE 8 \in S
    BY <2>1, Sizes
  <2>2. CASE 8 \notin S
    BY <2>2, Sizes
  <2> QED BY <2>1, <2>2
<1> QED BY <1>1 DEF MaxOf

(* Fewer targets lack a slot, and one fewer when a target gets one.        *)
LEMMA Lacking ==
  ASSUME NEW D, NEW D2, IsFiniteSet(D), D2 \subseteq D
  PROVE  /\ Cardinality(D) \in Nat /\ Cardinality(D2) \in Nat
         /\ Cardinality(D2) <= Cardinality(D)
         /\ \A d \in D : d \notin D2 => Cardinality(D2) + 1 <= Cardinality(D)
<1>1. IsFiniteSet(D2) /\ Cardinality(D2) <= Cardinality(D)
  BY FS_Subset
<1>2. Cardinality(D) \in Nat /\ Cardinality(D2) \in Nat
  BY <1>1, FS_CardinalityType
<1>3. ASSUME NEW d \in D, d \notin D2
      PROVE  Cardinality(D2) + 1 <= Cardinality(D)
  <2>1. IsFiniteSet(D \ {d}) /\ Cardinality(D \ {d}) = Cardinality(D) - 1
    BY FS_RemoveElement
  <2>2. D2 \subseteq D \ {d}
    BY <1>3
  <2>3. Cardinality(D2) <= Cardinality(D \ {d})
    BY <2>1, <2>2, FS_Subset
  <2> QED BY <1>2, <2>1, <2>3
<1> QED BY <1>1, <1>2, <1>3

SlotsKept == \A v \in live : Slot(v)' = Slot(v)

(* What the end of MIR_2 and MIR_3 does, for loads of live variables.      *)
LEMMA StoreStep ==
  ASSUME FrameInv, phase = "body", NEW d \in dists,
         NEW distSize \in Widths, NEW width \in Widths, NEW loads,
         \A a \in loads : /\ a.varName \in live /\ a.width \in Widths
                          /\ a.stackOffset = Slot(a.varName).stackOffset,
         Store(d, distSize, width, loads), UnchangedFrame
  PROVE  FrameInv' /\ SlotsKept
<1> DEFINE slot == IF Has(d) THEN Slot(d) ELSE NewSlot(d, distSize)
           all  == loads \cup {Access(d, slot.stackOffset, width)}
<1>1. /\ IF Has(d) THEN UNCHANGED <<stackVars, currentStackTop>> ELSE Push(slot)
      /\ phase' \in {"body", "exit"}
      /\ accesses' = {a \in all : Aligned(a)}
      /\ live' = live \cup {d}
  BY DEF Store
<1>2. /\ params' = params /\ dists' = dists /\ base' = base /\ frameTop' = frameTop
      /\ d \in Names /\ live \subseteq Stored
      /\ Cells /\ Cursor /\ Room /\ FrameType /\ Found
  BY DEF UnchangedFrame, FrameInv, FrameType, Layout, Found
<1>3. /\ FrameType' /\ Layout' /\ Found' /\ SlotsKept /\ Has(d)'
      /\ Slot(d)' = slot
  <2>1. CASE Has(d)
    <3>1. /\ stackVars' = stackVars /\ currentStackTop' = currentStackTop
      BY <1>1, <2>1
    <3>2. Stored' = Stored /\ (\A v : Has(v)' = Has(v) /\ Slot(v)' = Slot(v))
      BY <3>1 DEF Stored, Has, Slot, IsNewest
    <3>3. FrameType'
      BY <1>1, <1>2, <3>1 DEF FrameType
    <3>4. Cells' /\ Cursor' /\ Room'
      BY <1>2, <3>1, <3>2 DEF Cells, Cell, Own, Cursor, Room
    <3>5. Found'
      BY <1>1, <1>2, <2>1, <3>1, <3>2 DEF Found, IsNewest, Stored
    <3> QED BY <2>1, <3>2, <3>3, <3>4, <3>5 DEF Layout, SlotsKept
  <2>2. CASE ~Has(d)
    <3>1. PICK s : s = NewSlot(d, distSize)
      OBVIOUS
    <3>2. Push(s)
      BY <1>1, <2>2, <3>1
    <3>3. /\ stackVars' \in Seq(SlotType) /\ currentStackTop' \in Int
          /\ base' \in 0 .. Len(stackVars') /\ Len(stackVars') = Len(stackVars) + 1
          /\ Cells' /\ Cursor' /\ Found' /\ Slot(d)' = s /\ Has(d)'
          /\ \A w \in Names \ {d} : Has(w) => Slot(w)' = Slot(w)
          /\ Stored \subseteq Stored'
      BY <1>1, <1>2, <3>1, <3>2, PushKeeps
    <3>4. FrameType'
      BY <1>1, <1>2, <3>3 DEF FrameType
    <3>5. Cardinality(dists \ Stored) \in Nat /\ Cardinality(dists \ Stored') \in Nat
          /\ Cardinality(dists \ Stored') + 1 <= Cardinality(dists \ Stored)
      <4>1. IsFiniteSet(dists \ Stored)
        BY <1>2, FrameAssumption, FS_Subset DEF FrameType
      <4>2. dists \ Stored' \subseteq dists \ Stored
        BY <3>3
      <4>3. d \in dists \ Stored /\ d \notin dists \ Stored'
        BY <1>2, <2>2, <3>3 DEF Stored
      <4> QED BY <4>1, <4>2, <4>3, Lacking
    <3>6. Room'
      <4>1. Len(stackVars) \in Nat /\ Len(params) \in Nat /\ base \in Nat /\ frameTop \in Nat
        BY <1>2 DEF FrameType
      <4>2. 8 * ((Len(stackVars) + 1 - base) + Len(params) + Cardinality(dists \ Stored')) <= frameTop
        BY <1>2, <3>5, <4>1 DEF Room
      <4> QED BY <1>2, <3>3, <4>2 DEF Room
    <3>7. SlotsKept
      BY <1>2, <2>2, <3>3 DEF SlotsKept, Stored
    <3> QED BY <2>2, <3>1, <3>3, <3>4, <3>6, <3>7 DEF Layout
  <2> QED BY <2>1, <2>2
<1>4. AccessInSlot'
  <2> SUFFICES ASSUME NEW a \in accesses'
               PROVE  /\ a.stackOffset = Slot(a.varName)'.stackOffset
                      /\ a.width <= Slot(a.varName)'.varSize
    BY DEF AccessInSlot
  <2>1. a \in all /\ a.stackOffset % a.width = 0
    BY <1>1 DEF Aligned
  <2>2. a.varName \in Names /\ Has(a.varName)' /\ a.width \in Widths
    <3>1. CASE a \in loads
      <4>1. a.varName \in Stored'
        BY <1>1, <1>3, <3>1 DEF Found
      <4> QED BY <3>1, <4>1 DEF Stored
    <3>2. CASE a = Access(d, slot.stackOffset, width)
      BY <1>2, <1>3, <3>2 DEF Access
    <3> QED BY <2>1, <3>1, <3>2
  <2>3. a.stackOffset = Slot(a.varName)'.stackOffset
    <3>1. CASE a \in loads
      BY <1>3, <3>1 DEF SlotsKept
    <3>2. CASE a = Access(d, slot.stackOffset, width)
      BY <1>3, <3>2 DEF Access
    <3> QED BY <2>1, <3>1, <3>2
  <2>4. PICK v \in Names : v = a.varName
    BY <2>2
  <2>5. Has(v)' /\ v = a.varName
    BY <2>2, <2>4
  <2>6. \E i \in DOMAIN stackVars' : Slot(v)' = stackVars'[i]
    <3>1. (\E i \in DOMAIN stackVars : IsNewest(i, v))'
      BY <1>3, <2>5 DEF Found
    <3> QED BY <3>1 DEF Slot
  <2>7. Slot(v)' \in SlotType /\ Ends(Slot(v)')
    BY <1>3, <2>6 DEF Found, FrameType, Ends
  <2>8. a.width <= Slot(v)'.varSize
    BY <2>1, <2>2, <2>3, <2>5, <2>7, FitsIfAligned
  <2> QED BY <2>3, <2>5, <2>8
<1>5. Fresh'
  BY <1>1 DEF Fresh
<1> QED BY <1>3, <1>4, <1>5 DEF FrameInv

(* The codes that store.                                                   *)
LEMMA SlotWidth ==
  ASSUME FrameInv, NEW v \in live
  PROVE  Slot(v).varSize \in Widths
<1>1. v \in Names /\ Has(v) /\ Found /\ FrameType
  BY DEF FrameInv, Found, Stored
<1>2. PICK i \in DOMAIN stackVars : Slot(v) = stackVars[i]
  BY <1>1, SlotIsOne
<1>3. stackVars[i] \in SlotType
  BY <1>1, <1>2 DEF FrameType
<1>4. stackVars[i].varSize \in Widths
  BY <1>3 DEF SlotType
<1> QED BY <1>2, <1>4

LEMMA Mir2VarStep ==
  ASSUME FrameInv, NEW d \in dists, NEW distSize \in Widths,
         NEW v \in live, NEW cached \in BOOLEAN, Mir2Var(d, v, distSize, cached)
  PROVE  FrameInv' /\ SlotsKept
<1> DEFINE width == MaxOf({distSize, Slot(v).varSize})
           loads == IF cached THEN {} ELSE {Access(v, Slot(v).stackOffset, width)}
<1>1. width \in Widths
  BY SlotWidth, MaxOfWidths
<1>2. phase = "body" /\ Store(d, distSize, width, loads) /\ UnchangedFrame
  BY DEF Mir2Var
<1>3. \A a \in loads : /\ a.varName \in live /\ a.width \in Widths
                      /\ a.stackOffset = Slot(a.varName).stackOffset
  BY <1>1 DEF Access
<1> HIDE DEF width, loads
<1> QED BY <1>1, <1>2, <1>3, StoreStep

LEMMA Mir2ImmStep ==
  ASSUME FrameInv, NEW d \in dists, NEW distSize \in Widths,
         NEW fromSize \in Widths, Mir2Imm(d, distSize, fromSize)
  PROVE  FrameInv' /\ SlotsKept
<1>1. MaxOf({distSize, fromSize}) \in Widths
  BY MaxOfWidths
<1> QED BY <1>1, StoreStep DEF Mir2Imm

LEMMA Mir3Step ==
  ASSUME FrameInv, NEW d \in dists, NEW distSize \in Widths,
         NEW vs \in SUBSET live, NEW loaded \in SUBSET vs, NEW sizes \in SUBSET Widths,
         Mir3(d, vs, loaded, sizes, distSize)
  PROVE  FrameInv' /\ SlotsKept
<1> DEFINE all   == {distSize} \cup sizes \cup {Slot(v).varSize : v \in vs}
           width == MaxOf(all)
           loads == LoadsOf(loaded)
<1>1. all \in SUBSET Widths /\ all # {}
  BY SlotWidth
<1>2. width \in Widths
  BY <1>1, MaxOfWidths
<1>3. phase = "body" /\ Store(d, distSize, width, loads) /\ UnchangedFrame
  BY DEF Mir3
<1>4. \A a \in loads : /\ a.varName \in live /\ a.width \in Widths
                      /\ a.stackOffset = Slot(a.varName).stackOffset
  BY SlotWidth DEF LoadsOf, Access
<1> HIDE DEF width, loads
<1> QED BY <1>2, <1>3, <1>4, StoreStep

(* The steps that leave the slots alone.                                   *)
LEMMA SlotsAlone ==
  ASSUME FrameInv, UNCHANGED <<stackVars, live>>
  PROVE  /\ Found' /\ SlotsKept /\ Stored' = Stored
         /\ \A v : Slot(v)' = Slot(v)
<1>1. Stored' = Stored /\ (\A v : Has(v)' = Has(v) /\ Slot(v)' = Slot(v))
  BY DEF Stored, Has, Slot, IsNewest
<1>2. Found'
  BY <1>1 DEF FrameInv, Found, IsNewest, Stored
<1> QED BY <1>1, <1>2 DEF SlotsKept

LEMMA LoadOnlyStep ==
  ASSUME FrameInv, NEW vs \in SUBSET live, LoadOnly(vs)
  PROVE  FrameInv' /\ SlotsKept
<1>1. /\ UNCHANGED <<phase, stackVars, currentStackTop, live>>
      /\ UNCHANGED <<params, dists, base, frameTop>>
      /\ accesses' = LoadsOf(vs)
  BY DEF LoadOnly, UnchangedFrame
<1>2. Found' /\ SlotsKept /\ Stored' = Stored /\ \A v : Slot(v)' = Slot(v)
  BY <1>1, SlotsAlone
<1>3. FrameType' /\ Layout' /\ Fresh'
  BY <1>1, <1>2 DEF FrameInv, FrameType, Layout, Cells, Cell, Own, Cursor, Room, Fresh
<1>4. AccessInSlot'
  <2>1. \A v \in vs : Slot(v).varSize <= Slot(v).varSize
    BY SlotWidth, Sizes
  <2> QED BY <1>1, <1>2, <2>1 DEF AccessInSlot, LoadsOf, Access
<1> QED BY <1>2, <1>3, <1>4 DEF FrameInv

LEMMA BeginBodyStep ==
  ASSUME FrameInv, BeginBody
  PROVE  FrameInv' /\ SlotsKept
<1>1. /\ UNCHANGED <<stackVars, currentStackTop, live, params, dists, base, frameTop>>
      /\ phase = "params" /\ phase' = "body" /\ accesses' = {}
  BY DEF BeginBody
<1>2. Found' /\ SlotsKept /\ Stored' = Stored
  BY <1>1, SlotsAlone
<1>3. FrameType' /\ Layout' /\ Fresh'
  BY <1>1, <1>2 DEF FrameInv, FrameType, Layout, Cells, Cell, Own, Cursor, Room, Fresh
<1>4. AccessInSlot'
  BY <1>1 DEF AccessInSlot
<1> QED BY <1>2, <1>3, <1>4 DEF FrameInv

LEMMA EndMethodStep ==
  ASSUME FrameInv, EndMethod
  PROVE  FrameInv' /\ SlotsKept
<1>1. /\ UNCHANGED <<stackVars, live, params, dists, base, frameTop>>
      /\ phase' = "between" /\ accesses' = {} /\ currentStackTop' = frameTop + 16
  BY DEF EndMethod
<1>2. Found' /\ SlotsKept
  BY <1>1, SlotsAlone
<1>3. FrameType' /\ Layout' /\ Fresh'
  BY <1>1 DEF FrameInv, FrameType, Layout, Fresh
<1>4. AccessInSlot'
  BY <1>1 DEF AccessInSlot
<1> QED BY <1>2, <1>3, <1>4 DEF FrameInv

(* The frame is large enough when the method begins.                       *)
LEMMA BeginMethodStep ==
  ASSUME FrameInv, NEW ps \in ParamLists, NEW ds \in SUBSET Names, BeginMethod(ps, ds)
  PROVE  FrameInv' /\ SlotsKept
<1> DEFINE k == Len(ps) + Cardinality(ds)
<1>1. /\ ps \in Seq([name : Names, byte : Bytes]) /\ Len(ps) \in Nat
      /\ \A i, j \in DOMAIN ps : i # j => ps[i].name # ps[j].name
  <2>1. PICK n \in 0 .. MaxParams : ps \in [1 .. n -> [name : Names, byte : Bytes]]
    BY DEF ParamLists
  <2>2. n \in Nat
    BY FrameAssumption
  <2>3. ps \in Seq([name : Names, byte : Bytes])
    BY <2>1, <2>2, IsSeq
  <2>4. \A i, j \in DOMAIN ps : i # j => ps[i].name # ps[j].name
    BY DEF ParamLists
  <2> QED BY <2>3, <2>4
<1>2. IsFiniteSet(ds) /\ Cardinality(ds) \in Nat
  BY FrameAssumption, FS_Subset, FS_CardinalityType
<1>3. ComputeMethodStackSize(ps, ds) + 1 = 8 * k + 1 /\ k \in Nat
  BY <1>1, <1>2 DEF ComputeMethodStackSize
<1> HIDE DEF k
<1>4. /\ UNCHANGED stackVars /\ phase' = "params" /\ params' = ps /\ dists' = ds
      /\ base' = Len(stackVars) /\ live' = {} /\ accesses' = {}
      /\ frameTop' = AlignStackSize(8 * k + 1)
      /\ currentStackTop' = AlignStackSize(8 * k + 1)
  BY <1>3 DEF BeginMethod
<1>5. frameTop' \in Nat /\ frameTop' % 8 = 0 /\ 8 * k <= frameTop'
  BY <1>3, <1>4, AlignSize
<1>6. Len(stackVars) \in Nat /\ stackVars \in Seq(SlotType)
  BY DEF FrameInv, FrameType
<1>7. FrameType'
  BY <1>1, <1>4, <1>5, <1>6 DEF FrameType
<1>8. Cells' /\ Cursor'
  BY <1>4, <1>6 DEF Cells, Own, Cursor
<1>9. Room'
  <2>1. /\ Cardinality(ds \ Stored') \in Nat
        /\ Cardinality(ds \ Stored') <= Cardinality(ds)
    BY <1>2, Lacking
  <2>2. 8 * ((Len(stackVars) - Len(stackVars)) + Len(ps) + Cardinality(ds \ Stored')) <= 8 * k
    BY <1>1, <1>2, <1>6, <2>1 DEF k
  <2>3. 8 * ((Len(stackVars) - Len(stackVars)) + Len(ps) + Cardinality(ds \ Stored')) <= frameTop'
    BY <1>1, <1>3, <1>5, <1>6, <2>1, <2>2
  <2> QED BY <1>4, <2>3 DEF Room
<1>10. Found' /\ SlotsKept
  <2>1. Stored' = Stored /\ (\A v : Has(v)' = Has(v) /\ Slot(v)' = Slot(v))
    BY <1>4 DEF Stored, Has, Slot, IsNewest
  <2> QED BY <1>4, <2>1 DEF FrameInv, Found, IsNewest, SlotsKept
<1>11. Fresh' /\ AccessInSlot'
  BY <1>1, <1>4 DEF Fresh, AccessInSlot
<1> QED BY <1>7, <1>8, <1>9, <1>10, <1>11 DEF FrameInv, Layout

LEMMA StoreParamStep ==
  ASSUME FrameInv, StoreParam
  PROVE  FrameInv' /\ SlotsKept
<1>1. /\ FrameType /\ Cells /\ Cursor /\ Room /\ Found /\ Fresh
      /\ phase = "params" /\ params # <<>> /\ params \in Seq([name : Names, byte : Bytes])
  BY DEF StoreParam, FrameInv, Layout, FrameType
<1>2. PICK v, b, slot : /\ v = Head(params).name /\ b = Head(params).byte
                        /\ slot = NewSlot(v, b)
  OBVIOUS
<1>3. /\ Head(params) = params[1] /\ 1 \in DOMAIN params
      /\ Head(params) \in [name : Names, byte : Bytes]
      /\ Len(params) \in Nat /\ Len(Tail(params)) = Len(params) - 1
      /\ Tail(params) \in Seq([name : Names, byte : Bytes])
      /\ \A i \in DOMAIN Tail(params) :
           i + 1 \in DOMAIN params /\ i + 1 # 1 /\ Tail(params)[i] = params[i + 1]
  BY <1>1, HeadTail
<1>4. v \in Names /\ b \in Bytes \cup Widths
  BY <1>2, <1>3
<1>5. /\ Push(slot) /\ live' = live \cup {v} /\ params' = Tail(params)
      /\ accesses' = {Access(v, slot.stackOffset, slot.varSize)}
      /\ phase' = phase /\ dists' = dists /\ base' = base /\ frameTop' = frameTop
  BY <1>2 DEF StoreParam
<1>6. /\ stackVars' \in Seq(SlotType) /\ currentStackTop' \in Int
      /\ base' \in 0 .. Len(stackVars') /\ Len(stackVars') = Len(stackVars) + 1
      /\ Cells' /\ Cursor' /\ Found'
      /\ Slot(v)' = slot /\ Has(v)'
      /\ \A w \in Names \ {v} : Has(w) => Slot(w)' = Slot(w)
      /\ Stored \subseteq Stored'
  BY <1>1, <1>2, <1>4, <1>5, PushKeeps
<1>7. FrameType'
  BY <1>1, <1>3, <1>5, <1>6 DEF FrameType
<1>8. Room'
  <2>1. IsFiniteSet(dists \ Stored)
    BY <1>1, FrameAssumption, FS_Subset DEF FrameType
  <2>2. /\ Cardinality(dists \ Stored) \in Nat /\ Cardinality(dists \ Stored') \in Nat
        /\ Cardinality(dists \ Stored') <= Cardinality(dists \ Stored)
    BY <1>6, <2>1, Lacking
  <2>3. Len(stackVars) \in Nat /\ base \in Nat /\ frameTop \in Nat
    BY <1>1 DEF FrameType
  <2>4. 8 * ((Len(stackVars) + 1 - base) + (Len(params) - 1) + Cardinality(dists \ Stored'))
          <= frameTop
    BY <1>1, <1>3, <2>2, <2>3 DEF Room
  <2> QED BY <1>3, <1>5, <1>6, <2>4 DEF Room
<1>9. v \notin live
  BY <1>1, <1>2, <1>3 DEF Fresh
<1>10. Fresh'
  <2>1. \A i, j \in DOMAIN Tail(params) : i # j => Tail(params)[i].name # Tail(params)[j].name
    <3> SUFFICES ASSUME NEW i \in DOMAIN Tail(params), NEW j \in DOMAIN Tail(params), i # j
                 PROVE  Tail(params)[i].name # Tail(params)[j].name
      OBVIOUS
    <3>1. i + 1 \in DOMAIN params /\ j + 1 \in DOMAIN params /\ i + 1 # j + 1
      BY <1>3
    <3> QED BY <1>1, <1>3, <3>1 DEF Fresh
  <2>2. \A i \in DOMAIN Tail(params) : Tail(params)[i].name \notin live'
    <3> SUFFICES ASSUME NEW i \in DOMAIN Tail(params)
                 PROVE  Tail(params)[i].name \notin live'
      OBVIOUS
    <3>1. params[i + 1].name # params[1].name /\ params[i + 1].name \notin live
      BY <1>1, <1>3 DEF Fresh
    <3> QED BY <1>2, <1>3, <1>5, <3>1
  <2> QED BY <1>5, <2>1, <2>2 DEF Fresh
<1>11. SlotsKept
  BY <1>1, <1>6, <1>9 DEF SlotsKept, Found, Stored
<1>12. AccessInSlot'
  <2>1. slot.varSize \in Widths
    BY <1>1, <1>2, <1>4, NextCell DEF SlotType
  <2>2. slot.varSize <= slot.varSize
    BY <2>1, Sizes
  <2> QED BY <1>5, <1>6, <2>2 DEF AccessInSlot, Access
<1> QED BY <1>1, <1>6, <1>7, <1>8, <1>10, <1>11, <1>12 DEF FrameInv, Layout

-----------------------------------------------------------------------------
LEMMA FrameInit == Init => FrameInv
BY DEF Init, FrameInv, FrameType, Layout, Found, Has, Fresh, AccessInSlot

LEMMA FrameNext ==
  ASSUME FrameInv, [Next]_vars
  PROVE  FrameInv' /\ SlotsKept
<1>1. ASSUME NEW ps \in ParamLists, NEW ds \in SUBSET Names, BeginMethod(ps, ds)
      PROVE  FrameInv' /\ SlotsKept
  BY <1>1, BeginMethodStep
<1>2. CASE StoreParam
  BY <1>2, StoreParamStep
<1>3. CASE BeginBody
  BY <1>3, BeginBodyStep
<1>4. ASSUME NEW d \in dists, NEW distSize \in Widths, NEW v \in live,
             NEW cached \in BOOLEAN, Mir2Var(d, v, distSize, cached)
      PROVE  FrameInv' /\ SlotsKept
  BY <1>4, Mir2VarStep
<1>5. ASSUME NEW d \in dists, NEW distSize \in Widths, NEW fromSize \in Widths,
             Mir2Imm(d, distSize, fromSize)
      PROVE  FrameInv' /\ SlotsKept
  BY <1>5, Mir2ImmStep
<1>6. ASSUME NEW d \in dists, NEW distSize \in Widths, NEW vs \in SUBSET live,
             NEW sizes \in SUBSET Widths, NEW loaded \in SUBSET vs,
             Mir3(d, vs, loaded, sizes, distSize)
      PROVE  FrameInv' /\ SlotsKept
  BY <1>6, Mir3Step
<1>7. ASSUME NEW vs \in SUBSET live, LoadOnly(vs)
      PROVE  FrameInv' /\ SlotsKept
  BY <1>7, LoadOnlyStep
<1>8. CASE EndMethod
  BY <1>8, EndMethodStep
<1>9. CASE UNCHANGED vars
  <2>1. /\ UNCHANGED <<stackVars, live>>
        /\ UNCHANGED <<phase, currentStackTop, params, dists, base, frameTop, accesses>>
    BY <1>9 DEF vars
  <2>2. Found' /\ SlotsKept /\ Stored' = Stored /\ \A v : Slot(v)' = Slot(v)
    BY <2>1, SlotsAlone
  <2>3. FrameType' /\ Layout' /\ Fresh' /\ AccessInSlot'
    BY <2>1, <2>2 DEF FrameInv, FrameType, Layout, Cells, Cell, Own, Cursor, Room, Fresh,
                      AccessInSlot
  <2> QED BY <2>2, <2>3 DEF FrameInv
<1> QED BY <1>1, <1>2, <1>3, <1>4, <1>5, <1>6, <1>7, <1>8, <1>9 DEF Next

(* Cells within the frame do not overlap.                                  *)
LEMMA CellsApart ==
  ASSUME FrameInv
  PROVE  OwnSlotsApart
<1> SUFFICES ASSUME phase # "between", NEW i \in Own
             PROVE  /\ Inside(stackVars[i])
                    /\ \A j \in Own : i # j => Apart(stackVars[i], stackVars[j])
  BY DEF OwnSlotsApart, Own
<1>1. FrameType /\ Cells /\ Room
  BY DEF FrameInv, Layout
<1> DEFINE n == Len(stackVars)
<1>2. n \in Nat /\ base \in Nat /\ frameTop \in Nat
  BY <1>1 DEF FrameType
<1>3. 8 * (n - base) <= frameTop
  <2>1. IsFiniteSet(dists \ Stored)
    BY <1>1, FrameAssumption, FS_Subset DEF FrameType
  <2>2. Cardinality(dists \ Stored) \in Nat /\ Len(params) \in Nat
    BY <1>1, <2>1, FS_CardinalityType DEF FrameType
  <2> QED BY <1>1, <1>2, <2>2 DEF Room
<1>4. ASSUME NEW j \in Own
      PROVE  /\ j \in base + 1 .. n
             /\ stackVars[j].varSize \in {4, 8} /\ stackVars[j].stackOffset \in Int
             /\ stackVars[j].stackOffset
                  = frameTop - 8 * (j - base) + (8 - stackVars[j].varSize)
  <2>1. j \in base + 1 .. n /\ j \in DOMAIN stackVars
    BY <1>1, <1>2 DEF Own, FrameType
  <2>2. stackVars[j] \in SlotType
    BY <1>1, <2>1 DEF FrameType
  <2>3. stackVars[j].varSize \in {4, 8} /\ stackVars[j].stackOffset \in Int
    BY <2>2 DEF SlotType, Widths
  <2>4. stackVars[j].stackOffset = frameTop - 8 * (j - base) + (8 - stackVars[j].varSize)
    BY <1>1 DEF Cells, Cell
  <2> QED BY <2>1, <2>3, <2>4
<1> HIDE DEF n
<1>5. ASSUME NEW j \in Own
      PROVE  Inside(stackVars[i]) /\ (i # j => Apart(stackVars[i], stackVars[j]))
  <2>1. PICK o, s, p, r : /\ o = stackVars[i].stackOffset /\ s = stackVars[i].varSize
                          /\ p = stackVars[j].stackOffset /\ r = stackVars[j].varSize
    OBVIOUS
  <2>2. /\ o \in Int /\ s \in {4, 8} /\ p \in Int /\ r \in {4, 8}
        /\ i \in base + 1 .. n /\ j \in base + 1 .. n
        /\ o = frameTop - 8 * (i - base) + (8 - s)
        /\ p = frameTop - 8 * (j - base) + (8 - r)
    BY <1>4, <2>1
  <2>3. /\ 0 <= o /\ o + s <= frameTop
        /\ i # j => o + s <= p \/ p + r <= o
    BY <1>2, <1>3, <2>2, CellBounds
  <2> QED BY <2>1, <2>3 DEF Inside, Apart
<1> QED BY <1>5

(* In every program, the slots a method makes lie in its frame, apart from *)
(* each other, and every load and store emitted stays in the slot of its   *)
(* variable: computeMethodStackSize counts enough, and the alignment check *)
(* of strInteger and ldrInteger stops every access that is too wide.       *)
THEOREM FrameSafe == Spec => [](OwnSlotsApart /\ AccessInSlot)
<1>1. Init => FrameInv
  BY FrameInit
<1>2. FrameInv /\ [Next]_vars => FrameInv'
  BY FrameNext
<1>3. FrameInv => OwnSlotsApart /\ AccessInSlot
  BY CellsApart DEF FrameInv
<1> QED BY <1>1, <1>2, <1>3, PTL DEF Spec

(* In every program, a variable a method has stored is found in the same   *)
(* slot by all later codes of the method, whatever slots are made since.   *)
THEOREM SlotsStaySafe == Spec => SlotsStay
<1>1. Init => FrameInv
  BY FrameInit
<1>2. FrameInv /\ [Next]_vars => FrameInv'
  BY FrameNext
<1>3. FrameInv /\ [Next]_vars =>
        [phase' \in {"params", "body"} => \A v \in live : Slot(v)' = Slot(v)]_vars
  BY FrameNext DEF SlotsKept
<1> QED BY <1>1, <1>2, <1>3, PTL DEF Spec, SlotsStay

(* In particular every load and store of a method stays within the slot of *)
(* its variable, for every sequence of slots and widths.                   *)
THEOREM AccessSafe == Spec => []AccessInSlot
BY FrameSafe, PTL

-----------------------------------------------------------------------------
(* The types FrameInv says nothing of.                                     *)
AccessType == [varName : Names, stackOffset : Int, width : Widths]

Counts == methods \in 0 .. MaxMethods /\ sp \in Int /\ accesses \subseteq AccessType

\* The newest slot of a name has a place and a size.
LEMMA LiveSlot ==
  ASSUME FrameInv, NEW v \in Names, Has(v)
  PROVE  Slot(v).stackOffset \in Int /\ Slot(v).varSize \in Widths
<1>1. Found /\ stackVars \in Seq(SlotType)
  BY DEF FrameInv, FrameType
<1>2. PICK i \in DOMAIN stackVars : Slot(v) = stackVars[i]
  BY <1>1, SlotIsOne
<1>3. stackVars[i] \in SlotType
  BY <1>1
<1>. QED
  BY <1>2, <1>3 DEF SlotType

\* Live names have a slot.
LEMMA LiveStored ==
  ASSUME FrameInv
  PROVE  \A v \in live : v \in Names /\ Has(v)
BY DEF FrameInv, Found, Stored

\* Loads of live names are accesses.
LEMMA LoadTypes ==
  ASSUME FrameInv, NEW vs \in SUBSET live
  PROVE  LoadsOf(vs) \subseteq AccessType
BY LiveStored, LiveSlot DEF LoadsOf, Access, AccessType

\* A store is counted against the variables that are left.
LEMMA StoreTypes ==
  ASSUME FrameInv, Counts, phase = "body", NEW d \in dists, NEW distSize \in Widths,
         NEW width \in Widths, NEW loads \in SUBSET AccessType,
         Store(d, distSize, width, loads), UnchangedFrame
  PROVE  Counts'
<1>. DEFINE slot == IF Has(d) THEN Slot(d) ELSE NewSlot(d, distSize)
            all  == loads \cup {Access(d, slot.stackOffset, width)}
<1>1. d \in Names /\ FrameType /\ Cells /\ Cursor
  BY DEF FrameInv, FrameType, Layout
<1>2. slot.stackOffset \in Int
  <2>1. CASE Has(d)
    BY <1>1, <2>1, LiveSlot
  <2>2. CASE ~Has(d)
    <3>1. NewSlot(d, distSize) \in SlotType
      BY <1>1, NextCell
    <3>2. NewSlot(d, distSize).stackOffset \in Int
      BY <3>1 DEF SlotType
    <3>. QED
      BY <2>2, <3>2
  <2>. QED
    BY <2>1, <2>2
<1>3. accesses' = {a \in all : Aligned(a)}
  BY DEF Store
<1>. HIDE DEF slot
<1>4. Access(d, slot.stackOffset, width) \in AccessType
  BY <1>1, <1>2 DEF Access, AccessType
<1>. QED
  BY <1>3, <1>4 DEF Counts, UnchangedFrame

LEMMA TypesNext ==
  ASSUME FrameInv, Counts, [Next]_vars
  PROVE  Counts'
<1>1. /\ methods \in 0 .. MaxMethods /\ sp \in Int /\ accesses \subseteq AccessType
      /\ MaxMethods \in Nat /\ frameTop \in Nat
  BY FrameAssumption DEF Counts, FrameInv, FrameType
<1>2. ASSUME NEW ps, NEW ds, BeginMethod(ps, ds)  PROVE Counts'
  BY <1>1, <1>2 DEF BeginMethod, SpAfter, Counts
<1>3. CASE StoreParam
  <2>. DEFINE p == Head(params)  slot == NewSlot(p.name, p.byte)
  <2>1. FrameType /\ Cells /\ Cursor /\ params # <<>>
    BY <1>3 DEF FrameInv, Layout, StoreParam
  <2>2. p \in [name : Names, byte : Bytes]
    BY <2>1, HeadTail DEF FrameType
  <2>3. p.name \in Names /\ p.byte \in Bytes
    BY <2>2
  <2>4. accesses' = {Access(p.name, slot.stackOffset, slot.varSize)}
    BY <1>3 DEF StoreParam
  <2>5. UNCHANGED <<methods, sp>>
    BY <1>3 DEF StoreParam
  <2>. HIDE DEF p
  <2>6. slot \in SlotType
    BY <2>1, <2>3, NextCell
  <2>. HIDE DEF slot
  <2>7. Access(p.name, slot.stackOffset, slot.varSize) \in AccessType
    BY <2>3, <2>6 DEF Access, AccessType, SlotType
  <2>. QED
    BY <1>1, <2>4, <2>5, <2>7 DEF Counts
<1>4. CASE BeginBody
  BY <1>1, <1>4 DEF BeginBody, Counts
<1>5. ASSUME NEW d \in dists, NEW distSize \in Widths, NEW v \in live,
             NEW cached \in BOOLEAN, Mir2Var(d, v, distSize, cached)
      PROVE  Counts'
  <2>. DEFINE width == MaxOf({distSize, Slot(v).varSize})
              loads == IF cached THEN {} ELSE {Access(v, Slot(v).stackOffset, width)}
  <2>1. width \in Widths
    BY SlotWidth, MaxOfWidths
  <2>2. phase = "body" /\ Store(d, distSize, width, loads) /\ UnchangedFrame
    BY <1>5 DEF Mir2Var
  <2>3. v \in Names /\ Slot(v).stackOffset \in Int
    BY LiveStored, LiveSlot
  <2>. HIDE DEF width
  <2>4. loads \in SUBSET AccessType
    BY <2>1, <2>3 DEF Access, AccessType
  <2>. HIDE DEF loads
  <2>. QED
    BY <2>1, <2>2, <2>4, StoreTypes
<1>6. ASSUME NEW d \in dists, NEW distSize \in Widths, NEW fromSize \in Widths,
             Mir2Imm(d, distSize, fromSize)
      PROVE  Counts'
  <2>1. MaxOf({distSize, fromSize}) \in Widths
    BY MaxOfWidths
  <2>. QED
    BY <1>6, <2>1, StoreTypes DEF Mir2Imm
<1>7. ASSUME NEW d \in dists, NEW distSize \in Widths, NEW vs \in SUBSET live,
             NEW sizes \in SUBSET Widths, NEW loaded \in SUBSET vs,
             Mir3(d, vs, loaded, sizes, distSize)
      PROVE  Counts'
  <2>. DEFINE all   == {distSize} \cup sizes \cup {Slot(v).varSize : v \in vs}
              width == MaxOf(all)
              loads == LoadsOf(loaded)
  <2>1. all \in SUBSET Widths /\ all # {}
    BY SlotWidth
  <2>2. width \in Widths
    BY <2>1, MaxOfWidths
  <2>3. phase = "body" /\ Store(d, distSize, width, loads) /\ UnchangedFrame
    BY <1>7 DEF Mir3
  <2>4. loads \in SUBSET AccessType
    BY LoadTypes
  <2>. HIDE DEF width, loads
  <2>. QED
    BY <2>2, <2>3, <2>4, StoreTypes
<1>8. ASSUME NEW vs \in SUBSET live, LoadOnly(vs)  PROVE Counts'
  BY <1>1, <1>8, LoadTypes DEF LoadOnly, UnchangedFrame, Counts
<1>9. CASE EndMethod
  BY <1>1, <1>9 DEF EndMethod, SpAfter, Counts
<1>10. CASE UNCHANGED vars
  BY <1>10 DEF vars, Counts
<1>. QED
  BY <1>2, <1>3, <1>4, <1>5, <1>6, <1>7, <1>8, <1>9, <1>10 DEF Next

(* In every program the list of slots, the sizes and the offsets stay what *)
(* generateText takes them for: in particular a slot has 4 or 8 bytes and  *)
(* an access the width of one, and the slots of earlier methods, which     *)
(* nobody removes, are still below those of this one.                      *)
THEOREM TypeCorrect == Spec => []TypeOK
<1>1. Init => FrameInv /\ Counts
  BY FrameInit, FrameAssumption DEF Init, Counts
<1>2. FrameInv /\ Counts /\ [Next]_vars => FrameInv' /\ Counts'
  BY FrameNext, TypesNext
<1>3. FrameInv /\ Counts => TypeOK
  BY LiveStored DEF FrameInv, FrameType, Counts, AccessType, TypeOK
<1>. QED
  BY <1>1, <1>2, <1>3, PTL DEF Spec

=============================================================================

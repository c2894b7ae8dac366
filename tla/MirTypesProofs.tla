--------------------------- MODULE MirTypesProofs ---------------------------
(***************************************************************************)
(* What MirTypes claims holds for every program.  The tables only grow     *)
(* within a method and hold no void (Tables); what the syntax tree's       *)
(* unfinished calls need is in them (Entries); and lastCalled is the       *)
(* method whose result is wanted next, or no method at all (Results).      *)
(***************************************************************************)
EXTENDS MirTypes, SequenceTheorems, TLAPS

Nodes == {"assignment", "arithmetic", "item", "call"}
Frames == [node : Nodes, dist : VarNames \cup MethodNames \cup Nat, seen : BOOLEAN]
Kinds == {"none", "type", "identity", "return"}

\* An entry holds a type that is not void.
IsType(t) == t.type \in DOMAIN Rank /\ Rank[t.type] >= 3

Tables ==
  /\ \A n \in DOMAIN varInfo : IsType(varInfo[n])
  /\ DOMAIN methodInfo \subseteq MethodNames
  /\ \A m \in DOMAIN methodInfo : IsType(methodInfo[m])
  /\ typed \subseteq DOMAIN methodInfo
  /\ declared \subseteq MethodNames

Shape ==
  /\ open \in Seq(Frames)
  /\ value.kind \in Kinds /\ (value.kind = "none" => value = NoValue)
  /\ tempValueIndex \in Nat
  /\ known \subseteq VarNames
  /\ phase = "outer" => open = <<>> /\ value.kind = "none" /\ known = {}
  /\ \A i \in DOMAIN open : i > 1 /\ open[i].node = "call" => open[i - 1].node = "item"
  /\ value.kind = "return" => TopIs("item")
  /\ value.kind = "type" => IsType(value.type)

Innermost(i) == open[i].node = "call" /\ \A j \in DOMAIN open : j > i => open[j].node # "call"

Results ==
  /\ value.kind = "return" =>
       /\ lastCalled \in {None, value.name}
       /\ ~ value.nested => lastCalled = value.name
       /\ \A i \in DOMAIN open : open[i].node = "call" => open[i].seen
  /\ value.kind # "return" => \A i \in DOMAIN open : Innermost(i) =>
       /\ lastCalled \in {None, open[i].dist}
       /\ ~ open[i].seen => lastCalled = open[i].dist

Entries ==
  /\ value.kind = "identity" => value.name \in DOMAIN varInfo \/ Excused(value.name)
  /\ \A n \in known : n \in DOMAIN varInfo \/ Excused(n)
  /\ \A i \in DOMAIN open :
       open[i].node \in {"item", "arithmetic"} /\ open[i].seen => open[i].dist \in DOMAIN varInfo

Inv ==
  /\ Tables /\ Shape /\ Results /\ Entries
  /\ ResultOfItsOwnCall /\ CrashesOnlyOn /\ ParamsKeepTypes

-----------------------------------------------------------------------------
(* The order of the types.                                                 *)

LEMMA Ranks ==
  /\ \A t \in Types : IsType(Direct(t)) /\ IsType(Pointer(t)) /\ Rank[t] >= 3 /\ t # "VOID"
  /\ IsType(Pointer("P"))
  /\ Rank["VOID"] = 2
  /\ \A t \in DOMAIN Rank : Rank[t] \in Nat
<1>1. /\ Rank["VOID"] = 2
      /\ Rank["P"] = 9
      /\ DOMAIN Rank = {"VOID", "INT8", "INT16", "INT32", "INT64", "FLOAT32", "FLOAT64", "P"}
      /\ \A t \in DOMAIN Rank : Rank[t] \in Nat
  BY DEF Rank
<1>2. \A t \in DOMAIN Rank \ {"VOID"} : Rank[t] >= 3
  BY DEF Rank
<1>3. \A t \in Types : t \in DOMAIN Rank \ {"VOID"}
  BY TypesAssumption
<1>. QED
  BY <1>1, <1>2, <1>3 DEF IsType, Direct, Pointer

\* An entry that is added leaves the others as they are.
LEMMA Added ==
  ASSUME NEW table, NEW n, NEW t, IsType(t)
  PROVE  /\ DOMAIN Add(table, n, t) = DOMAIN table \cup {n}
         /\ \A m \in DOMAIN table : Add(table, n, t)[m] = table[m]
         /\ n \notin DOMAIN table => Add(table, n, t)[n] = t
BY Ranks DEF IsType, Add

\* So do the parameters, of which those of type void get none.
LEMMA ParamsAdded ==
  ASSUME NEW table, NEW ps \in ParamLists
  PROVE  /\ DOMAIN AddParams(table, ps) = DOMAIN table \cup {p \in DOMAIN ps : ps[p] # "VOID"}
         /\ \A m \in DOMAIN table : AddParams(table, ps)[m] = table[m]
         /\ \A p \in DOMAIN ps : p \notin DOMAIN table /\ ps[p] # "VOID" =>
              AddParams(table, ps)[p] = Direct(ps[p]) /\ IsType(Direct(ps[p]))
<1>1. \A p \in DOMAIN ps : ps[p] \in Types \cup {"VOID"}
  BY DEF ParamLists
<1>2. \A p \in DOMAIN ps : Rank[ps[p]] >= 3 <=> ps[p] # "VOID"
  BY <1>1, Ranks
<1>3. \A p \in DOMAIN ps : ps[p] # "VOID" => IsType(Direct(ps[p]))
  BY <1>1, Ranks
<1>. QED
  BY <1>2, <1>3 DEF AddParams

\* What is opened is an open node, not yet seen.
LEMMA FrameIsFrame ==
  ASSUME NEW node \in Nodes, NEW d \in VarNames \cup MethodNames \cup Nat
  PROVE  /\ Frame(node, d) \in Frames
         /\ Frame(node, d).node = node /\ Frame(node, d).dist = d /\ Frame(node, d).seen = FALSE
BY DEF Frame, Frames

LEMMA SeenIsFrame ==
  ASSUME NEW f \in Frames
  PROVE  /\ Seen(f) \in Frames
         /\ Seen(f).node = f.node /\ Seen(f).dist = f.dist /\ Seen(f).seen = TRUE
BY DEF Seen, Frames

\* The innermost call under way, and the others.
LEMMA TopAndPop ==
  ASSUME open \in Seq(Frames), open # <<>>
  PROVE  /\ Len(open) \in Nat \ {0} /\ DOMAIN open = 1 .. Len(open)
         /\ Top \in Frames /\ Top = open[Len(open)]
         /\ Pop \in Seq(Frames) /\ Len(Pop) = Len(open) - 1
         /\ DOMAIN Pop = 1 .. Len(open) - 1
         /\ \A i \in 1 .. Len(open) - 1 : Pop[i] = open[i]
<1>1. Len(open) \in Nat \ {0} /\ DOMAIN open = 1 .. Len(open)
  BY EmptySeq, LenProperties
<1>2. \A i \in 1 .. Len(open) - 1 : open[i] \in Frames
  BY <1>1, ElementOfSeq
<1>3. /\ Pop \in Seq(Frames) /\ Len(Pop) = Len(open) - 1
      /\ \A i \in 1 .. Len(open) - 1 : Pop[i] = open[i]
  <2>1. /\ Pop \in Seq(Frames)
        /\ Len(Pop) = IF 1 <= Len(open) - 1 THEN Len(open) - 1 - 1 + 1 ELSE 0
        /\ \A i \in 1 .. (Len(open) - 1) - 1 + 1 : Pop[i] = open[1 + i - 1]
    BY <1>1, <1>2, SubSeqProperties DEF Pop
  <2>2. Len(Pop) = Len(open) - 1
    <3>1. (1 <= Len(open) - 1 => Len(Pop) = Len(open) - 1 - 1 + 1) /\ (~ (1 <= Len(open) - 1) => Len(Pop) = 0)
      BY <2>1
    <3>2. \A n \in Nat \ {0} : (1 <= n - 1 => n - 1 - 1 + 1 = n - 1) /\ (~ (1 <= n - 1) => 0 = n - 1)
      OBVIOUS
    <3>. QED
      BY <3>1, <3>2, <1>1
  <2>3. ASSUME NEW i \in 1 .. Len(open) - 1  PROVE Pop[i] = open[i]
    <3>1. i \in 1 .. (Len(open) - 1) - 1 + 1 /\ 1 + i - 1 = i
      BY <1>1
    <3>. QED
      BY <2>1, <3>1
  <2>. QED
    BY <2>1, <2>2, <2>3
<1>4. DOMAIN Pop = 1 .. Len(open) - 1
  BY <1>3, LenProperties
<1>. QED
  BY <1>1, <1>3, <1>4, ElementOfSeq DEF Top

-----------------------------------------------------------------------------
(* Going down the tree.                                                    *)

\* No frame is lost, so that what was excused still is.
LEMMA ExcusedStays ==
  ASSUME NEW n, Excused(n), params' = params,
         \A i \in DOMAIN open : i \in DOMAIN open' /\ open'[i].node = open[i].node
                                                   /\ open'[i].dist = open[i].dist
  PROVE  Excused(n)'
BY DEF Excused

\* Opened nodes come on top of those that are open.
LEMMA Concatenated ==
  ASSUME open \in Seq(Frames), NEW nodes \in Seq(Frames), open' = open \o nodes
  PROVE  /\ open' \in Seq(Frames)
         /\ Len(open) \in Nat /\ Len(nodes) \in Nat
         /\ DOMAIN open = 1 .. Len(open) /\ DOMAIN nodes = 1 .. Len(nodes)
         /\ DOMAIN open' = 1 .. Len(open) + Len(nodes)
         /\ Len(open') = Len(open) + Len(nodes)
         /\ \A i \in DOMAIN open : i \in DOMAIN open' /\ open'[i] = open[i]
         /\ \A k \in DOMAIN nodes : Len(open) + k \in DOMAIN open' /\ open'[Len(open) + k] = nodes[k]
         /\ \A j \in DOMAIN open' : j \notin DOMAIN open =>
              j - Len(open) \in DOMAIN nodes /\ open'[j] = nodes[j - Len(open)]
<1>1. Len(open) \in Nat /\ Len(nodes) \in Nat /\ DOMAIN open = 1 .. Len(open) /\ DOMAIN nodes = 1 .. Len(nodes)
  BY LenProperties
<1>2. /\ open' \in Seq(Frames)
      /\ Len(open') = Len(open) + Len(nodes)
      /\ \A i \in 1 .. Len(open) + Len(nodes) :
           open'[i] = IF i <= Len(open) THEN open[i] ELSE nodes[i - Len(open)]
  BY ConcatProperties
<1>3. DOMAIN open' = 1 .. Len(open) + Len(nodes)
  BY <1>2, LenProperties
<1>4. \A i \in DOMAIN open : i \in DOMAIN open' /\ open'[i] = open[i]
  BY <1>1, <1>2, <1>3
<1>5. \A k \in DOMAIN nodes : Len(open) + k \in DOMAIN open' /\ open'[Len(open) + k] = nodes[k]
  <2>1. ASSUME NEW k \in DOMAIN nodes
        PROVE  /\ Len(open) + k \in 1 .. Len(open) + Len(nodes)
               /\ ~ (Len(open) + k <= Len(open)) /\ (Len(open) + k) - Len(open) = k
    BY <1>1
  <2>. QED
    BY <1>2, <1>3, <2>1
<1>6. \A j \in DOMAIN open' : j \notin DOMAIN open =>
        j - Len(open) \in DOMAIN nodes /\ open'[j] = nodes[j - Len(open)]
  BY <1>1, <1>2, <1>3
<1>. QED
  BY <1>1, <1>2, <1>3, <1>4, <1>5, <1>6

(* A step down adds frames that have seen nothing, the last of them a call *)
(* when it calls a method, and touches no table.                           *)
Downward(nodes) ==
  /\ nodes # <<>>
  /\ \A k \in DOMAIN nodes : nodes[k].seen = FALSE
  /\ UNCHANGED <<varInfo, methodInfo, declared, params, foreign, typed>>
  /\ tempValueIndex' \in Nat
  /\ known' \subseteq VarNames
  /\ \A n \in known' : n \in known \/ \E k \in DOMAIN nodes : nodes[k].node = "assignment" /\ nodes[k].dist = n
  /\ \/ lastCalled' = lastCalled /\ \A k \in DOMAIN nodes : nodes[k].node # "call"
     \/ /\ Len(nodes) = 1 /\ nodes[1].node = "call" /\ lastCalled' = nodes[1].dist
        /\ open = <<>> \/ TopIs("item")

\* Opening nodes keeps the invariant, if what may be open in what allows it.
LEMMA Descending ==
  ASSUME Inv, NEW nodes \in Seq(Frames), Descend(nodes), Downward(nodes)
  PROVE  Inv'
<1>. open \in Seq(Frames) /\ value.kind = "none" /\ value' = value /\ phase = "body" /\ phase' = "body"
  BY DEF Inv, Shape, Descend, NoValue
<1>1. open' = open \o nodes
  BY DEF Descend
<1>2. /\ open' \in Seq(Frames)
      /\ Len(open) \in Nat /\ Len(nodes) \in Nat
      /\ DOMAIN open = 1 .. Len(open) /\ DOMAIN nodes = 1 .. Len(nodes)
      /\ DOMAIN open' = 1 .. Len(open) + Len(nodes)
      /\ \A i \in DOMAIN open : i \in DOMAIN open' /\ open'[i] = open[i]
      /\ \A k \in DOMAIN nodes : Len(open) + k \in DOMAIN open' /\ open'[Len(open) + k] = nodes[k]
      /\ \A j \in DOMAIN open' : j \notin DOMAIN open =>
           j - Len(open) \in DOMAIN nodes /\ open'[j] = nodes[j - Len(open)]
  BY <1>1, Concatenated
<1>3. Tables'
  BY DEF Inv, Tables, Downward
<1>4. Shape'
  <2>1. ASSUME NEW i \in DOMAIN open', i > 1, open'[i].node = "call"
        PROVE  open'[i - 1].node = "item"
    <3>1. CASE i \in DOMAIN open
      BY <1>2, <2>1, <3>1 DEF Inv, Shape
    <3>2. CASE i \notin DOMAIN open
      <4>1. Len(nodes) = 1 /\ (open = <<>> \/ TopIs("item"))
        BY <1>2, <2>1, <3>2 DEF Downward
      <4>2. i = Len(open) + 1
        BY <4>1, <1>2, <3>2
      <4>3. Len(open) \in DOMAIN open
        BY <4>2, <2>1, <1>2
      <4>4. open # <<>>
        BY <4>3, <1>2, EmptySeq
      <4>. QED
        BY <4>1, <4>2, <4>3, <4>4, <1>2 DEF TopIs, Top
    <3>. QED
      BY <3>1, <3>2
  <2>. QED
    BY <1>2, <2>1 DEF Inv, Shape, Downward
<1>5. Results'
  <2>. SUFFICES ASSUME NEW i \in DOMAIN open', Innermost(i)'
                PROVE  /\ lastCalled' \in {None, open'[i].dist}
                       /\ ~ open'[i].seen => lastCalled' = open'[i].dist
    BY DEF Results
  <2>1. CASE \A k \in DOMAIN nodes : nodes[k].node # "call"
    <3>1. i \in DOMAIN open /\ Innermost(i)
      BY <1>2, <2>1 DEF Innermost
    <3>2. lastCalled' = lastCalled
      BY <2>1, <1>2 DEF Downward
    <3>. QED
      BY <3>1, <3>2, <1>2 DEF Inv, Results
  <2>2. CASE Len(nodes) = 1 /\ nodes[1].node = "call" /\ lastCalled' = nodes[1].dist
    <3>1. Len(open) + 1 \in DOMAIN open' /\ open'[Len(open) + 1] = nodes[1]
      BY <1>2, <2>2
    <3>2. i = Len(open) + 1
      BY <1>2, <2>2, <3>1 DEF Innermost
    <3>. QED
      BY <2>2, <3>1, <3>2
  <2>. QED
    BY <2>1, <2>2 DEF Downward
<1>6. Entries'
  <2>1. ASSUME NEW n \in known'  PROVE n \in DOMAIN varInfo' \/ Excused(n)'
    <3>1. CASE n \in known
      <4>1. n \in DOMAIN varInfo \/ Excused(n)
        BY <3>1 DEF Inv, Entries
      <4>. QED
        BY <4>1, <1>2, ExcusedStays DEF Downward
    <3>2. CASE \E k \in DOMAIN nodes : nodes[k].node = "assignment" /\ nodes[k].dist = n
      BY <3>2, <1>2 DEF Excused
    <3>. QED
      BY <3>1, <3>2 DEF Downward
  <2>2. ASSUME NEW i \in DOMAIN open', open'[i].node \in {"item", "arithmetic"}, open'[i].seen
        PROVE  open'[i].dist \in DOMAIN varInfo'
    <3>1. i \in DOMAIN open
      BY <2>2, <1>2 DEF Downward
    <3>. QED
      BY <3>1, <2>2, <1>2 DEF Inv, Entries, Downward
  <2>. QED
    BY <2>1, <2>2 DEF Entries
<1>7. ResultOfItsOwnCall' /\ CrashesOnlyOn'
  BY DEF Descend, NoCode, ResultOfItsOwnCall, CrashesOnlyOn
<1>8. ParamsKeepTypes'
  BY DEF Inv, ParamsKeepTypes, Downward
<1>. QED
  BY <1>3, <1>4, <1>5, <1>6, <1>7, <1>8 DEF Inv

-----------------------------------------------------------------------------
(* Methods.                                                                *)

\* A method is declared once, and with a type unless it is void.
LEMMA Declaring ==
  ASSUME Tables, NEW m \in MethodNames, NEW t \in Types \cup {"VOID"}, DeclareMethod(m, t)
  PROVE  /\ DOMAIN methodInfo' \subseteq MethodNames
         /\ \A n \in DOMAIN methodInfo' : IsType(methodInfo'[n])
         /\ \A n \in DOMAIN methodInfo : n \in DOMAIN methodInfo' /\ methodInfo'[n] = methodInfo[n]
         /\ typed' \subseteq DOMAIN methodInfo'
         /\ declared' \subseteq MethodNames
<1>1. CASE t = "VOID"
  <2>1. methodInfo' = methodInfo
    BY <1>1, Ranks DEF DeclareMethod, Add, Direct
  <2>. QED
    BY <1>1, <2>1 DEF Tables, DeclareMethod
<1>2. CASE t \in Types
  <2>1. IsType(Direct(t)) /\ t # "VOID"
    BY <1>2, Ranks
  <2>2. /\ DOMAIN methodInfo' = DOMAIN methodInfo \cup {m}
        /\ \A n \in DOMAIN methodInfo : methodInfo'[n] = methodInfo[n]
        /\ m \notin DOMAIN methodInfo => methodInfo'[m] = Direct(t)
    <3>. DEFINE d == Direct(t)
    <3>. HIDE DEF d
    <3>1. IsType(d) /\ methodInfo' = Add(methodInfo, m, d)
      BY <2>1 DEF d, DeclareMethod
    <3>2. /\ DOMAIN Add(methodInfo, m, d) = DOMAIN methodInfo \cup {m}
          /\ \A n \in DOMAIN methodInfo : Add(methodInfo, m, d)[n] = methodInfo[n]
          /\ m \notin DOMAIN methodInfo => Add(methodInfo, m, d)[m] = d
      BY <3>1, Added
    <3>. QED
      BY <3>1, <3>2 DEF d
  <2>. QED
    BY <2>1, <2>2 DEF Tables, DeclareMethod
<1>. QED
  BY <1>1, <1>2

\* Parameters that are not void enter the table with their types.
LEMMA VarsTyped ==
  ASSUME Tables, NEW ps \in ParamLists, varInfo' = AddParams(varInfo, ps)
  PROVE  /\ DOMAIN varInfo' = DOMAIN varInfo \cup {p \in DOMAIN ps : ps[p] # "VOID"}
         /\ \A n \in DOMAIN varInfo : varInfo'[n] = varInfo[n]
         /\ \A p \in DOMAIN ps : p \notin DOMAIN varInfo /\ ps[p] # "VOID" =>
              varInfo'[p] = Direct(ps[p])
         /\ \A n \in DOMAIN varInfo' : IsType(varInfo'[n])
<1>1. /\ DOMAIN AddParams(varInfo, ps) = DOMAIN varInfo \cup {p \in DOMAIN ps : ps[p] # "VOID"}
      /\ \A m \in DOMAIN varInfo : AddParams(varInfo, ps)[m] = varInfo[m]
      /\ \A p \in DOMAIN ps : p \notin DOMAIN varInfo /\ ps[p] # "VOID" =>
           AddParams(varInfo, ps)[p] = Direct(ps[p]) /\ IsType(Direct(ps[p]))
  BY ParamsAdded
<1>2. ASSUME NEW n \in DOMAIN varInfo'  PROVE IsType(varInfo'[n])
  BY <1>1 DEF Tables
<1>. QED
  BY <1>1, <1>2

LEMMA PrototypeInv ==
  ASSUME Inv, NEW m \in MethodNames, NEW t \in Types \cup {"VOID"}, NEW ps \in ParamLists,
         Prototype(m, t, ps)
  PROVE  Inv'
<1>1. Tables'
  BY Declaring, VarsTyped DEF Inv, Prototype, Tables
<1>2. Shape'
  BY DEF Inv, Shape, Prototype, TopIs, Top
<1>3. Results'
  BY DEF Inv, Results, Innermost, Prototype
<1>4. Entries'
  <2>1. open = <<>> /\ value.kind = "none" /\ known = {} /\ DOMAIN open = {}
    BY DEF Inv, Shape, Prototype
  <2>. QED
    BY <2>1 DEF Entries, Prototype
<1>5. ResultOfItsOwnCall'
  BY Declaring DEF Inv, ResultOfItsOwnCall, Prototype
<1>6. CrashesOnlyOn' 
  BY DEF CrashesOnlyOn, Prototype
<1>7. ParamsKeepTypes'
  BY VarsTyped DEF Inv, ParamsKeepTypes, Prototype
<1>. QED
  BY <1>1, <1>2, <1>3, <1>4, <1>5, <1>6, <1>7 DEF Inv

LEMMA BeginMethodInv ==
  ASSUME Inv, NEW m \in MethodNames, NEW t \in Types \cup {"VOID"}, NEW ps \in ParamLists,
         BeginMethod(m, t, ps)
  PROVE  Inv'
<1>1. Tables'
  BY Declaring, VarsTyped DEF Inv, BeginMethod, Tables
<1>2. Shape'
  BY DEF Inv, Shape, BeginMethod, TopIs, Top, ParamLists
<1>3. Results'
  BY DEF Inv, Results, Innermost, BeginMethod
<1>4. Entries'
  <2>1. open = <<>> /\ value.kind = "none" /\ DOMAIN open = {}
    BY DEF Inv, Shape, BeginMethod
  <2>2. \A n \in DOMAIN ps : n \in DOMAIN varInfo' \/ ps[n] = "VOID"
    BY VarsTyped DEF BeginMethod, Inv
  <2>. QED
    BY <2>1, <2>2 DEF Entries, BeginMethod, Excused
<1>5. ResultOfItsOwnCall'
  BY Declaring DEF Inv, ResultOfItsOwnCall, BeginMethod
<1>6. CrashesOnlyOn'
  BY DEF CrashesOnlyOn, BeginMethod
<1>7. ParamsKeepTypes'
  <2>1. DOMAIN varInfo \subseteq foreign
    BY DEF Inv, ParamsKeepTypes, BeginMethod
  <2>. QED
    BY <2>1, VarsTyped DEF ParamsKeepTypes, BeginMethod, Inv
<1>. QED
  BY <1>1, <1>2, <1>3, <1>4, <1>5, <1>6, <1>7 DEF Inv

LEMMA EndMethodInv ==
  ASSUME Inv, EndMethod
  PROVE  Inv'
<1>. DOMAIN varInfo' = {} /\ DOMAIN open' = {} /\ value' = NoValue /\ value = NoValue /\ NoValue.kind = "none"
  BY DEF EndMethod, NoValue
<1>1. Tables'
  BY DEF Inv, Tables, EndMethod
<1>2. Shape'
  BY DEF Inv, Shape, EndMethod
<1>3. Results'
  BY DEF Results
<1>4. Entries'
  BY DEF Entries, EndMethod
<1>5. ResultOfItsOwnCall' /\ CrashesOnlyOn' /\ ParamsKeepTypes'
  BY DEF ResultOfItsOwnCall, CrashesOnlyOn, ParamsKeepTypes, EndMethod, NoCode
<1>. QED
  BY <1>1, <1>2, <1>3, <1>4, <1>5 DEF Inv

-----------------------------------------------------------------------------
(* The steps down.                                                         *)

LEMMA BeginDefineInv ==
  ASSUME Inv, NEW n \in VarNames, BeginDefine(n)
  PROVE  Inv'
<1>. DEFINE f == Frame("assignment", n)
<1>1. f \in Frames /\ f.node = "assignment" /\ f.dist = n /\ f.seen = FALSE
  BY FrameIsFrame DEF Nodes
<1>. HIDE DEF f
<1>2. Downward(<<f>>) /\ Descend(<<f>>)
  <2>1. Descend(<<f>>)
    BY DEF BeginDefine, f
  <2>2. DOMAIN <<f>> = {1} /\ <<f>>[1] = f /\ <<f>> # <<>>
    OBVIOUS
  <2>. QED
    BY <1>1, <2>1, <2>2 DEF BeginDefine, Downward, Inv, Shape, tables
<1>3. <<f>> \in Seq(Frames)
  BY <1>1
<1>. QED
  BY <1>2, <1>3, Descending

LEMMA BeginAssignmentInv ==
  ASSUME Inv, NEW n \in VarNames, BeginAssignment(n)
  PROVE  Inv'
<1>. DEFINE f == Frame("assignment", n)
<1>1. f \in Frames /\ f.node = "assignment" /\ f.dist = n /\ f.seen = FALSE
  BY FrameIsFrame DEF Nodes
<1>. HIDE DEF f
<1>2. Downward(<<f>>) /\ Descend(<<f>>)
  <2>1. Descend(<<f>>)
    BY DEF BeginAssignment, f
  <2>2. DOMAIN <<f>> = {1} /\ <<f>>[1] = f /\ <<f>> # <<>>
    OBVIOUS
  <2>. QED
    BY <1>1, <2>1, <2>2 DEF BeginAssignment, Downward, Inv, Shape, tables, source
<1>3. <<f>> \in Seq(Frames)
  BY <1>1
<1>. QED
  BY <1>2, <1>3, Descending

LEMMA BeginArithmeticInv ==
  ASSUME Inv, BeginArithmetic
  PROVE  Inv'
<1>. DEFINE f == Frame("arithmetic", tempValueIndex)
            g == Frame("item", tempValueIndex + 1)
<1>0. tempValueIndex \in Nat /\ tempValueIndex + 1 \in Nat /\ tempValueIndex' \in Nat
  BY DEF Inv, Shape, BeginArithmetic, AllocTempValue
<1>1. /\ f \in Frames /\ f.node = "arithmetic" /\ f.seen = FALSE
      /\ g \in Frames /\ g.node = "item" /\ g.seen = FALSE
  BY <1>0, FrameIsFrame DEF Nodes
<1>. HIDE DEF f, g
<1>2. Downward(<<f, g>>) /\ Descend(<<f, g>>)
  <2>1. Descend(<<f, g>>)
    BY DEF BeginArithmetic, f, g
  <2>2. DOMAIN <<f, g>> = {1, 2} /\ <<f, g>>[1] = f /\ <<f, g>>[2] = g /\ <<f, g>> # <<>>
    OBVIOUS
  <2>. QED
    BY <1>0, <1>1, <2>1, <2>2 DEF BeginArithmetic, Downward, Inv, Shape, tables, source
<1>3. <<f, g>> \in Seq(Frames)
  BY <1>1
<1>. QED
  BY <1>2, <1>3, Descending

LEMMA NextItemInv ==
  ASSUME Inv, NextItem
  PROVE  Inv'
<1>. DEFINE f == Frame("item", tempValueIndex)
<1>0. tempValueIndex \in Nat /\ tempValueIndex' \in Nat
  BY DEF Inv, Shape, NextItem, AllocTempValue
<1>1. f \in Frames /\ f.node = "item" /\ f.seen = FALSE
  BY <1>0, FrameIsFrame DEF Nodes
<1>. HIDE DEF f
<1>2. Downward(<<f>>) /\ Descend(<<f>>)
  <2>1. Descend(<<f>>)
    BY DEF NextItem, f
  <2>2. DOMAIN <<f>> = {1} /\ <<f>>[1] = f /\ <<f>> # <<>>
    OBVIOUS
  <2>. QED
    BY <1>0, <1>1, <2>1, <2>2 DEF NextItem, Downward, Inv, Shape, tables, source
<1>3. <<f>> \in Seq(Frames)
  BY <1>1
<1>. QED
  BY <1>2, <1>3, Descending

LEMMA BeginCallInv ==
  ASSUME Inv, NEW m \in MethodNames, BeginCall(m)
  PROVE  Inv'
<1>. DEFINE f == Frame("call", m)
<1>1. f \in Frames /\ f.node = "call" /\ f.dist = m /\ f.seen = FALSE
  BY FrameIsFrame DEF Nodes
<1>. HIDE DEF f
<1>2. Downward(<<f>>) /\ Descend(<<f>>)
  <2>1. Descend(<<f>>)
    BY DEF BeginCall, f
  <2>2. DOMAIN <<f>> = {1} /\ <<f>>[1] = f /\ <<f>> # <<>> /\ Len(<<f>>) = 1
    OBVIOUS
  <2>. QED
    BY <1>1, <2>1, <2>2 DEF BeginCall, Downward, Inv, Shape, source
<1>3. <<f>> \in Seq(Frames)
  BY <1>1
<1>. QED
  BY <1>2, <1>3, Descending

-----------------------------------------------------------------------------
(* Going up, with no frame ended: the tables grow and an operand is handed *)
(* to the item.                                                            *)

LEMMA OperandInv ==
  ASSUME Inv, NEW o, HandUp(o), phase = "body", value.kind = "none", TopIs("item"),
         open' = open, tempValueIndex' \in Nat, o.kind \in {"type", "identity"},
         o.kind = "type" => IsType(o.type),
         o.kind = "identity" => o.name \in known,
         \A n \in DOMAIN varInfo : n \in DOMAIN varInfo' /\ varInfo'[n] = varInfo[n],
         \A n \in DOMAIN varInfo' : IsType(varInfo'[n])
  PROVE  Inv'
<1>. value' = o /\ phase' = "body" /\ params' = params
  BY DEF HandUp, source
<1>1. Tables'
  BY DEF Inv, Tables, HandUp, source
<1>2. Shape'
  BY DEF Inv, Shape, HandUp, source, Kinds, TopIs, Top
<1>3. Results'
  <2>1. lastCalled' = lastCalled /\ (\A i \in DOMAIN open : Innermost(i)' => Innermost(i))
    BY DEF HandUp, Innermost
  <2>. QED
    BY <2>1 DEF Inv, Results
<1>4. Entries'
  <2>1. \A n : Excused(n)' <=> Excused(n)
    BY DEF Excused
  <2>. QED
    BY <2>1 DEF Inv, Entries, HandUp, source
<1>5. ResultOfItsOwnCall' /\ CrashesOnlyOn'
  BY DEF ResultOfItsOwnCall, CrashesOnlyOn, HandUp, NoCode
<1>6. ParamsKeepTypes'
  BY DEF Inv, ParamsKeepTypes, HandUp, source
<1>. QED
  BY <1>1, <1>2, <1>3, <1>4, <1>5, <1>6 DEF Inv

LEMMA FactorInv ==
  ASSUME Inv, NEW o, Factor(o), o.kind \in {"type", "identity"},
         o.kind = "type" => IsType(o.type), o.kind = "identity" => o.name \in known
  PROVE  Inv'
<1>1. /\ value.kind = "none" /\ phase = "body" /\ TopIs("item") /\ HandUp(o) /\ open' = open
      /\ tempValueIndex' \in Nat /\ varInfo' = varInfo
  BY DEF Inv, Shape, Factor, NoValue
<1>2. \A n \in DOMAIN varInfo : IsType(varInfo[n])
  BY DEF Inv, Tables
<1>. QED
  BY <1>1, <1>2, OperandInv

LEMMA AddressInv ==
  ASSUME Inv, Address
  PROVE  Inv'
<1>. DEFINE t == Pointer("P")
            o == OfType(t)
<1>0. IsType(t)
  BY Ranks
<1>1. o.kind = "type" /\ o.type = t
  BY DEF OfType
<1>2. /\ value.kind = "none" /\ phase = "body" /\ TopIs("item") /\ HandUp(o) /\ open' = open
      /\ tempValueIndex' \in Nat /\ varInfo' = Add(varInfo, tempValueIndex, t)
  BY DEF Inv, Shape, Address, NoValue, AllocTempValue
<1>. HIDE DEF t, o
<1>3. /\ DOMAIN Add(varInfo, tempValueIndex, t) = DOMAIN varInfo \cup {tempValueIndex}
      /\ \A n \in DOMAIN varInfo : Add(varInfo, tempValueIndex, t)[n] = varInfo[n]
      /\ tempValueIndex \notin DOMAIN varInfo => Add(varInfo, tempValueIndex, t)[tempValueIndex] = t
  BY <1>0, Added
<1>4. \A n \in DOMAIN varInfo' : IsType(varInfo'[n])
  BY <1>0, <1>2, <1>3 DEF Inv, Tables
<1>. QED
  BY <1>0, <1>1, <1>2, <1>3, <1>4, OperandInv

\* A step that ends the compiler changes nothing else.
LEMMA StopInv ==
  ASSUME Inv, phase = "body", phase' \in {"exit", "crash"},
         UNCHANGED <<tables, tempValueIndex, open, value, code, source>>, CrashesOnlyOn'
  PROVE  Inv'
<1>1. Tables' /\ Shape'
  BY DEF Inv, Tables, Shape, tables, source, TopIs, Top
<1>2. Results'
  BY DEF Inv, Results, Innermost, tables
<1>3. Entries'
  BY DEF Inv, Entries, Excused, tables, source
<1>4. ResultOfItsOwnCall' /\ ParamsKeepTypes'
  BY DEF Inv, ResultOfItsOwnCall, ParamsKeepTypes, tables
<1>. QED
  BY <1>1, <1>2, <1>3, <1>4 DEF Inv

LEMMA DereferenceInv ==
  ASSUME Inv, NEW n \in VarNames, Dereference(n)
  PROVE  Inv'
<1>1. CASE n \in DOMAIN varInfo /\ varInfo[n].isPointer
  <2>. DEFINE t == varInfo[n]
              o == OfType(t)
  <2>1. IsType(t) /\ o.kind = "type" /\ o.type = t
    BY <1>1 DEF Inv, Tables, OfType
  <2>2. /\ value.kind = "none" /\ phase = "body" /\ TopIs("item") /\ HandUp(o) /\ open' = open
        /\ tempValueIndex' \in Nat /\ varInfo' = varInfo
    BY <1>1 DEF Inv, Shape, Dereference, NoValue, AllocTempValue
  <2>3. \A m \in DOMAIN varInfo : IsType(varInfo[m])
    BY DEF Inv, Tables
  <2>. HIDE DEF t, o
  <2>. QED
    BY <2>1, <2>2, <2>3, OperandInv
<1>2. CASE ~ (n \in DOMAIN varInfo /\ varInfo[n].isPointer)
  <2>1. /\ phase = "body" /\ phase' = "exit"
        /\ UNCHANGED <<tables, tempValueIndex, open, value, code, source>>
    BY <1>2 DEF Dereference, tables
  <2>2. CrashesOnlyOn'
    BY <2>1 DEF CrashesOnlyOn
  <2>. QED
    BY <2>1, <2>2, StopInv
<1>. QED
  BY <1>1, <1>2

-----------------------------------------------------------------------------
(* Going up, with the innermost frame ended.                               *)

\* What is left when the frames but the innermost stay.
LEMMA Popped ==
  ASSUME Shape, open # <<>>, open' = Pop
  PROVE  /\ Len(open) \in Nat \ {0} /\ Len(open) \in DOMAIN open /\ Top = open[Len(open)]
         /\ Top \in Frames
         /\ open' \in Seq(Frames) /\ Len(open') = Len(open) - 1
         /\ DOMAIN open = 1 .. Len(open) /\ DOMAIN open' = 1 .. Len(open) - 1
         /\ \A i \in DOMAIN open' : i \in DOMAIN open /\ i # Len(open) /\ open'[i] = open[i]
         /\ \A i \in DOMAIN open : i # Len(open) => i \in DOMAIN open'
         /\ \A i \in DOMAIN open' : i > 1 /\ open'[i].node = "call" => open'[i - 1].node = "item"
<1>1. /\ Len(open) \in Nat \ {0} /\ DOMAIN open = 1 .. Len(open)
      /\ Top \in Frames /\ Top = open[Len(open)]
      /\ Pop \in Seq(Frames) /\ Len(Pop) = Len(open) - 1
      /\ DOMAIN Pop = 1 .. Len(open) - 1
      /\ \A i \in 1 .. Len(open) - 1 : Pop[i] = open[i]
  BY TopAndPop DEF Shape
<1>2. ASSUME NEW i \in DOMAIN open', i > 1, open'[i].node = "call"
      PROVE  open'[i - 1].node = "item"
  <2>1. i \in DOMAIN open /\ i - 1 \in DOMAIN open' /\ open[i].node = "call"
    BY <1>1, <1>2
  <2>. QED
    BY <1>1, <1>2, <2>1 DEF Shape
<1>. QED
  BY <1>1, <1>2

\* An item or a sum is in the table; an assignment that is ended is, too.
LEMMA EndItemsInv ==
  ASSUME Inv, EndItems
  PROVE  Inv'
<1>. DEFINE o == Identity(Top.dist)
<1>1. /\ phase = "body" /\ value.kind = "none" /\ open # <<>> /\ open' = Pop /\ value' = o
      /\ Top.node \in {"item", "arithmetic"} /\ Top.seen
      /\ o.kind = "identity" /\ o.name = Top.dist
  BY DEF EndItems, TopIs, HandUp, NoValue, Identity
<1>. HIDE DEF o
<1>2. /\ Len(open) \in Nat \ {0} /\ Len(open) \in DOMAIN open /\ Top = open[Len(open)]
      /\ open' \in Seq(Frames)
      /\ DOMAIN open = 1 .. Len(open) /\ DOMAIN open' = 1 .. Len(open) - 1
      /\ \A i \in DOMAIN open' : i \in DOMAIN open /\ i # Len(open) /\ open'[i] = open[i]
      /\ \A i \in DOMAIN open : i # Len(open) => i \in DOMAIN open'
      /\ \A i \in DOMAIN open' : i > 1 /\ open'[i].node = "call" => open'[i - 1].node = "item"
  BY <1>1, Popped DEF Inv
<1>3. /\ phase' = phase /\ params' = params /\ known' = known /\ varInfo' = varInfo
      /\ lastCalled' = lastCalled
  BY DEF EndItems, HandUp, source
<1>4. Tables'
  BY DEF Inv, Tables, EndItems, HandUp, source
<1>5. Shape'
  BY <1>1, <1>2, <1>3 DEF Inv, Shape, Kinds, EndItems
<1>6. Results'
  <2>1. ASSUME NEW i \in DOMAIN open', Innermost(i)'  PROVE i \in DOMAIN open /\ Innermost(i) /\ open'[i] = open[i]
    BY <1>1, <1>2, <2>1 DEF Innermost
  <2>. QED
    BY <1>1, <1>3, <2>1 DEF Inv, Results
<1>7. Entries'
  <2>1. \A n : Excused(n) => Excused(n)'
    BY <1>1, <1>2, <1>3 DEF Excused
  <2>2. Top.dist \in DOMAIN varInfo
    BY <1>1, <1>2 DEF Inv, Entries
  <2>. QED
    BY <1>1, <1>2, <1>3, <2>1, <2>2 DEF Inv, Entries
<1>8. ResultOfItsOwnCall' /\ CrashesOnlyOn'
  BY <1>1, <1>3 DEF ResultOfItsOwnCall, CrashesOnlyOn, EndItems, HandUp, NoCode
<1>9. ParamsKeepTypes'
  BY <1>1, <1>3 DEF Inv, ParamsKeepTypes, EndItems, HandUp, source
<1>. QED
  BY <1>4, <1>5, <1>6, <1>7, <1>8, <1>9 DEF Inv

\* The call that ends is the innermost: lastCalled is its method, or no method at all
\* when there was a call among its arguments.
LEMMA EndCallInv ==
  ASSUME Inv, EndCall
  PROVE  Inv'
<1>1. /\ phase = "body" /\ value.kind = "none" /\ open # <<>> /\ Top.node = "call"
  BY DEF EndCall, TopIs, NoValue
<1>2. /\ Len(open) \in Nat \ {0} /\ DOMAIN open = 1 .. Len(open) /\ Top = open[Len(open)]
      /\ Top \in Frames
  BY <1>1, TopAndPop DEF Inv, Shape
<1>3. /\ open' \in Seq(Frames) /\ DOMAIN open' = 1 .. Len(open) - 1 /\ Len(open') = Len(open) - 1
      /\ \A i \in DOMAIN open' : /\ i \in DOMAIN open
                                 /\ open'[i].node = open[i].node /\ open'[i].dist = open[i].dist
                                 /\ open[i].node # "call" => open'[i].seen = open[i].seen
                                 /\ open[i].node = "call" => open'[i].seen
  <2>1. \A i \in 1 .. Len(open) - 1 : open[i] \in Frames
    BY <1>2, ElementOfSeq DEF Inv, Shape
  <2>2. open' = [i \in 1 .. Len(open) - 1 |-> IF open[i].node = "call" THEN Seen(open[i]) ELSE open[i]]
    BY DEF EndCall
  <2>3. open' \in [1 .. Len(open) - 1 -> Frames]
    BY <2>1, <2>2, SeenIsFrame
  <2>4. Len(open) - 1 \in Nat
    BY <1>2
  <2>5. open' \in Seq(Frames) /\ Len(open') = Len(open) - 1
    BY <2>3, <2>4
  <2>6. DOMAIN open' = 1 .. Len(open) - 1
    BY <2>2
  <2>7. ASSUME NEW i \in 1 .. Len(open) - 1
        PROVE  /\ i \in DOMAIN open
               /\ open'[i].node = open[i].node /\ open'[i].dist = open[i].dist
               /\ open[i].node # "call" => open'[i].seen = open[i].seen
               /\ open[i].node = "call" => open'[i].seen
    <3>1. i \in DOMAIN open /\ open[i] \in Frames
      BY <1>2, <2>1
    <3>2. CASE open[i].node = "call"
      BY <2>2, <3>1, <3>2, SeenIsFrame
    <3>3. CASE open[i].node # "call"
      BY <2>2, <3>1, <3>3
    <3>. QED
      BY <3>1, <3>2, <3>3
  <2>. QED
    BY <2>5, <2>6, <2>7
<1>4. \A i \in DOMAIN open' : i > 1 /\ open'[i].node = "call" => open'[i - 1].node = "item"
  <2>1. ASSUME NEW i \in DOMAIN open', i > 1, open'[i].node = "call"  PROVE open'[i - 1].node = "item"
    <3>1. i - 1 \in DOMAIN open' /\ i \in DOMAIN open /\ open[i].node = "call"
      BY <1>2, <1>3, <2>1
    <3>. QED
      BY <1>3, <2>1, <3>1 DEF Inv, Shape
  <2>. QED
    BY <2>1
<1>5. /\ phase' = phase /\ params' = params /\ known' = known /\ varInfo' = varInfo
      /\ lastCalled' = lastCalled
      /\ Len(open) = 1 => value' = NoValue
      /\ Len(open) # 1 => value' = Return(Top.dist, Top.seen)
  BY DEF EndCall, HandUp, source
<1>6. Len(open) # 1 =>
        /\ Len(open) - 1 \in DOMAIN open' /\ open'[Len(open) - 1].node = "item"
        /\ open' # <<>> /\ Len(open') \in DOMAIN open'
  <2>1. ASSUME Len(open) # 1
        PROVE  Len(open) - 1 \in DOMAIN open' /\ Len(open) > 1 /\ Len(open) \in DOMAIN open
    BY <1>2, <1>3, <2>1
  <2>2. Len(open) # 1 => open[Len(open) - 1].node = "item"
    BY <1>1, <1>2, <2>1 DEF Inv, Shape
  <2>. QED
    BY <1>3, <2>1, <2>2
<1>7. /\ Len(open) = 1 => value'.kind = "none"
      /\ Len(open) # 1 => value'.kind = "return" /\ value'.name = Top.dist /\ value'.nested = Top.seen
  BY <1>5 DEF NoValue, Return
<1>8. Tables'
  BY DEF Inv, Tables, EndCall, HandUp, source
<1>9. Shape'
  <2>1. value'.kind = "return" => TopIs("item")'
    BY <1>3, <1>6, <1>7 DEF TopIs, Top
  <2>. QED
    BY <1>1, <1>3, <1>4, <1>5, <1>7, <2>1 DEF Inv, Shape, Kinds, EndCall
<1>10. Results'
  <2>1. Len(open) \in DOMAIN open /\ Innermost(Len(open))
    BY <1>1, <1>2 DEF Innermost
  <2>2. lastCalled \in {None, Top.dist} /\ (~ Top.seen => lastCalled = Top.dist)
    BY <1>1, <1>2, <2>1 DEF Inv, Results
  <2>3. Len(open) = 1 => DOMAIN open' = {}
    BY <1>3
  <2>. QED
    BY <1>3, <1>5, <1>7, <2>2, <2>3 DEF Results
<1>11. Entries'
  <2>1. ASSUME NEW n, Excused(n)  PROVE Excused(n)'
    <3>1. ASSUME NEW i \in DOMAIN open, open[i].node = "assignment", open[i].dist = n
          PROVE  i \in DOMAIN open' /\ open'[i].node = "assignment" /\ open'[i].dist = n
      BY <1>1, <1>2, <1>3, <3>1
    <3>. QED
      BY <1>5, <2>1, <3>1 DEF Excused
  <2>. QED
    BY <1>3, <1>5, <1>7, <2>1 DEF Inv, Entries
<1>12. ResultOfItsOwnCall' /\ CrashesOnlyOn'
  BY <1>1, <1>5 DEF ResultOfItsOwnCall, CrashesOnlyOn, EndCall, HandUp, NoCode
<1>13. ParamsKeepTypes'
  BY <1>1, <1>5 DEF Inv, ParamsKeepTypes, EndCall, HandUp, source
<1>. QED
  BY <1>8, <1>9, <1>10, <1>11, <1>12, <1>13 DEF Inv

LEMMA TakeValueInv ==
  ASSUME Inv, TakeValue
  PROVE  Inv'
<1>1. value.kind # "return" /\ value' = NoValue /\ value'.kind = "none" /\ phase = "body"
  BY DEF Inv, Shape, TakeValue, TopIs, NoValue
<1>2. Tables' /\ Shape'
  BY <1>1 DEF Inv, Tables, Shape, TakeValue, tables, source, Kinds
<1>3. Results'
  BY <1>1 DEF Inv, Results, Innermost, TakeValue, tables
<1>4. Entries'
  BY <1>1 DEF Inv, Entries, Excused, TakeValue, tables, source
<1>5. ResultOfItsOwnCall' /\ CrashesOnlyOn' /\ ParamsKeepTypes'
  BY <1>1 DEF Inv, ResultOfItsOwnCall, CrashesOnlyOn, ParamsKeepTypes, TakeValue, tables, source, NoCode
<1>. QED
  BY <1>2, <1>3, <1>4, <1>5 DEF Inv

-----------------------------------------------------------------------------
(* The codes.                                                              *)

\* The type an operand has.  The name that is looked up for a result is the method's.
LEMMA OperandTyped ==
  ASSUME Inv, value # NoValue, Found(value)
  PROVE  /\ IsType(TypeOf(value))
         /\ value.kind = "return" => value.name \in DOMAIN methodInfo /\ TypeOf(value) = methodInfo[value.name]
<1>1. value.kind = "return" => lastCalled = value.name /\ value.name \in DOMAIN methodInfo
  BY TypesAssumption DEF Inv, Results, Tables, Found
<1>2. value.kind \in {"type", "identity", "return"}
  BY DEF Inv, Shape, Kinds
<1>3. CASE value.kind = "type"
  BY <1>3 DEF Inv, Shape, TypeOf
<1>4. CASE value.kind = "identity"
  BY <1>4 DEF Inv, Tables, TypeOf, Found
<1>5. CASE value.kind = "return"
  BY <1>1, <1>5 DEF Inv, Tables, TypeOf, Found
<1>. QED
  BY <1>2, <1>3, <1>4, <1>5

\* Where no type is found, the program is one of those that CrashesOnlyOn names.
LEMMA CrashInv ==
  ASSUME Inv, phase = "body", ~ Found(value), Crash, UNCHANGED <<tempValueIndex, source>>
  PROVE  Inv'
<1>1. value.kind \in {"identity", "return"}
  BY DEF Inv, Shape, Kinds, Found
<1>2. CASE value.kind = "identity"
  <2>1. Excused(value.name)
    BY <1>2 DEF Inv, Entries, Found
  <2>2. CrashesOnlyOn'
    BY <1>2, <2>1 DEF CrashesOnlyOn, Excused, Crash, source
  <2>. QED
    BY <2>2, StopInv DEF Crash
<1>3. CASE value.kind = "return"
  <2>1. value.nested \/ value.name \notin typed
    BY <1>3 DEF Inv, Results, Tables, Found
  <2>. QED
    BY <1>3, <2>1, StopInv DEF Crash, CrashesOnlyOn, source
<1>. QED
  BY <1>1, <1>2, <1>3

\* What all of them do to the name of the last method: the result is taken, or nothing
\* is called.
LEMMA ResultTaken ==
  ASSUME Inv, lastCalled' = LastCalledAfter(value), value'.kind # "return",
         \A i \in DOMAIN open' : Innermost(i)' =>
           i \in DOMAIN open /\ Innermost(i) /\ open'[i] = open[i]
  PROVE  Results'
<1>1. CASE value.kind = "return"
  <2>1. lastCalled' = None /\ \A i \in DOMAIN open : Innermost(i) => open[i].seen
    BY <1>1 DEF Inv, Results, Innermost, LastCalledAfter
  <2>. QED
    BY <2>1 DEF Results
<1>2. CASE value.kind # "return"
  BY <1>2 DEF Inv, Results, LastCalledAfter
<1>. QED
  BY <1>1, <1>2

\* The innermost frame has seen its operand.
LEMMA TopSeen ==
  ASSUME Shape, open # <<>>, open' = Append(Pop, Seen(Top))
  PROVE  /\ Len(open) \in Nat \ {0} /\ Len(open) \in DOMAIN open /\ Top = open[Len(open)]
         /\ open' \in Seq(Frames) /\ Len(open') = Len(open)
         /\ DOMAIN open = 1 .. Len(open) /\ DOMAIN open' = DOMAIN open
         /\ \A i \in DOMAIN open : i # Len(open) => open'[i] = open[i]
         /\ \A i \in DOMAIN open : open'[i].node = open[i].node /\ open'[i].dist = open[i].dist
         /\ open'[Len(open)].seen
<1>1. /\ Len(open) \in Nat \ {0} /\ DOMAIN open = 1 .. Len(open)
      /\ Top \in Frames /\ Top = open[Len(open)]
      /\ Pop \in Seq(Frames) /\ Len(Pop) = Len(open) - 1
      /\ DOMAIN Pop = 1 .. Len(open) - 1
      /\ \A i \in 1 .. Len(open) - 1 : Pop[i] = open[i]
  BY TopAndPop DEF Shape
<1>2. Seen(Top) \in Frames /\ Seen(Top).node = Top.node /\ Seen(Top).dist = Top.dist /\ Seen(Top).seen
  BY <1>1, SeenIsFrame
<1>. DEFINE f == Seen(Top)  p == Pop
<1>. HIDE DEF f, p
<1>3. /\ open' \in Seq(Frames) /\ Len(open') = Len(p) + 1
      /\ \A i \in 1 .. Len(p) : open'[i] = p[i]
      /\ open'[Len(p) + 1] = f
  <2>1. open' = Append(p, f) /\ p \in Seq(Frames) /\ f \in Frames
    BY <1>1, <1>2 DEF p, f
  <2>. QED
    BY <2>1
<1>4. Len(p) + 1 = Len(open) /\ \A i \in DOMAIN open : i # Len(open) => i \in 1 .. Len(p)
  BY <1>1 DEF p
<1>5. Len(open') = Len(open) /\ DOMAIN open' = DOMAIN open
  BY <1>1, <1>3, <1>4, LenProperties
<1>6. \A i \in DOMAIN open : i # Len(open) => open'[i] = open[i]
  BY <1>1, <1>3, <1>4 DEF p
<1>7. open'[Len(open)] = f
  BY <1>3, <1>4
<1>8. \A i \in DOMAIN open : open'[i].node = open[i].node /\ open'[i].dist = open[i].dist
  BY <1>1, <1>2, <1>6, <1>7 DEF f
<1>9. open'[Len(open)].seen
  BY <1>2, <1>7 DEF f
<1>10. Len(open) \in DOMAIN open
  BY <1>1
<1>. QED
  BY <1>1, <1>3, <1>5, <1>6, <1>8, <1>9, <1>10

LEMMA Mir2Inv ==
  ASSUME Inv, Mir2
  PROVE  Inv'
<1>1. CASE ~ Found(value)
  BY <1>1, CrashInv DEF Mir2
<1>. SUFFICES ASSUME Found(value)  PROVE Inv'
  BY <1>1
<1>. DEFINE t == TypeOf(value)  d == Top.dist
<1>2. /\ IsType(t)
      /\ value.kind = "return" => value.name \in DOMAIN methodInfo /\ t = methodInfo[value.name]
  BY OperandTyped DEF Mir2
<1>3. /\ phase = "body" /\ phase' = "body" /\ open # <<>> /\ methodInfo' = methodInfo
      /\ varInfo' = Add(varInfo, d, t) /\ lastCalled' = LastCalledAfter(value)
      /\ UNCHANGED <<tempValueIndex, known, declared, params, foreign, typed>>
      /\ code' = [mir |-> "mir2", from |-> value, fromType |-> t, distType |-> t]
  BY DEF Mir2, TopIs, source
<1>4. \/ /\ Top.node = "assignment" /\ open' = Pop /\ value' = Identity(d)
      \/ /\ Top.node \in {"item", "arithmetic"} /\ open' = Append(Pop, Seen(Top)) /\ value' = NoValue
  BY DEF Mir2, TopIs
<1>. HIDE DEF t
<1>5. /\ DOMAIN varInfo' = DOMAIN varInfo \cup {d}
      /\ \A n \in DOMAIN varInfo : varInfo'[n] = varInfo[n]
      /\ d \notin DOMAIN varInfo => varInfo'[d] = t
  <2>. HIDE DEF d
  <2>1. IsType(t)
    BY <1>2
  <2>2. /\ DOMAIN Add(varInfo, d, t) = DOMAIN varInfo \cup {d}
        /\ \A n \in DOMAIN varInfo : Add(varInfo, d, t)[n] = varInfo[n]
        /\ d \notin DOMAIN varInfo => Add(varInfo, d, t)[d] = t
    BY <2>1, Added
  <2>. QED
    BY <1>3, <2>2
<1>6. Tables'
  <2>1. \A n \in DOMAIN varInfo' : IsType(varInfo'[n])
    BY <1>2, <1>5 DEF Inv, Tables
  <2>. QED
    BY <1>3, <2>1 DEF Inv, Tables
<1>7. ResultOfItsOwnCall'
  <2>1. code'.from = value /\ code'.fromType = t
    BY <1>3
  <2>. QED
    BY <1>2, <1>3, <2>1 DEF ResultOfItsOwnCall
<1>8. CrashesOnlyOn'
  BY <1>3 DEF CrashesOnlyOn
<1>9. ParamsKeepTypes'
  BY <1>3, <1>5 DEF Inv, ParamsKeepTypes
<1>10. CASE Top.node = "assignment" /\ open' = Pop /\ value' = Identity(d)
  <2>1. /\ Len(open) \in Nat \ {0} /\ Len(open) \in DOMAIN open /\ Top = open[Len(open)]
        /\ open' \in Seq(Frames)
        /\ \A i \in DOMAIN open' : i \in DOMAIN open /\ i # Len(open) /\ open'[i] = open[i]
        /\ \A i \in DOMAIN open : i # Len(open) => i \in DOMAIN open'
        /\ \A i \in DOMAIN open' : i > 1 /\ open'[i].node = "call" => open'[i - 1].node = "item"
    BY <1>3, <1>10, Popped DEF Inv
  <2>2. value'.kind = "identity" /\ value'.name = d
    BY <1>10 DEF Identity
  <2>3. Shape'
    BY <1>3, <2>1, <2>2 DEF Inv, Shape, Kinds
  <2>4. Results'
    <3>1. \A i \in DOMAIN open' : Innermost(i)' => i \in DOMAIN open /\ Innermost(i) /\ open'[i] = open[i]
      BY <1>10, <2>1 DEF Innermost
    <3>. QED
      BY <1>3, <2>2, <3>1, ResultTaken
  <2>5. Entries'
    <3>1. \A n : Excused(n) => Excused(n)' \/ n = d
      BY <1>3, <2>1 DEF Excused
    <3>2. \A n \in known' : n \in DOMAIN varInfo' \/ Excused(n)'
      BY <1>3, <1>5, <3>1 DEF Inv, Entries
    <3>3. \A i \in DOMAIN open' : open'[i].node \in {"item", "arithmetic"} /\ open'[i].seen =>
                                    open'[i].dist \in DOMAIN varInfo'
      BY <1>5, <2>1 DEF Inv, Entries
    <3>. QED
      BY <1>5, <2>2, <3>2, <3>3 DEF Entries
  <2>. QED
    BY <1>6, <1>7, <1>8, <1>9, <2>3, <2>4, <2>5 DEF Inv
<1>11. CASE Top.node \in {"item", "arithmetic"} /\ open' = Append(Pop, Seen(Top)) /\ value' = NoValue
  <2>1. /\ Len(open) \in Nat \ {0} /\ Len(open) \in DOMAIN open /\ Top = open[Len(open)]
        /\ open' \in Seq(Frames)
        /\ DOMAIN open = 1 .. Len(open) /\ DOMAIN open' = DOMAIN open
        /\ \A i \in DOMAIN open : i # Len(open) => open'[i] = open[i]
        /\ \A i \in DOMAIN open : open'[i].node = open[i].node /\ open'[i].dist = open[i].dist
        /\ open'[Len(open)].seen
    BY <1>3, <1>11, TopSeen DEF Inv
  <2>2. value'.kind = "none"
    BY <1>11 DEF NoValue
  <2>3. Shape'
    <3>1. ASSUME NEW i \in DOMAIN open', i > 1, open'[i].node = "call"  PROVE open'[i - 1].node = "item"
      <4>1. i \in DOMAIN open /\ i - 1 \in DOMAIN open /\ open[i].node = "call"
        BY <2>1, <3>1
      <4>. QED
        BY <2>1, <3>1, <4>1 DEF Inv, Shape
    <3>. QED
      BY <1>3, <1>11, <2>1, <2>2, <3>1 DEF Inv, Shape, Kinds
  <2>4. Results'
    <3>1. ASSUME NEW i \in DOMAIN open', Innermost(i)'
          PROVE  i \in DOMAIN open /\ Innermost(i) /\ open'[i] = open[i]
      <4>1. /\ i \in DOMAIN open
            /\ open'[i].node = "call"
            /\ \A j \in DOMAIN open' : j > i => open'[j].node # "call"
        BY <2>1, <3>1 DEF Innermost
      <4>2. open'[i].node = open[i].node
        BY <2>1, <4>1
      <4>3. i # Len(open)
        BY <1>11, <2>1, <4>1, <4>2
      <4>4. open'[i] = open[i]
        BY <2>1, <4>1, <4>3
      <4>5. \A j \in DOMAIN open : j > i => open[j].node # "call"
        BY <2>1, <4>1
      <4>. QED
        BY <4>1, <4>2, <4>4, <4>5 DEF Innermost
    <3>. QED
      BY <1>3, <2>2, <3>1, ResultTaken
  <2>5. Entries'
    <3>1. \A n : Excused(n) => Excused(n)'
      BY <1>3, <2>1 DEF Excused
    <3>2. \A n \in known' : n \in DOMAIN varInfo' \/ Excused(n)'
      BY <1>3, <1>5, <3>1 DEF Inv, Entries
    <3>3. \A i \in DOMAIN open' : open'[i].node \in {"item", "arithmetic"} /\ open'[i].seen =>
                                    open'[i].dist \in DOMAIN varInfo'
      BY <1>5, <2>1 DEF Inv, Entries
    <3>. QED
      BY <2>2, <3>2, <3>3 DEF Entries
  <2>. QED
    BY <1>6, <1>7, <1>8, <1>9, <2>3, <2>4, <2>5 DEF Inv
<1>. QED
  BY <1>4, <1>10, <1>11

LEMMA Mir3Inv ==
  ASSUME Inv, Mir3
  PROVE  Inv'
<1>1. /\ phase = "body" /\ open # <<>> /\ Top.node \in {"item", "arithmetic"} /\ Top.seen
      /\ value # NoValue
  BY DEF Mir3, TopIs
<1>2. Top.dist \in DOMAIN varInfo
  <2>1. Len(open) \in DOMAIN open /\ Top = open[Len(open)]
    BY <1>1, TopAndPop DEF Inv, Shape
  <2>. QED
    BY <1>1, <2>1 DEF Inv, Entries
<1>3. CASE ~ Found(value)
  BY <1>1, <1>3, CrashInv DEF Mir3
<1>4. CASE Found(value)
  <2>. DEFINE t == TypeOf(value)
  <2>1. value.kind = "return" => value.name \in DOMAIN methodInfo /\ t = methodInfo[value.name]
    BY <1>1, <1>4, OperandTyped
  <2>2. /\ phase' = "body" /\ methodInfo' = methodInfo /\ varInfo' = varInfo /\ open' = open
        /\ lastCalled' = LastCalledAfter(value) /\ value' = NoValue
        /\ UNCHANGED <<tempValueIndex, known, declared, params, foreign, typed>>
        /\ code'.from = value /\ code'.fromType = t
    BY <1>1, <1>2, <1>4 DEF Mir3, source
  <2>. HIDE DEF t
  <2>3. value'.kind = "none"
    BY <2>2 DEF NoValue
  <2>4. Tables' /\ Shape'
    BY <1>1, <2>2, <2>3 DEF Inv, Tables, Shape, Kinds
  <2>5. Results'
    <3>1. \A i \in DOMAIN open' : Innermost(i)' => i \in DOMAIN open /\ Innermost(i) /\ open'[i] = open[i]
      BY <2>2 DEF Innermost
    <3>. QED
      BY <2>2, <2>3, <3>1, ResultTaken
  <2>6. Entries'
    BY <2>2, <2>3 DEF Inv, Entries, Excused
  <2>7. ResultOfItsOwnCall' /\ CrashesOnlyOn' /\ ParamsKeepTypes'
    BY <1>1, <2>1, <2>2 DEF Inv, ResultOfItsOwnCall, CrashesOnlyOn, ParamsKeepTypes
  <2>. QED
    BY <2>4, <2>5, <2>6, <2>7 DEF Inv
<1>. QED
  BY <1>3, <1>4

-----------------------------------------------------------------------------
(* The invariant.                                                          *)

LEMMA InitInv == Init => Inv
<1>. SUFFICES ASSUME Init  PROVE Inv
  OBVIOUS
<1>. DOMAIN varInfo = {} /\ DOMAIN methodInfo = {} /\ DOMAIN open = {} /\ value.kind = "none" /\ code.mir = "none"
  BY DEF Init, NoValue, NoCode
<1>1. Tables /\ Results /\ Entries
  BY DEF Init, Tables, Results, Entries
<1>2. Shape
  BY DEF Init, Shape, Kinds
<1>3. ResultOfItsOwnCall /\ CrashesOnlyOn /\ ParamsKeepTypes
  BY DEF Init, ResultOfItsOwnCall, CrashesOnlyOn, ParamsKeepTypes
<1>. QED
  BY <1>1, <1>2, <1>3 DEF Inv

LEMMA NextInv == Inv /\ [Next]_vars => Inv'
<1>. SUFFICES ASSUME Inv, [Next]_vars  PROVE Inv'
  OBVIOUS
<1>1. ASSUME NEW m \in MethodNames, NEW t \in Types \cup {"VOID"}, NEW ps \in ParamLists,
             Prototype(m, t, ps) \/ BeginMethod(m, t, ps)
      PROVE  Inv'
  BY <1>1, PrototypeInv, BeginMethodInv
<1>2. CASE EndMethod
  BY <1>2, EndMethodInv
<1>3. ASSUME NEW n \in VarNames, BeginDefine(n) \/ BeginAssignment(n) \/ Dereference(n)
      PROVE  Inv'
  BY <1>3, BeginDefineInv, BeginAssignmentInv, DereferenceInv
<1>4. CASE BeginArithmetic \/ NextItem
  BY <1>4, BeginArithmeticInv, NextItemInv
<1>5. ASSUME NEW m \in MethodNames, BeginCall(m)  PROVE Inv'
  BY <1>5, BeginCallInv
<1>6. ASSUME NEW t \in Types, Factor(OfType(Direct(t))) \/ Factor(OfType(Pointer(t)))
      PROVE  Inv'
  <2>1. IsType(Direct(t)) /\ IsType(Pointer(t))
    BY Ranks
  <2>2. \A u : OfType(u).kind = "type" /\ OfType(u).type = u
    BY DEF OfType
  <2>3. CASE Factor(OfType(Direct(t)))
    <3>. DEFINE o == OfType(Direct(t))
    <3>1. Factor(o) /\ o.kind = "type" /\ IsType(o.type)
      BY <2>1, <2>2, <2>3
    <3>. HIDE DEF o
    <3>. QED
      BY <3>1, FactorInv
  <2>4. CASE Factor(OfType(Pointer(t)))
    <3>. DEFINE o == OfType(Pointer(t))
    <3>1. Factor(o) /\ o.kind = "type" /\ IsType(o.type)
      BY <2>1, <2>2, <2>4
    <3>. HIDE DEF o
    <3>. QED
      BY <3>1, FactorInv
  <2>. QED
    BY <1>6, <2>3, <2>4
<1>7. ASSUME NEW n \in known, Factor(Identity(n))  PROVE Inv'
  <2>. DEFINE o == Identity(n)
  <2>1. Factor(o) /\ o.kind = "identity" /\ o.name \in known
    BY <1>7 DEF Identity
  <2>. HIDE DEF o
  <2>. QED
    BY <2>1, FactorInv
<1>8. CASE Address \/ EndItems \/ EndCall
  BY <1>8, AddressInv, EndItemsInv, EndCallInv
<1>9. CASE Mir2 \/ Mir3 \/ TakeValue
  BY <1>9, Mir2Inv, Mir3Inv, TakeValueInv
<1>10. CASE UNCHANGED vars
  <2>1. Tables' /\ Shape' /\ Results' /\ Entries'
    BY <1>10 DEF Inv, Tables, Shape, Results, Entries, Innermost, Excused, TopIs, Top, vars, tables, source
  <2>2. ResultOfItsOwnCall' /\ CrashesOnlyOn' /\ ParamsKeepTypes'
    BY <1>10 DEF Inv, ResultOfItsOwnCall, CrashesOnlyOn, ParamsKeepTypes, Excused, vars, tables, source
  <2>. QED
    BY <2>1, <2>2 DEF Inv
<1>. QED
  BY <1>1, <1>2, <1>3, <1>4, <1>5, <1>6, <1>7, <1>8, <1>9, <1>10 DEF Next

\* For every program, every set of names and types, and every depth of nesting: results
\* get the type of their own method (fixMir2Type, fixMir3Type), parameters keep theirs
\* (generateParam, resetVarInfo), and the generator reads a null pointer only for the
\* programs that are named.
THEOREM TypesSafe == Spec => [](ResultOfItsOwnCall /\ CrashesOnlyOn /\ ParamsKeepTypes)
<1>1. Inv => ResultOfItsOwnCall /\ CrashesOnlyOn /\ ParamsKeepTypes
  BY DEF Inv
<1>. QED
  BY <1>1, InitInv, NextInv, PTL DEF Spec

\* In particular the generator reads no null pointer in a program without the forms
\* CrashesOnlyOn names (getVarInfo, getMethodInfo).
THEOREM CrashesSafe == Spec => []CrashesOnlyOn
BY TypesSafe, PTL

\* And a parameter has the type of its declaration in the whole body, unless a prototype
\* since the last method names it too (resetVarInfo, generateParam).
THEOREM ParamsSafe == Spec => []ParamsKeepTypes
BY TypesSafe, PTL

\* What an entry that is added leaves, for the table of variables.
LEMMA AddKeeps ==
  ASSUME NEW n, NEW t, IsType(t), varInfo' = Add(varInfo, n, t)
  PROVE  \A m \in DOMAIN varInfo : m \in DOMAIN varInfo' /\ varInfo'[m] = varInfo[m]
<1>1. /\ DOMAIN Add(varInfo, n, t) = DOMAIN varInfo \cup {n}
      /\ \A m \in DOMAIN varInfo : Add(varInfo, n, t)[m] = varInfo[m]
      /\ n \notin DOMAIN varInfo => Add(varInfo, n, t)[n] = t
  BY Added
<1>. QED
  BY <1>1

\* The steps in a body that add an entry are Address and Mir2; Add keeps the others.
LEMMA EntriesStay ==
  ASSUME Inv, [Next]_vars, phase = "body", phase' # "outer"
  PROVE  \A n \in DOMAIN varInfo : n \in DOMAIN varInfo' /\ varInfo'[n] = varInfo[n]
<1>1. CASE varInfo' = varInfo
  BY <1>1
<1>2. CASE Address
  <2>1. varInfo' = Add(varInfo, tempValueIndex, Pointer("P"))
    BY <1>2 DEF Address
  <2>2. IsType(Pointer("P"))
    BY Ranks
  <2>. QED
    BY <2>1, <2>2, AddKeeps
<1>3. CASE Mir2 /\ varInfo' # varInfo
  <2>1. Found(value) /\ varInfo' = Add(varInfo, Top.dist, TypeOf(value))
    BY <1>3 DEF Mir2, Crash, tables
  <2>2. IsType(TypeOf(value))
    BY <1>3, <2>1, OperandTyped DEF Mir2
  <2>. QED
    BY <2>1, <2>2, AddKeeps
<1>4. CASE \E m \in MethodNames, t \in Types \cup {"VOID"}, ps \in ParamLists :
             Prototype(m, t, ps) \/ BeginMethod(m, t, ps)
  BY <1>4 DEF Prototype, BeginMethod
<1>5. CASE EndMethod
  BY <1>5 DEF EndMethod
<1>6. CASE \E n \in VarNames : BeginDefine(n) \/ BeginAssignment(n) \/ Dereference(n)
  BY <1>1, <1>6 DEF BeginDefine, BeginAssignment, Dereference, tables
<1>7. CASE BeginArithmetic \/ NextItem \/ \E m \in MethodNames : BeginCall(m)
  BY <1>1, <1>7 DEF BeginArithmetic, NextItem, BeginCall, tables
<1>8. CASE \E o : Factor(o)
  BY <1>1, <1>8 DEF Factor
<1>9. CASE EndItems \/ EndCall \/ Mir3 \/ TakeValue \/ UNCHANGED vars
  BY <1>1, <1>9 DEF EndItems, EndCall, Mir3, Crash, TakeValue, tables, vars
<1>. QED
  BY <1>1, <1>2, <1>3, <1>4, <1>5, <1>6, <1>7, <1>8, <1>9 DEF Next

\* For every program: codes that name the same variable of a method all find the type its
\* first assignment gave it (getVarInfo, addVarInfo).
THEOREM TypesStaySafe == Spec => TypesStay
<1>1. Inv /\ [Next]_vars =>
        [phase = "body" /\ phase' # "outer" =>
           \A n \in DOMAIN varInfo : n \in DOMAIN varInfo' /\ varInfo'[n] = varInfo[n]]_vars
  BY EntriesStay
<1>. QED
  BY <1>1, InitInv, NextInv, PTL DEF Spec, TypesStay

-----------------------------------------------------------------------------
(* The type invariant: an entry's name is a variable or a temporary that   *)
(* was handed out, and so is what an unfinished call assigns.              *)

Numbered(n) == n \in VarNames \/ n \in 0 .. tempValueIndex - 1

Homes == \A i \in DOMAIN open :
  /\ open[i].node = "assignment" => open[i].dist \in VarNames
  /\ open[i].node \in {"item", "arithmetic"} => open[i].dist \in 0 .. tempValueIndex - 1

Kept ==
  /\ phase \in {"outer", "body", "exit", "crash"}
  /\ \A n \in DOMAIN varInfo : Numbered(n) /\ varInfo[n] \in TypeSet
  /\ \A m \in DOMAIN methodInfo : m \in declared /\ methodInfo[m] \in TypeSet
  /\ lastCalled \in declared \cup {None}
  /\ value.kind = "type" => value.type \in TypeSet
  /\ Homes

LEMMA Widen ==
  ASSUME NEW a \in Nat, NEW b \in Nat, a <= b
  PROVE  0 .. a - 1 \subseteq 0 .. b - 1
OBVIOUS

LEMMA TypesInSet ==
  /\ \A t \in Types : Direct(t) \in TypeSet /\ Pointer(t) \in TypeSet
  /\ Pointer("P") \in TypeSet
BY DEF Direct, Pointer, TypeSet

\* Methods.
LEMMA DeclaredKept ==
  ASSUME Kept, NEW m \in MethodNames, NEW t \in Types \cup {"VOID"}, DeclareMethod(m, t)
  PROVE  /\ \A n \in DOMAIN methodInfo' : n \in declared' /\ methodInfo'[n] \in TypeSet
         /\ declared \subseteq declared'
<1>1. declared' = declared \cup {m} /\ methodInfo' = Add(methodInfo, m, Direct(t))
  BY DEF DeclareMethod
<1>2. CASE t = "VOID"
  <2>1. methodInfo' = methodInfo
    BY <1>1, <1>2, Ranks DEF Add, Direct
  <2>. QED
    BY <1>1, <2>1 DEF Kept
<1>3. CASE t \in Types
  <2>. DEFINE d == Direct(t)
  <2>1. IsType(d) /\ d \in TypeSet /\ methodInfo' = Add(methodInfo, m, d)
    BY <1>1, <1>3, Ranks, TypesInSet
  <2>. HIDE DEF d
  <2>2. /\ DOMAIN Add(methodInfo, m, d) = DOMAIN methodInfo \cup {m}
        /\ \A n \in DOMAIN methodInfo : Add(methodInfo, m, d)[n] = methodInfo[n]
        /\ m \notin DOMAIN methodInfo => Add(methodInfo, m, d)[m] = d
    BY <2>1, Added
  <2>. QED
    BY <1>1, <2>1, <2>2 DEF Kept
<1>. QED
  BY <1>2, <1>3

LEMMA ParamsKept ==
  ASSUME Inv, Kept, NEW ps \in ParamLists, varInfo' = AddParams(varInfo, ps),
         UNCHANGED tempValueIndex
  PROVE  \A n \in DOMAIN varInfo' : Numbered(n)' /\ varInfo'[n] \in TypeSet
<1>1. /\ DOMAIN varInfo' = DOMAIN varInfo \cup {p \in DOMAIN ps : ps[p] # "VOID"}
      /\ \A n \in DOMAIN varInfo : varInfo'[n] = varInfo[n]
      /\ \A p \in DOMAIN ps : p \notin DOMAIN varInfo /\ ps[p] # "VOID" =>
           varInfo'[p] = Direct(ps[p])
  BY VarsTyped DEF Inv
<1>2. \A p \in DOMAIN ps : p \in VarNames /\ ps[p] \in Types \cup {"VOID"}
  BY DEF ParamLists
<1>3. \A p \in DOMAIN ps : ps[p] # "VOID" => Direct(ps[p]) \in TypeSet
  BY <1>2, TypesInSet
<1>. QED
  BY <1>1, <1>2, <1>3 DEF Kept, Numbered

LEMMA MethodKept ==
  ASSUME Inv, Kept, NEW m \in MethodNames, NEW t \in Types \cup {"VOID"}, NEW ps \in ParamLists,
         Prototype(m, t, ps) \/ BeginMethod(m, t, ps)
  PROVE  Kept'
<1>1. /\ varInfo' = AddParams(varInfo, ps) /\ DeclareMethod(m, t)
      /\ UNCHANGED <<tempValueIndex, lastCalled, open, value>>
      /\ phase' \in {"outer", "body"}
  BY DEF Prototype, BeginMethod
<1>2. \A n \in DOMAIN varInfo' : Numbered(n)' /\ varInfo'[n] \in TypeSet
  BY <1>1, ParamsKept
<1>3. /\ \A n \in DOMAIN methodInfo' : n \in declared' /\ methodInfo'[n] \in TypeSet
      /\ declared \subseteq declared'
  BY <1>1, DeclaredKept
<1>. QED
  BY <1>1, <1>2, <1>3 DEF Kept, Homes

\* Down the tree: the frames added have homes, too.
LEMMA DescendKept ==
  ASSUME Inv, Kept, NEW nodes \in Seq(Frames), Descend(nodes),
         UNCHANGED <<varInfo, methodInfo, declared>>, lastCalled' \in declared \cup {None},
         tempValueIndex' \in Nat, tempValueIndex <= tempValueIndex',
         \A k \in DOMAIN nodes :
           /\ nodes[k].node = "assignment" => nodes[k].dist \in VarNames
           /\ nodes[k].node \in {"item", "arithmetic"} => nodes[k].dist \in 0 .. tempValueIndex' - 1
  PROVE  Kept'
<1>1. open' = open \o nodes /\ UNCHANGED <<phase, value>> /\ open \in Seq(Frames)
      /\ tempValueIndex \in Nat
  BY DEF Descend, Inv, Shape
<1>2. \A j \in DOMAIN open' : \/ j \in DOMAIN open /\ open'[j] = open[j]
                             \/ \E k \in DOMAIN nodes : open'[j] = nodes[k]
  <2>1. /\ \A i \in DOMAIN open : open'[i] = open[i]
        /\ \A j \in DOMAIN open' : j \notin DOMAIN open =>
              j - Len(open) \in DOMAIN nodes /\ open'[j] = nodes[j - Len(open)]
    BY <1>1, Concatenated
  <2>. QED
    BY <2>1
<1>3. 0 .. tempValueIndex - 1 \subseteq 0 .. tempValueIndex' - 1
  BY <1>1, Widen
<1>4. Homes'
  BY <1>2, <1>3 DEF Kept, Homes
<1>. QED
  BY <1>1, <1>3, <1>4 DEF Kept, Numbered

LEMMA DownKept ==
  ASSUME Inv, Kept,
         \/ \E n \in VarNames : BeginDefine(n) \/ BeginAssignment(n)
         \/ BeginArithmetic \/ NextItem
         \/ \E m \in MethodNames : BeginCall(m)
  PROVE  Kept'
<1>0. tempValueIndex \in Nat /\ tempValueIndex + 1 \in Nat /\ lastCalled \in declared \cup {None}
  BY DEF Inv, Shape, Kept
<1>1. ASSUME NEW n \in VarNames, BeginDefine(n) \/ BeginAssignment(n)  PROVE Kept'
  <2>. DEFINE f == Frame("assignment", n)
  <2>1. f \in Frames /\ f.node = "assignment" /\ f.dist = n
    BY FrameIsFrame DEF Nodes
  <2>2. /\ Descend(<<f>>) /\ UNCHANGED <<varInfo, methodInfo, declared, lastCalled, tempValueIndex>>
    BY <1>1 DEF BeginDefine, BeginAssignment, tables, source
  <2>. HIDE DEF f
  <2>3. <<f>> \in Seq(Frames) /\ DOMAIN <<f>> = {1} /\ <<f>>[1] = f
    BY <2>1
  <2>. QED
    <3>1. tempValueIndex' \in Nat /\ tempValueIndex <= tempValueIndex'
      BY <1>0, <2>2
    <3>. QED
      BY <1>0, <2>1, <2>2, <2>3, <3>1, DescendKept
<1>2. CASE BeginArithmetic
  <2>. DEFINE f == Frame("arithmetic", tempValueIndex)  g == Frame("item", tempValueIndex + 1)
  <2>1. /\ f \in Frames /\ f.node = "arithmetic" /\ f.dist = tempValueIndex
        /\ g \in Frames /\ g.node = "item" /\ g.dist = tempValueIndex + 1
    BY <1>0, FrameIsFrame DEF Nodes
  <2>2. /\ Descend(<<f, g>>) /\ UNCHANGED <<varInfo, methodInfo, declared, lastCalled>>
        /\ tempValueIndex' = tempValueIndex + 2
    BY <1>2 DEF BeginArithmetic, AllocTempValue, tables, source
  <2>. HIDE DEF f, g
  <2>3. <<f, g>> \in Seq(Frames) /\ DOMAIN <<f, g>> = {1, 2} /\ <<f, g>>[1] = f /\ <<f, g>>[2] = g
    BY <2>1
  <2>4. /\ tempValueIndex' \in Nat /\ tempValueIndex <= tempValueIndex'
        /\ tempValueIndex \in 0 .. tempValueIndex' - 1 /\ tempValueIndex + 1 \in 0 .. tempValueIndex' - 1
    BY <1>0, <2>2
  <2>. QED
    BY <1>0, <2>1, <2>2, <2>3, <2>4, DescendKept
<1>3. CASE NextItem
  <2>. DEFINE f == Frame("item", tempValueIndex)
  <2>1. f \in Frames /\ f.node = "item" /\ f.dist = tempValueIndex
    BY <1>0, FrameIsFrame DEF Nodes
  <2>2. /\ Descend(<<f>>) /\ UNCHANGED <<varInfo, methodInfo, declared, lastCalled>>
        /\ tempValueIndex' = tempValueIndex + 1
    BY <1>3 DEF NextItem, AllocTempValue, tables, source
  <2>. HIDE DEF f
  <2>3. <<f>> \in Seq(Frames) /\ DOMAIN <<f>> = {1} /\ <<f>>[1] = f
    BY <2>1
  <2>4. /\ tempValueIndex' \in Nat /\ tempValueIndex <= tempValueIndex'
        /\ tempValueIndex \in 0 .. tempValueIndex' - 1
    BY <1>0, <2>2
  <2>. QED
    BY <1>0, <2>1, <2>2, <2>3, <2>4, DescendKept
<1>4. ASSUME NEW m \in MethodNames, BeginCall(m)  PROVE Kept'
  <2>. DEFINE f == Frame("call", m)
  <2>1. f \in Frames /\ f.node = "call"
    BY FrameIsFrame DEF Nodes
  <2>2. /\ Descend(<<f>>) /\ UNCHANGED <<varInfo, methodInfo, declared, tempValueIndex>>
        /\ lastCalled' = m /\ m \in declared
    BY <1>4 DEF BeginCall, source
  <2>. HIDE DEF f
  <2>3. <<f>> \in Seq(Frames) /\ DOMAIN <<f>> = {1} /\ <<f>>[1] = f
    BY <2>1
  <2>. QED
    <3>1. tempValueIndex' \in Nat /\ tempValueIndex <= tempValueIndex'
      BY <1>0, <2>2
    <3>. QED
      BY <1>0, <2>1, <2>2, <2>3, <3>1, DescendKept
<1>. QED
  BY <1>1, <1>2, <1>3, <1>4

\* Up the tree.
LEMMA EntryKept ==
  ASSUME Inv, Kept, NEW n, NEW t \in TypeSet, IsType(t), varInfo' = Add(varInfo, n, t),
         tempValueIndex' \in Nat, tempValueIndex <= tempValueIndex', Numbered(n)'
  PROVE  \A m \in DOMAIN varInfo' : Numbered(m)' /\ varInfo'[m] \in TypeSet
<1>1. /\ DOMAIN Add(varInfo, n, t) = DOMAIN varInfo \cup {n}
      /\ \A m \in DOMAIN varInfo : Add(varInfo, n, t)[m] = varInfo[m]
      /\ n \notin DOMAIN varInfo => Add(varInfo, n, t)[n] = t
  BY Added
<1>2. 0 .. tempValueIndex - 1 \subseteq 0 .. tempValueIndex' - 1
  BY Widen DEF Inv, Shape
<1>. QED
  BY <1>1, <1>2 DEF Kept, Numbered

\* A value that has an entry has a type.
LEMMA ValueKept ==
  ASSUME Inv, Kept, value # NoValue, Found(value)
  PROVE  TypeOf(value) \in TypeSet
<1>1. value.kind \in {"type", "identity", "return"}
  BY DEF Inv, Shape, Kinds
<1>. QED
  BY <1>1 DEF Kept, TypeOf, Found

\* A step that closes nodes and leaves the tables as they are.
LEMMA StepKept ==
  ASSUME Inv, Kept, UNCHANGED <<varInfo, methodInfo, declared>>, phase' \in {"body", "exit", "crash"},
         lastCalled' \in declared \cup {None}, value'.kind = "type" => value'.type \in TypeSet,
         tempValueIndex' \in Nat, tempValueIndex <= tempValueIndex',
         \A i \in DOMAIN open' : /\ i \in DOMAIN open /\ open'[i].node = open[i].node
                                /\ open'[i].dist = open[i].dist
  PROVE  Kept'
<1>1. 0 .. tempValueIndex - 1 \subseteq 0 .. tempValueIndex' - 1
  BY Widen DEF Inv, Shape
<1>2. Homes'
  BY <1>1 DEF Kept, Homes
<1>. QED
  BY <1>1, <1>2 DEF Kept, Numbered

LEMMA FactorKept ==
  ASSUME Inv, Kept, NEW o, Factor(o), o.kind = "type" => o.type \in TypeSet
  PROVE  Kept'
<1>1. /\ UNCHANGED <<varInfo, methodInfo, declared, phase, lastCalled, tempValueIndex, open>>
      /\ value' = o /\ phase = "body" /\ tempValueIndex \in Nat /\ lastCalled \in declared \cup {None}
  BY DEF Factor, HandUp, source, Inv, Shape, Kept
<1>. QED
  BY <1>1, StepKept

LEMMA AddressKept ==
  ASSUME Inv, Kept, Address
  PROVE  Kept'
<1>. DEFINE t == Pointer("P")  o == OfType(t)
<1>1. t \in TypeSet /\ IsType(t) /\ o.kind = "type" /\ o.type = t
  BY Ranks, TypesInSet DEF OfType
<1>2. /\ UNCHANGED <<methodInfo, declared, phase, lastCalled, open>> /\ value' = o
      /\ varInfo' = Add(varInfo, tempValueIndex, t) /\ tempValueIndex' = tempValueIndex + 1
      /\ phase = "body" /\ tempValueIndex \in Nat
  BY DEF Address, HandUp, AllocTempValue, source, Inv, Shape
<1>. HIDE DEF t, o
<1>0. PICK k \in Nat : k = tempValueIndex
  BY <1>2
<1>3. tempValueIndex' \in Nat /\ tempValueIndex <= tempValueIndex' /\ Numbered(k)'
  <2>1. k \in 0 .. tempValueIndex' - 1
    BY <1>0, <1>2
  <2>. QED
    BY <1>2, <2>1 DEF Numbered
<1>4. \A m \in DOMAIN varInfo' : Numbered(m)' /\ varInfo'[m] \in TypeSet
  <2>1. varInfo' = Add(varInfo, k, t)
    BY <1>0, <1>2
  <2>. QED
    BY <1>1, <1>3, <2>1, EntryKept
<1>5. Homes'
  <2>1. 0 .. tempValueIndex - 1 \subseteq 0 .. tempValueIndex' - 1
    BY <1>2, <1>3, Widen
  <2>. QED
    BY <1>2, <2>1 DEF Kept, Homes
<1>. QED
  BY <1>1, <1>2, <1>4, <1>5 DEF Kept

LEMMA DereferenceKept ==
  ASSUME Inv, Kept, NEW n \in VarNames, Dereference(n)
  PROVE  Kept'
<1>1. /\ UNCHANGED <<varInfo, methodInfo, declared, lastCalled, open>>
      /\ tempValueIndex \in Nat /\ phase = "body"
      /\ lastCalled \in declared \cup {None}
  BY DEF Dereference, HandUp, source, Inv, Shape, Kept
<1>2. CASE n \in DOMAIN varInfo /\ varInfo[n].isPointer
  <2>. DEFINE t == varInfo[n]  o == OfType(t)
  <2>1. t \in TypeSet /\ o.kind = "type" /\ o.type = t
    BY <1>2 DEF OfType, Kept
  <2>2. value' = o /\ phase' = phase /\ tempValueIndex' = tempValueIndex + 1
    BY <1>2 DEF Dereference, HandUp, AllocTempValue
  <2>. HIDE DEF t, o
  <2>3. tempValueIndex' \in Nat /\ tempValueIndex <= tempValueIndex'
    BY <1>1, <2>2
  <2>. QED
    BY <1>1, <2>1, <2>2, <2>3, StepKept
<1>3. CASE ~ (n \in DOMAIN varInfo /\ varInfo[n].isPointer)
  <2>1. phase' = "exit" /\ UNCHANGED <<value, tempValueIndex>>
    BY <1>3 DEF Dereference
  <2>2. value.kind = "type" => value.type \in TypeSet
    BY DEF Kept
  <2>. QED
    BY <1>1, <2>1, <2>2, StepKept
<1>. QED
  BY <1>2, <1>3

LEMMA EndKept ==
  ASSUME Inv, Kept, EndItems \/ EndCall \/ TakeValue
  PROVE  Kept'
<1>1. /\ UNCHANGED <<varInfo, methodInfo, declared, lastCalled, tempValueIndex, phase>>
      /\ tempValueIndex \in Nat /\ phase = "body" /\ open \in Seq(Frames)
      /\ lastCalled \in declared \cup {None}
  BY DEF EndItems, EndCall, TakeValue, HandUp, source, tables, Inv, Shape, Kept
<1>2. value'.kind # "type"
  <2>1. NoValue.kind # "type" /\ Identity(Top.dist).kind # "type" /\ Return(Top.dist, Top.seen).kind # "type"
    BY DEF NoValue, Identity, Return
  <2>. QED
    BY <2>1 DEF EndItems, EndCall, TakeValue, HandUp
<1>3. \A i \in DOMAIN open' : /\ i \in DOMAIN open /\ open'[i].node = open[i].node
                             /\ open'[i].dist = open[i].dist
  <2>1. CASE EndItems
    <3>1. Shape /\ open # <<>> /\ open' = Pop
      BY <2>1 DEF EndItems, TopIs, Inv
    <3>. QED
      BY <3>1, Popped
  <2>2. CASE EndCall
    <3>1. /\ open # <<>>
          /\ open' = [i \in 1 .. Len(open) - 1 |->
                        IF open[i].node = "call" THEN Seen(open[i]) ELSE open[i]]
      BY <2>2 DEF EndCall, TopIs
    <3>2. \A i \in 1 .. Len(open) - 1 : i \in DOMAIN open /\ open[i] \in Frames
      BY <1>1, <3>1, TopAndPop, ElementOfSeq
    <3>3. \A i \in 1 .. Len(open) - 1 :
            Seen(open[i]).node = open[i].node /\ Seen(open[i]).dist = open[i].dist
      BY <3>2, SeenIsFrame
    <3>. QED
      BY <3>1, <3>2, <3>3
  <2>3. CASE TakeValue
    BY <2>3 DEF TakeValue
  <2>. QED
    BY <2>1, <2>2, <2>3
<1>. QED
  BY <1>1, <1>2, <1>3, StepKept

LEMMA Mir2Kept ==
  ASSUME Inv, Kept, Mir2
  PROVE  Kept'
<1>1. /\ UNCHANGED <<methodInfo, declared, tempValueIndex>> /\ tempValueIndex \in Nat
      /\ phase = "body" /\ value # NoValue /\ open # <<>> /\ Shape
      /\ lastCalled \in declared \cup {None}
  BY DEF Mir2, Crash, TopIs, source, tables, Inv, Shape, Kept
<1>2. CASE ~ Found(value)
  <2>1. phase' = "crash" /\ UNCHANGED <<varInfo, lastCalled, open, value>>
    BY <1>2 DEF Mir2, Crash, tables
  <2>2. value.kind = "type" => value.type \in TypeSet
    BY DEF Kept
  <2>. QED
    BY <1>1, <2>1, <2>2, StepKept
<1>3. CASE Found(value)
  <2>. DEFINE t == TypeOf(value)  d == Top.dist
  <2>1. t \in TypeSet /\ IsType(t)
    BY <1>1, <1>3, ValueKept, OperandTyped
  <2>2. /\ varInfo' = Add(varInfo, d, t) /\ phase' = phase
        /\ lastCalled' \in declared \cup {None}
    BY <1>1, <1>3 DEF Mir2, LastCalledAfter
  <2>3. \/ Top.node = "assignment" /\ open' = Pop /\ value' = Identity(d)
        \/ /\ Top.node \in {"item", "arithmetic"}
           /\ open' = Append(Pop, Seen(Top)) /\ value' = NoValue
    BY <1>3 DEF Mir2, TopIs
  <2>4. Top.node \in {"assignment", "item", "arithmetic"} /\ value'.kind # "type"
    BY <2>3 DEF Identity, NoValue
  <2>5. \A i \in DOMAIN open' : /\ i \in DOMAIN open /\ open'[i].node = open[i].node
                               /\ open'[i].dist = open[i].dist
    BY <1>1, <2>3, Popped, TopSeen
  <2>6. Len(open) \in DOMAIN open /\ Top = open[Len(open)]
    BY <1>1, TopAndPop DEF Shape
  <2>7. Numbered(d)
    BY <2>4, <2>6 DEF Kept, Homes, Numbered
  <2>. HIDE DEF t, d
  <2>8. \A m \in DOMAIN varInfo' : Numbered(m)' /\ varInfo'[m] \in TypeSet
    <3>1. /\ DOMAIN Add(varInfo, d, t) = DOMAIN varInfo \cup {d}
          /\ \A m \in DOMAIN varInfo : Add(varInfo, d, t)[m] = varInfo[m]
          /\ d \notin DOMAIN varInfo => Add(varInfo, d, t)[d] = t
      BY <2>1, Added
    <3>. QED
      BY <1>1, <2>1, <2>2, <2>7, <3>1 DEF Kept, Numbered
  <2>9. Homes'
    BY <1>1, <2>5 DEF Kept, Homes
  <2>. QED
    BY <1>1, <2>2, <2>4, <2>8, <2>9 DEF Kept
<1>. QED
  BY <1>2, <1>3

LEMMA Mir3Kept ==
  ASSUME Inv, Kept, Mir3
  PROVE  Kept'
<1>1. /\ UNCHANGED <<varInfo, methodInfo, declared, tempValueIndex, open>> /\ tempValueIndex \in Nat
      /\ phase = "body" /\ phase' \in {"body", "crash"} /\ lastCalled' \in declared \cup {None}
  BY DEF Mir3, Crash, LastCalledAfter, source, tables, Inv, Shape, Kept
<1>2. value'.kind = "type" => value'.type \in TypeSet
  <2>1. value' \in {value, NoValue}
    BY DEF Mir3, Crash
  <2>2. NoValue.kind # "type"
    BY DEF NoValue
  <2>. QED
    BY <2>1, <2>2 DEF Kept
<1>. QED
  BY <1>1, <1>2, StepKept

LEMMA KeptNext ==
  ASSUME Inv, Kept, [Next]_vars
  PROVE  Kept'
<1>1. CASE EndMethod
  <2>1. /\ DOMAIN varInfo' = {} /\ phase' = "outer"
        /\ UNCHANGED <<methodInfo, declared, lastCalled, open, value>> /\ open = <<>>
    BY <1>1 DEF EndMethod
  <2>. QED
    BY <2>1 DEF Kept, Homes
<1>2. ASSUME NEW t \in Types, Factor(OfType(Direct(t))) \/ Factor(OfType(Pointer(t)))
      PROVE  Kept'
  <2>1. Direct(t) \in TypeSet /\ Pointer(t) \in TypeSet
    BY TypesInSet
  <2>2. \A u : OfType(u).kind = "type" /\ OfType(u).type = u
    BY DEF OfType
  <2>3. PICK u \in TypeSet : Factor(OfType(u))
    BY <1>2, <2>1
  <2>. DEFINE o == OfType(u)
  <2>4. Factor(o) /\ (o.kind = "type" => o.type \in TypeSet)
    BY <2>2, <2>3
  <2>. HIDE DEF o
  <2>. QED
    BY <2>4, FactorKept
<1>3. ASSUME NEW n \in known, Factor(Identity(n))  PROVE Kept'
  <2>. DEFINE o == Identity(n)
  <2>1. Factor(o) /\ o.kind # "type"
    BY <1>3 DEF Identity
  <2>. HIDE DEF o
  <2>. QED
    BY <2>1, FactorKept
<1>4. CASE UNCHANGED vars
  BY <1>4 DEF vars, tables, source, Kept, Homes, Numbered
<1>. QED
  BY <1>1, <1>2, <1>3, <1>4, MethodKept, DownKept, DereferenceKept, AddressKept, EndKept,
     Mir2Kept, Mir3Kept DEF Next

\* For every program: the tables hold variables the program has and temporaries that were
\* handed out (allocTempValue), no void, and no method that was not declared; and an item
\* or a sum that has an operand has a type (addVarInfo, addMethodInfo).
THEOREM TypeCorrect == Spec => []TypeOK
<1>1. Init => Kept
  BY DEF Init, Kept, Homes, NoValue
<1>2. Inv /\ Kept /\ [Next]_vars => Kept'
  BY KeptNext
<1>3. Inv /\ Kept => TypeOK
  BY DEF Inv, Entries, Kept, Numbered, TypeOK
<1>. QED
  BY <1>1, <1>2, <1>3, InitInv, NextInv, PTL DEF Spec

=============================================================================

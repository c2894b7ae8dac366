---------------------------- MODULE MspaceProofs ----------------------------
(***************************************************************************)
(* However many blocks there are and however the allocator reuses their    *)
(* addresses, the compiler walks no freed node, frees no address twice,    *)
(* releases nothing it still reads, and its lists are spaces.              *)
(*                                                                         *)
(* The argument: a space that is going to be released as a whole lists     *)
(* exactly its blocks, each once, and none of its nodes is freed (Memory). *)
(* It stays so although pccFree cannot unlink the first node, because that *)
(* node is one its readers keep and never return (Uses).  The blocks that  *)
(* are returned past their space are those of spaces that are never        *)
(* released.                                                               *)
(***************************************************************************)
EXTENDS Mspace, TLAPS

Phases == {"preprocess", "lex", "parse", "mir", "target"}
NodeType == [addr : Addr, freed : BOOLEAN]

\* The spaces main releases as a whole.
Whole == {"preprocessor", "lexer", "syntaxer"}

Memory ==
  /\ nodes \in [Tags -> Seq(NodeType)]
  /\ owner \in [Addr -> Tags \cup {None}]
  /\ defined
  /\ \A t \in Tags \ Released : \A i \in DOMAIN nodes[t] : ~ nodes[t][i].freed
  /\ \A a \in Addr : Allocated(a) => a \in Addresses(nodes[owner[a]])
  /\ \A a \in Addr : owner[a] \notin Released
  /\ \A t \in Whole \ Released :
       Distinct(nodes[t]) /\ \A a \in Addresses(nodes[t]) : owner[a] = t

Uses ==
  /\ phase \in Phases
  /\ kept \in [Tags -> SUBSET Addr] /\ temp \subseteq Addr /\ raw \subseteq Addr
  /\ \A t \in Tags \ Released : \A a \in kept[t] : owner[a] = t
  /\ \A t \in {"syntaxer", "mir"} \ Released :
       nodes[t] # <<>> => nodes[t][1].addr \in kept[t]
  /\ phase = "parse" => \A a \in temp : owner[a] = "syntaxer" /\ a \notin kept["syntaxer"]
  /\ phase = "mir" => \A a \in temp : owner[a] = "mir" /\ a \notin kept["mir"]
  /\ phase \notin {"parse", "mir"} => temp = {}
  /\ \A a \in raw : /\ owner[a] \in {"mir", "arm64_bin"}
                    /\ a \notin kept[owner[a]] /\ a \notin temp

Inv == Memory /\ Uses

-----------------------------------------------------------------------------
(* Lists.                                                                  *)

LEMMA AppendAll ==
  ASSUME NEW S, NEW s \in Seq(S), NEW e \in S
  PROVE  /\ Append(s, e) \in Seq(S) /\ Len(s) \in Nat
         /\ DOMAIN Append(s, e) = 1 .. Len(s) + 1 /\ DOMAIN s = 1 .. Len(s)
         /\ Append(s, e)[Len(s) + 1] = e
         /\ \A i \in DOMAIN s : Append(s, e)[i] = s[i]
OBVIOUS

LEMMA Element ==
  ASSUME NEW S, NEW s \in Seq(S)
  PROVE  \A i \in DOMAIN s : s[i] \in S /\ i \in Nat
OBVIOUS

LEMMA AddressesIn ==
  ASSUME NEW s \in Seq(NodeType)
  PROVE  Addresses(s) \subseteq Addr
<1>1. \A i \in DOMAIN s : s[i] \in NodeType
  BY Element
<1>2. \A i \in DOMAIN s : s[i].addr \in Addr
  BY <1>1 DEF NodeType
<1> QED BY <1>2 DEF Addresses

LEMMA AppendAddresses ==
  ASSUME NEW s \in Seq(NodeType), NEW e \in NodeType
  PROVE  Addresses(Append(s, e)) = Addresses(s) \cup {e.addr}
<1>1. /\ Len(s) \in Nat /\ DOMAIN Append(s, e) = 1 .. Len(s) + 1 /\ DOMAIN s = 1 .. Len(s)
      /\ Append(s, e)[Len(s) + 1] = e
      /\ \A i \in DOMAIN s : Append(s, e)[i] = s[i]
  BY AppendAll
<1>2. ASSUME NEW b \in Addresses(Append(s, e))
      PROVE  b \in Addresses(s) \cup {e.addr}
  <2>1. PICK i \in DOMAIN Append(s, e) : b = Append(s, e)[i].addr
    BY DEF Addresses
  <2>2. CASE i \in DOMAIN s
    BY <1>1, <2>1, <2>2 DEF Addresses
  <2>3. CASE i = Len(s) + 1
    BY <1>1, <2>1, <2>3
  <2> QED BY <1>1, <2>1, <2>2, <2>3
<1>3. ASSUME NEW b \in Addresses(s)
      PROVE  b \in Addresses(Append(s, e))
  <2>1. PICK i \in DOMAIN s : b = s[i].addr
    BY DEF Addresses
  <2>2. i \in DOMAIN Append(s, e) /\ Append(s, e)[i].addr = b
    BY <1>1, <2>1
  <2> QED BY <2>2 DEF Addresses
<1>4. e.addr \in Addresses(Append(s, e))
  <2>1. Len(s) + 1 \in DOMAIN Append(s, e) /\ Append(s, e)[Len(s) + 1].addr = e.addr
    BY <1>1
  <2> QED BY <2>1 DEF Addresses
<1> QED BY <1>2, <1>3, <1>4

(* What Unlink leaves of a list when the node is not the first.            *)
LEMMA UnlinkAll ==
  ASSUME NEW s \in Seq(NodeType), NEW i \in DOMAIN s, i # 1
  PROVE  /\ Unlink(s, i) \in Seq(NodeType)
         /\ DOMAIN Unlink(s, i) = 1 .. Len(s) - 1
         /\ Unlink(s, i) # <<>> /\ Unlink(s, i)[1] = s[1]
         /\ \A j \in 1 .. i - 1 : Unlink(s, i)[j] = s[j]
         /\ \A j \in i .. Len(s) - 1 : Unlink(s, i)[j] = s[j + 1]
<1>1. i \in 2 .. Len(s) /\ Len(s) \in Nat
  OBVIOUS
<1> DEFINE p == SubSeq(s, 1, i - 1)
           q == SubSeq(s, i + 1, Len(s))
<1>2. /\ p \in Seq(NodeType) /\ Len(p) = i - 1
      /\ \A j \in 1 .. i - 1 : p[j] = s[j]
  BY <1>1
<1>3. /\ q \in Seq(NodeType) /\ Len(q) = Len(s) - i
      /\ \A j \in 1 .. Len(s) - i : q[j] = s[i + j]
  BY <1>1
<1>4. Unlink(s, i) = p \o q
  BY <1>1 DEF Unlink
<1> HIDE DEF p, q
<1>5. /\ p \o q \in Seq(NodeType) /\ Len(p \o q) = Len(s) - 1
      /\ \A j \in 1 .. i - 1 : (p \o q)[j] = p[j]
      /\ \A j \in i .. Len(s) - 1 : (p \o q)[j] = q[j - (i - 1)]
  BY <1>1, <1>2, <1>3
<1>6. ASSUME NEW j \in i .. Len(s) - 1
      PROVE  (p \o q)[j] = s[j + 1]
  <2>1. j - (i - 1) \in 1 .. Len(s) - i /\ i + (j - (i - 1)) = j + 1
    BY <1>1
  <2> QED BY <2>1, <1>3, <1>5
<1>7. (p \o q)[1] = s[1] /\ p \o q # <<>>
  BY <1>1, <1>2, <1>5
<1> QED BY <1>1, <1>2, <1>4, <1>5, <1>6, <1>7

(* So its addresses are those of the other nodes.                          *)
LEMMA UnlinkAddresses ==
  ASSUME NEW s \in Seq(NodeType), NEW i \in DOMAIN s, i # 1
  PROVE  /\ \A k \in DOMAIN s : k # i => s[k].addr \in Addresses(Unlink(s, i))
         /\ \A j \in DOMAIN Unlink(s, i) :
              \E k \in DOMAIN s : k # i /\ Unlink(s, i)[j] = s[k]
         /\ Addresses(Unlink(s, i)) \subseteq Addresses(s)
         /\ Distinct(s) => Distinct(Unlink(s, i)) /\ s[i].addr \notin Addresses(Unlink(s, i))
<1> DEFINE u == Unlink(s, i)
           from(j) == IF j < i THEN j ELSE j + 1
<1>1. /\ i \in 2 .. Len(s) /\ Len(s) \in Nat /\ DOMAIN s = 1 .. Len(s)
      /\ DOMAIN u = 1 .. Len(s) - 1
      /\ \A j \in 1 .. i - 1 : u[j] = s[j]
      /\ \A j \in i .. Len(s) - 1 : u[j] = s[j + 1]
  BY UnlinkAll
<1> HIDE DEF u
<1>2. ASSUME NEW j \in DOMAIN u
      PROVE  from(j) \in DOMAIN s /\ from(j) # i /\ u[j] = s[from(j)]
  BY <1>1
<1>3. ASSUME NEW k \in DOMAIN s, k # i
      PROVE  \E j \in DOMAIN u : u[j] = s[k]
  <2>1. CASE k < i
    <3>1. k \in DOMAIN u /\ u[k] = s[k]
      BY <1>1, <2>1
    <3> QED BY <3>1
  <2>2. CASE k > i
    <3>1. k - 1 \in DOMAIN u /\ k - 1 \in i .. Len(s) - 1 /\ (k - 1) + 1 = k
      BY <1>1, <2>2
    <3>2. u[k - 1] = s[k]
      BY <1>1, <3>1
    <3> QED BY <3>1, <3>2
  <2> QED BY <1>1, <1>3, <2>1, <2>2
<1>4. ASSUME Distinct(s), NEW j \in DOMAIN u, NEW k \in DOMAIN u, u[j].addr = u[k].addr
      PROVE  j = k
  <2>1. from(j) = from(k)
    BY <1>2, <1>4 DEF Distinct
  <2>2. j \in Nat /\ k \in Nat
    BY <1>1
  <2> QED BY <2>1, <2>2, <1>1
<1>5. ASSUME Distinct(s) PROVE s[i].addr \notin Addresses(u)
  BY <1>2, <1>5 DEF Distinct, Addresses
<1>6. Addresses(u) \subseteq Addresses(s)
  BY <1>2 DEF Addresses
<1>7. \A k \in DOMAIN s : k # i => s[k].addr \in Addresses(u)
  BY <1>3 DEF Addresses
<1>8. Distinct(s) => Distinct(u)
  BY <1>4 DEF Distinct
<1>9. \A j \in DOMAIN u : \E k \in DOMAIN s : k # i /\ u[j] = s[k]
  BY <1>2
<1> QED BY <1>5, <1>6, <1>7, <1>8, <1>9 DEF u

-----------------------------------------------------------------------------
(* The operations of the memory.  A list that is not released can be       *)
(* walked.                                                                 *)

LEMMA TagSets ==
  /\ Whole \subseteq Tags /\ Released \subseteq Tags /\ None \notin Tags
  /\ \A t \in {"var", "mir", "arm64_bin"} : t \in Tags /\ t \notin Released /\ t \notin Whole
BY MspaceAssumption DEF Whole, Tags, Released

LEMMA MemorySame ==
  ASSUME Memory, UNCHANGED <<nodes, owner, defined>>, Released' = Released
  PROVE  Memory'
BY DEF Memory, Allocated, Distinct, Addresses

\* pccMalloc in a space that is not released takes a new block.
LEMMA MallocStep ==
  ASSUME Memory, UNCHANGED phase,
         NEW t \in Tags, t \notin Released, NEW a \in Addr, PccMalloc(t, a)
  PROVE  /\ Memory'
         /\ ~ Allocated(a) /\ owner' = [owner EXCEPT ![a] = t]
         /\ nodes'[t] # <<>> /\ nodes'[t][1].addr = IF nodes[t] = <<>> THEN a ELSE nodes[t][1].addr
         /\ \A s \in Tags : s # t => nodes'[s] = nodes[s]
<1> DEFINE n == [addr |-> a, freed |-> FALSE]
           list == nodes[t]
<1>1. /\ nodes \in [Tags -> Seq(NodeType)] /\ owner \in [Addr -> Tags \cup {None}]
      /\ list \in Seq(NodeType) /\ n \in NodeType /\ n.addr = a /\ ~ n.freed
      /\ ~ Allocated(a) /\ owner' = [owner EXCEPT ![a] = t]
      /\ nodes' = [nodes EXCEPT ![t] = Append(list, n)]
      /\ Released' = Released
  BY DEF Memory, PccMalloc, NodeType, Released
<1> HIDE DEF n, list
<1>2. /\ Append(list, n) \in Seq(NodeType) /\ Len(list) \in Nat
      /\ DOMAIN Append(list, n) = 1 .. Len(list) + 1 /\ DOMAIN list = 1 .. Len(list)
      /\ Append(list, n)[Len(list) + 1] = n
      /\ \A i \in DOMAIN list : Append(list, n)[i] = list[i]
  BY <1>1, AppendAll
<1>3. nodes'[t] = Append(list, n) /\ \A s \in Tags : s # t => nodes'[s] = nodes[s]
  BY <1>1
<1>4. \A s \in Tags : /\ s # t => Addresses(nodes[s])' = Addresses(nodes[s])
                      /\ s = t => Addresses(nodes[s])' = Addresses(list) \cup {a}
  <2>1. Addresses(nodes'[t]) = Addresses(list) \cup {a}
    BY <1>1, <1>3, AppendAddresses
  <2> QED BY <1>3, <2>1 DEF Addresses
<1>5. nodes' \in [Tags -> Seq(NodeType)] /\ owner' \in [Addr -> Tags \cup {None}]
  BY <1>1, <1>2
<1>6. defined'
  <2>1. DOMAIN nodes[t] = 1 .. Len(nodes[t])
    BY <1>2 DEF list
  <2>2. Sound(nodes[t], Len(nodes[t])) /\ defined
    BY <2>1 DEF Memory, Sound
  <2> QED BY <2>2 DEF PccMalloc
<1>7. \A s \in Tags \ Released : \A i \in DOMAIN nodes'[s] : ~ nodes'[s][i].freed
  BY <1>1, <1>2, <1>3 DEF Memory, list
<1>8. \A b \in Addr : Allocated(b)' => b \in Addresses(nodes[owner[b]])'
  <2> TAKE b \in Addr
  <2> HAVE Allocated(b)'
  <2>1. CASE b = a
    BY <1>1, <1>4, <2>1
  <2>2. CASE b # a
    <3>1. owner'[b] = owner[b] /\ Allocated(b) /\ owner[b] \in Tags
      BY <1>1, <2>2 DEF Allocated
    <3>2. b \in Addresses(nodes[owner[b]])
      BY <3>1 DEF Memory
    <3> QED BY <1>4, <3>1, <3>2 DEF list
  <2> QED BY <2>1, <2>2
<1>9. \A b \in Addr : owner'[b] \notin Released
  BY <1>1 DEF Memory
<1>10. \A s \in Whole \ Released :
         Distinct(nodes'[s]) /\ \A b \in Addresses(nodes'[s]) : owner'[b] = s
  <2> TAKE s \in Whole \ Released
  <2>1. s \in Tags /\ Distinct(nodes[s]) /\ \A b \in Addresses(nodes[s]) : owner[b] = s
    BY TagSets DEF Memory
  <2>2. a \notin Addresses(nodes[s])
    BY <1>1, <2>1, TagSets DEF Allocated
  <2>3. \A b \in Addresses(nodes[s]) : b \in Addr
    BY <1>1, <2>1, AddressesIn
  <2>4. CASE s # t
    BY <1>1, <1>3, <2>1, <2>2, <2>3, <2>4
  <2>5. CASE s = t
    <3>1. Distinct(nodes'[t])
      BY <1>1, <1>2, <1>3, <2>1, <2>2, <2>5 DEF Distinct, Addresses, list
    <3>2. \A b \in Addresses(nodes'[t]) : owner'[b] = t
      BY <1>1, <1>4, <2>1, <2>2, <2>3, <2>5 DEF list
    <3> QED BY <2>5, <3>1, <3>2
  <2> QED BY <2>4, <2>5
<1>11. Memory'
  BY <1>1, <1>5, <1>6, <1>7, <1>8, <1>9, <1>10 DEF Memory
<1>12. nodes'[t] # <<>> /\ nodes'[t][1].addr = IF nodes[t] = <<>> THEN a ELSE nodes[t][1].addr
  <2>1. CASE list = <<>>
    BY <1>1, <1>2, <1>3, <2>1 DEF list
  <2>2. CASE list # <<>>
    BY <1>1, <1>2, <1>3, <2>2 DEF list
  <2> QED BY <2>1, <2>2 DEF list
<1> QED BY <1>1, <1>3, <1>11, <1>12

\* pccFree of a block that is listed behind the first node returns that block.
LEMMA PccFreeStep ==
  ASSUME Memory, UNCHANGED phase, NEW t \in Tags, t \notin Released,
         NEW a \in Addr, owner[a] = t, nodes[t][1].addr # a, PccFree(t, a)
  PROVE  /\ Memory' /\ owner' = [owner EXCEPT ![a] = None]
         /\ nodes'[t] # <<>> /\ nodes'[t][1] = nodes[t][1]
         /\ \A s \in Tags : s # t => nodes'[s] = nodes[s]
<1> DEFINE list == nodes[t]
<1>1. /\ nodes \in [Tags -> Seq(NodeType)] /\ owner \in [Addr -> Tags \cup {None}]
      /\ list \in Seq(NodeType) /\ Allocated(a) /\ a \in Addresses(list)
      /\ Released' = Released
  BY TagSets DEF Memory, Released, Allocated
<1>2. PICK i \in DOMAIN list :
        /\ IsFirst(list, i, a)
        /\ defined' = (defined /\ Sound(list, i) /\ Allocated(a))
        /\ nodes' = [nodes EXCEPT ![t] = Unlink(list, i)]
        /\ owner' = [owner EXCEPT ![a] = None]
  BY <1>1 DEF PccFree
<1>3. list[i].addr = a /\ i # 1
  BY <1>2 DEF IsFirst
<1> DEFINE u == Unlink(list, i)
<1> HIDE DEF list, u
<1>4. /\ u \in Seq(NodeType) /\ DOMAIN u = 1 .. Len(list) - 1
      /\ u # <<>> /\ u[1] = list[1]
  BY <1>1, <1>2, <1>3, UnlinkAll DEF u
<1>5. /\ \A k \in DOMAIN list : k # i => list[k].addr \in Addresses(u)
      /\ \A j \in DOMAIN u : \E k \in DOMAIN list : k # i /\ u[j] = list[k]
      /\ Addresses(u) \subseteq Addresses(list)
      /\ Distinct(list) => Distinct(u) /\ a \notin Addresses(u)
  BY <1>1, <1>2, <1>3, UnlinkAddresses DEF u
<1>6. /\ nodes' = [nodes EXCEPT ![t] = u] /\ owner' = [owner EXCEPT ![a] = None]
      /\ nodes'[t] = u /\ \A s \in Tags : s # t => nodes'[s] = nodes[s]
  BY <1>1, <1>2 DEF u
<1>7. nodes' \in [Tags -> Seq(NodeType)] /\ owner' \in [Addr -> Tags \cup {None}]
  BY <1>1, <1>4, <1>6
<1>8. defined'
  <2>1. DOMAIN list = 1 .. Len(list) /\ Len(list) \in Nat
    BY <1>1
  <2>2. Sound(list, i) /\ defined
    BY <1>2, <2>1 DEF Memory, Sound, list
  <2> QED BY <1>1, <1>2, <2>2
<1>9. \A s \in Tags \ Released : \A j \in DOMAIN nodes'[s] : ~ nodes'[s][j].freed
  BY <1>5, <1>6 DEF Memory, list
<1>10. \A b \in Addr : Allocated(b)' => b \in Addresses(nodes[owner[b]])'
  <2> TAKE b \in Addr
  <2> HAVE Allocated(b)'
  <2>1. b # a /\ owner'[b] = owner[b] /\ Allocated(b) /\ owner[b] \in Tags
    BY <1>1, <1>6 DEF Allocated
  <2>2. b \in Addresses(nodes[owner[b]])
    BY <2>1 DEF Memory
  <2>3. CASE owner[b] = t
    <3>1. PICK k \in DOMAIN list : list[k].addr = b
      BY <2>2, <2>3 DEF Addresses, list
    <3>2. b \in Addresses(u)
      BY <1>3, <1>5, <2>1, <3>1
    <3> QED BY <1>6, <2>1, <2>3, <3>2 DEF Addresses
  <2>4. CASE owner[b] # t
    BY <1>6, <2>1, <2>2, <2>4 DEF Addresses
  <2> QED BY <2>3, <2>4
<1>11. \A b \in Addr : owner'[b] \notin Released
  BY <1>1, <1>6, TagSets DEF Memory
<1>12. \A s \in Whole \ Released :
         Distinct(nodes'[s]) /\ \A b \in Addresses(nodes'[s]) : owner'[b] = s
  <2> TAKE s \in Whole \ Released
  <2>1. s \in Tags /\ Distinct(nodes[s]) /\ \A b \in Addresses(nodes[s]) : owner[b] = s
    BY TagSets DEF Memory
  <2>2. Addresses(nodes[s]) \subseteq Addr
    BY <1>1, <2>1, AddressesIn
  <2>3. CASE s # t
    BY <1>1, <1>6, <2>1, <2>2, <2>3
  <2>4. CASE s = t
    BY <1>1, <1>5, <1>6, <2>1, <2>2, <2>4 DEF list
  <2> QED BY <2>3, <2>4
<1>13. Memory'
  BY <1>1, <1>7, <1>8, <1>9, <1>10, <1>11, <1>12 DEF Memory
<1> QED BY <1>4, <1>6, <1>13 DEF list

\* free, of a block whose space is not released as a whole.
LEMMA FreeStep ==
  ASSUME Memory, UNCHANGED phase, NEW a \in Addr, owner[a] \in {"mir", "arm64_bin"}, Free(a)
  PROVE  Memory' /\ owner' = [owner EXCEPT ![a] = None] /\ nodes' = nodes
<1>1. /\ nodes' = nodes /\ owner' = [owner EXCEPT ![a] = None] /\ Released' = Released
      /\ owner \in [Addr -> Tags \cup {None}]
  BY DEF Memory, Free, Released
<1>2. defined'
  BY TagSets DEF Memory, Free, Allocated
<1>3. \A b \in Addr : Allocated(b)' => b \in Addresses(nodes[owner[b]])'
  BY <1>1 DEF Memory, Allocated, Addresses
<1>4. \A s \in Whole \ Released :
        Distinct(nodes'[s]) /\ \A b \in Addresses(nodes'[s]) : owner'[b] = s
  <2> TAKE s \in Whole \ Released
  <2>1. s # owner[a] /\ Distinct(nodes[s]) /\ \A b \in Addresses(nodes[s]) : owner[b] = s
    BY TagSets DEF Memory
  <2>2. Addresses(nodes[s]) \subseteq Addr
    BY TagSets, AddressesIn DEF Memory
  <2> QED BY <1>1, <2>1, <2>2
<1>5. \A b \in Addr : owner'[b] \notin Released
  BY <1>1, TagSets DEF Memory
<1> QED BY <1>1, <1>2, <1>3, <1>4, <1>5 DEF Memory

\* pccFreeSpace returns the blocks of its space and no other.
LEMMA ReleaseStep ==
  ASSUME Memory, NEW t \in Whole, t \notin Released, Released' = Released \cup {t},
         PccFreeSpace(t)
  PROVE  /\ Memory'
         /\ owner' = [a \in Addr |-> IF owner[a] = t THEN None ELSE owner[a]]
         /\ \A s \in Tags : s # t => nodes'[s] = nodes[s]
<1> DEFINE list == nodes[t]
           freed == [i \in DOMAIN list |-> Freed(list[i])]
<1>1. /\ nodes \in [Tags -> Seq(NodeType)] /\ owner \in [Addr -> Tags \cup {None}]
      /\ t \in Tags /\ list \in Seq(NodeType)
      /\ Distinct(list) /\ \A b \in Addresses(list) : owner[b] = t
  BY TagSets DEF Memory
<1>2. \A a \in Addr : owner[a] = t <=> a \in Addresses(list)
  BY <1>1, TagSets DEF Memory, Allocated
<1>3. /\ nodes' = [nodes EXCEPT ![t] = freed]
      /\ owner' = [a \in Addr |-> IF owner[a] = t THEN None ELSE owner[a]]
  BY <1>2 DEF PccFreeSpace
<1> HIDE DEF list
<1>4. \A s \in Tags : s # t => nodes'[s] = nodes[s]
  BY <1>1, <1>3
<1>5. nodes' \in [Tags -> Seq(NodeType)] /\ owner' \in [Addr -> Tags \cup {None}]
  <2>1. freed \in Seq(NodeType)
    <3>1. \A i \in DOMAIN list : Freed(list[i]) \in NodeType
      BY <1>1, Element DEF Freed, NodeType
    <3>2. DOMAIN list = 1 .. Len(list) /\ Len(list) \in Nat
      BY <1>1
    <3> QED BY <3>1, <3>2
  <2> QED BY <1>1, <1>3, <2>1
<1>6. defined'
  <2>1. DOMAIN list = 1 .. Len(list) /\ Len(list) \in Nat
    BY <1>1
  <2>2. Sound(list, Len(list)) /\ defined
    BY <1>1, <2>1 DEF Memory, Sound, list
  <2>3. \A a \in Addresses(list) : Allocated(a)
    BY <1>1, TagSets DEF Allocated
  <2> QED BY <1>1, <2>2, <2>3 DEF PccFreeSpace, list
<1>7. \A s \in Tags \ Released' : \A i \in DOMAIN nodes'[s] : ~ nodes'[s][i].freed
  BY <1>4 DEF Memory
<1>8. \A b \in Addr : Allocated(b)' => b \in Addresses(nodes[owner[b]])'
  <2> TAKE b \in Addr
  <2> HAVE Allocated(b)'
  <2>1. owner'[b] = owner[b] /\ owner[b] # t /\ Allocated(b) /\ owner[b] \in Tags
    BY <1>1, <1>3 DEF Allocated
  <2>2. b \in Addresses(nodes[owner[b]])
    BY <2>1 DEF Memory
  <2> QED BY <1>4, <2>1, <2>2 DEF Addresses
<1>9. \A b \in Addr : owner'[b] \notin Released'
  BY <1>1, <1>3, TagSets DEF Memory
<1>10. \A s \in Whole \ Released' :
         Distinct(nodes'[s]) /\ \A b \in Addresses(nodes'[s]) : owner'[b] = s
  <2> TAKE s \in Whole \ Released'
  <2>1. s # t /\ s \in Tags /\ Distinct(nodes[s]) /\ \A b \in Addresses(nodes[s]) : owner[b] = s
    BY TagSets DEF Memory
  <2>2. Addresses(nodes[s]) \subseteq Addr
    BY <1>1, <2>1, AddressesIn
  <2> QED BY <1>3, <1>4, <2>1, <2>2
<1>11. Memory'
  BY <1>5, <1>6, <1>7, <1>8, <1>9, <1>10 DEF Memory
<1> QED BY <1>3, <1>4, <1>11

-----------------------------------------------------------------------------
(* The users.  A block that malloc returns is nobody's.                    *)
LEMMA Fresh ==
  ASSUME Inv, NEW a \in Addr, ~ Allocated(a)
  PROVE  a \notin temp /\ a \notin raw /\ \A t \in Tags \ Released : a \notin kept[t]
<1>1. \A t \in Tags \ Released : a \notin kept[t]
  BY TagSets DEF Inv, Uses, Allocated
<1>2. a \notin raw
  BY TagSets DEF Inv, Uses, Allocated
<1>3. a \notin temp
  <2>1. "syntaxer" # None /\ "mir" # None
    BY TagSets DEF Tags
  <2> QED BY <2>1 DEF Inv, Uses, Allocated
<1> QED BY <1>1, <1>2, <1>3

LEMMA KeepStep ==
  ASSUME Inv, NEW t \in Tags, t \notin Released, NEW a \in Addr, Keep(t, a)
  PROVE  Inv'
<1>1. /\ PccMalloc(t, a) /\ kept' = [kept EXCEPT ![t] = @ \cup {a}]
      /\ UNCHANGED <<phase, temp, raw>> /\ Released' = Released
  BY DEF Keep, Released
<1>2. /\ Memory'
      /\ ~ Allocated(a) /\ owner' = [owner EXCEPT ![a] = t]
      /\ nodes'[t] # <<>> /\ nodes'[t][1].addr = IF nodes[t] = <<>> THEN a ELSE nodes[t][1].addr
      /\ \A s \in Tags : s # t => nodes'[s] = nodes[s]
  BY <1>1, MallocStep DEF Inv
<1>3. a \notin temp /\ a \notin raw /\ \A s \in Tags \ Released : a \notin kept[s]
  BY <1>2, Fresh
<1>4. /\ kept \in [Tags -> SUBSET Addr] /\ temp \subseteq Addr /\ raw \subseteq Addr
      /\ owner \in [Addr -> Tags \cup {None}]
  BY DEF Inv, Uses, Memory
<1>5. /\ owner'[a] = t /\ \A b \in Addr : b # a => owner'[b] = owner[b]
      /\ kept'[t] = kept[t] \cup {a} /\ \A s \in Tags : s # t => kept'[s] = kept[s]
  BY <1>1, <1>2, <1>4
<1>6. \A s \in Tags \ Released : \A b \in kept'[s] : owner'[b] = s
  BY <1>3, <1>4, <1>5 DEF Inv, Uses
<1>7. \A s \in {"syntaxer", "mir"} \ Released :
        nodes'[s] # <<>> => nodes'[s][1].addr \in kept'[s]
  <2> TAKE s \in {"syntaxer", "mir"} \ Released
  <2>1. s \in Tags /\ (nodes[s] # <<>> => nodes[s][1].addr \in kept[s])
    BY DEF Inv, Uses, Tags
  <2> QED BY <1>2, <1>5, <2>1
<1>8. phase = "parse" => \A b \in temp : owner'[b] = "syntaxer" /\ b \notin kept'["syntaxer"]
  BY <1>3, <1>4, <1>5 DEF Inv, Uses, Tags
<1>9. phase = "mir" => \A b \in temp : owner'[b] = "mir" /\ b \notin kept'["mir"]
  BY <1>3, <1>4, <1>5 DEF Inv, Uses, Tags
<1>10. \A b \in raw : /\ owner'[b] \in {"mir", "arm64_bin"}
                      /\ b \notin kept'[owner'[b]] /\ b \notin temp
  BY <1>3, <1>4, <1>5 DEF Inv, Uses, Tags
<1>11. kept' \in [Tags -> SUBSET Addr]
  BY <1>1, <1>4
<1> QED BY <1>1, <1>2, <1>6, <1>7, <1>8, <1>9, <1>10, <1>11 DEF Inv, Uses

\* A block that nobody keeps is allocated, in a space that is in use already or has
\* no first block to protect.
LEMMA AllocStep ==
  ASSUME Inv, UNCHANGED <<phase, kept>>, NEW t \in Tags, t \notin Released,
         NEW a \in Addr, PccMalloc(t, a),
         t \in {"syntaxer", "mir"} => nodes[t] # <<>>,
         \/ /\ temp' = temp \cup {a} /\ UNCHANGED raw
            /\ \/ phase = "parse" /\ t = "syntaxer"
               \/ phase = "mir" /\ t = "mir"
         \/ raw' = raw \cup {a} /\ UNCHANGED temp /\ t \in {"mir", "arm64_bin"}
  PROVE  Inv'
<1>1. /\ Memory' /\ Released' = Released
      /\ ~ Allocated(a) /\ owner' = [owner EXCEPT ![a] = t]
      /\ nodes'[t] # <<>> /\ nodes'[t][1].addr = IF nodes[t] = <<>> THEN a ELSE nodes[t][1].addr
      /\ \A s \in Tags : s # t => nodes'[s] = nodes[s]
  BY MallocStep DEF Inv, Released
<1>2. a \notin temp /\ a \notin raw /\ \A s \in Tags \ Released : a \notin kept[s]
  BY <1>1, Fresh
<1>3. /\ kept \in [Tags -> SUBSET Addr] /\ temp \subseteq Addr /\ raw \subseteq Addr
      /\ owner \in [Addr -> Tags \cup {None}]
  BY DEF Inv, Uses, Memory
<1>4. owner'[a] = t /\ \A b \in Addr : b # a => owner'[b] = owner[b]
  BY <1>1, <1>3
<1>5. \A s \in Tags \ Released : \A b \in kept[s] : owner'[b] = s
  BY <1>2, <1>3, <1>4 DEF Inv, Uses
<1>6. \A s \in {"syntaxer", "mir"} \ Released :
        nodes'[s] # <<>> => nodes'[s][1].addr \in kept[s]
  <2> TAKE s \in {"syntaxer", "mir"} \ Released
  <2>1. s \in Tags /\ (nodes[s] # <<>> => nodes[s][1].addr \in kept[s])
    BY DEF Inv, Uses, Tags
  <2> QED BY <1>1, <2>1
<1>7. phase = "parse" => \A b \in temp' : owner'[b] = "syntaxer" /\ b \notin kept["syntaxer"]
  BY <1>2, <1>3, <1>4 DEF Inv, Uses
<1>8. phase = "mir" => \A b \in temp' : owner'[b] = "mir" /\ b \notin kept["mir"]
  BY <1>2, <1>3, <1>4 DEF Inv, Uses
<1>9. \A b \in raw' : /\ owner'[b] \in {"mir", "arm64_bin"}
                      /\ b \notin kept[owner'[b]] /\ b \notin temp'
  BY <1>2, <1>3, <1>4 DEF Inv, Uses, Tags
<1>10. phase \notin {"parse", "mir"} => temp' = {}
  BY DEF Inv, Uses
<1>11. temp' \subseteq Addr /\ raw' \subseteq Addr
  BY <1>3
<1> QED BY <1>1, <1>3, <1>5, <1>6, <1>7, <1>8, <1>9, <1>10, <1>11 DEF Inv, Uses

\* A scope node, or a method that turns out to be extern, is returned.
LEMMA ReturnStep ==
  ASSUME Inv, UNCHANGED <<phase, kept, raw>>,
         NEW t \in {"syntaxer", "mir"}, t = "syntaxer" => phase = "parse", t = "mir" => phase = "mir",
         NEW a \in temp, PccFree(t, a), temp' = {} \/ temp' = temp \ {a}
  PROVE  Inv' /\ owner[a] = t /\ owner' = [owner EXCEPT ![a] = None]
<1>1. /\ t \in Tags /\ t \notin Released /\ Released' = Released /\ a \in Addr
      /\ owner[a] = t /\ a \notin kept[t]
  BY DEF Inv, Uses, Tags, Released
<1>2. nodes[t] # <<>>
  BY <1>1, TagSets DEF Inv, Memory, Allocated, Addresses
<1>3. nodes[t][1].addr \in kept[t] /\ nodes[t][1].addr # a
  BY <1>1, <1>2 DEF Inv, Uses
<1>4. /\ Memory' /\ owner' = [owner EXCEPT ![a] = None]
      /\ nodes'[t] # <<>> /\ nodes'[t][1] = nodes[t][1]
      /\ \A s \in Tags : s # t => nodes'[s] = nodes[s]
  BY <1>1, <1>3, PccFreeStep DEF Inv
<1>5. /\ kept \in [Tags -> SUBSET Addr] /\ temp \subseteq Addr /\ raw \subseteq Addr
      /\ owner \in [Addr -> Tags \cup {None}]
  BY DEF Inv, Uses, Memory
<1>6. \A b \in Addr : b # a => owner'[b] = owner[b]
  BY <1>4, <1>5
<1>7. \A s \in Tags \ Released : \A b \in kept[s] : owner'[b] = s
  BY <1>1, <1>5, <1>6 DEF Inv, Uses
<1>8. \A s \in {"syntaxer", "mir"} \ Released :
        nodes'[s] # <<>> => nodes'[s][1].addr \in kept[s]
  BY <1>1, <1>3, <1>4 DEF Inv, Uses, Tags
<1>9. temp' \subseteq temp /\ a \notin temp'
  OBVIOUS
<1>10. /\ phase = "parse" => \A b \in temp' : owner'[b] = "syntaxer" /\ b \notin kept["syntaxer"]
       /\ phase = "mir" => \A b \in temp' : owner'[b] = "mir" /\ b \notin kept["mir"]
       /\ phase \notin {"parse", "mir"} => temp' = {}
  BY <1>5, <1>6, <1>9 DEF Inv, Uses
<1>11. \A b \in raw : /\ owner'[b] \in {"mir", "arm64_bin"}
                      /\ b \notin kept[owner'[b]] /\ b \notin temp'
  BY <1>5, <1>6, <1>9 DEF Inv, Uses
<1>12. Uses'
  BY <1>1, <1>5, <1>7, <1>8, <1>9, <1>10, <1>11 DEF Inv, Uses
<1> QED BY <1>1, <1>4, <1>12 DEF Inv

\* A variable node, or an instruction that is in the buffer, is returned.
LEMMA FreeRawStep ==
  ASSUME Inv, UNCHANGED <<phase, kept, temp>>, NEW a \in raw, Free(a), raw' = raw \ {a}
  PROVE  Inv' /\ owner[a] \in Tags \ Released /\ owner' = [owner EXCEPT ![a] = None]
<1>1. /\ a \in Addr /\ owner[a] \in {"mir", "arm64_bin"} /\ a \notin kept[owner[a]]
      /\ a \notin temp /\ Released' = Released
  BY DEF Inv, Uses, Released
<1>2. Memory' /\ owner' = [owner EXCEPT ![a] = None] /\ nodes' = nodes
  BY <1>1, FreeStep DEF Inv
<1>3. /\ kept \in [Tags -> SUBSET Addr] /\ temp \subseteq Addr /\ raw \subseteq Addr
      /\ owner \in [Addr -> Tags \cup {None}]
  BY DEF Inv, Uses, Memory
<1>4. \A b \in Addr : b # a => owner'[b] = owner[b]
  BY <1>2, <1>3
<1>5. \A s \in Tags \ Released : \A b \in kept[s] : owner'[b] = s
  BY <1>1, <1>3, <1>4 DEF Inv, Uses
<1>6. /\ phase = "parse" => \A b \in temp : owner'[b] = "syntaxer" /\ b \notin kept["syntaxer"]
      /\ phase = "mir" => \A b \in temp : owner'[b] = "mir" /\ b \notin kept["mir"]
  BY <1>1, <1>3, <1>4 DEF Inv, Uses
<1>7. \A b \in raw' : /\ owner'[b] \in {"mir", "arm64_bin"}
                      /\ b \notin kept[owner'[b]] /\ b \notin temp
  BY <1>3, <1>4 DEF Inv, Uses
<1>8. Uses'
  BY <1>1, <1>2, <1>3, <1>5, <1>6, <1>7 DEF Inv, Uses
<1>9. owner[a] \in Tags \ Released
  BY <1>1, TagSets
<1> QED BY <1>2, <1>8, <1>9 DEF Inv

\* A space is released by the phase that ends with it.
LEMMA PhaseStep ==
  ASSUME Inv, UNCHANGED <<kept, temp, raw>>, NEW t \in Whole,
         PccFreeSpace(t), phase' \in Phases, temp = {},
         t \notin Released, Released' = Released \cup {t}
  PROVE  Inv' /\ owner' = [a \in Addr |-> IF owner[a] = t THEN None ELSE owner[a]]
<1>1. /\ Memory'
      /\ owner' = [a \in Addr |-> IF owner[a] = t THEN None ELSE owner[a]]
      /\ \A s \in Tags : s # t => nodes'[s] = nodes[s]
  BY ReleaseStep DEF Inv
<1>2. /\ kept \in [Tags -> SUBSET Addr] /\ raw \subseteq Addr
      /\ t \notin {"mir", "arm64_bin"}
  BY TagSets DEF Inv, Uses
<1>3. \A s \in Tags \ Released' : \A a \in kept[s] : owner'[a] = s
  BY <1>1, <1>2 DEF Inv, Uses
<1>4. \A s \in {"syntaxer", "mir"} \ Released' :
        nodes'[s] # <<>> => nodes'[s][1].addr \in kept[s]
  BY <1>1 DEF Inv, Uses, Tags
<1>5. \A a \in raw : owner'[a] = owner[a]
  BY <1>1, <1>2 DEF Inv, Uses
<1>6. Uses'
  BY <1>2, <1>3, <1>4, <1>5 DEF Inv, Uses
<1> QED BY <1>1, <1>6 DEF Inv

-----------------------------------------------------------------------------
(* The steps of the abstract spaces.                                       *)

LEMMA Allocates ==
  ASSUME Inv, Released' = Released, NEW t \in Tags, t \notin Released,
         NEW a \in Addr, ~ Allocated(a), owner' = [owner EXCEPT ![a] = t]
  PROVE  Abs!Next
<1>1. \A b \in Addr : owner'[b] = IF b = a THEN t ELSE owner[b]
  BY DEF Inv, Memory
<1>2. \A s \in Tags : {b \in Addr : owner'[b] = s}
          = IF s = t THEN {b \in Addr : owner[b] = s} \cup {a} ELSE {b \in Addr : owner[b] = s}
  BY <1>1, TagSets DEF Allocated
<1> DEFINE space == [s \in Tags |-> {b \in Addr : owner[b] = s}]
<1>3. \A s \in Tags : a \notin space[s]
  BY TagSets DEF Allocated
<1>4. space' = [space EXCEPT ![t] = @ \cup {a}]
  BY <1>2
<1>5. Abs!Allocate(t, a)
  BY <1>3, <1>4 DEF Abs!Allocate
<1> QED BY <1>5 DEF Abs!Next

LEMMA Frees ==
  ASSUME Inv, Released' = Released, NEW a \in Addr, owner[a] \in Tags,
         owner' = [owner EXCEPT ![a] = None]
  PROVE  Abs!Next
<1>1. \A b \in Addr : owner'[b] = IF b = a THEN None ELSE owner[b]
  BY DEF Inv, Memory
<1>2. \A s \in Tags : {b \in Addr : owner'[b] = s}
          = IF s = owner[a] THEN {b \in Addr : owner[b] = s} \ {a} ELSE {b \in Addr : owner[b] = s}
  BY <1>1, TagSets
<1>3. PICK t \in Tags : owner[a] = t
  OBVIOUS
<1> DEFINE space == [s \in Tags |-> {b \in Addr : owner[b] = s}]
<1>4. a \in space[t]
  BY <1>3
<1>5. space' = [space EXCEPT ![t] = @ \ {a}]
  BY <1>2, <1>3
<1>6. Abs!Free(t, a)
  BY <1>4, <1>5 DEF Abs!Free
<1> QED BY <1>6 DEF Abs!Next

LEMMA Releases ==
  ASSUME Inv, NEW t \in Tags, t \notin Released, Released' = Released \cup {t},
         owner' = [a \in Addr |-> IF owner[a] = t THEN None ELSE owner[a]]
  PROVE  Abs!Next
<1>1. \A s \in Tags : {b \in Addr : owner'[b] = s}
          = IF s = t THEN {} ELSE {b \in Addr : owner[b] = s}
  BY TagSets
<1>2. Abs!Release(t)
  BY <1>1 DEF Abs!Release
<1> QED BY <1>2 DEF Abs!Next

Goal == Inv' /\ (Abs!Next \/ UNCHANGED Abs!vars)

LEMMA KeepGoal ==
  ASSUME Inv, NEW t \in Tags, t \notin Released, NEW a \in Addr, Keep(t, a)
  PROVE  Goal
<1>1. ~ Allocated(a) /\ owner' = [owner EXCEPT ![a] = t] /\ Released' = Released
  BY DEF Keep, PccMalloc, Released
<1> QED BY <1>1, KeepStep, Allocates DEF Goal

LEMMA AllocGoal ==
  ASSUME Inv, UNCHANGED <<phase, kept>>, NEW t \in Tags, t \notin Released,
         NEW a \in Addr, PccMalloc(t, a),
         t \in {"syntaxer", "mir"} => nodes[t] # <<>>,
         \/ /\ temp' = temp \cup {a} /\ UNCHANGED raw
            /\ \/ phase = "parse" /\ t = "syntaxer"
               \/ phase = "mir" /\ t = "mir"
         \/ raw' = raw \cup {a} /\ UNCHANGED temp /\ t \in {"mir", "arm64_bin"}
  PROVE  Goal
<1>1. ~ Allocated(a) /\ owner' = [owner EXCEPT ![a] = t] /\ Released' = Released
  BY DEF PccMalloc, Released
<1> QED BY <1>1, AllocStep, Allocates DEF Goal

LEMMA FreeRawGoal ==
  ASSUME Inv, UNCHANGED <<phase, kept, temp>>, NEW a \in raw, Free(a), raw' = raw \ {a}
  PROVE  Goal
<1>1. a \in Addr /\ Released' = Released
  BY DEF Inv, Uses, Released
<1> QED BY <1>1, FreeRawStep, Frees DEF Goal

LEMMA PhaseGoal ==
  ASSUME Inv, UNCHANGED <<kept, temp, raw>>, NEW t \in Whole,
         PccFreeSpace(t), phase' \in Phases, temp = {},
         t \notin Released, Released' = Released \cup {t}
  PROVE  Goal
BY TagSets, PhaseStep, Releases DEF Goal

-----------------------------------------------------------------------------
LEMMA InitInv == Init => Inv /\ Abs!Init
<1> SUFFICES ASSUME Init PROVE Inv /\ Abs!Init
  OBVIOUS
<1>1. /\ nodes = [t \in Tags |-> <<>>] /\ owner = [a \in Addr |-> None] /\ defined
      /\ phase = "preprocess" /\ kept = [t \in Tags |-> {}] /\ temp = {} /\ raw = {}
      /\ Released = {}
  BY DEF Init, Released
<1>2. Memory
  BY <1>1, TagSets DEF Memory, Allocated, Distinct, Addresses
<1>3. Uses
  BY <1>1, TagSets DEF Uses, Phases, Tags
<1>4. Abs!Init
  BY <1>1, TagSets DEF Abs!Init
<1> QED BY <1>2, <1>3, <1>4 DEF Inv

LEMMA NextGoal ==
  ASSUME Inv, Next
  PROVE  Goal
<1> USE DEF Tags, Released, Phases, Whole
<1>1. CASE Preprocess
  BY <1>1, KeepGoal DEF Preprocess
<1>2. CASE Preprocessed
  <2>1. /\ phase = "preprocess" /\ phase' = "lex"
        /\ UNCHANGED <<nodes, owner, defined, kept, temp, raw>>
    BY <1>2 DEF Preprocessed, memory
  <2>2. Released' = Released /\ temp = {}
    BY <2>1 DEF Inv, Uses
  <2>3. Inv'
    BY <2>1, <2>2 DEF Inv, Memory, Uses, Allocated, Distinct, Addresses
  <2>4. UNCHANGED Abs!vars
    BY <2>1, <2>2 DEF Abs!vars
  <2> QED BY <2>3, <2>4 DEF Goal
<1>3. CASE BuildTokens
  BY <1>3, KeepGoal DEF BuildTokens
<1>4. CASE ReleasePreProcessorMemory
  <2>1. temp = {}
    BY <1>4 DEF ReleasePreProcessorMemory, Inv, Uses
  <2> QED BY <1>4, <2>1, PhaseGoal DEF ReleasePreProcessorMemory
<1>5. CASE BuildAst
  BY <1>5, KeepGoal DEF BuildAst
<1>6. CASE PushScope
  BY <1>6, AllocGoal DEF PushScope
<1>7. CASE FreeVarStack
  <2>1. PICK a \in temp : PccFree("syntaxer", a) /\ temp' = temp \ {a}
    BY <1>7 DEF FreeVarStack
  <2>2. phase = "parse" /\ UNCHANGED <<phase, kept, raw>> /\ Released' = Released
    BY <1>7 DEF FreeVarStack
  <2>3. Inv' /\ owner[a] = "syntaxer" /\ owner' = [owner EXCEPT ![a] = None]
    BY <2>1, <2>2, ReturnStep
  <2>4. a \in Addr
    BY DEF Inv, Uses
  <2> QED BY <2>2, <2>3, <2>4, Frees DEF Goal
<1>8. CASE ReleaseLexerMemory
  BY <1>8, PhaseGoal DEF ReleaseLexerMemory
<1>9. CASE GenerateMir
  BY <1>9, KeepGoal DEF GenerateMir
<1>10. CASE BeginMethod
  <2>1. PICK a \in Addr : PccMalloc("mir", a) /\ temp' = {a}
    BY <1>10 DEF BeginMethod
  <2>2. /\ phase = "mir" /\ nodes["mir"] # <<>> /\ temp' = temp \cup {a}
        /\ UNCHANGED <<phase, kept, raw>>
    BY <1>10, <2>1 DEF BeginMethod
  <2> QED BY <2>1, <2>2, AllocGoal
<1>11. CASE EndMethod
  <2>1. phase = "mir" /\ temp' = {} /\ UNCHANGED <<phase, raw>> /\ Released' = Released
    BY <1>11 DEF EndMethod
  <2>2. PICK a \in temp : \/ PccFree("mir", a) /\ UNCHANGED kept
                          \/ /\ kept' = [kept EXCEPT !["mir"] = @ \cup {a}]
                             /\ UNCHANGED memory
    BY <1>11 DEF EndMethod
  <2>3. a \in Addr
    BY DEF Inv, Uses
  <2>4. CASE PccFree("mir", a) /\ UNCHANGED kept
    <3>1. Inv' /\ owner[a] = "mir" /\ owner' = [owner EXCEPT ![a] = None]
      BY <2>1, <2>4, ReturnStep
    <3> QED BY <2>1, <2>3, <3>1, Frees DEF Goal
  <2>5. CASE kept' = [kept EXCEPT !["mir"] = @ \cup {a}] /\ UNCHANGED memory
    <3>1. UNCHANGED <<nodes, owner, defined>>
      BY <2>5 DEF memory
    <3>2. Memory'
      BY <2>1, <3>1, MemorySame DEF Inv
    <3>3. /\ kept' \in [Tags -> SUBSET Addr] /\ kept'["mir"] = kept["mir"] \cup {a}
          /\ \A s \in Tags : s # "mir" => kept'[s] = kept[s]
          /\ owner[a] = "mir" /\ a \notin raw
      BY <2>1, <2>3, <2>5 DEF Inv, Uses
    <3>4. Uses'
      <4>1. \A s \in Tags \ Released : \A b \in kept'[s] : owner[b] = s
        BY <3>3 DEF Inv, Uses
      <4>2. \A s \in {"syntaxer", "mir"} \ Released :
              nodes[s] # <<>> => nodes[s][1].addr \in kept'[s]
        BY <3>3 DEF Inv, Uses
      <4>3. \A b \in raw : /\ owner[b] \in {"mir", "arm64_bin"}
                           /\ b \notin kept'[owner[b]]
        BY <3>3 DEF Inv, Uses
      <4>4. phase \in Phases /\ raw \subseteq Addr
        BY DEF Inv, Uses
      <4> QED BY <2>1, <3>1, <3>3, <4>1, <4>2, <4>3, <4>4 DEF Uses
    <3>5. UNCHANGED Abs!vars
      BY <2>1, <3>1 DEF Abs!vars
    <3> QED BY <3>2, <3>4, <3>5 DEF Goal, Inv
  <2> QED BY <2>2, <2>4, <2>5
<1>12. CASE AddVarInfo
  BY <1>12, AllocGoal DEF AddVarInfo
<1>13. CASE ResetVarInfo
  BY <1>13, FreeRawGoal DEF ResetVarInfo
<1>14. CASE ReleaseAstMemory
  BY <1>14, PhaseGoal DEF ReleaseAstMemory
<1>15. CASE EmitInst
  BY <1>15, AllocGoal DEF EmitInst
<1>16. CASE EmitBuffer
  <2>1. CASE phase = "target" /\ \E a \in Addr : Keep("arm64_bin", a)
    BY <2>1, KeepGoal
  <2>2. CASE /\ phase = "target"
             /\ \E a \in raw : owner[a] = "arm64_bin" /\ Free(a) /\ raw' = raw \ {a}
             /\ UNCHANGED <<phase, kept, temp>>
    BY <2>2, FreeRawGoal
  <2> QED BY <1>16, <2>1, <2>2 DEF EmitBuffer
<1> QED BY <1>1, <1>2, <1>3, <1>4, <1>5, <1>6, <1>7, <1>8, <1>9, <1>10, <1>11,
           <1>12, <1>13, <1>14, <1>15, <1>16 DEF Next

LEMMA StutterGoal ==
  ASSUME Inv, UNCHANGED vars
  PROVE  Goal
<1>1. UNCHANGED <<nodes, owner, defined, phase, kept, temp, raw>> /\ Released' = Released
  BY DEF vars, Released
<1>2. Inv'
  BY <1>1 DEF Inv, Memory, Uses, Allocated, Distinct, Addresses
<1>3. UNCHANGED Abs!vars
  BY <1>1 DEF Abs!vars
<1> QED BY <1>2, <1>3 DEF Goal

LEMMA Invariance == Spec => []Inv
<1>1. Inv /\ [Next]_vars => Inv'
  BY NextGoal, StutterGoal DEF Goal
<1> QED BY InitInv, <1>1, PTL DEF Spec

(* For every number of blocks and nodes: no list is walked over a freed    *)
(* node and no address is freed twice.                                     *)
THEOREM NothingUndefinedSafe == Spec => []NothingUndefined
<1>1. Inv => NothingUndefined
  BY DEF Inv, Memory, NothingUndefined
<1> QED BY <1>1, Invariance, PTL

(* What a phase reads is still allocated in the space it came from.        *)
THEOREM KeptAliveSafe == Spec => []KeptAlive
<1>1. Inv => KeptAlive
  <2> SUFFICES ASSUME Inv, NEW t \in Reads[phase] PROVE \A a \in kept[t] : owner[a] = t
    BY DEF KeptAlive
  <2>1. t \in Tags \ Released
    BY DEF Inv, Uses, Phases, Reads, Released, Tags
  <2> QED BY <2>1 DEF Inv, Uses
<1> QED BY <1>1, Invariance, PTL

(* The lists of nodes, the heads that keep pointing to what was freed and  *)
(* the three ways to return a block implement the abstract spaces.         *)
THEOREM SpacesImplemented == Spec => KeepsSpaces
<1>1. Inv /\ [Next]_vars => [Abs!Next]_(Abs!vars)
  BY NextGoal, StutterGoal DEF Goal
<1>2. Init => Abs!Init
  BY InitInv
<1> QED BY <1>1, <1>2, Invariance, PTL DEF Spec, KeepsSpaces, Abs!Spec

(* The type invariant, and that every allocated block is listed.           *)
THEOREM MemoryTypes == Spec => []TypeOK
<1>1. Inv => TypeOK
  <2> SUFFICES ASSUME Inv PROVE TypeOK
    OBVIOUS
  <2>1. \A t \in Tags : \A i \in DOMAIN nodes[t] : nodes[t][i] \in [addr : Addr, freed : BOOLEAN]
    BY Element DEF Inv, Memory, NodeType
  <2> QED BY <2>1 DEF Inv, Memory, Uses, Phases, TypeOK
<1> QED BY <1>1, Invariance, PTL

=============================================================================

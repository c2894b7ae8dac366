------------------------------- MODULE Mspace -------------------------------
(***************************************************************************)
(* The memory spaces (memory/mspace.cpp) and their use by the phases of    *)
(* the compiler (main.cpp).  A space is a list of nodes, each with the     *)
(* address of a block; a block is given back on its own with pccFree, with *)
(* all of its space with pccFreeSpace, or past the spaces with free.  The  *)
(* allocator may hand out an address again as soon as it is free.          *)
(*                                                                         *)
(* The list of a space is its nodes in order.  A node that is freed while  *)
(* a pointer to it remains stays in the list as a freed node; to touch one *)
(* is undefined, and so is to free an address that is not allocated.       *)
(***************************************************************************)
EXTENDS Naturals, Sequences

CONSTANTS
  Addr,     \* the addresses malloc returns for blocks
  None,     \* no space
  MaxNodes  \* bound on the nodes of a list

Tags == {"preprocessor", "lexer", "var", "syntaxer", "mir", "arm64_bin"}

ASSUME MspaceAssumption == None \notin Tags /\ MaxNodes \in Nat

VARIABLES
  nodes,    \* memHead: the list of each space
  owner,    \* the space an address is allocated in, or None
  defined,  \* nothing undefined has happened
  phase,    \* what main is doing
  kept,     \* the blocks of each space that a later reader still points to
  temp,     \* the blocks pccFree will return: scope nodes, the method in work
  raw       \* the blocks free will return: variable nodes, instruction nodes

memory == <<nodes, owner, defined>>
vars   == <<nodes, owner, defined, phase, kept, temp, raw>>

-----------------------------------------------------------------------------
(* mspace.cpp.                                                             *)

Allocated(a) == owner[a] # None

\* No node of the first n is freed: they can be walked.
Sound(list, n) == \A i \in 1..n : ~ list[i].freed

Freed(node) == [addr |-> node.addr, freed |-> TRUE]

Addresses(list) == {list[i].addr : i \in DOMAIN list}

\* Faulty: the node is put behind the head, and the rest of the list is lost.
PccMallocBehindHead(t, a) ==
  /\ ~ Allocated(a) /\ Len(nodes[t]) < MaxNodes
  /\ nodes' = [nodes EXCEPT ![t] = (IF @ = <<>> THEN <<>> ELSE <<Head(@)>>)
                                     \o <<[addr |-> a, freed |-> FALSE]>>]
  /\ owner' = [owner EXCEPT ![a] = t]
  /\ UNCHANGED defined

\* pccMalloc: appendMemNodeToHead walks to the end of the list.
PccMalloc(t, a) ==
  /\ ~ Allocated(a) /\ Len(nodes[t]) < MaxNodes
  /\ defined' = (defined /\ Sound(nodes[t], Len(nodes[t])))
  /\ nodes' = [nodes EXCEPT ![t] = Append(@, [addr |-> a, freed |-> FALSE])]
  /\ owner' = [owner EXCEPT ![a] = t]

\* Faulty: the node is freed and not taken out of the list.
UnlinkNever(list, i) == [list EXCEPT ![i] = Freed(@)]

\* The list without its node i.  The head keeps pointing to the first node.
Unlink(list, i) ==
  IF i = 1 THEN [list EXCEPT ![1] = Freed(@)]
  ELSE SubSeq(list, 1, i - 1) \o SubSeq(list, i + 1, Len(list))

IsFirst(list, i, a) == list[i].addr = a /\ \A j \in 1..(i - 1) : list[j].addr # a

\* pccFree returns the first block of the list with the address; an address that is
\* not listed is only logged.
PccFree(t, a) ==
  IF a \notin Addresses(nodes[t])
  THEN /\ defined' = (defined /\ Sound(nodes[t], Len(nodes[t])))
       /\ UNCHANGED <<nodes, owner>>
  ELSE \E i \in DOMAIN nodes[t] :
         /\ IsFirst(nodes[t], i, a)
         /\ defined' = (defined /\ Sound(nodes[t], i) /\ Allocated(a))
         /\ nodes' = [nodes EXCEPT ![t] = Unlink(@, i)]
         /\ owner' = [owner EXCEPT ![a] = None]

Free(a) ==
  /\ defined' = (defined /\ Allocated(a))
  /\ owner' = [owner EXCEPT ![a] = None]
  /\ UNCHANGED nodes

Distinct(list) == \A i, j \in DOMAIN list : list[i].addr = list[j].addr => i = j

\* Faulty: the last node is not reached.
PccFreeSpaceButLast(t) ==
  LET reached == {nodes[t][i].addr : i \in 1 .. (Len(nodes[t]) - 1)} IN
  /\ UNCHANGED defined
  /\ nodes' = [nodes EXCEPT ![t] = [i \in DOMAIN @ |-> Freed(@[i])]]
  /\ owner' = [a \in Addr |-> IF a \in reached THEN None ELSE owner[a]]

\* pccFreeSpace returns every block and every node; the head keeps its pointer.
PccFreeSpace(t) ==
  /\ defined' = /\ defined
                /\ Sound(nodes[t], Len(nodes[t]))
                /\ Distinct(nodes[t])
                /\ \A a \in Addresses(nodes[t]) : Allocated(a)
  /\ nodes' = [nodes EXCEPT ![t] = [i \in DOMAIN @ |-> Freed(@[i])]]
  /\ owner' = [a \in Addr |-> IF a \in Addresses(nodes[t]) THEN None ELSE owner[a]]

-----------------------------------------------------------------------------
(* The phases, in the order of main.                                       *)

Keep(t, a) == /\ PccMalloc(t, a)
              /\ kept' = [kept EXCEPT ![t] = @ \cup {a}]
              /\ UNCHANGED <<phase, temp, raw>>

\* preprocess keeps the lines of the source.
Preprocess == phase = "preprocess" /\ \E a \in Addr : Keep("preprocessor", a)

Preprocessed == /\ phase = "preprocess"
                /\ phase' = "lex"
                /\ UNCHANGED <<memory, kept, temp, raw>>

\* buildTokens keeps the tokens, and their contents in a space of their own.
BuildTokens == phase = "lex" /\ \E a \in Addr : Keep("lexer", a) \/ Keep("var", a)

ReleasePreProcessorMemory ==
  /\ phase = "lex"
  /\ PccFreeSpace("preprocessor")
  /\ phase' = "parse"
  /\ UNCHANGED <<kept, temp, raw>>

\* buildAst keeps the tree, the AstProgram first.
BuildAst == phase = "parse" /\ \E a \in Addr : Keep("syntaxer", a)

\* pushMethod and addVar: the nodes of a scope.
PushScope ==
  /\ phase = "parse" /\ nodes["syntaxer"] # <<>>
  /\ \E a \in Addr : PccMalloc("syntaxer", a) /\ temp' = temp \cup {a}
  /\ UNCHANGED <<phase, kept, raw>>

\* freeVarStack, one node.
FreeVarStack ==
  /\ phase = "parse"
  /\ \E a \in temp : PccFree("syntaxer", a) /\ temp' = temp \ {a}
  /\ UNCHANGED <<phase, kept, raw>>

\* Faulty: the tree is released, not the tokens.
ReleaseAstForLexer ==
  /\ phase = "parse" /\ nodes["syntaxer"] # <<>> /\ temp = {}
  /\ PccFreeSpace("syntaxer")
  /\ phase' = "mir"
  /\ UNCHANGED <<kept, temp, raw>>

\* Every method that was pushed is popped.
ReleaseLexerMemory ==
  /\ phase = "parse" /\ nodes["syntaxer"] # <<>> /\ temp = {}
  /\ PccFreeSpace("lexer")
  /\ phase' = "mir"
  /\ UNCHANGED <<kept, temp, raw>>

\* generateMir keeps the codes, the Mir first.
GenerateMir == phase = "mir" /\ \E a \in Addr : Keep("mir", a)

\* A MirMethod, which is kept unless the method turns out to be extern.
BeginMethod ==
  /\ phase = "mir" /\ nodes["mir"] # <<>> /\ temp = {}
  /\ \E a \in Addr : PccMalloc("mir", a) /\ temp' = {a}
  /\ UNCHANGED <<phase, kept, raw>>

EndMethod ==
  /\ phase = "mir"
  /\ \E a \in temp : \/ PccFree("mir", a) /\ UNCHANGED kept
                     \/ /\ kept' = [kept EXCEPT !["mir"] = @ \cup {a}]
                        /\ UNCHANGED memory
  /\ temp' = {}
  /\ UNCHANGED <<phase, raw>>

\* addVarInfo.
AddVarInfo ==
  /\ phase = "mir" /\ nodes["mir"] # <<>>
  /\ \E a \in Addr : PccMalloc("mir", a) /\ raw' = raw \cup {a}
  /\ UNCHANGED <<phase, kept, temp>>

\* resetVarInfo, one node: it is given back past its space.
ResetVarInfo ==
  /\ phase = "mir"
  /\ \E a \in raw : Free(a) /\ raw' = raw \ {a}
  /\ UNCHANGED <<phase, kept, temp>>

ReleaseAstMemory ==
  /\ phase = "mir" /\ nodes["mir"] # <<>> /\ temp = {}
  /\ PccFreeSpace("syntaxer")
  /\ phase' = "target"
  /\ UNCHANGED <<kept, temp, raw>>

\* The instructions collected by the code generator, and free in
\* getEmittedInstBuffer once they are in the buffer.
EmitInst ==
  /\ phase = "target"
  /\ \E a \in Addr : PccMalloc("arm64_bin", a) /\ raw' = raw \cup {a}
  /\ UNCHANGED <<phase, kept, temp>>

EmitBuffer ==
  \/ phase = "target" /\ \E a \in Addr : Keep("arm64_bin", a)
  \/ /\ phase = "target"
     /\ \E a \in raw : owner[a] = "arm64_bin" /\ Free(a) /\ raw' = raw \ {a}
     /\ UNCHANGED <<phase, kept, temp>>

Init ==
  /\ nodes = [t \in Tags |-> <<>>]
  /\ owner = [a \in Addr |-> None]
  /\ defined = TRUE
  /\ phase = "preprocess"
  /\ kept = [t \in Tags |-> {}]
  /\ temp = {} /\ raw = {}

Next ==
  \/ Preprocess \/ Preprocessed
  \/ BuildTokens \/ ReleasePreProcessorMemory
  \/ BuildAst \/ PushScope \/ FreeVarStack \/ ReleaseLexerMemory
  \/ GenerateMir \/ BeginMethod \/ EndMethod \/ AddVarInfo \/ ResetVarInfo
  \/ ReleaseAstMemory
  \/ EmitInst \/ EmitBuffer

Spec == Init /\ [][Next]_vars

-----------------------------------------------------------------------------
(* Properties.                                                             *)

\* The type invariant: a block that is allocated is listed in its space.
TypeOK ==
  /\ \A t \in Tags : \A i \in DOMAIN nodes[t] : nodes[t][i] \in [addr : Addr, freed : BOOLEAN]
  /\ owner \in [Addr -> Tags \cup {None}]
  /\ phase \in {"preprocess", "lex", "parse", "mir", "target"}
  /\ kept \in [Tags -> SUBSET Addr]
  /\ temp \subseteq Addr /\ raw \subseteq Addr
  /\ \A a \in Addr : Allocated(a) => a \in Addresses(nodes[owner[a]])

\* No list is walked over a freed node and no address is freed twice, although
\* pccFree leaves the head on a first node it frees, pccFreeSpace leaves it on the
\* whole list, and resetVarInfo frees blocks that stay listed.
NothingUndefined == defined

\* The spaces a phase reads through pointers it was given.
Reads == [preprocess |-> {"preprocessor"},
          lex        |-> {"preprocessor", "lexer", "var"},
          parse      |-> {"lexer", "var", "syntaxer"},
          mir        |-> {"syntaxer", "var", "mir"},
          target     |-> {"mir", "var", "arm64_bin"}]

\* What a phase reads is still allocated, and in the space it came from: no space is
\* released too early, and no block is given to somebody else while it is in use.
KeptAlive ==
  \A t \in Reads[phase] : \A a \in kept[t] : owner[a] = t

\* The spaces main has released.
Released == IF phase \in {"preprocess", "lex"} THEN {}
            ELSE IF phase = "parse" THEN {"preprocessor"}
            ELSE IF phase = "mir" THEN {"preprocessor", "lexer"}
            ELSE {"preprocessor", "lexer", "syntaxer"}

Abs == INSTANCE Spaces WITH
  space    <- [t \in Tags |-> {a \in Addr : owner[a] = t}],
  released <- Released

\* The lists of nodes are spaces: releasing one returns all its blocks and no other.
KeepsSpaces == Abs!Spec

=============================================================================

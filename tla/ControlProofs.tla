--------------------------- MODULE ControlProofs ----------------------------
(***************************************************************************)
(* Whatever the program, and however deep its statements, the code of its  *)
(* methods does what the source says; every branch in it has one place to  *)
(* go to; and it enters and leaves loops only at their flags.              *)
(*                                                                         *)
(* The argument: every place in the code can be given the list of what the *)
(* source has still to do there, and every label the list where it is      *)
(* placed, so that each code, and each call of the generator still to be   *)
(* made, leads from its list to the list behind it and to those of the     *)
(* labels it branches to (Ok, Meant).  The codes that a call becomes keep  *)
(* this promise with some lists for their own places and labels (Kept,     *)
(* StaysMeant); so does a running method, that has at each place to do     *)
(* what the place promises (Follows, InvStep).                             *)
(*                                                                         *)
(* A label is allocated and placed by the same call (NewLabels,            *)
(* StaysOnce).  How deep in loops a place is adds up along the code; what  *)
(* a call becomes is nowhere less deep than it was, and its branches stay  *)
(* as deep (Balanced, StaysLoopy).                                         *)
(***************************************************************************)
EXTENDS Control, Integers, FiniteSetTheorems, SequenceTheorems, TLAPS

-----------------------------------------------------------------------------
(* The statements the source may have to do.                               *)

Dos  == [kind : {"do"}, act : Acts]
Base == Statements \cup Dos

\* The loops that Unroll makes of for, and the ifs it makes of loops.
Loops == {s \in [kind : {"while"}, cond : Conditions \cup {<<>>}, body : Seq(Base)] :
            s.cond = <<>> => s.body # <<>>}
Ifs   == [kind : {"if"}, cond : Conditions, yes : Seq(Base \cup Loops), no : Seq(Base)]
Fors  == [kind : {"for"}, init : Acts, cond : Conditions \cup {<<>>}, after : Acts,
          body : Seq(Statements)]

Stmts == Base \cup Loops \cup Ifs
Lists == Seq(Stmts)

\* What Unroll makes of a loop s.
Begin(s)    == [kind |-> "do", act |-> s.init]
LoopOf(s)   == [kind |-> "while", cond |-> s.cond,
                body |-> Append(s.body, [kind |-> "do", act |-> s.after])]
ChoiceOf(s) == [kind |-> "if", cond |-> s.cond, yes |-> Append(s.body, s), no |-> <<>>]

U(w) == Abs!Unfold(w)

\* What the source has to do at one place and at another is the same.
Same(v, w) == U(v) = U(w)

-----------------------------------------------------------------------------
(* Sequences.                                                              *)

(* One element in front of a list.                                         *)
LEMMA Cons ==
  ASSUME NEW S, NEW s \in S, NEW w \in Seq(S)
  PROVE  /\ <<s>> \o w \in Seq(S) /\ <<s>> \o w # <<>>
         /\ Head(<<s>> \o w) = s /\ Tail(<<s>> \o w) = w
<1>1. <<s>> \in Seq(S) /\ <<s>> # <<>> /\ Head(<<s>>) = s /\ Tail(<<s>>) = <<>>
  OBVIOUS
<1>2. /\ <<s>> \o w \in Seq(S)
      /\ Head(<<s>> \o w) = s
      /\ Len(<<s>> \o w) = 1 + Len(w)
  BY <1>1
<1>3. Tail(<<s>> \o w) = w
  <2>. DEFINE t == <<s>> \o w
  <2>1. t \in Seq(S) /\ t # <<>> /\ Len(t) = 1 + Len(w) /\ \A i \in 2 .. 1 + Len(w) : t[i] = w[i - 1]
    BY <1>1, ConcatProperties
  <2>2. Tail(t) \in Seq(S) /\ Len(Tail(t)) = Len(w) /\ \A i \in 1 .. Len(w) : Tail(t)[i] = t[i + 1]
    BY <2>1
  <2>3. \A i \in 1 .. Len(w) : Tail(t)[i] = w[i]
    BY <2>1, <2>2
  <2>. QED
    BY <2>2, <2>3, SeqEqual
<1>. QED
  BY <1>1, <1>2, <1>3

(* A list is its head in front of its tail.                                *)
LEMMA Uncons ==
  ASSUME NEW S, NEW w \in Seq(S), w # <<>>
  PROVE  w = <<Head(w)>> \o Tail(w) /\ Head(w) \in S /\ Tail(w) \in Seq(S)
OBVIOUS

(* Concatenation is associative.                                           *)
LEMMA Assoc ==
  ASSUME NEW S, NEW u \in Seq(S), NEW v \in Seq(S), NEW w \in Seq(S)
  PROVE  (u \o v) \o w = u \o (v \o w) /\ u \o v \in Seq(S)
BY ConcatAssociative, ConcatProperties

(* The head of a list stays it when another follows.                       *)
LEMMA HeadConcat ==
  ASSUME NEW S, NEW u \in Seq(S), u # <<>>, NEW w \in Seq(S)
  PROVE  u \o w \in Seq(S) /\ u \o w # <<>> /\ Head(u \o w) = Head(u)
<1>1. Len(u) \in Nat /\ Len(u) # 0 /\ Len(w) \in Nat
  BY EmptySeq
<1>2. u \o w \in Seq(S) /\ Len(u \o w) = Len(u) + Len(w) /\ (u \o w)[1] = u[1]
  BY <1>1, ConcatProperties
<1>. QED
  BY <1>1, <1>2

(* Two elements in front of a list.                                        *)
LEMMA Two ==
  ASSUME NEW S, NEW a \in S, NEW b \in S, NEW w \in Seq(S)
  PROVE  <<a, b>> \o w = <<a>> \o (<<b>> \o w)
<1>1. <<a>> \in Seq(S) /\ <<b>> \in Seq(S) /\ <<a, b>> \in Seq(S)
  OBVIOUS
<1>2. <<a, b>> = <<a>> \o <<b>>
  <2>. DEFINE v == <<a>> \o <<b>>
  <2>1. v \in Seq(S) /\ Len(v) = 2 /\ v[1] = a /\ v[2] = b
    BY <1>1, ConcatProperties
  <2>2. Len(<<a, b>>) = 2 /\ <<a, b>>[1] = a /\ <<a, b>>[2] = b
    OBVIOUS
  <2>3. \A i \in 1 .. Len(v) : v[i] = <<a, b>>[i]
    BY <2>1, <2>2
  <2>. QED
    BY <1>1, <2>1, <2>2, <2>3, SeqEqual
<1>. QED
  BY <1>1, <1>2, Assoc

(* An element behind a list that another follows is an element in front.   *)
LEMMA AppendConcat ==
  ASSUME NEW S, NEW u \in Seq(S), NEW s \in S, NEW w \in Seq(S)
  PROVE  Append(u, s) \o w = u \o (<<s>> \o w)
<1>1. Append(u, s) = u \o <<s>> /\ <<s>> \in Seq(S)
  OBVIOUS
<1>. QED
  BY <1>1, Assoc

-----------------------------------------------------------------------------
(* The same for lists of statements.                                       *)

(* A list with another behind it.                                          *)
LEMMA Front ==
  ASSUME NEW u \in Lists, u # <<>>, NEW w \in Lists
  PROVE  u \o w \in Lists /\ u \o w # <<>> /\ Head(u \o w) = Head(u)
BY HeadConcat DEF Lists

(* A statement between two lists.                                          *)
LEMMA Nested ==
  ASSUME NEW u \in Lists, NEW s \in Stmts, NEW w \in Lists
  PROVE  /\ Append(u, s) \in Lists
         /\ Append(u, s) \o w = u \o (<<s>> \o w)
         /\ u \o (<<s>> \o w) \in Lists
<1>1. Append(u, s) \in Lists /\ Append(u, s) \o w = u \o (<<s>> \o w)
  BY AppendConcat, AppendProperties DEF Lists
<1>2. <<s>> \o w \in Lists
  BY Cons DEF Lists
<1>. QED
  BY <1>1, <1>2, ConcatProperties DEF Lists

-----------------------------------------------------------------------------
(* What Structured makes of them.                                          *)

(* A statement's kind says what it is.                                     *)
LEMMA Kinds ==
  ASSUME NEW s \in Stmts
  PROVE  /\ s.kind \in {"do", "if", "while", "for"}
         /\ s.kind = "do" => s \in Dos
         /\ s.kind = "if" => s \in Ifs
         /\ s.kind = "while" => s \in Loops
         /\ s.kind = "for" => s \in Fors
<1>1. Seq(Statements) \subseteq Seq(Base) /\ Seq(Base) \subseteq Seq(Base \cup Loops)
      /\ Seq(Statements) \subseteq Seq(Base \cup Loops)
  BY DEF Base
<1>2. <<>> \notin Conditions
  BY DEF Conditions
<1>3. CASE s \in Statements
  <2>1. s \in Forms
    BY <1>3, ProgramsAssumption
  <2>2. CASE s \in [kind : {"do"}, act : Acts]
    BY <2>2 DEF Dos
  <2>3. CASE s \in [kind : {"if"}, cond : Conditions, yes : Seq(Statements), no : Seq(Statements)]
    BY <2>3, <1>1 DEF Ifs
  <2>4. CASE s \in [kind : {"while"}, cond : Conditions, body : Seq(Statements)]
    BY <2>4, <1>1, <1>2 DEF Loops
  <2>5. CASE s \in Fors
    BY <2>5 DEF Fors
  <2>. QED
    BY <2>1, <2>2, <2>3, <2>4, <2>5 DEF Forms, Fors
<1>4. CASE s \in Dos
  BY <1>4 DEF Dos
<1>5. CASE s \in Loops
  BY <1>5 DEF Loops
<1>6. CASE s \in Ifs
  BY <1>6 DEF Ifs
<1>. QED
  BY <1>3, <1>4, <1>5, <1>6 DEF Stmts, Base

(* A statement of a method is no loop without a condition.                 *)
LEMMA BaseConditions ==
  ASSUME NEW s \in Base, s.kind = "while"
  PROVE  s \in Loops /\ s.cond \in Conditions /\ s.cond # <<>>
<1>1. s \notin Dos
  BY DEF Dos
<1>2. s \in Forms
  BY <1>1, ProgramsAssumption DEF Base
<1>3. s \in [kind : {"while"}, cond : Conditions, body : Seq(Statements)]
  BY <1>2 DEF Forms
<1>. QED
  BY <1>3, Kinds DEF Conditions, Stmts

(* The statements have the lists they need.                                *)
LEMMA Parts ==
  /\ Seq(Base) \subseteq Lists /\ Seq(Base \cup Loops) \subseteq Lists /\ Seq(Statements) \subseteq Seq(Base)
  /\ Dos \subseteq Stmts /\ Loops \subseteq Stmts /\ Ifs \subseteq Stmts /\ Base \subseteq Stmts
  /\ <<>> \in Lists
BY DEF Lists, Stmts, Base

(* A list that begins with an action or an if is taken apart already.      *)
LEMMA Stable ==
  ASSUME NEW w \in Lists, w = <<>> \/ Head(w).kind \in {"do", "if"}
  PROVE  Abs!Unroll(w) = w /\ U(w) = w
BY DEF Abs!Unroll, Abs!Unfold, U

(* A for is its first action and a loop with its last action in the body.  *)
LEMMA UnrollFor ==
  ASSUME NEW s \in Stmts, s.kind = "for", NEW w \in Lists
  PROVE  /\ Begin(s) \in Dos /\ LoopOf(s) \in Loops
         /\ Abs!Unroll(<<s>> \o w) = <<Begin(s)>> \o (<<LoopOf(s)>> \o w)
         /\ U(<<s>> \o w) = <<Begin(s)>> \o (<<LoopOf(s)>> \o w)
<1>1. s \in Fors
  BY Kinds
<1>2. Begin(s) \in Dos /\ [kind |-> "do", act |-> s.after] \in Dos
  BY <1>1 DEF Fors, Dos, Begin
<1>3. LoopOf(s) \in Loops
  <2>1. s.body \in Seq(Base) /\ [kind |-> "do", act |-> s.after] \in Base
    BY <1>1, <1>2, Parts DEF Fors, Base
  <2>2. Append(s.body, [kind |-> "do", act |-> s.after]) \in Seq(Base)
        /\ Append(s.body, [kind |-> "do", act |-> s.after]) # <<>>
    BY <2>1, AppendProperties
  <2>. QED
    BY <1>1, <2>2 DEF Fors, Loops, LoopOf
<1>4. <<s>> \o w # <<>> /\ Head(<<s>> \o w) = s /\ Tail(<<s>> \o w) = w
  BY Cons DEF Lists
<1>5. Abs!Unroll(<<s>> \o w) = <<Begin(s), LoopOf(s)>> \o w
  BY <1>4 DEF Abs!Unroll, Abs!Do, Begin, LoopOf
<1>6. Begin(s) \in Stmts /\ LoopOf(s) \in Stmts
  BY <1>2, <1>3, Parts
<1>7. <<Begin(s), LoopOf(s)>> \o w = <<Begin(s)>> \o (<<LoopOf(s)>> \o w)
  BY <1>6, Two DEF Lists
<1>8. <<LoopOf(s)>> \o w \in Lists
  BY <1>6, Cons DEF Lists
<1>9. /\ <<Begin(s)>> \o (<<LoopOf(s)>> \o w) \in Lists
      /\ Head(<<Begin(s)>> \o (<<LoopOf(s)>> \o w)).kind = "do"
  BY <1>2, <1>6, <1>8, Cons DEF Lists, Dos
<1>. QED
  BY <1>2, <1>3, <1>5, <1>7, <1>9, Stable DEF Abs!Unfold, U

(* A loop with a condition is an if around its body and itself.            *)
LEMMA UnrollWhile ==
  ASSUME NEW s \in Loops, s.cond # <<>>, NEW w \in Lists
  PROVE  /\ ChoiceOf(s) \in Ifs
         /\ Abs!Unroll(<<s>> \o w) = <<ChoiceOf(s)>> \o w
         /\ U(<<s>> \o w) = <<ChoiceOf(s)>> \o w
         /\ ChoiceOf(s).yes \o w = s.body \o (<<s>> \o w) /\ ChoiceOf(s).no \o w = w
         /\ ChoiceOf(s).cond = s.cond
<1>1. s.kind = "while" /\ s.cond \in Conditions /\ s.body \in Seq(Base) /\ s \in Stmts
  BY Parts DEF Loops
<1>2. Append(s.body, s) \in Seq(Base \cup Loops) /\ <<>> \in Seq(Base)
  <2>1. s.body \in Seq(Base \cup Loops)
    BY <1>1
  <2>. QED
    BY <2>1, AppendProperties
<1>3. ChoiceOf(s) \in Ifs
  BY <1>1, <1>2 DEF Ifs, ChoiceOf
<1>4. <<s>> \o w # <<>> /\ Head(<<s>> \o w) = s /\ Tail(<<s>> \o w) = w
  BY <1>1, Cons DEF Lists
<1>5. Abs!Unroll(<<s>> \o w) = <<ChoiceOf(s)>> \o w
  BY <1>1, <1>4 DEF Abs!Unroll, ChoiceOf
<1>6. <<ChoiceOf(s)>> \o w \in Lists /\ Head(<<ChoiceOf(s)>> \o w).kind = "if"
  BY <1>3, Parts, Cons DEF Lists, Ifs
<1>7. Append(s.body, s) \o w = s.body \o (<<s>> \o w)
  <2>1. s.body \in Seq(Stmts) /\ w \in Seq(Stmts) /\ s \in Stmts
    BY <1>1, Parts DEF Lists
  <2>. HIDE DEF Loops
  <2>. QED
    BY <2>1, Nested DEF Lists
<1>8. <<>> \o w = w
  BY ConcatEmptySeq DEF Lists
<1>9. ChoiceOf(s).yes = Append(s.body, s) /\ ChoiceOf(s).no = <<>> /\ ChoiceOf(s).cond = s.cond
  BY DEF ChoiceOf
<1>. QED
  BY <1>3, <1>5, <1>6, <1>7, <1>8, <1>9, Stable DEF Abs!Unfold, U

(* A loop without a condition is its body and itself.                      *)
LEMMA UnrollForever ==
  ASSUME NEW s \in Loops, s.cond = <<>>, NEW w \in Lists
  PROVE  /\ s.body \o (<<s>> \o w) \in Lists
         /\ Abs!Unroll(<<s>> \o w) = s.body \o (<<s>> \o w)
         /\ U(<<s>> \o w) = U(s.body \o (<<s>> \o w))
         /\ U(<<s>> \o w) = Abs!Unroll(s.body \o (<<s>> \o w))
         /\ U(<<s>> \o w) \in Lists
         /\ U(<<s>> \o w) = <<>> \/ Head(U(<<s>> \o w)).kind \in {"do", "if"}
<1>. DEFINE b == s.body \o (<<s>> \o w)
<1>1. s.kind = "while" /\ s.body \in Seq(Base) /\ s.body # <<>> /\ s \in Stmts
  BY Parts DEF Loops
<1>2. <<s>> \o w \in Lists /\ <<s>> \o w # <<>> /\ Head(<<s>> \o w) = s
  BY <1>1, Cons DEF Lists
<1>3. s.body \in Lists
  BY <1>1, Parts
<1>4. b \in Lists /\ b # <<>> /\ Head(b) = s.body[1] /\ s.body[1] \in Base
  <2>1. Len(s.body) \in Nat \ {0} /\ s.body[1] \in Base
    BY <1>1, EmptySeq
  <2>2. b \in Lists /\ b # <<>> /\ Head(b) = Head(s.body)
    BY <1>1, <1>2, <1>3, Front
  <2>3. Head(s.body) = s.body[1]
    BY <1>1
  <2>. QED
    BY <2>1, <2>2, <2>3
<1>5. Abs!Unroll(<<s>> \o w) = b
  BY <1>1, <1>2 DEF Abs!Unroll
<1>. HIDE DEF b
<1>6. U(<<s>> \o w) = Abs!Unroll(b)
  BY <1>5 DEF U, Abs!Unfold
<1>7. b = <<Head(b)>> \o Tail(b) /\ Tail(b) \in Lists /\ Head(b) \in Stmts /\ Head(b) \in Base
  BY <1>4, Uncons DEF Lists
<1>8. CASE Head(b).kind \in {"do", "if"}
  <2>1. Abs!Unroll(b) = b /\ U(b) = b
    BY <1>4, <1>8, Stable
  <2>. QED
    BY <1>4, <1>5, <1>6, <1>8, <2>1 DEF b
<1>9. CASE Head(b).kind = "for"
  <2>1. Abs!Unroll(b) = U(b)
    BY <1>7, <1>9, UnrollFor
  <2>2. U(b) = <<Begin(Head(b))>> \o (<<LoopOf(Head(b))>> \o Tail(b)) /\ Begin(Head(b)) \in Dos
        /\ LoopOf(Head(b)) \in Loops
    BY <1>7, <1>9, UnrollFor
  <2>3. U(b) \in Lists /\ Head(U(b)).kind = "do"
    BY <2>2, <1>7, Parts, Cons DEF Lists, Dos
  <2>. QED
    BY <1>4, <1>5, <1>6, <2>1, <2>3 DEF b
<1>10. CASE Head(b).kind = "while"
  <2>1. Head(b) \in Loops /\ Head(b).cond # <<>>
    BY <1>7, <1>10, BaseConditions
  <2>2. Abs!Unroll(b) = U(b) /\ U(b) = <<ChoiceOf(Head(b))>> \o Tail(b) /\ ChoiceOf(Head(b)) \in Ifs
    <3>. DEFINE h == Head(b)  r == Tail(b)
    <3>1. h \in Loops /\ h.cond # <<>> /\ r \in Lists /\ b = <<h>> \o r
      BY <1>7, <2>1
    <3>. HIDE DEF h, r
    <3>2. /\ Abs!Unroll(<<h>> \o r) = <<ChoiceOf(h)>> \o r
          /\ U(<<h>> \o r) = <<ChoiceOf(h)>> \o r
          /\ ChoiceOf(h) \in Ifs
      BY <3>1, UnrollWhile
    <3>. QED
      BY <3>1, <3>2 DEF h, r
  <2>3. U(b) \in Lists /\ Head(U(b)).kind = "if"
    BY <2>2, <1>7, Parts, Cons DEF Lists, Ifs
  <2>. QED
    BY <1>4, <1>5, <1>6, <2>2, <2>3 DEF b
<1>11. Head(b).kind \in {"do", "if", "while", "for"}
  BY <1>7, Kinds
<1>. QED
  BY <1>8, <1>9, <1>10, <1>11

-----------------------------------------------------------------------------
(* Codes with the first l labels.                                          *)

Labels(l) == 0 .. (l - 1)

Instructions(l) ==
  [op : {"act"}, name : Acts]
  \cup [op : {"cmp"}, name : Comparisons, true : Labels(l), false : Labels(l)]
  \cup [op : {"jmp"}, label : Labels(l)]
  \cup [op : {"label"}, label : Labels(l)]
  \cup [op : {"flag"}, flag : {"ENTER_BLOCK", "EXIT_BLOCK", "ENTER_LOOP_BLOCK", "EXIT_LOOP_BLOCK"}]
  \cup [op : {"method"}, method : Nat]
  \cup [op : {"ret"}]

Items == Seq(Factors) \ {<<>>}

Pending(l) ==
  [op : {"methodOf"}, method : Nat, body : Seq(Statements)]
  \cup [op : {"seqOf"}, seq : Seq(Base)]
  \cup [op : {"statementOf"}, statement : Base]
  \cup [op : {"boolOf"}, cond : Conditions \cup {<<>>}, true : Labels(l), false : Labels(l)]
  \cup [op : {"itemOf"}, item : Items, true : Labels(l), false : Labels(l)]
  \cup [op : {"factorOf"}, factor : Factors, true : Labels(l), false : Labels(l)]

Codes(l) == Instructions(l) \cup Pending(l)

(* The codes by their op.                                                  *)
LEMMA CodeKinds ==
  ASSUME NEW l \in Nat, NEW c \in Codes(l)
  PROVE  /\ c.op \in {"act", "cmp", "jmp", "label", "flag", "method", "ret"} \cup Calls
         /\ c \in Pending(l) <=> c.op \in Calls
         /\ c.op = "act" => c.name \in Acts
         /\ c.op = "cmp" => c.name \in Comparisons /\ c.true \in Labels(l) /\ c.false \in Labels(l)
         /\ c.op \in {"jmp", "label"} => c.label \in Labels(l)
         /\ c.op = "label" => c = Label(c.label)
         /\ c.op = "flag" => c = Flag(c.flag)
         /\ c.op = "method" => c.method \in Nat /\ c = Method(c.method)
         /\ c.op = "methodOf" => c.method \in Nat /\ c.body \in Seq(Statements)
         /\ c.op = "seqOf" => c.seq \in Seq(Base)
         /\ c.op = "statementOf" => c.statement \in Base
         /\ c.op = "boolOf" => c.cond \in Conditions \cup {<<>>} /\ c.true \in Labels(l) /\ c.false \in Labels(l)
         /\ c.op = "itemOf" => c.item \in Items /\ c.true \in Labels(l) /\ c.false \in Labels(l)
         /\ c.op = "factorOf" => c.factor \in Factors /\ c.true \in Labels(l) /\ c.false \in Labels(l)
<1>1. CASE c \in Instructions(l)
  BY <1>1 DEF Instructions, Pending, Calls, Label, Flag, Method
<1>2. CASE c \in Pending(l)
  BY <1>2 DEF Pending, Calls
<1>. QED
  BY <1>1, <1>2 DEF Codes

(* The codes with more labels allocated.                                   *)
LEMMA CodesGrow ==
  ASSUME NEW l \in Nat, NEW m \in Nat, l <= m
  PROVE  Codes(l) \subseteq Codes(m) /\ Labels(l) \subseteq Labels(m)
<1>1. Labels(l) \subseteq Labels(m)
  BY DEF Labels
<1>2. Instructions(l) \subseteq Instructions(m)
  BY <1>1 DEF Instructions
<1>3. Pending(l) \subseteq Pending(m)
  BY <1>1 DEF Pending
<1>. QED
  BY <1>1, <1>2, <1>3 DEF Codes

(* A code that is made is a code.                                          *)
LEMMA Made ==
  ASSUME NEW l \in Nat
  PROVE  /\ \A a \in Acts : Act(a) \in Codes(l)
         /\ \A c \in Comparisons, t, f \in Labels(l) : Cmp(c, t, f) \in Codes(l)
         /\ \A x \in Labels(l) : Jmp(x) \in Codes(l) /\ Label(x) \in Codes(l)
         /\ \A f \in {"ENTER_BLOCK", "EXIT_BLOCK", "ENTER_LOOP_BLOCK", "EXIT_LOOP_BLOCK"} : Flag(f) \in Codes(l)
         /\ \A m \in Nat : Method(m) \in Codes(l)
         /\ Ret \in Codes(l)
         /\ \A m \in Nat, body \in Seq(Statements) : MethodOf(m, body) \in Codes(l)
         /\ \A seq \in Seq(Base) : StatementSeqOf(seq) \in Codes(l)
         /\ \A s \in Base : StatementOf(s) \in Codes(l)
         /\ \A cond \in Conditions \cup {<<>>}, t, f \in Labels(l) : BoolOf(cond, t, f) \in Codes(l)
         /\ \A item \in Items, t, f \in Labels(l) : ItemOf(item, t, f) \in Codes(l)
         /\ \A fac \in Factors, t, f \in Labels(l) : FactorOf(fac, t, f) \in Codes(l)
<1>1. /\ \A a \in Acts : Act(a) \in Instructions(l)
      /\ \A c \in Comparisons, t, f \in Labels(l) : Cmp(c, t, f) \in Instructions(l)
      /\ \A x \in Labels(l) : Jmp(x) \in Instructions(l) /\ Label(x) \in Instructions(l)
  BY DEF Act, Cmp, Jmp, Label, Instructions
<1>2. /\ \A f \in {"ENTER_BLOCK", "EXIT_BLOCK", "ENTER_LOOP_BLOCK", "EXIT_LOOP_BLOCK"} : Flag(f) \in Instructions(l)
      /\ \A m \in Nat : Method(m) \in Instructions(l)
      /\ Ret \in Instructions(l)
  BY DEF Flag, Method, Ret, Instructions
<1>3. /\ \A m \in Nat, body \in Seq(Statements) : MethodOf(m, body) \in Pending(l)
      /\ \A seq \in Seq(Base) : StatementSeqOf(seq) \in Pending(l)
      /\ \A s \in Base : StatementOf(s) \in Pending(l)
  BY DEF MethodOf, StatementSeqOf, StatementOf, Pending
<1>4. /\ \A cond \in Conditions \cup {<<>>}, t, f \in Labels(l) : BoolOf(cond, t, f) \in Pending(l)
      /\ \A item \in Items, t, f \in Labels(l) : ItemOf(item, t, f) \in Pending(l)
      /\ \A fac \in Factors, t, f \in Labels(l) : FactorOf(fac, t, f) \in Pending(l)
  BY DEF BoolOf, ItemOf, FactorOf, Pending
<1>. QED
  BY <1>1, <1>2, <1>3, <1>4 DEF Codes

(* What stands where in two lists, one behind the other.                   *)
LEMMA Behind ==
  ASSUME NEW S, NEW a \in Seq(S), NEW b \in Seq(S)
  PROVE  /\ a \o b \in Seq(S)
         /\ Len(a) \in Nat /\ Len(b) \in Nat /\ Len(a \o b) = Len(a) + Len(b)
         /\ \A i \in 1 .. Len(a) : (a \o b)[i] = a[i]
         /\ \A i \in 1 .. Len(b) : (a \o b)[Len(a) + i] = b[i]
OBVIOUS

(* What stands where once a call has been replaced by its codes.           *)
LEMMA Spliced ==
  ASSUME NEW S, NEW p \in Seq(S), NEW h \in 1 .. Len(p), NEW q \in Seq(S)
  PROVE  /\ Splice(p, h, q) \in Seq(S)
         /\ Len(Splice(p, h, q)) = Len(p) + Len(q) - 1
         /\ \A i \in 1 .. (h - 1) : Splice(p, h, q)[i] = p[i]
         /\ \A i \in 1 .. Len(q) : Splice(p, h, q)[h - 1 + i] = q[i]
         /\ \A i \in (h + 1) .. Len(p) : Splice(p, h, q)[i + Len(q) - 1] = p[i]
<1>. DEFINE a == SubSeq(p, 1, h - 1)
            b == SubSeq(p, h + 1, Len(p))
<1>0. Len(p) \in Nat /\ h \in Nat /\ h >= 1 /\ h <= Len(p) /\ Len(q) \in Nat
  OBVIOUS
<1>1. a \in Seq(S) /\ Len(a) = h - 1 /\ \A i \in 1 .. (h - 1) : a[i] = p[i]
  <2>1. \A i \in 1 .. (h - 1) : p[i] \in S
    BY <1>0
  <2>. QED
    BY <1>0, <2>1, SubSeqProperties
<1>2. b \in Seq(S) /\ Len(b) = Len(p) - h /\ \A i \in 1 .. (Len(p) - h) : b[i] = p[h + i]
  <2>1. \A i \in (h + 1) .. Len(p) : p[i] \in S
    BY <1>0
  <2>2. b \in Seq(S) /\ Len(b) = (IF h + 1 <= Len(p) THEN Len(p) - (h + 1) + 1 ELSE 0)
        /\ \A i \in 1 .. (Len(p) - (h + 1) + 1) : b[i] = p[h + 1 + i - 1]
    BY <1>0, <2>1, SubSeqProperties
  <2>. QED
    BY <1>0, <2>2
<1>. HIDE DEF a, b
<1>3. a \o q \in Seq(S) /\ Len(a \o q) = h - 1 + Len(q)
      /\ (\A i \in 1 .. (h - 1) : (a \o q)[i] = a[i])
      /\ \A i \in 1 .. Len(q) : (a \o q)[h - 1 + i] = q[i]
  <2>1. a \in Seq(S) /\ q \in Seq(S)
    BY <1>1
  <2>2. /\ a \o q \in Seq(S)
        /\ Len(a) \in Nat /\ Len(q) \in Nat /\ Len(a \o q) = Len(a) + Len(q)
        /\ \A i \in 1 .. Len(a) : (a \o q)[i] = a[i]
        /\ \A i \in 1 .. Len(q) : (a \o q)[Len(a) + i] = q[i]
    BY ONLY <2>1, Behind
  <2>. QED
    BY <1>0, <1>1, <2>2
<1>. DEFINE aq == a \o q
<1>. HIDE DEF aq
<1>4. /\ aq \o b \in Seq(S) /\ Len(aq \o b) = h - 1 + Len(q) + (Len(p) - h)
      /\ \A i \in 1 .. (h - 1 + Len(q)) : (aq \o b)[i] = aq[i]
      /\ \A i \in 1 .. (Len(p) - h) : (aq \o b)[h - 1 + Len(q) + i] = b[i]
  <2>1. aq \in Seq(S) /\ Len(aq) = h - 1 + Len(q)
    BY <1>3 DEF aq
  <2>. QED
    <3>. HIDE DEF aq
    <3>1. aq \in Seq(S) /\ b \in Seq(S)
      BY <2>1, <1>2
    <3>2. /\ aq \o b \in Seq(S)
          /\ Len(aq) \in Nat /\ Len(b) \in Nat /\ Len(aq \o b) = Len(aq) + Len(b)
          /\ \A i \in 1 .. Len(aq) : (aq \o b)[i] = aq[i]
          /\ \A i \in 1 .. Len(b) : (aq \o b)[Len(aq) + i] = b[i]
      BY ONLY <3>1, Behind
    <3>. QED
      BY <1>0, <3>2, <2>1, <1>2
<1>5. Splice(p, h, q) = aq \o b
  BY DEF Splice, aq, a, b
<1>. DEFINE r == aq \o b
<1>. HIDE DEF r
<1>6. \A i \in 1 .. (h - 1) : r[i] = p[i]
  BY <1>0, <1>1, <1>3, <1>4 DEF aq, r
<1>7. \A i \in 1 .. Len(q) : r[h - 1 + i] = q[i]
  BY <1>0, <1>3, <1>4 DEF aq, r
<1>8. \A i \in (h + 1) .. Len(p) : r[i + Len(q) - 1] = p[i]
  <2>. TAKE i \in (h + 1) .. Len(p)
  <2>1. i - h \in 1 .. (Len(p) - h) /\ h + (i - h) = i /\ h - 1 + Len(q) + (i - h) = i + Len(q) - 1
    BY <1>0
  <2>2. r[h - 1 + Len(q) + (i - h)] = b[i - h] /\ b[i - h] = p[h + (i - h)]
    BY <2>1, <1>2, <1>4 DEF r
  <2>. QED
    BY <2>1, <2>2
<1>9. Len(r) = Len(p) + Len(q) - 1 /\ r \in Seq(S)
  BY <1>0, <1>4 DEF r
<1>. QED
  BY <1>5, <1>6, <1>7, <1>8, <1>9 DEF r

(* Each place then is one of before, in the codes, or behind the call.     *)
LEMMA Places ==
  ASSUME NEW n \in Nat, NEW h \in 1 .. n, NEW k \in Nat, NEW i \in 1 .. (n + k - 1)
  PROVE  \/ i \in 1 .. (h - 1)
         \/ \E j \in 1 .. k : i = h - 1 + j
         \/ \E j \in (h + 1) .. n : i = j + k - 1
<1>1. CASE i >= h /\ i <= h + k - 1
  BY <1>1, i - h + 1 \in 1 .. k, i = h - 1 + (i - h + 1)
<1>2. CASE i >= h + k
  BY <1>2, i - k + 1 \in (h + 1) .. n, i = (i - k + 1) + k - 1
<1>. QED
  BY <1>1, <1>2

-----------------------------------------------------------------------------
(* What a code means.  With each place of the code goes what the source    *)
(* has to do when control is there, and with each label what it has to do  *)
(* when control goes there.  A call promises what its codes will do.       *)

\* With u to do, the comparison f decides between the labels t and e.
Gives(u, f, t, e, mean) ==
  /\ u # <<>> /\ Head(u) \in Ifs
  /\ Abs!FirstOf(Head(u).cond).name = f.name
  /\ \A v \in BOOLEAN : Same(Abs!Decide(Head(u), v) \o Tail(u),
                             mean[IF Abs!Holds(f, v) THEN t ELSE e])

\* What is left of the if s once its first item fails.
Else(s) == IF Tail(s.cond) = <<>> THEN s.no ELSE <<[s EXCEPT !.cond = Tail(s.cond)]>>

\* The condition, or the first item of one, decides between t and e.
BoolGives(u, cond, t, e, mean) ==
  \E s \in Ifs, w \in Lists :
    /\ u = <<s>> \o w /\ s.cond = cond
    /\ Same(s.yes \o w, mean[t]) /\ Same(s.no \o w, mean[e])
ItemGives(u, item, t, e, mean) ==
  \E s \in Ifs, w \in Lists :
    /\ u = <<s>> \o w /\ Head(s.cond) = item
    /\ Same(s.yes \o w, mean[t]) /\ Same(Else(s) \o w, mean[e])

\* The code c does its part of u and leaves n.  The method k has the statements main.
Ok(c, u, n, mean, k, main) ==
  /\ c.op = "act"    => u # <<>> /\ Head(u) = Abs!Do(c.name) /\ Same(Tail(u), n)
  /\ c.op = "cmp"    => Gives(u, [name |-> c.name, inverted |-> 0], c.true, c.false, mean)
  /\ c.op = "jmp"    => u = U(mean[c.label])
  /\ c.op = "label"  => u = U(n) /\ u = U(mean[c.label])
  /\ c.op = "flag"   => u = U(n)
  /\ c.op = "method" => u = U(n) /\ (c.method = k => u = U(main))
  /\ c.op = "ret"    => u = <<>>
  /\ c.op = "methodOf"    => u = U(c.body) /\ (c.method = k => u = U(main))
  /\ c.op = "seqOf"       => u = U(c.seq \o n)
  /\ c.op = "statementOf" => u = U(<<c.statement>> \o n)
  /\ c.op = "boolOf"      => IF c.cond = <<>> THEN u = U(n)
                             ELSE BoolGives(u, c.cond, c.true, c.false, mean)
  /\ c.op = "itemOf"      => ItemGives(u, c.item, c.true, c.false, mean)
  /\ c.op = "factorOf"    => Gives(u, c.factor, c.true, c.false, mean)

\* The codes p, with u to do before the first and n behind the last.
Codified(p, l, u, n, mean, mid, k, main) ==
  /\ mean \in [Labels(l) -> Lists]
  /\ mid \in [1 .. Len(p) + 1 -> Lists]
  /\ mid[1] = u
  /\ IF Len(p) = 0 THEN Same(u, n) ELSE mid[Len(p) + 1] = n
  /\ \A i \in 1 .. Len(p) : Ok(p[i], U(mid[i]), mid[i + 1], mean, k, main)

\* What e emits does what the call promised.
Keeps(e, l, u, n, mean, k, main) ==
  \E more, mid : /\ Codified(e.codes, e.label, u, n, more, mid, k, main)
                 /\ \A x \in Labels(l) : more[x] = mean[x]

(* A promise is about old labels only.                                     *)
LEMMA OkStays ==
  ASSUME NEW l \in Nat, NEW c \in Codes(l), NEW u, NEW n, NEW mean, NEW more, NEW k, NEW main,
         \A x \in Labels(l) : more[x] = mean[x],
         Ok(c, u, n, mean, k, main)
  PROVE  Ok(c, u, n, more, k, main)
<1>1. /\ c.op = "cmp" => Gives(u, [name |-> c.name, inverted |-> 0], c.true, c.false, more)
      /\ c.op = "factorOf" => Gives(u, c.factor, c.true, c.false, more)
  BY CodeKinds DEF Ok, Gives
<1>2. /\ c.op = "boolOf" => IF c.cond = <<>> THEN u = U(n)
                            ELSE BoolGives(u, c.cond, c.true, c.false, more)
      /\ c.op = "itemOf" => ItemGives(u, c.item, c.true, c.false, more)
  BY CodeKinds DEF Ok, BoolGives, ItemGives
<1>3. c.op \in {"jmp", "label"} => more[c.label] = mean[c.label]
  BY CodeKinds
<1>. QED
  BY <1>1, <1>2, <1>3 DEF Ok

-----------------------------------------------------------------------------
(* Conditions.                                                             *)

(* A call for a factor.                                                    *)
LEMMA KeptFactor ==
  ASSUME NEW l \in Nat, NEW c \in Pending(l), c.op = "factorOf",
         NEW u \in Lists, NEW n \in Lists, NEW mean \in [Labels(l) -> Lists], NEW k, NEW main,
         Ok(c, U(u), n, mean, k, main)
  PROVE  Keeps(GenerateFactorBool(c, l), l, u, n, mean, k, main)
<1>. DEFINE f == c.factor
            d == IF f.inverted = 0 THEN Cmp(f.name, c.true, c.false)
                 ELSE FactorOf([f EXCEPT !.inverted = @ - 1], c.false, c.true)
            mid == [i \in 1 .. 2 |-> IF i = 1 THEN u ELSE n]
<1>1. f \in Factors /\ f.inverted \in Nat
  BY CodeKinds DEF Codes, Factors
<1>2. Gives(U(u), f, c.true, c.false, mean)
  BY DEF Ok
<1>3. Ok(d, U(u), n, mean, k, main)
  <2>1. CASE f.inverted = 0
    <3>1. \A v \in BOOLEAN : Abs!Holds(f, v) = Abs!Holds([name |-> f.name, inverted |-> 0], v)
      BY <2>1 DEF Abs!Holds
    <3>2. Gives(U(u), [name |-> f.name, inverted |-> 0], c.true, c.false, mean)
      BY <1>2, <3>1 DEF Gives
    <3>. QED
      BY <2>1, <3>2 DEF Ok, Cmp
  <2>2. CASE f.inverted # 0
    <3>. DEFINE g == [f EXCEPT !.inverted = @ - 1]
    <3>1. g.name = f.name /\ g.inverted = f.inverted - 1 /\ f.inverted - 1 \in Nat
      BY <1>1, <2>2 DEF Factors
    <3>. HIDE DEF g
    <3>2. (f.inverted % 2 = 0) <=> ((f.inverted - 1) % 2 # 0)
      BY <1>1
    <3>3. \A v \in BOOLEAN : Abs!Holds(g, v) <=> ~ Abs!Holds(f, v)
      BY <3>1, <3>2 DEF Abs!Holds
    <3>4. Gives(U(u), g, c.false, c.true, mean)
      BY <1>2, <3>1, <3>3 DEF Gives
    <3>5. d = FactorOf(g, c.false, c.true)
      BY <2>2 DEF g
    <3>. QED
      BY <3>4, <3>5 DEF Ok, FactorOf
  <2>. QED
    BY <2>1, <2>2
<1>. HIDE DEF d
<1>4. Codified(<<d>>, l, u, n, mean, mid, k, main)
  <2>1. mid \in [1 .. Len(<<d>>) + 1 -> Lists] /\ mid[1] = u /\ mid[Len(<<d>>) + 1] = n /\ mid[2] = n
    OBVIOUS
  <2>. QED
    BY <1>3, <2>1 DEF Codified
<1>5. GenerateFactorBool(c, l) = [codes |-> <<d>>, label |-> l]
  BY DEF GenerateFactorBool, Emit, d
<1>. QED
  BY <1>4, <1>5 DEF Keeps

(* The parts of an if, and what is left of it.                             *)
LEMMA IfParts ==
  ASSUME NEW s \in Ifs
  PROVE  /\ s.kind = "if" /\ s \in Stmts /\ s.cond \in Conditions
         /\ s.yes \in Lists /\ s.no \in Lists
         /\ Head(s.cond) \in Items /\ Tail(s.cond) \in Seq(Items)
         /\ \A x \in Conditions : [s EXCEPT !.cond = x] \in Ifs
         /\ Else(s) \in Lists
         /\ \A w \in Lists : U(<<s>> \o w) = <<s>> \o w
         /\ \A w \in Lists : <<s>> \o w # <<>> /\ Head(<<s>> \o w) = s /\ Tail(<<s>> \o w) = w
<1>1. s.kind = "if" /\ s \in Stmts /\ s.cond \in Conditions /\ s.yes \in Lists /\ s.no \in Lists
  BY Parts DEF Ifs
<1>2. Head(s.cond) \in Items /\ Tail(s.cond) \in Seq(Items)
  BY <1>1 DEF Conditions, Items
<1>3. \A x \in Conditions : [s EXCEPT !.cond = x] \in Ifs
  BY DEF Ifs
<1>4. Else(s) \in Lists
  <2>1. CASE Tail(s.cond) = <<>>
    BY <1>1, <2>1 DEF Else
  <2>2. CASE Tail(s.cond) # <<>>
    <3>1. Tail(s.cond) \in Conditions
      BY <1>2, <2>2 DEF Conditions, Items
    <3>2. [s EXCEPT !.cond = Tail(s.cond)] \in Stmts
      BY <1>3, <3>1, Parts
    <3>. QED
      BY <2>2, <3>2 DEF Else, Lists
  <2>. QED
    BY <2>1, <2>2
<1>5. \A w \in Lists : /\ <<s>> \o w \in Lists /\ <<s>> \o w # <<>>
                       /\ Head(<<s>> \o w) = s /\ Tail(<<s>> \o w) = w
  BY <1>1, Cons DEF Lists
<1>6. \A w \in Lists : U(<<s>> \o w) = <<s>> \o w
  BY <1>1, <1>5, Stable
<1>. QED
  BY <1>1, <1>2, <1>3, <1>4, <1>5, <1>6

(* The condition with its first factor taken off the first item.           *)
LEMMA Shorter ==
  ASSUME NEW s \in Ifs, Tail(Head(s.cond)) # <<>>
  PROVE  LET x == <<Tail(Head(s.cond))>> \o Tail(s.cond)
         IN /\ x \in Conditions /\ Head(x) = Tail(Head(s.cond)) /\ Tail(x) = Tail(s.cond)
            /\ [s EXCEPT !.cond = x] \in Ifs
            /\ Else([s EXCEPT !.cond = x]) = Else(s)
<1>. DEFINE a == Tail(Head(s.cond))
            x == <<a>> \o Tail(s.cond)
            s2 == [s EXCEPT !.cond = x]
<1>1. a \in Items
  <2>1. Head(s.cond) \in Seq(Factors) /\ Head(s.cond) # <<>>
    BY IfParts DEF Items
  <2>. QED
    BY <2>1 DEF Items
<1>2. x \in Seq(Items) /\ x # <<>> /\ Head(x) = a /\ Tail(x) = Tail(s.cond)
  <2>1. Tail(s.cond) \in Seq(Items)
    BY IfParts
  <2>. HIDE DEF a
  <2>. QED
    BY <1>1, <2>1, Cons
<1>3. x \in Conditions
  BY <1>2 DEF Conditions, Items
<1>4. s2 \in Ifs
  BY <1>3, IfParts
<1>. HIDE DEF x, a
<1>5. s2.cond = x /\ s2.no = s.no /\ \A y : [s2 EXCEPT !.cond = y] = [s EXCEPT !.cond = y]
  BY DEF Ifs
<1>. HIDE DEF s2
<1>6. Else(s2) = Else(s)
  <2>1. Tail(s2.cond) = Tail(s.cond)
    BY <1>2, <1>5
  <2>2. [s2 EXCEPT !.cond = Tail(s2.cond)] = [s EXCEPT !.cond = Tail(s.cond)]
    BY <2>1, <1>5
  <2>. QED
    BY <2>1, <2>2, <1>5 DEF Else
<1>. QED
  BY <1>2, <1>3, <1>4, <1>6 DEF x, a, s2

(* What the first factor decides.                                          *)
LEMMA Decided ==
  ASSUME NEW s \in Ifs, NEW v \in BOOLEAN
  PROVE  /\ Abs!FirstOf(s.cond) \in Factors
         /\ Abs!Decide(s, v) =
              IF Abs!Holds(Abs!FirstOf(s.cond), v)
              THEN IF Tail(Head(s.cond)) = <<>> THEN s.yes
                   ELSE <<[s EXCEPT !.cond = <<Tail(Head(s.cond))>> \o Tail(s.cond)]>>
              ELSE Else(s)
<1>1. Head(s.cond) \in Seq(Factors) /\ Head(s.cond) # <<>>
  BY IfParts DEF Items
<1>. QED
  BY <1>1 DEF Abs!Decide, Abs!FirstOf, Else

(* A call for an item.                                                     *)
LEMMA KeptItem ==
  ASSUME NEW l \in Nat, NEW c \in Pending(l), c.op = "itemOf",
         NEW u \in Lists, NEW n \in Lists, NEW mean \in [Labels(l) -> Lists], NEW k, NEW main,
         Ok(c, U(u), n, mean, k, main)
  PROVE  Keeps(GenerateItemBool(c, l), l, u, n, mean, k, main)
<1>1. c.item \in Items /\ c.true \in Labels(l) /\ c.false \in Labels(l)
  BY CodeKinds DEF Codes
<1>2. ItemGives(U(u), c.item, c.true, c.false, mean)
  BY DEF Ok
<1>3. PICK s \in Ifs, w \in Lists :
        /\ U(u) = <<s>> \o w /\ Head(s.cond) = c.item
        /\ Same(s.yes \o w, mean[c.true]) /\ Same(Else(s) \o w, mean[c.false])
  BY <1>2 DEF ItemGives
<1>4. U(u) # <<>> /\ Head(U(u)) = s /\ Tail(U(u)) = w
  BY <1>3, IfParts
<1>. DEFINE f == Head(c.item)
<1>5. Abs!FirstOf(s.cond) = f
  BY <1>3 DEF Abs!FirstOf
<1>6. Len(c.item) \in Nat /\ c.item \in Seq(Factors) /\ c.item # <<>>
      /\ (Len(c.item) = 1 <=> Tail(c.item) = <<>>) /\ Len(c.item) >= 1
  <2>1. c.item \in Seq(Factors) /\ c.item # <<>> /\ Len(c.item) \in Nat /\ Len(c.item) # 0
    BY <1>1 DEF Items
  <2>2. Tail(c.item) \in Seq(Factors) /\ Len(Tail(c.item)) = Len(c.item) - 1
    BY <2>1
  <2>3. Len(Tail(c.item)) = 0 <=> Tail(c.item) = <<>>
    BY <2>2, EmptySeq
  <2>. QED
    BY <2>1, <2>2, <2>3
<1>. HIDE DEF f
<1>7. CASE Tail(c.item) = <<>>
  <2>. DEFINE d == FactorOf(f, c.true, c.false)
              mid == [i \in 1 .. 2 |-> IF i = 1 THEN u ELSE n]
  <2>1. \A v \in BOOLEAN : Abs!Decide(s, v) = IF Abs!Holds(f, v) THEN s.yes ELSE Else(s)
    BY <1>3, <1>5, <1>7, Decided
  <2>2. Gives(U(u), f, c.true, c.false, mean)
    BY <1>3, <1>4, <1>5, <2>1 DEF Gives
  <2>3. Ok(d, U(u), n, mean, k, main)
    BY <2>2 DEF Ok, FactorOf
  <2>. HIDE DEF d
  <2>4. Codified(<<d>>, l, u, n, mean, mid, k, main)
    <3>1. mid \in [1 .. Len(<<d>>) + 1 -> Lists] /\ mid[1] = u /\ mid[Len(<<d>>) + 1] = n /\ mid[2] = n
      OBVIOUS
    <3>. QED
      BY <2>3, <3>1 DEF Codified
  <2>5. GenerateItemBool(c, l) = [codes |-> <<d>>, label |-> l]
    BY <1>6, <1>7 DEF GenerateItemBool, Emit, d, f
  <2>. QED
    BY <2>4, <2>5 DEF Keeps
<1>8. CASE Tail(c.item) # <<>>
  <2>. DEFINE x == <<Tail(c.item)>> \o Tail(s.cond)
              s2 == [s EXCEPT !.cond = x]
              rest == <<s2>> \o w
              more == [y \in Labels(l + 1) |-> IF y = l THEN rest ELSE mean[y]]
              d1 == FactorOf(f, l, c.false)
              d3 == ItemOf(Tail(c.item), c.true, c.false)
              mid == [i \in 1 .. 4 |-> IF i = 1 THEN u ELSE IF i = 4 THEN n ELSE rest]
  <2>1. s2 \in Ifs /\ s2.cond = x /\ Head(x) = Tail(c.item) /\ Else(s2) = Else(s) /\ s2.yes = s.yes
    <3>1. s2 \in Ifs /\ Head(x) = Tail(c.item) /\ Else(s2) = Else(s)
      BY <1>3, <1>8, Shorter
    <3>. QED
      BY <3>1 DEF Ifs
  <2>2. \A v \in BOOLEAN : Abs!Decide(s, v) = IF Abs!Holds(f, v) THEN <<s2>> ELSE Else(s)
    BY <1>3, <1>5, <1>8, Decided
  <2>. HIDE DEF s2, x
  <2>3. rest \in Lists /\ U(rest) = rest
    BY <2>1, IfParts, Cons DEF Lists
  <2>4. /\ more \in [Labels(l + 1) -> Lists] /\ more[l] = rest
        /\ \A y \in Labels(l) : more[y] = mean[y]
    BY <2>3 DEF Labels
  <2>. HIDE DEF more
  <2>5. more[c.true] = mean[c.true] /\ more[c.false] = mean[c.false]
    BY <1>1, <2>4
  <2>6. Gives(U(u), f, l, c.false, more)
    BY <1>3, <1>4, <1>5, <2>2, <2>4, <2>5 DEF Gives, Same
  <2>7. ItemGives(U(rest), Tail(c.item), c.true, c.false, more)
    BY <1>3, <2>1, <2>3, <2>5 DEF ItemGives
  <2>. HIDE DEF rest
  <2>8. Ok(d1, U(u), rest, more, k, main)
    BY <2>6 DEF Ok, FactorOf
  <2>9. Ok(Label(l), U(rest), rest, more, k, main)
    BY <2>4 DEF Ok, Label
  <2>10. Ok(d3, U(rest), n, more, k, main)
    BY <2>7 DEF Ok, ItemOf
  <2>. DEFINE codes == <<d1, Label(l), d3>>
  <2>11. Len(codes) = 3 /\ codes[1] = d1 /\ codes[2] = Label(l) /\ codes[3] = d3
    OBVIOUS
  <2>12. GenerateItemBool(c, l) = [codes |-> codes, label |-> l + 1]
    BY <1>6, <1>8 DEF GenerateItemBool, Emit, f
  <2>. HIDE DEF codes, d1, d3
  <2>13. mid \in [1 .. Len(codes) + 1 -> Lists] /\ mid[1] = u /\ mid[2] = rest /\ mid[3] = rest /\ mid[4] = n
    BY <2>3, <2>11
  <2>. HIDE DEF mid
  <2>14. \A i \in 1 .. 3 : Ok(codes[i], U(mid[i]), mid[i + 1], more, k, main)
    BY <2>8, <2>9, <2>10, <2>11, <2>13
  <2>15. Codified(codes, l + 1, u, n, more, mid, k, main)
    BY <2>4, <2>11, <2>13, <2>14 DEF Codified
  <2>. QED
    BY <2>4, <2>12, <2>15 DEF Keeps
<1>. QED
  BY <1>7, <1>8

(* A call for a condition.                                                 *)
LEMMA KeptBool ==
  ASSUME NEW l \in Nat, NEW c \in Pending(l), c.op = "boolOf",
         NEW u \in Lists, NEW n \in Lists, NEW mean \in [Labels(l) -> Lists], NEW k, NEW main,
         Ok(c, U(u), n, mean, k, main)
  PROVE  Keeps(GenerateExpressionBool(c, l), l, u, n, mean, k, main)
<1>1. c.cond \in Conditions \cup {<<>>} /\ c.true \in Labels(l) /\ c.false \in Labels(l)
  BY CodeKinds DEF Codes
<1>2. CASE c.cond = <<>>
  <2>. DEFINE mid == [i \in 1 .. 1 |-> u]
  <2>1. U(u) = U(n)
    BY <1>2 DEF Ok
  <2>2. Codified(<<>>, l, u, n, mean, mid, k, main)
    BY <2>1 DEF Codified, Same
  <2>3. GenerateExpressionBool(c, l) = [codes |-> <<>>, label |-> l]
    BY <1>2 DEF GenerateExpressionBool, Emit
  <2>. HIDE DEF mid
  <2>. QED
    BY <2>2, <2>3 DEF Keeps
<1>. SUFFICES ASSUME c.cond # <<>>
              PROVE  Keeps(GenerateExpressionBool(c, l), l, u, n, mean, k, main)
  BY <1>2
<1>3. BoolGives(U(u), c.cond, c.true, c.false, mean)
  BY DEF Ok
<1>4. PICK s \in Ifs, w \in Lists :
        /\ U(u) = <<s>> \o w /\ s.cond = c.cond
        /\ Same(s.yes \o w, mean[c.true]) /\ Same(s.no \o w, mean[c.false])
  BY <1>3 DEF BoolGives
<1>5. Len(c.cond) \in Nat /\ (Len(c.cond) = 1 <=> Tail(c.cond) = <<>>) /\ Len(c.cond) >= 1
  <2>1. c.cond \in Seq(Items) /\ c.cond # <<>> /\ Len(c.cond) \in Nat /\ Len(c.cond) # 0
    BY <1>1 DEF Conditions, Items
  <2>2. Tail(c.cond) \in Seq(Items) /\ Len(Tail(c.cond)) = Len(c.cond) - 1
    BY <2>1
  <2>3. Len(Tail(c.cond)) = 0 <=> Tail(c.cond) = <<>>
    BY <2>2, EmptySeq
  <2>. QED
    BY <2>1, <2>2, <2>3
<1>. DEFINE a == Head(c.cond)
<1>6. CASE Tail(c.cond) = <<>>
  <2>. DEFINE d == ItemOf(a, c.true, c.false)
              mid == [i \in 1 .. 2 |-> IF i = 1 THEN u ELSE n]
  <2>1. Else(s) = s.no
    BY <1>4, <1>6 DEF Else
  <2>2. ItemGives(U(u), a, c.true, c.false, mean)
    BY <1>4, <2>1 DEF ItemGives
  <2>3. Ok(d, U(u), n, mean, k, main)
    BY <2>2 DEF Ok, ItemOf
  <2>. HIDE DEF d
  <2>4. Codified(<<d>>, l, u, n, mean, mid, k, main)
    <3>1. mid \in [1 .. Len(<<d>>) + 1 -> Lists] /\ mid[1] = u /\ mid[Len(<<d>>) + 1] = n /\ mid[2] = n
      OBVIOUS
    <3>. QED
      BY <2>3, <3>1 DEF Codified
  <2>5. GenerateExpressionBool(c, l) = [codes |-> <<d>>, label |-> l]
    BY <1>5, <1>6 DEF GenerateExpressionBool, Emit, d, a
  <2>. QED
    BY <2>4, <2>5 DEF Keeps
<1>7. CASE Tail(c.cond) # <<>>
  <2>. DEFINE s2 == [s EXCEPT !.cond = Tail(c.cond)]
              rest == <<s2>> \o w
              more == [y \in Labels(l + 1) |-> IF y = l THEN rest ELSE mean[y]]
              d1 == ItemOf(a, c.true, l)
              d3 == BoolOf(Tail(c.cond), c.true, c.false)
              mid == [i \in 1 .. 4 |-> IF i = 1 THEN u ELSE IF i = 4 THEN n ELSE rest]
  <2>1. s2 \in Ifs /\ s2.cond = Tail(c.cond) /\ s2.no = s.no /\ s2.yes = s.yes
    <3>1. Tail(c.cond) \in Conditions
      BY <1>1, <1>7 DEF Conditions
    <3>. QED
      BY <3>1, IfParts DEF Ifs
  <2>2. Else(s) = <<s2>>
    BY <1>4, <1>7 DEF Else
  <2>. HIDE DEF s2
  <2>3. rest \in Lists /\ U(rest) = rest
    BY <2>1, IfParts, Cons DEF Lists
  <2>4. /\ more \in [Labels(l + 1) -> Lists] /\ more[l] = rest
        /\ \A y \in Labels(l) : more[y] = mean[y]
    BY <2>3 DEF Labels
  <2>. HIDE DEF more
  <2>5. more[c.true] = mean[c.true] /\ more[c.false] = mean[c.false]
    BY <1>1, <2>4
  <2>6. ItemGives(U(u), a, c.true, l, more)
    <3>1. Same(s.yes \o w, more[c.true]) /\ Same(Else(s) \o w, more[l]) /\ Head(s.cond) = a
      BY <1>4, <2>2, <2>4, <2>5 DEF Same
    <3>. QED
      BY <1>4, <3>1 DEF ItemGives
  <2>7. BoolGives(U(rest), Tail(c.cond), c.true, c.false, more)
    BY <1>4, <2>1, <2>3, <2>5 DEF BoolGives
  <2>. HIDE DEF rest
  <2>8. Ok(d1, U(u), rest, more, k, main)
    BY <2>6 DEF Ok, ItemOf
  <2>9. Ok(Label(l), U(rest), rest, more, k, main)
    BY <2>4 DEF Ok, Label
  <2>10. Ok(d3, U(rest), n, more, k, main)
    BY <1>7, <2>7 DEF Ok, BoolOf
  <2>. DEFINE codes == <<d1, Label(l), d3>>
  <2>11. Len(codes) = 3 /\ codes[1] = d1 /\ codes[2] = Label(l) /\ codes[3] = d3
    OBVIOUS
  <2>12. GenerateExpressionBool(c, l) = [codes |-> codes, label |-> l + 1]
    BY <1>5, <1>7 DEF GenerateExpressionBool, Emit
  <2>. HIDE DEF codes, d1, d3
  <2>13. mid \in [1 .. Len(codes) + 1 -> Lists] /\ mid[1] = u /\ mid[2] = rest /\ mid[3] = rest /\ mid[4] = n
    BY <2>3, <2>11
  <2>. HIDE DEF mid
  <2>14. \A i \in 1 .. 3 : Ok(codes[i], U(mid[i]), mid[i + 1], more, k, main)
    BY <2>8, <2>9, <2>10, <2>11, <2>13
  <2>15. Codified(codes, l + 1, u, n, more, mid, k, main)
    BY <2>4, <2>11, <2>13, <2>14 DEF Codified
  <2>. QED
    BY <2>4, <2>12, <2>15 DEF Keeps
<1>. QED
  BY <1>6, <1>7

-----------------------------------------------------------------------------
(* Statements.                                                             *)

(* A code in front of others.                                              *)
LEMMA InFront ==
  ASSUME NEW l \in Nat, NEW d, NEW p, NEW S, p \in Seq(S), d \in S, Len(p) # 0,
         NEW u \in Lists, NEW m \in Lists, NEW n \in Lists,
         NEW mean, NEW mid, NEW k, NEW main,
         Ok(d, U(u), m, mean, k, main), Codified(p, l, m, n, mean, mid, k, main)
  PROVE  \E between : Codified(<<d>> \o p, l, u, n, mean, between, k, main)
<1>. DEFINE q == <<d>> \o p
            b == [i \in 1 .. Len(q) + 1 |-> IF i = 1 THEN u ELSE mid[i - 1]]
<1>1. Len(p) \in Nat /\ Len(q) = Len(p) + 1 /\ q[1] = d /\ \A i \in 1 .. Len(p) : q[i + 1] = p[i]
  <2>1. <<d>> \in Seq(S) /\ Len(<<d>>) = 1 /\ <<d>>[1] = d
    OBVIOUS
  <2>2. /\ Len(<<d>>) \in Nat /\ Len(p) \in Nat /\ Len(<<d>> \o p) = Len(<<d>>) + Len(p)
        /\ \A i \in 1 .. Len(<<d>>) : (<<d>> \o p)[i] = <<d>>[i]
        /\ \A i \in 1 .. Len(p) : (<<d>> \o p)[Len(<<d>>) + i] = p[i]
    BY ONLY <2>1, p \in Seq(S), Behind
  <2>. QED
    BY <2>1, <2>2
<1>. HIDE DEF q
<1>2. /\ mean \in [Labels(l) -> Lists] /\ mid \in [1 .. Len(p) + 1 -> Lists]
      /\ mid[1] = m /\ mid[Len(p) + 1] = n
      /\ \A i \in 1 .. Len(p) : Ok(p[i], U(mid[i]), mid[i + 1], mean, k, main)
  BY DEF Codified
<1>3. b \in [1 .. Len(q) + 1 -> Lists] /\ b[1] = u /\ b[Len(q) + 1] = n
      /\ \A i \in 2 .. Len(q) + 1 : b[i] = mid[i - 1]
  BY <1>1, <1>2
<1>. HIDE DEF b
<1>4. \A i \in 1 .. Len(q) : Ok(q[i], U(b[i]), b[i + 1], mean, k, main)
  <2>. TAKE i \in 1 .. Len(q)
  <2>1. CASE i = 1
    <3>1. q[i] = d /\ b[i] = u /\ b[i + 1] = m
      BY <2>1, <1>1, <1>2, <1>3
    <3>. QED
      BY <3>1
  <2>2. CASE i # 1
    <3>1. i - 1 \in 1 .. Len(p) /\ (i - 1) + 1 = i /\ i + 1 \in 2 .. Len(q) + 1 /\ i \in 2 .. Len(q) + 1
          /\ (i + 1) - 1 = i
      BY <2>2, <1>1
    <3>2. q[i] = p[i - 1] /\ b[i] = mid[i - 1] /\ b[i + 1] = mid[i]
      BY <3>1, <1>1, <1>3
    <3>3. Ok(p[i - 1], U(mid[i - 1]), mid[i], mean, k, main)
      BY <3>1, <1>2
    <3>. QED
      BY <3>2, <3>3
  <2>. QED
    BY <2>1, <2>2
<1>5. Codified(q, l, u, n, mean, b, k, main)
  BY <1>1, <1>2, <1>3, <1>4 DEF Codified
<1>. QED
  BY <1>5 DEF q

(* A loop.                                                                 *)
LEMMA KeptLoop ==
  ASSUME NEW l \in Nat, NEW s \in Loops,
         NEW u \in Lists, NEW n \in Lists, NEW mean \in [Labels(l) -> Lists], NEW k, NEW main,
         Same(u, <<s>> \o n)
  PROVE  /\ GenerateLoop(s.cond, s.body, l).label = l + 3
         /\ Keeps(GenerateLoop(s.cond, s.body, l), l, u, n, mean, k, main)
<1>. DEFINE again  == <<s>> \o n
            inside == s.body \o again
            more   == [x \in Labels(l + 3) |-> IF x = l THEN again ELSE IF x = l + 1 THEN inside
                                               ELSE IF x = l + 2 THEN n ELSE mean[x]]
            mid    == [i \in 1 .. 9 |-> IF i = 1 THEN u ELSE IF i \in {2, 3, 6} THEN again
                                        ELSE IF i \in {4, 5} THEN inside ELSE n]
            codes  == GenerateLoop(s.cond, s.body, l).codes
<1>1. s \in Stmts /\ s.body \in Lists /\ s.cond \in Conditions \cup {<<>>}
  BY Parts DEF Loops
<1>2. again \in Lists /\ inside \in Lists
  BY <1>1, Nested, Cons DEF Lists
<1>3. s.cond = <<>> => U(again) = U(inside)
  BY UnrollForever
<1>4. s.cond # <<>> => /\ ChoiceOf(s) \in Ifs /\ U(again) = <<ChoiceOf(s)>> \o n
                       /\ ChoiceOf(s).cond = s.cond
                       /\ ChoiceOf(s).yes \o n = inside /\ ChoiceOf(s).no \o n = n
  BY UnrollWhile
<1>. HIDE DEF again, inside
<1>5. /\ more \in [Labels(l + 3) -> Lists]
      /\ more[l] = again /\ more[l + 1] = inside /\ more[l + 2] = n
      /\ \A x \in Labels(l) : more[x] = mean[x]
  BY <1>2 DEF Labels
<1>6. /\ mid \in [1 .. 9 -> Lists]
      /\ mid[1] = u /\ mid[2] = again /\ mid[3] = again /\ mid[4] = inside /\ mid[5] = inside
      /\ mid[6] = again /\ mid[7] = n /\ mid[8] = n /\ mid[9] = n
  BY <1>2
<1>. HIDE DEF more, mid
<1>7. /\ Len(codes) = 8
      /\ codes[1] = Flag("ENTER_LOOP_BLOCK") /\ codes[2] = Label(l)
      /\ codes[3] = BoolOf(s.cond, l + 1, l + 2) /\ codes[4] = Label(l + 1)
      /\ codes[5] = StatementSeqOf(s.body) /\ codes[6] = Jmp(l)
      /\ codes[7] = Label(l + 2) /\ codes[8] = Flag("EXIT_LOOP_BLOCK")
      /\ GenerateLoop(s.cond, s.body, l).label = l + 3
  BY DEF GenerateLoop, Emit
<1>. HIDE DEF codes
<1>8. Ok(codes[1], U(mid[1]), mid[2], more, k, main)
  BY <1>6, <1>7 DEF Ok, Flag, Same, again
<1>9. Ok(codes[2], U(mid[2]), mid[3], more, k, main)
  BY <1>5, <1>6, <1>7 DEF Ok, Label
<1>10. Ok(codes[3], U(mid[3]), mid[4], more, k, main)
  <2>1. CASE s.cond = <<>>
    BY <2>1, <1>3, <1>6, <1>7 DEF Ok, BoolOf
  <2>2. CASE s.cond # <<>>
    <3>1. BoolGives(U(again), s.cond, l + 1, l + 2, more)
      BY <2>2, <1>4, <1>5 DEF BoolGives, Same
    <3>. QED
      BY <2>2, <3>1, <1>6, <1>7 DEF Ok, BoolOf
  <2>. QED
    BY <2>1, <2>2
<1>11. Ok(codes[4], U(mid[4]), mid[5], more, k, main)
  BY <1>5, <1>6, <1>7 DEF Ok, Label
<1>12. Ok(codes[5], U(mid[5]), mid[6], more, k, main)
  BY <1>6, <1>7 DEF Ok, StatementSeqOf, inside
<1>13. Ok(codes[6], U(mid[6]), mid[7], more, k, main)
  BY <1>5, <1>6, <1>7 DEF Ok, Jmp
<1>14. Ok(codes[7], U(mid[7]), mid[8], more, k, main)
  BY <1>5, <1>6, <1>7 DEF Ok, Label
<1>15. Ok(codes[8], U(mid[8]), mid[9], more, k, main)
  BY <1>6, <1>7 DEF Ok, Flag
<1>16. \A i \in 1 .. 8 : Ok(codes[i], U(mid[i]), mid[i + 1], more, k, main)
  BY <1>8, <1>9, <1>10, <1>11, <1>12, <1>13, <1>14, <1>15
<1>17. Codified(codes, l + 3, u, n, more, mid, k, main)
  BY <1>5, <1>6, <1>7, <1>16 DEF Codified
<1>. QED
  BY <1>5, <1>7, <1>17 DEF Keeps, codes

(* An if.                                                                  *)
LEMMA KeptIf ==
  ASSUME NEW l \in Nat, NEW s \in Ifs,
         NEW u \in Lists, NEW n \in Lists, NEW mean \in [Labels(l) -> Lists], NEW k, NEW main,
         Same(u, <<s>> \o n)
  PROVE  Keeps(GenerateStatementIf(s, l), l, u, n, mean, k, main)
<1>. DEFINE yes   == s.yes \o n
            no    == s.no \o n
            more  == [x \in Labels(l + 3) |-> IF x = l THEN yes ELSE IF x = l + 1 THEN no
                                              ELSE IF x = l + 2 THEN n ELSE mean[x]]
            mid   == [i \in 1 .. 10 |-> IF i = 1 THEN u ELSE IF i \in {2, 3, 4} THEN yes
                                        ELSE IF i \in {6, 7} THEN no ELSE n]
            codes == GenerateStatementIf(s, l).codes
<1>1. yes \in Lists /\ no \in Lists
  BY IfParts, ConcatProperties DEF Lists
<1>2. U(u) = <<s>> \o n /\ s.cond # <<>>
  BY IfParts DEF Same, Conditions
<1>. HIDE DEF yes, no
<1>5. /\ more \in [Labels(l + 3) -> Lists]
      /\ more[l] = yes /\ more[l + 1] = no /\ more[l + 2] = n
      /\ \A x \in Labels(l) : more[x] = mean[x]
  BY <1>1 DEF Labels
<1>6. /\ mid \in [1 .. 10 -> Lists]
      /\ mid[1] = u /\ mid[2] = yes /\ mid[3] = yes /\ mid[4] = yes /\ mid[5] = n
      /\ mid[6] = no /\ mid[7] = no /\ mid[8] = n /\ mid[9] = n /\ mid[10] = n
  BY <1>1
<1>. HIDE DEF more, mid
<1>4. BoolGives(U(u), s.cond, l, l + 1, more)
  BY <1>2, <1>5 DEF BoolGives, Same, yes, no
<1>7. /\ Len(codes) = 9
      /\ codes[1] = BoolOf(s.cond, l, l + 1) /\ codes[2] = Flag("ENTER_BLOCK")
      /\ codes[3] = Label(l) /\ codes[4] = StatementSeqOf(s.yes) /\ codes[5] = Jmp(l + 2)
      /\ codes[6] = Label(l + 1) /\ codes[7] = StatementSeqOf(s.no)
      /\ codes[8] = Label(l + 2) /\ codes[9] = Flag("EXIT_BLOCK")
      /\ GenerateStatementIf(s, l).label = l + 3
  BY DEF GenerateStatementIf, Emit
<1>. HIDE DEF codes
<1>8. Ok(codes[1], U(mid[1]), mid[2], more, k, main)
  <2>1. codes[1].op = "boolOf" /\ codes[1].cond = s.cond /\ codes[1].true = l /\ codes[1].false = l + 1
    BY <1>7 DEF BoolOf
  <2>. QED
    BY <1>2, <1>4, <1>6, <2>1 DEF Ok
<1>9. Ok(codes[2], U(mid[2]), mid[3], more, k, main)
  BY <1>6, <1>7 DEF Ok, Flag
<1>10. Ok(codes[3], U(mid[3]), mid[4], more, k, main)
  BY <1>5, <1>6, <1>7 DEF Ok, Label
<1>11. Ok(codes[4], U(mid[4]), mid[5], more, k, main)
  BY <1>6, <1>7 DEF Ok, StatementSeqOf, yes
<1>12. Ok(codes[5], U(mid[5]), mid[6], more, k, main)
  BY <1>5, <1>6, <1>7 DEF Ok, Jmp
<1>13. Ok(codes[6], U(mid[6]), mid[7], more, k, main)
  BY <1>5, <1>6, <1>7 DEF Ok, Label
<1>14. Ok(codes[7], U(mid[7]), mid[8], more, k, main)
  BY <1>6, <1>7 DEF Ok, StatementSeqOf, no
<1>15. Ok(codes[8], U(mid[8]), mid[9], more, k, main)
  BY <1>5, <1>6, <1>7 DEF Ok, Label
<1>16. Ok(codes[9], U(mid[9]), mid[10], more, k, main)
  BY <1>6, <1>7 DEF Ok, Flag
<1>17. \A i \in 1 .. 9 : Ok(codes[i], U(mid[i]), mid[i + 1], more, k, main)
  BY <1>8, <1>9, <1>10, <1>11, <1>12, <1>13, <1>14, <1>15, <1>16
<1>18. Codified(codes, l + 3, u, n, more, mid, k, main)
  BY <1>5, <1>6, <1>7, <1>17 DEF Codified
<1>. QED
  BY <1>5, <1>7, <1>18 DEF Keeps, codes

(* The codes of a loop are codes.                                          *)
LEMMA LoopTyped ==
  ASSUME NEW l \in Nat, NEW s \in Loops
  PROVE  /\ GenerateLoop(s.cond, s.body, l).codes \in Seq(Codes(l + 3))
         /\ Len(GenerateLoop(s.cond, s.body, l).codes) = 8
         /\ GenerateLoop(s.cond, s.body, l).label = l + 3
<1>. DEFINE S == Codes(l + 3)
<1>1. l \in Labels(l + 3) /\ l + 1 \in Labels(l + 3) /\ l + 2 \in Labels(l + 3)
  BY DEF Labels
<1>2. s.cond \in Conditions \cup {<<>>} /\ s.body \in Seq(Base)
  BY DEF Loops
<1>3. /\ Flag("ENTER_LOOP_BLOCK") \in S /\ Flag("EXIT_LOOP_BLOCK") \in S
      /\ Label(l) \in S /\ Label(l + 1) \in S /\ Label(l + 2) \in S /\ Jmp(l) \in S
  BY <1>1, Made
<1>4. BoolOf(s.cond, l + 1, l + 2) \in S /\ StatementSeqOf(s.body) \in S
  BY <1>1, <1>2, Made
<1>. HIDE DEF S
<1>5. <<Flag("ENTER_LOOP_BLOCK"), Label(l), BoolOf(s.cond, l + 1, l + 2),
            Label(l + 1), StatementSeqOf(s.body), Jmp(l),
            Label(l + 2), Flag("EXIT_LOOP_BLOCK")>> \in Seq(S)
  BY <1>3, <1>4
<1>. QED
  BY <1>5 DEF GenerateLoop, Emit, S

(* A call for a statement.                                                 *)
LEMMA KeptStatement ==
  ASSUME NEW l \in Nat, NEW c \in Pending(l), c.op = "statementOf",
         NEW u \in Lists, NEW n \in Lists, NEW mean \in [Labels(l) -> Lists], NEW k, NEW main,
         Ok(c, U(u), n, mean, k, main)
  PROVE  Keeps(GenerateStatement(c, l), l, u, n, mean, k, main)
<1>. DEFINE s == c.statement
<1>1. s \in Base /\ s \in Stmts /\ Same(u, <<s>> \o n)
  BY CodeKinds, Parts DEF Codes, Ok, Same
<1>2. s.kind \in {"do", "if", "while", "for"}
  BY <1>1, Kinds
<1>. HIDE DEF s
<1>3. CASE s.kind = "do"
  <2>. DEFINE mid == [i \in 1 .. 2 |-> IF i = 1 THEN u ELSE n]
              d == Act(s.act)
  <2>1. s = Abs!Do(s.act)
    BY <1>1, <1>3, Kinds DEF Dos, Abs!Do
  <2>2. <<s>> \o n \in Lists /\ <<s>> \o n # <<>> /\ Head(<<s>> \o n) = s /\ Tail(<<s>> \o n) = n
    BY <1>1, Cons DEF Lists
  <2>3. U(u) = <<s>> \o n
    BY <1>1, <1>3, <2>2, Stable DEF Same
  <2>4. Ok(d, U(u), n, mean, k, main)
    BY <2>1, <2>2, <2>3 DEF Ok, Act, Same
  <2>5. GenerateStatement(c, l) = [codes |-> <<d>>, label |-> l]
    BY <1>3 DEF GenerateStatement, Emit, s
  <2>. HIDE DEF d
  <2>6. mid \in [1 .. Len(<<d>>) + 1 -> Lists] /\ mid[1] = u /\ mid[Len(<<d>>) + 1] = n /\ mid[2] = n
    OBVIOUS
  <2>7. Codified(<<d>>, l, u, n, mean, mid, k, main)
    BY <2>4, <2>6 DEF Codified
  <2>. QED
    BY <2>5, <2>7 DEF Keeps
<1>4. CASE s.kind = "if"
  <2>1. s \in Ifs
    BY <1>1, <1>4, Kinds
  <2>2. GenerateStatement(c, l) = GenerateStatementIf(s, l)
    BY <1>4 DEF GenerateStatement, s
  <2>. QED
    BY <1>1, <2>1, <2>2, KeptIf
<1>5. CASE s.kind = "while"
  <2>1. s \in Loops
    BY <1>1, <1>5, Kinds
  <2>2. GenerateStatement(c, l) = GenerateLoop(s.cond, s.body, l)
    BY <1>5 DEF GenerateStatement, GenerateStatementWhile, s
  <2>. QED
    BY <1>1, <2>1, <2>2, KeptLoop
<1>6. CASE s.kind = "for"
  <2>. DEFINE r == LoopOf(s)
              m == <<r>> \o n
              loop == GenerateLoop(r.cond, r.body, l)
  <2>1. r \in Loops /\ r \in Stmts /\ Begin(s) = Abs!Do(s.init) /\ Begin(s) \in Stmts
    BY <1>1, <1>6, UnrollFor, Parts DEF Begin, Abs!Do
  <2>2. U(u) = <<Begin(s)>> \o m
    BY <1>1, <1>6, UnrollFor DEF Same
  <2>3. m \in Lists
    BY <2>1, Cons DEF Lists
  <2>. HIDE DEF m
  <2>4. U(u) # <<>> /\ Head(U(u)) = Begin(s) /\ Tail(U(u)) = m
    BY <2>1, <2>2, <2>3, Cons DEF Lists
  <2>5. Keeps(loop, l, m, n, mean, k, main)
    BY <2>1, <2>3, KeptLoop DEF Same, m
  <2>6. PICK more, mid : /\ Codified(loop.codes, l + 3, m, n, more, mid, k, main)
                         /\ \A x \in Labels(l) : more[x] = mean[x]
    BY <2>1, <2>5, LoopTyped DEF Keeps
  <2>7. Ok(Act(s.init), U(u), m, more, k, main)
    BY <2>1, <2>4 DEF Ok, Act, Same
  <2>8. s \in Fors /\ s.init \in Acts
    BY <1>1, <1>6, Kinds DEF Fors
  <2>9. loop.codes \in Seq(Codes(l + 3)) /\ Len(loop.codes) # 0 /\ loop.label = l + 3
    <3>1. /\ loop.codes \in Seq(Codes(l + 3))
          /\ Len(loop.codes) = 8
          /\ loop.label = l + 3
      BY <2>1, LoopTyped
    <3>. QED
      BY <3>1
  <2>10. \E between : Codified(<<Act(s.init)>> \o loop.codes, l + 3, u, n, more, between, k, main)
    <3>. DEFINE d == Act(s.init)  p == loop.codes  S == Codes(l + 3)
    <3>1. d \in S
      BY <2>8, Made
    <3>2. p \in Seq(S) /\ Len(p) # 0
      BY <2>9
    <3>3. Ok(d, U(u), m, more, k, main) /\ Codified(p, l + 3, m, n, more, mid, k, main)
      BY <2>6, <2>7
    <3>. HIDE DEF d, p, S
    <3>4. \E between : Codified(<<d>> \o p, l + 3, u, n, more, between, k, main)
      BY <2>3, <3>1, <3>2, <3>3, InFront, l + 3 \in Nat
    <3>. QED
      BY <3>4 DEF d, p
  <2>. HIDE DEF loop
  <2>11. GenerateStatement(c, l) = [codes |-> <<Act(s.init)>> \o loop.codes, label |-> l + 3]
    <3>1. r.cond = s.cond /\ r.body = Append(s.body, [kind |-> "do", act |-> s.after])
      BY DEF LoopOf
    <3>2. GenerateStatement(c, l) = GenerateStatementFor(s, l)
      BY <1>6 DEF GenerateStatement, s
    <3>3. GenerateStatementFor(s, l) = [codes |-> <<Act(s.init)>> \o loop.codes, label |-> loop.label]
      BY <3>1 DEF GenerateStatementFor, Emit, loop
    <3>. QED
      BY <3>2, <3>3, <2>9
  <2>. QED
    BY <2>6, <2>10, <2>11 DEF Keeps
<1>. QED
  BY <1>2, <1>3, <1>4, <1>5, <1>6

(* The rest of a list, from place to place.                                *)
LEMMA Rests ==
  ASSUME NEW seq \in Lists, NEW n \in Lists
  PROVE  \E rest \in [1 .. Len(seq) + 1 -> Lists] :
           /\ rest[1] = seq \o n /\ rest[Len(seq) + 1] = n
           /\ \A i \in 1 .. Len(seq) : rest[i] = <<seq[i]>> \o rest[i + 1]
<1>. DEFINE z == Len(seq)
            part(i) == SubSeq(seq, i, z)
            rest == [i \in 1 .. z + 1 |-> part(i) \o n]
<1>0. z \in Nat /\ \A i \in 1 .. z : seq[i] \in Stmts
  BY DEF Lists
<1>1. \A i \in 1 .. z + 1 : part(i) \in Lists /\ Len(part(i)) = z - i + 1
                            /\ \A j \in 1 .. (z - i + 1) : part(i)[j] = seq[i + j - 1]
  <2>. TAKE i \in 1 .. z + 1
  <2>1. \A j \in i .. z : seq[j] \in Stmts
    BY <1>0
  <2>2. /\ SubSeq(seq, i, z) \in Seq(Stmts)
        /\ Len(SubSeq(seq, i, z)) = (IF i <= z THEN z - i + 1 ELSE 0)
        /\ \A j \in 1 .. (z - i + 1) : SubSeq(seq, i, z)[j] = seq[i + j - 1]
    BY <1>0, <2>1, SubSeqProperties
  <2>. QED
    BY <1>0, <2>2 DEF Lists
<1>2. part(1) = seq /\ part(z + 1) = <<>>
  <2>1. part(1) \in Seq(Stmts) /\ Len(part(1)) = z /\ \A j \in 1 .. z : part(1)[j] = seq[j]
    BY <1>0, <1>1 DEF Lists
  <2>2. part(z + 1) \in Seq(Stmts) /\ Len(part(z + 1)) = 0
    BY <1>0, <1>1 DEF Lists
  <2>. HIDE DEF part
  <2>3. part(1) = seq
    BY <2>1, SeqEqual DEF Lists
  <2>4. part(z + 1) = <<>>
    BY <2>2, EmptySeq
  <2>. QED
    BY <2>3, <2>4
<1>3. \A i \in 1 .. z : part(i) = <<seq[i]>> \o part(i + 1)
  <2>. TAKE i \in 1 .. z
  <2>. DEFINE q == part(i + 1)
              h == <<seq[i]>>
              t == h \o q
  <2>1. q \in Seq(Stmts) /\ Len(q) = z - i /\ \A j \in 1 .. (z - i) : q[j] = seq[i + j]
    BY <1>0, <1>1 DEF Lists
  <2>2. part(i) \in Seq(Stmts) /\ Len(part(i)) = z - i + 1
        /\ \A j \in 1 .. (z - i + 1) : part(i)[j] = seq[i + j - 1]
    BY <1>0, <1>1 DEF Lists
  <2>. HIDE DEF part, q
  <2>3. h \in Seq(Stmts) /\ Len(h) = 1 /\ h[1] = seq[i]
    BY <1>0
  <2>. HIDE DEF h
  <2>4. /\ t \in Seq(Stmts) /\ Len(t) = Len(h) + Len(q)
        /\ \A j \in 1 .. Len(h) : t[j] = h[j]
        /\ \A j \in 1 .. Len(q) : t[Len(h) + j] = q[j]
    <3>1. h \in Seq(Stmts) /\ q \in Seq(Stmts)
      BY <2>1, <2>3
    <3>2. /\ h \o q \in Seq(Stmts) /\ Len(h \o q) = Len(h) + Len(q)
          /\ \A j \in 1 .. Len(h) : (h \o q)[j] = h[j]
          /\ \A j \in 1 .. Len(q) : (h \o q)[Len(h) + j] = q[j]
      BY ONLY <3>1, Behind
    <3>. QED
      BY <3>2
  <2>. HIDE DEF t
  <2>5. Len(t) = z - i + 1 /\ t[1] = seq[i] /\ \A j \in 1 .. (z - i) : t[1 + j] = seq[i + j]
    BY <1>0, <2>1, <2>3, <2>4
  <2>6. \A j \in 1 .. Len(t) : t[j] = part(i)[j]
    <3>. TAKE j \in 1 .. Len(t)
    <3>1. CASE j = 1
      BY <3>1, <1>0, <2>2, <2>5
    <3>2. CASE j # 1
      <4>1. j - 1 \in 1 .. (z - i) /\ 1 + (j - 1) = j /\ i + (j - 1) = i + j - 1
        BY <3>2, <1>0, <2>5
      <4>2. t[j] = seq[i + j - 1]
        BY <4>1, <2>5
      <4>3. part(i)[j] = seq[i + j - 1]
        BY <2>2, <2>5
      <4>. QED
        BY <4>2, <4>3
    <3>. QED
      BY <3>1, <3>2
  <2>7. t = part(i)
    BY <2>2, <2>4, <2>5, <2>6, SeqEqual
  <2>. QED
    BY <2>7 DEF t, q, h
<1>. HIDE DEF part
<1>4. rest \in [1 .. z + 1 -> Lists]
  BY <1>1, ConcatProperties DEF Lists
<1>7. \A i \in 1 .. z + 1 : rest[i] = part(i) \o n
  OBVIOUS
<1>. HIDE DEF rest
<1>5. rest[1] = seq \o n /\ rest[z + 1] = n
  <2>1. <<>> \o n = n
    BY ConcatEmptySeq DEF Lists
  <2>2. 1 \in 1 .. z + 1 /\ z + 1 \in 1 .. z + 1
    BY <1>0
  <2>3. rest[1] = part(1) \o n /\ rest[z + 1] = part(z + 1) \o n
    BY <1>7, <2>2
  <2>. QED
    BY <1>2, <2>1, <2>3
<1>6. \A i \in 1 .. z : rest[i] = <<seq[i]>> \o rest[i + 1]
  <2>. TAKE i \in 1 .. z
  <2>. DEFINE h == <<seq[i]>>  q == part(i + 1)
  <2>1. h \in Seq(Stmts) /\ q \in Seq(Stmts) /\ n \in Seq(Stmts)
    BY <1>0, <1>1 DEF Lists
  <2>3. rest[i] = part(i) \o n /\ rest[i + 1] = q \o n /\ part(i) = h \o q
    <3>1. i \in 1 .. z + 1 /\ i + 1 \in 1 .. z + 1
      BY <1>0
    <3>. QED
      BY <3>1, <1>3, <1>7
  <2>. HIDE DEF h, q
  <2>2. (h \o q) \o n = h \o (q \o n)
    BY <2>1, Assoc
  <2>. QED
    BY <2>2, <2>3 DEF h
<1>. QED
  BY <1>4, <1>5, <1>6 DEF rest

(* A call for a list of statements.                                        *)
LEMMA KeptSeq ==
  ASSUME NEW l \in Nat, NEW c \in Pending(l), c.op = "seqOf",
         NEW u \in Lists, NEW n \in Lists, NEW mean \in [Labels(l) -> Lists], NEW k, NEW main,
         Ok(c, U(u), n, mean, k, main)
  PROVE  Keeps(GenerateStatementSeq(c, l), l, u, n, mean, k, main)
<1>. DEFINE seq == c.seq  z == Len(seq)
            codes == [i \in DOMAIN seq |-> StatementOf(seq[i])]
<1>1. seq \in Lists /\ z \in Nat /\ DOMAIN seq = 1 .. z /\ U(u) = U(seq \o n)
  BY CodeKinds, Parts DEF Codes, Ok, Lists
<1>2. GenerateStatementSeq(c, l) = [codes |-> codes, label |-> l]
  BY DEF GenerateStatementSeq, Emit
<1>3. Len(codes) = z /\ \A i \in 1 .. z : codes[i] = StatementOf(seq[i])
  BY <1>1
<1>4. z = 0 => seq = <<>>
  BY <1>1, EmptySeq DEF Lists
<1>. HIDE DEF seq, z, codes
<1>5. PICK rest \in [1 .. z + 1 -> Lists] :
        /\ rest[1] = seq \o n /\ rest[z + 1] = n
        /\ \A i \in 1 .. z : rest[i] = <<seq[i]>> \o rest[i + 1]
  BY <1>1, Rests DEF z
<1>. DEFINE mid == [i \in 1 .. z + 1 |-> IF i = 1 THEN u ELSE rest[i]]
<1>6. /\ mid \in [1 .. z + 1 -> Lists] /\ mid[1] = u
      /\ \A i \in 2 .. z + 1 : mid[i] = rest[i]
  BY <1>1, <1>5
<1>. HIDE DEF mid
<1>7. \A i \in 1 .. z : Ok(codes[i], U(mid[i]), mid[i + 1], mean, k, main)
  <2>. TAKE i \in 1 .. z
  <2>1. U(mid[i]) = U(rest[i])
    <3>1. CASE i = 1
      BY <3>1, <1>1, <1>5, <1>6
    <3>2. CASE i # 1
      <4>1. i \in 2 .. z + 1
        BY <3>2, <1>1
      <4>. QED
        BY <4>1, <1>6
    <3>. QED
      BY <3>1, <3>2
  <2>2. mid[i + 1] = rest[i + 1] /\ rest[i] = <<seq[i]>> \o rest[i + 1]
    BY <1>1, <1>5, <1>6
  <2>. QED
    BY <1>3, <2>1, <2>2 DEF Ok, StatementOf
<1>8. IF z = 0 THEN Same(u, n) ELSE mid[z + 1] = n
  <2>1. CASE z = 0
    <3>1. seq \o n = n
      BY <2>1, <1>4, ConcatEmptySeq DEF Lists
    <3>. QED
      BY <2>1, <3>1, <1>1 DEF Same
  <2>2. CASE z # 0
    BY <2>2, <1>1, <1>5, <1>6
  <2>. QED
    BY <2>1, <2>2
<1>9. Codified(codes, l, u, n, mean, mid, k, main)
  BY <1>3, <1>6, <1>7, <1>8 DEF Codified
<1>. QED
  BY <1>2, <1>9 DEF Keeps

(* The call for a method.                                                  *)
LEMMA KeptMethod ==
  ASSUME NEW l \in Nat, NEW c \in Pending(l), c.op = "methodOf",
         NEW u \in Lists, NEW n \in Lists, NEW mean \in [Labels(l) -> Lists], NEW k, NEW main,
         Ok(c, U(u), n, mean, k, main)
  PROVE  Keeps(GenerateMethod(c, l), l, u, n, mean, k, main)
<1>. DEFINE codes == <<Method(c.method), StatementSeqOf(c.body), Ret>>
            mid   == [i \in 1 .. 4 |-> IF i = 1 THEN u ELSE IF i = 2 THEN c.body
                                       ELSE IF i = 3 THEN <<>> ELSE n]
<1>1. c.body \in Lists /\ U(u) = U(c.body) /\ (c.method = k => U(u) = U(main))
  BY CodeKinds, Parts DEF Codes, Ok
<1>2. /\ mid \in [1 .. 4 -> Lists]
      /\ mid[1] = u /\ mid[2] = c.body /\ mid[3] = <<>> /\ mid[4] = n
  BY <1>1, Parts
<1>. HIDE DEF mid
<1>3. Len(codes) = 3 /\ codes[1] = Method(c.method) /\ codes[2] = StatementSeqOf(c.body) /\ codes[3] = Ret
  OBVIOUS
<1>4. GenerateMethod(c, l) = [codes |-> codes, label |-> l]
  BY DEF GenerateMethod, Emit
<1>. HIDE DEF codes
<1>5. Ok(codes[1], U(mid[1]), mid[2], mean, k, main)
  BY <1>1, <1>2, <1>3 DEF Ok, Method
<1>6. Ok(codes[2], U(mid[2]), mid[3], mean, k, main)
  <2>1. c.body \o <<>> = c.body
    BY <1>1, ConcatEmptySeq DEF Lists
  <2>. QED
    BY <2>1, <1>2, <1>3 DEF Ok, StatementSeqOf
<1>7. Ok(codes[3], U(mid[3]), mid[4], mean, k, main)
  <2>1. U(<<>>) = <<>>
    BY Stable, Parts
  <2>. QED
    BY <2>1, <1>2, <1>3 DEF Ok, Ret
<1>8. \A i \in 1 .. 3 : Ok(codes[i], U(mid[i]), mid[i + 1], mean, k, main)
  BY <1>5, <1>6, <1>7
<1>9. Codified(codes, l, u, n, mean, mid, k, main)
  BY <1>2, <1>3, <1>8 DEF Codified
<1>. QED
  BY <1>4, <1>9 DEF Keeps

(* Each call keeps its promise.                                            *)
LEMMA Kept ==
  ASSUME NEW l \in Nat, NEW c \in Pending(l),
         NEW u \in Lists, NEW n \in Lists, NEW mean \in [Labels(l) -> Lists], NEW k, NEW main,
         Ok(c, U(u), n, mean, k, main)
  PROVE  Keeps(Generated(c, l), l, u, n, mean, k, main)
<1>1. c.op \in Calls
  BY CodeKinds DEF Codes
<1>2. CASE c.op = "methodOf"
  BY <1>2, KeptMethod DEF Generated
<1>3. CASE c.op = "seqOf"
  BY <1>3, KeptSeq DEF Generated
<1>4. CASE c.op = "statementOf"
  BY <1>4, KeptStatement DEF Generated
<1>5. CASE c.op = "boolOf"
  BY <1>5, KeptBool DEF Generated
<1>6. CASE c.op = "itemOf"
  BY <1>6, KeptItem DEF Generated
<1>7. CASE c.op = "factorOf"
  BY <1>7, KeptFactor DEF Generated
<1>. QED
  BY <1>1, <1>2, <1>3, <1>4, <1>5, <1>6, <1>7 DEF Calls

-----------------------------------------------------------------------------
(* The shape of what a call emits.                                         *)

(* What a call emits are codes; a label is never given back.               *)
LEMMA Emitted ==
  ASSUME NEW l \in Nat, NEW c \in Pending(l)
  PROVE  LET e == Generated(c, l)
         IN e.label \in Nat /\ e.label >= l /\ e.codes \in Seq(Codes(e.label))
<1>. DEFINE e == Generated(c, l)
<1>1. c.op \in Calls
  BY CodeKinds DEF Codes
<1>2. CASE c.op = "methodOf"
  <2>1. Method(c.method) \in Codes(l) /\ StatementSeqOf(c.body) \in Codes(l) /\ Ret \in Codes(l)
    BY <1>2, CodeKinds, Made, Parts DEF Codes
  <2>2. e = [codes |-> <<Method(c.method), StatementSeqOf(c.body), Ret>>, label |-> l]
    BY <1>2 DEF Generated, GenerateMethod, Emit
  <2>3. <<Method(c.method), StatementSeqOf(c.body), Ret>> \in Seq(Codes(l))
    BY <2>1
  <2>. QED
    BY <2>2, <2>3
<1>3. CASE c.op = "seqOf"
  <2>1. c.seq \in Seq(Base)
    BY <1>3, CodeKinds DEF Codes
  <2>2. \A i \in DOMAIN c.seq : StatementOf(c.seq[i]) \in Codes(l)
    BY <2>1, Made
  <2>3. [i \in DOMAIN c.seq |-> StatementOf(c.seq[i])] \in Seq(Codes(l))
    BY <2>1, <2>2
  <2>4. e = [codes |-> [i \in DOMAIN c.seq |-> StatementOf(c.seq[i])], label |-> l]
    BY <1>3 DEF Generated, GenerateStatementSeq, Emit
  <2>. QED
    BY <2>3, <2>4
<1>4. CASE c.op = "statementOf"
  <2>. DEFINE s == c.statement
  <2>1. e = GenerateStatement(c, l)
    BY <1>4 DEF Generated
  <2>2. s \in Base /\ s \in Stmts
    BY <1>4, CodeKinds, Parts DEF Codes
  <2>3. s.kind \in {"do", "if", "while", "for"}
    BY <2>2, Kinds
  <2>4. CASE s.kind = "do"
    <3>1. s.act \in Acts
      BY <2>2, <2>4, Kinds DEF Dos
    <3>2. e = [codes |-> <<Act(s.act)>>, label |-> l]
      BY <2>1, <2>4 DEF GenerateStatement, Emit
    <3>3. Act(s.act) \in Codes(l)
      BY <3>1, Made
    <3>. QED
      BY <3>2, <3>3
  <2>5. CASE s.kind = "if"
    <3>. DEFINE S == Codes(l + 3)
    <3>1. s.cond \in Conditions /\ s.yes \in Seq(Base) /\ s.no \in Seq(Base)
      <4>1. s \in Statements
        BY <2>2, <2>5 DEF Base, Dos
      <4>2. s \in [kind : {"if"}, cond : Conditions, yes : Seq(Statements), no : Seq(Statements)]
        BY <4>1, <2>5, ProgramsAssumption DEF Forms
      <4>. QED
        BY <4>2, Parts
    <3>2. l \in Labels(l + 3) /\ l + 1 \in Labels(l + 3) /\ l + 2 \in Labels(l + 3)
      BY DEF Labels
    <3>3. /\ Flag("ENTER_BLOCK") \in S /\ Flag("EXIT_BLOCK") \in S
          /\ Label(l) \in S /\ Label(l + 1) \in S /\ Label(l + 2) \in S /\ Jmp(l + 2) \in S
      BY <3>2, Made
    <3>4. BoolOf(s.cond, l, l + 1) \in S /\ StatementSeqOf(s.yes) \in S /\ StatementSeqOf(s.no) \in S
      BY <3>1, <3>2, Made
    <3>. HIDE DEF S
    <3>5. <<BoolOf(s.cond, l, l + 1), Flag("ENTER_BLOCK"),
            Label(l), StatementSeqOf(s.yes), Jmp(l + 2),
            Label(l + 1), StatementSeqOf(s.no),
            Label(l + 2), Flag("EXIT_BLOCK")>> \in Seq(S)
      BY <3>3, <3>4
    <3>6. GenerateStatementIf(s, l).label = l + 3 /\ GenerateStatementIf(s, l).codes \in Seq(S)
      BY <3>5 DEF GenerateStatementIf, Emit
    <3>7. e = GenerateStatementIf(s, l)
      BY <2>1, <2>5 DEF GenerateStatement
    <3>. QED
      BY <3>6, <3>7 DEF S
  <2>6. CASE s.kind = "while"
    <3>1. s \in Loops
      BY <2>2, <2>6, Kinds
    <3>2. e = GenerateLoop(s.cond, s.body, l)
      BY <2>1, <2>6 DEF GenerateStatement, GenerateStatementWhile
    <3>. QED
      <4>. DEFINE g == GenerateLoop(s.cond, s.body, l)
      <4>1. g.codes \in Seq(Codes(l + 3)) /\ g.label = l + 3
        BY <3>1, LoopTyped
      <4>. HIDE DEF g
      <4>2. e = g
        BY <3>2 DEF g
      <4>. QED
        BY <4>1, <4>2
  <2>7. CASE s.kind = "for"
    <3>. DEFINE r == LoopOf(s)
                loop == GenerateLoop(r.cond, r.body, l)
    <3>1. r \in Loops /\ s.init \in Acts
      BY <2>2, <2>7, UnrollFor, Kinds, Parts DEF Fors
    <3>2. loop.codes \in Seq(Codes(l + 3)) /\ loop.label = l + 3
      BY <3>1, LoopTyped
    <3>3. Act(s.init) \in Codes(l + 3)
      BY <3>1, Made
    <3>. HIDE DEF loop
    <3>4. <<Act(s.init)>> \o loop.codes \in Seq(Codes(l + 3))
      BY <3>2, <3>3, Cons
    <3>5. e = [codes |-> <<Act(s.init)>> \o loop.codes, label |-> loop.label]
      <4>1. r.cond = s.cond /\ r.body = Append(s.body, [kind |-> "do", act |-> s.after])
        BY DEF LoopOf
      <4>2. e = GenerateStatementFor(s, l)
        BY <2>1, <2>7 DEF GenerateStatement
      <4>. QED
        BY <4>1, <4>2 DEF GenerateStatementFor, Emit, loop
    <3>. QED
      BY <3>2, <3>4, <3>5
  <2>. QED
    BY <2>3, <2>4, <2>5, <2>6, <2>7
<1>5. CASE c.op = "boolOf"
  <2>1. e = GenerateExpressionBool(c, l)
    BY <1>5 DEF Generated
  <2>2. /\ c.cond \in Conditions \cup {<<>>}
        /\ c.true \in Labels(l) /\ c.false \in Labels(l)
    BY <1>5, CodeKinds DEF Codes
  <2>3. CASE c.cond = <<>>
    BY <2>1, <2>3 DEF GenerateExpressionBool, Emit
  <2>. SUFFICES ASSUME c.cond # <<>>
                PROVE  e.label \in Nat /\ e.label >= l /\ e.codes \in Seq(Codes(e.label))
    BY <2>3
  <2>4. Head(c.cond) \in Items /\ Tail(c.cond) \in Conditions \cup {<<>>}
    BY <2>2 DEF Conditions, Items
  <2>5. CASE Len(c.cond) = 1
    <3>1. ItemOf(Head(c.cond), c.true, c.false) \in Codes(l)
      BY <2>2, <2>4, Made
    <3>. QED
      BY <2>1, <2>5, <3>1 DEF GenerateExpressionBool, Emit
  <2>6. CASE Len(c.cond) # 1
    <3>1. l \in Labels(l + 1) /\ c.true \in Labels(l + 1) /\ c.false \in Labels(l + 1)
      BY <2>2 DEF Labels
    <3>2. /\ ItemOf(Head(c.cond), c.true, l) \in Codes(l + 1) /\ Label(l) \in Codes(l + 1)
          /\ BoolOf(Tail(c.cond), c.true, c.false) \in Codes(l + 1)
      <4>1. ItemOf(Head(c.cond), c.true, l) \in Codes(l + 1)
        BY <2>4, <3>1, Made
      <4>2. Label(l) \in Codes(l + 1)
        BY <3>1, Made
      <4>3. BoolOf(Tail(c.cond), c.true, c.false) \in Codes(l + 1)
        <5>. DEFINE t == Tail(c.cond)
        <5>1. t \in Conditions \cup {<<>>} /\ l + 1 \in Nat
          BY <2>4
        <5>. HIDE DEF t
        <5>2. BoolOf(t, c.true, c.false) \in Codes(l + 1)
          BY <5>1, <3>1, Made
        <5>. QED
          BY <5>2 DEF t
      <4>. QED
        BY <4>1, <4>2, <4>3
    <3>3. <<ItemOf(Head(c.cond), c.true, l), Label(l), BoolOf(Tail(c.cond), c.true, c.false)>>
            \in Seq(Codes(l + 1))
      BY <3>2
    <3>. QED
      BY <2>1, <2>6, <3>3 DEF GenerateExpressionBool, Emit
  <2>. QED
    BY <2>5, <2>6
<1>6. CASE c.op = "itemOf"
  <2>1. e = GenerateItemBool(c, l)
    BY <1>6 DEF Generated
  <2>2. c.item \in Items /\ c.true \in Labels(l) /\ c.false \in Labels(l)
    BY <1>6, CodeKinds DEF Codes
  <2>3. /\ c.item \in Seq(Factors) /\ c.item # <<>> /\ Head(c.item) \in Factors
        /\ Len(c.item) \in Nat /\ Len(c.item) # 0
        /\ Tail(c.item) \in Seq(Factors) /\ Len(Tail(c.item)) = Len(c.item) - 1
    BY <2>2 DEF Items
  <2>4. CASE Len(c.item) = 1
    <3>1. FactorOf(Head(c.item), c.true, c.false) \in Codes(l)
      BY <2>2, <2>3, Made
    <3>. QED
      BY <2>1, <2>4, <3>1 DEF GenerateItemBool, Emit
  <2>5. CASE Len(c.item) # 1
    <3>1. l \in Labels(l + 1) /\ c.true \in Labels(l + 1) /\ c.false \in Labels(l + 1)
      BY <2>2 DEF Labels
    <3>2. Tail(c.item) \in Items
      <4>1. Len(Tail(c.item)) # 0 /\ Len(<<>>) = 0
        BY <2>3, <2>5
      <4>2. Tail(c.item) # <<>>
        BY <4>1
      <4>. QED
        BY <2>3, <4>2 DEF Items
    <3>3. /\ FactorOf(Head(c.item), l, c.false) \in Codes(l + 1) /\ Label(l) \in Codes(l + 1)
          /\ ItemOf(Tail(c.item), c.true, c.false) \in Codes(l + 1)
      BY <2>3, <3>1, <3>2, Made
    <3>4. <<FactorOf(Head(c.item), l, c.false), Label(l), ItemOf(Tail(c.item), c.true, c.false)>>
            \in Seq(Codes(l + 1))
      BY <3>3
    <3>. QED
      BY <2>1, <2>5, <3>4 DEF GenerateItemBool, Emit
  <2>. QED
    BY <2>4, <2>5
<1>7. CASE c.op = "factorOf"
  <2>1. e = GenerateFactorBool(c, l)
    BY <1>7 DEF Generated
  <2>. DEFINE f == c.factor
              d == IF f.inverted = 0 THEN Cmp(f.name, c.true, c.false)
                   ELSE FactorOf([f EXCEPT !.inverted = @ - 1], c.false, c.true)
  <2>2. f \in Factors /\ c.true \in Labels(l) /\ c.false \in Labels(l)
    BY <1>7, CodeKinds DEF Codes
  <2>3. f.inverted # 0 => [f EXCEPT !.inverted = @ - 1] \in Factors
    BY <2>2 DEF Factors
  <2>4. f.name \in Comparisons
    BY <2>2 DEF Factors
  <2>5. d \in Codes(l)
    BY <2>2, <2>3, <2>4, Made
  <2>6. e = [codes |-> <<d>>, label |-> l]
    BY <2>1 DEF GenerateFactorBool, Emit
  <2>. HIDE DEF d
  <2>. QED
    BY <2>5, <2>6
<1>. QED
  BY <1>1, <1>2, <1>3, <1>4, <1>5, <1>6, <1>7 DEF Calls

\* The labels a code or the codes of a call may branch to.
Goals(c) == IF c.op \in {"cmp", "boolOf", "itemOf", "factorOf"} THEN {c.true, c.false}
            ELSE IF c.op = "jmp" THEN {c.label} ELSE {}

\* A code that is neither a label nor a flag, and its goals.
Plain(c, goals) == c.op \notin {"label", "flag"} /\ Goals(c) \subseteq goals

\* Codes without a label, with one, of an if and of a loop behind o actions.
PlainAt(p, goals) == \A i \in 1 .. Len(p) : Plain(p[i], goals)
ChainAt(p, goals, l) ==
  /\ Len(p) = 3
  /\ Plain(p[1], goals \cup {l}) /\ p[2] = Label(l) /\ Plain(p[3], goals \cup {l})
IfAt(p, l) ==
  /\ Len(p) = 9
  /\ Plain(p[1], {l, l + 1}) /\ p[2] = Flag("ENTER_BLOCK")
  /\ p[3] = Label(l) /\ Plain(p[4], {}) /\ Plain(p[5], {l + 2})
  /\ p[6] = Label(l + 1) /\ Plain(p[7], {})
  /\ p[8] = Label(l + 2) /\ p[9] = Flag("EXIT_BLOCK")
LoopAt(p, o, l) ==
  /\ Len(p) = o + 8
  /\ \A i \in 1 .. o : Plain(p[i], {})
  /\ p[o + 1] = Flag("ENTER_LOOP_BLOCK") /\ p[o + 2] = Label(l)
  /\ Plain(p[o + 3], {l + 1, l + 2})
  /\ p[o + 4] = Label(l + 1) /\ Plain(p[o + 5], {}) /\ Plain(p[o + 6], {l})
  /\ p[o + 7] = Label(l + 2) /\ p[o + 8] = Flag("EXIT_LOOP_BLOCK")

Shaped(e, c, l) ==
  \/ e.label = l /\ PlainAt(e.codes, Goals(c))
  \/ e.label = l + 1 /\ ChainAt(e.codes, Goals(c), l)
  \/ e.label = l + 3 /\ IfAt(e.codes, l)
  \/ e.label = l + 3 /\ \E o \in {0, 1} : LoopAt(e.codes, o, l)

(* What a call emits has one of the four shapes.                           *)
LEMMA Shape ==
  ASSUME NEW l \in Nat, NEW c \in Pending(l)
  PROVE  Shaped(Generated(c, l), c, l)
<1>. DEFINE e == Generated(c, l)
<1>1. c.op \in Calls
  BY CodeKinds DEF Codes
<1>2. CASE c.op = "methodOf"
  <2>. DEFINE p == <<Method(c.method), StatementSeqOf(c.body), Ret>>
  <2>1. e = [codes |-> p, label |-> l]
    BY <1>2 DEF Generated, GenerateMethod, Emit
  <2>2. Plain(Method(c.method), Goals(c)) /\ Plain(StatementSeqOf(c.body), Goals(c)) /\ Plain(Ret, Goals(c))
    BY DEF Plain, Goals, Method, StatementSeqOf, Ret
  <2>3. Len(p) = 3 /\ p[1] = Method(c.method) /\ p[2] = StatementSeqOf(c.body) /\ p[3] = Ret
    OBVIOUS
  <2>. HIDE DEF p
  <2>4. PlainAt(p, Goals(c))
    BY <2>2, <2>3 DEF PlainAt
  <2>. QED
    BY <2>1, <2>4 DEF Shaped
<1>3. CASE c.op = "seqOf"
  <2>1. c.seq \in Seq(Base)
    BY <1>3, CodeKinds DEF Codes
  <2>2. e = [codes |-> [i \in DOMAIN c.seq |-> StatementOf(c.seq[i])], label |-> l]
    BY <1>3 DEF Generated, GenerateStatementSeq, Emit
  <2>3. \A i \in 1 .. Len(c.seq) : Plain(StatementOf(c.seq[i]), Goals(c))
    BY DEF Plain, StatementOf, Goals
  <2>. QED
    BY <2>1, <2>2, <2>3 DEF Shaped, PlainAt
<1>4. CASE c.op = "statementOf"
  <2>. DEFINE s == c.statement
  <2>1. e = GenerateStatement(c, l)
    BY <1>4 DEF Generated
  <2>2. s \in Base /\ s \in Stmts
    BY <1>4, CodeKinds, Parts DEF Codes
  <2>3. s.kind \in {"do", "if", "while", "for"}
    BY <2>2, Kinds
  <2>4. CASE s.kind = "do"
    BY <2>1, <2>4 DEF GenerateStatement, Emit, Shaped, PlainAt, Plain, Goals, Act
  <2>5. CASE s.kind = "if"
    <3>. DEFINE g == GenerateStatementIf(s, l)
    <3>1. g.label = l + 3 /\ IfAt(g.codes, l)
      BY DEF GenerateStatementIf, Emit, IfAt, Plain, Goals, BoolOf, StatementSeqOf, Jmp
    <3>2. e = g
      BY <2>1, <2>5 DEF GenerateStatement
    <3>. QED
      BY <3>1, <3>2 DEF Shaped
  <2>6. CASE s.kind = "while"
    <3>. DEFINE g == GenerateLoop(s.cond, s.body, l)
    <3>1. g.label = l + 3 /\ LoopAt(g.codes, 0, l)
      BY DEF GenerateLoop, Emit, LoopAt, Plain, Goals, BoolOf, StatementSeqOf, Jmp
    <3>2. e = g
      BY <2>1, <2>6 DEF GenerateStatement, GenerateStatementWhile
    <3>. QED
      BY <3>1, <3>2 DEF Shaped
  <2>7. CASE s.kind = "for"
    <3>. DEFINE r == LoopOf(s)
                g == GenerateLoop(r.cond, r.body, l)
                q == g.codes
                d == <<Act(s.init)>>
    <3>1. r \in Loops
      BY <2>2, <2>7, UnrollFor, Parts
    <3>2. q \in Seq(Codes(l + 3)) /\ g.label = l + 3 /\ Len(q) = 8
      BY <3>1, LoopTyped
    <3>3. LoopAt(q, 0, l)
      BY DEF GenerateLoop, Emit, LoopAt, Plain, Goals, BoolOf, StatementSeqOf, Jmp
    <3>4. e = [codes |-> d \o q, label |-> g.label]
      <4>1. r.cond = s.cond /\ r.body = Append(s.body, [kind |-> "do", act |-> s.after])
        BY DEF LoopOf
      <4>2. e = GenerateStatementFor(s, l)
        BY <2>1, <2>7 DEF GenerateStatement
      <4>. QED
        BY <4>1, <4>2 DEF GenerateStatementFor, Emit
    <3>5. s.init \in Acts
      BY <2>2, <2>7, Kinds DEF Fors
    <3>6. d \in Seq(Codes(l + 3)) /\ Len(d) = 1 /\ Plain(d[1], {})
      BY <3>5, Made DEF Plain, Act, Goals
    <3>. HIDE DEF q, g, d
    <3>. DEFINE S == Codes(l + 3)
                z == d \o q
    <3>7. /\ Len(d \o q) = Len(d) + Len(q)
          /\ \A i \in 1 .. Len(d) : (d \o q)[i] = d[i]
          /\ \A i \in 1 .. Len(q) : (d \o q)[Len(d) + i] = q[i]
      <4>1. d \in Seq(S) /\ q \in Seq(S)
        BY <3>2, <3>6
      <4>. QED
        BY ONLY <4>1, Behind
    <3>. HIDE DEF S
    <3>8. Len(z) = 9 /\ z[1] = d[1] /\ \A i \in 1 .. 8 : z[1 + i] = q[i]
      <4>1. Len(z) = Len(d) + Len(q)
            /\ (\A i \in 1 .. Len(d) : z[i] = d[i])
            /\ \A i \in 1 .. Len(q) : z[Len(d) + i] = q[i]
        BY <3>7
      <4>. HIDE DEF z
      <4>. QED
        BY <3>2, <3>6, <4>1
    <3>. HIDE DEF z
    <3>9. LoopAt(z, 1, l)
      <4>1. /\ z[1] = d[1] /\ z[2] = q[1] /\ z[3] = q[2] /\ z[4] = q[3] /\ z[5] = q[4]
            /\ z[6] = q[5] /\ z[7] = q[6] /\ z[8] = q[7] /\ z[9] = q[8]
        BY <3>8
      <4>. QED
        BY <3>3, <3>6, <3>8, <4>1 DEF LoopAt
    <3>. QED
      BY <3>2, <3>4, <3>9 DEF Shaped, z
  <2>. QED
    BY <2>3, <2>4, <2>5, <2>6, <2>7
<1>5. CASE c.op = "boolOf"
  <2>1. e = GenerateExpressionBool(c, l)
    BY <1>5 DEF Generated
  <2>2. CASE c.cond = <<>>
    BY <2>1, <2>2 DEF GenerateExpressionBool, Emit, Shaped, PlainAt
  <2>3. CASE c.cond # <<>> /\ Len(c.cond) = 1
    BY <1>5, <2>1, <2>3 DEF GenerateExpressionBool, Emit, Shaped, PlainAt, Plain, Goals, ItemOf
  <2>4. CASE c.cond # <<>> /\ Len(c.cond) # 1
    <3>. DEFINE d1 == ItemOf(Head(c.cond), c.true, l)
                d3 == BoolOf(Tail(c.cond), c.true, c.false)
    <3>1. Plain(d1, Goals(c) \cup {l}) /\ Plain(d3, Goals(c) \cup {l})
      BY <1>5 DEF Plain, Goals, ItemOf, BoolOf
    <3>2. e = [codes |-> <<d1, Label(l), d3>>, label |-> l + 1]
      BY <2>1, <2>4 DEF GenerateExpressionBool, Emit
    <3>. HIDE DEF d1, d3, e
    <3>. QED
      BY <3>1, <3>2 DEF Shaped, ChainAt, e
  <2>. QED
    BY <2>2, <2>3, <2>4
<1>6. CASE c.op = "itemOf"
  <2>1. e = GenerateItemBool(c, l)
    BY <1>6 DEF Generated
  <2>3. CASE Len(c.item) = 1
    BY <1>6, <2>1, <2>3 DEF GenerateItemBool, Emit, Shaped, PlainAt, Plain, Goals, FactorOf
  <2>4. CASE Len(c.item) # 1
    <3>. DEFINE d1 == FactorOf(Head(c.item), l, c.false)
                d3 == ItemOf(Tail(c.item), c.true, c.false)
    <3>1. Plain(d1, Goals(c) \cup {l}) /\ Plain(d3, Goals(c) \cup {l})
      BY <1>6 DEF Plain, Goals, ItemOf, FactorOf
    <3>2. e = [codes |-> <<d1, Label(l), d3>>, label |-> l + 1]
      BY <2>1, <2>4 DEF GenerateItemBool, Emit
    <3>. HIDE DEF d1, d3, e
    <3>. QED
      BY <3>1, <3>2 DEF Shaped, ChainAt, e
  <2>. QED
    BY <2>3, <2>4
<1>7. CASE c.op = "factorOf"
  <2>. DEFINE f == c.factor
              d == IF f.inverted = 0 THEN Cmp(f.name, c.true, c.false)
                   ELSE FactorOf([f EXCEPT !.inverted = @ - 1], c.false, c.true)
  <2>1. e = [codes |-> <<d>>, label |-> l]
    BY <1>7 DEF Generated, GenerateFactorBool, Emit
  <2>2. Plain(d, Goals(c))
    BY <1>7 DEF Plain, Goals, FactorOf, Cmp
  <2>. HIDE DEF d
  <2>. QED
    BY <2>1, <2>2 DEF Shaped, PlainAt
<1>. QED
  BY <1>1, <1>2, <1>3, <1>4, <1>5, <1>6, <1>7 DEF Calls

(* The labels that a call allocates are placed, once each, and no other.   *)
LEMMA NewLabels ==
  ASSUME NEW l \in Nat, NEW c \in Pending(l), NEW e, Shaped(e, c, l), Len(e.codes) \in Nat
  PROVE  /\ \A i \in 1 .. Len(e.codes) : e.codes[i].op = "label" => e.codes[i].label >= l
         /\ \A x \in l .. (e.label - 1) : \E j \in 1 .. Len(e.codes) :
              /\ e.codes[j] = Label(x)
              /\ \A i \in 1 .. Len(e.codes) : e.codes[i] = Label(x) => i = j
<1>. DEFINE p == e.codes
            Once(x, j) == p[j] = Label(x) /\ \A i \in 1 .. Len(p) : p[i] = Label(x) => i = j
<1>1. \A x : Label(x).op = "label" /\ Label(x).label = x
  BY DEF Label
<1>2. \A f : Flag(f).op = "flag"
  BY DEF Flag
<1>3. CASE e.label = l /\ PlainAt(p, Goals(c))
  BY <1>3 DEF PlainAt, Plain
<1>4. CASE e.label = l + 1 /\ ChainAt(p, Goals(c), l)
  <2>1. Len(p) = 3 /\ p[2] = Label(l) /\ p[1].op # "label" /\ p[3].op # "label"
    BY <1>4 DEF ChainAt, Plain
  <2>2. Once(l, 2)
    BY <2>1, <1>1
  <2>3. l .. (e.label - 1) = {l}
    BY <1>4
  <2>. QED
    BY <1>1, <2>1, <2>2, <2>3
<1>5. CASE e.label = l + 3 /\ IfAt(p, l)
  <2>1. /\ Len(p) = 9 /\ p[3] = Label(l) /\ p[6] = Label(l + 1) /\ p[8] = Label(l + 2)
        /\ \A i \in {1, 2, 4, 5, 7, 9} : p[i].op # "label"
    BY <1>2, <1>5 DEF IfAt, Plain
  <2>2. \A i \in 1 .. Len(p) : i \in {1, 2, 4, 5, 7, 9} \cup {3, 6, 8}
    BY <2>1
  <2>. HIDE DEF p
  <2>3. Once(l, 3) /\ Once(l + 1, 6) /\ Once(l + 2, 8)
    BY <2>1, <2>2, <1>1
  <2>4. \A x \in l .. (e.label - 1) : x \in {l, l + 1, l + 2}
    BY <1>5
  <2>5. \A x \in l .. (e.label - 1) : \E j \in 1 .. Len(p) : Once(x, j)
    BY <2>1, <2>3, <2>4
  <2>6. \A i \in 1 .. Len(p) : p[i].op = "label" => p[i].label >= l
    BY <2>1, <2>2, <1>1
  <2>. QED
    BY <2>5, <2>6 DEF p
<1>6. ASSUME NEW o \in {0, 1}, e.label = l + 3, LoopAt(p, o, l)
      PROVE  /\ \A i \in 1 .. Len(p) : p[i].op = "label" => p[i].label >= l
             /\ \A x \in l .. (e.label - 1) : \E j \in 1 .. Len(p) : Once(x, j)
  <2>1. /\ Len(p) = o + 8 /\ p[o + 2] = Label(l) /\ p[o + 4] = Label(l + 1) /\ p[o + 7] = Label(l + 2)
        /\ \A i \in {o + 1, o + 3, o + 5, o + 6, o + 8} : p[i].op # "label"
        /\ \A i \in 1 .. o : p[i].op # "label"
    BY <1>2, <1>6 DEF LoopAt, Plain
  <2>2. \A i \in 1 .. Len(p) : \/ i \in 1 .. o
                                \/ i \in {o + 1, o + 3, o + 5, o + 6, o + 8}
                                \/ i \in {o + 2, o + 4, o + 7}
    <3>. HIDE DEF p
    <3>. DEFINE n == Len(p)
    <3>1. n = o + 8
      BY <2>1
    <3>. HIDE DEF n
    <3>2. \A i \in 1 .. n : \/ i \in 1 .. o
                            \/ i \in {o + 1, o + 3, o + 5, o + 6, o + 8}
                            \/ i \in {o + 2, o + 4, o + 7}
      BY <3>1
    <3>. QED
      BY <3>2 DEF n
  <2>. HIDE DEF p
  <2>7. o \in Nat /\ \A i \in 1 .. o : i # o + 2 /\ i # o + 4 /\ i # o + 7
    OBVIOUS
  <2>8. \A i \in 1 .. Len(p) : i \notin {o + 2, o + 4, o + 7} => p[i].op # "label"
    BY <2>1, <2>2
  <2>9. o + 2 \in 1 .. Len(p) /\ o + 4 \in 1 .. Len(p) /\ o + 7 \in 1 .. Len(p)
    BY <2>1
  <2>3. Once(l, o + 2) /\ Once(l + 1, o + 4) /\ Once(l + 2, o + 7)
    <3>1. \A x : \A i \in 1 .. Len(p) : p[i] = Label(x) => i \in {o + 2, o + 4, o + 7}
      BY <2>8, <1>1
    <3>2. \A x : /\ p[o + 2] = Label(x) => x = l
                 /\ p[o + 4] = Label(x) => x = l + 1
                 /\ p[o + 7] = Label(x) => x = l + 2
      <4>1. \A x, y : Label(x) = Label(y) => x = y
        BY DEF Label
      <4>. QED
        BY <2>1, <4>1
    <3>3. l # l + 1 /\ l # l + 2 /\ l + 1 # l + 2
      OBVIOUS
    <3>4. Once(l, o + 2)
      BY <2>1, <3>1, <3>2, <3>3
    <3>5. Once(l + 1, o + 4)
      BY <2>1, <3>1, <3>2, <3>3
    <3>6. Once(l + 2, o + 7)
      BY <2>1, <3>1, <3>2, <3>3
    <3>. QED
      BY <3>4, <3>5, <3>6
  <2>4. \A x \in l .. (e.label - 1) : x \in {l, l + 1, l + 2}
    BY <1>6
  <2>5. \A x \in l .. (e.label - 1) : \E j \in 1 .. Len(p) : Once(x, j)
    BY <2>9, <2>3, <2>4
  <2>6. \A i \in 1 .. Len(p) : p[i].op = "label" => p[i].label >= l
    <3>1. p[o + 2].label = l /\ p[o + 4].label = l + 1 /\ p[o + 7].label = l + 2
      BY <2>1, <1>1
    <3>2. l >= l /\ l + 1 >= l /\ l + 2 >= l
      OBVIOUS
    <3>. QED
      BY <2>8, <3>1, <3>2
  <2>. QED
    BY <2>5, <2>6 DEF p
<1>. QED
  BY <1>3, <1>4, <1>5, <1>6 DEF Shaped

\* The loops that a code enters, less those it leaves.
Step(c) == IF c = Flag("ENTER_LOOP_BLOCK") THEN 1 ELSE IF c = Flag("EXIT_LOOP_BLOCK") THEN -1 ELSE 0

\* How deep in loops each place of p is.
Deep(p, d) ==
  /\ d \in [1 .. Len(p) + 1 -> Nat]
  /\ \A i \in 1 .. Len(p) : d[i + 1] = d[i] + Step(p[i])

\* Nothing between the places i and j is less deep than they are.
Level(d, i, j) == d[i] = d[j] /\ \A x \in (i .. j) \cup (j .. i) : d[x] >= d[i]

\* A code and the labels it may branch to are in the same loops.
Together(p, d) ==
  \A i, j \in 1 .. Len(p) : p[j].op = "label" /\ p[j].label \in Goals(p[i]) => Level(d, i, j)

(* Loops are opened and closed within a call, which branches elsewhere     *)
(* only from outside of them.                                              *)
LEMMA Balanced ==
  ASSUME NEW l \in Nat, NEW c \in Pending(l), NEW e, Shaped(e, c, l), Len(e.codes) \in Nat
  PROVE  \E d : /\ Deep(e.codes, d) /\ d[1] = 0 /\ d[Len(e.codes) + 1] = 0
                /\ Together(e.codes, d)
                /\ \A i \in 1 .. Len(e.codes) : \A x \in Goals(e.codes[i]) :
                     x < l => x \in Goals(c) /\ d[i] = 0
<1>. DEFINE p == e.codes
            Result(d) == /\ Deep(p, d) /\ d[1] = 0 /\ d[Len(p) + 1] = 0
                         /\ Together(p, d)
                         /\ \A i \in 1 .. Len(p) : \A x \in Goals(p[i]) :
                              x < l => x \in Goals(c) /\ d[i] = 0
<1>1. /\ \A x : Label(x).op = "label" /\ Step(Label(x)) = 0 /\ Goals(Label(x)) = {}
      /\ \A f : Flag(f).op = "flag" /\ Goals(Flag(f)) = {}
      /\ Step(Flag("ENTER_BLOCK")) = 0 /\ Step(Flag("EXIT_BLOCK")) = 0
      /\ Step(Flag("ENTER_LOOP_BLOCK")) = 1 /\ Step(Flag("EXIT_LOOP_BLOCK")) = -1
      /\ \A q : q.op # "flag" => Step(q) = 0
  BY DEF Label, Flag, Step, Goals
<1>2. \A q, goals : Plain(q, goals) => Step(q) = 0 /\ q.op # "label" /\ Goals(q) \subseteq goals
  BY <1>1 DEF Plain
<1>9. \A x \in {l, l + 1, l + 2} : ~ (x < l)
  OBVIOUS
<1>. DEFINE flat == [i \in 1 .. Len(p) + 1 |-> 0]
<1>3. ASSUME \A i \in 1 .. Len(p) : Step(p[i]) = 0 /\ \A x \in Goals(p[i]) : x < l => x \in Goals(c)
      PROVE  Result(flat)
  <2>1. /\ flat \in [1 .. Len(p) + 1 -> Nat]
        /\ \A i \in 1 .. Len(p) + 1 : flat[i] = 0
    OBVIOUS
  <2>. HIDE DEF flat, p
  <2>2. Deep(p, flat)
    BY <1>3, <2>1 DEF Deep
  <2>3. Together(p, flat)
    <3>. SUFFICES ASSUME NEW i \in 1 .. Len(p), NEW j \in 1 .. Len(p)
                  PROVE  Level(flat, i, j)
      BY DEF Together
    <3>1. \A x \in (i .. j) \cup (j .. i) : x \in 1 .. Len(p) + 1
      OBVIOUS
    <3>. QED
      BY <2>1, <3>1 DEF Level
  <2>4. flat[1] = 0 /\ flat[Len(p) + 1] = 0
    BY <2>1 DEF p
  <2>. QED
    BY <1>3, <2>1, <2>2, <2>3, <2>4
<1>4. CASE PlainAt(p, Goals(c))
  <2>1. \A i \in 1 .. Len(p) : Step(p[i]) = 0 /\ \A x \in Goals(p[i]) : x < l => x \in Goals(c)
    BY <1>2, <1>4 DEF PlainAt
  <2>. QED
    BY <1>3, <2>1
<1>5. CASE ChainAt(p, Goals(c), l)
  <2>1. \A i \in 1 .. Len(p) : Step(p[i]) = 0 /\ Goals(p[i]) \subseteq Goals(c) \cup {l}
    <3>1. Len(p) = 3 /\ Plain(p[1], Goals(c) \cup {l}) /\ p[2] = Label(l) /\ Plain(p[3], Goals(c) \cup {l})
      BY <1>5 DEF ChainAt
    <3>2. \A i \in 1 .. Len(p) : i \in {1, 2, 3}
      BY <3>1
    <3>. HIDE DEF p
    <3>. QED
      BY <1>1, <1>2, <3>1, <3>2
  <2>2. \A i \in 1 .. Len(p) : Step(p[i]) = 0 /\ \A x \in Goals(p[i]) : x < l => x \in Goals(c)
    BY <2>1
  <2>. QED
    BY <1>3, <2>2
<1>6. CASE IfAt(p, l)
  <2>1. \A i \in 1 .. Len(p) : Step(p[i]) = 0 /\ Goals(p[i]) \subseteq {l, l + 1, l + 2}
    <3>1. /\ Len(p) = 9
          /\ Plain(p[1], {l, l + 1}) /\ p[2] = Flag("ENTER_BLOCK")
          /\ p[3] = Label(l) /\ Plain(p[4], {}) /\ Plain(p[5], {l + 2})
          /\ p[6] = Label(l + 1) /\ Plain(p[7], {})
          /\ p[8] = Label(l + 2) /\ p[9] = Flag("EXIT_BLOCK")
      BY <1>6 DEF IfAt
    <3>2. \A i \in 1 .. Len(p) : i \in {1, 2, 3, 4, 5, 6, 7, 8, 9}
      BY <3>1
    <3>. HIDE DEF p
    <3>. QED
      BY <1>1, <1>2, <3>1, <3>2
  <2>2. \A i \in 1 .. Len(p) : Step(p[i]) = 0 /\ \A x \in Goals(p[i]) : x < l => x \in Goals(c)
    <3>. HIDE DEF p
    <3>. QED
      BY <2>1, <1>9
  <2>. QED
    BY <1>3, <2>2
<1>7. ASSUME NEW o \in {0, 1}, LoopAt(p, o, l)
      PROVE  \E d : Result(d)
  <2>. DEFINE d == [i \in 1 .. Len(p) + 1 |-> IF i \in (o + 2) .. (o + 8) THEN 1 ELSE 0]
  <2>1. /\ Len(p) = o + 8
        /\ \A i \in 1 .. o : Plain(p[i], {})
        /\ p[o + 1] = Flag("ENTER_LOOP_BLOCK") /\ p[o + 2] = Label(l)
        /\ Plain(p[o + 3], {l + 1, l + 2})
        /\ p[o + 4] = Label(l + 1) /\ Plain(p[o + 5], {}) /\ Plain(p[o + 6], {l})
        /\ p[o + 7] = Label(l + 2) /\ p[o + 8] = Flag("EXIT_LOOP_BLOCK")
    BY <1>7 DEF LoopAt
  <2>. HIDE DEF p
  <2>2. /\ d \in [1 .. Len(p) + 1 -> Nat]
        /\ \A i \in 1 .. o + 1 : d[i] = 0
        /\ \A i \in (o + 2) .. (o + 8) : d[i] = 1
        /\ d[o + 9] = 0 /\ d[1] = 0 /\ d[Len(p) + 1] = 0
    BY <2>1
  <2>. HIDE DEF d
  <2>3. \A i \in 1 .. Len(p) : \/ i \in 1 .. o
                                \/ i \in {o + 1, o + 2, o + 3, o + 4, o + 5, o + 6, o + 7, o + 8}
    BY <2>1
  <2>4. \A i \in 1 .. Len(p) : /\ i = o + 1 => Step(p[i]) = 1
                               /\ i = o + 8 => Step(p[i]) = -1
                               /\ i # o + 1 /\ i # o + 8 => Step(p[i]) = 0
    BY <1>1, <1>2, <2>1, <2>3
  <2>5. Deep(p, d)
    <3>1. \A i \in 1 .. Len(p) : d[i + 1] = d[i] + Step(p[i])
      <4>. TAKE i \in 1 .. Len(p)
      <4>1. CASE i \in 1 .. o
        BY <4>1, <2>1, <2>2, <2>4
      <4>2. CASE i = o + 1
        BY <4>2, <2>1, <2>2, <2>4
      <4>3. CASE i \in (o + 2) .. (o + 7)
        BY <4>3, <2>1, <2>2, <2>4
      <4>4. CASE i = o + 8
        BY <4>4, <2>1, <2>2, <2>4
      <4>. QED
        BY <2>1, <4>1, <4>2, <4>3, <4>4
    <3>. QED
      BY <2>2, <3>1 DEF Deep
  <2>6. \A i \in 1 .. Len(p) : /\ Goals(p[i]) # {} => i \in {o + 3, o + 6}
                               /\ Goals(p[i]) \subseteq {l, l + 1, l + 2}
                               /\ p[i].op = "label" => i \in {o + 2, o + 4, o + 7}
    <3>. TAKE i \in 1 .. Len(p)
    <3>1. CASE i \in 1 .. o
      <4>1. Plain(p[i], {})
        BY <2>1, <3>1
      <4>2. Goals(p[i]) = {} /\ p[i].op # "label"
        BY <1>2, <4>1
      <4>. QED
        BY <4>2
    <3>2. CASE i \in {o + 1, o + 2, o + 4, o + 7, o + 8}
      BY <1>1, <2>1, <3>2
    <3>3. CASE i = o + 3
      BY <1>2, <2>1, <3>3
    <3>4. CASE i = o + 5
      BY <1>2, <2>1, <3>4
    <3>5. CASE i = o + 6
      BY <1>2, <2>1, <3>5
    <3>. QED
      BY <2>3, <3>1, <3>2, <3>3, <3>4, <3>5
  <2>7. Together(p, d)
    <3>. SUFFICES ASSUME NEW i \in {o + 3, o + 6}, NEW j \in {o + 2, o + 4, o + 7}
                  PROVE  Level(d, i, j)
      BY <2>6 DEF Together
    <3>1. \A x \in (i .. j) \cup (j .. i) : x \in (o + 2) .. (o + 8)
      OBVIOUS
    <3>2. i \in (o + 2) .. (o + 8) /\ j \in (o + 2) .. (o + 8)
      OBVIOUS
    <3>. QED
      BY <2>2, <3>1, <3>2 DEF Level
  <2>8. \A i \in 1 .. Len(p) : \A x \in Goals(p[i]) : ~ (x < l)
    BY <2>6, <1>9
  <2>. QED
    BY <2>2, <2>5, <2>7, <2>8
<1>8. \E d : Result(d)
  BY <1>3, <1>4, <1>5, <1>6, <1>7 DEF Shaped
<1>. QED
  BY <1>8

-----------------------------------------------------------------------------
(* The code that is being written.                                         *)

\* The code ends in a return, and the method k is in it.
Ends(p) == Len(p) # 0 /\ p[Len(p)].op \in {"ret", "methodOf"}
Has(p, k) == \E i \in 1 .. Len(p) : p[i].op \in {"method", "methodOf"} /\ p[i].method = k

Once(p, x) == \E j \in 1 .. Len(p) : /\ p[j] = Label(x)
                                     /\ \A i \in 1 .. Len(p) : p[i] = Label(x) => i = j

\* The loops of p are nested.
Loopy(p) == \E d : Deep(p, d) /\ Together(p, d)

\* The codes of p do what is promised.
Meant(p, l, mean, mid, k, main) ==
  /\ mean \in [Labels(l) -> Lists]
  /\ mid \in [1 .. Len(p) + 1 -> Lists]
  /\ \A i \in 1 .. Len(p) : Ok(p[i], U(mid[i]), mid[i + 1], mean, k, main)

Written(p, l, k) ==
  /\ l \in Nat /\ p \in Seq(Codes(l))
  /\ Ends(p) /\ Has(p, k)
  /\ \A x \in Labels(l) : Once(p, x)
  /\ Loopy(p)

(* What holds for 0 and, with a number, for the next, holds up to n: were  *)
(* b a number that is missing, taking 1 from the missing numbers up to b   *)
(* would map them to fewer, and yet to different ones.                     *)
LEMMA UpTo ==
  ASSUME NEW n \in Nat, NEW S, 0 \in S, \A i \in 0 .. n - 1 : i \in S => i + 1 \in S
  PROVE  0 .. n \subseteq S
<1>. SUFFICES ASSUME NEW b \in 0 .. n, b \notin S  PROVE FALSE
  OBVIOUS
<1>. DEFINE D == {i \in 0 .. b : i \notin S}
           f == [i \in D |-> i - 1]
<1>1. \A i \in D : i - 1 \in D \ {b}
  <2>. TAKE i \in D
  <2>1. i \in Nat /\ i # 0 /\ i <= b /\ i \notin S /\ b <= n
    OBVIOUS
  <2>2. i - 1 \in 0 .. n - 1 /\ (i - 1) + 1 = i
    BY <2>1
  <2>3. i - 1 \notin S
    BY <2>1, <2>2
  <2>. QED
    BY <2>1, <2>2, <2>3
<1>2. IsFiniteSet(D)
  <2>1. IsFiniteSet(0 .. b)
    BY FS_Interval
  <2>. QED
    BY <2>1, FS_Subset
<1>3. IsFiniteSet(D \ {b}) /\ Cardinality(D \ {b}) = Cardinality(D) - 1 /\ Cardinality(D) \in Nat
  <2>1. b \in D
    OBVIOUS
  <2>. QED
    BY <1>2, <2>1, FS_RemoveElement, FS_CardinalityType
<1>4. f \in [D -> D \ {b}]
  BY <1>1
<1>5. \A i, j \in D : i # j => f[i] # f[j]
  OBVIOUS
<1>. HIDE DEF D, f
<1>6. Cardinality(D \ {b}) < Cardinality(D)
  BY <1>3
<1>. QED
  BY <1>2, <1>3, <1>4, <1>5, <1>6, FS_PigeonHole

(* A set of places has a first one.                                        *)
LEMMA Least ==
  ASSUME NEW n \in Nat, NEW S, S \subseteq 1 .. n, S # {}
  PROVE  \E i \in S : \A j \in S : i <= j
<1>. SUFFICES ASSUME \A i \in S : \E j \in S : ~ (i <= j)  PROVE FALSE
  OBVIOUS
<1>. DEFINE T == {i \in 0 .. n : \A j \in S : j > i}
<1>1. 0 \in T
  OBVIOUS
<1>2. ASSUME NEW i \in 0 .. n - 1, i \in T  PROVE i + 1 \in T
  <2>1. \A j \in S : j \in Nat /\ j > i /\ j >= i + 1
    BY <1>2
  <2>2. i + 1 \notin S
    BY <2>1
  <2>3. \A j \in S : j > i + 1
    BY <2>1, <2>2
  <2>. QED
    BY <2>3
<1>. HIDE DEF T
<1>3. 0 .. n \subseteq T
  BY <1>1, <1>2, UpTo
<1>4. n \in T
  BY <1>3
<1>5. PICK j \in S : j \in 1 .. n
  OBVIOUS
<1>6. j > n
  BY <1>4 DEF T
<1>. QED
  BY <1>5, <1>6

(* There is a first open call.                                             *)
LEMMA FirstOpen ==
  ASSUME NEW S, NEW p \in Seq(S), Open(p) # {}
  PROVE  First(p) \in 1 .. Len(p) /\ p[First(p)].op \in Calls
<1>1. DOMAIN p = 1 .. Len(p) /\ Open(p) \in SUBSET Nat
  BY DEF Open
<1>2. PICK i \in Open(p) : \A j \in Open(p) : i <= j
  <2>1. Open(p) \subseteq 1 .. Len(p) /\ Len(p) \in Nat
    BY DEF Open
  <2>. QED
    BY <2>1, Least
<1>3. First(p) \in Open(p)
  BY <1>2 DEF First
<1>. QED
  BY <1>1, <1>3 DEF Open

\* Where the place i was before the h-th of the codes became m codes.
From(h, m, i) == IF i < h THEN i ELSE IF i < h + m THEN h ELSE i - m + 1

(* A level path is level when the codes between are no less deep.          *)
LEMMA LevelFrom ==
  ASSUME NEW n \in Nat, NEW h \in 1 .. n, NEW m \in Nat,
         NEW d \in [1 .. n + 1 -> Nat], NEW dd \in [1 .. n + m -> Nat],
         \A x \in 1 .. n + m : dd[x] >= d[From(h, m, x)],
         NEW i \in 1 .. n + m, NEW j \in 1 .. n + m,
         dd[i] = d[From(h, m, i)], dd[j] = d[From(h, m, j)],
         Level(d, From(h, m, i), From(h, m, j))
  PROVE  Level(dd, i, j)
<1>1. dd[i] = dd[j]
  BY DEF Level
<1>2. ASSUME NEW x \in (i .. j) \cup (j .. i)  PROVE dd[x] >= dd[i]
  <2>1. x \in 1 .. n + m
    OBVIOUS
  <2>2. From(h, m, x) \in (From(h, m, i) .. From(h, m, j)) \cup (From(h, m, j) .. From(h, m, i))
    BY DEF From
  <2>3. d[From(h, m, x)] >= d[From(h, m, i)]
    BY <2>2 DEF Level
  <2>4. From(h, m, x) \in 1 .. n + 1 /\ From(h, m, i) \in 1 .. n + 1
    BY <2>1 DEF From
  <2>5. dd[x] \in Nat /\ dd[i] \in Nat /\ d[From(h, m, x)] \in Nat /\ d[From(h, m, i)] \in Nat
    BY <2>1, <2>4
  <2>6. dd[x] >= d[From(h, m, x)]
    BY <2>1
  <2>7. dd[i] = d[From(h, m, i)]
    OBVIOUS
  <2>. QED
    BY ONLY <2>3, <2>5, <2>6, <2>7
<1>. QED
  BY <1>1, <1>2 DEF Level

(* Spliced, for codes with more labels.                                    *)
LEMMA SplicedCodes ==
  ASSUME NEW l \in Nat, NEW p \in Seq(Codes(l)), NEW h \in 1 .. Len(p),
         NEW k \in Nat, k >= l, NEW s \in Seq(Codes(k))
  PROVE  /\ Splice(p, h, s) \in Seq(Codes(k))
         /\ Len(Splice(p, h, s)) = Len(p) + Len(s) - 1
         /\ \A i \in 1 .. (h - 1) : Splice(p, h, s)[i] = p[i]
         /\ \A i \in 1 .. Len(s) : Splice(p, h, s)[h - 1 + i] = s[i]
         /\ \A i \in (h + 1) .. Len(p) : Splice(p, h, s)[i + Len(s) - 1] = p[i]
<1>1. Codes(l) \subseteq Codes(k)
  BY CodesGrow
<1>. DEFINE S == Codes(k)
<1>2. p \in Seq(S) /\ s \in Seq(S)
  BY <1>1
<1>. HIDE DEF S
<1>3. Splice(p, h, s) \in Seq(S)
  BY <1>2, Spliced
<1>4. Len(Splice(p, h, s)) = Len(p) + Len(s) - 1
  BY <1>2, Spliced
<1>5. \A i \in 1 .. (h - 1) : Splice(p, h, s)[i] = p[i]
  BY <1>2, Spliced
<1>6. \A i \in 1 .. Len(s) : Splice(p, h, s)[h - 1 + i] = s[i]
  BY <1>2, Spliced
<1>7. \A i \in (h + 1) .. Len(p) : Splice(p, h, s)[i + Len(s) - 1] = p[i]
  BY <1>2, Spliced
<1>. QED
  BY <1>3, <1>4, <1>5, <1>6, <1>7 DEF S

(* The codes stay nested.                                                  *)
LEMMA StaysLoopy ==
  ASSUME NEW l \in Nat, NEW p \in Seq(Codes(l)), NEW h \in 1 .. Len(p), p[h].op \in Calls,
         Loopy(p),
         NEW e, e.label \in Nat, e.label >= l, e.codes \in Seq(Codes(e.label)),
         Shaped(e, p[h], l)
  PROVE  Loopy(Splice(p, h, e.codes))
<1>. DEFINE c == p[h]  s == e.codes  n == Len(p)  m == Len(s)  q == Splice(p, h, s)
<1>1. c \in Pending(l) /\ n \in Nat /\ m \in Nat /\ \A i \in 1 .. n : p[i] \in Codes(l)
  BY CodeKinds
<1>2. /\ Len(q) = n + m - 1
      /\ \A i \in 1 .. (h - 1) : q[i] = p[i]
      /\ \A i \in 1 .. m : q[h - 1 + i] = s[i]
      /\ \A i \in (h + 1) .. n : q[i + m - 1] = p[i]
  <2>. DEFINE k == e.label
  <2>1. k \in Nat /\ k >= l /\ s \in Seq(Codes(k))
    OBVIOUS
  <2>. HIDE DEF k, s
  <2>. QED
    BY <2>1, SplicedCodes
<1>3. PICK d : Deep(p, d) /\ Together(p, d)
  BY DEF Loopy
<1>4. PICK r : /\ Deep(s, r) /\ r[1] = 0 /\ r[m + 1] = 0 /\ Together(s, r)
               /\ \A i \in 1 .. m : \A x \in Goals(s[i]) : x < l => x \in Goals(c) /\ r[i] = 0
  BY <1>1, Balanced
<1>5. \A i \in 1 .. m : s[i].op = "label" => s[i].label >= l
  BY <1>1, NewLabels
<1>6. \A i \in 1 .. n : /\ \A x \in Goals(p[i]) : x < l
                        /\ p[i].op = "label" => p[i].label < l
  <2>. TAKE i \in 1 .. n
  <2>1. \A x \in Labels(l) : x < l
    BY DEF Labels
  <2>2. p[i] \in Codes(l)
    BY <1>1
  <2>. QED
    BY <2>1, <2>2, CodeKinds DEF Goals
<1>7. \A i \in 1 .. (n + m - 1) :
        \/ i \in 1 .. (h - 1)
        \/ \E j \in 1 .. m : i = h - 1 + j
        \/ \E j \in (h + 1) .. n : i = j + m - 1
  <2>1. n \in Nat /\ m \in Nat /\ h \in 1 .. n
    BY <1>1
  <2>. HIDE DEF n, m
  <2>. QED
    BY ONLY <2>1, Places
<1>8. d[h + 1] = d[h]
  <2>1. Step(c) = 0
    BY <1>1 DEF Step, Flag, Calls
  <2>2. d[h] \in Nat
    <3>1. h \in 1 .. n + 1
      BY <1>1
    <3>. QED
      BY <1>3, <3>1 DEF Deep
  <2>. QED
    BY <1>3, <2>1, <2>2 DEF Deep
<1>9. d \in [1 .. n + 1 -> Nat] /\ r \in [1 .. m + 1 -> Nat]
  BY <1>3, <1>4 DEF Deep
<1>. DEFINE dd == [i \in 1 .. n + m |-> IF i < h THEN d[i]
                                        ELSE IF i < h + m THEN d[h] + r[i - h + 1]
                                        ELSE d[i - m + 1]]
<1>. HIDE DEF c, s, n, m, q
<1>10. \A i \in 1 .. n + m : dd[i] = IF i < h THEN d[i]
                                     ELSE IF i < h + m THEN d[h] + r[i - h + 1]
                                     ELSE d[i - m + 1]
  OBVIOUS
<1>0. n \in Nat /\ m \in Nat /\ h \in 1 .. n
  BY <1>1 DEF n
<1>11. \A i \in 1 .. n + 1 : d[i] \in Nat
  BY <1>9
<1>12. \A i \in 1 .. m + 1 : r[i] \in Nat
  BY <1>9
<1>13. r[1] = 0 /\ r[m + 1] = 0
  BY <1>4
<1>14. dd \in [1 .. n + m -> Nat]
  <2>. SUFFICES ASSUME NEW i \in 1 .. n + m
                PROVE  (IF i < h THEN d[i] ELSE IF i < h + m THEN d[h] + r[i - h + 1]
                        ELSE d[i - m + 1]) \in Nat
    OBVIOUS
  <2>1. CASE i < h
    <3>1. i \in 1 .. n + 1
      BY <2>1, <1>0
    <3>. QED
      BY <2>1, <3>1, <1>11
  <2>2. CASE ~ (i < h) /\ i < h + m
    <3>1. i - h + 1 \in 1 .. m + 1 /\ h \in 1 .. n + 1
      BY <2>2, <1>0
    <3>2. r[i - h + 1] \in Nat /\ d[h] \in Nat
      BY <3>1, <1>11, <1>12
    <3>. QED
      BY <2>2, <3>2
  <2>3. CASE ~ (i < h) /\ ~ (i < h + m)
    <3>1. i - m + 1 \in 1 .. n + 1
      BY <2>3, <1>0
    <3>. QED
      BY <2>3, <3>1, <1>11
  <2>. QED
    BY <2>1, <2>2, <2>3
<1>. HIDE DEF dd
<1>15. \A i \in 1 .. h : dd[i] = d[i]
  <2>. TAKE i \in 1 .. h
  <2>1. CASE i < h
    BY <2>1, <1>0, <1>10
  <2>2. CASE i = h /\ m = 0
    <3>1. dd[h] = d[h + 1]
      BY <2>2, <1>0, <1>10
    <3>. QED
      BY <2>2, <3>1, <1>8
  <2>3. CASE i = h /\ m # 0
    <3>1. h \in 1 .. n + m /\ ~ (h < h) /\ h < h + m /\ h - h + 1 = 1
      BY <2>3, <1>0
    <3>2. dd[h] = d[h] + r[h - h + 1]
      BY <3>1, <1>10
    <3>3. dd[h] = d[h] + r[1]
      BY <3>1, <3>2
    <3>4. d[h] \in Nat
      BY <1>0, <1>11
    <3>. QED
      BY <2>3, <3>3, <3>4, <1>13
  <2>. QED
    BY <1>0, <2>1, <2>2, <2>3
<1>16. \A j \in (h + 1) .. (n + 1) : dd[j + m - 1] = d[j]
  <2>. TAKE j \in (h + 1) .. (n + 1)
  <2>1. j + m - 1 \in 1 .. n + m /\ ~ (j + m - 1 < h) /\ ~ (j + m - 1 < h + m) /\ (j + m - 1) - m + 1 = j
    BY <1>0
  <2>2. dd[j + m - 1] = d[(j + m - 1) - m + 1]
    BY <2>1, <1>10
  <2>. QED
    BY <2>1, <2>2
<1>17. \A j \in 1 .. m + 1 : dd[h - 1 + j] = d[h] + r[j]
  <2>. TAKE j \in 1 .. m + 1
  <2>1. d[h] \in Nat /\ h \in 1 .. n + 1
    BY <1>0, <1>11
  <2>2. CASE j \in 1 .. m
    <3>1. h - 1 + j \in 1 .. n + m /\ ~ (h - 1 + j < h) /\ h - 1 + j < h + m /\ (h - 1 + j) - h + 1 = j
      BY <2>2, <1>0
    <3>2. dd[h - 1 + j] = d[h] + r[(h - 1 + j) - h + 1]
      BY <3>1, <1>10
    <3>. QED
      BY <3>1, <3>2
  <2>3. CASE j = m + 1
    <3>1. h + 1 \in (h + 1) .. (n + 1) /\ (h + 1) + m - 1 = h - 1 + j
      BY <2>3, <1>0
    <3>2. dd[(h + 1) + m - 1] = d[h + 1]
      BY <3>1, <1>16
    <3>3. dd[h - 1 + j] = d[h]
      BY <3>1, <3>2, <1>8
    <3>. QED
      BY <2>1, <2>3, <3>3, <1>13
  <2>. QED
    BY <1>0, <2>2, <2>3
<1>18. Deep(q, dd)
  <2>. SUFFICES ASSUME NEW i \in 1 .. (n + m - 1)  PROVE dd[i + 1] = dd[i] + Step(q[i])
    <3>1. (n + m - 1) + 1 = n + m
      BY <1>0
    <3>. QED
      BY <1>2, <1>14, <3>1 DEF Deep
  <2>1. \A j \in 1 .. n : d[j + 1] = d[j] + Step(p[j])
    BY <1>3 DEF Deep, n
  <2>2. \A j \in 1 .. m : r[j + 1] = r[j] + Step(s[j]) /\ Step(s[j]) \in Int
    BY <1>4 DEF Deep, Step, m
  <2>3. CASE i \in 1 .. (h - 1)
    <3>1. i \in 1 .. h /\ i + 1 \in 1 .. h /\ i \in 1 .. n
      BY <2>3, <1>0
    <3>. QED
      BY <2>1, <2>3, <3>1, <1>2, <1>15
  <2>4. ASSUME NEW j \in 1 .. m, i = h - 1 + j
        PROVE  dd[i + 1] = dd[i] + Step(q[i])
    <3>1. j \in 1 .. m + 1 /\ j + 1 \in 1 .. m + 1 /\ i + 1 = h - 1 + (j + 1) /\ h \in 1 .. n + 1
      BY <2>4, <1>0
    <3>2. dd[i + 1] = d[h] + r[j + 1] /\ dd[i] = d[h] + r[j] /\ q[i] = s[j]
      BY <2>4, <3>1, <1>2, <1>17
    <3>3. d[h] \in Nat /\ r[j] \in Nat /\ r[j + 1] \in Nat
      BY <3>1, <1>11, <1>12
    <3>4. r[j + 1] = r[j] + Step(s[j]) /\ Step(s[j]) \in Int
      BY <2>2
    <3>. QED
      BY <3>2, <3>3, <3>4
  <2>5. ASSUME NEW j \in (h + 1) .. n, i = j + m - 1
        PROVE  dd[i + 1] = dd[i] + Step(q[i])
    <3>1. j \in (h + 1) .. (n + 1) /\ j + 1 \in (h + 1) .. (n + 1) /\ i + 1 = (j + 1) + m - 1 /\ j \in 1 .. n
      BY <2>5, <1>0
    <3>2. dd[i + 1] = d[j + 1] /\ dd[i] = d[j] /\ q[i] = p[j]
      BY <2>5, <3>1, <1>2, <1>16
    <3>. QED
      BY <3>1, <3>2, <2>1
  <2>. QED
    BY <1>7, <2>3, <2>4, <2>5
<1>19. \A x \in 1 .. n + m : dd[x] >= d[From(h, m, x)]
  <2>. TAKE x \in 1 .. n + m
  <2>1. CASE x < h
    <3>1. From(h, m, x) = x /\ x \in 1 .. h /\ x \in 1 .. n + 1
      BY <2>1, <1>0 DEF From
    <3>2. dd[x] = d[x] /\ d[x] \in Nat
      BY <3>1, <1>11, <1>15
    <3>. QED
      BY <3>1, <3>2
  <2>2. CASE ~ (x < h) /\ x < h + m
    <3>1. From(h, m, x) = h /\ x - h + 1 \in 1 .. m + 1 /\ h - 1 + (x - h + 1) = x /\ h \in 1 .. n + 1
      BY <2>2, <1>0 DEF From
    <3>2. dd[x] = d[h] + r[x - h + 1]
      BY <2>2, <1>10
    <3>3. r[x - h + 1] \in Nat /\ d[h] \in Nat
      BY <3>1, <1>11, <1>12
    <3>. QED
      BY <3>1, <3>2, <3>3
  <2>3. CASE ~ (x < h) /\ ~ (x < h + m)
    <3>1. From(h, m, x) = x - m + 1 /\ x - m + 1 \in 1 .. n + 1
      BY <2>3, <1>0 DEF From
    <3>2. dd[x] = d[x - m + 1] /\ d[x - m + 1] \in Nat
      BY <2>3, <3>1, <1>10, <1>11
    <3>. QED
      BY <3>1, <3>2
  <2>. QED
    BY <2>1, <2>2, <2>3
<1>20. \A i \in 1 .. (n + m - 1) :
          \/ \E a \in 1 .. n : q[i] = p[a] /\ From(h, m, i) = a /\ dd[i] = d[a]
          \/ \E t \in 1 .. m : i = h - 1 + t /\ q[i] = s[t] /\ From(h, m, i) = h /\ dd[i] = d[h] + r[t]
  <2>. TAKE i \in 1 .. (n + m - 1)
  <2>1. CASE i \in 1 .. (h - 1)
    <3>1. i \in 1 .. n /\ i \in 1 .. h /\ From(h, m, i) = i
      BY <2>1, <1>0 DEF From
    <3>2. q[i] = p[i] /\ dd[i] = d[i]
      BY <2>1, <3>1, <1>2, <1>15
    <3>. QED
      BY <3>1, <3>2
  <2>2. ASSUME NEW t \in 1 .. m, i = h - 1 + t
        PROVE  q[i] = s[t] /\ From(h, m, i) = h /\ dd[i] = d[h] + r[t]
    <3>1. From(h, m, i) = h /\ t \in 1 .. m + 1
      BY <2>2, <1>0 DEF From
    <3>. QED
      BY <2>2, <3>1, <1>2, <1>17
  <2>3. ASSUME NEW a \in (h + 1) .. n, i = a + m - 1
        PROVE  a \in 1 .. n /\ q[i] = p[a] /\ From(h, m, i) = a /\ dd[i] = d[a]
    <3>1. From(h, m, i) = a /\ a \in (h + 1) .. (n + 1) /\ a \in 1 .. n
      BY <2>3, <1>0 DEF From
    <3>. QED
      BY <2>3, <3>1, <1>2, <1>16
  <2>. QED
    BY <1>7, <2>1, <2>2, <2>3
<1>21. ASSUME NEW i \in 1 .. (n + m - 1), NEW j \in 1 .. (n + m - 1),
              dd[i] = d[From(h, m, i)], dd[j] = d[From(h, m, j)],
              Level(d, From(h, m, i), From(h, m, j))
       PROVE  Level(dd, i, j)
  <2>1. i \in 1 .. n + m /\ j \in 1 .. n + m
    BY <1>0
  <2>. QED
    BY <1>0, <1>9, <1>14, <1>19, <1>21, <2>1, LevelFrom
<1>22. /\ \A a, b \in 1 .. n : p[b].op = "label" /\ p[b].label \in Goals(p[a]) => Level(d, a, b)
       /\ \A t, v \in 1 .. m : s[v].op = "label" /\ s[v].label \in Goals(s[t]) => Level(r, t, v)
  BY <1>3, <1>4 DEF Together, n, m
<1>23. Together(q, dd)
  <2>. SUFFICES ASSUME NEW i \in 1 .. (n + m - 1), NEW j \in 1 .. (n + m - 1),
                       q[j].op = "label", q[j].label \in Goals(q[i])
                PROVE  Level(dd, i, j)
    BY <1>2 DEF Together
  <2>1. ASSUME NEW a \in 1 .. n, q[i] = p[a], From(h, m, i) = a, dd[i] = d[a],
               NEW b \in 1 .. n, q[j] = p[b], From(h, m, j) = b, dd[j] = d[b]
        PROVE  Level(dd, i, j)
    <3>1. Level(d, a, b)
      BY <2>1, <1>22
    <3>. QED
      BY <2>1, <3>1, <1>21
  <2>2. ASSUME NEW a \in 1 .. n, q[i] = p[a],
               NEW v \in 1 .. m, q[j] = s[v]
        PROVE  FALSE
    <3>1. s[v].label >= l /\ s[v].label < l
      BY <2>2, <1>5, <1>6 DEF n
    <3>2. s[v].label \in Labels(l)
      <4>1. p[a] \in Codes(l)
        BY <1>1 DEF n
      <4>. QED
        BY <2>2, <4>1, CodeKinds DEF Goals
    <3>. QED
      BY <3>1, <3>2 DEF Labels
  <2>3. ASSUME NEW t \in 1 .. m, q[i] = s[t], From(h, m, i) = h, dd[i] = d[h] + r[t],
               NEW b \in 1 .. n, q[j] = p[b], From(h, m, j) = b, dd[j] = d[b]
        PROVE  Level(dd, i, j)
    <3>1. q[j].label < l
      BY <2>3, <1>6 DEF n
    <3>2. q[j].label \in Goals(c) /\ r[t] = 0
      BY <2>3, <3>1, <1>4
    <3>3. Level(d, h, b)
      BY <2>3, <3>2, <1>0, <1>22 DEF c
    <3>4. dd[i] = d[h]
      <4>1. d[h] \in Nat
        BY <1>0, <1>11
      <4>. QED
        BY <2>3, <3>2, <4>1
    <3>. QED
      BY <2>3, <3>3, <3>4, <1>21
  <2>4. ASSUME NEW t \in 1 .. m, i = h - 1 + t, q[i] = s[t], dd[i] = d[h] + r[t],
               NEW v \in 1 .. m, j = h - 1 + v, q[j] = s[v], dd[j] = d[h] + r[v]
        PROVE  Level(dd, i, j)
    <3>1. Level(r, t, v)
      BY <2>4, <1>22
    <3>2. dd[i] = dd[j]
      BY <2>4, <3>1 DEF Level
    <3>3. ASSUME NEW x \in (i .. j) \cup (j .. i)
          PROVE  dd[x] >= dd[i]
      <4>. DEFINE y == x - h + 1
      <4>1. y \in (t .. v) \cup (v .. t) /\ x = h - 1 + y /\ y \in 1 .. m + 1 /\ t \in 1 .. m + 1
        BY <2>4, <1>0
      <4>. HIDE DEF y
      <4>2. dd[x] = d[h] + r[y]
        BY <4>1, <1>17
      <4>3. r[y] >= r[t]
        BY <3>1, <4>1 DEF Level
      <4>4. d[h] \in Nat /\ r[y] \in Nat /\ r[t] \in Nat
        BY <4>1, <1>0, <1>11, <1>12
      <4>. QED
        BY <2>4, <4>2, <4>3, <4>4
    <3>. QED
      BY <3>2, <3>3 DEF Level
  <2>. QED
    BY <1>20, <2>1, <2>2, <2>3, <2>4
<1>. QED
  BY <1>18, <1>23 DEF Loopy, q, s

(* A method begins with its label and ends in a return.                    *)
LEMMA MethodShape ==
  ASSUME NEW l \in Nat, NEW c \in Pending(l), c.op = "methodOf"
  PROVE  LET s == Generated(c, l).codes
         IN Len(s) = 3 /\ s[1] = Method(c.method) /\ s[3] = Ret
BY DEF Generated, GenerateMethod, Emit

(* Each label stays placed once, and the new ones are.                     *)
LEMMA StaysOnce ==
  ASSUME NEW l \in Nat, NEW p \in Seq(Codes(l)), NEW h \in 1 .. Len(p), p[h].op \in Calls,
         \A x \in Labels(l) : Once(p, x),
         NEW e, e.label \in Nat, e.label >= l, e.codes \in Seq(Codes(e.label)),
         Shaped(e, p[h], l)
  PROVE  \A x \in Labels(e.label) : Once(Splice(p, h, e.codes), x)
<1>. DEFINE s == e.codes  n == Len(p)  m == Len(s)  q == Splice(p, h, s)
<1>1. p[h] \in Pending(l) /\ n \in Nat /\ m \in Nat /\ h \in 1 .. n /\ \A i \in 1 .. n : p[i] \in Codes(l)
  BY CodeKinds
<1>2. /\ Len(q) = n + m - 1
      /\ \A i \in 1 .. (h - 1) : q[i] = p[i]
      /\ \A i \in 1 .. m : q[h - 1 + i] = s[i]
      /\ \A i \in (h + 1) .. n : q[i + m - 1] = p[i]
  <2>. DEFINE k == e.label
  <2>1. k \in Nat /\ k >= l /\ s \in Seq(Codes(k))
    OBVIOUS
  <2>. HIDE DEF k, s
  <2>2. Len(q) = n + m - 1
    BY <2>1, SplicedCodes
  <2>3. \A i \in 1 .. (h - 1) : q[i] = p[i]
    BY <2>1, SplicedCodes
  <2>4. \A i \in 1 .. m : q[h - 1 + i] = s[i]
    BY <2>1, SplicedCodes
  <2>5. \A i \in (h + 1) .. n : q[i + m - 1] = p[i]
    BY <2>1, SplicedCodes
  <2>. QED
    BY <2>2, <2>3, <2>4, <2>5
<1>3. /\ \A i \in 1 .. m : s[i].op = "label" => s[i].label >= l
      /\ \A x \in l .. (e.label - 1) : \E j \in 1 .. m :
           s[j] = Label(x) /\ \A i \in 1 .. m : s[i] = Label(x) => i = j
  BY <1>1, NewLabels
<1>4. \A x : Label(x).op = "label" /\ Label(x).label = x
  BY DEF Label
<1>5. \A i \in 1 .. n : p[i].op = "label" => p[i].label < l
  BY <1>1, CodeKinds DEF Labels
<1>6. p[h].op # "label"
  BY DEF Calls
<1>7. \A i \in 1 .. (n + m - 1) :
        \/ i \in 1 .. (h - 1)
        \/ \E j \in 1 .. m : i = h - 1 + j
        \/ \E j \in (h + 1) .. n : i = j + m - 1
  <2>. HIDE DEF n, m
  <2>. QED
    BY <1>1, Places
<1>8. \A x \in Labels(l) : \E j \in 1 .. n : p[j] = Label(x) /\ \A i \in 1 .. n : p[i] = Label(x) => i = j
  BY DEF Once
<1>. HIDE DEF s, n, m, q
<1>9. \A i \in 1 .. (h - 1) : i \in 1 .. n /\ i # h /\ i \in 1 .. (n + m - 1)
  BY <1>1
<1>10. \A i \in (h + 1) .. n : i \in 1 .. n /\ i # h /\ i + m - 1 \in 1 .. (n + m - 1)
  BY <1>1
<1>11. \A i \in 1 .. m : h - 1 + i \in 1 .. (n + m - 1)
  BY <1>1
<1>12. ASSUME NEW x \in Labels(l)
       PROVE  Once(q, x)
  <2>1. PICK j \in 1 .. n : p[j] = Label(x) /\ \A i \in 1 .. n : p[i] = Label(x) => i = j
    BY <1>8
  <2>2. x < l /\ j # h
    BY <2>1, <1>4, <1>6 DEF Labels
  <2>. DEFINE b == IF j < h THEN j ELSE j + m - 1
  <2>3. b \in 1 .. (n + m - 1) /\ q[b] = Label(x)
    <3>1. CASE j < h
      <4>1. j \in 1 .. (h - 1)
        BY <3>1, <1>1
      <4>. QED
        BY <3>1, <4>1, <2>1, <1>2, <1>9
    <3>2. CASE ~ (j < h)
      <4>1. j \in (h + 1) .. n
        BY <3>2, <2>2, <1>1
      <4>. QED
        BY <3>2, <4>1, <2>1, <1>2, <1>10
    <3>. QED
      BY <3>1, <3>2
  <2>4. ASSUME NEW i \in 1 .. (n + m - 1), q[i] = Label(x)
        PROVE  i = b
    <3>1. CASE i \in 1 .. (h - 1)
      <4>1. i = j
        BY <3>1, <2>1, <2>4, <1>2, <1>9
      <4>. QED
        BY <3>1, <4>1, <1>1
    <3>2. ASSUME NEW t \in 1 .. m, i = h - 1 + t  PROVE FALSE
      <4>1. s[t] = Label(x)
        BY <3>2, <2>4, <1>2
      <4>2. x >= l
        BY <4>1, <1>3, <1>4
      <4>. QED
        BY <4>2, <2>2 DEF Labels
    <3>3. ASSUME NEW t \in (h + 1) .. n, i = t + m - 1  PROVE i = b
      <4>1. t = j
        BY <3>3, <2>1, <2>4, <1>2, <1>10
      <4>. QED
        BY <3>3, <4>1, <1>1
    <3>. QED
      BY <3>1, <3>2, <3>3, <1>7
  <2>. HIDE DEF b
  <2>. QED
    BY <2>3, <2>4, <1>2 DEF Once
<1>13. ASSUME NEW x \in l .. (e.label - 1)
       PROVE  Once(q, x)
  <2>1. PICK j \in 1 .. m : s[j] = Label(x) /\ \A i \in 1 .. m : s[i] = Label(x) => i = j
    BY <1>3
  <2>2. x >= l
    OBVIOUS
  <2>3. h - 1 + j \in 1 .. (n + m - 1) /\ q[h - 1 + j] = Label(x)
    BY <2>1, <1>2, <1>11
  <2>4. ASSUME NEW i \in 1 .. (n + m - 1), q[i] = Label(x)
        PROVE  i = h - 1 + j
    <3>1. ASSUME NEW t \in 1 .. n, q[i] = p[t]  PROVE FALSE
      <4>1. x < l
        BY <3>1, <2>4, <1>4, <1>5
      <4>. QED
        BY <4>1, <2>2
    <3>2. ASSUME NEW t \in 1 .. m, i = h - 1 + t  PROVE i = h - 1 + j
      <4>1. t = j
        BY <3>2, <2>1, <2>4, <1>2
      <4>. QED
        BY <3>2, <4>1
    <3>. QED
      <4>1. CASE i \in 1 .. (h - 1)
        BY <4>1, <3>1, <1>2, <1>9
      <4>2. ASSUME NEW t \in (h + 1) .. n, i = t + m - 1  PROVE FALSE
        <5>1. t \in 1 .. n /\ q[i] = p[t]
          BY <4>2, <1>2, <1>10
        <5>. QED
          BY <5>1, <3>1
      <4>. QED
        BY <3>2, <4>1, <4>2, <1>7
  <2>. QED
    BY <2>3, <2>4, <1>2 DEF Once
<1>14. \A x \in Labels(e.label) : x \in Labels(l) \/ x \in l .. (e.label - 1)
  BY DEF Labels
<1>. QED
  BY <1>12, <1>13, <1>14 DEF q, s

(* The code keeps its end, and the methods.                                *)
LEMMA StaysEnding ==
  ASSUME NEW l \in Nat, NEW p \in Seq(Codes(l)), NEW h \in 1 .. Len(p), p[h].op \in Calls,
         Ends(p), NEW k, Has(p, k)
  PROVE  LET q == Splice(p, h, Generated(p[h], l).codes) IN Ends(q) /\ Has(q, k)
<1>. DEFINE e == Generated(p[h], l)  s == e.codes  n == Len(p)  m == Len(s)  q == Splice(p, h, s)
<1>1. p[h] \in Pending(l) /\ n \in Nat /\ h \in 1 .. n /\ n # 0
  BY CodeKinds
<1>2. e.label \in Nat /\ e.label >= l /\ s \in Seq(Codes(e.label)) /\ m \in Nat
  <2>1. e.label \in Nat /\ e.label >= l /\ s \in Seq(Codes(e.label))
    BY <1>1, Emitted
  <2>. HIDE DEF s
  <2>. QED
    BY <2>1
<1>3. /\ Len(q) = n + m - 1
      /\ \A i \in 1 .. (h - 1) : q[i] = p[i]
      /\ \A i \in 1 .. m : q[h - 1 + i] = s[i]
      /\ \A i \in (h + 1) .. n : q[i + m - 1] = p[i]
  <2>. DEFINE x == e.label
  <2>1. x \in Nat /\ x >= l /\ s \in Seq(Codes(x))
    BY <1>2
  <2>. HIDE DEF x, s
  <2>. QED
    BY <2>1, SplicedCodes
<1>4. p[h].op = "methodOf" => m = 3 /\ s[1] = Method(p[h].method) /\ s[3] = Ret
  BY <1>1, MethodShape
<1>5. p[n].op \in {"ret", "methodOf"}
  BY DEF Ends
<1>6. PICK i \in 1 .. n : p[i].op \in {"method", "methodOf"} /\ p[i].method = k
  BY DEF Has
<1>. HIDE DEF e, s, n, m, q
<1>7. Ends(q)
  <2>1. CASE h = n
    <3>1. p[h].op = "methodOf"
      BY <2>1, <1>5 DEF Calls
    <3>2. m = 3 /\ q[h - 1 + 3] = Ret /\ Len(q) = h - 1 + 3
      BY <2>1, <3>1, <1>1, <1>3, <1>4
    <3>. QED
      BY <3>2, <1>1 DEF Ends, Ret
  <2>2. CASE h # n
    <3>1. n \in (h + 1) .. n /\ n + m - 1 # 0
      BY <2>2, <1>1, <1>2
    <3>2. q[n + m - 1] = p[n]
      BY <3>1, <1>3
    <3>. QED
      BY <3>1, <3>2, <1>3, <1>5 DEF Ends
  <2>. QED
    BY <2>1, <2>2
<1>8. Has(q, k)
  <2>1. CASE i < h
    <3>1. i \in 1 .. (h - 1) /\ i \in 1 .. (n + m - 1)
      BY <2>1, <1>1, <1>2
    <3>. QED
      BY <3>1, <1>3, <1>6 DEF Has
  <2>2. CASE i = h
    <3>1. m = 3 /\ s[1] = Method(k)
      BY <2>2, <1>4, <1>6 DEF Calls
    <3>2. q[h - 1 + 1] = Method(k) /\ h - 1 + 1 \in 1 .. (n + m - 1)
      BY <3>1, <1>1, <1>3
    <3>. QED
      BY <3>2, <1>3 DEF Has, Method
  <2>3. CASE i > h
    <3>1. i \in (h + 1) .. n /\ i + m - 1 \in 1 .. (n + m - 1)
      BY <2>3, <1>1, <1>2
    <3>. QED
      BY <3>1, <1>3, <1>6 DEF Has
  <2>. QED
    BY <1>1, <2>1, <2>2, <2>3
<1>. QED
  BY <1>7, <1>8 DEF q, s, e

(* The codes keep what was promised.                                       *)
LEMMA StaysMeant ==
  ASSUME NEW l \in Nat, NEW p \in Seq(Codes(l)), NEW h \in 1 .. Len(p), p[h].op \in Calls,
         NEW mean, NEW mid, NEW k, NEW main, Meant(p, l, mean, mid, k, main)
  PROVE  LET e == Generated(p[h], l)
         IN \E more, between : Meant(Splice(p, h, e.codes), e.label, more, between, k, main)
<1>. DEFINE c == p[h]  e == Generated(c, l)  s == e.codes  n == Len(p)  m == Len(s)
            q == Splice(p, h, s)
<1>1. c \in Pending(l) /\ n \in Nat /\ h \in 1 .. n /\ \A i \in 1 .. n : p[i] \in Codes(l)
  BY CodeKinds
<1>2. e.label \in Nat /\ e.label >= l /\ s \in Seq(Codes(e.label)) /\ m \in Nat
  <2>1. e.label \in Nat /\ e.label >= l /\ s \in Seq(Codes(e.label))
    BY <1>1, Emitted
  <2>. HIDE DEF s
  <2>. QED
    BY <2>1
<1>3. /\ Len(q) = n + m - 1
      /\ \A i \in 1 .. (h - 1) : q[i] = p[i]
      /\ \A i \in 1 .. m : q[h - 1 + i] = s[i]
      /\ \A i \in (h + 1) .. n : q[i + m - 1] = p[i]
  <2>. DEFINE x == e.label
  <2>1. x \in Nat /\ x >= l /\ s \in Seq(Codes(x))
    BY <1>2
  <2>. HIDE DEF x, s
  <2>. QED
    BY <2>1, SplicedCodes
<1>4. /\ mean \in [Labels(l) -> Lists] /\ mid \in [1 .. n + 1 -> Lists]
      /\ \A i \in 1 .. n : Ok(p[i], U(mid[i]), mid[i + 1], mean, k, main)
  BY DEF Meant
<1>5. \A i \in 1 .. n + 1 : mid[i] \in Lists
  BY <1>4
<1>6. h \in 1 .. n + 1 /\ h + 1 \in 1 .. n + 1
  BY <1>1
<1>7. Keeps(e, l, mid[h], mid[h + 1], mean, k, main)
  <2>1. Ok(c, U(mid[h]), mid[h + 1], mean, k, main)
    BY <1>1, <1>4
  <2>2. mid[h] \in Lists /\ mid[h + 1] \in Lists
    BY <1>5, <1>6
  <2>. HIDE DEF c
  <2>. QED
    BY <1>1, <1>4, <2>1, <2>2, Kept
<1>8. PICK more, inner : /\ Codified(s, e.label, mid[h], mid[h + 1], more, inner, k, main)
                         /\ \A x \in Labels(l) : more[x] = mean[x]
  BY <1>7 DEF Keeps
<1>9. /\ more \in [Labels(e.label) -> Lists]
      /\ inner \in [1 .. m + 1 -> Lists] /\ inner[1] = mid[h]
      /\ IF m = 0 THEN Same(mid[h], mid[h + 1]) ELSE inner[m + 1] = mid[h + 1]
      /\ \A i \in 1 .. m : Ok(s[i], U(inner[i]), inner[i + 1], more, k, main)
  BY <1>8 DEF Codified
<1>10. \A i \in 1 .. n : Ok(p[i], U(mid[i]), mid[i + 1], more, k, main)
  BY <1>1, <1>4, <1>8, OkStays
<1>11. \A i \in 1 .. (n + m - 1) :
        \/ i \in 1 .. (h - 1)
        \/ \E j \in 1 .. m : i = h - 1 + j
        \/ \E j \in (h + 1) .. n : i = j + m - 1
  <2>. HIDE DEF n, m
  <2>. QED
    BY <1>1, <1>2, Places
<1>. HIDE DEF c, e, s, n, m, q
<1>. DEFINE b == [i \in 1 .. n + m |-> IF i <= h THEN mid[i]
                                       ELSE IF i < h + m THEN inner[i - h + 1]
                                       ELSE mid[i - m + 1]]
<1>12. \A i \in 1 .. n + m : b[i] = IF i <= h THEN mid[i]
                                    ELSE IF i < h + m THEN inner[i - h + 1]
                                    ELSE mid[i - m + 1]
  OBVIOUS
<1>13. b \in [1 .. n + m -> Lists]
  <2>. SUFFICES ASSUME NEW i \in 1 .. n + m
                PROVE  (IF i <= h THEN mid[i] ELSE IF i < h + m THEN inner[i - h + 1]
                        ELSE mid[i - m + 1]) \in Lists
    OBVIOUS
  <2>1. CASE i <= h
    <3>1. i \in 1 .. n + 1
      BY <2>1, <1>1
    <3>. QED
      BY <2>1, <3>1, <1>5
  <2>2. CASE ~ (i <= h) /\ i < h + m
    <3>1. i - h + 1 \in 1 .. m + 1
      BY <2>2, <1>1, <1>2
    <3>. QED
      BY <2>2, <3>1, <1>9
  <2>3. CASE ~ (i <= h) /\ ~ (i < h + m)
    <3>1. i - m + 1 \in 1 .. n + 1
      BY <2>3, <1>1, <1>2
    <3>. QED
      BY <2>3, <3>1, <1>5
  <2>. QED
    BY <2>1, <2>2, <2>3
<1>. HIDE DEF b
<1>14. \A i \in 1 .. h : b[i] = mid[i]
  <2>1. \A i \in 1 .. h : i \in 1 .. n + m /\ i <= h
    BY <1>1, <1>2
  <2>. QED
    BY <2>1, <1>12
<1>15. \A j \in 1 .. m : b[h - 1 + j] = inner[j] /\ b[h - 1 + j + 1] = inner[j + 1]
  <2>1. ASSUME NEW j \in 1 .. m + 1, m # 0
        PROVE  b[h - 1 + j] = inner[j]
    <3>1. h - 1 + j \in 1 .. n + m
      BY <1>1, <1>2
    <3>2. CASE j = 1
      <4>1. h - 1 + j = h /\ h <= h /\ h \in 1 .. n + m
        BY <3>2, <1>1, <1>2
      <4>. QED
        BY <3>2, <4>1, <1>9, <1>12
    <3>3. CASE j # 1 /\ j # m + 1
      <4>1. ~ (h - 1 + j <= h) /\ h - 1 + j < h + m /\ (h - 1 + j) - h + 1 = j
        BY <3>3, <1>1, <1>2
      <4>2. b[h - 1 + j] = inner[(h - 1 + j) - h + 1]
        BY <3>1, <4>1, <1>12
      <4>. QED
        BY <4>1, <4>2
    <3>4. CASE j = m + 1
      <4>1. ~ (h - 1 + j <= h) /\ ~ (h - 1 + j < h + m) /\ (h - 1 + j) - m + 1 = h + 1
        BY <3>4, <2>1, <1>1, <1>2
      <4>2. b[h - 1 + j] = mid[(h - 1 + j) - m + 1]
        BY <3>1, <4>1, <1>12
      <4>. QED
        BY <3>4, <4>1, <4>2, <2>1, <1>9
    <3>. QED
      BY <3>2, <3>3, <3>4
  <2>. TAKE j \in 1 .. m
  <2>2. j \in 1 .. m + 1 /\ j + 1 \in 1 .. m + 1 /\ m # 0 /\ h - 1 + j + 1 = h - 1 + (j + 1)
    BY <1>1, <1>2
  <2>. QED
    BY <2>1, <2>2
<1>16. \A j \in (h + 1) .. n : U(b[j + m - 1]) = U(mid[j]) /\ b[j + m - 1 + 1] = mid[j + 1]
  <2>. TAKE j \in (h + 1) .. n
  <2>1. j + m - 1 \in 1 .. n + m /\ j + m - 1 + 1 \in 1 .. n + m
        /\ ~ (j + m - 1 + 1 <= h) /\ ~ (j + m - 1 + 1 < h + m) /\ (j + m - 1 + 1) - m + 1 = j + 1
    BY <1>1, <1>2
  <2>2. b[j + m - 1 + 1] = mid[(j + m - 1 + 1) - m + 1]
    BY <2>1, <1>12
  <2>3. CASE j + m - 1 <= h
    <3>1. m = 0 /\ j = h + 1 /\ j + m - 1 = h
      BY <2>3, <1>1, <1>2
    <3>2. b[h] = mid[h]
      BY <1>1, <1>14
    <3>. QED
      BY <2>1, <2>2, <3>1, <3>2, <1>9 DEF Same
  <2>4. CASE ~ (j + m - 1 <= h)
    <3>1. ~ (j + m - 1 < h + m) /\ (j + m - 1) - m + 1 = j
      BY <2>4, <1>1, <1>2
    <3>2. b[j + m - 1] = mid[(j + m - 1) - m + 1]
      BY <2>1, <2>4, <3>1, <1>12
    <3>. QED
      BY <2>1, <2>2, <3>1, <3>2
  <2>. QED
    BY <2>3, <2>4
<1>17. \A i \in 1 .. (n + m - 1) : Ok(q[i], U(b[i]), b[i + 1], more, k, main)
  <2>. TAKE i \in 1 .. (n + m - 1)
  <2>1. CASE i \in 1 .. (h - 1)
    <3>1. i \in 1 .. h /\ i + 1 \in 1 .. h /\ i \in 1 .. n
      BY <2>1, <1>1
    <3>2. q[i] = p[i] /\ b[i] = mid[i] /\ b[i + 1] = mid[i + 1]
      BY <2>1, <3>1, <1>3, <1>14
    <3>. QED
      BY <3>1, <3>2, <1>10
  <2>2. ASSUME NEW j \in 1 .. m, i = h - 1 + j
        PROVE  Ok(q[i], U(b[i]), b[i + 1], more, k, main)
    BY <2>2, <1>3, <1>9, <1>15
  <2>3. ASSUME NEW j \in (h + 1) .. n, i = j + m - 1
        PROVE  Ok(q[i], U(b[i]), b[i + 1], more, k, main)
    <3>1. j \in 1 .. n
      BY <1>1
    <3>. QED
      BY <2>3, <3>1, <1>3, <1>10, <1>16
  <2>. QED
    BY <1>11, <2>1, <2>2, <2>3
<1>18. (n + m - 1) + 1 = n + m
  BY <1>1, <1>2
<1>19. Meant(q, e.label, more, b, k, main)
  BY <1>3, <1>9, <1>13, <1>17, <1>18 DEF Meant
<1>. QED
  BY <1>19 DEF q, s, e, c

-----------------------------------------------------------------------------
(* The invariant.                                                          *)

\* What the running method has to do is what is promised at its place.
Follows(mid, main) ==
  /\ pc = 0 => U(todo) = U(main)
  /\ pc # 0 /\ shown # Abs!Ended => U(todo) = U(mid[pc])

Inv ==
  /\ Written(code, label, called)
  /\ pc = 0 \/ (Complete /\ pc \in 1 .. Len(code))
  /\ turn \in {0, 1}
  /\ shown.kind \in {"begin", "act", "test", "end"}
  /\ \E main, mean, mid : Meant(code, label, mean, mid, called, main) /\ Follows(mid, main)

(* It holds at first: a call for each method, and no label.                *)
LEMMA InvInit == Init => Inv
<1>. SUFFICES ASSUME Init PROVE Inv
  OBVIOUS
<1>1. PICK p \in Programs : \E m \in DOMAIN p :
        /\ code = GenerateMir(p) /\ label = 0 /\ called = m /\ pc = 0 /\ todo = p[m]
        /\ shown = Abs!Begun /\ turn = 0
  BY DEF Init
<1>2. PICK m \in DOMAIN p :
        /\ code = GenerateMir(p) /\ label = 0 /\ called = m /\ pc = 0 /\ todo = p[m]
        /\ shown = Abs!Begun /\ turn = 0
  BY <1>1
<1>. DEFINE n == Len(p)
<1>3. /\ n \in Nat /\ DOMAIN p = 1 .. n /\ m \in 1 .. n /\ n # 0
      /\ \A i \in 1 .. n : p[i] \in Seq(Statements)
  BY ProgramsAssumption
<1>. HIDE DEF n
<1>4. /\ code \in Seq(Codes(0)) /\ Len(code) = n
      /\ \A i \in 1 .. n : code[i] = MethodOf(i, p[i])
  <2>1. code = [i \in 1 .. n |-> MethodOf(i, p[i])]
    BY <1>2, <1>3 DEF GenerateMir
  <2>2. \A i \in 1 .. n : MethodOf(i, p[i]) \in Codes(0)
    BY <1>3, Made
  <2>. QED
    BY <2>1, <2>2, <1>3
<1>5. \A i \in 1 .. n : code[i].op = "methodOf" /\ code[i].method = i /\ code[i].body = p[i]
  BY <1>4 DEF MethodOf
<1>6. Ends(code) /\ Has(code, called)
  <2>1. n \in 1 .. n
    BY <1>3
  <2>2. Ends(code)
    BY <2>1, <1>3, <1>4, <1>5 DEF Ends
  <2>3. Has(code, called)
    BY <1>2, <1>3, <1>4, <1>5 DEF Has
  <2>. QED
    BY <2>2, <2>3
<1>7. Labels(0) = {}
  BY DEF Labels
<1>8. Loopy(code)
  <2>. DEFINE d == [i \in 1 .. n + 1 |-> 0]
  <2>1. \A i \in 1 .. n : Step(code[i]) = 0 /\ code[i].op # "label"
    BY <1>5 DEF Step, Flag
  <2>2. Deep(code, d)
    BY <2>1, <1>3, <1>4 DEF Deep
  <2>3. Together(code, d)
    BY <2>1, <1>4 DEF Together
  <2>. QED
    BY <2>2, <2>3 DEF Loopy
<1>9. Written(code, label, called)
  BY <1>2, <1>4, <1>6, <1>7, <1>8 DEF Written
<1>10. \E mean, mid : Meant(code, label, mean, mid, called, todo) /\ Follows(mid, todo)
  <2>. DEFINE mean == [x \in Labels(0) |-> <<>>]
              mid  == [i \in 1 .. n + 1 |-> IF i = n + 1 THEN <<>> ELSE p[i]]
  <2>1. mean \in [Labels(label) -> Lists]
    BY <1>2, <1>7
  <2>2. mid \in [1 .. n + 1 -> Lists] /\ \A i \in 1 .. n : mid[i] = p[i]
    <3>1. \A i \in 1 .. n : p[i] \in Lists /\ i # n + 1 /\ i \in 1 .. n + 1
      BY <1>3, Parts
    <3>2. <<>> \in Lists /\ \A i \in 1 .. n + 1 : i # n + 1 => i \in 1 .. n
      BY <1>3, Parts
    <3>. QED
      BY <3>1, <3>2
  <2>. HIDE DEF mean, mid
  <2>3. \A i \in 1 .. n : Ok(code[i], U(mid[i]), mid[i + 1], mean, called, todo)
    BY <2>2, <1>2, <1>5 DEF Ok
  <2>4. Meant(code, label, mean, mid, called, todo)
    BY <2>1, <2>2, <2>3, <1>4 DEF Meant
  <2>5. Follows(mid, todo)
    BY <1>2 DEF Follows
  <2>. QED
    BY <2>4, <2>5
<1>11. pc = 0 /\ turn = 0 /\ shown.kind = "begin"
  BY <1>2 DEF Abs!Begun
<1>. QED
  BY <1>9, <1>10, <1>11 DEF Inv

(* A call of the generator keeps it.                                       *)
LEMMA InvGenerate == Inv /\ Generate => Inv'
<1>. SUFFICES ASSUME Inv, Generate PROVE Inv'
  OBVIOUS
<1>. DEFINE h == First(code)  e == Generated(code[h], label)
<1>1. label \in Nat /\ code \in Seq(Codes(label)) /\ Open(code) # {}
  BY DEF Inv, Written, Generate, Complete
<1>2. h \in 1 .. Len(code) /\ code[h].op \in Calls
  BY <1>1, FirstOpen
<1>3. /\ code' = Splice(code, h, e.codes) /\ label' = e.label
      /\ UNCHANGED <<called, pc, todo, shown, turn>>
  BY DEF Generate
<1>4. code[h] \in Pending(label)
  BY <1>1, <1>2, CodeKinds
<1>5. e.label \in Nat /\ e.label >= label /\ e.codes \in Seq(Codes(e.label)) /\ Shaped(e, code[h], label)
  BY <1>1, <1>4, Emitted, Shape
<1>6. Ends(code') /\ Has(code', called)
  BY <1>1, <1>2, <1>3, StaysEnding DEF Inv, Written
<1>. HIDE DEF h
<1>7. PICK main, mean, mid : Meant(code, label, mean, mid, called, main) /\ Follows(mid, main)
  BY DEF Inv
<1>8. \E more, between : Meant(code', label', more, between, called, main)
  BY <1>1, <1>2, <1>3, <1>7, StaysMeant
<1>. HIDE DEF e
<1>9. code' \in Seq(Codes(label'))
  BY <1>1, <1>2, <1>3, <1>5, SplicedCodes
<1>10. \A x \in Labels(label') : Once(code', x)
  BY <1>1, <1>2, <1>3, <1>5, StaysOnce DEF Inv, Written
<1>11. Loopy(code')
  BY <1>1, <1>2, <1>3, <1>5, StaysLoopy DEF Inv, Written
<1>12. Written(code', label', called)
  BY <1>3, <1>5, <1>6, <1>9, <1>10, <1>11 DEF Written
<1>13. pc = 0
  BY DEF Inv, Generate
<1>14. \E more, between : Meant(code', label', more, between, called', main) /\ Follows(between, main)'
  BY <1>3, <1>7, <1>8, <1>13 DEF Follows
<1>15. Written(code, label, called)'
  BY <1>3, <1>12
<1>. QED
  BY <1>3, <1>13, <1>14, <1>15 DEF Inv

-----------------------------------------------------------------------------
(* The running code.                                                       *)

(* Complete code has no calls.                                             *)
LEMMA NoCalls ==
  ASSUME Inv, Complete
  PROVE  /\ label \in Nat /\ code \in Seq(Codes(label)) /\ Len(code) \in Nat /\ Len(code) # 0
         /\ DOMAIN code = 1 .. Len(code)
         /\ \A i \in 1 .. Len(code) : code[i] \in Codes(label) /\ code[i].op \notin Calls
         /\ code[Len(code)].op = "ret"
<1>1. label \in Nat /\ code \in Seq(Codes(label)) /\ Ends(code)
  BY DEF Inv, Written
<1>2. Len(code) \in Nat /\ Len(code) # 0 /\ DOMAIN code = 1 .. Len(code)
  BY <1>1 DEF Ends
<1>3. \A i \in 1 .. Len(code) : code[i] \in Codes(label) /\ code[i].op \notin Calls
  BY <1>1, <1>2 DEF Complete, Open
<1>4. Len(code) \in 1 .. Len(code)
  BY <1>2
<1>5. code[Len(code)].op = "ret"
  BY <1>1, <1>3, <1>4 DEF Ends, Calls
<1>. QED
  BY <1>1, <1>2, <1>3, <1>5

(* A branch arrives at its label.                                          *)
LEMMA Arrives ==
  ASSUME Inv, Complete, NEW x \in Labels(label)
  PROVE  Target(x) \in 1 .. Len(code) /\ code[Target(x)] = Label(x)
<1>1. PICK j \in 1 .. Len(code) : /\ code[j] = Label(x)
                                  /\ \A i \in 1 .. Len(code) : code[i] = Label(x) => i = j
  BY DEF Inv, Written, Once
<1>2. DOMAIN code = 1 .. Len(code) /\ Len(code) \in Nat
  BY NoCalls
<1>3. \A i \in 1 .. (j - 1) : code[i] # Label(x)
  <2>1. \A i \in 1 .. (j - 1) : i \in 1 .. Len(code) /\ i # j
    BY <1>2
  <2>. QED
    BY <1>1, <2>1
<1>4. Target(x) \in DOMAIN code /\ code[Target(x)] = Label(x)
  BY <1>1, <1>2, <1>3 DEF Target
<1>. QED
  BY <1>2, <1>4

(* A code that is not a return is followed by another.                     *)
LEMMA GoesOn ==
  ASSUME Inv, pc # 0, code[pc].op # "ret"
  PROVE  /\ Complete /\ pc \in 1 .. Len(code) /\ pc + 1 \in 1 .. Len(code)
         /\ code[pc] \in Codes(label) /\ code[pc].op \notin Calls
<1>1. Complete /\ pc \in 1 .. Len(code)
  BY DEF Inv
<1>2. /\ Len(code) \in Nat /\ code[Len(code)].op = "ret"
      /\ \A i \in 1 .. Len(code) : code[i] \in Codes(label) /\ code[i].op \notin Calls
  BY <1>1, NoCalls
<1>3. pc # Len(code)
  BY <1>2
<1>. QED
  BY <1>1, <1>2, <1>3

(* The steps of the running code, and what the source does meanwhile.      *)
LEMMA InvStep ==
  ASSUME Inv, Next
  PROVE  /\ Inv'
         /\ Abs!Next \/ UNCHANGED Abs!vars
<1>0. Written(code, label, called) /\ (pc = 0 \/ (Complete /\ pc \in 1 .. Len(code)))
      /\ turn \in {0, 1} /\ shown.kind \in {"begin", "act", "test", "end"}
  BY DEF Inv
<1>1. PICK main, mean, mid : Meant(code, label, mean, mid, called, main) /\ Follows(mid, main)
  BY DEF Inv
<1>2. \A i \in 1 .. Len(code) : Ok(code[i], U(mid[i]), mid[i + 1], mean, called, main)
  BY <1>1 DEF Meant
<1>3. ASSUME UNCHANGED <<code, label, called>>,
             Complete, pc' \in 1 .. Len(code),
             turn' \in {0, 1}, shown'.kind \in {"begin", "act", "test", "end"},
             shown' # Abs!Ended => U(todo') = U(mid[pc'])
      PROVE  Inv'
  <2>1. Written(code, label, called)'
    BY <1>0, <1>3
  <2>2. Complete'
    BY <1>3 DEF Complete
  <2>3. pc' # 0
    BY <1>3
  <2>4. (Meant(code, label, mean, mid, called, main) /\ Follows(mid, main))'
    BY <1>1, <1>3, <2>3 DEF Follows
  <2>. QED
    BY <1>3, <2>1, <2>2, <2>4 DEF Inv
<1>4. CASE Generate
  <2>1. Inv'
    BY <1>4, InvGenerate
  <2>2. UNCHANGED Abs!vars
    BY <1>4 DEF Generate, Abs!vars
  <2>. QED
    BY <2>1, <2>2
<1>5. CASE Enter
  <2>. DEFINE e == CHOOSE i \in DOMAIN code : code[i] = Method(called)
  <2>1. Complete /\ pc = 0 /\ pc' = e /\ UNCHANGED <<shown, turn, todo, code, label, called>>
    BY <1>5 DEF Enter, Unseen
  <2>2. PICK i \in 1 .. Len(code) : code[i].op = "method" /\ code[i].method = called
    BY <1>0, <2>1, NoCalls DEF Written, Has, Calls
  <2>3. code[i] = Method(called) /\ i \in DOMAIN code
    BY <2>1, <2>2, NoCalls, CodeKinds
  <2>4. e \in 1 .. Len(code) /\ code[e] = Method(called)
    BY <2>1, <2>3, NoCalls
  <2>. HIDE DEF e
  <2>5. U(mid[e]) = U(main)
    <3>1. Ok(code[e], U(mid[e]), mid[e + 1], mean, called, main)
      BY <2>4, <1>2
    <3>2. code[e].op = "method" /\ code[e].method = called
      BY <2>4 DEF Method
    <3>. QED
      BY <3>1, <3>2 DEF Ok
  <2>6. U(todo) = U(main)
    BY <1>1, <2>1 DEF Follows
  <2>7. Inv'
    BY <1>0, <1>3, <2>1, <2>4, <2>5, <2>6
  <2>8. UNCHANGED Abs!vars
    BY <2>1 DEF Abs!vars
  <2>. QED
    BY <2>7, <2>8
<1>. DEFINE u == U(todo)
<1>6. ASSUME pc # 0, shown # Abs!Ended
      PROVE  /\ Complete /\ pc \in 1 .. Len(code) /\ u = U(mid[pc])
             /\ Ok(code[pc], u, mid[pc + 1], mean, called, main)
  BY <1>0, <1>1, <1>2, <1>6 DEF Follows
<1>7. u = Abs!Unfold(todo)
  BY DEF U
<1>8. CASE Compare
  <2>1. pc # 0 /\ shown # Abs!Ended /\ code[pc].op = "cmp"
    BY <1>8 DEF Compare, Running
  <2>. DEFINE c == code[pc]  f == [name |-> c.name, inverted |-> 0]
  <2>2. PICK v \in BOOLEAN :
          /\ See(Abs!Tested(c.name, v))
          /\ pc' = Target(IF v THEN c.true ELSE c.false)
          /\ UNCHANGED <<code, label, called>>
    BY <1>8 DEF Compare
  <2>. DEFINE x == IF v THEN c.true ELSE c.false
  <2>3. Gives(u, f, c.true, c.false, mean)
    BY <1>6, <2>1 DEF Ok
  <2>4. Abs!Holds(f, v) = v
    BY DEF Abs!Holds
  <2>5. /\ u # <<>> /\ Head(u) \in Ifs /\ Abs!FirstOf(Head(u).cond).name = c.name
        /\ Same(Abs!Decide(Head(u), v) \o Tail(u), mean[x])
    BY <2>3, <2>4 DEF Gives
  <2>6. x \in Labels(label)
    BY <1>6, <2>1, NoCalls, CodeKinds
  <2>7. Target(x) \in 1 .. Len(code) /\ code[Target(x)] = Label(x)
    BY <1>6, <2>1, <2>6, Arrives
  <2>8. U(mid[Target(x)]) = U(mean[x])
    <3>. HIDE DEF x
    <3>. DEFINE j == Target(x)
    <3>1. j \in 1 .. Len(code) /\ code[j] = Label(x)
      BY <2>7
    <3>. HIDE DEF j
    <3>2. Ok(code[j], U(mid[j]), mid[j + 1], mean, called, main)
      BY <3>1, <1>2
    <3>3. code[j].op = "label" /\ code[j].label = x
      BY <3>1 DEF Label
    <3>4. U(mid[j]) = U(mean[x])
      BY <3>2, <3>3 DEF Ok
    <3>. QED
      BY <3>4 DEF j
  <2>. DEFINE t == Abs!Tested(c.name, v)
  <2>9. Head(u).kind = "if"
    BY <2>5 DEF Ifs
  <2>10. t \in Abs!Visible(todo)
    BY <1>7, <2>5, <2>9 DEF Abs!Visible
  <2>11. Abs!After(todo, t) = Abs!Decide(Head(u), v) \o Tail(u)
    <3>1. t.kind = "test" /\ t.value = v
      BY DEF Abs!Tested
    <3>. HIDE DEF t, u
    <3>. QED
      BY <1>7, <2>5, <2>10, <3>1 DEF Abs!After
  <2>12. shown' = t /\ turn' = 1 - turn /\ todo' = Abs!After(todo, t)
    BY <2>2 DEF See
  <2>13. Inv'
    <3>1. U(todo') = U(mid[pc'])
      BY <2>2, <2>5, <2>8, <2>11, <2>12 DEF Same
    <3>2. shown'.kind = "test" /\ turn' \in {0, 1}
      BY <1>0, <2>12 DEF Abs!Tested
    <3>. HIDE DEF x, t, u, c
    <3>. QED
      BY <1>3, <1>6, <2>1, <2>2, <2>7, <3>1, <3>2 DEF x, c
  <2>14. Abs!Next
    BY <2>1, <2>10, <2>12 DEF Abs!Next
  <2>. QED
    BY <2>13, <2>14
<1>9. CASE Jump
  <2>1. pc # 0 /\ shown # Abs!Ended /\ code[pc].op = "jmp" /\ pc' = Target(code[pc].label)
        /\ UNCHANGED <<shown, turn, todo, code, label, called>>
    BY <1>9 DEF Jump, Running, Unseen
  <2>. DEFINE x == code[pc].label
  <2>2. x \in Labels(label)
    BY <1>6, <2>1, NoCalls, CodeKinds
  <2>3. Target(x) \in 1 .. Len(code) /\ code[Target(x)] = Label(x)
    BY <1>6, <2>1, <2>2, Arrives
  <2>4. U(mid[Target(x)]) = U(mean[x])
    <3>. HIDE DEF x
    <3>. DEFINE j == Target(x)
    <3>1. j \in 1 .. Len(code) /\ code[j] = Label(x)
      BY <2>3
    <3>. HIDE DEF j
    <3>2. Ok(code[j], U(mid[j]), mid[j + 1], mean, called, main)
      BY <3>1, <1>2
    <3>3. code[j].op = "label" /\ code[j].label = x
      BY <3>1 DEF Label
    <3>4. U(mid[j]) = U(mean[x])
      BY <3>2, <3>3 DEF Ok
    <3>. QED
      BY <3>4 DEF j
  <2>5. u = U(mean[x])
    BY <1>6, <2>1 DEF Ok
  <2>6. Inv'
    BY <1>0, <1>3, <1>6, <2>1, <2>3, <2>4, <2>5
  <2>7. UNCHANGED Abs!vars
    BY <2>1 DEF Abs!vars
  <2>. QED
    BY <2>6, <2>7
<1>10. CASE Compute
  <2>1. pc # 0 /\ shown # Abs!Ended /\ code[pc].op = "act" /\ pc' = pc + 1
        /\ UNCHANGED <<code, label, called>> /\ See(Abs!Acted(code[pc].name))
    BY <1>10 DEF Compute, Running
  <2>. DEFINE t == Abs!Acted(code[pc].name)
  <2>2. u # <<>> /\ Head(u) = Abs!Do(code[pc].name) /\ Same(Tail(u), mid[pc + 1])
    BY <1>6, <2>1 DEF Ok
  <2>3. Head(u).kind = "do" /\ Head(u).act = code[pc].name
    BY <2>2 DEF Abs!Do
  <2>4. Abs!Visible(todo) = {t}
    BY <1>7, <2>2, <2>3 DEF Abs!Visible
  <2>5. Abs!After(todo, t) = Tail(u)
    <3>1. t.kind = "act"
      BY DEF Abs!Acted
    <3>. HIDE DEF t, u
    <3>. QED
      BY <1>7, <2>2, <2>4, <3>1 DEF Abs!After
  <2>6. shown' = t /\ turn' = 1 - turn /\ todo' = Abs!After(todo, t)
    BY <2>1 DEF See
  <2>7. Inv'
    <3>1. U(todo') = U(mid[pc'])
      BY <2>1, <2>2, <2>5, <2>6 DEF Same
    <3>2. shown'.kind = "act" /\ turn' \in {0, 1}
      BY <1>0, <2>6 DEF Abs!Acted
    <3>3. Complete /\ pc + 1 \in 1 .. Len(code)
      BY <2>1, GoesOn
    <3>. HIDE DEF t, u
    <3>. QED
      BY <1>3, <2>1, <3>1, <3>2, <3>3
  <2>8. Abs!Next
    BY <2>1, <2>4, <2>6 DEF Abs!Next
  <2>. QED
    BY <2>7, <2>8
<1>11. CASE Pass
  <2>1. pc # 0 /\ shown # Abs!Ended /\ code[pc].op \in {"label", "flag", "method"} /\ pc' = pc + 1
        /\ UNCHANGED <<shown, turn, todo, code, label, called>>
    BY <1>11 DEF Pass, Running, Unseen
  <2>2. u = U(mid[pc + 1])
    BY <1>6, <2>1 DEF Ok
  <2>3. Complete /\ pc + 1 \in 1 .. Len(code)
    BY <2>1, GoesOn
  <2>4. Inv'
    BY <1>0, <1>3, <2>1, <2>2, <2>3
  <2>5. UNCHANGED Abs!vars
    BY <2>1 DEF Abs!vars
  <2>. QED
    BY <2>4, <2>5
<1>12. CASE Return
  <2>1. pc # 0 /\ shown # Abs!Ended /\ code[pc].op = "ret"
        /\ UNCHANGED <<code, label, called, pc>> /\ See(Abs!Ended)
    BY <1>12 DEF Return, Running
  <2>2. u = <<>>
    BY <1>6, <2>1 DEF Ok
  <2>3. Abs!Visible(todo) = {Abs!Ended}
    BY <1>7, <2>2 DEF Abs!Visible
  <2>4. shown' = Abs!Ended /\ turn' = 1 - turn /\ todo' = Abs!After(todo, Abs!Ended)
    BY <2>1 DEF See
  <2>5. Inv'
    <3>1. shown'.kind = "end" /\ turn' \in {0, 1}
      BY <1>0, <2>4 DEF Abs!Ended
    <3>2. Complete /\ pc' \in 1 .. Len(code)
      BY <1>0, <2>1
    <3>. HIDE DEF u
    <3>. QED
      BY <1>3, <2>1, <2>4, <3>1, <3>2
  <2>6. Abs!Next
    BY <2>1, <2>3, <2>4 DEF Abs!Next
  <2>. QED
    BY <2>5, <2>6
<1>. QED
  BY <1>4, <1>5, <1>8, <1>9, <1>10, <1>11, <1>12 DEF Next

-----------------------------------------------------------------------------
(* Loops.                                                                  *)

(* One more code counts as one flag, or none.                              *)
LEMMA OneMore ==
  ASSUME NEW f, NEW k \in Nat, NEW j \in Nat, k <= j + 1,
         NEW C, C = Cardinality({i \in k .. j : code[i] = Flag(f)}), C \in Nat
  PROVE  Cardinality({i \in k .. (j + 1) : code[i] = Flag(f)})
           = C + (IF code[j + 1] = Flag(f) THEN 1 ELSE 0)
<1>. DEFINE S == {i \in k .. j : code[i] = Flag(f)}
            T == {i \in k .. (j + 1) : code[i] = Flag(f)}
<1>1. IsFiniteSet(S)
  <2>1. IsFiniteSet(k .. j)
    BY FS_Interval
  <2>. QED
    BY <2>1, FS_Subset
<1>2. j + 1 \notin S /\ k .. (j + 1) = (k .. j) \cup {j + 1}
  OBVIOUS
<1>3. CASE code[j + 1] = Flag(f)
  <2>1. T = S \cup {j + 1}
    BY <1>2, <1>3
  <2>2. Cardinality(S \cup {j + 1}) = Cardinality(S) + 1
    <3>. HIDE DEF S
    <3>. QED
      BY <1>1, <1>2, FS_AddElement
  <2>. QED
    BY <1>3, <2>1, <2>2
<1>4. CASE code[j + 1] # Flag(f)
  <2>1. T = S
    BY <1>2, <1>4
  <2>. QED
    BY <1>4, <2>1
<1>. QED
  BY <1>3, <1>4

(* The flags from k on, counted, are how much deeper d gets.               *)
LEMMA Counted ==
  ASSUME NEW d, Deep(code, d), Len(code) \in Nat,
         NEW k \in 1 .. Len(code), NEW j \in k .. Len(code)
  PROVE  Entered(k, j) > Left(k, j) <=> d[j + 1] > d[k]
<1>. DEFINE n == j - k + 1
            E(t) == Entered(k, k + t - 1)
            L(t) == Left(k, k + t - 1)
            S == {t \in 0 .. n : E(t) \in Nat /\ L(t) \in Nat /\ E(t) - L(t) = d[k + t] - d[k]}
<1>1. \A i \in 1 .. Len(code) + 1 : d[i] \in Nat
  BY DEF Deep
<1>2. n \in Nat /\ k + n - 1 = j /\ k + n = j + 1
  OBVIOUS
<1>3. 0 \in S
  <2>1. k + 0 - 1 = k - 1 /\ k .. (k - 1) = {} /\ k + 0 = k
    OBVIOUS
  <2>2. E(0) = 0 /\ L(0) = 0
    BY <2>1, FS_EmptySet DEF Entered, Left
  <2>3. d[k] \in Nat
    BY <1>1
  <2>. HIDE DEF E, L
  <2>4. d[k + 0] - d[k] = 0 /\ 0 \in 0 .. n
    BY <1>2, <2>1, <2>3
  <2>. QED
    BY <2>2, <2>4
<1>4. ASSUME NEW t \in 0 .. n - 1, t \in S  PROVE t + 1 \in S
  <2>. DEFINE m == k + t - 1
  <2>1. /\ m \in Nat /\ k <= m + 1 /\ k + (t + 1) - 1 = m + 1 /\ k + t = m + 1
        /\ k + (t + 1) = m + 1 + 1
        /\ m + 1 \in 1 .. Len(code) /\ t + 1 \in 0 .. n /\ k \in Nat
    OBVIOUS
  <2>2. Entered(k, m) \in Nat /\ Left(k, m) \in Nat /\ Entered(k, m) - Left(k, m) = d[m + 1] - d[k]
    BY <1>4, <2>1
  <2>. HIDE DEF m
  <2>3. Entered(k, m + 1) = Entered(k, m) + (IF code[m + 1] = Flag("ENTER_LOOP_BLOCK") THEN 1 ELSE 0)
    <3>. DEFINE C == Cardinality({i \in k .. m : code[i] = Flag("ENTER_LOOP_BLOCK")})
    <3>1. C \in Nat /\ C = Entered(k, m)
      BY <2>2 DEF Entered
    <3>2. Cardinality({i \in k .. (m + 1) : code[i] = Flag("ENTER_LOOP_BLOCK")})
            = C + (IF code[m + 1] = Flag("ENTER_LOOP_BLOCK") THEN 1 ELSE 0)
      BY <2>1, <3>1, OneMore
    <3>. QED
      BY <3>1, <3>2 DEF Entered
  <2>4. Left(k, m + 1) = Left(k, m) + (IF code[m + 1] = Flag("EXIT_LOOP_BLOCK") THEN 1 ELSE 0)
    <3>. DEFINE C == Cardinality({i \in k .. m : code[i] = Flag("EXIT_LOOP_BLOCK")})
    <3>1. C \in Nat /\ C = Left(k, m)
      BY <2>2 DEF Left
    <3>2. Cardinality({i \in k .. (m + 1) : code[i] = Flag("EXIT_LOOP_BLOCK")})
            = C + (IF code[m + 1] = Flag("EXIT_LOOP_BLOCK") THEN 1 ELSE 0)
      BY <2>1, <3>1, OneMore
    <3>. QED
      BY <3>1, <3>2 DEF Left
  <2>5. d[m + 1 + 1] = d[m + 1] + Step(code[m + 1])
    BY <2>1 DEF Deep
  <2>6. Flag("ENTER_LOOP_BLOCK") # Flag("EXIT_LOOP_BLOCK")
    BY DEF Flag
  <2>7. d[m + 1] \in Nat /\ d[k] \in Nat /\ d[m + 1 + 1] \in Nat
    BY <1>1, <2>1
  <2>8. Entered(k, m + 1) \in Nat /\ Left(k, m + 1) \in Nat
    BY <2>2, <2>3, <2>4
  <2>9. Entered(k, m + 1) - Left(k, m + 1) = d[m + 1 + 1] - d[k]
    <3>. DEFINE c == code[m + 1]
    <3>1. CASE c = Flag("ENTER_LOOP_BLOCK")
      <4>1. Step(c) = 1 /\ c # Flag("EXIT_LOOP_BLOCK")
        BY <2>6, <3>1 DEF Step
      <4>2. Entered(k, m + 1) = Entered(k, m) + 1 /\ Left(k, m + 1) = Left(k, m) + 0
        BY <2>3, <2>4, <3>1, <4>1
      <4>3. d[m + 1 + 1] = d[m + 1] + 1
        BY <2>5, <4>1
      <4>. QED
        BY <2>2, <2>7, <4>2, <4>3
    <3>2. CASE c # Flag("ENTER_LOOP_BLOCK") /\ c = Flag("EXIT_LOOP_BLOCK")
      <4>1. Step(c) = -1
        BY <3>2 DEF Step
      <4>2. Entered(k, m + 1) = Entered(k, m) + 0 /\ Left(k, m + 1) = Left(k, m) + 1
        BY <2>3, <2>4, <3>2
      <4>3. d[m + 1 + 1] = d[m + 1] - 1
        BY <2>5, <2>7, <4>1
      <4>. QED
        BY <2>2, <2>7, <4>2, <4>3
    <3>3. CASE c # Flag("ENTER_LOOP_BLOCK") /\ c # Flag("EXIT_LOOP_BLOCK")
      BY <2>2, <2>3, <2>4, <2>5, <2>7, <3>3 DEF Step
    <3>. QED
      BY <3>1, <3>2, <3>3
  <2>. QED
    BY <2>1, <2>8, <2>9
<1>. HIDE DEF S
<1>5. 0 .. n \subseteq S
  BY <1>2, <1>3, <1>4, UpTo
<1>6. n \in S
  BY <1>2, <1>5
<1>7. Entered(k, j) \in Nat /\ Left(k, j) \in Nat /\ Entered(k, j) - Left(k, j) = d[j + 1] - d[k]
  BY <1>2, <1>6 DEF S
<1>8. d[j + 1] \in Nat /\ d[k] \in Nat
  BY <1>1
<1>. QED
  BY <1>7, <1>8

\* The loops around the place i: those that are less deep than all up to i.
Around(d, i) == {k \in 1 .. (i - 1) : /\ code[k] = Flag("ENTER_LOOP_BLOCK")
                                      /\ \A j \in k .. (i - 1) : d[j + 1] > d[k]}

(* They are the loops entered and not yet left.                            *)
LEMMA IsAround ==
  ASSUME NEW d, Deep(code, d), Len(code) \in Nat, NEW i \in 1 .. Len(code)
  PROVE  LoopsAround(i) = Around(d, i)
<1>1. ASSUME NEW k \in 1 .. (i - 1), NEW j \in k .. (i - 1)
      PROVE  Entered(k, j) > Left(k, j) <=> d[j + 1] > d[k]
  <2>1. k \in 1 .. Len(code) /\ j \in k .. Len(code)
    OBVIOUS
  <2>. QED
    BY <2>1, Counted
<1>. QED
  BY <1>1 DEF LoopsAround, Around

(* On a level path the loops are the same.                                 *)
LEMMA LevelAround ==
  ASSUME NEW n \in Nat, NEW d \in [1 .. n + 1 -> Nat],
         NEW a \in 1 .. n, NEW b \in 1 .. n, a <= b, Level(d, a, b) \/ Level(d, b, a)
  PROVE  Around(d, a) = Around(d, b)
<1>1. d[a] = d[b] /\ \A x \in a .. b : d[x] >= d[a]
  BY DEF Level
<1>2. \A x \in 1 .. n + 1 : d[x] \in Nat
  OBVIOUS
<1>3. ASSUME NEW k \in Around(d, a)  PROVE k \in Around(d, b)
  <2>1. /\ k \in 1 .. (a - 1) /\ code[k] = Flag("ENTER_LOOP_BLOCK")
        /\ \A j \in k .. (a - 1) : d[j + 1] > d[k]
    BY <1>3 DEF Around
  <2>2. k \in 1 .. (b - 1) /\ a - 1 \in k .. (a - 1) /\ (a - 1) + 1 = a
    BY <2>1
  <2>3. d[a] > d[k]
    BY <2>1, <2>2
  <2>4. ASSUME NEW j \in k .. (b - 1)  PROVE d[j + 1] > d[k]
    <3>1. CASE j \in k .. (a - 1)
      BY <2>1, <3>1
    <3>2. CASE j >= a
      <4>1. j + 1 \in a .. b /\ j + 1 \in 1 .. n + 1 /\ k \in 1 .. n + 1 /\ a \in 1 .. n + 1
        BY <2>2, <3>2
      <4>2. d[j + 1] >= d[a]
        BY <1>1, <4>1
      <4>3. d[j + 1] \in Nat /\ d[k] \in Nat /\ d[a] \in Nat
        BY <1>2, <4>1
      <4>. QED
        BY <2>3, <4>2, <4>3
    <3>. QED
      BY <2>2, <3>1, <3>2
  <2>. QED
    BY <2>1, <2>2, <2>4 DEF Around
<1>4. ASSUME NEW k \in Around(d, b)  PROVE k \in Around(d, a)
  <2>1. /\ k \in 1 .. (b - 1) /\ code[k] = Flag("ENTER_LOOP_BLOCK")
        /\ \A j \in k .. (b - 1) : d[j + 1] > d[k]
    BY <1>4 DEF Around
  <2>2. b - 1 \in k .. (b - 1) /\ (b - 1) + 1 = b
    BY <2>1
  <2>3. d[b] > d[k]
    BY <2>1, <2>2
  <2>4. k < a
    <3>. SUFFICES ASSUME k >= a  PROVE FALSE
      BY <2>1
    <3>1. k \in a .. b /\ k \in 1 .. n + 1 /\ a \in 1 .. n + 1
      BY <2>1
    <3>2. d[k] >= d[a] /\ d[k] \in Nat /\ d[a] \in Nat
      BY <1>1, <1>2, <3>1
    <3>. QED
      BY <1>1, <2>3, <3>2
  <2>5. k \in 1 .. (a - 1) /\ \A j \in k .. (a - 1) : j \in k .. (b - 1)
    BY <2>1, <2>4
  <2>. QED
    BY <2>1, <2>5 DEF Around
<1>. QED
  BY <1>3, <1>4

(* A code that is not a flag is followed by one in the same loops.         *)
LEMMA InvLoops ==
  ASSUME Inv, Next, pc # 0, pc' # pc, code[pc].op # "flag"
  PROVE  LoopsAround(pc') = LoopsAround(pc)
<1>1. Complete /\ pc \in 1 .. Len(code) /\ Loopy(code)
  BY DEF Inv, Written
<1>2. /\ label \in Nat /\ Len(code) \in Nat
      /\ \A i \in 1 .. Len(code) : code[i] \in Codes(label) /\ code[i].op \notin Calls
  BY <1>1, NoCalls
<1>3. PICK d : Deep(code, d) /\ Together(code, d)
  BY <1>1 DEF Loopy
<1>4. d \in [1 .. Len(code) + 1 -> Nat]
  BY <1>3 DEF Deep
<1>5. ASSUME NEW b \in 1 .. Len(code), Level(d, pc, b)
      PROVE  LoopsAround(b) = LoopsAround(pc)
  <2>1. pc <= b \/ b <= pc
    BY <1>1, <1>2
  <2>2. Around(d, b) = Around(d, pc)
    BY <1>1, <1>2, <1>4, <1>5, <2>1, LevelAround
  <2>3. LoopsAround(b) = Around(d, b) /\ LoopsAround(pc) = Around(d, pc)
    BY <1>1, <1>2, <1>3, IsAround
  <2>. QED
    BY <2>2, <2>3
<1>6. ASSUME NEW x \in Labels(label), x \in Goals(code[pc]), pc' = Target(x)
      PROVE  LoopsAround(pc') = LoopsAround(pc)
  <2>1. pc' \in 1 .. Len(code) /\ code[pc'] = Label(x)
    BY <1>1, <1>6, Arrives
  <2>2. code[pc'].op = "label" /\ code[pc'].label = x
    BY <2>1 DEF Label
  <2>3. Level(d, pc, pc')
    BY <1>1, <1>3, <1>6, <2>1, <2>2 DEF Together
  <2>. QED
    BY <1>5, <2>1, <2>3
<1>7. ASSUME code[pc].op # "ret", pc' = pc + 1
      PROVE  LoopsAround(pc') = LoopsAround(pc)
  <2>1. pc + 1 \in 1 .. Len(code)
    BY <1>7, GoesOn
  <2>2. Step(code[pc]) = 0
    BY DEF Step, Flag
  <2>3. d[pc + 1] = d[pc] + 0 /\ d[pc] \in Nat
    BY <1>1, <1>3, <1>4, <2>2 DEF Deep
  <2>4. \A x \in (pc .. (pc + 1)) \cup ((pc + 1) .. pc) : x = pc \/ x = pc + 1
    BY <1>1, <1>2
  <2>5. Level(d, pc, pc + 1)
    BY <2>3, <2>4 DEF Level
  <2>. QED
    BY <1>5, <1>7, <2>1, <2>5
<1>8. CASE Compare
  <2>1. code[pc].op = "cmp" /\ pc' \in {Target(code[pc].true), Target(code[pc].false)}
    BY <1>8 DEF Compare, Running
  <2>2. code[pc].true \in Labels(label) /\ code[pc].false \in Labels(label)
    BY <1>1, <1>2, <2>1, CodeKinds
  <2>3. code[pc].true \in Goals(code[pc]) /\ code[pc].false \in Goals(code[pc])
    BY <2>1 DEF Goals
  <2>. QED
    BY <1>6, <2>1, <2>2, <2>3
<1>9. CASE Jump
  <2>1. code[pc].op = "jmp" /\ pc' = Target(code[pc].label)
    BY <1>9 DEF Jump, Running
  <2>2. code[pc].label \in Labels(label)
    BY <1>1, <1>2, <2>1, CodeKinds
  <2>3. code[pc].label \in Goals(code[pc])
    BY <2>1 DEF Goals
  <2>. QED
    BY <1>6, <2>1, <2>2, <2>3
<1>10. CASE Compute
  BY <1>7, <1>10 DEF Compute, Running
<1>11. CASE Pass
  BY <1>7, <1>11 DEF Pass, Running
<1>. QED
  BY <1>8, <1>9, <1>10, <1>11 DEF Next, Generate, Enter, Return

-----------------------------------------------------------------------------
(* The theorems.                                                           *)

(* The invariant holds in every state: each code, and each call of the     *)
(* generator still to be made, does what the source has left to do there.  *)
THEOREM Invariant == Spec => []Inv
<1>1. Init => Inv
  BY InvInit
<1>2. Inv /\ [Next]_vars => Inv'
  <2>1. Inv /\ Next => Inv'
    BY InvStep
  <2>2. Inv /\ UNCHANGED vars => Inv'
    <3>. SUFFICES ASSUME Inv, UNCHANGED vars  PROVE Inv'
      OBVIOUS
    <3>1. UNCHANGED code /\ UNCHANGED label /\ UNCHANGED called /\ UNCHANGED pc
          /\ UNCHANGED todo /\ UNCHANGED shown /\ UNCHANGED turn
      BY DEF vars
    <3>2. Inv' = Inv
      BY <3>1 DEF Inv, Written, Meant, Follows, Complete
    <3>. QED
      BY <3>2
  <2>. QED
    BY <2>1, <2>2
<1>. QED
  BY <1>1, <1>2, PTL DEF Spec

(* Control never runs off the end of the code of all methods, and no       *)
(* method runs before the code is complete.                                *)
THEOREM TypeCorrect == Spec => []TypeOK
<1>1. Inv => TypeOK
  <2>. SUFFICES ASSUME Inv  PROVE TypeOK
    OBVIOUS
  <2>1. pc = 0 \/ (Complete /\ pc \in DOMAIN code)
    BY NoCalls DEF Inv
  <2>. QED
    BY <2>1 DEF Inv, Written, TypeOK
<1>. QED
  BY <1>1, Invariant, PTL

(* The label of every branch is placed once in the code of all methods.    *)
THEOREM Unambiguous == Spec => []BranchesUnambiguous
<1>1. Inv => BranchesUnambiguous
  <2>. SUFFICES ASSUME Inv, Complete, NEW i \in DOMAIN code, NEW x \in Aims(code[i])
                PROVE  Cardinality(Placed(x)) = 1
    BY DEF BranchesUnambiguous
  <2>1. DOMAIN code = 1 .. Len(code) /\ label \in Nat /\ code[i] \in Codes(label)
    BY NoCalls
  <2>2. x \in Labels(label)
    <3>1. \/ code[i].op = "cmp" /\ x \in {code[i].true, code[i].false}
          \/ code[i].op = "jmp" /\ x = code[i].label
      BY DEF Aims
    <3>. QED
      BY <2>1, <3>1, CodeKinds
  <2>3. PICK j \in 1 .. Len(code) : /\ code[j] = Label(x)
                                    /\ \A k \in 1 .. Len(code) : code[k] = Label(x) => k = j
    BY <2>2 DEF Inv, Written, Once
  <2>4. Placed(x) = {j}
    BY <2>1, <2>3 DEF Placed
  <2>. QED
    BY <2>4, FS_Singleton
<1>. QED
  BY <1>1, Invariant, PTL

(* The running code enters and leaves a loop only at the loop's flags.     *)
THEOREM Flags == Spec => LoopsByTheirFlags
<1>1. Inv /\ [Next]_vars =>
        [pc # 0 /\ pc' # pc /\ code[pc].op # "flag" => LoopsAround(pc') = LoopsAround(pc)]_vars
  BY InvLoops
<1>. QED
  BY <1>1, Invariant, PTL DEF Spec, LoopsByTheirFlags

(* The running code does what the source does, step by step: it evaluates  *)
(* the comparisons and acts in the order of the source, and returns when   *)
(* nothing is left to do.                                                  *)
THEOREM Refines == Spec => Abs!Init /\ [][Abs!Next]_(Abs!vars)
<1>1. Init => Abs!Init
  <2>. SUFFICES ASSUME Init  PROVE Abs!Init
    OBVIOUS
  <2>1. PICK p \in Programs : \E m \in DOMAIN p : todo = p[m] /\ shown = Abs!Begun /\ turn = 0
    BY DEF Init
  <2>2. todo \in Methods /\ shown = Abs!Begun /\ turn = 0
    BY <2>1 DEF Methods
  <2>. QED
    BY <2>2 DEF Abs!Init
<1>2. Inv /\ [Next]_vars => [Abs!Next]_(Abs!vars)
  <2>1. Inv /\ Next => [Abs!Next]_(Abs!vars)
    BY InvStep
  <2>2. UNCHANGED vars => UNCHANGED Abs!vars
    BY DEF vars, Abs!vars
  <2>. QED
    BY <2>1, <2>2
<1>. QED
  BY <1>1, <1>2, Invariant, PTL DEF Spec

=============================================================================

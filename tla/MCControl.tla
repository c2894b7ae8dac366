------------------------------ MODULE MCControl ------------------------------
(* Programs of two methods: a fixed loop, and a compound statement around a   *)
(* second one, each with a condition.  Comparisons and actions are named by   *)
(* where they stand.                                                          *)
EXTENDS Control

Factor(n, inv) == [name |-> n, inverted |-> inv]

Singles(n) == {<<Factor(n, i)>> : i \in 0..1}
Items(n)   == Singles(n) \cup {<<Factor(n, i), Factor(n + 1, j)>> : i \in 0..1, j \in 0..1}
OneOrTwo   == {<<Factor(3, 0)>>, <<Factor(3, 1), Factor(4, 0)>>}

\* a, !a, a && b, !a || b, ... over four comparisons; and longer chains.
OuterConds == {<<a>> : a \in Items(1)} \cup {<<a, b>> : a \in Items(1), b \in OneOrTwo}
  \cup {<<<<Factor(1, 2)>>>>,
        <<<<Factor(1, 0), Factor(2, 0), Factor(3, 1)>>>>,
        <<<<Factor(1, 0)>>, <<Factor(2, 3)>>, <<Factor(3, 0)>>>>}
InnerConds == {<<<<Factor(5, 0)>>>>, <<<<Factor(5, 1)>>, <<Factor(6, 0)>>>>,
               <<<<Factor(5, 0), Factor(6, 1)>>>>}

Do(a)   == [kind |-> "do", act |-> a]
Act1(a) == <<Do(a)>>

If(c, yes, no)         == [kind |-> "if", cond |-> c, yes |-> yes, no |-> no]
While(c, body)         == [kind |-> "while", cond |-> c, body |-> body]
For(i, c, after, body) == [kind |-> "for", init |-> i, cond |-> c, after |-> after, body |-> body]

Inner == {Do("x"), For("i", <<>>, "n", Act1("x"))}
  \cup UNION {{If(c, Act1("x"), <<>>), If(c, Act1("x"), Act1("y")),
               While(c, <<>>), For("i", c, "n", Act1("x"))} : c \in InnerConds}

Outer == UNION {{If(c, <<s>>, <<>>), If(c, Act1("u"), <<s>>),
                 While(c, <<Do("u"), s>>), For("j", c, "m", <<s>>)}
                 : c \in OuterConds, s \in Inner}

FirstMethod == <<While(<<<<Factor(7, 0)>>>>, Act1("w"))>>

MCActs       == {"i", "j", "m", "n", "u", "w", "x", "y", "z"}
MCStatements == Outer \cup Inner \cup {Do(a) : a \in MCActs} \cup {FirstMethod[1]}
MCPrograms == {<<FirstMethod, <<s, Do("z")>>>> : s \in Outer}

=============================================================================

-------------------------------- MODULE MCDraft --------------------------------
\* DraftEditing with small FAMs for TLC.
EXTENDS DraftEditing

a == Leaf("a")
b == Leaf("b")
Array(s) == [array |-> s]
Object(f) == [object |-> f]

Items == {a, Array(<<>>), Array(<<a, b>>), Object("k" :> a)}
MCValues ==
  {Array(s) : s \in UNION {[1..n -> {a, b}] : n \in {0, 1, 3}}}
    \cup {Array(<<x, y>>) : x \in Items, y \in Items}
    \cup {Object("k" :> x) : x \in Items} \cup {Object("k" :> x @@ "0" :> y) : x, y \in Items}
    \cup {a}

\* Two axes stand for the two that make a FAM of an object, the third for those it
\* may lack.
MCAxes == {"L", "P", "Q"}
Rest == "P" :> a @@ "Q" :> a
Partial == Object("P" :> a @@ "Q" :> b)
MCBodies ==
  {"L" :> v @@ Rest : v \in MCValues}
    \cup {"L" :> v @@ "x" :> a @@ Rest : v \in {a, Array(<<a, b>>)}}
    \cup {"L" :> v @@ Rest : v \in {Array(<<Partial, a>>), Object("k" :> Object("L" :> a @@ "P" :> a @@ "Q" :> b))}}
    \cup {"x" :> b, "L" :> a @@ "P" :> a}

Tokens == {"0", "1", "-", "k"}
MCPaths == {<<>>, <<"rev">>, <<"L">>, <<"x">>} \cup {<<"L", t>> : t \in Tokens}
             \cup {<<"L", t, u>> : t \in {"0", "k"}, u \in {"0", "-"}} \cup {<<"L", "k", "k">>, <<"L", "k", "P">>}
MCOperations ==
  {[op |-> o, path |-> p, value |-> b] : o \in {"set", "insert", "remove"}, p \in MCPaths}
    \cup {[op |-> "insert", path |-> <<"L", t>>, value |-> Array(<<a>>)] : t \in {"0", "-", "k"}}

MCObserved == {<<"L">>, <<"x">>} \cup {<<"L", t>> : t \in {"0", "1", "2", "k"}}
                \cup {<<"L", t, u>> : t \in {"0", "1", "k"}, u \in {"0", "k"}}
MCPatches ==
  {[op |-> "insert", path |-> p, index |-> i, value |-> b] :
     p \in {<<"L">>, <<"L", "0">>, <<"L", "k">>}, i \in 1..2}
  \cup {[op |-> o, path |-> p, value |-> b] :
          o \in {"set", "remove"}, p \in {<<"x">>, <<"L", "0">>, <<"L", "1">>, <<"L", "k">>, <<"L", "0", "k">>}}
MCProposals == {<<p>> : p \in MCPatches} \cup {<<p, q>> : p, q \in MCPatches}
=============================================================================

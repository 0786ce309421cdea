----------------------------- MODULE MCTopology -----------------------------
\* ResolvedModules with the modules TLC walks, normalises and plans.
EXTENDS ResolvedModules

CONSTANTS m1, m2, r1, r2

MCModule == {m1, m2}
MCRev == {r1, r2}

Linked(up, texts, pins) ==
  [explicit |-> Undefined, up |-> up, key |-> <<>>, texts |-> texts, pins |-> pins]
Node(explicit, up, key, texts) ==
  [explicit |-> explicit, up |-> up, key |-> key, texts |-> texts, pins |-> <<>>]
Root == Node(Undefined, 0, <<>>, <<>>)

After == <<"this", "after">>
Before == <<"this", "before">>
MCTexts == {<<>>, <<After>>, <<Before>>, <<<<"this", "before", "k1">>>>, <<<<"this", "after", "L">>>>,
            <<<<"this", "next">>, <<"this", "children">>>>}

\* Three children in an array, or in an object with a dotted property name.
Keyed == <<<<"k1">>, <<"k", "2">>, <<"k3">>>>
MCFlat ==
  {<<Root, Node(Undefined, 1, k[1], a), Node(Undefined, 1, k[2], b), Node(Undefined, 1, k[3], c)>> :
     k \in {<<<<>>, <<>>, <<>>>>, Keyed}, a \in MCTexts, b \in MCTexts, c \in MCTexts}

\* References the author gave: a name, and the pointers of the third and fourth.
MCNames == {Undefined, 101, 3, 4}
MCNamed ==
  {<<Root, Node(x, 1, <<>>, <<After>>), Node(y, 1, <<>>, <<>>), Node(z, 1, <<>>, <<Before>>)>> :
     x \in MCNames, y \in MCNames, z \in MCNames}

\* Two children, the first with two of its own; selectors of two layers, of the
\* dotted name, and one that is none.
MCInner == {<<>>, <<After, <<"this", "stranger">>>>, <<<<"this", "after", "L", "M">>>>,
            <<<<"this", "before", "k", "2">>>>}
MCNested ==
  {<<Root, Node(Undefined, 1, <<"k1">>, a), Node(Undefined, 2, <<"k1">>, c), Node(Undefined, 2, <<"k", "2">>, d),
     Node(Undefined, 1, <<"k", "2">>, b)>> : a \in MCInner, b \in MCInner, c \in MCInner, d \in MCInner}

\* Names that are the pointer of a later node, below a container or of the root.
MCClashing ==
  {<<Node(x, 0, <<>>, <<>>), Node(y, 1, <<"k1">>, <<<<"this", "before", "k2">>>>), Node(Undefined, 1, <<"k2">>, a),
     Node(Undefined, 1, <<"k3">>, b), Node(Undefined, 4, <<"k2">>, <<<<"this", "after", "k1">>>>),
     Node(Undefined, 4, <<"k4">>, <<>>)>> :
     x \in {Undefined, 4, 6}, y \in {Undefined, 3, 4, 5},
     a \in {<<>>, <<<<"this", "after", "k3">>>>}, b \in {<<>>, <<<<"this", "before", "k2">>>>}}

\* Modules with references, in the root, in a child, or in both.
MCAnswers ==
  {<<Root>>, <<Linked(0, <<>>, <<r1>>)>>,
   <<Linked(0, <<>>, <<None>>), Linked(1, <<After>>, <<r2>>), Linked(1, <<>>, <<>>)>>}
MCDocuments == {<<>>, <<r1>>, <<None, r2>>}

MCNoFam == <<>>
MCRoots == MCFlat \cup MCNamed \cup MCNested \cup MCClashing \cup MCAnswers \cup {MCNoFam}
=============================================================================

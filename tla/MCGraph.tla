------------------------------- MODULE MCGraph -------------------------------
(***************************************************************************)
(* GraphProjection on small documents: first a short one, whose nodes have *)
(* to be cleared, then one of                                              *)
(*   - three units with every set of at most three relations,              *)
(*   - four units with all the ways to go round inside a container,        *)
(*   - three units with every order of a few and one or two gates.         *)
(***************************************************************************)
EXTENDS GraphProjection, FiniteSetsExt

U(i) == DefaultRef(i)
Plain == [ref |-> Unset, order |-> Unset]
Document(units, relations) == [units |-> units, relations |-> relations, selected |-> TRUE]
Ungated(document) == [document |-> document, gates |-> <<>>, facts |-> <<>>]

\* Units two and three in the order of the document, the other way round, and one
\* with a reference of its own, which may be that of another.
UnitLists ==
  {<<Plain, Plain, Plain>>,
   <<[ref |-> Unset, order |-> <<2>>], [ref |-> Unset, order |-> <<1>>], Plain>>,
   <<[ref |-> U(2), order |-> Unset], Plain, Plain>>}

RelationsOn(n, kinds) == [from : {U(i) : i \in 1..n}, to : {U(i) : i \in 1..n}, kind : kinds]
Kinds == {"parent-child", "dependency"}

ThreeUnits ==
  {Ungated(Document(units, relations)) :
     units \in UnitLists,
     relations \in UNION {kSubset(k, {r \in RelationsOn(3, Kinds) : r.from # r.to}) : k \in 0..3}
                     \cup kSubset(1, RelationsOn(3, {"dependency"}))}

In(i, j) == [from |-> U(i), to |-> U(j), kind |-> "parent-child"]
FourUnits ==
  {Ungated(Document(<<Plain, Plain, Plain, Plain>>, {In(1, 2), In(1, 3), In(2, 4)} \cup relations)) :
     relations \in UNION {kSubset(k, {r \in RelationsOn(4, {"dependency"}) : r.from # r.to}) : k \in 0..2}}

NotSelected == {[d EXCEPT !.document.selected = FALSE] : d \in {e \in ThreeUnits : Cardinality(e.document.relations) = 2}}

Orders == {<<Unset, Unset, Unset>>, <<<<2>>, <<0>>, <<1>>>>, <<<<0>>, <<0>>, <<1>>>>, <<<<5>>, Unset, Unset>>}
Gates == [source : 0..1, active : {{1}, {2}, {1, 2}, {3}}, fallback : {{}, {0}, {2}}]
Facts == UNION {[sources -> {"met", "unmet", "elsewhere"}] : sources \in SUBSET (0..1)}
Gated ==
  {[document |-> Document([i \in 1..3 |-> [ref |-> Unset, order |-> orders[i]]], {}),
    gates |-> gates, facts |-> facts] :
     orders \in Orders, facts \in Facts,
     gates \in {<<g>> : g \in Gates}
                 \cup {<<g, h>> : g \in {f \in Gates : f.source = 0 /\ f.active = {1}},
                                  h \in {f \in Gates : f.source = 1}}}

First == {Ungated(Document(<<Plain, Plain>>, {In(2, 1)}))}

Later == ThreeUnits \cup FourUnits \cup NotSelected \cup Gated
=============================================================================

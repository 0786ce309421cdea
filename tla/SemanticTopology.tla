--------------------------- MODULE SemanticTopology ---------------------------
(***************************************************************************)
(* What a decomposition says of its units: their identities and their      *)
(* order (fam-core unit-identity.ts), the relations of the branch that the *)
(* access map selects (access-map.ts), and the containment that these      *)
(* relations spell out (playground core-graph.ts).                         *)
(*                                                                         *)
(* A document is [units, relations, selected]: a sequence of [ref, order], *)
(* each Unset where the provider left it out; a set of [from, to, kind];   *)
(* and whether its branch is the one selected.  Kinds other than           *)
(* "parent-child" are not told apart, nor are the axes L and mL.           *)
(***************************************************************************)
EXTENDS Integers, Sequences, FiniteSets

Unset == <<>>
Root == <<"root">>  \* the boundary around all units; no unit has this reference

----------------------------------------------------------------------------
\* stampDecompositionUnitIdentity: what is missing is made up from the position.

DefaultRef(i) == <<"unit", i>>

Stamped(units) ==
  [i \in DOMAIN units |->
     [ref   |-> IF units[i].ref = Unset THEN DefaultRef(i) ELSE units[i].ref,
      order |-> IF units[i].order = Unset THEN <<i - 1>> ELSE units[i].order]]

\* projectDecompositionUnits: a reference given twice is refused (a made-up one
\* may meet one that was given); the units are sorted by their order, stably.
DistinctRefs(units) ==
  \A i, j \in DOMAIN units : units[i].ref = units[j].ref => i = j

SortedBy(units, Before(_, _)) ==
  LET place == [i \in DOMAIN units |->
                  Cardinality({j \in DOMAIN units :
                    Before(units[j], units[i]) \/ (~Before(units[i], units[j]) /\ j <= i)})]
  IN  [k \in DOMAIN units |-> units[CHOOSE i \in DOMAIN units : place[i] = k]]

EarlierOrder(u, v) == u.order[1] < v.order[1]
Projected(units) == SortedBy(units, EarlierOrder)

RefsOf(units) == {units[i].ref : i \in DOMAIN units}

----------------------------------------------------------------------------
\* readSemanticTopologyBranch

Containing(relations) == {r \in relations : r.kind = "parent-child"}
Pairs(relations) == {<<r.from, r.to>> : r \in relations}

\* assertAcyclic and semanticLevels: no units that all lead on to one another.
Acyclic(pairs) ==
  \A S \in SUBSET {p[1] : p \in pairs} :
    S # {} => \E x \in S : \A p \in pairs : p[1] = x => p[2] \notin S

Readable(refs, relations) ==
  /\ \A r \in relations : {r.from, r.to} \subseteq refs /\ r.from # r.to
  /\ \A a, b \in Containing(relations) : a.to = b.to => a.from = b.from
  /\ Acyclic(Pairs(relations))

\* projectSemanticTopology: what is not selected was read all the same.
Selected(document) == IF document.selected THEN document.relations ELSE {}

----------------------------------------------------------------------------
\* semanticContainment

ParentOf(ref, relations) ==
  LET parents == {r.from : r \in {c \in Containing(relations) : c.to = ref}}
  IN  IF parents = {} THEN Root ELSE CHOOSE p \in parents : TRUE

ChildrenOf(boundary, refs, relations) == {c \in refs : ParentOf(c, relations) = boundary}

\* A unit and the units around it, and so its depth.
Enclosing(refs, relations) ==
  LET up[r \in refs] == LET p == ParentOf(r, relations)
                        IN  {r} \cup (IF p = Root THEN {} ELSE up[p])
  IN  up

\* directChildUnderBoundary, as a set of one or none.  The mutant does not climb.
DirectChildItself(ref, boundary, up, relations) ==
  {r \in {ref} : ParentOf(r, relations) = boundary}
DirectChild(ref, boundary, up, relations) ==
  {a \in up[ref] : ParentOf(a, relations) = boundary}

\* boundaryRelations: the relations as they look from a boundary, between its
\* direct children.  The mutant keeps those that stay within one child.
LiftedWithLoops(boundary, refs, relations) ==
  LET up == Enclosing(refs, relations)
  IN  UNION {DirectChild(r.from, boundary, up, relations) \X DirectChild(r.to, boundary, up, relations)
               : r \in relations \ Containing(relations)}
Lifted(boundary, refs, relations) ==
  LET up == Enclosing(refs, relations)
  IN  {p \in UNION {DirectChild(r.from, boundary, up, relations) \X DirectChild(r.to, boundary, up, relations)
                      : r \in relations \ Containing(relations)} : p[1] # p[2]}
==============================================================================

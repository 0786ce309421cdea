----------------------------- MODULE FamTopology -----------------------------
(***************************************************************************)
(* packages/core/src/topology.ts: a FAM module is normalised into nodes    *)
(* and edges, and a selector is resolved against them.                     *)
(*                                                                         *)
(* A FAM module is the sequence of its nodes in the order visit meets      *)
(* them, each with                                                         *)
(*   explicit  Q.node_ref or Q.unit_ref, Undefined without one             *)
(*   up        the place of its parent in the sequence, 0 for the root     *)
(*   key       its property name in the parent's gradient, <<>> in an      *)
(*             array or where it is the gradient itself                    *)
(*   texts     the strings in its own axes, nested nodes excluded          *)
(*   pins      of each fam_ref in them, the revision_ref beside it, if any *)
(* A module whose value is no FAM has no nodes.                            *)
(* A string is the sequence of its parts between dots, so a property name  *)
(* "a.b" is <<"a", "b">>, what the qualifiers of a selector join to.  The  *)
(* reference a node's pointer gives it is its place in the sequence; names *)
(* an author gives are numbers too, and may be somebody's pointer.         *)
(***************************************************************************)
EXTENDS Integers, Sequences, SequencesExt, FiniteSets

CONSTANT Undefined

Traversals == {"parent", "children", "siblings", "prev", "next", "before", "after"}
Directional == {"prev", "next", "before", "after"}
Forward == {"next", "after"}
ASSUME UndefinedAssumption == Undefined \notin Traversals

\* What comes out of a module: parents before their children.
IsFam(fam) ==
  /\ fam \in Seq(ToSet(fam))
  /\ \A i \in DOMAIN fam :
       /\ fam[i].up \in 0..(i - 1)
       /\ \A t \in ToSet(fam[i].texts) : t \in Seq(ToSet(t))

EdgeKind(traversal) == IF traversal \in {"prev", "next"} THEN "structural" ELSE "runtime"

----------------------------------------------------------------------------
\* Selectors

LooksLikeSelector(text) == text # <<>> /\ Head(text) \in {"self", "this"}

\* parseFamSelector
ParseFamSelector(text) ==
  LET bare == [base |-> text[1], traversal |-> Undefined, qualifiers |-> <<>>] IN
  IF ~LooksLikeSelector(text) \/ "" \in ToSet(text) THEN Undefined
  ELSE IF Len(text) = 1 THEN bare
  ELSE IF text[1] = "self" \/ text[2] \notin Traversals THEN Undefined
  ELSE [bare EXCEPT !.traversal = text[2], !.qualifiers = SubSeq(text, 3, Len(text))]

----------------------------------------------------------------------------
\* Nodes

\* The references of the nodes in order.  A name that is taken, also by a
\* pointer, falls back to the pointer, which is not looked up again.
RefOf(seen, explicit, place) ==
  IF explicit = Undefined \/ explicit \in seen THEN place ELSE explicit

NodeRefs(fam) ==
  LET refs[i \in DOMAIN fam] == RefOf({refs[j] : j \in 1..(i - 1)}, fam[i].explicit, i)
  IN  refs

Seen(refs, place) == {refs[j] : j \in 1..(place - 1)}

\* Mutant: a pointer is not looked up among the names.
DuplicateNames(fam, refs) ==
  {i \in DOMAIN fam : fam[i].explicit \in Seen(refs, i)}
DuplicateNodeRefs(fam, refs) ==
  {i \in DOMAIN fam :
     (IF fam[i].explicit = Undefined THEN i ELSE fam[i].explicit) \in Seen(refs, i)}

\* collectModuleReferences, as visit meets them: the node and the revision asked for.
ModuleReferences(fam) ==
  LET refs == NodeRefs(fam) IN
  FlattenSeq([i \in DOMAIN fam |-> [k \in DOMAIN fam[i].pins |->
                [nodeRef |-> refs[i], pin |-> fam[i].pins[k]]]])

\* directChildren, by their places; their order is that of the places.
Children(fam, i) == {j \in DOMAIN fam : fam[j].up = i}

TopologyNodes(fam, refs) ==
  [i \in DOMAIN fam |->
     [nodeRef   |-> refs[i],
      parentRef |-> IF fam[i].up = 0 THEN Undefined ELSE refs[fam[i].up],
      childRefs |-> [j \in Children(fam, i) |-> refs[j]],
      key       |-> fam[i].key]]

\* byRef, where the last of two nodes with one reference wins, and
\* nodes.find, where the first does.
ByRef(nodes, ref) == nodes[CHOOSE i \in DOMAIN nodes :
  nodes[i].nodeRef = ref /\ \A j \in DOMAIN nodes : nodes[j].nodeRef = ref => j <= i]
Find(nodes, ref) == nodes[CHOOSE i \in DOMAIN nodes :
  nodes[i].nodeRef = ref /\ \A j \in DOMAIN nodes : nodes[j].nodeRef = ref => i <= j]

----------------------------------------------------------------------------
\* Edges

\* resolveDeclaredDirectionalTarget: the sibling whose property name is the
\* qualifier, else the neighbour.
Beside(places, place, traversal) ==
  {p \in places : IF traversal \in Forward THEN place < p /\ \A q \in places : q <= place \/ p <= q
                  ELSE p < place /\ \A q \in places : place <= q \/ q <= p}

DeclaredTarget(nodes, source, selector) ==
  LET siblings == IF source.parentRef = Undefined THEN <<>>
                  ELSE ByRef(nodes, source.parentRef).childRefs
      addressed == {k \in DOMAIN siblings : ByRef(nodes, siblings[k]).key = selector.qualifiers}
      places == {k \in DOMAIN siblings : siblings[k] = source.nodeRef}
      first(S) == CHOOSE k \in S : \A l \in S : k <= l
      neighbours == Beside(DOMAIN siblings, first(places), selector.traversal)
  IN  IF selector.qualifiers # <<>> /\ addressed # {} THEN siblings[first(addressed)]
      ELSE IF places # {} /\ neighbours # {} THEN siblings[first(neighbours)]
      ELSE Undefined

\* The edge a declaration stands for: forwards from its node, backwards to it,
\* with the qualifiers as layers unless they name the target.
DeclaredEdge(nodes, source, selector, target) ==
  LET ahead == selector.traversal \in Forward
      named == selector.qualifiers # <<>> /\ ByRef(nodes, target).key = selector.qualifiers
  IN  [kind |-> EdgeKind(selector.traversal),
       from |-> IF ahead THEN source.nodeRef ELSE target,
       to   |-> IF ahead THEN target ELSE source.nodeRef,
       layerRefs |-> IF named THEN {} ELSE ToSet(selector.qualifiers)]

\* addEdge keeps one edge per kind and pair of nodes, with the layers of all.
Merged(edges) ==
  {[e EXCEPT !.layerRefs =
      UNION {f.layerRefs : f \in {g \in edges : <<g.kind, g.from, g.to>> = <<e.kind, e.from, e.to>>}}] :
     e \in edges}

\* normalizeFamTopology.  An unresolved selector is an issue and no edge.
NormalizeFamTopology(fam) ==
  LET refs == NodeRefs(fam)
      nodes == TopologyNodes(fam, refs)
      contained == UNION {{[kind |-> "containment", from |-> n.nodeRef, to |-> c, layerRefs |-> {}] :
                             c \in ToSet(n.childRefs)} : n \in ToSet(nodes)}
      texts == UNION {{<<refs[i], t>> : t \in ToSet(fam[i].texts)} : i \in DOMAIN fam}
      selectors == {[nodeRef |-> d[1], text |-> d[2], selector |-> ParseFamSelector(d[2])] :
                      d \in {t \in texts : LooksLikeSelector(t[2])
                                           /\ ParseFamSelector(t[2]) # Undefined}}
      directional == {d \in selectors : d.selector.traversal \in Directional}
      target(d) == DeclaredTarget(nodes, ByRef(nodes, d.nodeRef), d.selector)
      declared == {d \in directional : target(d) # Undefined}
  IN  [nodes |-> nodes,
       edges |-> Merged(contained \cup
                   {DeclaredEdge(nodes, ByRef(nodes, d.nodeRef), d.selector, target(d)) : d \in declared}),
       selectors |-> selectors,
       moduleReferences |-> ModuleReferences(fam),
       issues |-> (IF fam = <<>> THEN {<<"fam-node-root-required", 0>>} ELSE {})
             \cup {<<"duplicate-node-ref", i>> : i \in DuplicateNodeRefs(fam, refs)}
             \cup {<<"invalid-selector", t>> : t \in {u \in texts : LooksLikeSelector(u[2])
                                                               /\ ParseFamSelector(u[2]) = Undefined}}
             \cup {<<"unresolved-selector", <<d.nodeRef, d.text>>>> : d \in directional \ declared}]

RootRef(topology) == IF topology.nodes = <<>> THEN Undefined ELSE topology.nodes[1].nodeRef

----------------------------------------------------------------------------
\* resolveTopologySelector: what a selector finds from a node of the topology.

Incoming(topology, ref, kind) == {e.from : e \in {f \in topology.edges : f.kind = kind /\ f.to = ref}}
Outgoing(topology, ref, kind) == {e.to : e \in {f \in topology.edges : f.kind = kind /\ f.from = ref}}

Reached(topology, current, traversal) ==
  CASE traversal = "parent" -> {current.parentRef} \ {Undefined}
    [] traversal = "children" -> ToSet(current.childRefs)
    [] traversal = "siblings" ->
         IF current.parentRef = Undefined THEN {}
         ELSE ToSet(ByRef(topology.nodes, current.parentRef).childRefs) \ {current.nodeRef}
    [] traversal \in {"prev", "before"} ->
         Incoming(topology, current.nodeRef, EdgeKind(traversal))
    [] traversal \in {"next", "after"} ->
         Outgoing(topology, current.nodeRef, EdgeKind(traversal))

\* edgeMatchesQualifiedTraversal: a layer is one part of a name.
OnLayer(topology, currentRef, candidate, selector) ==
  \E e \in topology.edges :
    /\ e.kind = EdgeKind(selector.traversal)
    /\ \E layer \in e.layerRefs : selector.qualifiers = <<layer>>
    /\ <<e.from, e.to>> = IF selector.traversal \in Forward
                            THEN <<currentRef, candidate>> ELSE <<candidate, currentRef>>

\* The references a selector other than self resolves to, {} when unresolved.
ResolveTopologySelector(topology, currentRef, text) ==
  LET selector == ParseFamSelector(text)
      current == Find(topology.nodes, currentRef)
      candidates == Reached(topology, current, selector.traversal)
      addressed == {r \in candidates : Find(topology.nodes, r).key = selector.qualifiers}
  IN  IF currentRef \notin {n.nodeRef : n \in ToSet(topology.nodes)} THEN {}
      ELSE IF selector.traversal = Undefined THEN {currentRef}
      ELSE IF selector.qualifiers = <<>> THEN candidates
      ELSE IF addressed # {} THEN addressed
      ELSE {r \in candidates : OnLayer(topology, currentRef, r, selector)}

----------------------------------------------------------------------------
\* topology-projection.ts: only runtime edges between nodes below the root
\* become dependencies of the runner.  The mutant takes every edge for one.

AnyEdge(topology) == topology.edges
RunnerEdges(topology) ==
  {e \in topology.edges : e.kind = "runtime" /\ RootRef(topology) \notin {e.from, e.to}}

\* The children of the runner, at the places of their nodes.
ProjectTopologyForRunner(topology, status) ==
  LET below == {i \in DOMAIN topology.nodes : topology.nodes[i].nodeRef # RootRef(topology)}
      Ref(i) == topology.nodes[i].nodeRef
  IN  [i \in below |->
         [childRef  |-> Ref(i),
          dependsOn |-> {e.from : e \in {f \in RunnerEdges(topology) : f.to = Ref(i)}},
          status    |-> status[Ref(i)]]]
=============================================================================

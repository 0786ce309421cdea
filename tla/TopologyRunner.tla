--------------------------- MODULE TopologyRunner ---------------------------
(***************************************************************************)
(* A runner between FamTopology and FoldPlanner: the topology of a module, *)
(* its projection to the children of the runner, and the plan of these,    *)
(* made again after each child that settles.                               *)
(***************************************************************************)
EXTENDS FamTopology, FoldPlanner

VARIABLE topology \* Undefined until a module is planned

Ready(t) == [r \in {n.nodeRef : n \in ToSet(t.nodes)} |-> "ready"]

\* No plan yet.
RunnerInit ==
  /\ topology = Undefined /\ parent = "resolved" /\ children = <<>>
  /\ phase = "planned" /\ schedulable = {} /\ available = {} /\ waves = <<>> /\ blocked = {}

Begin(fam, context) ==
  /\ topology' = NormalizeFamTopology(fam)
  /\ CallAgain(context, ProjectTopologyForRunner(topology', Ready(topology')))

RunnerNext == topology # Undefined /\ PlanNext /\ UNCHANGED topology

----------------------------------------------------------------------------
Nodes == {n.nodeRef : n \in ToSet(topology.nodes)}

\* No two nodes share a reference.
OneRefEach ==
  \A i, j \in DOMAIN topology.nodes :
    topology.nodes[i].nodeRef = topology.nodes[j].nodeRef => i = j

\* A child waits for another exactly where a node declares before or after, and
\* the selector, asked again of the topology, still finds that node: array
\* order, containment and prev/next make no run wait.  Exempt are qualifiers of
\* several layers, which the resolver takes for one name, and topologies in which
\* two nodes share a reference (normalising takes the last of them, resolving the
\* first).
Declared(from, to) ==
  \E d \in topology.selectors :
    LET finds(here, there) ==
          \/ there \in ResolveTopologySelector(topology, here, d.text)
          \/ Len(d.selector.qualifiers) > 1
    IN  \/ d.nodeRef = from /\ d.selector.traversal = "after" /\ finds(from, to)
        \/ d.nodeRef = to /\ d.selector.traversal = "before" /\ finds(to, from)

DependenciesAreDeclared ==
  topology # Undefined /\ phase = "given" /\ OneRefEach =>
    \A i \in DOMAIN children, from \in Nodes \ {RootRef(topology)} :
      LET to == children[i].childRef IN
      /\ from \in children[i].dependsOn => Declared(from, to)
      /\ \A d \in topology.selectors :
           d.nodeRef = from /\ d.selector.traversal = "after"
             /\ to \in ResolveTopologySelector(topology, from, d.text)
           => from \in children[i].dependsOn

\* Two nodes never share a reference in silence, and a plan is refused only
\* for such a pair, though a pointer taken for a name is not looked up again.
DuplicatesAreReported ==
  topology # Undefined =>
  /\ ~OneRefEach => \E x \in topology.issues : x[1] = "duplicate-node-ref"
  /\ phase = "refused" => ~OneRefEach
=============================================================================

---------------------------- MODULE GraphProjection ----------------------------
(***************************************************************************)
(* apps/playground/src/host/core-graph.ts: projectDecompositionGraph draws *)
(* a decomposition into the root boundary of the session, one dispatch     *)
(* after the other; App.tsx then reads the result off it.  The same        *)
(* drawing, around a unit in place of the root boundary, is done by        *)
(* projectRecursiveDecompositionGraph.                                     *)
(*                                                                         *)
(* A drawing removes what the last one added, reads the document (which    *)
(* may throw), adds a node per unit, gives each node its place, connects   *)
(* boundary after boundary.  Node ids are numbers; 0 is the boundary node. *)
(* The decision port accepts what is asked of it here: every unit node and *)
(* every boundary has inputs of cardinality "many".  Sizes and positions   *)
(* are left out.                                                           *)
(***************************************************************************)
EXTENDS SemanticTopology, CausalProjection, SequencesExt

CONSTANTS    \* what the gateway may answer, [document, gates, facts]: two executions are
  FirstAnswers, LaterAnswers  \* enough to draw over what has been drawn

\* A decomposition lists its units, an access map its gates; an order that is given
\* is a number, and so are those that gates and facts speak of.
ASSUME AnswersAssumption ==
  \A answer \in FirstAnswers \cup LaterAnswers :
    LET units == answer.document.units
        gates == answer.gates IN
    /\ {"units", "relations", "selected"} \subseteq DOMAIN answer.document
    /\ units \in Seq(Range(units)) /\ gates \in Seq(Range(gates))
    /\ DOMAIN answer.facts \subseteq Int
    /\ \A k \in DOMAIN gates : gates[k].active \cup gates[k].fallback \subseteq Int
    /\ \A i \in DOMAIN units :
         units[i].ref # Root /\ (units[i].order # Unset => units[i].order[1] \in Int)

VARIABLES
  turn,      \* executions begun
  phase,     \* "idle", "clearing", "adding", "placing", "wiring", "reading", "failed"
  given,     \* what the gateway answered last, with the receipt of its validation
  nodes,     \* the unit nodes of the session in their order, [id, ref, parent, depth]
  wires,     \* connections between nodes, <<from, to>>
  gradients, \* the ids the last drawing returned, none yet or none left are 0
  todo,      \* references that the phase has still to deal with, in order
  lastId,
  result     \* what the result pane is given, [stale, text]

vars == <<turn, phase, given, nodes, wires, gradients, todo, lastId, result>>

BoundaryNode == 0
NoParent == -1 \* of a node that has been added and not placed
NoResult == [stale |-> FALSE, text |-> <<>>]

Units == Projected(given.document.units)
Refs == RefsOf(given.document.units)
Relations == Selected(given.document)
Children(boundary) == ChildrenOf(boundary, Refs, Relations)
Around(ref) == Enclosing(Refs, Relations)[ref]
Depth(ref) == Cardinality(Around(ref))

Ids == {nodes[i].id : i \in DOMAIN nodes}
Node(id) == nodes[CHOOSE i \in DOMAIN nodes : nodes[i].id = id]
NodeOf(ref) ==
  IF ref = Root THEN BoundaryNode
  ELSE nodes[CHOOSE i \in DOMAIN nodes : nodes[i].ref = ref /\ nodes[i].id \in Range(gradients)].id

----------------------------------------------------------------------------
Init ==
  /\ turn = 0 /\ phase = "idle" /\ given = <<>>
  /\ nodes = <<>> /\ wires = {} /\ gradients = <<>> /\ todo = <<>>
  /\ lastId = 0 /\ result = NoResult

\* The gateway's post-validation.  It only leaves a receipt: a candidate that the
\* profile does not accept is answered all the same.
PostValidation(units, relations) ==
  IF DistinctRefs(units) /\ Readable(RefsOf(units), relations) THEN "accepted" ELSE "rejected"

\* execute(): the answer of the gateway.  The button that asks for it stays
\* disabled after a failure, as execute clears running at its end only.
Execute(answer) ==
  LET units == Stamped(answer.document.units) IN
  /\ phase = "idle"
  /\ turn' = turn + 1
  /\ given' = [document |-> [answer.document EXCEPT !.units = units],
               gates    |-> answer.gates,
               facts    |-> answer.facts,
               receipt  |-> PostValidation(units, answer.document.relations)]
  /\ phase' = "clearing"
  /\ UNCHANGED <<nodes, wires, gradients, todo, lastId, result>>

\* The deepest node of the last drawing goes first, and its connections with it.
Clear ==
  LET left == {g \in Range(gradients) : g \in Ids}
      deepest == {g \in left : \A h \in left : Node(h).depth <= Node(g).depth}
      gone == CHOOSE g \in deepest : \A h \in deepest : g <= h IN
  /\ phase = "clearing" /\ left # {}
  /\ nodes' = RemoveAt(nodes, CHOOSE i \in DOMAIN nodes : nodes[i].id = gone)
  /\ wires' = {w \in wires : gone \notin {w[1], w[2]}}
  /\ UNCHANGED <<turn, phase, given, gradients, todo, lastId, result>>

Cleared == phase = "clearing" /\ Range(gradients) \cap Ids = {}

\* The order in which units are added: what contains comes before what it
\* contains.  The mutant adds them in the order of the document.
DocumentOrder == Units
AddingOrder ==
  LET up == Enclosing(Refs, Relations)
  IN  SortedBy(Units, LAMBDA u, v : Cardinality(up[u.ref]) < Cardinality(up[v.ref]))

InAddingOrder == LET order == AddingOrder IN [k \in DOMAIN order |-> order[k].ref]

\* boundaryLayout of the root: its levels go round in a circle.
CircleAtRoot == ~Acyclic(Lifted(Root, Refs, Relations))

Drawable ==
  DistinctRefs(Units) /\ Readable(Refs, given.document.relations) /\ ~CircleAtRoot

ReadDocument ==
  /\ Cleared /\ Drawable
  /\ todo' = InAddingOrder
  /\ gradients' = <<>>
  /\ phase' = "adding"
  /\ UNCHANGED <<turn, given, nodes, wires, lastId, result>>

\* It throws; the ids of the nodes that are gone stay behind.
DocumentThrows ==
  /\ Cleared /\ ~Drawable
  /\ phase' = "failed"
  /\ UNCHANGED <<turn, given, nodes, wires, gradients, todo, lastId, result>>

\* One dispatch per unit; from the last one on the same units are gone through
\* once more, to be placed.
AddUnit ==
  /\ phase = "adding" /\ todo # <<>>
  /\ lastId' = lastId + 1
  /\ nodes' = Append(nodes, [id |-> lastId', ref |-> Head(todo), parent |-> NoParent, depth |-> 0])
  /\ gradients' = Append(gradients, lastId')
  /\ todo' = Tail(todo)
  /\ UNCHANGED <<turn, phase, given, wires, result>>

AllAdded ==
  /\ phase = "adding" /\ todo = <<>>
  /\ todo' = InAddingOrder
  /\ phase' = "placing"
  /\ UNCHANGED <<turn, given, nodes, wires, gradients, lastId, result>>

PlaceUnit ==
  LET ref == Head(todo) IN
  /\ phase = "placing" /\ todo # <<>>
  /\ nodes' = [i \in DOMAIN nodes |->
                 IF nodes[i].id = NodeOf(ref)
                   THEN [nodes[i] EXCEPT !.parent = NodeOf(ParentOf(ref, Relations)),
                                         !.depth = Depth(ref)]
                   ELSE nodes[i]]
  /\ todo' = Tail(todo)
  /\ UNCHANGED <<turn, phase, given, wires, gradients, lastId, result>>

AllPlaced ==
  /\ phase = "placing" /\ todo = <<>>
  /\ todo' = <<Root>> \o SetToSeq({r.from : r \in Containing(Relations)})
  /\ phase' = "wiring"
  /\ UNCHANGED <<turn, given, nodes, wires, gradients, lastId, result>>

\* connectBoundaryGraph: the relations between the children; what nothing leads
\* to hangs on the entrance, what leads nowhere on the return.  The mutant takes
\* every child for one that something leads to.
EntranceForNone(boundary) == {}
Entrance(boundary) == Children(boundary) \ {p[2] : p \in Lifted(boundary, Refs, Relations)}
Return(boundary) == Children(boundary) \ {p[1] : p \in Lifted(boundary, Refs, Relations)}

ConnectBoundary ==
  LET boundary == Head(todo)
      around == NodeOf(boundary) IN
  /\ phase = "wiring" /\ todo # <<>>
  /\ wires' = wires
       \cup {<<NodeOf(p[1]), NodeOf(p[2])>> : p \in Lifted(boundary, Refs, Relations)}
       \cup {<<around, NodeOf(c)>> : c \in Entrance(boundary)}
       \cup {<<NodeOf(c), around>> : c \in Return(boundary)}
  /\ todo' = Tail(todo)
  /\ UNCHANGED <<turn, phase, given, nodes, gradients, lastId, result>>

AllConnected ==
  /\ phase = "wiring" /\ todo = <<>>
  /\ phase' = "reading"
  /\ UNCHANGED <<turn, given, nodes, wires, gradients, todo, lastId, result>>

\* App.tsx hands the result pane the units that reprojectWithAccessMap reads.
ReadResult ==
  /\ phase = "reading" /\ NamesUnits(Units, given.gates, given.facts)
  /\ result' = Reprojection(Units, given.document.units, given.gates, given.facts)
  /\ phase' = "idle"
  /\ UNCHANGED <<turn, given, nodes, wires, gradients, todo, lastId>>

ResultThrows ==
  /\ phase = "reading" /\ ~NamesUnits(Units, given.gates, given.facts)
  /\ phase' = "failed"
  /\ UNCHANGED <<turn, given, nodes, wires, gradients, todo, lastId, result>>

Draw ==
  \/ Clear \/ ReadDocument \/ DocumentThrows
  \/ AddUnit \/ AllAdded \/ PlaceUnit \/ AllPlaced
  \/ ConnectBoundary \/ AllConnected
  \/ ReadResult \/ ResultThrows

Next ==
  \/ Draw
  \/ turn = 0 /\ \E answer \in FirstAnswers : Execute(answer)
  \/ turn = 1 /\ \E answer \in LaterAnswers : Execute(answer)

Spec == Init /\ [][Next]_vars

----------------------------------------------------------------------------
\* A canvas must be given a node before the nodes inside it: whatever the order
\* of the units in the document, a node that has its place comes after the node
\* it lies in, at every moment a listener of the session may look.
ParentsComeFirst ==
  \A i \in DOMAIN nodes : nodes[i].parent > BoundaryNode =>
    \E j \in 1..(i - 1) : nodes[j].id = nodes[i].parent /\ nodes[j].depth = nodes[i].depth - 1

Drawn == phase = "idle" /\ turn > 0

\* What a drawing connects stays inside one boundary, and inside it every child
\* is on a way from the entrance to the return: who starts at either and goes on
\* until nothing new is met has met all children - unless the relations, seen from
\* that boundary, go round in a circle, which only the root is checked for.
EveryChildIsOnAWay ==
  Drawn => \A boundary \in {Root} \cup {r.from : r \in Containing(Relations)} :
    LET around == NodeOf(boundary)
        inside == {nodes[i].id : i \in {j \in DOMAIN nodes : nodes[j].parent = around}}
        within == {w \in wires : w[1] \in inside /\ w[2] \in inside}
        Onward(S) == {w[2] : w \in {v \in wires : v[1] \in S \cup {around}}} \cap inside
        Back(S) == {w[1] : w \in {v \in wires : v[2] \in S \cup {around}}} \cap inside
    IN  \/ \A met \in SUBSET inside :
             Onward(met) \subseteq met \/ Back(met) \subseteq met => met = inside
        \/ boundary # Root /\ ~Acyclic(within)

\* Every relation of the selected branch is seen on the canvas: as containment,
\* or as a connection between the two units of one boundary that hold its ends.
\* A relation between a unit and one around it has no such units.
EveryRelationIsDrawn ==
  Drawn => \A r \in Relations :
    IF r.kind = "parent-child" THEN Node(NodeOf(r.to)).parent = NodeOf(r.from)
    ELSE \/ r.from \in Around(r.to) \/ r.to \in Around(r.from)
         \/ \E w \in wires :
              /\ w[1] \in {NodeOf(a) : a \in Around(r.from) \ Around(r.to)}
              /\ w[2] \in {NodeOf(a) : a \in Around(r.to) \ Around(r.from)}
              /\ Node(w[1]).parent = Node(w[2]).parent

\* A decomposition that passed the gateway's post-validation is drawn, unless
\* relations both enter and leave a unit that contains others - or the access
\* map numbers more units than there are.  (What failed keeps execute running.)
AcceptedIsDrawn ==
  phase = "failed" /\ given.receipt = "accepted" =>
    \/ ~NamesUnits(Units, given.gates, given.facts)
    \/ \E u \in Refs :
         LET within == {x \in Refs : u \in Around(x)} IN
         /\ \E r \in Relations : r.from \notin within /\ r.to \in within \ {u}
         /\ \E r \in Relations : r.from \in within /\ r.to \notin within

\* The result leaves out a unit only for a gate: it holds, each at its place, the
\* units that no gate names and those of the side that each gate takes, and nothing
\* at all if a gate cannot take a side.  (Stated for orders 0, 1, 2 ... and units
\* that one gate names: the access map numbers places, the nodes carry orders,
\* and of two gates only the last one counts.)
TheResultFollowsTheGates ==
  LET asked == Applicable(given.gates, given.facts)
      Number(i) == Units[i].order[1]
      taken == [k \in DOMAIN asked |->
                  IF given.facts[asked[k].source] = "met" THEN asked[k].active
                  ELSE IF given.facts[asked[k].source] = "unmet" THEN asked[k].fallback ELSE {}]
      left == {i \in DOMAIN Units : \E k \in DOMAIN asked :
                 Number(i) \in (asked[k].active \cup asked[k].fallback) \ taken[k]}
      plain == /\ \A i \in DOMAIN Units : Number(i) = i - 1
               /\ \A k, l \in DOMAIN asked : k # l =>
                    (asked[k].active \cup asked[k].fallback)
                      \cap (asked[l].active \cup asked[l].fallback) = {}
      decided == \A k \in DOMAIN asked : given.facts[asked[k].source] = "met" \/ taken[k] # {}
  IN  Drawn /\ asked # <<>> /\ plain =>
        /\ result.stale = ~decided
        /\ DOMAIN result.text = IF decided THEN DOMAIN Units \ left ELSE {}
        /\ \A i \in DOMAIN result.text : result.text[i] = Units[i].ref
==============================================================================

-------------------------- MODULE PresentationSession --------------------------
(***************************************************************************)
(* packages/ui-core: the nodes, connections, layout and selection of the   *)
(* PresentationSession (session.ts) and the fixture decision port          *)
(* (fixture-port.ts) that the Playground host is built on.  The registry   *)
(* and the projections it yields are in PluginPresentation.                *)
(*                                                                         *)
(* dispatch puts a request on the pending list, shows the port the state   *)
(* of that moment and awaits the decision; the decision is then applied to *)
(* the state of the moment it arrives, and put on the list of decisions.   *)
(* Nothing in session.ts keeps other events from coming in between.  They  *)
(* do when the port answers with a promise that takes its time, or when    *)
(* callers do not wait for each other (interleaved); they do not when one  *)
(* caller at a time awaits each request and the port decides at once, as   *)
(* the fixture port does.  The model has both kinds of callers.            *)
(*                                                                         *)
(* A node has one input and one output port; a connection is the pair of   *)
(* its end nodes.  Labels, values and positions are left out, and so are   *)
(* the selections on the list of decisions.                                *)
(***************************************************************************)
EXTENDS Integers, FiniteSets, Sequences

CONSTANTS
  Node,        \* node ids
  Capability,
  ManyInput,   \* capabilities whose input port has cardinality "many"
  MaxRequests, \* bound of the model: requests dispatched
  MaxInflight, \* bound of the model: decisions awaited at a time
  None

ASSUME ConstantsAssumption ==
  /\ ManyInput \subseteq Capability
  /\ MaxRequests \in Nat /\ MaxInflight \in Nat
  /\ None \notin Node

VARIABLES
  nodes,       \* state.nodes: the view model of each node, None where there is none
  connections, \* state.connections
  layout,      \* the nodes state.layout has a position for
  selection,   \* state.selection
  pending,     \* state.pending, each request with the decision it will get
  decisions,   \* state.decisions, in the order of their application
  issued,      \* requests dispatched so far
  used,        \* node ids handed out so far
  interleaved  \* may other events come between a decision and its application?

view == <<nodes, connections, layout, selection>>
vars == <<view, pending, decisions, issued, used, interleaved>>

Edges == Node \X Node
Models == [cap : Capability, connected : SUBSET {"in", "out"}]
Selections == [ids : SUBSET Node, active : Node \cup {None}]

ASSUME NoneAssumption == None \notin Models

Kinds == {"node.add", "node.remove", "node.move", "connection.add",
          "connection.remove", "property.change", "presentation.change"}
\* "broken": decide threw, or named another request
Statuses == {"accepted", "rejected", "unresolved", "broken"}
\* What the port reads of the state it is shown (pendingState).
Shown == [nodes : [Node -> Models \cup {None}], connections : SUBSET Edges]
Decisions == [id : Nat, kind : Kinds, status : Statuses, node : Node \cup {None},
              edge : Edges \cup {None}, model : Models \cup {None},
              shown : Shown \cup {None}]
\* What the list of decisions keeps of one.
Entries == [id : Nat, kind : Kinds, status : Statuses, node : Node \cup {None},
            edge : Edges \cup {None}]

Exists(n) == nodes[n] # None

----------------------------------------------------------------------------
\* Helpers of session.ts

\* refreshPorts
Touched(n, conns) ==
  {p \in {"in", "out"} : \E c \in conns : c[IF p = "out" THEN 1 ELSE 2] = n}

RefreshPorts(ns, conns) ==
  [n \in Node |-> IF ns[n] = None THEN None
                  ELSE [ns[n] EXCEPT !.connected = Touched(n, conns)]]

\* normalizeSelection: "the first of the rest" becomes any of them.  The mutant
\* keeps what is no longer there.
KeptAll(ns, sel) == sel.ids
Kept(ns, sel) == {n \in sel.ids : ns[n] # None}

Normalized(ns, sel) ==
  LET ids == Kept(ns, sel)
      actives == IF sel.active \in ids THEN {sel.active}
                 ELSE IF ids = {} THEN {None} ELSE ids
  IN  {[ids |-> ids, active |-> a] : a \in actives}

\* The connections node.remove drops; the mutant forgets the incoming ones.
OwnsSource(n, c) == c[1] = n
Owns(n, c) == n \in {c[1], c[2]}

----------------------------------------------------------------------------
Init ==
  /\ nodes = [n \in Node |-> None]
  /\ connections = {} /\ layout = {}
  /\ selection = [ids |-> {}, active |-> None]
  /\ pending = {} /\ decisions = <<>> /\ issued = 0 /\ used = {}
  /\ interleaved \in BOOLEAN

\* Decisions still on their way.
Inflight == {p \in pending : p.status # "broken"}

\* Nothing happens between a request and its decision if the one caller there is
\* awaits it.  That is a habit of the caller and no guard of session.ts.
Quiet == interleaved \/ Inflight = {}

----------------------------------------------------------------------------
\* createFixtureDecisionPort: the decision for a request, on the current state.

Decision(kind, status) ==
  [id |-> issued + 1, kind |-> kind, status |-> status, node |-> None,
   edge |-> None, model |-> None, shown |-> [nodes |-> nodes, connections |-> connections]]

Dispatch(d) ==
  /\ Quiet
  /\ issued < MaxRequests /\ Cardinality(Inflight) < MaxInflight
  /\ issued' = issued + 1
  /\ pending' = pending \cup {d}
  /\ UNCHANGED <<view, decisions, interleaved>>

\* Accepted when the registry has exactly one registration for the capability.
RequestNodeAdd(cap) ==
  \/ Dispatch(Decision("node.add", "unresolved")) /\ UNCHANGED used
  \/ \E n \in Node \ used :
       /\ Dispatch([Decision("node.add", "accepted") EXCEPT !.node = n,
                      !.model = [cap |-> cap, connected |-> {}]])
       /\ used' = used \cup {n}

RequestNodeRemove(n) ==
  /\ IF Exists(n)
       THEN Dispatch([Decision("node.remove", "accepted") EXCEPT !.node = n])
       ELSE Dispatch(Decision("node.remove", "rejected"))
  /\ UNCHANGED used

RequestNodeMove(n) ==
  /\ Dispatch([Decision("node.move", "accepted") EXCEPT !.node = n])
  /\ UNCHANGED used

\* The mutant accepts a second connection into a single input.
ConnectableToAnyInput(from, to) == Exists(from) /\ Exists(to) /\ from # to
Connectable(from, to) ==
  /\ Exists(from) /\ Exists(to) /\ from # to
  /\ nodes[to].cap \in ManyInput \/ \A c \in connections : c[2] # to

RequestConnectionAdd(from, to) ==
  /\ IF Connectable(from, to)
       THEN Dispatch([Decision("connection.add", "accepted") EXCEPT !.edge = <<from, to>>])
       ELSE Dispatch(Decision("connection.add", "rejected"))
  /\ UNCHANGED used

RequestConnectionRemove(edge) ==
  /\ IF edge \in connections
       THEN Dispatch([Decision("connection.remove", "accepted") EXCEPT !.edge = edge])
       ELSE Dispatch(Decision("connection.remove", "rejected"))
  /\ UNCHANGED used

\* "value" is accepted with a copy of the node as it is shown; resolveProperty
\* decides the rest.
RequestPropertyChange(n) ==
  /\ \/ /\ Exists(n)
        /\ Dispatch([Decision("property.change", "accepted") EXCEPT !.node = n])
     \/ \E status \in {"rejected", "unresolved"} :
          /\ status = "unresolved" => Exists(n)
          /\ Dispatch(Decision("property.change", status))
  /\ UNCHANGED used

RequestPresentationChange ==
  Dispatch(Decision("presentation.change", "unresolved")) /\ UNCHANGED used

----------------------------------------------------------------------------
\* applyPresentationDecision.

\* The state a decision is applied to: that of the moment it arrives.  The mutant
\* takes the state the port was shown, as read before the await.
AsShown(d) == d.shown
Here(d) == [nodes |-> nodes, connections |-> connections]

Upsert(d, model) == [Here(d).nodes EXCEPT ![d.node] = model]

AddNode(d) ==
  /\ nodes' = Upsert(d, d.model)
  /\ UNCHANGED <<connections, layout, selection>>

RemoveNode(d) ==
  /\ connections' = {c \in Here(d).connections : ~Owns(d.node, c)}
  /\ nodes' = RefreshPorts(Upsert(d, None), connections')
  /\ layout' = layout \ {d.node}
  /\ selection' \in Normalized(nodes', selection)

MoveNode(d) ==
  layout' = layout \cup {d.node}
    /\ UNCHANGED <<nodes, connections, selection>>

\* The node comes back as the port saw it, all of it, gone or not.
ReplaceNode(d) ==
  /\ nodes' = RefreshPorts(Upsert(d, d.shown.nodes[d.node]), connections)
  /\ UNCHANGED <<connections, layout, selection>>

SetConnections(d, conns) ==
  /\ connections' = conns /\ nodes' = RefreshPorts(Here(d).nodes, conns)
  /\ UNCHANGED <<layout, selection>>

Apply(d) ==
  \/ d.status # "accepted" /\ UNCHANGED view
  \/ /\ d.status = "accepted"
     /\ \/ d.kind = "node.add" /\ AddNode(d)
        \/ d.kind = "node.remove" /\ RemoveNode(d)
        \/ d.kind = "node.move" /\ MoveNode(d)
        \/ d.kind = "property.change" /\ ReplaceNode(d)
        \/ d.kind = "connection.add" /\ SetConnections(d, Here(d).connections \cup {d.edge})
        \/ d.kind = "connection.remove" /\ SetConnections(d, Here(d).connections \ {d.edge})

Entry(d) ==
  [id |-> d.id, kind |-> d.kind, status |-> d.status, node |-> d.node, edge |-> d.edge]

Settle(d) ==
  /\ d.status # "broken"
  /\ Apply(d)
  /\ pending' = {p \in pending : p.id # d.id}
  /\ decisions' = Append(decisions, Entry(d))
  /\ UNCHANGED <<issued, used, interleaved>>

\* decide rejects, or its answer names another request: dispatch throws and the
\* request stays on the list.
PortBreaks(d) ==
  /\ d.status # "broken"
  /\ pending' = (pending \ {d}) \cup
                  {[d EXCEPT !.status = "broken", !.edge = None, !.model = None, !.shown = None]}
  /\ UNCHANGED <<view, decisions, issued, used, interleaved>>

----------------------------------------------------------------------------
\* Events that ask the port nothing.

Select(sel) ==
  /\ Quiet
  /\ IF sel.ids = {} THEN sel.active = None ELSE sel.active \in sel.ids  \* as the views send it
  /\ selection' \in Normalized(nodes, sel) \ {selection}
  /\ UNCHANGED <<nodes, connections, layout, pending, decisions, issued, used, interleaved>>

\* applyEngineEvent with fam.node.changed
EngineNodeChanged(n, cap) ==
  /\ Quiet
  /\ Exists(n) => cap = nodes[n].cap            \* an update keeps the ports, and
  /\ \A p \in pending : p.kind = "node.add" => p.node # n  \* no id is yet unknown
  /\ nodes' = RefreshPorts([nodes EXCEPT ![n] = [cap |-> cap, connected |-> {}]],
                           connections)
  /\ used' = used \cup {n}
  /\ UNCHANGED <<connections, layout, selection, pending, decisions, issued, interleaved>>

----------------------------------------------------------------------------
Request ==
  \/ \E cap \in Capability : RequestNodeAdd(cap)
  \/ \E n \in Node : RequestNodeRemove(n) \/ RequestNodeMove(n) \/ RequestPropertyChange(n)
  \/ \E e \in Edges : RequestConnectionAdd(e[1], e[2]) \/ RequestConnectionRemove(e)
  \/ RequestPresentationChange

Answer == \E d \in pending : Settle(d) \/ PortBreaks(d)

Event ==
  \/ \E sel \in Selections : Select(sel)
  \/ \E n \in Node, cap \in Capability : EngineNodeChanged(n, cap)

Next == Request \/ Answer \/ Event

Spec == Init /\ [][Next]_vars

----------------------------------------------------------------------------
TypeOK ==
  /\ nodes \in [Node -> Models \cup {None}]
  /\ connections \subseteq Edges /\ layout \subseteq Node /\ selection \in Selections
  /\ pending \subseteq Decisions /\ decisions \in Seq(Entries)
  /\ \A p, q \in pending : p.id \in 1..issued /\ (p.id = q.id => p = q)
  /\ issued \in 0..MaxRequests /\ used \subseteq Node /\ interleaved \in BOOLEAN

\* Whatever decision removed a node and however late it came, only nodes that
\* exist are selected, the active node is one of them, and a port is shown
\* connected exactly while some connection ends at it.
ViewIsConsistent ==
  /\ \A n \in selection.ids : Exists(n)
  /\ IF selection.ids = {} THEN selection.active = None
     ELSE selection.active \in selection.ids
  /\ \A n \in Node : Exists(n) => nodes[n].connected = Touched(n, connections)

\* A node that is removed takes its connections, its position and its
\* place in the selection with it, in the same commit.
RemovalIsComplete ==
  [][\A n \in Node : Exists(n) /\ ~Exists(n)' =>
       /\ \A c \in connections' : n \notin {c[1], c[2]}
       /\ n \notin layout' \cup selection'.ids]_vars

\* While nothing comes between a decision and its application, what the port
\* checked still holds then: no connection ends at a node that is gone, and an
\* input of cardinality "one" has at most one.
ConnectionsAreSound ==
  ~interleaved =>
    /\ \A c \in connections : Exists(c[1]) /\ Exists(c[2])
    /\ \A c, d \in connections : c[2] = d[2] /\ nodes[c[2]].cap \notin ManyInput => c = d

\* What an accepted decision on the list did to edge e or node n.
Accepts(entry, kind) == entry.status = "accepted" /\ entry.kind = kind
Connects(entry, e) == Accepts(entry, "connection.add") /\ entry.edge = e
Disconnects(entry, e) ==
  \/ Accepts(entry, "connection.remove") /\ entry.edge = e
  \/ Accepts(entry, "node.remove") /\ entry.node \in {e[1], e[2]}
Places(entry, n) == Accepts(entry, "node.move") /\ entry.node = n
Puts(entry, n) ==
  (Accepts(entry, "node.add") \/ Accepts(entry, "property.change")) /\ entry.node = n
Removes(entry, n) == Accepts(entry, "node.remove") /\ entry.node = n

Connected(list) ==
  {e \in Edges : \E i \in 1..Len(list) :
     Connects(list[i], e) /\ \A j \in i + 1..Len(list) : ~Disconnects(list[j], e)}
Placed(list) ==
  {n \in Node : \E i \in 1..Len(list) :
     Places(list[i], n) /\ \A j \in i + 1..Len(list) : ~Removes(list[j], n)}
Put(list) ==
  {n \in Node : \E i \in 1..Len(list) :
     Puts(list[i], n) /\ \A j \in i + 1..Len(list) : ~Removes(list[j], n)}

\* However late and in whatever order decisions arrive, none undoes what another
\* did in the meantime: each request is either still pending or decided once, and
\* the view shows what the accepted decisions say in the order of the list, each
\* connection that was added and neither removed nor lost with one of its ends
\* since, each position of a node not removed since, and each node added or
\* changed and not removed since (those only the engine told of are not listed).
NoDecisionIsLost ==
  /\ \A i, j \in 1..Len(decisions) : decisions[i].id = decisions[j].id => i = j
  /\ {decisions[i].id : i \in 1..Len(decisions)} = 1..issued \ {p.id : p \in pending}
  /\ connections = Connected(decisions) /\ layout = Placed(decisions)
  /\ \A n \in Put(decisions) : Exists(n)
=============================================================================

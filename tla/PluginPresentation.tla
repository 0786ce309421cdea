-------------------------- MODULE PluginPresentation --------------------------
(***************************************************************************)
(* packages/ui-core: the PluginPresentationRegistry (index.ts) and the     *)
(* projections PresentationSession keeps of its registrations (session.ts).*)
(*                                                                         *)
(* A plugin is registered per capability and unregistered as a whole.  A   *)
(* node.add is projected when the port decides and shown when the decision *)
(* is applied; in between the plugin may have gone (AsyncPort = TRUE).     *)
(***************************************************************************)
EXTENDS Integers, FiniteSets

CONSTANTS
  Node, Plugin, Capability,
  Native,    \* registrations without a hint the renderer lacks
  AsyncPort, \* may other events run between a request and its decision?
  None

VARIABLES
  registry, \* registrations, <<plugin, capability>>
  shown,    \* state.presentations
  adding,   \* node.add decisions not yet applied: node -> projection
  used      \* node ids handed out so far

vars == <<registry, shown, adding, used>>

Registrations == Plugin \X Capability
Projections == [mode : {"native", "generic", "ghost"}, reg : Registrations \cup {None}]

Quiet == AsyncPort \/ \A n \in Node : adding[n] = None

----------------------------------------------------------------------------
\* project, for a capability and possibly a plugin
Candidates(cap, plugin) ==
  {r \in registry : r[2] = cap /\ (plugin = None \/ r[1] = plugin)}

Project(cap, plugin) ==
  LET candidates == Candidates(cap, plugin) IN
  IF Cardinality(candidates) # 1 THEN [mode |-> "ghost", reg |-> None]
  ELSE LET reg == CHOOSE r \in candidates : TRUE
       IN  [mode |-> IF reg \in Native THEN "native" ELSE "generic", reg |-> reg]

Init ==
  /\ registry \in SUBSET Registrations
  /\ shown = [n \in Node |-> None] /\ adding = shown /\ used = {}

\* node.add.requested: decided only where exactly one plugin offers the capability.
RequestNodeAdd(n, cap) ==
  LET candidates == Candidates(cap, None) IN
  /\ Quiet /\ n \notin used /\ Cardinality(candidates) = 1
  /\ \E r \in candidates : adding' = [adding EXCEPT ![n] = Project(cap, r[1])]
  /\ used' = used \cup {n}
  /\ UNCHANGED <<registry, shown>>

NodeAdded(n) ==
  /\ adding[n] # None
  /\ shown' = [shown EXCEPT ![n] = adding[n]]
  /\ adding' = [adding EXCEPT ![n] = None]
  /\ UNCHANGED <<registry, used>>

NodeRemoved(n) ==
  /\ Quiet /\ shown[n] # None
  /\ shown' = [shown EXCEPT ![n] = None]
  /\ UNCHANGED <<registry, adding, used>>

\* applyEnginePresentationEvent: implementation.unavailable, of a node that is
\* shown or that only the engine knows
ImplementationUnavailable(n) ==
  /\ Quiet /\ adding[n] = None
  /\ shown' = [shown EXCEPT ![n] =
       [mode |-> "ghost", reg |-> IF shown[n] = None THEN None ELSE shown[n].reg]]
  /\ used' = used \cup {n}
  /\ UNCHANGED <<registry, adding>>

\* register throws on a registration it already has.
Discover(reg) ==
  /\ Quiet /\ reg \notin registry
  /\ registry' = registry \cup {reg}
  /\ UNCHANGED <<shown, adding, used>>

\* plugin.presentation.removed: the plugin goes with every capability, the nodes
\* of the named capability become ghosts.
Ghost(p) == [p EXCEPT !.mode = "ghost"]

ShownBy(n, reg) == reg \in registry /\ shown[n] # None /\ shown[n].reg = reg

RemovePlugin(reg) ==
  /\ Quiet
  /\ registry' = {r \in registry : r[1] # reg[1]}
  /\ shown' = [n \in Node |-> IF ShownBy(n, reg) THEN Ghost(shown[n]) ELSE shown[n]]
  /\ UNCHANGED <<adding, used>>

Next ==
  \/ \E n \in Node : NodeAdded(n) \/ NodeRemoved(n) \/ ImplementationUnavailable(n)
  \/ \E n \in Node, cap \in Capability : RequestNodeAdd(n, cap)
  \/ \E reg \in Registrations : Discover(reg) \/ RemovePlugin(reg)

Spec == Init /\ [][Next]_vars

----------------------------------------------------------------------------
TypeOK ==
  /\ registry \subseteq Registrations /\ used \subseteq Node
  /\ shown \in [Node -> Projections \cup {None}]
  /\ adding \in [Node -> Projections \cup {None}]

\* gui-presentation-contract: plugin.presentation.removed takes the plugin out of
\* the registry and maps the existing nodes to ghosts.
UnregisteredAreGhosts ==
  \A n \in Node :
    shown[n] # None /\ shown[n].reg # None /\ shown[n].reg \notin registry
      => shown[n].mode = "ghost"
=============================================================================

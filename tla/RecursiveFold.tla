----------------------------- MODULE RecursiveFold -----------------------------
(***************************************************************************)
(* apps/playground: the recursive decomposition of a unit ("why?").        *)
(* RecursiveFoldController serialises the runs of one parent fold, App.tsx *)
(* drives a run through the gateway fetch, core-graph.ts puts its children *)
(* into the graph and takes them out again.                                *)
(*                                                                         *)
(* The Playground's decision port is synchronous, so what App.tsx awaits   *)
(* between two fetches settles in microtasks: a user event is one step and *)
(* the answer of a fetch, with all that follows from it, is one step.      *)
(*                                                                         *)
(* Nodes are numbered as the decision port numbers them, so a node id is   *)
(* never given twice.  A foldRef is named by the provider, which may name  *)
(* two units alike; the runs are kept by foldRef, the badges by node.      *)
(* Root stands for the root boundary, whose units execute() projects.      *)
(*                                                                         *)
(* Left out: units that contain units of the same decomposition, here they *)
(* all hang from the node that was asked; and an execute() that throws     *)
(* while it draws, after which its button stays disabled.  Both are in     *)
(* GraphProjection.                                                        *)
(***************************************************************************)
EXTENDS Integers, Sequences, FiniteSets

CONSTANTS
  Ref,         \* foldRefs
  Root, None,
  Text,        \* what a request fingerprint holds besides the parent revision
  MaxNode,     \* bound of the model: nodes ever added
  MaxChildren, \* bound of the model: units of one decomposition
  MaxGen,      \* bound of the model: generations of one parent
  MaxRev       \* bound of the model: revisions

ASSUME ConstantsAssumption ==
  /\ MaxNode \in Nat /\ MaxChildren \in Nat \ {0} /\ MaxGen \in Nat /\ MaxRev \in Nat
  /\ Root \notin 1..MaxNode

VARIABLES
  foldRef,   \* the foldRef of each node ever added, in order
  graph,     \* the nodes of the session, None where there is none
  gradients, \* the nodes that the last execute() added
  runs,      \* RecursiveFoldController.#runs
  waiting,   \* runs whose fetch has not been answered yet
  logged,    \* <<foldRef, generation>> of the recursive-decompose FoldLog events
  rev        \* the last revision that an edit has given out

vars == <<foldRef, graph, gradients, runs, waiting, logged, rev>>

Node == 1..MaxNode
Used == 1..Len(foldRef)
Badges == {"none", "running", "complete", "failed", "cancelled"}
Nodes == [kind : {"unit", "boundary"}, parent : Node \cup {Root}, gen : 0..MaxGen,
          rev : 0..MaxRev, badge : Badges]
Projections == [boundary : Node, children : SUBSET Node, replaced : Nodes]
Fingerprints == (0..MaxRev) \X Text
Runs == [gen : 1..MaxGen, status : {"running", "complete", "failed", "cancelled"},
         fingerprint : Fingerprints, projection : Projections \cup {None}]
Tasks == [ref : Ref, node : Node, gen : 1..MaxGen, previous : Projections \cup {None}]

ASSUME NoneAssumption == None \notin Runs

----------------------------------------------------------------------------
\* RecursiveFoldController

Generation(f) == IF runs[f] = None THEN 0 ELSE runs[f].gen
Running(f) == runs[f] # None /\ runs[f].status = "running"

\* start accepts.
Accepts(f, fp) ==
  /\ ~Running(f)
  /\ runs[f] # None => ~(runs[f].status = "complete" /\ runs[f].fingerprint = fp)

NewRun(f, fp) == [gen |-> Generation(f) + 1, status |-> "running", fingerprint |-> fp,
                  projection |-> None]

PreviousProjection(f) == IF runs[f] = None THEN None ELSE runs[f].projection

\* isCurrent, and the test with which complete and fail begin; the mutant leaves
\* out the status.
IsCurrentGeneration(f, gen) == Generation(f) = gen
IsCurrent(f, gen) == Generation(f) = gen /\ Running(f)

\* fail and cancel, complete; the mutant changes nothing.
FinishedNot(f, status) == runs
Finished(f, status) == [runs EXCEPT ![f].status = status]

Completed(f, projection) ==
  [runs EXCEPT ![f].status = "complete", ![f].projection = projection]

----------------------------------------------------------------------------
\* core-graph.ts

Shown(n) == n \in Used /\ graph[n] # None

\* Units have the two buttons, boundaries have none of them.
HasButtons(n) == Shown(n) /\ graph[n].kind = "unit"

\* setRecursiveFoldStatus; the mutant leaves the badge that is already there.
WithBadgeOnce(g, n, badge) ==
  IF g[n] = None \/ g[n].badge # "none" THEN g ELSE [g EXCEPT ![n].badge = badge]
WithBadge(g, n, badge) ==
  IF g[n] = None THEN g ELSE [g EXCEPT ![n].badge = badge]

\* removeRecursiveFoldProjection: the children go, the node that the boundary
\* replaced comes back as it was, even if it has been removed since.
Unprojected(g, projection) ==
  IF projection = None THEN g
  ELSE [n \in Node |-> IF n = projection.boundary THEN projection.replaced
                       ELSE IF n \in projection.children THEN None ELSE g[n]]

\* The ways to name k new units: their foldRefs differ from one another.
Names(k) == {names \in [1..k -> Ref] : \A i, j \in 1..k : names[i] = names[j] => i = j}

\* The nodes that k new units get.
NewNodes(k) == Len(foldRef) + 1 .. Len(foldRef) + k

Unit(parent, gen) ==
  [kind |-> "unit", parent |-> parent, gen |-> gen, rev |-> 0, badge |-> "none"]

\* projectRecursiveDecompositionGraph: n becomes a boundary around k new units.
Projected(g, n, k, gen) ==
  [m \in Node |-> IF m = n THEN [g[n] EXCEPT !.kind = "boundary", !.badge = "none"]
                  ELSE IF m \in NewNodes(k) THEN Unit(n, gen) ELSE g[m]]

----------------------------------------------------------------------------
Init ==
  /\ foldRef = <<>> /\ graph = [n \in Node |-> None] /\ gradients = {}
  /\ runs = [f \in Ref |-> None]
  /\ waiting = {} /\ logged = {} /\ rev = 0

\* unit.recursive-decompose
RequestWhy(n, text) ==
  LET f == foldRef[n]
      fp == <<graph[n].rev, text>> IN
  /\ HasButtons(n) /\ graph[n].badge # "running"
  /\ Accepts(f, fp)
  /\ Generation(f) < MaxGen
  /\ runs' = [runs EXCEPT ![f] = NewRun(f, fp)]
  /\ waiting' = waiting \cup {[ref |-> f, node |-> n, gen |-> Generation(f) + 1,
                               previous |-> PreviousProjection(f)]}
  /\ graph' = WithBadge(graph, n, "running")
  /\ UNCHANGED <<foldRef, gradients, logged, rev>>

\* The fetch of a run that was cancelled or superseded is answered.
AnswerTooLate(t) ==
  /\ ~IsCurrent(t.ref, t.gen)
  /\ waiting' = waiting \ {t}
  /\ UNCHANGED <<foldRef, graph, gradients, runs, logged, rev>>

\* An error, no decomposition, or no access map; the client gives up after 50 s.
AnswerFails(t) ==
  /\ IsCurrent(t.ref, t.gen)
  /\ waiting' = waiting \ {t}
  /\ runs' = Finished(t.ref, "failed")
  /\ graph' = WithBadge(graph, t.node, "failed")
  /\ UNCHANGED <<foldRef, gradients, logged, rev>>

\* The projection throws: before it changed anything, because the parent is gone
\* or the units are unreadable, or among its units, which stay.
ProjectionThrows(t) ==
  LET g == Unprojected(graph, t.previous) IN
  /\ IsCurrent(t.ref, t.gen)
  /\ waiting' = waiting \ {t}
  /\ runs' = Finished(t.ref, "failed")
  /\ \/ graph' = WithBadge(g, t.node, "failed") /\ UNCHANGED foldRef
     \/ \E k \in 0..MaxChildren : \E names \in Names(k) :
          /\ g[t.node] # None /\ Len(foldRef) + k <= MaxNode
          /\ graph' = WithBadge(Projected(g, t.node, k, t.gen), t.node, "failed")
          /\ foldRef' = foldRef \o names
  /\ UNCHANGED <<gradients, logged, rev>>

\* The projection succeeds; logs.append may still throw, after complete().
AnswerProjects(t) ==
  LET g == Unprojected(graph, t.previous) IN
  /\ IsCurrent(t.ref, t.gen)
  /\ g[t.node] # None
  /\ waiting' = waiting \ {t}
  /\ \E k \in 1..MaxChildren, badge \in {"complete", "failed"} : \E names \in Names(k) :
       /\ Len(foldRef) + k <= MaxNode
       /\ foldRef' = foldRef \o names
       /\ graph' = WithBadge(Projected(g, t.node, k, t.gen), t.node, badge)
       /\ runs' = Completed(t.ref, [boundary |-> t.node, children |-> NewNodes(k),
                                    replaced |-> g[t.node]])
       /\ logged' = IF badge = "complete" THEN logged \cup {<<t.ref, t.gen>>} ELSE logged
  /\ UNCHANGED <<gradients, rev>>

\* unit.replace: it cancels the run of the unit, then the host decides.  It knows
\* the units of the last decomposition only; what it accepts for a foldRef is
\* shown by the node that asked and by the unit of that name.
ReplaceUnit(n) ==
  LET f == foldRef[n]
      g == IF Running(f) THEN WithBadge(graph, n, "cancelled") ELSE graph IN
  /\ HasButtons(n)
  /\ runs' = IF Running(f) THEN Finished(f, "cancelled") ELSE runs
  /\ \/ graph' = g /\ runs' # runs /\ UNCHANGED rev
     \/ /\ \E m \in gradients : foldRef[m] = f
        /\ rev < MaxRev /\ rev' = rev + 1
        /\ graph' = [m \in Node |->
             IF g[m] # None /\ (m = n \/ (m \in gradients /\ foldRef[m] = f))
               THEN [g[m] EXCEPT !.rev = rev + 1] ELSE g[m]]
  /\ UNCHANGED <<foldRef, gradients, waiting, logged>>

\* execute(): a new decomposition of the source.  projectDecompositionGraph
\* removes the nodes it added last time; what hangs below them it leaves.
Execute ==
  \E k \in 1..MaxChildren : \E names \in Names(k) :
    /\ Len(foldRef) + k <= MaxNode
    /\ foldRef' = foldRef \o names
    /\ gradients' = NewNodes(k)
    /\ graph' = [n \in Node |-> IF n \in NewNodes(k) THEN Unit(Root, 0)
                               ELSE IF n \in gradients THEN None ELSE graph[n]]
    /\ UNCHANGED <<runs, waiting, logged, rev>>

Answer(t) == AnswerTooLate(t) \/ AnswerFails(t) \/ ProjectionThrows(t) \/ AnswerProjects(t)

Next ==
  \/ \E n \in Used : ReplaceUnit(n) \/ \E text \in Text : RequestWhy(n, text)
  \/ \E t \in waiting : Answer(t)
  \/ Execute

\* requestDecompose arms a 50 s timer: every fetch is answered.
Spec == Init /\ [][Next]_vars /\ WF_vars(\E t \in waiting : Answer(t))

----------------------------------------------------------------------------
TypeOK ==
  /\ foldRef \in Seq(Ref) /\ Len(foldRef) <= MaxNode /\ gradients \subseteq Used
  /\ graph \in [Node -> Nodes \cup {None}] /\ \A n \in Node \ Used : graph[n] = None
  /\ runs \in [Ref -> Runs \cup {None}] /\ waiting \subseteq Tasks
  /\ logged \subseteq Ref \X (1..MaxGen) /\ rev \in 0..MaxRev

\* The run that is marked running is the one run whose answer is still to come:
\* no parent is left blocked by a run nobody will finish, and no two answers can
\* both be taken for the current one.
RunningIsAwaited ==
  \A f \in Ref : Running(f) => \E t \in waiting :
    /\ t.ref = f /\ t.gen = runs[f].gen
    /\ \A s \in waiting : s.ref = f /\ s.gen = t.gen => s = t

\* The answer of a cancelled or superseded generation connects nothing: children
\* are added only below a parent whose run is running, and carry its generation.
OnlyTheCurrentRunProjects ==
  [][\A n \in 1..Len(foldRef') \ Used : graph'[n].parent # Root =>
       LET f == foldRef[graph'[n].parent] IN
       Running(f) /\ graph'[n].gen = runs[f].gen]_vars

\* The busy badge disables the button: as long as no two nodes have had the same
\* foldRef, it is shown exactly while a run is on.
BusyBadgeTellsTheRun ==
  \A n \in Used : Shown(n) /\ (\A m \in Used \ {n} : foldRef[m] # foldRef[n]) =>
    (graph[n].badge = "running" <=> Running(foldRef[n]))

\* Every request that was accepted ends.
RunsEnd == \A f \in Ref : Running(f) ~> ~Running(f)
=============================================================================

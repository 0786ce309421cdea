-------------------------- MODULE RecursiveFoldProofs --------------------------
(***************************************************************************)
(* Proofs about RecursiveFold, for any numbers of nodes, runs and edits.   *)
(***************************************************************************)
EXTENDS RecursiveFold, SequenceTheorems, TLAPS

\* What hangs from a fetch that has not been answered: its node is there and
\* has the foldRef, its generation has been given out, to it alone.
TasksInv ==
  /\ \A t \in waiting :
       /\ t.node \in Used /\ foldRef[t.node] = t.ref
       /\ t.gen <= Generation(t.ref)
       /\ t.previous # None =>
            t.previous.boundary \in Used /\ foldRef[t.previous.boundary] = t.ref
  /\ \A s, t \in waiting : s.ref = t.ref /\ s.gen = t.gen => s = t

\* A run is of a node that was asked, and so is its projection.
RunsInv ==
  \A f \in Ref : runs[f] # None =>
    /\ \E n \in Used : foldRef[n] = f
    /\ runs[f].projection # None =>
         runs[f].projection.boundary \in Used /\ foldRef[runs[f].projection.boundary] = f

FoldInv == TypeOK /\ TasksInv /\ RunsInv /\ RunningIsAwaited /\ BusyBadgeTellsTheRun

Graphs == [Node -> Nodes \cup {None}]
Unique(n) == \A m \in Used \ {n} : foldRef[m] # foldRef[n]

----------------------------------------------------------------------------
\* The operations on the graph

\* A badge changes nothing else.
LEMMA Badged ==
  ASSUME NEW g \in Graphs, NEW n \in Node, NEW badge \in Badges
  PROVE  /\ WithBadge(g, n, badge) \in Graphs
         /\ \A m \in Node \ {n} : WithBadge(g, n, badge)[m] = g[m]
         /\ g[n] = None => WithBadge(g, n, badge)[n] = None
         /\ g[n] # None => WithBadge(g, n, badge)[n].badge = badge
<1>1. g[n] # None => [g[n] EXCEPT !.badge = badge] \in Nodes
  BY DEF Graphs, Nodes
<1>2. g[n] # None => [g[n] EXCEPT !.badge = badge].badge = badge
  BY DEF Graphs, Nodes
<1>q. QED
  BY <1>1, <1>2 DEF Graphs, WithBadge

\* Taking a projection away brings one node back at most, its boundary.
LEMMA TakenAway ==
  ASSUME NEW g \in Graphs, NEW p \in Projections \cup {None}
  PROVE  /\ Unprojected(g, p) \in Graphs
         /\ \A m \in Node : \/ Unprojected(g, p)[m] \in {None, g[m]}
                            \/ p # None /\ m = p.boundary
  BY DEF Graphs, Unprojected, Projections

\* A projection makes a boundary of the node and adds units below it.
LEMMA PutIn ==
  ASSUME foldRef \in Seq(Ref), NEW g \in Graphs, NEW n \in Used, g[n] # None,
         NEW k \in Nat, Len(foldRef) + k <= MaxNode, NEW gen \in 0..MaxGen
  PROVE  /\ Projected(g, n, k, gen) \in Graphs
         /\ Projected(g, n, k, gen)[n] # None =>
              Projected(g, n, k, gen)[n].badge = "none"
         /\ \A m \in NewNodes(k) : Projected(g, n, k, gen)[m] = Unit(n, gen)
         /\ \A m \in Node \ (NewNodes(k) \cup {n}) : Projected(g, n, k, gen)[m] = g[m]
<1>1. Len(foldRef) \in Nat /\ n \in Node /\ 0 \in 0..MaxRev
  BY ConstantsAssumption DEF Used, Node
<1>2. [g[n] EXCEPT !.kind = "boundary", !.badge = "none"] \in Nodes
  BY <1>1 DEF Graphs, Nodes, Badges
<1>3. [g[n] EXCEPT !.kind = "boundary", !.badge = "none"].badge = "none"
  BY <1>1 DEF Graphs, Nodes
<1>4. Unit(n, gen) \in Nodes
  BY <1>1 DEF Unit, Nodes, Badges
<1>5. NewNodes(k) \subseteq Node /\ n \notin NewNodes(k)
  BY <1>1, ConstantsAssumption DEF NewNodes, Node, Used
<1>q. QED
  BY <1>1, <1>2, <1>3, <1>4, <1>5 DEF Projected, Graphs

\* New names extend the list of foldRefs.
LEMMA Named ==
  ASSUME foldRef \in Seq(Ref), NEW k \in Nat, NEW names \in Names(k)
  PROVE  /\ foldRef \o names \in Seq(Ref) /\ Len(foldRef \o names) = Len(foldRef) + k
         /\ \A n \in Used : (foldRef \o names)[n] = foldRef[n]
         /\ Used \subseteq 1..Len(foldRef \o names)
         /\ NewNodes(k) = 1..Len(foldRef \o names) \ Used
<1>1. names \in Seq(Ref) /\ Len(names) = k
  <2>1. names \in [1..k -> Ref]
    BY DEF Names
  <2>2. names \in Seq(Ref)
    BY <2>1, SeqDef
  <2>q. QED
    BY <2>1, <2>2, LenProperties
<1>2. /\ foldRef \o names \in Seq(Ref) /\ Len(foldRef \o names) = Len(foldRef) + k
      /\ \A n \in 1..Len(foldRef) : (foldRef \o names)[n] = foldRef[n]
  BY <1>1
<1>3. Len(foldRef) \in Nat
  OBVIOUS
<1>q. QED
  BY <1>2, <1>3 DEF Used, NewNodes

----------------------------------------------------------------------------
\* Init

LEMMA FoldBegins == Init => FoldInv
<1> SUFFICES ASSUME Init PROVE FoldInv
  OBVIOUS
<1> USE ConstantsAssumption DEF Init
<1>1. foldRef = <<>> /\ Len(foldRef) = 0 /\ Used = {} /\ foldRef \in Seq(Ref)
  BY DEF Used
<1>2. TypeOK
  BY <1>1 DEF TypeOK
<1>3. \A f \in Ref : runs[f] = None
  OBVIOUS
<1>q. QED
  BY <1>1, <1>2, <1>3
  DEF FoldInv, TasksInv, RunsInv, RunningIsAwaited, BusyBadgeTellsTheRun, Running

----------------------------------------------------------------------------
\* The steps

\* A run that has started has a generation.
LEMMA Generations ==
  ASSUME TypeOK, NEW f \in Ref
  PROVE  /\ Generation(f) \in 0..MaxGen
         /\ runs[f] # None => runs[f] \in Runs /\ Generation(f) = runs[f].gen
         /\ PreviousProjection(f) \in Projections \cup {None}
BY ConstantsAssumption DEF TypeOK, Generation, PreviousProjection, Runs

\* A task has the types of its fields, a node too.
LEMMA TaskTypes ==
  ASSUME TypeOK, NEW t \in waiting
  PROVE  /\ t \in Tasks /\ t.ref \in Ref /\ t.node \in Node /\ t.gen \in 1..MaxGen
         /\ t.previous \in Projections \cup {None}
BY DEF TypeOK, Tasks

\* unit.recursive-decompose
LEMMA RequestKeeps ==
  ASSUME FoldInv, NEW n \in Used, NEW text \in Text, RequestWhy(n, text),
         NEW f \in Ref, f = foldRef[n]
  PROVE  FoldInv'
<1> DEFINE fp == <<graph[n].rev, text>>
           run == NewRun(f, fp)
           task == [ref |-> f, node |-> n, gen |-> Generation(f) + 1,
                    previous |-> PreviousProjection(f)]
<1>1. /\ TypeOK /\ graph \in Graphs /\ n \in Node
      /\ Generation(f) \in 0..MaxGen
      /\ PreviousProjection(f) \in Projections \cup {None}
  BY Generations, ConstantsAssumption DEF FoldInv, TypeOK, Graphs, Used, Node
<1>2. graph[n] # None /\ graph[n] \in Nodes
  BY <1>1 DEF RequestWhy, HasButtons, Shown, Graphs
<1>3. /\ run \in Runs /\ run # None /\ run.gen = Generation(f) + 1
      /\ run.status = "running" /\ run.projection = None
  <2>1. fp \in Fingerprints
    BY <1>2 DEF Fingerprints, Nodes
  <2>2. Generation(f) + 1 \in 1..MaxGen
    BY <1>1, ConstantsAssumption DEF RequestWhy
  <2>3. run \in Runs
    BY <2>1, <2>2 DEF NewRun, Runs
  <2>q. QED
    BY <2>3, NoneAssumption DEF NewRun
<1>4. /\ ~Running(f) /\ UNCHANGED <<foldRef, gradients, logged, rev>>
      /\ runs' = [runs EXCEPT ![f] = run]
      /\ waiting' = waiting \cup {task} /\ graph' = WithBadge(graph, n, "running")
  BY DEF RequestWhy, Accepts
<1> HIDE DEF run, task, fp
<1>5. /\ graph' \in Graphs /\ \A m \in Node \ {n} : graph'[m] = graph[m]
      /\ graph'[n].badge = "running"
  <2>1. "running" \in Badges
    BY DEF Badges
  <2>q. QED
    BY <1>1, <1>2, <1>4, <2>1, Badged
<1>6. task \in Tasks /\ task.ref = f /\ task.node = n /\ task.gen = Generation(f) + 1
      /\ task.previous = PreviousProjection(f)
  BY <1>1, <1>3 DEF task, Tasks, Runs
<1>7. runs \in [Ref -> Runs \cup {None}] /\ runs'[f] = run
      /\ \A g \in Ref \ {f} : runs'[g] = runs[g]
  BY <1>1, <1>4 DEF TypeOK
<1>8. Generation(f)' = Generation(f) + 1 /\ Running(f)'
      /\ \A g \in Ref \ {f} : /\ Generation(g)' = Generation(g)
                              /\ Running(g)' <=> Running(g)
  BY <1>3, <1>4, <1>7 DEF Generation, Running
<1>9. TypeOK'
  <2>1. \A m \in Node \ Used : graph'[m] = None
    BY <1>1, <1>5 DEF TypeOK
  <2>q. QED
    BY <1>1, <1>3, <1>4, <1>5, <1>6, <1>7, <2>1 DEF TypeOK, Used, Graphs
<1>10. TasksInv'
  <2>1. TasksInv /\ RunsInv
    BY DEF FoldInv
  <2>2. \A t \in waiting : t.ref \in Ref /\ t.gen <= Generation(t.ref)
        /\ t.gen \in Nat /\ Generation(t.ref) \in Nat
    BY <1>1, <2>1, TaskTypes, Generations, ConstantsAssumption DEF TasksInv
  <2>3. \A t \in waiting : ~(t.ref = f /\ t.gen = task.gen)
    BY <1>1, <1>6, <2>2
  <2>4. PreviousProjection(f) # None =>
          PreviousProjection(f).boundary \in Used
          /\ foldRef[PreviousProjection(f).boundary] = f
    BY <1>1, <2>1 DEF RunsInv, PreviousProjection
  <2>5. \A t \in waiting' : t.gen <= Generation(t.ref)'
    <3>1. \A t \in waiting : t.gen <= Generation(t.ref)'
      BY <1>8, <2>2
    <3>q. QED
      BY <1>1, <1>4, <1>6, <1>8, <3>1
  <2>q. QED
    BY <1>4, <1>6, <2>1, <2>3, <2>4, <2>5 DEF TasksInv, Used
<1>11. RunsInv'
  BY <1>3, <1>4, <1>7 DEF FoldInv, RunsInv, Used
<1>12. RunningIsAwaited'
  <2>1. \A g \in Ref \ {f} : Running(g)' => \E t \in waiting' :
          /\ t.ref = g /\ t.gen = runs'[g].gen
          /\ \A s \in waiting' : s.ref = g /\ s.gen = t.gen => s = t
    BY <1>4, <1>6, <1>7, <1>8 DEF FoldInv, RunningIsAwaited
  <2>2. \A s \in waiting' : s.ref = f /\ s.gen = task.gen => s = task
    BY <1>4, <1>6, <1>10 DEF TasksInv
  <2>q. QED
    BY <1>3, <1>4, <1>6, <1>7, <2>1, <2>2 DEF RunningIsAwaited
<1>13. BusyBadgeTellsTheRun'
  <2> SUFFICES ASSUME NEW m \in Used, graph'[m] # None, Unique(m)
               PROVE  graph'[m].badge = "running" <=> Running(foldRef[m])'
    BY <1>4 DEF BusyBadgeTellsTheRun, Shown, Used, Unique
  <2>1. m \in Node
    BY <1>1, ConstantsAssumption DEF TypeOK, Used, Node
  <2>2. CASE m = n
    BY <1>4, <1>5, <1>8, <2>2
  <2>3. CASE m # n
    <3>1. foldRef[m] \in Ref \ {f}
      BY <1>1, <2>3 DEF TypeOK, Used, Unique
    <3>2. graph'[m] = graph[m]
      BY <1>5, <2>1, <2>3
    <3>q. QED
      BY <1>4, <1>8, <3>1, <3>2 DEF FoldInv, BusyBadgeTellsTheRun, Shown, Unique
  <2>q. QED
    BY <2>2, <2>3
<1>q. QED
  BY <1>9, <1>10, <1>11, <1>12, <1>13 DEF FoldInv

\* New nodes do not disturb the badges: a name that is new has no run.
LEMMA BadgesFollow ==
  ASSUME \A m \in Used' \ Used : graph'[m] # None => graph'[m].badge = "none",
         Used \subseteq Used', \A m \in Used : foldRef'[m] = foldRef[m],
         \A f \in Ref : Running(f)' => \E n \in Used : foldRef[n] = f,
         \A m \in Used' : foldRef'[m] \in Ref,
         \A m \in Used : graph'[m] # None /\ Unique(m) =>
           (graph'[m].badge = "running" <=> Running(foldRef[m])')
  PROVE  BusyBadgeTellsTheRun'
<1> SUFFICES ASSUME NEW m \in Used', graph'[m] # None,
                    \A n \in Used' \ {m} : foldRef'[n] # foldRef'[m]
             PROVE  graph'[m].badge = "running" <=> Running(foldRef[m])'
  BY DEF BusyBadgeTellsTheRun, Shown
<1>1. CASE m \in Used
  <2>1. Unique(m)
    BY <1>1 DEF Unique
  <2>q. QED
    BY <1>1, <2>1
<1>2. CASE m \notin Used
  <2>1. ~\E n \in Used : foldRef[n] = foldRef'[m]
    BY <1>2
  <2>2. ~Running(foldRef[m])'
    <3> DEFINE f == foldRef'[m]
    <3>1. f \in Ref /\ ~\E n \in Used : foldRef[n] = f
      BY <2>1
    <3>2. ~(runs'[f] # None /\ runs'[f].status = "running")
      <4> HIDE DEF f
      <4>q. QED
        BY <3>1 DEF Running
    <3>q. QED
      BY <3>2 DEF Running
  <2>q. QED
    BY <1>2, <2>2
<1>q. QED
  BY <1>1, <1>2

\* The run of a task ends with its answer, as nothing but this run; its
\* projection is the one it had or one around the node of the task.
LEMMA RunEnds ==
  ASSUME FoldInv, NEW t \in waiting, IsCurrent(t.ref, t.gen), waiting' = waiting \ {t},
         NEW run \in Runs, runs' = [runs EXCEPT ![t.ref] = run],
         run.gen = t.gen, run.status # "running",
         run.projection = runs[t.ref].projection \/ run.projection.boundary = t.node,
         Used \subseteq Used', \A n \in Used : foldRef'[n] = foldRef[n]
  PROVE  /\ runs' \in [Ref -> Runs \cup {None}] /\ waiting' \subseteq Tasks
         /\ TasksInv' /\ RunsInv' /\ RunningIsAwaited'
         /\ ~(runs'[t.ref] # None /\ runs'[t.ref].status = "running")
         /\ \A f \in Ref : Running(f)' => Running(f)
         /\ \A f \in Ref \ {t.ref} : Running(f)' <=> Running(f)
<1>1. /\ TypeOK /\ TasksInv /\ RunsInv /\ RunningIsAwaited
      /\ t.ref \in Ref /\ t.node \in Used /\ foldRef[t.node] = t.ref
  BY TaskTypes DEF FoldInv, TasksInv
<1>2. /\ runs \in [Ref -> Runs \cup {None}]
      /\ runs[t.ref] # None /\ runs[t.ref].status = "running" /\ runs[t.ref].gen = t.gen
  BY <1>1 DEF IsCurrent, Running, Generation, TypeOK
<1>3. /\ runs'[t.ref] = run /\ run # None /\ \A f \in Ref \ {t.ref} : runs'[f] = runs[f]
      /\ runs' \in [Ref -> Runs \cup {None}]
  BY <1>1, <1>2, NoneAssumption
<1>4. \A f \in Ref : Generation(f)' = Generation(f)
  BY <1>2, <1>3 DEF Generation
<1>5. /\ \A f \in Ref : Running(f)' => Running(f)
      /\ \A f \in Ref \ {t.ref} : Running(f)' <=> Running(f)
  BY <1>2, <1>3 DEF Running
<1>6. waiting' \subseteq Tasks
  BY <1>1 DEF TypeOK
<1>7. TasksInv'
  <2> SUFFICES ASSUME NEW s \in waiting
               PROVE  /\ s.node \in Used' /\ foldRef'[s.node] = s.ref
                      /\ s.gen <= Generation(s.ref)'
                      /\ s.previous # None =>
                           /\ s.previous.boundary \in Used'
                           /\ foldRef'[s.previous.boundary] = s.ref
    BY <1>1 DEF TasksInv
  <2>1. s.ref \in Ref /\ Generation(s.ref)' = Generation(s.ref)
    BY <1>1, <1>4, TaskTypes
  <2>q. QED
    BY <1>1, <2>1 DEF TasksInv
<1>8. RunsInv'
  <2> SUFFICES ASSUME NEW f \in Ref, runs'[f] # None
               PROVE  /\ \E n \in Used' : foldRef'[n] = f
                      /\ runs'[f].projection # None =>
                           /\ runs'[f].projection.boundary \in Used'
                           /\ foldRef'[runs'[f].projection.boundary] = f
    BY DEF RunsInv
  <2>1. CASE f = t.ref
    BY <1>1, <1>2, <1>3, <2>1 DEF RunsInv
  <2>2. CASE f # t.ref
    BY <1>1, <1>3, <2>2 DEF RunsInv
  <2>q. QED
    BY <2>1, <2>2
<1>9. RunningIsAwaited'
  <2> SUFFICES ASSUME NEW f \in Ref, Running(f)'
               PROVE  \E s \in waiting' :
                        /\ s.ref = f /\ s.gen = runs'[f].gen
                        /\ \A u \in waiting' : u.ref = f /\ u.gen = s.gen => u = s
    BY DEF RunningIsAwaited
  <2>1. f # t.ref /\ runs'[f] = runs[f] /\ Running(f)
    BY <1>3, <1>5 DEF Running
  <2>q. QED
    BY <1>1, <2>1 DEF RunningIsAwaited
<1>q. QED
  BY <1>3, <1>5, <1>6, <1>7, <1>8, <1>9

\* The run of a task with another status.
LEMMA RunWithStatus ==
  ASSUME TypeOK, NEW f \in Ref, runs[f] # None, NEW status \in {"failed", "cancelled"}
  PROVE  \E run \in Runs : /\ Finished(f, status) = [runs EXCEPT ![f] = run]
                           /\ run.gen = runs[f].gen /\ run.status = status
                           /\ run.projection = runs[f].projection
<1> DEFINE run == [runs[f] EXCEPT !.status = status]
<1>1. runs \in [Ref -> Runs \cup {None}] /\ runs[f] \in Runs
  BY DEF TypeOK
<1>2. run \in Runs /\ run.gen = runs[f].gen /\ run.status = status
      /\ run.projection = runs[f].projection
  BY <1>1 DEF Runs
<1>3. Finished(f, status) = [runs EXCEPT ![f] = run]
  BY DEF Finished
<1>q. QED
  BY <1>2, <1>3

\* The nodes that the previous projection's leaving touches are of the task's name.
LEMMA WithoutThePrevious ==
  ASSUME FoldInv, NEW t \in waiting
  PROVE  /\ Unprojected(graph, t.previous) \in Graphs
         /\ \A m \in Node \ Used : Unprojected(graph, t.previous)[m] = None
         /\ \A m \in Used : foldRef[m] # t.ref /\ Unprojected(graph, t.previous)[m] # None =>
              Unprojected(graph, t.previous)[m] = graph[m]
<1>1. TypeOK /\ graph \in Graphs /\ t.previous \in Projections \cup {None} /\ Used \subseteq Node
  BY TaskTypes, ConstantsAssumption DEF FoldInv, TypeOK, Graphs, Used, Node
<1>2. t.previous # None =>
        t.previous.boundary \in Used /\ foldRef[t.previous.boundary] = t.ref
  BY DEF FoldInv, TasksInv
<1>3. /\ Unprojected(graph, t.previous) \in Graphs
      /\ \A m \in Node : \/ Unprojected(graph, t.previous)[m] \in {None, graph[m]}
                         \/ t.previous # None /\ m = t.previous.boundary
  BY <1>1, TakenAway
<1>4. \A m \in Node \ Used : graph[m] = None
  BY <1>1 DEF TypeOK
<1>q. QED
  BY <1>1, <1>2, <1>3, <1>4

\* A run that is on has a node.
LEMMA RunsHaveNodes ==
  ASSUME FoldInv, NEW f \in Ref, Running(f)
  PROVE  \E n \in Used : foldRef[n] = f
BY DEF FoldInv, RunsInv, Running

\* The answer of a run that is over changes nothing.
LEMMA TooLateKeeps ==
  ASSUME FoldInv, NEW t \in waiting, AnswerTooLate(t)
  PROVE  FoldInv'
<1>1. /\ waiting' = waiting \ {t} /\ ~IsCurrent(t.ref, t.gen)
      /\ UNCHANGED <<foldRef, graph, gradients, runs, logged, rev>>
  BY DEF AnswerTooLate
<1>2. TypeOK' /\ RunsInv' /\ BusyBadgeTellsTheRun'
  BY <1>1 DEF FoldInv, TypeOK, RunsInv, BusyBadgeTellsTheRun, Used, Shown, Running
<1>3. TasksInv'
  BY <1>1 DEF FoldInv, TasksInv, Used, Generation
<1>4. RunningIsAwaited'
  <2> SUFFICES ASSUME NEW f \in Ref, Running(f)
               PROVE  \E s \in waiting \ {t} :
                        /\ s.ref = f /\ s.gen = runs[f].gen
                        /\ \A u \in waiting \ {t} : u.ref = f /\ u.gen = s.gen => u = s
    BY <1>1 DEF RunningIsAwaited, Running
  <2>1. PICK s \in waiting : /\ s.ref = f /\ s.gen = runs[f].gen
                             /\ \A u \in waiting : u.ref = f /\ u.gen = s.gen => u = s
    BY DEF FoldInv, RunningIsAwaited
  <2>2. s # t
    BY <1>1, <2>1 DEF IsCurrent, Generation, Running
  <2>q. QED
    BY <2>1, <2>2
<1>q. QED
  BY <1>2, <1>3, <1>4 DEF FoldInv

\* A failure is shown on the node of the task.
LEMMA FailsKeeps ==
  ASSUME FoldInv, NEW t \in waiting, AnswerFails(t)
  PROVE  FoldInv'
<1>1. /\ IsCurrent(t.ref, t.gen) /\ waiting' = waiting \ {t}
      /\ runs' = Finished(t.ref, "failed") /\ graph' = WithBadge(graph, t.node, "failed")
      /\ UNCHANGED <<foldRef, gradients, logged, rev>>
  BY DEF AnswerFails
<1>2. /\ TypeOK /\ graph \in Graphs /\ t.ref \in Ref /\ t.node \in Node /\ t.node \in Used
      /\ foldRef[t.node] = t.ref /\ Used' = Used
  BY <1>1, TaskTypes DEF FoldInv, TypeOK, Graphs, TasksInv, Used
<1>3. runs[t.ref] # None /\ runs[t.ref].gen = t.gen
  BY <1>1 DEF IsCurrent, Running, Generation
<1>4. PICK run \in Runs : /\ runs' = [runs EXCEPT ![t.ref] = run]
                          /\ run.gen = t.gen /\ run.status = "failed"
                          /\ run.projection = runs[t.ref].projection
  <2>1. "failed" \in {"failed", "cancelled"}
    OBVIOUS
  <2>2. \E run \in Runs : /\ Finished(t.ref, "failed") = [runs EXCEPT ![t.ref] = run]
                         /\ run.gen = runs[t.ref].gen /\ run.status = "failed"
                         /\ run.projection = runs[t.ref].projection
    BY <1>2, <1>3, <2>1, RunWithStatus
  <2>q. QED
    BY <1>1, <1>3, <2>2
<1>5. /\ runs' \in [Ref -> Runs \cup {None}] /\ waiting' \subseteq Tasks
      /\ TasksInv' /\ RunsInv' /\ RunningIsAwaited'
      /\ ~(runs'[t.ref] # None /\ runs'[t.ref].status = "running")
      /\ \A f \in Ref : Running(f)' => Running(f)
      /\ \A f \in Ref \ {t.ref} : Running(f)' <=> Running(f)
  BY <1>1, <1>2, <1>4, RunEnds
<1>6. /\ graph' \in Graphs /\ \A m \in Node \ {t.node} : graph'[m] = graph[m]
      /\ graph'[t.node] # None => graph'[t.node].badge = "failed"
  <2>1. "failed" \in Badges
    BY DEF Badges
  <2>q. QED
    BY <1>1, <1>2, <2>1, Badged
<1>7. TypeOK'
  BY <1>1, <1>2, <1>5, <1>6 DEF TypeOK, Graphs
<1>8. BusyBadgeTellsTheRun'
  <2>1. \A m \in Used : graph'[m] # None /\ Unique(m) =>
          (graph'[m].badge = "running" <=> Running(foldRef[m])')
    <3> SUFFICES ASSUME NEW m \in Used, graph'[m] # None, Unique(m)
                 PROVE  graph'[m].badge = "running" <=> Running(foldRef[m])'
      OBVIOUS
    <3>1. m \in Node /\ foldRef[m] \in Ref
      BY <1>2, ConstantsAssumption DEF TypeOK, Used, Node
    <3>2. CASE m = t.node
      BY <1>1, <1>2, <1>5, <1>6, <3>2 DEF Running
    <3>3. CASE m # t.node
      <4>1. foldRef[m] \in Ref \ {t.ref} /\ graph'[m] = graph[m]
        BY <1>2, <1>6, <3>1, <3>3 DEF Unique
      <4>q. QED
        BY <1>1, <1>5, <4>1 DEF FoldInv, BusyBadgeTellsTheRun, Shown, Unique
    <3>q. QED
      BY <3>2, <3>3
  <2>2. \A m \in Used : foldRef[m] \in Ref
    BY <1>2 DEF TypeOK, Used
  <2>3. \A f \in Ref : Running(f)' => \E n \in Used : foldRef[n] = f
    BY <1>5, RunsHaveNodes
  <2>q. QED
    BY <1>1, <1>2, <2>1, <2>2, <2>3, BadgesFollow
<1>q. QED
  BY <1>5, <1>7, <1>8 DEF FoldInv

\* After an answer the badges of the other names are as they were.
LEMMA BadgesAfterAnswer ==
  ASSUME FoldInv, NEW t \in waiting,
         Used \subseteq Used', \A m \in Used : foldRef'[m] = foldRef[m],
         \A m \in Used' : foldRef'[m] \in Ref,
         \A m \in Used \ {t.node} : graph'[m] = Unprojected(graph, t.previous)[m],
         graph'[t.node] # None => graph'[t.node].badge # "running",
         \A m \in Used' \ Used : graph'[m] # None => graph'[m].badge = "none",
         ~(runs'[t.ref] # None /\ runs'[t.ref].status = "running"),
         \A f \in Ref : Running(f)' => Running(f),
         \A f \in Ref \ {t.ref} : Running(f)' <=> Running(f)
  PROVE  BusyBadgeTellsTheRun'
<1>1. /\ TypeOK /\ t.ref \in Ref /\ t.node \in Used /\ foldRef[t.node] = t.ref
  BY TaskTypes DEF FoldInv, TasksInv
<1>2. \A f \in Ref : Running(f)' => \E n \in Used : foldRef[n] = f
  BY RunsHaveNodes
<1>3. \A m \in Used : graph'[m] # None /\ Unique(m) =>
        (graph'[m].badge = "running" <=> Running(foldRef[m])')
  <2> SUFFICES ASSUME NEW m \in Used, graph'[m] # None, Unique(m)
               PROVE  graph'[m].badge = "running" <=> Running(foldRef[m])'
    OBVIOUS
  <2>1. foldRef[m] \in Ref /\ foldRef'[m] = foldRef[m]
    BY <1>1 DEF TypeOK, Used
  <2>2. CASE m = t.node
    BY <1>1, <2>1, <2>2 DEF Running
  <2>3. CASE m # t.node
    <3>1. foldRef[m] # t.ref
      BY <1>1, <2>3 DEF Unique
    <3>2. graph'[m] = graph[m] /\ graph[m] # None
      BY <2>3, <3>1, WithoutThePrevious
    <3>3. graph[m].badge = "running" <=> Running(foldRef[m])
      BY <3>2 DEF FoldInv, BusyBadgeTellsTheRun, Shown, Unique
    <3> DEFINE f == foldRef[m]
    <3>4. f \in Ref \ {t.ref}
      BY <2>1, <3>1
    <3>5. runs'[f] # None /\ runs'[f].status = "running" <=> Running(f)
      <4> HIDE DEF f
      <4>q. QED
        BY <3>4 DEF Running
    <3>6. Running(foldRef[m])' <=> Running(foldRef[m])
      BY <2>1, <3>5 DEF Running
    <3>q. QED
      BY <3>2, <3>3, <3>6
  <2>q. QED
    BY <2>2, <2>3
<1>q. QED
  BY <1>2, <1>3, BadgesFollow

\* What a projection that throws, before or among its units, does to the nodes.
LEMMA ThrowsFacts ==
  ASSUME FoldInv, NEW t \in waiting, ProjectionThrows(t)
  PROVE  /\ foldRef' \in Seq(Ref) /\ Len(foldRef') <= MaxNode
         /\ Used \subseteq Used' /\ Used' \subseteq Node
         /\ \A m \in Used : foldRef'[m] = foldRef[m]
         /\ graph' \in Graphs /\ \A m \in Node \ Used' : graph'[m] = None
         /\ \A m \in Used \ {t.node} : graph'[m] = Unprojected(graph, t.previous)[m]
         /\ graph'[t.node] # None => graph'[t.node].badge # "running"
         /\ \A m \in Used' \ Used : graph'[m] = Unit(t.node, t.gen)
<1> DEFINE g == Unprojected(graph, t.previous)
<1> DEFINE Grown ==
  /\ foldRef' \in Seq(Ref) /\ Len(foldRef') <= MaxNode
  /\ Used \subseteq Used' /\ Used' \subseteq Node
  /\ \A m \in Used : foldRef'[m] = foldRef[m]
  /\ graph' \in Graphs /\ \A m \in Node \ Used' : graph'[m] = None
  /\ \A m \in Used \ {t.node} : graph'[m] = g[m]
  /\ graph'[t.node] # None => graph'[t.node].badge # "running"
  /\ \A m \in Used' \ Used : graph'[m] = Unit(t.node, t.gen)
<1>1. /\ TypeOK /\ t.node \in Node /\ t.node \in Used /\ t.gen \in 0..MaxGen
      /\ foldRef \in Seq(Ref) /\ Used \subseteq Node /\ "failed" \in Badges
  BY TaskTypes, ConstantsAssumption DEF FoldInv, TypeOK, TasksInv, Used, Node, Badges
<1>2. g \in Graphs /\ \A m \in Node \ Used : g[m] = None
  BY WithoutThePrevious
<1>3. CASE graph' = WithBadge(g, t.node, "failed") /\ UNCHANGED foldRef
  <2>1. /\ graph' \in Graphs /\ \A m \in Node \ {t.node} : graph'[m] = g[m]
        /\ graph'[t.node] # None => graph'[t.node].badge = "failed"
    BY <1>1, <1>2, <1>3, Badged
  <2>2. Grown
    BY <1>1, <1>2, <1>3, <2>1 DEF TypeOK, Used
  <2>q. QED
    BY <2>2
<1>4. ASSUME NEW k \in 0..MaxChildren, NEW names \in Names(k), g[t.node] # None,
             Len(foldRef) + k <= MaxNode, foldRef' = foldRef \o names,
             graph' = WithBadge(Projected(g, t.node, k, t.gen), t.node, "failed")
      PROVE  Grown
  <2> DEFINE h == Projected(g, t.node, k, t.gen)
  <2>1. k \in Nat
    BY ConstantsAssumption
  <2>2. /\ h \in Graphs /\ \A m \in NewNodes(k) : h[m] = Unit(t.node, t.gen)
        /\ \A m \in Node \ (NewNodes(k) \cup {t.node}) : h[m] = g[m]
    BY <1>1, <1>2, <1>4, <2>1, PutIn
  <2>3. /\ graph' \in Graphs /\ \A m \in Node \ {t.node} : graph'[m] = h[m]
        /\ graph'[t.node] # None => graph'[t.node].badge = "failed"
    BY <1>1, <1>4, <2>2, Badged
  <2>4. /\ foldRef' \in Seq(Ref) /\ Len(foldRef') = Len(foldRef) + k
        /\ \A m \in Used : foldRef'[m] = foldRef[m]
        /\ Used \subseteq Used' /\ NewNodes(k) = Used' \ Used
    BY <1>1, <1>4, <2>1, Named DEF Used
  <2>5. Used' \subseteq Node
    BY <1>4, <2>4, ConstantsAssumption DEF Used, Node
  <2> HIDE DEF h, g
  <2>q. QED
    BY <1>1, <1>2, <1>4, <2>2, <2>3, <2>4, <2>5
<1>5. Grown
  BY <1>3, <1>4 DEF ProjectionThrows
<1>q. QED
  BY <1>5

\* A projection that throws.
LEMMA ThrowsKeeps ==
  ASSUME FoldInv, NEW t \in waiting, ProjectionThrows(t)
  PROVE  FoldInv'
<1>1. /\ IsCurrent(t.ref, t.gen) /\ waiting' = waiting \ {t}
      /\ runs' = Finished(t.ref, "failed") /\ UNCHANGED <<gradients, logged, rev>>
  BY DEF ProjectionThrows
<1>2. TypeOK /\ t.ref \in Ref /\ runs[t.ref] # None /\ runs[t.ref].gen = t.gen
  BY <1>1, TaskTypes DEF FoldInv, IsCurrent, Running, Generation
<1>3. PICK run \in Runs : /\ runs' = [runs EXCEPT ![t.ref] = run]
                          /\ run.gen = t.gen /\ run.status = "failed"
                          /\ run.projection = runs[t.ref].projection
  <2>1. "failed" \in {"failed", "cancelled"}
    OBVIOUS
  <2>2. \E run \in Runs : /\ Finished(t.ref, "failed") = [runs EXCEPT ![t.ref] = run]
                         /\ run.gen = runs[t.ref].gen /\ run.status = "failed"
                         /\ run.projection = runs[t.ref].projection
    BY <1>2, <2>1, RunWithStatus
  <2>q. QED
    BY <1>1, <1>2, <2>2
<1>4. /\ foldRef' \in Seq(Ref) /\ Len(foldRef') <= MaxNode
      /\ Used \subseteq Used' /\ Used' \subseteq Node
      /\ \A m \in Used : foldRef'[m] = foldRef[m]
      /\ graph' \in Graphs /\ \A m \in Node \ Used' : graph'[m] = None
      /\ \A m \in Used \ {t.node} : graph'[m] = Unprojected(graph, t.previous)[m]
      /\ graph'[t.node] # None => graph'[t.node].badge # "running"
      /\ \A m \in Used' \ Used : graph'[m] = Unit(t.node, t.gen)
  BY ThrowsFacts
<1>5. /\ runs' \in [Ref -> Runs \cup {None}] /\ waiting' \subseteq Tasks
      /\ TasksInv' /\ RunsInv' /\ RunningIsAwaited'
      /\ ~(runs'[t.ref] # None /\ runs'[t.ref].status = "running")
      /\ \A f \in Ref : Running(f)' => Running(f)
      /\ \A f \in Ref \ {t.ref} : Running(f)' <=> Running(f)
  BY <1>1, <1>3, <1>4, RunEnds
<1>6. TypeOK'
  BY <1>1, <1>2, <1>4, <1>5 DEF TypeOK, Graphs
<1>7. BusyBadgeTellsTheRun'
  <2>1. \A m \in Used' : foldRef'[m] \in Ref
    BY <1>4 DEF Used
  <2>2. Unit(t.node, t.gen).badge = "none"
    BY DEF Unit
  <2>3. \A m \in Used' \ Used : graph'[m] # None => graph'[m].badge = "none"
    BY <1>4, <2>2
  <2>q. QED
    BY <1>4, <1>5, <2>1, <2>3, BadgesAfterAnswer
<1>q. QED
  BY <1>5, <1>6, <1>7 DEF FoldInv

\* A completed run has the projection it was given.
LEMMA RunCompleted ==
  ASSUME TypeOK, NEW f \in Ref, runs[f] # None, NEW p \in Projections
  PROVE  \E run \in Runs : /\ Completed(f, p) = [runs EXCEPT ![f] = run]
                           /\ run.gen = runs[f].gen /\ run.status = "complete"
                           /\ run.projection = p
<1> DEFINE done == [runs[f] EXCEPT !.status = "complete"]
           run == [done EXCEPT !.projection = p]
<1>1. runs \in [Ref -> Runs \cup {None}] /\ runs[f] \in Runs
  BY DEF TypeOK
<1>2. done \in Runs /\ done.gen = runs[f].gen /\ done.status = "complete"
  BY <1>1 DEF Runs
<1>3. run \in Runs /\ run.gen = runs[f].gen /\ run.status = "complete" /\ run.projection = p
  <2> HIDE DEF done
  <2>q. QED
    BY <1>2 DEF Runs
<1>4. Completed(f, p) = [runs EXCEPT ![f] = run]
  BY <1>1 DEF Completed
<1>q. QED
  BY <1>3, <1>4

\* What an answer that projects does to the nodes.
LEMMA ProjectsFacts ==
  ASSUME FoldInv, NEW t \in waiting, AnswerProjects(t)
  PROVE  /\ foldRef' \in Seq(Ref) /\ Len(foldRef') <= MaxNode
         /\ Used \subseteq Used' /\ Used' \subseteq Node
         /\ \A m \in Used : foldRef'[m] = foldRef[m]
         /\ graph' \in Graphs /\ \A m \in Node \ Used' : graph'[m] = None
         /\ \A m \in Used \ {t.node} : graph'[m] = Unprojected(graph, t.previous)[m]
         /\ graph'[t.node] # None => graph'[t.node].badge # "running"
         /\ \A m \in Used' \ Used : graph'[m] = Unit(t.node, t.gen)
         /\ \E p \in Projections : p.boundary = t.node /\ runs' = Completed(t.ref, p)
         /\ logged' \subseteq logged \cup {<<t.ref, t.gen>>}
<1> DEFINE g == Unprojected(graph, t.previous)
<1>1. /\ TypeOK /\ t.node \in Node /\ t.node \in Used /\ t.gen \in 0..MaxGen
      /\ foldRef \in Seq(Ref) /\ Used \subseteq Node
  BY TaskTypes, ConstantsAssumption DEF FoldInv, TypeOK, TasksInv, Used, Node
<1>2. g \in Graphs /\ \A m \in Node \ Used : g[m] = None
  BY WithoutThePrevious
<1> DEFINE Adds(k, badge, names) ==
  /\ Len(foldRef) + k <= MaxNode
  /\ foldRef' = foldRef \o names
  /\ graph' = WithBadge(Projected(g, t.node, k, t.gen), t.node, badge)
  /\ runs' = Completed(t.ref, [boundary |-> t.node, children |-> NewNodes(k),
                               replaced |-> g[t.node]])
  /\ logged' = IF badge = "complete" THEN logged \cup {<<t.ref, t.gen>>} ELSE logged
<1>0. PICK k \in 1..MaxChildren, badge \in {"complete", "failed"} :
        \E names \in Names(k) : Adds(k, badge, names)
  BY DEF AnswerProjects
<1>3. PICK names \in Names(k) : Adds(k, badge, names)
  BY <1>0
<1>4. g[t.node] # None
  BY DEF AnswerProjects
<1> DEFINE h == Projected(g, t.node, k, t.gen)
           p == [boundary |-> t.node, children |-> NewNodes(k), replaced |-> g[t.node]]
<1>5. k \in Nat /\ badge \in Badges
  BY ConstantsAssumption DEF Badges
<1>6. /\ h \in Graphs /\ \A m \in NewNodes(k) : h[m] = Unit(t.node, t.gen)
      /\ \A m \in Node \ (NewNodes(k) \cup {t.node}) : h[m] = g[m]
  BY <1>1, <1>2, <1>3, <1>4, <1>5, PutIn
<1>7. /\ graph' \in Graphs /\ \A m \in Node \ {t.node} : graph'[m] = h[m]
      /\ graph'[t.node] # None => graph'[t.node].badge = badge
  BY <1>1, <1>3, <1>5, <1>6, Badged
<1>8. /\ foldRef' \in Seq(Ref) /\ Len(foldRef') = Len(foldRef) + k
      /\ \A m \in Used : foldRef'[m] = foldRef[m]
      /\ Used \subseteq Used' /\ NewNodes(k) = Used' \ Used
  BY <1>1, <1>3, <1>5, Named DEF Used
<1>9. Used' \subseteq Node /\ Len(foldRef') <= MaxNode
  BY <1>3, <1>8, ConstantsAssumption DEF Used, Node
<1>10. p \in Projections /\ p.boundary = t.node /\ runs' = Completed(t.ref, p)
  <2>1. NewNodes(k) \subseteq Node
    BY <1>8, <1>9
  <2>2. g[t.node] \in Nodes
    BY <1>1, <1>2, <1>4 DEF Graphs
  <2>q. QED
    BY <1>1, <1>3, <2>1, <2>2 DEF Projections
<1>11. logged' \subseteq logged \cup {<<t.ref, t.gen>>}
  BY <1>3
<1> HIDE DEF g, h, p
<1>q. QED
  BY <1>1, <1>2, <1>6, <1>7, <1>8, <1>9, <1>10, <1>11 DEF g

\* A projection that succeeds.
LEMMA ProjectsKeeps ==
  ASSUME FoldInv, NEW t \in waiting, AnswerProjects(t)
  PROVE  FoldInv'
<1>1. /\ IsCurrent(t.ref, t.gen) /\ waiting' = waiting \ {t} /\ UNCHANGED <<gradients, rev>>
  BY DEF AnswerProjects
<1>2. TypeOK /\ t.ref \in Ref /\ runs[t.ref] # None /\ runs[t.ref].gen = t.gen
  BY <1>1, TaskTypes DEF FoldInv, IsCurrent, Running, Generation
<1>3. PICK p \in Projections : p.boundary = t.node /\ runs' = Completed(t.ref, p)
  BY ProjectsFacts
<1>4. PICK run \in Runs : /\ runs' = [runs EXCEPT ![t.ref] = run]
                          /\ run.gen = t.gen /\ run.status = "complete"
                          /\ run.projection = p
  BY <1>2, <1>3, RunCompleted
<1>5. /\ foldRef' \in Seq(Ref) /\ Len(foldRef') <= MaxNode
      /\ Used \subseteq Used' /\ Used' \subseteq Node
      /\ \A m \in Used : foldRef'[m] = foldRef[m]
      /\ graph' \in Graphs /\ \A m \in Node \ Used' : graph'[m] = None
      /\ \A m \in Used \ {t.node} : graph'[m] = Unprojected(graph, t.previous)[m]
      /\ graph'[t.node] # None => graph'[t.node].badge # "running"
      /\ \A m \in Used' \ Used : graph'[m] = Unit(t.node, t.gen)
      /\ logged' \subseteq logged \cup {<<t.ref, t.gen>>}
  BY ProjectsFacts
<1>6. /\ runs' \in [Ref -> Runs \cup {None}] /\ waiting' \subseteq Tasks
      /\ TasksInv' /\ RunsInv' /\ RunningIsAwaited'
      /\ ~(runs'[t.ref] # None /\ runs'[t.ref].status = "running")
      /\ \A f \in Ref : Running(f)' => Running(f)
      /\ \A f \in Ref \ {t.ref} : Running(f)' <=> Running(f)
  BY <1>1, <1>3, <1>4, <1>5, RunEnds
<1>7. TypeOK'
  <2>1. <<t.ref, t.gen>> \in Ref \X (1..MaxGen)
    BY <1>2, TaskTypes
  <2>2. logged' \subseteq Ref \X (1..MaxGen)
    BY <1>2, <1>5, <2>1 DEF TypeOK
  <2>q. QED
    BY <1>1, <1>2, <1>5, <1>6, <2>2 DEF TypeOK, Graphs
<1>8. BusyBadgeTellsTheRun'
  <2>1. \A m \in Used' : foldRef'[m] \in Ref
    BY <1>5 DEF Used
  <2>2. Unit(t.node, t.gen).badge = "none"
    BY DEF Unit
  <2>3. \A m \in Used' \ Used : graph'[m] # None => graph'[m].badge = "none"
    BY <1>5, <2>2
  <2>q. QED
    BY <1>5, <1>6, <2>1, <2>3, BadgesAfterAnswer
<1>q. QED
  BY <1>6, <1>7, <1>8 DEF FoldInv

\* A replacement cancels the run of its name and changes no other badge.
LEMMA ReplaceKeeps ==
  ASSUME FoldInv, NEW n \in Used, ReplaceUnit(n)
  PROVE  FoldInv'
<1> DEFINE f == foldRef[n]
           g == IF Running(f) THEN WithBadge(graph, n, "cancelled") ELSE graph
<1>1. /\ TypeOK /\ graph \in Graphs /\ n \in Node /\ f \in Ref /\ Used \subseteq Node
      /\ "cancelled" \in Badges
  BY ConstantsAssumption DEF FoldInv, TypeOK, Graphs, Used, Node, Badges
<1>2. /\ runs' = IF Running(f) THEN Finished(f, "cancelled") ELSE runs
      /\ UNCHANGED <<foldRef, gradients, waiting, logged>> /\ Used' = Used
      /\ rev' \in 0..MaxRev
  BY <1>1, ConstantsAssumption DEF ReplaceUnit, Used, TypeOK
<1>3. /\ g \in Graphs /\ \A m \in Node \ {n} : g[m] = graph[m]
      /\ g[n] # None => graph[n] # None
      /\ Running(f) /\ g[n] # None => g[n].badge = "cancelled"
      /\ ~Running(f) => g[n] = graph[n]
  <2>1. CASE Running(f)
    BY <1>1, <2>1, Badged
  <2>2. CASE ~Running(f)
    BY <1>1, <2>2
  <2>q. QED
    BY <2>1, <2>2
<1>4. /\ graph' \in Graphs
      /\ \A m \in Node : graph'[m] # None => g[m] # None /\ graph'[m].badge = g[m].badge
  <2>1. CASE graph' = g
    BY <1>3, <2>1
  <2>2. CASE /\ rev < MaxRev /\ rev' = rev + 1
             /\ graph' = [m \in Node |->
                  IF g[m] # None /\ (m = n \/ (m \in gradients /\ foldRef[m] = f))
                    THEN [g[m] EXCEPT !.rev = rev + 1] ELSE g[m]]
    <3>1. rev + 1 \in 0..MaxRev
      BY <1>1, <2>2, ConstantsAssumption DEF TypeOK
    <3>2. ASSUME NEW m \in Node, g[m] # None
          PROVE  /\ [g[m] EXCEPT !.rev = rev + 1] \in Nodes
                 /\ [g[m] EXCEPT !.rev = rev + 1].badge = g[m].badge
      <4>1. g[m] \in Nodes
        BY <1>3, <3>2 DEF Graphs
      <4> HIDE DEF g
      <4>q. QED
        BY <3>1, <4>1 DEF Nodes
    <3> HIDE DEF g
    <3>3. \A m \in Node : \/ graph'[m] = g[m]
                          \/ g[m] # None /\ graph'[m] = [g[m] EXCEPT !.rev = rev + 1]
      BY <2>2
    <3>4. \A m \in Node : /\ graph'[m] \in Nodes \cup {None}
                          /\ graph'[m] # None => g[m] # None /\ graph'[m].badge = g[m].badge
      BY <1>3, <3>2, <3>3 DEF Graphs
    <3>q. QED
      BY <2>2, <3>4 DEF Graphs
  <2>q. QED
    BY <2>1, <2>2 DEF ReplaceUnit
<1> HIDE DEF g, f
<1>5. /\ runs' \in [Ref -> Runs \cup {None}]
      /\ \A h \in Ref \ {f} : runs'[h] = runs[h]
      /\ Running(f) => /\ runs[f] # None /\ runs'[f] # None /\ runs'[f].gen = runs[f].gen
                       /\ runs'[f].status = "cancelled"
                       /\ runs'[f].projection = runs[f].projection
      /\ ~Running(f) => runs' = runs
  <2>1. CASE Running(f)
    <3>1. runs[f] # None
      BY <2>1 DEF Running
    <3>2. PICK run \in Runs : /\ Finished(f, "cancelled") = [runs EXCEPT ![f] = run]
                              /\ run.gen = runs[f].gen /\ run.status = "cancelled"
                              /\ run.projection = runs[f].projection
      BY <1>1, <3>1, RunWithStatus
    <3>q. QED
      BY <1>1, <1>2, <2>1, <3>1, <3>2, NoneAssumption DEF TypeOK
  <2>2. CASE ~Running(f)
    BY <1>1, <1>2, <2>2 DEF TypeOK
  <2>q. QED
    BY <2>1, <2>2
<1>6. /\ \A h \in Ref : Generation(h)' = Generation(h)
      /\ \A h \in Ref : Running(h)' <=> Running(h) /\ h # f
  BY <1>5 DEF Generation, Running
<1>7. TypeOK'
  <2>1. \A m \in Node \ Used : graph'[m] = None
    BY <1>1, <1>3, <1>4 DEF TypeOK
  <2>q. QED
    BY <1>1, <1>2, <1>4, <1>5, <2>1 DEF TypeOK, Graphs
<1>8. TasksInv'
  <2>1. \A t \in waiting : t.gen <= Generation(t.ref)'
    BY <1>1, <1>6, TaskTypes DEF FoldInv, TasksInv
  <2>q. QED
    BY <1>2, <2>1 DEF FoldInv, TasksInv
<1>9. RunsInv'
  BY <1>1, <1>2, <1>5 DEF FoldInv, RunsInv
<1>10. RunningIsAwaited'
  BY <1>2, <1>5, <1>6 DEF FoldInv, RunningIsAwaited
<1>11. BusyBadgeTellsTheRun'
  <2> SUFFICES ASSUME NEW m \in Used, graph'[m] # None, Unique(m)
               PROVE  graph'[m].badge = "running" <=> Running(foldRef[m])'
    BY <1>2 DEF BusyBadgeTellsTheRun, Shown, Unique
  <2>1. m \in Node /\ foldRef[m] \in Ref /\ foldRef'[m] = foldRef[m]
    BY <1>1, <1>2 DEF TypeOK, Used
  <2>2. graph[m] # None => (graph[m].badge = "running" <=> Running(foldRef[m]))
    BY DEF FoldInv, BusyBadgeTellsTheRun, Shown, Unique
  <2>3. Running(foldRef[m])' <=> Running(foldRef[m]) /\ foldRef[m] # f
    <3> DEFINE h == foldRef[m]
    <3>1. h \in Ref
      BY <2>1
    <3>2. runs'[h] # None /\ runs'[h].status = "running" <=> Running(h) /\ h # f
      <4> HIDE DEF h
      <4>q. QED
        BY <1>6, <3>1 DEF Running
    <3>q. QED
      BY <2>1, <3>2 DEF Running
  <2>4. CASE m = n
    BY <1>3, <1>4, <2>1, <2>2, <2>3, <2>4 DEF f
  <2>5. CASE m # n
    <3>1. foldRef[m] # f
      BY <2>5 DEF Unique, f
    <3>q. QED
      BY <1>3, <1>4, <2>1, <2>2, <2>3, <2>5, <3>1
  <2>q. QED
    BY <2>4, <2>5
<1>q. QED
  BY <1>7, <1>8, <1>9, <1>10, <1>11 DEF FoldInv

\* A new decomposition of the source.
LEMMA ExecuteKeeps ==
  ASSUME FoldInv, Execute
  PROVE  FoldInv'
<1> DEFINE Adds(k, names) ==
  /\ Len(foldRef) + k <= MaxNode
  /\ foldRef' = foldRef \o names
  /\ gradients' = NewNodes(k)
  /\ graph' = [n \in Node |-> IF n \in NewNodes(k) THEN Unit(Root, 0)
                             ELSE IF n \in gradients THEN None ELSE graph[n]]
  /\ UNCHANGED <<runs, waiting, logged, rev>>
<1>1. PICK k \in 1..MaxChildren : \E names \in Names(k) : Adds(k, names)
  BY DEF Execute
<1>2. PICK names \in Names(k) : Adds(k, names)
  BY <1>1
<1>3. TypeOK /\ graph \in Graphs /\ foldRef \in Seq(Ref) /\ k \in Nat
  BY ConstantsAssumption DEF FoldInv, TypeOK, Graphs
<1>4. /\ foldRef' \in Seq(Ref) /\ Len(foldRef') = Len(foldRef) + k
      /\ \A m \in Used : foldRef'[m] = foldRef[m]
      /\ Used \subseteq Used' /\ NewNodes(k) = Used' \ Used
  BY <1>2, <1>3, Named DEF Used
<1>5. Used' \subseteq Node /\ Len(foldRef') <= MaxNode
  BY <1>2, <1>4, ConstantsAssumption DEF Used, Node
<1>6. Unit(Root, 0) \in Nodes /\ Unit(Root, 0).badge = "none"
  BY ConstantsAssumption DEF Unit, Nodes, Badges
<1>7. /\ graph' \in Graphs /\ \A m \in Node \ Used' : graph'[m] = None
      /\ \A m \in Used' \ Used : graph'[m] = Unit(Root, 0)
      /\ \A m \in Used : graph'[m] # None => graph'[m] = graph[m]
  <2>1. \A m \in Node : graph'[m] \in Nodes \cup {None}
    BY <1>2, <1>3, <1>6 DEF Graphs
  <2>2. graph' \in Graphs
    BY <1>2, <2>1 DEF Graphs
  <2>q. QED
    BY <1>2, <1>3, <1>4, <1>5, <2>2 DEF TypeOK
<1>8. TypeOK'
  BY <1>2, <1>3, <1>4, <1>5, <1>7 DEF TypeOK, Graphs
<1>9. UNCHANGED <<runs, waiting>>
  BY <1>2
<1>10. TasksInv'
  BY <1>4, <1>9 DEF FoldInv, TasksInv, Generation
<1>11. RunsInv'
  BY <1>4, <1>9 DEF FoldInv, RunsInv
<1>12. RunningIsAwaited'
  BY <1>9 DEF FoldInv, RunningIsAwaited, Running
<1>13. BusyBadgeTellsTheRun'
  <2>1. \A m \in Used : graph'[m] # None /\ Unique(m) =>
          (graph'[m].badge = "running" <=> Running(foldRef[m])')
    BY <1>4, <1>7, <1>9
    DEF FoldInv, BusyBadgeTellsTheRun, Shown, Unique, Running
  <2>2. \A f \in Ref : Running(f)' => \E n \in Used : foldRef[n] = f
    BY <1>9, RunsHaveNodes DEF Running
  <2>3. \A m \in Used' : foldRef'[m] \in Ref
    BY <1>4 DEF Used
  <2>4. \A m \in Used' \ Used : graph'[m] # None => graph'[m].badge = "none"
    BY <1>6, <1>7
  <2>q. QED
    BY <1>4, <2>1, <2>2, <2>3, <2>4, BadgesFollow
<1>q. QED
  BY <1>8, <1>10, <1>11, <1>12, <1>13 DEF FoldInv

----------------------------------------------------------------------------
\* The theorems

LEMMA StepsKeep == FoldInv /\ [Next]_vars => FoldInv'
<1> SUFFICES ASSUME FoldInv, [Next]_vars PROVE FoldInv'
  OBVIOUS
<1>1. ASSUME NEW n \in Used, NEW text \in Text, RequestWhy(n, text) PROVE FoldInv'
  <2>1. foldRef[n] \in Ref
    BY DEF FoldInv, TypeOK, Used
  <2>q. QED
    BY <1>1, <2>1, RequestKeeps
<1>2. ASSUME NEW n \in Used, ReplaceUnit(n) PROVE FoldInv'
  BY <1>2, ReplaceKeeps
<1>3. ASSUME NEW t \in waiting, Answer(t) PROVE FoldInv'
  BY <1>3, TooLateKeeps, FailsKeeps, ThrowsKeeps, ProjectsKeeps DEF Answer
<1>4. CASE Execute
  BY <1>4, ExecuteKeeps
<1>5. CASE UNCHANGED vars
  BY <1>5
  DEF vars, FoldInv, TypeOK, TasksInv, RunsInv, RunningIsAwaited, BusyBadgeTellsTheRun,
      Used, Shown, Running, Generation
<1>q. QED
  BY <1>1, <1>2, <1>3, <1>4, <1>5 DEF Next

\* The invariant holds in every state.
LEMMA FoldHolds == Spec => []FoldInv
<1>1. Init => FoldInv
  BY FoldBegins
<1>2. FoldInv /\ [Next]_vars => FoldInv'
  BY StepsKeep
<1>q. QED
  BY <1>1, <1>2, PTL DEF Spec

\* Type correctness of the controller and of the graph it projects into.
THEOREM FoldTypesHold == Spec => []TypeOK
<1>1. FoldInv => TypeOK
  BY DEF FoldInv
<1>q. QED
  BY <1>1, FoldHolds, PTL

\* A run that is marked running is awaited by exactly one fetch
\* (recursive-fold-controller.ts:57, App.tsx:226): nobody is left blocked by a
\* run that no answer can end.
THEOREM RunningRunsAreAwaited == Spec => []RunningIsAwaited
<1>1. FoldInv => RunningIsAwaited
  BY DEF FoldInv
<1>q. QED
  BY <1>1, FoldHolds, PTL

\* The badge that disables a unit's button is shown exactly while its run is on,
\* as long as foldRefs are not used twice.
THEOREM BadgesTellTheRuns == Spec => []BusyBadgeTellsTheRun
<1>1. FoldInv => BusyBadgeTellsTheRun
  BY DEF FoldInv
<1>q. QED
  BY <1>1, FoldHolds, PTL

\* An answer of a run that was cancelled or superseded adds no node to the graph.
THEOREM LateAnswersAddNothing == Spec => OnlyTheCurrentRunProjects
<1> DEFINE Adds ==
  \A n \in 1..Len(foldRef') \ Used : graph'[n].parent # Root =>
    LET f == foldRef[graph'[n].parent] IN
    Running(f) /\ graph'[n].gen = runs[f].gen
<1>1. FoldInv /\ [Next]_vars => Adds
  <2> SUFFICES ASSUME FoldInv, [Next]_vars PROVE Adds
    OBVIOUS
  <2>1. CASE UNCHANGED foldRef
    BY <2>1 DEF Used
  <2>2. CASE Execute
    <3>1. PICK k \in 1..MaxChildren : \E names \in Names(k) :
            /\ foldRef' = foldRef \o names
            /\ graph' = [n \in Node |-> IF n \in NewNodes(k) THEN Unit(Root, 0)
                                       ELSE IF n \in gradients THEN None ELSE graph[n]]
            /\ Len(foldRef) + k <= MaxNode
      BY <2>2 DEF Execute
    <3>2. k \in Nat /\ foldRef \in Seq(Ref)
      BY ConstantsAssumption DEF FoldInv, TypeOK
    <3>3. NewNodes(k) = Used' \ Used /\ NewNodes(k) \subseteq Node
      <4>1. /\ Len(foldRef') = Len(foldRef) + k /\ NewNodes(k) = Used' \ Used
        BY <3>1, <3>2, Named DEF Used
      <4>q. QED
        BY <3>1, <3>2, <4>1, ConstantsAssumption DEF Used, Node
    <3>4. \A n \in Used' \ Used : graph'[n].parent = Root
      BY <3>1, <3>3 DEF Unit
    <3>q. QED
      BY <3>4 DEF Used
  <2>3. ASSUME NEW t \in waiting, AnswerProjects(t) PROVE Adds
    <3>1. \A n \in Used' \ Used : graph'[n] = Unit(t.node, t.gen)
      BY <2>3, ProjectsFacts
    <3>2. foldRef[t.node] = t.ref /\ Running(t.ref) /\ runs[t.ref].gen = t.gen
      BY <2>3 DEF FoldInv, TasksInv, AnswerProjects, IsCurrent, Generation, Running
    <3>q. QED
      BY <3>1, <3>2 DEF Unit, Used
  <2>4. ASSUME NEW t \in waiting, ProjectionThrows(t) PROVE Adds
    <3>1. \A n \in Used' \ Used : graph'[n] = Unit(t.node, t.gen)
      BY <2>4, ThrowsFacts
    <3>2. foldRef[t.node] = t.ref /\ Running(t.ref) /\ runs[t.ref].gen = t.gen
      BY <2>4 DEF FoldInv, TasksInv, ProjectionThrows, IsCurrent, Generation, Running
    <3>q. QED
      BY <3>1, <3>2 DEF Unit, Used
  <2>q. QED
    BY <2>1, <2>2, <2>3, <2>4
    DEF Next, Answer, RequestWhy, ReplaceUnit, AnswerTooLate, AnswerFails, vars
<1>2. FoldInv /\ [Next]_vars => [Adds]_vars
  BY <1>1
<1>q. QED
  BY <1>2, FoldHolds, PTL DEF Spec, OnlyTheCurrentRunProjects
=============================================================================

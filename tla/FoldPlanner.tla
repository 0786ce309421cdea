----------------------------- MODULE FoldPlanner -----------------------------
(***************************************************************************)
(* packages/core/src/parallel-fold.ts: planParallelFold, one step per      *)
(* wave, called again and again by a runner that works the plan off.       *)
(*                                                                         *)
(* The plan authorises nothing; the runner is not in the repository.  What *)
(* is assumed of it is that it takes children from the first wave of the   *)
(* plan and calls again with what became of them.                          *)
(***************************************************************************)
EXTENDS Integers, Sequences, FiniteSets

CONSTANT Inputs \* the lists of children the first call may be made with

ChildStatuses == {"ready", "completed", "unverified"}
Contexts == {"resolved", "unknown", "bottom"}
Reasons == {"parent-context-unresolved", "child-status-unverified",
            "dependency-not-found", "dependency-cycle-or-blocked"}

VARIABLES
  parent,      \* parentContextStatus
  children,    \* the children of the call by place, [childRef, dependsOn, status]
  phase,       \* of the call: "given", "planning", "planned", "refused" (it threw)
  schedulable, \* references of ready children not yet in a wave
  available,   \* references of the completed and of those in a wave
  waves,       \* the plan so far: a sequence of sets of references
  blocked      \* [childRef, reason]

planVars == <<parent, children, phase, schedulable, available, waves, blocked>>

Refs == {children[i].childRef : i \in DOMAIN children}
Marked(status) == {children[i].childRef : i \in {j \in DOMAIN children : children[j].status = status}}
Deps(ref) == UNION {children[i].dependsOn : i \in {j \in DOMAIN children : children[j].childRef = ref}}
Distinct == \A i, j \in DOMAIN children : children[i].childRef = children[j].childRef => i = j
Waved == UNION {waves[k] : k \in DOMAIN waves}

Blocked(refs, reason) == {[childRef |-> r, reason |-> reason] : r \in refs}

----------------------------------------------------------------------------
\* planParallelFold

PlanInit ==
  /\ parent \in Contexts /\ children \in Inputs
  /\ phase = "given" /\ schedulable = {} /\ available = {} /\ waves = <<>> /\ blocked = {}

Refuse ==
  /\ phase = "given" /\ ~Distinct
  /\ phase' = "refused"
  /\ UNCHANGED <<parent, children, schedulable, available, waves, blocked>>

HoldBack ==
  /\ phase = "given" /\ Distinct /\ parent # "resolved"
  /\ blocked' = Blocked(Refs \ Marked("completed"), "parent-context-unresolved")
  /\ phase' = "planned"
  /\ UNCHANGED <<parent, children, schedulable, available, waves>>

Missing(ref) == Deps(ref) \ Refs

Prepare ==
  LET cut == {r \in Marked("ready") : Missing(r) # {}} IN
  /\ phase = "given" /\ Distinct /\ parent = "resolved"
  /\ schedulable' = Marked("ready") \ cut
  /\ available' = Marked("completed")
  /\ blocked' = Blocked(Marked("unverified"), "child-status-unverified")
                  \cup Blocked(cut, "dependency-not-found")
  /\ phase' = "planning"
  /\ UNCHANGED <<parent, children, waves>>

\* The children whose dependencies are all available.  Mutants: one of them is
\* enough; only children without dependencies are looked at.
NextWaveOfAny == {r \in schedulable : Deps(r) = {} \/ Deps(r) \cap available # {}}
NextWaveOfFirst == {r \in schedulable : Deps(r) = {}}
NextWave == {r \in schedulable : Deps(r) \subseteq available}

PlanWave ==
  /\ phase = "planning" /\ NextWave # {}
  /\ waves' = Append(waves, NextWave)
  /\ available' = available \cup NextWave
  /\ schedulable' = schedulable \ NextWave
  /\ UNCHANGED <<parent, children, phase, blocked>>

\* Nothing is left, or what is left waits for itself or for what is blocked.
\* The mutant drops it without a word.
LeftUnsaid == {}
Left == Blocked(schedulable, "dependency-cycle-or-blocked")

StopPlanning ==
  /\ phase = "planning" /\ NextWave = {}
  /\ blocked' = blocked \cup Left
  /\ phase' = "planned"
  /\ UNCHANGED <<parent, children, schedulable, available, waves>>

Plan == Refuse \/ HoldBack \/ Prepare \/ PlanWave \/ StopPlanning

----------------------------------------------------------------------------
\* The runner, which calls again.
CallAgain(context, list) ==
  /\ parent' = context /\ children' = list
  /\ phase' = "given" /\ schedulable' = {} /\ available' = {} /\ waves' = <<>> /\ blocked' = {}

Settle(ref, status) ==
  /\ phase = "planned" /\ waves # <<>> /\ ref \in waves[1]
  /\ CallAgain(parent, [i \in DOMAIN children |->
                          IF children[i].childRef = ref THEN [children[i] EXCEPT !.status = status]
                          ELSE children[i]])

ResolveContext == phase = "planned" /\ parent # "resolved" /\ CallAgain("resolved", children)

Run == (\E ref \in Refs, status \in {"completed", "unverified"} : Settle(ref, status)) \/ ResolveContext

PlanNext == Plan \/ Run

PlanSpec == PlanInit /\ [][PlanNext]_planVars

----------------------------------------------------------------------------
PlanTypeOK ==
  /\ parent \in Contexts /\ phase \in {"given", "planning", "planned", "refused"}
  /\ schedulable \subseteq Marked("ready") /\ available \subseteq Refs
  /\ waves \in Seq(SUBSET Marked("ready"))
  /\ blocked \subseteq [childRef : Refs, reason : Reasons]

\* Whatever a child of a wave depends on is completed or in an earlier wave, so
\* a runner that works off the waves in order never starts a child too early.
WavesFollowDependencies ==
  \A k \in DOMAIN waves : \A r \in waves[k] :
    Deps(r) \subseteq Marked("completed") \cup UNION {waves[j] : j \in 1..(k - 1)}

\* A finished plan loses no child and counts none twice: each is completed, in
\* exactly one wave, or blocked for exactly one reason.
EveryChildIsAccountedFor ==
  phase = "planned" =>
    /\ Refs = Marked("completed") \cup Waved \cup {b.childRef : b \in blocked}
    /\ \A j, k \in DOMAIN waves : j # k => waves[j] \cap waves[k] = {}
    /\ \A b \in blocked : b.childRef \notin Marked("completed") \cup Waved
    /\ \A a, b \in blocked : a.childRef = b.childRef => a = b

\* Ready children of which each waits for another of them, or for one that is
\* unverified or unknown, can never run ...
Knot(S) ==
  \A r \in S : \E d \in Deps(r) : d \in S \/ d \notin Marked("completed") \cup Marked("ready")

\* ... and beside the unverified ones these are what a plan blocks, none else:
\* a child left out of the waves has a reason that no order of runs removes.
OnlyTheStuckAreBlocked ==
  phase = "planned" /\ parent = "resolved" =>
    {b.childRef : b \in blocked} =
      Marked("unverified") \cup UNION {S \in SUBSET Marked("ready") : Knot(S)}
==============================================================================

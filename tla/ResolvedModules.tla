--------------------------- MODULE ResolvedModules ---------------------------
(***************************************************************************)
(* packages/core from a FAM module to the plans of its Folds: the walk of  *)
(* resolveFamModuleGraph, which normalises each module it finds and goes   *)
(* on with the references of its topology, and a runner that then plans    *)
(* the modules of the graph, one of them in a behaviour.                   *)
(***************************************************************************)
EXTENDS ModuleGraph, TopologyRunner

CONSTANTS
  Roots,     \* FAMs the walk may begin with
  Answers,   \* FAMs the resolver may answer with
  MaxPlanned \* bound of the model: references of a graph whose modules are planned

VARIABLE fams \* the FAM of each of modules

planning == <<topology, planVars>>
allVars == <<vars, fams, planning>>

\* The revisions the references of a FAM pin.
Pins(fam) ==
  LET found == NormalizeFamTopology(fam).moduleReferences
  IN  [i \in DOMAIN found |-> found[i].pin]

ASSUME FamsAssumption == \A fam \in Roots \cup Answers : IsFam(fam)

\* What the resolver answers with pins what documents pin.
ASSUME AnswersAssumption == \A fam \in Answers : Pins(fam) \in Documents

ResolvedInit ==
  /\ Init
  /\ \E fam \in Roots : Pins(fam) = modules[1].refs /\ fams = <<fam>>
  /\ RunnerInit

\* visit enters the module that answers the reference.
EnterFam == \E k \in Key, fam \in Answers : Enter(k, Pins(fam)) /\ fams' = Append(fams, fam)

AnswerWithoutEntering ==
  /\ \/ Unresolved \/ Throw \/ Return
     \/ \E k \in Key : RevisionMismatch(k) \/ Known(k) \/ LimitReached(k)
  /\ UNCHANGED fams

Walk == (EnterFam \/ AnswerWithoutEntering) /\ UNCHANGED planning

\* One of the modules of the graph is planned.
PlanModule ==
  /\ status = "graph" /\ topology = Undefined /\ Len(references) <= MaxPlanned
  /\ \E i \in DOMAIN fams, context \in Contexts : Begin(fams[i], context)
  /\ UNCHANGED <<vars, fams>>

RunPlan == RunnerNext /\ UNCHANGED <<vars, fams>>

ResolvedNext == Walk \/ PlanModule \/ RunPlan

\* The resolver answers.
ResolvedSpec == ResolvedInit /\ [][ResolvedNext]_allVars /\ WF_allVars(Walk)
=============================================================================

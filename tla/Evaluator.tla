------------------------------ MODULE Evaluator ------------------------------
(***************************************************************************)
(* packages/core/src/evaluator.ts: one call of evaluateQ, from the entry   *)
(* of the root query to the result it resolves with (or its rejection).    *)
(*                                                                         *)
(* evaluateNode recurses through query-ref inputs, so the call chain is a  *)
(* stack of frames, innermost first.  A step runs from one await to the    *)
(* next.  Between two steps the environment acts: time passes, the plugin, *)
(* the query resolver and the verifier answer, or never do.                *)
(*                                                                         *)
(* A query is read lazily: its input kind, each operation and its goal are *)
(* chosen when the code reads them, which ranges over every query tree.    *)
(* Values are left out; evidence is the set of parties that supplied it,   *)
(* and of the seven status axes control, transport and lambda are kept     *)
(* (semantic moves with lambda).                                           *)
(***************************************************************************)
EXTENDS Integers, Sequences

CONSTANTS
  Id,        \* queryId values
  Name,      \* names of bindings
  MaxDepth,  \* bound of the model: the largest policy.limits.maxDepth
  MaxNodes,  \* bound of the model: the largest policy.limits.maxNodes
  Timeout,   \* policy.limits.timeoutMs of the root query, in ticks
  MaxOps     \* bound of the model: operations per query

ASSUME LimitsAssumption ==
  MaxDepth \in Nat /\ MaxNodes \in Nat /\ Timeout \in Nat /\ MaxOps \in Nat

VARIABLES
  limits,   \* state.limits: policy.limits of the root query
  phase,    \* where the innermost call stands
  query,    \* the id evaluateNode is entered with
  stack,    \* frames of the calls that passed the checks, innermost first
  active,   \* state.active
  bound,    \* the names state.bindings holds
  nodes,    \* state.nodes
  clock,    \* now() - startedAt, saturated one tick after the deadline
  timer,    \* ticks left on the plugin timer, Off when none is armed
  signal,   \* the AbortSignal of the last plugin call
  result,   \* the QueryResult on its way up
  vouched   \* history: some verifier has answered "satisfied" with evidence

vars == <<limits, phase, query, stack, active, bound, nodes, clock, timer, signal,
          result, vouched>>

Limits == [maxDepth : 0..MaxDepth, maxNodes : 0..MaxNodes]
Off == -1
Phases == {"enter", "input", "resolving", "ops", "calling", "verifying",
           "return", "throw", "done", "rejected"}
Controls == {"result", "bottom", "last-order"}
Lambdas == {"not-evaluated", "unknown", "satisfied", "unsatisfied"}
Transports == {"not-started", "succeeded", "failed", "unknown"}
Goals == {"none", "unverified", "verified"}   \* query.goal and its verifierRef
Parties == {"plugin", "verifier"}

Verdicts == {"none", "no-evidence", "satisfied", "unsatisfied"}  \* of runVerifier
Signals == {"none", "live", "settled", "aborted"}
Reasons == {"", "max-depth-exceeded", "max-nodes-exceeded", "timeout-exceeded",
            "cycle-detected", "mapping-unavailable", "projection-input-not-object",
            "binding-not-found", "query-ref-not-found", "plugin-not-found",
            "plugin-call-threw", "plugin-call-failed", "plugin-output-invalid",
            "plugin-output-profile-nonconformant"}

Frames == [id : Id, goal : Goals, ops : 0..MaxOps, transport : Transports,
           lambda : Lambdas, reason : Reasons, evidence : SUBSET Parties,
           verdict : Verdicts]

Results == [query : Id, control : Controls, reason : Reasons, transport : Transports,
            lambda : Lambdas, evidence : SUBSET Parties, goal : Goals]

Top == Head(stack)
MaxOf(a, b) == IF a > b THEN a ELSE b

----------------------------------------------------------------------------
\* The results the code builds.

Envelope(q, control, reason, transport, lambda, evidence) ==
  [query |-> q, control |-> control, reason |-> reason, transport |-> transport,
   lambda |-> lambda, evidence |-> evidence, goal |-> "none"]

Bottom(q, reason)  == Envelope(q, "bottom", reason, "not-started", "not-evaluated", {})
Unknown(q, reason) == Envelope(q, "result", reason, "not-started", "unknown", {})
LimitResult(q, reason) ==
  Envelope(q, "last-order", reason, "not-started", "not-evaluated", {})
ResourceLimit(q)    == Envelope(q, "last-order", "timeout-exceeded", "unknown", "unknown", {})
PluginCallFailed(q) == Envelope(q, "last-order", "plugin-call-threw", "failed", "unknown", {})
PluginNotFound(q) ==
  Envelope(q, "last-order", "plugin-not-found", "not-started", "unknown", {})

\* completeAxes: the axes a query without a goal leaves with are those it inherited.
HasEvidence(verdict) == verdict \in {"satisfied", "unsatisfied"}

\* The mutant takes the plugin's success for the goal's.
CompletedLambdaOnTransport(f) ==
  IF f.transport = "succeeded" THEN "satisfied" ELSE f.lambda

CompletedLambda(f) ==
  IF f.goal = "none" THEN f.lambda
  ELSE IF HasEvidence(f.verdict) THEN f.verdict ELSE "unknown"

Completed(f) ==
  [query |-> f.id, control |-> "result", reason |-> f.reason,
   transport |-> f.transport, lambda |-> CompletedLambda(f), goal |-> f.goal,
   evidence |-> f.evidence \cup (IF HasEvidence(f.verdict) THEN {"verifier"} ELSE {})]

NoResult == Envelope(CHOOSE i \in Id : TRUE, "result", "", "not-started", "not-evaluated", {})

----------------------------------------------------------------------------
Init ==
  /\ limits \in Limits
  /\ phase = "enter" /\ query \in Id
  /\ stack = <<>> /\ active = {} /\ nodes = 0
  /\ bound \in SUBSET Name
  /\ clock = 0 /\ timer = Off /\ signal = "none"
  /\ result = NoResult /\ vouched = FALSE

\* A result leaves evaluateNode before the frame exists: no finally block runs.
Refuse(r) ==
  /\ result' = r /\ phase' = "return"
  /\ UNCHANGED <<limits, query, stack, active, bound, nodes, clock, timer, signal, vouched>>

\* Mutant: the finally block is gone.
FinallyForgotten == stack' = Tail(stack) /\ UNCHANGED active

Finally == stack' = Tail(stack) /\ active' = active \ {Top.id}

\* A result leaves evaluateNode from inside try.
Leave(r) ==
  /\ result' = r /\ phase' = "return"
  /\ Finally
  /\ UNCHANGED <<limits, query, bound, nodes, clock, vouched>>

\* Evaluation of the same query goes on with f for its frame.
Continue(f, next) ==
  /\ stack' = <<f>> \o Tail(stack) /\ phase' = next
  /\ UNCHANGED <<limits, query, active, nodes, clock, result>>

KeepTimer == UNCHANGED <<timer, signal>>

----------------------------------------------------------------------------
\* evaluateNode up to the try block: checkLimits, the cycle check, the frame.
LimitReason ==
  IF Len(stack) > limits.maxDepth THEN "max-depth-exceeded"
  ELSE IF nodes >= limits.maxNodes THEN "max-nodes-exceeded"
  ELSE IF clock > Timeout THEN "timeout-exceeded" ELSE ""

NewFrame(q, goal) ==
  [id |-> q, goal |-> goal, ops |-> 0, transport |-> "not-started",
   lambda |-> "not-evaluated", reason |-> "", evidence |-> {}, verdict |-> "none"]

StopAtLimit ==
  /\ phase = "enter" /\ LimitReason # ""
  /\ Refuse(LimitResult(query, LimitReason))

StopAtCycle ==
  /\ phase = "enter" /\ LimitReason = "" /\ query \in active
  /\ Refuse(Bottom(query, "cycle-detected"))

EnterNode ==
  /\ phase = "enter" /\ LimitReason = "" /\ query \notin active
  /\ nodes' = nodes + 1
  /\ active' = active \cup {query}
  /\ \E goal \in Goals : stack' = <<NewFrame(query, goal)>> \o stack
  /\ phase' = "input"
  /\ UNCHANGED <<limits, query, bound, clock, timer, signal, result, vouched>>

\* resolveInput, by the kind of query.input.
ResolveInput ==
  /\ phase = "input"
  /\ \/ phase' = "ops"                                  \* literal
     \/ bound # {} /\ phase' = "ops"                    \* binding, found
     \/ phase' = "resolving"                            \* query-ref
  /\ UNCHANGED <<limits, query, stack, active, bound, nodes, clock, timer, signal, result, vouched>>

BindingMissing ==
  /\ phase = "input" /\ bound # Name
  /\ Leave(Unknown(Top.id, "binding-not-found")) /\ KeepTimer

ResolverAnswers ==
  /\ phase = "resolving"
  /\ \/ \E q \in Id :
          /\ query' = q /\ phase' = "enter"
          /\ UNCHANGED <<limits, stack, active, bound, nodes, clock, timer, signal, result, vouched>>
     \/ Leave(Unknown(Top.id, "query-ref-not-found")) /\ KeepTimer

\* The caller resumes with the result of the query it referred to: a stop goes
\* up unchanged, a result lends its value and all of its axes.
GoesUpIfBottom(r) == r.control = "bottom"   \* mutant: a Last Order is a value
GoesUp(r) == r.control # "result"

CallerResumes ==
  /\ phase = "return" /\ stack # <<>>
  /\ IF GoesUp(result)
       THEN Leave(result)
       ELSE /\ Continue([Top EXCEPT !.transport = result.transport,
                                    !.lambda = result.lambda,
                                    !.reason = result.reason], "ops")
            /\ UNCHANGED <<bound, vouched>>
  /\ KeepTimer

\* evaluateQ resolves.
Resolve ==
  /\ phase = "return" /\ stack = <<>>
  /\ phase' = "done"
  /\ UNCHANGED <<limits, query, stack, active, bound, nodes, clock, timer, signal, result, vouched>>

----------------------------------------------------------------------------
\* The loop over query.operations.
HasOperation == phase = "ops" /\ Top.ops < MaxOps

NextOp(f) == [f EXCEPT !.ops = @ + 1]

SelectOrProject ==
  /\ HasOperation
  /\ \/ Continue(NextOp(Top), "ops") /\ UNCHANGED <<bound, vouched>>
     \/ \E reason \in {"mapping-unavailable", "projection-input-not-object"} :
          Leave(Bottom(Top.id, reason))
  /\ KeepTimer

Bind ==
  /\ HasOperation
  /\ \E name \in Name : bound' = bound \cup {name}
  /\ Continue(NextOp(Top), "ops") /\ KeepTimer /\ UNCHANGED vouched

Validate ==
  /\ HasOperation
  /\ Continue(NextOp(Top), "verifying") /\ KeepTimer /\ UNCHANGED <<bound, vouched>>

\* The mutant has the clamp the wrong way round.
RemainingOneTick == 1
Remaining == MaxOf(1, Timeout - clock)

\* invokeCapability up to Promise.race; no pluginResolver is a Last Order at once.
Invoke ==
  /\ HasOperation
  /\ Continue(NextOp(Top), "calling")
  /\ timer' = Remaining
  /\ signal' = "live"
  /\ UNCHANGED <<bound, vouched>>

InvokeWithoutResolver ==
  /\ HasOperation
  /\ Leave(PluginNotFound(Top.id)) /\ KeepTimer

\* Promise.race settles with the plugin's answer; finally clears the timer.
PluginStops(q) ==
  {PluginNotFound(q), PluginCallFailed(q), ResourceLimit(q)}
    \cup {Envelope(q, "last-order", r[1], r[2], r[3], ev) :
           r \in {<<"plugin-call-failed", "failed", "unknown">>,
                  <<"plugin-output-invalid", "succeeded", "unknown">>,
                  <<"plugin-output-profile-nonconformant", "succeeded", "not-evaluated">>},
           ev \in {{}, {"plugin"}}}

CallSettles ==
  \/ \E r \in PluginStops(Top.id) : Leave(r)
  \/ \E t \in {"succeeded", "unknown"}, ev \in SUBSET {"plugin"} :
       /\ Continue([Top EXCEPT !.transport = t, !.evidence = @ \cup ev], "ops")
       /\ UNCHANGED <<bound, vouched>>

PluginAnswers ==
  /\ phase = "calling"
  /\ CallSettles
  /\ timer' = Off /\ signal' = "settled"

\* The setTimeout callback aborts the plugin's signal, whose listeners run first
\* and may settle the call themselves; then it wins the race.
\* Mutant: it aborts and leaves the race to the plugin.
AbortOnly == UNCHANGED <<limits, phase, query, stack, active, bound, nodes, clock, result, vouched>>
RaceAtTheDeadline == Leave(ResourceLimit(Top.id)) \/ CallSettles

TimerFires ==
  /\ timer = 0
  /\ timer' = Off /\ signal' = "aborted"
  /\ IF phase = "calling"
       THEN RaceAtTheDeadline
       ELSE UNCHANGED <<limits, phase, query, stack, active, bound, nodes, clock, result, vouched>>

\* runVerifier: a missing verifier is unsatisfied without evidence.
VerifierAnswers ==
  /\ phase = "verifying"
  /\ \E verdict \in Verdicts \ {"none"} :
       /\ Continue([Top EXCEPT !.verdict = verdict], "ops")
       /\ vouched' = (vouched \/ verdict = "satisfied")
  /\ KeepTimer /\ UNCHANGED bound

\* After the loop: the goal's verifier runs only if no validate operation did.
RunGoalVerifier ==
  /\ phase = "ops" /\ Top.goal = "verified" /\ Top.verdict = "none"
  /\ Continue([Top EXCEPT !.ops = MaxOps], "verifying")
  /\ KeepTimer /\ UNCHANGED <<bound, vouched>>

CompleteNode ==
  /\ phase = "ops" /\ (Top.goal = "verified" => Top.verdict # "none")
  /\ Leave(Completed(Top)) /\ KeepTimer

----------------------------------------------------------------------------
\* The query resolver or a verifier rejects: every finally block runs, no
\* result is built.
CalleeThrows ==
  /\ phase \in {"resolving", "verifying"}
  /\ phase' = "throw"
  /\ UNCHANGED <<limits, query, stack, active, bound, nodes, clock, timer, signal, result, vouched>>

Unwind ==
  /\ phase = "throw"
  /\ IF stack = <<>>
       THEN phase' = "rejected" /\ UNCHANGED <<stack, active>>
       ELSE Finally /\ UNCHANGED phase
  /\ UNCHANGED <<limits, query, bound, nodes, clock, timer, signal, result, vouched>>

Ended == phase \in {"done", "rejected"}

Tick ==
  /\ ~Ended
  /\ timer > 0 \/ clock <= Timeout
  /\ timer' = IF timer > 0 THEN timer - 1 ELSE timer
  /\ clock' = IF clock <= Timeout THEN clock + 1 ELSE clock
  /\ UNCHANGED <<limits, phase, query, stack, active, bound, nodes, signal, result, vouched>>

\* What the evaluator does by itself, and what it waits for.
Step ==
  \/ StopAtLimit \/ StopAtCycle \/ EnterNode \/ ResolveInput \/ BindingMissing
  \/ CallerResumes \/ Resolve \/ SelectOrProject \/ Bind \/ Validate \/ Invoke
  \/ InvokeWithoutResolver \/ RunGoalVerifier \/ CompleteNode \/ Unwind

Environment ==
  ResolverAnswers \/ PluginAnswers \/ VerifierAnswers \/ CalleeThrows

Next == Step \/ Environment \/ TimerFires \/ Tick

\* Nothing is asked of plugins, resolvers and verifiers: they may never answer.
Fairness == WF_vars(Step) /\ WF_vars(TimerFires) /\ WF_vars(Tick)
Spec == Init /\ [][Next]_vars /\ Fairness

----------------------------------------------------------------------------
TypeOK ==
  /\ limits \in Limits
  /\ phase \in Phases /\ query \in Id
  /\ stack \in Seq(Frames) /\ active \subseteq Id /\ bound \subseteq Name
  /\ nodes \in 0..MaxNodes /\ clock \in 0..(Timeout + 1)
  /\ timer \in {Off} \cup 0..MaxOf(1, Timeout) /\ signal \in Signals
  /\ result \in Results /\ vouched \in BOOLEAN

Ids(s) == {s[i].id : i \in 1..Len(s)}

\* state.active names exactly the queries being evaluated, each of them once:
\* every way out of evaluateNode, a rejection included, drops the right id.
ActiveIsTheCallChain ==
  /\ active = Ids(stack)
  /\ \A i, j \in 1..Len(stack) : stack[i].id = stack[j].id => i = j

\* The limits of the root query bound the whole evaluation, however its
\* queries refer to one another.
LimitsHold ==
  Len(stack) <= limits.maxDepth + 1 /\ Len(stack) <= nodes /\ nodes <= limits.maxNodes

\* The timer is armed exactly while a plugin call is open: a call that settled
\* leaves none behind and no call runs without one.
TimerGuardsTheCall == (timer # Off) <=> (phase = "calling")

\* A plugin is aborted at the deadline of the root query or later, never before.
NoEarlyAbort ==
  /\ timer # Off => timer + clock >= Timeout
  /\ signal = "aborted" => clock >= Timeout

\* A query that states a goal is judged on a verifier's evidence only.
GoalNeedsEvidence ==
  result.goal # "none" /\ result.lambda \in {"satisfied", "unsatisfied"}
    => "verifier" \in result.evidence

\* No plugin, binding or projection makes a lambda satisfied: some verifier of
\* this evaluation has said so, with evidence.
SatisfiedWasVouched == result.lambda = "satisfied" => vouched

\* An evaluation ends, unless a resolver or a verifier, which it awaits without
\* a deadline, never answers.  A plugin that never answers does not prevent it.
EndsUnlessAwaiting == <>Ended \/ <>[](phase \in {"resolving", "verifying"})

\* core.test.ts: only an explicit verifier and its evidence make a lambda
\* satisfied.  A result that claims it after a successful call without any
\* evidence is what famlog's classifyResult calls an unsupported success claim.
EvidenceBacksSatisfaction ==
  phase = "done" /\ result.transport = "succeeded" /\ result.lambda = "satisfied"
    => result.evidence # {}

\* The evaluation as its caller sees it: a limit refuses nobody too early either.
StopOf(r) ==
  IF r.reason = "max-depth-exceeded" THEN "too deep"
  ELSE IF r.reason = "max-nodes-exceeded" THEN "too many" ELSE r.control

Contract == INSTANCE EvaluationContract WITH
  open <- active,
  spent <- nodes,
  halt <- IF phase \in {"throw", "rejected"} THEN "rejected"
          ELSE IF phase \in {"return", "done"} /\ result.control # "result"
            THEN StopOf(result) ELSE "none",
  ended <- Ended

ContractSpec == Contract!Spec
=============================================================================

--------------------------- MODULE EvaluatorProofs ---------------------------
(***************************************************************************)
(* What TLC checks of Evaluator on a small instance, proved for every set  *)
(* of query ids and names and for every bound.                             *)
(*                                                                         *)
(* A step of the evaluator does one of four things to the call chain: it   *)
(* leaves it alone, pushes a frame, pops one (and drops its id from        *)
(* state.active), or rewrites the innermost frame under the same id.  The  *)
(* lemma StepShape says so once; what the chain keeps follows from it.     *)
(***************************************************************************)
EXTENDS Evaluator, FiniteSetTheorems, SequenceTheorems, TLAPS

----------------------------------------------------------------------------
\* Sequences as stacks.

\* Pushing: the new element comes first, the others move one place down.
LEMMA PushFacts ==
  ASSUME NEW S, NEW s \in Seq(S), NEW e \in S
  PROVE  /\ <<e>> \o s \in Seq(S)
         /\ Len(<<e>> \o s) = Len(s) + 1
         /\ <<e>> \o s # <<>>
         /\ (<<e>> \o s)[1] = e
         /\ \A i \in 1..Len(s) : (<<e>> \o s)[i + 1] = s[i]
  OBVIOUS

\* Popping a stack that is not empty: the others move one place up.
LEMMA PopFacts ==
  ASSUME NEW S, NEW s \in Seq(S), s # <<>>
  PROVE  /\ Tail(s) \in Seq(S)
         /\ Len(s) \in Nat \ {0}
         /\ Len(Tail(s)) = Len(s) - 1
         /\ Head(s) = s[1] /\ s[1] \in S
         /\ \A i \in 1..(Len(s) - 1) : Tail(s)[i] = s[i + 1]
  OBVIOUS

\* Rewriting the first element leaves the others where they are.
LEMMA RewriteFacts ==
  ASSUME NEW S, NEW s \in Seq(S), s # <<>>, NEW e \in S
  PROVE  /\ <<e>> \o Tail(s) \in Seq(S)
         /\ Len(<<e>> \o Tail(s)) = Len(s)
         /\ <<e>> \o Tail(s) # <<>>
         /\ (<<e>> \o Tail(s))[1] = e
         /\ \A i \in 2..Len(s) : (<<e>> \o Tail(s))[i] = s[i]
  <1>1. Tail(s) \in Seq(S) /\ Len(Tail(s)) = Len(s) - 1 /\ Len(s) \in Nat \ {0}
    BY PopFacts
  <1>2. /\ <<e>> \o Tail(s) \in Seq(S) /\ Len(<<e>> \o Tail(s)) = Len(s)
        /\ <<e>> \o Tail(s) # <<>> /\ (<<e>> \o Tail(s))[1] = e
    BY <1>1, PushFacts
  <1>3. ASSUME NEW i \in 2..Len(s) PROVE (<<e>> \o Tail(s))[i] = s[i]
    <2>1. i - 1 \in 1..Len(Tail(s)) /\ i - 1 \in 1..(Len(s) - 1)
      BY <1>1
    <2>2. (<<e>> \o Tail(s))[(i - 1) + 1] = Tail(s)[i - 1]
      BY <1>1, <2>1, PushFacts
    <2>3. Tail(s)[i - 1] = s[(i - 1) + 1]
      BY <2>1, PopFacts
    <2> QED
      BY <2>2, <2>3
  <1> QED
    BY <1>2, <1>3

----------------------------------------------------------------------------
\* Results and frames.

\* An envelope of values of the right sort is a result.
LEMMA EnvelopeType ==
  ASSUME NEW q \in Id, NEW control \in Controls, NEW reason \in Reasons,
         NEW transport \in Transports, NEW lambda \in Lambdas, NEW ev \in SUBSET Parties
  PROVE  Envelope(q, control, reason, transport, lambda, ev) \in Results
  BY DEF Envelope, Results, Goals

\* Each result the code builds is one.
LEMMA ResultTypes ==
  ASSUME NEW q \in Id
  PROVE  /\ \A reason \in Reasons :
              {Bottom(q, reason), Unknown(q, reason), LimitResult(q, reason)} \subseteq Results
         /\ PluginNotFound(q) \in Results
         /\ ResourceLimit(q) \in Results
         /\ PluginStops(q) \subseteq Results
  <1>1. \A reason \in Reasons :
          {Bottom(q, reason), Unknown(q, reason), LimitResult(q, reason)} \subseteq Results
    BY EnvelopeType DEF Bottom, Unknown, LimitResult, Controls, Transports, Lambdas
  <1>2. {PluginNotFound(q), PluginCallFailed(q), ResourceLimit(q)} \subseteq Results
    <2> USE DEF Controls, Transports, Lambdas, Reasons
    <2>1. PluginNotFound(q) \in Results
      BY EnvelopeType DEF PluginNotFound
    <2>2. PluginCallFailed(q) \in Results
      BY EnvelopeType DEF PluginCallFailed
    <2>3. ResourceLimit(q) \in Results
      BY EnvelopeType DEF ResourceLimit
    <2> QED
      BY <2>1, <2>2, <2>3
  <1>3. ASSUME NEW r \in {<<"plugin-call-failed", "failed", "unknown">>,
                          <<"plugin-output-invalid", "succeeded", "unknown">>,
                          <<"plugin-output-profile-nonconformant", "succeeded",
                            "not-evaluated">>},
               NEW ev \in {{}, {"plugin"}}
        PROVE  Envelope(q, "last-order", r[1], r[2], r[3], ev) \in Results
    <2>1. "last-order" \in Controls /\ ev \in SUBSET Parties
      BY DEF Controls, Parties
    <2>2. r[1] \in Reasons /\ r[2] \in Transports /\ r[3] \in Lambdas
      <3> USE DEF Reasons, Transports, Lambdas
      <3>1. CASE r = <<"plugin-call-failed", "failed", "unknown">>
        BY <3>1
      <3>2. CASE r = <<"plugin-output-invalid", "succeeded", "unknown">>
        BY <3>2
      <3>3. CASE r = <<"plugin-output-profile-nonconformant", "succeeded", "not-evaluated">>
        BY <3>3
      <3> QED
        BY <3>1, <3>2, <3>3
    <2> QED
      BY <2>1, <2>2, EnvelopeType
  <1>4. PluginStops(q) \subseteq Results
    BY <1>2, <1>3 DEF PluginStops
  <1> QED
    BY <1>1, <1>2, <1>4

\* A frame that completes yields a result.
LEMMA CompletedType ==
  ASSUME NEW f \in Frames
  PROVE  Completed(f) \in Results
  BY DEF Completed, CompletedLambda, HasEvidence, Frames, Results, Controls, Lambdas,
         Verdicts, Parties

\* Where the innermost call stands inside evaluateNode, its frame is there.
Inside == phase \in {"input", "resolving", "ops", "calling", "verifying"}
InsideHasFrame == Inside => stack # <<>>

TypeInv == TypeOK /\ InsideHasFrame

\* The four things a step does to the chain of calls.
Pushes ==
  /\ phase = "enter" /\ LimitReason = "" /\ query \notin active
  /\ \E f \in Frames : f.id = query /\ stack' = <<f>> \o stack
  /\ active' = active \cup {query} /\ nodes' = nodes + 1

Pops == stack # <<>> /\ Finally /\ UNCHANGED nodes /\ ~Inside'

Rewrites ==
  /\ stack # <<>>
  /\ \E f \in Frames : f.id = Top.id /\ stack' = <<f>> \o Tail(stack)
  /\ UNCHANGED <<active, nodes>>

Rests == UNCHANGED <<stack, active, nodes>> /\ (Inside' => Inside)

\* The frames a step may put back for the innermost one: it has the same id.
LEMMA FrameTypes ==
  ASSUME NEW f \in Frames
  PROVE  /\ f.id \in Id
         /\ f.ops < MaxOps => NextOp(f) \in Frames /\ NextOp(f).id = f.id
         /\ \A v \in Verdicts :
              LET g == [f EXCEPT !.verdict = v] IN g \in Frames /\ g.id = f.id
         /\ LET g == [f EXCEPT !.ops = MaxOps] IN g \in Frames /\ g.id = f.id
         /\ \A r \in Results :
              LET g == [f EXCEPT !.transport = r.transport, !.lambda = r.lambda,
                                 !.reason = r.reason]
              IN  g \in Frames /\ g.id = f.id
  <1> USE DEF Frames
  <1>1. f.id \in Id
    OBVIOUS
  <1>2. f.ops < MaxOps => NextOp(f) \in Frames /\ NextOp(f).id = f.id
    BY LimitsAssumption DEF NextOp
  <1>3. ASSUME NEW v \in Verdicts
        PROVE  [f EXCEPT !.verdict = v] \in Frames /\ [f EXCEPT !.verdict = v].id = f.id
    OBVIOUS
  <1>4. [f EXCEPT !.ops = MaxOps] \in Frames /\ [f EXCEPT !.ops = MaxOps].id = f.id
    BY LimitsAssumption
  <1>5. ASSUME NEW r \in Results
        PROVE  LET g == [f EXCEPT !.transport = r.transport, !.lambda = r.lambda,
                                  !.reason = r.reason]
               IN  g \in Frames /\ g.id = f.id
    BY DEF Results
  <1> QED
    BY <1>1, <1>2, <1>3, <1>4, <1>5

\* The frame a query begins with is one, and nothing has judged it.
LEMMA NewFrameType ==
  ASSUME NEW q \in Id, NEW goal \in Goals
  PROVE  LET f == NewFrame(q, goal) IN
         f \in Frames /\ f.id = q /\ f.lambda # "satisfied" /\ f.verdict # "satisfied"
  <1>1. /\ "not-started" \in Transports /\ "not-evaluated" \in Lambdas
        /\ "" \in Reasons /\ "none" \in Verdicts /\ 0 \in 0..MaxOps
    BY LimitsAssumption DEF Transports, Lambdas, Reasons, Verdicts
  <1> QED
    BY <1>1 DEF NewFrame, Frames

\* The innermost frame is a frame.
LEMMA TopType ==
  ASSUME TypeOK, stack # <<>>
  PROVE  Top \in Frames
  BY PopFacts DEF TypeOK, Top

\* Every step is of one of the four shapes, and a step that ends inside
\* evaluateNode leaves a frame there.
LEMMA StepShape ==
  ASSUME TypeInv, [Next]_vars
  PROVE  Pushes \/ Pops \/ Rewrites \/ Rests
  <1> DEFINE Shape == Pushes \/ Pops \/ Rewrites \/ Rests
  <1> USE DEF TypeInv, InsideHasFrame, Inside, Shape
  <1>1. ASSUME Inside \/ stack # <<>>, NEW r, Leave(r) PROVE Shape
    BY <1>1 DEF Leave, Pops
  <1>2. ASSUME Inside, NEW f \in Frames, f.id = Top.id, NEW next, Continue(f, next)
        PROVE  Shape
    BY <1>2 DEF Continue, Rewrites
  <1>3. Inside => Top \in Frames /\ stack # <<>>
    BY TopType
  <1>4. CASE StopAtLimit \/ StopAtCycle
    BY <1>4 DEF StopAtLimit, StopAtCycle, Refuse, Rests
  <1>5. CASE EnterNode
    <2>1. query \in Id
      BY DEF TypeOK
    <2> QED
      BY <1>5, <2>1, NewFrameType DEF EnterNode, Pushes
  <1>6. CASE ResolveInput \/ Resolve \/ CalleeThrows \/ Tick \/ UNCHANGED vars
    BY <1>6 DEF ResolveInput, Resolve, CalleeThrows, Tick, vars, Rests
  <1>7. CASE BindingMissing \/ InvokeWithoutResolver \/ CompleteNode
    BY <1>7, <1>1 DEF BindingMissing, InvokeWithoutResolver, HasOperation, CompleteNode
  <1>8. CASE ResolverAnswers
    BY <1>8, <1>1 DEF ResolverAnswers, Rests
  <1>9. CASE CallerResumes
    <2>1. result \in Results /\ Top \in Frames
      BY <1>9, TopType DEF TypeOK, CallerResumes
    <2>2. CASE GoesUp(result)
      BY <1>9, <1>1, <2>2 DEF CallerResumes
    <2>3. CASE ~GoesUp(result)
      BY <1>9, <2>1, <2>3, FrameTypes DEF CallerResumes, Continue, Rewrites
    <2> QED
      BY <2>2, <2>3
  <1>10. CASE SelectOrProject
    BY <1>10, <1>1, <1>2, <1>3, FrameTypes DEF SelectOrProject, HasOperation
  <1>11. CASE Bind \/ Validate \/ Invoke
    BY <1>11, <1>2, <1>3, FrameTypes DEF Bind, Validate, Invoke, HasOperation
  <1>12. ASSUME Inside, CallSettles PROVE Shape
    <2>1. CASE \E r \in PluginStops(Top.id) : Leave(r)
      BY <1>1, <1>12, <2>1
    <2>2. ASSUME NEW t \in {"succeeded", "unknown"}, NEW ev \in SUBSET {"plugin"},
                 Continue([Top EXCEPT !.transport = t, !.evidence = @ \cup ev], "ops")
          PROVE  Shape
      <3>1. t \in Transports /\ ev \in SUBSET Parties
        BY DEF Transports, Parties
      <3>2. LET g == [Top EXCEPT !.transport = t, !.evidence = @ \cup ev]
            IN  g \in Frames /\ g.id = Top.id
        BY <1>3, <1>12, <3>1 DEF Frames
      <3> QED
        BY <1>2, <1>12, <2>2, <3>2
    <2> QED
      BY <1>12, <2>1, <2>2 DEF CallSettles
  <1>13. CASE PluginAnswers
    BY <1>13, <1>12 DEF PluginAnswers
  <1>14. CASE TimerFires
    <2>1. CASE phase = "calling"
      BY <1>14, <1>1, <1>12, <2>1 DEF TimerFires, RaceAtTheDeadline
    <2>2. CASE phase # "calling"
      BY <1>14, <2>2 DEF TimerFires, Rests
    <2> QED
      BY <2>1, <2>2
  <1>15. CASE VerifierAnswers
    BY <1>15, <1>2, <1>3, FrameTypes DEF VerifierAnswers
  <1>16. CASE RunGoalVerifier
    BY <1>16, <1>2, <1>3, FrameTypes DEF RunGoalVerifier
  <1>17. CASE Unwind
    BY <1>17 DEF Unwind, Pops, Rests
  <1> QED
    BY <1>4, <1>5, <1>6, <1>7, <1>8, <1>9, <1>10, <1>11, <1>13, <1>14, <1>15, <1>16,
       <1>17 DEF Next, Step, Environment

\* What the shapes make of a chain that is one.
LEMMA ShapeTypes ==
  ASSUME TypeOK, Pushes \/ Pops \/ Rewrites \/ Rests
  PROVE  /\ stack' \in Seq(Frames) /\ active' \subseteq Id
         /\ Pushes \/ Rewrites => stack' # <<>>
  <1> USE DEF TypeOK
  <1>1. ASSUME Pushes PROVE stack' \in Seq(Frames) /\ active' \subseteq Id /\ stack' # <<>>
    <2>1. PICK f \in Frames : stack' = <<f>> \o stack
      BY <1>1 DEF Pushes
    <2>2. stack' \in Seq(Frames) /\ stack' # <<>>
      BY <2>1, PushFacts
    <2> QED
      BY <1>1, <2>2 DEF Pushes
  <1>2. ASSUME Pops PROVE stack' \in Seq(Frames) /\ active' \subseteq Id
    <2>1. stack \in Seq(Frames) /\ stack # <<>> /\ active \subseteq Id
      BY <1>2 DEF Pops
    <2> QED
      BY <1>2, <2>1, PopFacts DEF Pops, Finally
  <1>3. ASSUME Rewrites PROVE stack' \in Seq(Frames) /\ active' \subseteq Id /\ stack' # <<>>
    BY <1>3, RewriteFacts DEF Rewrites
  <1>4. ASSUME Rests PROVE stack' \in Seq(Frames) /\ active' \subseteq Id
    BY <1>4 DEF Rests
  <1> QED
    BY <1>1, <1>2, <1>3, <1>4

----------------------------------------------------------------------------
\* Type correctness.

\* The initial states are of the right types.
LEMMA TypeInit == Init => TypeInv
  <1> SUFFICES ASSUME Init PROVE TypeInv
    OBVIOUS
  <1>1. NoResult \in Results
    BY EnvelopeType DEF Init, NoResult, Controls, Reasons, Transports, Lambdas, Parties
  <1>2. /\ phase \in Phases /\ signal \in Signals
        /\ phase = "enter" /\ stack \in Seq(Frames)
    BY DEF Init, Phases, Signals
  <1>3. nodes \in 0..MaxNodes /\ clock \in 0..(Timeout + 1)
    BY LimitsAssumption DEF Init
  <1> QED
    BY <1>1, <1>2, <1>3 DEF Init, TypeInv, TypeOK, InsideHasFrame, Inside

\* The variables other than the chain and the node count.
Others ==
  /\ limits \in Limits /\ phase \in Phases /\ query \in Id /\ bound \subseteq Name
  /\ clock \in 0..(Timeout + 1) /\ timer \in {Off} \cup 0..MaxOf(1, Timeout)
  /\ signal \in Signals /\ result \in Results /\ vouched \in BOOLEAN

\* A step that ends a query with a result keeps their types ...
LEMMA LeaveTypes ==
  ASSUME Others, NEW r \in Results, Leave(r) \/ Refuse(r),
         timer' \in {timer, Off}, signal' \in Signals
  PROVE  Others' /\ phase' = "return"
  BY DEF Others, Leave, Refuse, Phases

\* ... and so does one that goes on with it.
LEMMA ContinueTypes ==
  ASSUME Others, NEW f, NEW next \in Phases, Continue(f, next),
         bound' \subseteq Name, vouched' \in BOOLEAN,
         timer' \in {Off} \cup 0..MaxOf(1, Timeout), signal' \in Signals
  PROVE  Others'
  BY DEF Others, Continue

\* Every step keeps the types of the other variables.
LEMMA OthersStep ==
  ASSUME TypeInv, Others, [Next]_vars
  PROVE  Others'
  <1> USE DEF Others
  <1>1. Inside => Top.id \in Id /\ Top \in Frames
    BY TopType, FrameTypes DEF TypeInv, InsideHasFrame
  <1>2. "" \in Reasons /\ {"return", "ops", "calling", "verifying"} \subseteq Phases
    BY DEF Reasons, Phases
  <1>3. CASE StopAtLimit \/ StopAtCycle
    <2>1. LimitReason \in Reasons /\ "cycle-detected" \in Reasons
      BY DEF LimitReason, Reasons
    <2> QED
      BY <1>3, <2>1, ResultTypes, LeaveTypes DEF StopAtLimit, StopAtCycle, Refuse
  <1>4. CASE EnterNode
    BY <1>4 DEF EnterNode, Phases
  <1>5. CASE ResolveInput \/ Resolve \/ CalleeThrows \/ Unwind \/ UNCHANGED vars
    BY <1>5 DEF ResolveInput, Resolve, CalleeThrows, Unwind, vars, Phases
  <1>6. CASE BindingMissing
    <2>1. Unknown(Top.id, "binding-not-found") \in Results
      BY <1>1, <1>6, ResultTypes DEF BindingMissing, Inside, Reasons
    <2> QED
      BY <1>6, <2>1, LeaveTypes DEF BindingMissing, KeepTimer
  <1>7. CASE ResolverAnswers
    <2>1. Unknown(Top.id, "query-ref-not-found") \in Results
      BY <1>1, <1>7, ResultTypes DEF ResolverAnswers, Inside, Reasons
    <2>2. CASE \E q \in Id :
                 /\ query' = q /\ phase' = "enter"
                 /\ UNCHANGED <<limits, stack, active, bound, nodes, clock, timer, signal,
                                result, vouched>>
      BY <2>2 DEF Phases
    <2>3. CASE Leave(Unknown(Top.id, "query-ref-not-found")) /\ KeepTimer
      BY <2>1, <2>3, LeaveTypes DEF KeepTimer
    <2> QED
      BY <1>7, <2>2, <2>3 DEF ResolverAnswers
  <1>8. CASE CallerResumes
    BY <1>2, <1>8, LeaveTypes, ContinueTypes DEF CallerResumes, KeepTimer
  <1>9. CASE SelectOrProject
    <2>1. ASSUME NEW reason \in {"mapping-unavailable", "projection-input-not-object"}
          PROVE  Bottom(Top.id, reason) \in Results
      BY <1>1, <1>9, ResultTypes DEF SelectOrProject, HasOperation, Inside, Reasons
    <2> QED
      BY <1>2, <1>9, <2>1, LeaveTypes, ContinueTypes DEF SelectOrProject, KeepTimer
  <1>10. CASE Bind
    BY <1>2, <1>10, ContinueTypes DEF Bind, KeepTimer
  <1>11. CASE Validate \/ RunGoalVerifier
    BY <1>2, <1>11, ContinueTypes DEF Validate, RunGoalVerifier, KeepTimer
  <1>12. CASE Invoke
    <2>1. Remaining \in 0..MaxOf(1, Timeout) /\ "live" \in Signals
      BY LimitsAssumption DEF Remaining, MaxOf, Signals
    <2> QED
      BY <1>2, <1>12, <2>1, ContinueTypes DEF Invoke
  <1>13. CASE InvokeWithoutResolver
    BY <1>1, <1>13, ResultTypes, LeaveTypes
       DEF InvokeWithoutResolver, HasOperation, Inside, KeepTimer
  <1>14. ASSUME Inside, CallSettles, timer' = Off, signal' \in Signals PROVE Others'
    BY <1>1, <1>2, <1>14, ResultTypes, LeaveTypes, ContinueTypes DEF CallSettles
  <1>15. CASE PluginAnswers
    BY <1>14, <1>15 DEF PluginAnswers, Inside, Signals
  <1>16. CASE TimerFires
    <2>1. timer' = Off /\ signal' \in Signals
      BY <1>16 DEF TimerFires, Signals
    <2>2. CASE phase = "calling"
      BY <1>1, <1>14, <1>16, <2>1, <2>2, ResultTypes, LeaveTypes
         DEF TimerFires, RaceAtTheDeadline, Inside
    <2>3. CASE phase # "calling"
      BY <1>16, <2>1, <2>3 DEF TimerFires
    <2> QED
      BY <2>2, <2>3
  <1>17. CASE VerifierAnswers
    BY <1>2, <1>17, ContinueTypes DEF VerifierAnswers, KeepTimer
  <1>18. CASE CompleteNode
    BY <1>1, <1>18, CompletedType, LeaveTypes DEF CompleteNode, Inside, KeepTimer
  <1>19. CASE Tick
    BY <1>19, LimitsAssumption DEF Tick, Off, MaxOf
  <1> QED
    BY <1>3, <1>4, <1>5, <1>6, <1>7, <1>8, <1>9, <1>10, <1>11, <1>12, <1>13, <1>15,
       <1>16, <1>17, <1>18, <1>19 DEF Next, Step, Environment

\* Every step keeps the type invariant.
LEMMA TypeStep == TypeInv /\ [Next]_vars => TypeInv'
  <1> SUFFICES ASSUME TypeInv, [Next]_vars PROVE TypeInv'
    OBVIOUS
  <1>1. TypeOK /\ InsideHasFrame /\ Others
    BY DEF TypeInv, TypeOK, Others
  <1>2. Others'
    BY <1>1, OthersStep
  <1>3. Pushes \/ Pops \/ Rewrites \/ Rests
    BY StepShape
  <1>4. stack' \in Seq(Frames) /\ active' \subseteq Id /\ (Pushes \/ Rewrites => stack' # <<>>)
    BY <1>1, <1>3, ShapeTypes
  <1>5. nodes' \in 0..MaxNodes
    <2>1. nodes \in 0..MaxNodes /\ limits.maxNodes \in 0..MaxNodes
      BY <1>1 DEF TypeOK, Limits
    <2>2. CASE Pushes
      BY <2>1, <2>2, LimitsAssumption DEF Pushes, LimitReason
    <2>3. CASE Pops \/ Rewrites \/ Rests
      BY <2>1, <2>3 DEF Pops, Rewrites, Rests
    <2> QED
      BY <1>3, <2>2, <2>3
  <1>6. InsideHasFrame'
    BY <1>1, <1>3, <1>4 DEF InsideHasFrame, Pops, Rests
  <1> QED
    BY <1>2, <1>4, <1>5, <1>6 DEF TypeInv, TypeOK, Others

\* Every value in the evaluator's state is of its type, and a call that stands
\* inside evaluateNode has its frame.
THEOREM TypeCorrect == Spec => []TypeInv
  BY TypeInit, TypeStep, PTL DEF Spec

\* The types of the variables of Evaluator (evaluator.ts, EvalState and QueryResult).
THEOREM TypesHold == Spec => []TypeOK
  <1>1. TypeInv => TypeOK
    BY DEF TypeInv
  <1> QED
    BY <1>1, TypeCorrect, PTL

----------------------------------------------------------------------------
\* The call chain and state.active.

\* Besides the property TLC checks: as many queries are active as there are
\* frames, which the depth limit and the refinement below need.
ActiveCount == IsFiniteSet(active) /\ Cardinality(active) = Len(stack)
ChainInv == ActiveIsTheCallChain /\ ActiveCount

\* Pushing a frame with an id that is not active.
LEMMA PushChain ==
  ASSUME TypeInv, TypeInv', ChainInv, Pushes
  PROVE  ChainInv'
  <1>1. PICK f \in Frames : f.id = query /\ stack' = <<f>> \o stack
    BY DEF Pushes
  <1>2. query \notin active /\ active' = active \cup {query}
    BY DEF Pushes
  <1>3. /\ stack \in Seq(Frames) /\ Len(stack) \in Nat
        /\ Len(stack') = Len(stack) + 1 /\ stack'[1] = f
        /\ \A i \in 1..Len(stack) : stack'[i + 1] = stack[i]
    BY <1>1, PushFacts DEF TypeInv, TypeOK
  <1>4. \A i \in 1..Len(stack') : i = 1 \/ (i - 1 \in 1..Len(stack) /\ stack'[i] = stack[i - 1])
    <2> SUFFICES ASSUME NEW i \in 1..Len(stack'), i # 1
                 PROVE  i - 1 \in 1..Len(stack) /\ stack'[i] = stack[i - 1]
      OBVIOUS
    <2>1. i - 1 \in 1..Len(stack) /\ (i - 1) + 1 = i
      BY <1>3
    <2> QED
      BY <1>3, <2>1
  <1>5. \A i \in 1..Len(stack) : i + 1 \in 1..Len(stack') /\ stack[i].id \in active
    BY <1>3 DEF ChainInv, ActiveIsTheCallChain, Ids
  <1>6. active' = Ids(stack')
    <2>1. Ids(stack') \subseteq active'
      <3> SUFFICES ASSUME NEW i \in 1..Len(stack') PROVE stack'[i].id \in active'
        BY DEF Ids
      <3>1. CASE i = 1
        BY <1>1, <1>2, <1>3, <3>1
      <3>2. CASE i # 1
        BY <1>2, <1>4, <1>5, <3>2
      <3> QED
        BY <3>1, <3>2
    <2>2. active' \subseteq Ids(stack')
      <3>1. 1 \in 1..Len(stack') /\ stack'[1].id = query
        BY <1>1, <1>3
      <3>2. \A q \in active : \E i \in 1..Len(stack) : q = stack'[i + 1].id
        BY <1>3 DEF ChainInv, ActiveIsTheCallChain, Ids
      <3> QED
        BY <1>2, <1>5, <3>1, <3>2 DEF Ids
    <2> QED
      BY <2>1, <2>2
  <1>7. ASSUME NEW i \in 1..Len(stack'), NEW j \in 1..Len(stack'), stack'[i].id = stack'[j].id
        PROVE  i = j
    <2>1. \A k \in 1..Len(stack') : k = 1 <=> stack'[k].id = query
      BY <1>1, <1>2, <1>3, <1>4, <1>5
    <2>2. CASE i = 1 \/ j = 1
      BY <1>7, <2>1, <2>2
    <2>3. CASE i # 1 /\ j # 1
      <3>1. i - 1 \in 1..Len(stack) /\ j - 1 \in 1..Len(stack)
            /\ stack[i - 1].id = stack[j - 1].id
        BY <1>4, <1>7, <2>3
      <3>2. i - 1 = j - 1
        BY <3>1 DEF ChainInv, ActiveIsTheCallChain
      <3> QED
        BY <1>3, <3>2
    <2> QED
      BY <2>2, <2>3
  <1>8. ActiveCount'
    BY <1>2, <1>3, FS_AddElement DEF ChainInv, ActiveCount
  <1> QED
    BY <1>6, <1>7, <1>8 DEF ChainInv, ActiveIsTheCallChain

\* Popping a frame, and taking its id out of state.active.
LEMMA PopChain ==
  ASSUME TypeInv, TypeInv', ChainInv, Pops
  PROVE  ChainInv'
  <1>1. /\ stack' = Tail(stack) /\ active' = active \ {stack[1].id}
        /\ stack \in Seq(Frames) /\ Len(stack) \in Nat \ {0}
        /\ Len(stack') = Len(stack) - 1
        /\ \A i \in 1..(Len(stack) - 1) : stack'[i] = stack[i + 1]
    <2>1. stack \in Seq(Frames) /\ stack # <<>>
      BY DEF Pops, TypeInv, TypeOK
    <2> QED
      BY <2>1, PopFacts DEF Pops, Finally, Top
  <1>2. \A i \in 1..Len(stack') : i + 1 \in 1..Len(stack) /\ i + 1 # 1 /\ stack'[i] = stack[i + 1]
    BY <1>1
  <1>3. \A i \in 1..Len(stack) : i = 1 \/ (i - 1 \in 1..Len(stack') /\ stack'[i - 1] = stack[i])
    <2> SUFFICES ASSUME NEW i \in 1..Len(stack), i # 1
                 PROVE  i - 1 \in 1..Len(stack') /\ stack'[i - 1] = stack[i]
      OBVIOUS
    <2>1. i - 1 \in 1..(Len(stack) - 1) /\ (i - 1) + 1 = i
      BY <1>1
    <2> QED
      BY <1>1, <2>1
  <1>4. 1 \in 1..Len(stack) /\ stack[1].id \in active
    BY <1>1 DEF ChainInv, ActiveIsTheCallChain, Ids
  <1>5. \A i \in 1..Len(stack) : stack[i].id = stack[1].id => i = 1
    BY <1>4 DEF ChainInv, ActiveIsTheCallChain
  <1>6. active' = Ids(stack')
    <2>1. \A q \in active' : \E i \in 1..Len(stack) : i # 1 /\ q = stack[i].id
      BY <1>1 DEF Ids, ChainInv, ActiveIsTheCallChain
    <2>2. active' \subseteq Ids(stack')
      BY <1>3, <2>1 DEF Ids
    <2>3. Ids(stack') \subseteq active'
      <3> SUFFICES ASSUME NEW i \in 1..Len(stack') PROVE stack'[i].id \in active'
        BY DEF Ids
      <3>1. stack'[i].id \in active
        BY <1>2 DEF Ids, ChainInv, ActiveIsTheCallChain
      <3>2. stack'[i].id # stack[1].id
        BY <1>2, <1>5
      <3> QED
        BY <1>1, <3>1, <3>2
    <2> QED
      BY <2>2, <2>3
  <1>7. ASSUME NEW i \in 1..Len(stack'), NEW j \in 1..Len(stack'), stack'[i].id = stack'[j].id
        PROVE  i = j
    <2>1. i + 1 = j + 1
      BY <1>2, <1>7 DEF ChainInv, ActiveIsTheCallChain
    <2> QED
      BY <1>1, <2>1
  <1>8. ActiveCount'
    <2>1. IsFiniteSet(active) /\ Cardinality(active) = Len(stack)
      BY DEF ChainInv, ActiveCount
    <2>2. IsFiniteSet(active') /\ Cardinality(active') = Cardinality(active) - 1
      BY <1>1, <1>4, <2>1, FS_RemoveElement
    <2> QED
      BY <1>1, <2>1, <2>2 DEF ActiveCount
  <1> QED
    BY <1>6, <1>7, <1>8 DEF ChainInv, ActiveIsTheCallChain

\* Rewriting the innermost frame under its id.
LEMMA RewriteChain ==
  ASSUME TypeInv, TypeInv', ChainInv, Rewrites
  PROVE  ChainInv'
  <1>1. PICK f \in Frames : f.id = Top.id /\ stack' = <<f>> \o Tail(stack)
    BY DEF Rewrites
  <1>2. stack \in Seq(Frames) /\ stack # <<>> /\ active' = active
    BY DEF Rewrites, TypeInv, TypeOK
  <1>3. /\ Len(stack') = Len(stack) /\ Len(stack) \in Nat \ {0} /\ stack'[1] = f
        /\ \A i \in 2..Len(stack) : stack'[i] = stack[i]
        /\ Top = stack[1]
    BY <1>1, <1>2, RewriteFacts, PopFacts DEF Top
  <1>4. \A i \in 1..Len(stack) : stack'[i].id = stack[i].id
    <2> SUFFICES ASSUME NEW i \in 1..Len(stack) PROVE stack'[i].id = stack[i].id
      OBVIOUS
    <2>1. i = 1 \/ i \in 2..Len(stack)
      BY <1>3
    <2> QED
      BY <1>1, <1>3, <2>1
  <1>5. Ids(stack') = Ids(stack)
    BY <1>3, <1>4 DEF Ids
  <1> QED
    BY <1>2, <1>3, <1>4, <1>5 DEF ChainInv, ActiveIsTheCallChain, ActiveCount

\* The initial chain is empty, and every step keeps it one.
LEMMA ChainInit == Init => ChainInv
  BY FS_EmptySet DEF Init, ChainInv, ActiveIsTheCallChain, ActiveCount, Ids

\* Each shape of step keeps the chain in order.
LEMMA ChainStep == TypeInv /\ TypeInv' /\ ChainInv /\ [Next]_vars => ChainInv'
  <1> SUFFICES ASSUME TypeInv, TypeInv', ChainInv, [Next]_vars PROVE ChainInv'
    OBVIOUS
  <1>1. CASE Rests
    BY <1>1 DEF Rests, ChainInv, ActiveIsTheCallChain, ActiveCount, Ids
  <1> QED
    BY <1>1, StepShape, PushChain, PopChain, RewriteChain

\* However a query ends, by a result, a stop, a deadline or a rejection that
\* unwinds the whole chain, state.active loses exactly its id: it always names
\* the queries under evaluation, none of them twice (evaluator.ts:41-46, 93-95).
THEOREM ChainHolds == Spec => [](ActiveIsTheCallChain /\ ActiveCount)
  <1>1. ChainInv => ActiveIsTheCallChain /\ ActiveCount
    BY DEF ChainInv
  <1> QED
    BY <1>1, ChainInit, ChainStep, TypeCorrect, PTL DEF Spec

----------------------------------------------------------------------------
\* The limits of the root query.

\* Only entering a query counts, and checkLimits lets it in below both limits.
LEMMA LimitsStep == TypeInv /\ TypeInv' /\ LimitsHold /\ [Next]_vars => LimitsHold'
  <1> SUFFICES ASSUME TypeInv, TypeInv', LimitsHold, [Next]_vars PROVE LimitsHold'
    OBVIOUS
  <1>1. /\ stack \in Seq(Frames) /\ Len(stack) \in Nat /\ nodes \in Nat
        /\ limits.maxDepth \in Nat /\ limits.maxNodes \in Nat
    BY DEF TypeInv, TypeOK, Limits
  <1>2. limits' = limits
    BY DEF Next, Step, Environment, vars, StopAtLimit, StopAtCycle, Refuse, EnterNode,
           ResolveInput, BindingMissing, Leave, CallerResumes, Continue, Resolve,
           SelectOrProject, Bind, Validate, Invoke, InvokeWithoutResolver,
           RunGoalVerifier, CompleteNode, Unwind, ResolverAnswers, PluginAnswers,
           CallSettles, VerifierAnswers, CalleeThrows, TimerFires, RaceAtTheDeadline, Tick
  <1>3. CASE Pushes
    <2>1. Len(stack') = Len(stack) + 1
      <3>1. PICK f \in Frames : stack' = <<f>> \o stack
        BY <1>3 DEF Pushes
      <3> QED
        BY <1>1, <3>1, PushFacts
    <2>2. Len(stack) <= limits.maxDepth /\ nodes < limits.maxNodes
      BY <1>1, <1>3 DEF Pushes, LimitReason
    <2> QED
      <3>1. nodes' = nodes + 1
        BY <1>3 DEF Pushes
      <3> QED
        BY <1>1, <1>2, <2>1, <2>2, <3>1 DEF LimitsHold
  <1>4. CASE Pops
    <2>1. Len(stack') = Len(stack) - 1
      BY <1>1, <1>4, PopFacts DEF Pops, Finally
    <2> QED
      BY <1>1, <1>2, <1>4, <2>1 DEF Pops, LimitsHold
  <1>5. CASE Rewrites
    <2>1. Len(stack') = Len(stack)
      BY <1>1, <1>5, RewriteFacts DEF Rewrites
    <2> QED
      BY <1>1, <1>2, <1>5, <2>1 DEF Rewrites, LimitsHold
  <1>6. CASE Rests
    BY <1>2, <1>6 DEF Rests, LimitsHold
  <1> QED
    BY <1>3, <1>4, <1>5, <1>6, StepShape

\* However the queries refer to one another, neither the depth nor the number
\* of evaluations passes the limits of the root query (evaluator.ts:98-124).
THEOREM LimitsAreKept == Spec => []LimitsHold
  <1>1. Init => LimitsHold
    BY LimitsAssumption DEF Init, Limits, LimitsHold
  <1> QED
    BY <1>1, LimitsStep, TypeCorrect, PTL DEF Spec

----------------------------------------------------------------------------
\* The timer of the plugin call.

\* How a step treats the timer: it leaves it alone without opening or closing a
\* plugin call, arms it as it opens one, disarms it as the call ends, or counts.
LEMMA TimerShape ==
  ASSUME TypeInv, TimerGuardsTheCall, [Next]_vars
  PROVE  \/ phase # "calling" /\ phase' # "calling" /\ KeepTimer /\ clock' = clock
         \/ phase # "calling" /\ phase' = "calling" /\ timer' = Remaining /\ clock' = clock
              /\ signal' = "live"
         \/ /\ phase = "calling" /\ phase' # "calling" /\ timer' = Off /\ clock' = clock
            /\ signal' = "settled" \/ (signal' = "aborted" /\ timer = 0)
         \/ Tick
         \/ UNCHANGED vars
  <1> DEFINE Shape ==
    \/ phase # "calling" /\ phase' # "calling" /\ KeepTimer /\ clock' = clock
    \/ phase # "calling" /\ phase' = "calling" /\ timer' = Remaining /\ clock' = clock
         /\ signal' = "live"
    \/ /\ phase = "calling" /\ phase' # "calling" /\ timer' = Off /\ clock' = clock
       /\ signal' = "settled" \/ (signal' = "aborted" /\ timer = 0)
    \/ Tick
    \/ UNCHANGED vars
  <1> USE DEF KeepTimer, Leave, Continue, Refuse, HasOperation
  <1>1. CASE StopAtLimit \/ StopAtCycle \/ EnterNode \/ ResolveInput \/ BindingMissing
    BY <1>1 DEF StopAtLimit, StopAtCycle, EnterNode, ResolveInput, BindingMissing
  <1>2. CASE CallerResumes \/ Resolve \/ SelectOrProject \/ Bind \/ Validate
    BY <1>2 DEF CallerResumes, Resolve, SelectOrProject, Bind, Validate
  <1>3. CASE Invoke
    BY <1>3 DEF Invoke
  <1>4. CASE InvokeWithoutResolver \/ RunGoalVerifier \/ CompleteNode \/ Unwind
    BY <1>4 DEF InvokeWithoutResolver, RunGoalVerifier, CompleteNode, Unwind
  <1>5. CASE ResolverAnswers \/ VerifierAnswers \/ CalleeThrows
    BY <1>5 DEF ResolverAnswers, VerifierAnswers, CalleeThrows
  <1>6. CallSettles => phase' # "calling" /\ clock' = clock
    BY DEF CallSettles
  <1>7. CASE PluginAnswers
    BY <1>6, <1>7 DEF PluginAnswers
  <1>8. CASE TimerFires
    <2>1. timer = 0 /\ timer # Off /\ phase = "calling"
      BY <1>8 DEF TimerFires, TimerGuardsTheCall, Off
    <2> QED
      BY <1>6, <1>8, <2>1 DEF TimerFires, RaceAtTheDeadline
  <1> HIDE DEF KeepTimer, Leave, Continue, Refuse, HasOperation
  <1> QED
    BY <1>1, <1>2, <1>3, <1>4, <1>5, <1>7, <1>8 DEF Next, Step, Environment

\* Each way a step treats the timer keeps its two invariants.
LEMMA TimerStep ==
  TypeInv /\ TimerGuardsTheCall /\ NoEarlyAbort /\ [Next]_vars
    => TimerGuardsTheCall' /\ NoEarlyAbort'
  <1> SUFFICES ASSUME TypeInv, TimerGuardsTheCall, NoEarlyAbort, [Next]_vars
               PROVE  TimerGuardsTheCall' /\ NoEarlyAbort'
    OBVIOUS
  <1> USE LimitsAssumption DEF TimerGuardsTheCall, NoEarlyAbort, Off
  <1>1. clock \in 0..(Timeout + 1) /\ timer \in {Off} \cup 0..MaxOf(1, Timeout)
    BY DEF TypeInv, TypeOK
  <1>2. Remaining \in Nat /\ Remaining + clock >= Timeout
    BY <1>1 DEF Remaining, MaxOf
  <1>3. CASE Tick
    BY <1>1, <1>3 DEF Tick, MaxOf
  <1>4. CASE UNCHANGED vars
    BY <1>4 DEF vars
  <1>5. CASE phase # "calling" /\ phase' # "calling" /\ KeepTimer /\ clock' = clock
    BY <1>5 DEF KeepTimer
  <1>6. CASE phase # "calling" /\ phase' = "calling" /\ timer' = Remaining
               /\ clock' = clock /\ signal' = "live"
    BY <1>1, <1>2, <1>6
  <1>7. CASE /\ phase = "calling" /\ phase' # "calling" /\ timer' = Off /\ clock' = clock
             /\ signal' = "settled" \/ (signal' = "aborted" /\ timer = 0)
    BY <1>1, <1>7
  <1> QED
    BY <1>3, <1>4, <1>5, <1>6, <1>7, TimerShape

\* A timer is armed exactly while a plugin call is open, and a plugin is aborted
\* at the deadline or later, whatever other awaits came before (evaluator.ts:144-170).
THEOREM TimerIsGuarded == Spec => [](TimerGuardsTheCall /\ NoEarlyAbort)
  <1>1. Init => TimerGuardsTheCall /\ NoEarlyAbort
    BY DEF Init, TimerGuardsTheCall, NoEarlyAbort, Off
  <1> QED
    BY <1>1, TimerStep, TypeCorrect, PTL DEF Spec

----------------------------------------------------------------------------
\* Verdicts.

\* The inductive invariant follows "satisfied" back to where it may come from:
\* a frame holds it in the axes it inherited or as the verdict of its verifier.
FrameVouched(f) == f.lambda = "satisfied" \/ f.verdict = "satisfied" => vouched
ChainVouched == \A i \in 1..Len(stack) : FrameVouched(stack[i])
VerdictInv == ChainVouched /\ SatisfiedWasVouched /\ GoalNeedsEvidence

\* No stop the evaluator builds is satisfied, or states a goal.
LEMMA StopsAreUnjudged ==
  ASSUME NEW q, NEW reason
  PROVE  \A r \in {Bottom(q, reason), Unknown(q, reason), LimitResult(q, reason),
                   PluginNotFound(q), ResourceLimit(q)} \cup PluginStops(q) :
            r.lambda # "satisfied" /\ r.goal = "none"
  <1>1. ASSUME NEW control, NEW rs, NEW transport, NEW lambda, NEW ev, lambda # "satisfied"
        PROVE  LET r == Envelope(q, control, rs, transport, lambda, ev)
               IN  r.lambda # "satisfied" /\ r.goal = "none"
    BY <1>1 DEF Envelope
  <1>2. \A r \in {Bottom(q, reason), Unknown(q, reason), LimitResult(q, reason),
                  PluginNotFound(q), ResourceLimit(q), PluginCallFailed(q)} :
          r.lambda # "satisfied" /\ r.goal = "none"
    BY <1>1 DEF Bottom, Unknown, LimitResult, PluginNotFound, ResourceLimit, PluginCallFailed
  <1>3. ASSUME NEW r \in {<<"plugin-call-failed", "failed", "unknown">>,
                          <<"plugin-output-invalid", "succeeded", "unknown">>,
                          <<"plugin-output-profile-nonconformant", "succeeded",
                            "not-evaluated">>}
        PROVE  r[3] # "satisfied"
    <2>1. CASE r = <<"plugin-call-failed", "failed", "unknown">>
      BY <2>1
    <2>2. CASE r = <<"plugin-output-invalid", "succeeded", "unknown">>
      BY <2>2
    <2>3. CASE r = <<"plugin-output-profile-nonconformant", "succeeded", "not-evaluated">>
      BY <2>3
    <2> QED
      BY <2>1, <2>2, <2>3
  <1>4. \A r \in PluginStops(q) : r.lambda # "satisfied" /\ r.goal = "none"
    BY <1>1, <1>2, <1>3 DEF PluginStops
  <1> QED
    BY <1>2, <1>4

\* A query that completes is judged by its verifier, or hands on what it inherited.
LEMMA CompletionIsJudged ==
  ASSUME NEW f \in Frames, FrameVouched(f)
  PROVE  LET r == Completed(f) IN
         /\ r.lambda = "satisfied" => vouched
         /\ r.goal # "none" /\ r.lambda \in {"satisfied", "unsatisfied"}
              => "verifier" \in r.evidence
  BY DEF Completed, CompletedLambda, HasEvidence, FrameVouched

\* A step that ends a query hands the result up and touches no other frame.
LEMMA LeaveVerdicts ==
  ASSUME TypeInv, VerdictInv, NEW r, (Leave(r) /\ stack # <<>>) \/ Refuse(r),
         r.lambda = "satisfied" => vouched,
         r.goal # "none" /\ r.lambda \in {"satisfied", "unsatisfied"}
           => "verifier" \in r.evidence
  PROVE  VerdictInv'
  <1>1. result' = r /\ vouched' = vouched
    BY DEF Leave, Refuse
  <1>2. CASE Leave(r) /\ stack # <<>>
    <2>1. /\ stack' = Tail(stack) /\ Len(stack) \in Nat \ {0}
          /\ Len(stack') = Len(stack) - 1
          /\ \A i \in 1..(Len(stack) - 1) : stack'[i] = stack[i + 1]
      BY <1>2, PopFacts DEF Leave, Finally, TypeInv, TypeOK
    <2>2. \A i \in 1..Len(stack') : i + 1 \in 1..Len(stack) /\ stack'[i] = stack[i + 1]
      BY <2>1
    <2> QED
      BY <1>1, <2>2 DEF VerdictInv, ChainVouched, FrameVouched, SatisfiedWasVouched,
                        GoalNeedsEvidence
  <1>3. CASE Refuse(r)
    BY <1>1, <1>3 DEF Refuse, VerdictInv, ChainVouched, FrameVouched,
                      SatisfiedWasVouched, GoalNeedsEvidence
  <1> QED
    BY <1>2, <1>3

\* A step that goes on with a frame that is vouched for.
LEMMA ContinueVerdicts ==
  ASSUME TypeInv, VerdictInv, stack # <<>>, NEW f \in Frames, NEW next, Continue(f, next),
         vouched => vouched', FrameVouched(f)'
  PROVE  VerdictInv'
  <1>1. /\ stack' = <<f>> \o Tail(stack) /\ result' = result
        /\ Len(stack') = Len(stack) /\ stack'[1] = f
        /\ \A i \in 2..Len(stack) : stack'[i] = stack[i]
    BY RewriteFacts DEF Continue, TypeInv, TypeOK
  <1>2. ASSUME NEW i \in 1..Len(stack) PROVE FrameVouched(stack[i])'
    <2>1. i = 1 \/ i \in 2..Len(stack)
      BY PopFacts DEF TypeInv, TypeOK
    <2> QED
      BY <1>1, <2>1 DEF VerdictInv, ChainVouched, FrameVouched
  <1> QED
    BY <1>1, <1>2 DEF VerdictInv, ChainVouched, SatisfiedWasVouched, GoalNeedsEvidence

\* Every step keeps the frames and the result vouched for.
LEMMA VerdictStep == TypeInv /\ VerdictInv /\ [Next]_vars => VerdictInv'
  <1> SUFFICES ASSUME TypeInv, VerdictInv, [Next]_vars PROVE VerdictInv'
    OBVIOUS
  <1>1. Inside => stack # <<>> /\ Top \in Frames /\ FrameVouched(Top)
    <2> SUFFICES ASSUME stack # <<>> PROVE Top \in Frames /\ FrameVouched(Top)
      BY DEF TypeInv, InsideHasFrame
    <2>1. Top = stack[1] /\ 1 \in 1..Len(stack)
      BY PopFacts DEF TypeInv, TypeOK, Top
    <2> QED
      BY <2>1, TopType DEF TypeInv, VerdictInv, ChainVouched
  <1>2. ASSUME NEW r, r.lambda # "satisfied" /\ r.goal = "none", (Inside /\ Leave(r)) \/ Refuse(r)
        PROVE  VerdictInv'
    BY <1>1, <1>2, LeaveVerdicts
  <1>3. ASSUME UNCHANGED <<stack, result, vouched>> PROVE VerdictInv'
    BY <1>3 DEF VerdictInv, ChainVouched, FrameVouched, SatisfiedWasVouched, GoalNeedsEvidence
  <1>4. Inside /\ Top.ops < MaxOps
          => /\ NextOp(Top) \in Frames
             /\ NextOp(Top).lambda = Top.lambda /\ NextOp(Top).verdict = Top.verdict
    BY <1>1, FrameTypes DEF NextOp, Frames
  <1>5. ASSUME HasOperation, NEW next, Continue(NextOp(Top), next), vouched' = vouched
        PROVE  VerdictInv'
    BY <1>1, <1>4, <1>5, ContinueVerdicts DEF HasOperation, Inside, FrameVouched
  <1>6. CASE StopAtLimit \/ StopAtCycle
    BY <1>2, <1>6, StopsAreUnjudged DEF StopAtLimit, StopAtCycle
  <1>7. CASE EnterNode
    <2>1. PICK goal \in Goals : stack' = <<NewFrame(query, goal)>> \o stack
      BY <1>7 DEF EnterNode
    <2> DEFINE f == NewFrame(query, goal)
    <2>2. f \in Frames /\ f.lambda # "satisfied" /\ f.verdict # "satisfied"
      BY NewFrameType DEF TypeInv, TypeOK
    <2> HIDE DEF f
    <2>3. /\ Len(stack') = Len(stack) + 1 /\ Len(stack) \in Nat /\ stack'[1] = f
          /\ \A i \in 1..Len(stack) : stack'[i + 1] = stack[i]
      BY <2>1, <2>2, PushFacts DEF TypeInv, TypeOK, f
    <2>4. ASSUME NEW i \in 1..Len(stack') PROVE FrameVouched(stack[i])'
      <3>1. CASE i = 1
        BY <2>2, <2>3, <3>1 DEF FrameVouched
      <3>2. CASE i # 1
        <4>1. i - 1 \in 1..Len(stack) /\ (i - 1) + 1 = i
          BY <2>3, <3>2
        <4>2. stack'[i] = stack[i - 1]
          BY <2>3, <4>1
        <4> QED
          BY <1>7, <4>1, <4>2 DEF EnterNode, VerdictInv, ChainVouched, FrameVouched
      <3> QED
        BY <3>1, <3>2
    <2> QED
      BY <1>7, <2>4 DEF EnterNode, VerdictInv, ChainVouched, SatisfiedWasVouched,
                        GoalNeedsEvidence
  <1>8. CASE ResolveInput \/ Resolve \/ CalleeThrows \/ Tick \/ UNCHANGED vars
    BY <1>3, <1>8 DEF ResolveInput, Resolve, CalleeThrows, Tick, vars
  <1>9. CASE BindingMissing \/ InvokeWithoutResolver
    BY <1>2, <1>9, StopsAreUnjudged
       DEF BindingMissing, InvokeWithoutResolver, HasOperation, Inside
  <1>10. CASE ResolverAnswers
    BY <1>2, <1>3, <1>10, StopsAreUnjudged DEF ResolverAnswers, Inside
  <1>11. CASE CallerResumes
    <2>1. result \in Results /\ Top \in Frames /\ stack # <<>>
      BY <1>11, TopType DEF TypeInv, TypeOK, CallerResumes
    <2>2. CASE GoesUp(result)
      BY <1>11, <2>1, <2>2, LeaveVerdicts
         DEF CallerResumes, VerdictInv, SatisfiedWasVouched, GoalNeedsEvidence
    <2>3. CASE ~GoesUp(result)
      <3> DEFINE f == [Top EXCEPT !.transport = result.transport, !.lambda = result.lambda,
                                  !.reason = result.reason]
      <3>1. f \in Frames
        BY <2>1, FrameTypes
      <3>2. f.lambda = result.lambda /\ f.verdict = Top.verdict
        BY <2>1 DEF Frames
      <3>3. FrameVouched(Top)
        BY <2>1, PopFacts DEF TypeInv, TypeOK, Top, VerdictInv, ChainVouched
      <3>4. Continue(f, "ops") /\ vouched' = vouched
        BY <1>11, <2>3 DEF CallerResumes
      <3> HIDE DEF f
      <3> QED
        BY <2>1, <3>1, <3>2, <3>3, <3>4, ContinueVerdicts
           DEF FrameVouched, VerdictInv, SatisfiedWasVouched
    <2> QED
      BY <2>2, <2>3
  <1>12. CASE SelectOrProject
    BY <1>2, <1>5, <1>12, StopsAreUnjudged DEF SelectOrProject, HasOperation, Inside
  <1>13. CASE Bind \/ Validate \/ Invoke
    BY <1>5, <1>13 DEF Bind, Validate, Invoke
  <1>14. ASSUME Inside, CallSettles PROVE VerdictInv'
    <2>1. CASE \E r \in PluginStops(Top.id) : Leave(r)
      BY <1>2, <1>14, <2>1, StopsAreUnjudged
    <2>2. ASSUME NEW t \in {"succeeded", "unknown"}, NEW ev \in SUBSET {"plugin"},
                 Continue([Top EXCEPT !.transport = t, !.evidence = @ \cup ev], "ops"),
                 vouched' = vouched
          PROVE  VerdictInv'
      <3> DEFINE f == [Top EXCEPT !.transport = t, !.evidence = @ \cup ev]
      <3>1. t \in Transports /\ ev \in SUBSET Parties
        BY DEF Transports, Parties
      <3>2. f \in Frames /\ f.lambda = Top.lambda /\ f.verdict = Top.verdict
        BY <1>1, <1>14, <3>1 DEF Frames
      <3>3. Continue(f, "ops")
        BY <2>2
      <3> HIDE DEF f
      <3> QED
        BY <1>1, <1>14, <2>2, <3>2, <3>3, ContinueVerdicts DEF FrameVouched
    <2> QED
      BY <1>14, <2>1, <2>2 DEF CallSettles
  <1>15. CASE PluginAnswers
    BY <1>14, <1>15 DEF PluginAnswers, Inside
  <1>16. CASE TimerFires
    <2>1. CASE phase = "calling"
      BY <1>2, <1>14, <1>16, <2>1, StopsAreUnjudged DEF TimerFires, RaceAtTheDeadline, Inside
    <2>2. CASE phase # "calling"
      BY <1>3, <1>16, <2>2 DEF TimerFires
    <2> QED
      BY <2>1, <2>2
  <1>17. CASE VerifierAnswers
    <2>1. PICK verdict \in Verdicts \ {"none"} :
            /\ Continue([Top EXCEPT !.verdict = verdict], "ops")
            /\ vouched' = (vouched \/ verdict = "satisfied")
      BY <1>17 DEF VerifierAnswers
    <2> DEFINE f == [Top EXCEPT !.verdict = verdict]
    <2>2. Inside
      BY <1>17 DEF VerifierAnswers, Inside
    <2>3. f \in Frames /\ f.lambda = Top.lambda /\ f.verdict = verdict
      BY <1>1, <2>2, FrameTypes DEF Frames
    <2>4. Continue(f, "ops")
      BY <2>1
    <2> HIDE DEF f
    <2> QED
      BY <1>1, <2>1, <2>2, <2>3, <2>4, ContinueVerdicts DEF FrameVouched
  <1>18. CASE RunGoalVerifier
    <2> DEFINE f == [Top EXCEPT !.ops = MaxOps]
    <2>1. Inside
      BY <1>18 DEF RunGoalVerifier, Inside
    <2>2. f \in Frames /\ f.lambda = Top.lambda /\ f.verdict = Top.verdict
      BY <1>1, <2>1, LimitsAssumption DEF Frames
    <2>3. Continue(f, "verifying") /\ vouched' = vouched
      BY <1>18 DEF RunGoalVerifier
    <2> HIDE DEF f
    <2> QED
      BY <1>1, <2>1, <2>2, <2>3, ContinueVerdicts DEF FrameVouched
  <1>19. CASE CompleteNode
    <2>1. Inside /\ Leave(Completed(Top))
      BY <1>19 DEF CompleteNode, Inside
    <2> QED
      BY <1>1, <2>1, CompletionIsJudged, LeaveVerdicts
  <1>20. CASE Unwind
    <2>1. CASE stack = <<>>
      BY <1>3, <1>20, <2>1 DEF Unwind
    <2>2. CASE stack # <<>>
      <3>1. /\ stack' = Tail(stack) /\ Len(stack) \in Nat \ {0}
            /\ Len(stack') = Len(stack) - 1
            /\ \A i \in 1..(Len(stack) - 1) : stack'[i] = stack[i + 1]
        BY <1>20, <2>2, PopFacts DEF Unwind, Finally, TypeInv, TypeOK
      <3>2. \A i \in 1..Len(stack') : i + 1 \in 1..Len(stack) /\ stack'[i] = stack[i + 1]
        BY <3>1
      <3> QED
        BY <1>20, <3>2 DEF Unwind, VerdictInv, ChainVouched, FrameVouched,
                           SatisfiedWasVouched, GoalNeedsEvidence
    <2> QED
      BY <2>1, <2>2
  <1> QED
    BY <1>6, <1>7, <1>8, <1>9, <1>10, <1>11, <1>12, <1>13, <1>15, <1>16, <1>17, <1>18,
       <1>19, <1>20 DEF Next, Step, Environment

\* No plugin, binding, projection or nested query makes a lambda satisfied by
\* itself, and a query with a goal is judged on a verifier's evidence only
\* (evaluator.ts:48-50, 139-141, 279-306).
THEOREM VerdictsAreEarned == Spec => [](SatisfiedWasVouched /\ GoalNeedsEvidence)
  <1>1. Init => VerdictInv
    <2>1. NoResult.lambda # "satisfied" /\ NoResult.goal = "none"
      BY DEF NoResult, Envelope
    <2> QED
      BY <2>1 DEF Init, VerdictInv, ChainVouched, SatisfiedWasVouched, GoalNeedsEvidence
  <1>2. VerdictInv => SatisfiedWasVouched /\ GoalNeedsEvidence
    BY DEF VerdictInv
  <1> QED
    BY <1>1, <1>2, VerdictStep, TypeCorrect, PTL DEF Spec

----------------------------------------------------------------------------
\* Evaluator implements EvaluationContract: every step of the evaluator is a step
\* of the contract or changes nothing the contract can see.  The contract bounds
\* the number of open queries, the code the length of the call chain: they are the
\* same by ActiveCount.

\* What the refinement mapping of Evaluator makes of the state.
HaltNow ==
  IF phase \in {"throw", "rejected"} THEN "rejected"
  ELSE IF phase \in {"return", "done"} /\ result.control # "result"
    THEN StopOf(result) ELSE "none"

\* What a query stops with of its own accord.
OwnStop(r) == r.reason \notin {"max-depth-exceeded", "max-nodes-exceeded"}

\* The evaluator starts as its contract does: nothing open, nothing halted.
LEMMA ContractInit == Init => Contract!Init
  BY LimitsAssumption DEF Init, Contract!Init, Ended

\* Inside evaluateNode nothing has halted yet, and the innermost query is open.
LEMMA InsideFacts ==
  ASSUME TypeInv, ChainInv, Inside
  PROVE  HaltNow = "none" /\ ~Ended /\ stack # <<>> /\ Top.id \in active /\ Top.id \in Id
  <1>1. stack # <<>> /\ Top = stack[1] /\ 1 \in 1..Len(stack)
    BY PopFacts DEF TypeInv, TypeOK, InsideHasFrame, Top
  <1>2. Top.id \in active /\ Top.id \in Id
    BY <1>1 DEF ChainInv, ActiveIsTheCallChain, Ids, TypeInv, TypeOK
  <1> QED
    BY <1>1, <1>2 DEF Inside, HaltNow, Ended

\* A query that ends by itself closes, and may halt the evaluation.
LEMMA LeaveCloses ==
  ASSUME TypeInv, ChainInv, Inside, NEW r \in Results, Leave(r),
         r.control # "result" => OwnStop(r)
  PROVE  Contract!Next
  <1>1. HaltNow = "none" /\ ~Ended /\ Top.id \in active /\ Top.id \in Id
    BY InsideFacts
  <1>2. HaltNow' \in {"none", "bottom", "last-order"} /\ ~Ended'
    BY DEF Leave, HaltNow, StopOf, OwnStop, Ended, Results, Controls
  <1>3. active' = active \ {Top.id} /\ limits' = limits /\ nodes' = nodes
    BY DEF Leave, Finally
  <1> QED
    BY <1>1, <1>2, <1>3 DEF Contract!Next, Contract!Close, HaltNow, Ended

\* Going on with a query is invisible.
LEMMA ContinueIsSilent ==
  ASSUME HaltNow = "none", ~Ended, NEW f, NEW next \in {"ops", "calling", "verifying"},
         Continue(f, next)
  PROVE  UNCHANGED Contract!vars
  BY DEF Continue, Contract!vars, HaltNow, Ended

\* A refusal halts the evaluation before the query is open.
LEMMA RefusalHalts ==
  ASSUME /\ phase = "enter" /\ phase' = "return" /\ result'.control \in {"bottom", "last-order"}
         /\ UNCHANGED <<limits, active, nodes>>
         /\ result'.reason = "max-depth-exceeded" => Cardinality(active) > limits.maxDepth
         /\ result'.reason = "max-nodes-exceeded" => nodes >= limits.maxNodes
  PROVE  Contract!Next
  <1>1. Contract!Cardinality(active) = Cardinality(active)
    BY DEF Contract!Cardinality, Cardinality, Contract!IsFiniteSet, IsFiniteSet
  <1>2. HaltNow = "none" /\ ~Ended /\ Ended' = FALSE /\ HaltNow' = StopOf(result)'
    BY DEF HaltNow, Ended
  <1>3. /\ HaltNow' \in Contract!Halts
        /\ HaltNow' = "too deep" => Cardinality(active) > limits.maxDepth
        /\ HaltNow' = "too many" => nodes >= limits.maxNodes
    BY <1>2 DEF StopOf, Contract!Halts
  <1>4. Ended' = Ended
    BY DEF Ended
  <1>5. Contract!Halt
    BY <1>1, <1>2, <1>3, <1>4 DEF Contract!Halt, HaltNow, StopOf
  <1> QED
    BY <1>5 DEF Contract!Next

\* No query stops of its own accord for a limit.
LEMMA OwnStops ==
  ASSUME NEW q
  PROVE  /\ \A reason \in {"mapping-unavailable", "projection-input-not-object"} :
              OwnStop(Bottom(q, reason))
         /\ OwnStop(PluginNotFound(q)) /\ OwnStop(ResourceLimit(q))
         /\ \A r \in PluginStops(q) : OwnStop(r)
         /\ \A reason : Unknown(q, reason).control = "result"
         /\ \A f : Completed(f).control = "result"
  BY DEF OwnStop, Bottom, Unknown, Completed, PluginStops, PluginNotFound, PluginCallFailed,
         ResourceLimit, Envelope

\* Every step of the evaluator is one of the contract, or invisible to it.
LEMMA ContractStep ==
  TypeInv /\ ChainInv /\ [Next]_vars => [Contract!Next]_(Contract!vars)
  <1> SUFFICES ASSUME TypeInv, ChainInv, [Next]_vars
               PROVE  Contract!Next \/ UNCHANGED Contract!vars
    OBVIOUS
  <1> DEFINE Implements == Contract!Next \/ UNCHANGED Contract!vars
  <1>1. Inside => /\ HaltNow = "none" /\ ~Ended /\ stack # <<>>
                  /\ Top.id \in Id /\ Top.id \in active
    BY InsideFacts
  <1>2. ASSUME Inside, NEW r \in Results, Leave(r), r.control # "result" => OwnStop(r)
        PROVE  Implements
    BY <1>2, LeaveCloses
  <1>3. ASSUME Inside, NEW f, NEW next \in {"ops", "calling", "verifying"}, Continue(f, next)
        PROVE  Implements
    BY <1>1, <1>3, ContinueIsSilent
  <1>4. CASE StopAtLimit \/ StopAtCycle
    <2>1. /\ LimitResult(query, LimitReason).control = "last-order"
          /\ LimitResult(query, LimitReason).reason = LimitReason
      BY DEF LimitResult, Envelope
    <2>2. /\ Bottom(query, "cycle-detected").control = "bottom"
          /\ Bottom(query, "cycle-detected").reason = "cycle-detected"
      BY DEF Bottom, Envelope
    <2>3. /\ LimitReason = "max-depth-exceeded" => Cardinality(active) > limits.maxDepth
          /\ LimitReason = "max-nodes-exceeded" => nodes >= limits.maxNodes
      <3>1. Cardinality(active) = Len(stack)
        BY DEF ChainInv, ActiveCount
      <3> QED
        BY <3>1 DEF LimitReason
    <2> QED
      <3>1. CASE StopAtLimit
        BY <2>1, <2>3, <3>1, RefusalHalts DEF StopAtLimit, Refuse
      <3>2. CASE StopAtCycle
        BY <2>2, <3>2, RefusalHalts DEF StopAtCycle, Refuse
      <3> QED
        BY <1>4, <3>1, <3>2
  <1>5. CASE EnterNode
    <2>1. Cardinality(active) <= limits.maxDepth /\ nodes < limits.maxNodes
      <3>1. Len(stack) <= limits.maxDepth /\ nodes < limits.maxNodes
        <4>1. /\ Len(stack) \in Nat /\ nodes \in Nat
              /\ limits.maxDepth \in Nat /\ limits.maxNodes \in Nat
          BY DEF TypeInv, TypeOK, Limits
        <4> QED
          BY <1>5, <4>1 DEF EnterNode, LimitReason
      <3> QED
        BY <3>1 DEF ChainInv, ActiveCount
    <2>2. HaltNow = "none" /\ HaltNow' = "none" /\ ~Ended /\ ~Ended'
      BY <1>5 DEF EnterNode, HaltNow, Ended
    <2>3. query \in Id
      BY DEF TypeInv, TypeOK
    <2> QED
      <3>1. /\ query \notin active /\ active' = active \cup {query}
            /\ nodes' = nodes + 1 /\ limits' = limits
        BY <1>5 DEF EnterNode
      <3>2. Contract!Cardinality(active) = Cardinality(active)
        BY DEF Contract!Cardinality, Cardinality, Contract!IsFiniteSet, IsFiniteSet
      <3>3. Contract!Open(query)
        BY <2>1, <2>2, <3>1, <3>2 DEF Contract!Open, HaltNow, Ended
      <3> QED
        BY <2>3, <3>3 DEF Contract!Next
  <1>6. CASE ResolveInput \/ Tick \/ UNCHANGED vars
    BY <1>6 DEF ResolveInput, Tick, vars, Contract!vars, Ended
  <1>7. CASE BindingMissing \/ InvokeWithoutResolver \/ CompleteNode
    <2>1. Inside /\ Top \in Frames
      BY <1>1, <1>7, TopType DEF BindingMissing, InvokeWithoutResolver, HasOperation, CompleteNode,
                                 Inside, TypeInv
    <2>2. {Unknown(Top.id, "binding-not-found"), PluginNotFound(Top.id), Completed(Top)}
            \subseteq Results
      BY <1>1, <2>1, ResultTypes, CompletedType DEF Reasons
    <2> QED
      BY <1>2, <1>7, <2>1, <2>2, OwnStops DEF BindingMissing, InvokeWithoutResolver, CompleteNode
  <1>8. CASE ResolverAnswers
    <2>1. Inside
      BY <1>8 DEF ResolverAnswers, Inside
    <2>2. Unknown(Top.id, "query-ref-not-found") \in Results
      BY <1>1, <2>1, ResultTypes DEF Reasons
    <2>3. CASE Leave(Unknown(Top.id, "query-ref-not-found"))
      BY <1>2, <2>1, <2>2, <2>3, OwnStops
    <2>4. CASE ~Leave(Unknown(Top.id, "query-ref-not-found"))
      BY <1>8, <2>4 DEF ResolverAnswers, Contract!vars, Ended
    <2> QED
      BY <2>3, <2>4
  <1>9. CASE CallerResumes
    <2>1. /\ phase = "return" /\ stack # <<>> /\ result \in Results
          /\ Top.id \in active /\ Top.id \in Id
      <3>1. Top = stack[1] /\ 1 \in 1..Len(stack)
        BY <1>9, PopFacts DEF CallerResumes, TypeInv, TypeOK, Top
      <3> QED
        BY <1>9, <3>1 DEF CallerResumes, TypeInv, TypeOK, ChainInv, ActiveIsTheCallChain, Ids
    <2>2. CASE GoesUp(result)
      <3>1. Leave(result)
        BY <1>9, <2>2 DEF CallerResumes
      <3>2. HaltNow = StopOf(result) /\ HaltNow' = HaltNow /\ HaltNow # "none"
            /\ ~Ended /\ ~Ended'
        BY <2>1, <2>2, <3>1 DEF Leave, HaltNow, StopOf, Ended, GoesUp, Results, Controls
      <3>3. active' = active \ {Top.id} /\ limits' = limits /\ nodes' = nodes
        BY <3>1 DEF Leave, Finally
      <3> QED
        BY <2>1, <3>2, <3>3 DEF Contract!Next, Contract!Close, HaltNow, Ended
    <2>3. CASE ~GoesUp(result)
      <3>1. HaltNow = "none" /\ ~Ended
        BY <2>1, <2>3 DEF HaltNow, Ended, GoesUp
      <3> QED
        BY <1>9, <2>3, <3>1, ContinueIsSilent DEF CallerResumes
    <2> QED
      BY <2>2, <2>3
  <1>10. CASE Resolve
    <2>1. active = {}
      BY <1>10 DEF Resolve, ChainInv, ActiveIsTheCallChain, Ids
    <2>2. ~Ended /\ Ended' /\ HaltNow' = HaltNow
      BY <1>10 DEF Resolve, Ended, HaltNow
    <2> QED
      BY <1>10, <2>1, <2>2 DEF Resolve, Contract!Next, Contract!End, HaltNow, Ended
  <1>11. CASE SelectOrProject
    <2>1. Inside
      BY <1>11 DEF SelectOrProject, HasOperation, Inside
    <2>2. \A reason \in {"mapping-unavailable", "projection-input-not-object"} :
            Bottom(Top.id, reason) \in Results
      BY <1>1, <2>1, ResultTypes DEF Reasons
    <2> QED
      BY <1>2, <1>3, <1>11, <2>1, <2>2, OwnStops DEF SelectOrProject
  <1>12. CASE Bind \/ Validate \/ Invoke \/ RunGoalVerifier \/ VerifierAnswers
    <2>1. Inside
      BY <1>12 DEF Bind, Validate, Invoke, RunGoalVerifier, VerifierAnswers, HasOperation, Inside
    <2> QED
      BY <1>3, <1>12, <2>1 DEF Bind, Validate, Invoke, RunGoalVerifier, VerifierAnswers
  <1>13. ASSUME Inside, CallSettles PROVE Implements
    <2>1. PluginStops(Top.id) \subseteq Results
      BY <1>1, <1>13, ResultTypes
    <2> QED
      BY <1>2, <1>3, <1>13, <2>1, OwnStops DEF CallSettles
  <1>14. CASE PluginAnswers
    BY <1>13, <1>14 DEF PluginAnswers, Inside
  <1>15. CASE TimerFires
    <2>1. CASE phase = "calling"
      <3>1. Inside /\ ResourceLimit(Top.id) \in Results
        BY <1>1, <2>1, ResultTypes DEF Inside
      <3> QED
        BY <1>2, <1>13, <1>15, <2>1, <3>1, OwnStops DEF TimerFires, RaceAtTheDeadline
    <2>2. CASE phase # "calling"
      BY <1>15, <2>2 DEF TimerFires, Contract!vars, Ended
    <2> QED
      BY <2>1, <2>2
  <1>16. CASE CalleeThrows
    <2>1. Inside /\ phase' = "throw"
      BY <1>16 DEF CalleeThrows, Inside
    <2>2. HaltNow = "none" /\ HaltNow' = "rejected" /\ ~Ended /\ ~Ended'
      BY <1>1, <2>1 DEF HaltNow, Ended
    <2> QED
      BY <1>16, <2>2 DEF CalleeThrows, Contract!Next, Contract!Halt, Contract!Halts,
                         HaltNow, Ended
  <1>17. CASE Unwind
    <2>1. CASE stack = <<>>
      <3>1. active = {}
        BY <2>1 DEF ChainInv, ActiveIsTheCallChain, Ids
      <3> QED
        BY <1>17, <2>1, <3>1 DEF Unwind, Contract!Next, Contract!End, Ended
    <2>2. CASE stack # <<>>
      <3>1. Top.id \in active /\ Top.id \in Id
        <4>1. Top = stack[1] /\ 1 \in 1..Len(stack)
          BY <2>2, PopFacts DEF TypeInv, TypeOK, Top
        <4> QED
          BY <4>1 DEF TypeInv, TypeOK, ChainInv, ActiveIsTheCallChain, Ids
      <3>2. /\ active' = active \ {Top.id} /\ limits' = limits /\ nodes' = nodes
            /\ phase = "throw" /\ phase' = "throw"
        BY <1>17, <2>2 DEF Unwind, Finally
      <3> QED
        BY <3>1, <3>2 DEF Contract!Next, Contract!Close, Ended
    <2> QED
      BY <2>1, <2>2
  <1> QED
    BY <1>4, <1>5, <1>6, <1>7, <1>8, <1>9, <1>10, <1>11, <1>12, <1>14, <1>15, <1>16,
       <1>17 DEF Next, Step, Environment

\* The evaluator keeps the contract: nothing opens after a stop, no query is open
\* twice, the two budgets hold, and a bottom, a Last Order or a rejection is what
\* the caller of evaluateQ gets in the end.
THEOREM ImplementsContract == Spec => ContractSpec
  <1>1. ChainInv <=> (ActiveIsTheCallChain /\ ActiveCount)
    BY DEF ChainInv
  <1> QED
    BY <1>1, ContractInit, ContractStep, TypeCorrect, ChainHolds, PTL
       DEF Spec, ContractSpec, Contract!Spec
=============================================================================

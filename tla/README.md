# FQuery: a TLA+ verification of its core

FQuery evaluates queries over FAM records: queries refer to one another, call
plugins (often language models) under limits, and come back with a value, a
stop, and statuses on several axes. Around the evaluator stand a presentation
session that GUIs talk to, a Playground that decomposes a text recursively, an
edit engine, and adapters for plugins. This directory holds TLA+ models of the
parts whose control is hard to test, TLC configurations that check them on small
instances, and proofs of what matters most for every instance.

`PROJECT.json` lists the components, the runs with what each shows, the mutants
(a plausible bug per property, which the property's run must find), the source
lines of every definition, the hazards and the theorems.

    tlc -workers 2 -config MCEvaluator.cfg MCEvaluator     # a run
    tlapm EvaluatorProofs.tla                              # a proof

## The system

| Component | State it keeps | Operations | Talks to |
|---|---|---|---|
| Evaluator, `packages/core/src/evaluator.ts` | call chain, `state.active`, bindings, node count, deadline, plugin timer | `evaluateQ`, `evaluateNode`, `invokeCapability`, `runVerifier` | plugin, query and verifier resolvers given by the host |
| Topology, `packages/core/src/topology*.ts` | none | `normalizeFamTopology`, `resolveTopologySelector`, `projectTopologyForRunner` | the module graph, a runner |
| Module graph, `packages/core/src/module-graph.ts` | the walk over references | `resolveFamModuleGraph` | a resolver of modules, the topology of each module |
| Fold planning, `packages/core` | none; a runner calls it again and again | `planParallelFold`, `reprojectFold` | a runner, the causal projection |
| Presentation session, `packages/ui-core/src/session.ts` | nodes, connections, layout, selection, presentations, pending requests | `dispatch`, `applyEngineEvent`, `subscribe` | a decision port, the plugin presentation registry |
| Fixture port, `packages/ui-core/src/fixture-port.ts` | counters for ids | `decide` | the session's state |
| FAM edit, `packages/fam-edit` | revisions | `openFamText`, `diffJson`, `patchFromDiff`, `previewFamDraftPatch`, `applyFamPatch`, `replaceFamUnit`, `reviewParentPatchProposal` | the editor, the host session |
| FAM records, `packages/fam-core` | none | validators, unit identity, access maps | gateway, edit engine, canvas |
| FAMLOG, fold log, `packages/famlog` | append-only records | `append`, `deliverOaeRecord` | the Playground |
| Plugin SDK, `packages/plugin-sdk` | the registry | `Decomposer`s, registry `invoke`, adapters, CLI harness | the evaluator (as a plugin resolver), executors |
| CLI executors, `apps/playground/server/cli-executor.ts`, `plugins/ibd/src/executor.ts` | one child process per call | `execute` | the operating system |
| Providers, `plugins/gemini`, `plugins/ollama`; credentials, `packages/config` | one or two calls per invocation | `invoke`, `decompose`, `resolveCredential` | models over HTTP, environment and files |
| Gateway, `apps/playground/server/gateway.ts` | none between requests | `decomposeText`, `validateWithAccessMap` | browser, evaluator, plugins |
| Playground, `apps/playground/src` | runs of recursive decompositions, the projected graph, canonical FAM | `handle`, `execute`, host session, `requestDecompose` | session, gateway, fold log |
| React bindings, hosts, benchmarks | little or none | | |

Everything is one JavaScript thread per process. Code runs undisturbed from one
`await` to the next, and whatever the event loop finds in between (a timer, an
answer, an abort, a user's gesture, the output of a child) may come in any
order. That is the granularity of every model here: **one action is the code
from one await, callback or event to the next.**

What is hard in it:

- *Evaluator*: references are resolved lazily, so cycles and limits meet at any
  depth; a plugin's answer races its timer; a resolver or a verifier may reject
  or never answer; statuses travel through several queries.
- *Session*: the port decides on one state and the decision is applied to
  another; plugins are removed in between.
- *Recursive fold*: a run can be cancelled, replaced or repeated while its
  answer is on its way, and answers come back out of order.
- *CLI executor*: exit, output, timeout, abort and output limits race.
- *Edit path*: a text becomes a difference, a patch, the engine's patches and a
  new document, each made for the document it was made on; effects are published
  from a commit listener, one after the other; revisions are stored only if
  absent; edits from any node go to one document, which a decomposition may
  replace in between.
- *From a module to its runs*: names, pointers and selectors share one space of
  references; the runner plans again after every child that settles.
- *Canvas*: units nest and relate at any depth, the drawing is one dispatch after
  the other and may throw on the way.
- *A decomposition's way to its provider*: four timers, two of them in another
  process, a repair call, and a signal that has to reach it.
- *Walks*: a module graph is walked while its resolver answers anything.

## Modules

| Module | Models | Checked by |
|---|---|---|
| `Evaluator` | one `evaluateQ` | `evaluation`, `evidence` |
| `EvaluationContract` | what `evaluateQ` promises its caller | refinement in `evaluation`, proved |
| `EvaluatorProofs` | proofs about `Evaluator` | tlapm |
| `PresentationSession` | session and fixture port: nodes, connections, layout, selection | `session` |
| `SessionProofs` | proofs about `PresentationSession` | tlapm |
| `PluginPresentation` | registry, projections and ghosts | `ghosts` |
| `RecursiveFold` | `RecursiveFoldController`, the handlers of `App.tsx`, the projection in `core-graph.ts` | `recursive_fold` |
| `RecursiveFoldProofs` | proofs about `RecursiveFold` | tlapm |
| `CliExecutor` | `cli-harness.ts` and `cli-executor.ts` | `cli` |
| `NodeCliExecutor` | a call that is served by `CliExecutor` or by the executor of `plugins/ibd` | `cli` |
| `CliProofs` | proofs about `CliExecutor` alone and about both executors | tlapm |
| `FamTopology` | `topology.ts`, `topology-projection.ts`: operators | `topology` |
| `FoldPlanner` | `parallel-fold.ts` and the runner that calls it | `topology` |
| `TopologyRunner` | `FamTopology` and `FoldPlanner` composed | `topology` |
| `ModuleGraph` | `resolveFamModuleGraph` | `topology` |
| `ModuleClosure` | what the walk promises, in whatever order | refinement in `topology`, proved |
| `ResolvedModules` | `ModuleGraph`, `FamTopology` and `TopologyRunner` composed | `topology` |
| `ResolvedModulesProofs` | proofs about `ModuleGraph`, `FoldPlanner` and, composed, `FamTopology` and `TopologyRunner` | tlapm |
| `HostEdit` | `host/session.ts`, `replaceFamUnit`, `FoldLog.append`, and where `App.tsx` edits and shows documents | `host_edit`, `lost_edit` |
| `HostEditProofs` | proofs about `HostEdit` | tlapm |
| `JsonDraft` | diff, draft patches, the host's translation, the engine's operations: operators | `drafts` |
| `DraftEditing` | edits of a text, patches of a panel, reviewed proposals | `drafts` |
| `SemanticTopology` | unit identity, access map selection, containment and lifted relations: operators | `semantic_view` |
| `CausalProjection` | gates: `causal-projection.ts`, `fold-reprojection.ts`: operators | `semantic_view` |
| `GraphProjection` | `projectDecompositionGraph` and the result of `execute` | `semantic_view` |
| `GraphProjectionProofs` | proofs about `GraphProjection` | tlapm |
| `ProviderCall` | `requestDecompose`, `decomposeText`, `Decomposer`s, the plugins of Gemini and Ollama, credentials | `provider_call` |
| `ProviderCallProofs` | proofs about `ProviderCall` | tlapm |

The modules `MC...` only give model values, inputs and bounds.

### Evaluator

The recursion of `evaluateNode` is a stack of frames (id, operations left, goal,
axes, evidence, verdict), innermost first; `phase` says where the innermost call
stands: entering, resolving its input, in its loop of operations, awaiting a
plugin or a verifier, returning, throwing. The checks at the entry, each kind of
input, each kind of operation, the goal, `completeAxes`, the timer's callback and
the `finally` are actions or operators with the names of the code.

A query is *read lazily*: its input, operations and goal are chosen when the code
reads them, so the model ranges over every tree of queries, resolvers that return
the same query again included. Abstracted: values, emitted events, messages;
`semanticStatus` moves with lambda. Evidence is the set of parties (plugin,
verifier) that gave some. A resolver without plugins is a choice per call.

Time is counted in ticks and saturates one tick after the deadline, which is all
the code compares with. A plugin may answer, fail, answer something else, settle
inside its abort listener, be late by less than a turn of the event loop
(`RaceAtTheDeadline`), or never answer.

`EvaluationContract` is what a caller may rely on, with nothing of plugins, axes
or frames: queries open and close under two budgets, none is open twice, and
once a stop or a rejection has happened nothing is opened any more and that stop
is what the caller gets. A budget may be the reason of a stop only when it is used
up, so neither a query too many nor a refusal one query too early implements it.
`Evaluator` implements it with `open <- active`, `spent <- nodes`, and `halt` read off
the phase and the result (`StopOf`).

### PresentationSession and PluginPresentation

`dispatch` is split where it awaits: a request reads the state and leaves its
decision in `pending` (`Request...`), `Settle` applies it to the state of that
moment (`Apply`), `PortBreaks` is a port that throws or names another request.
Nothing in `session.ts` keeps other events from coming between a decision and its
application; whether they do is a habit of its callers, and `interleaved`, chosen in
`Init`, says which. With the fixture port a decision is applied one microtask after it
was made: a caller that awaits each of its requests, as the Playground's own
sequences do, lets nothing in between (FALSE), while two callers at once, or a port
that answers with a promise, do (TRUE). `ViewIsConsistent`, `RemovalIsComplete` and
`NoDecisionIsLost` hold in both cases; `ConnectionsAreSound` holds for a caller that
waits, and is false of the others: a late `connection.add` is applied to ports that
meanwhile are taken. Likewise a late `property.change` puts back the node as the port
saw it (`ReplaceNode`, `session.ts:202`), so a value that changed in between is lost.
No document of the repository says it must not be, and no property here does.

`NoDecisionIsLost` is about `decisions`, the session's own record: every request that
was answered is on it once, and connections, layout and nodes are those that the
accepted decisions give when they are read in the order of the list, however late each
came. Selections and events of the engine on that list are left out. A node
has one input and one output; `ManyInput` holds the capabilities whose input is
of cardinality many. `PluginPresentation` keeps the other half of the state:
which registration each node is shown by, with plugins that come and go. They
are two modules because nothing in one reads the other.

### RecursiveFold

Nodes and foldRefs are kept apart, as in the code: the session gives every node
a new id, the provider names the units, and a later decomposition may use a name
again. Runs belong to names, badges to nodes. `RequestWhy` is the handler of
`unit.recursive-decompose` up to its fetch: start or refuse a run, set the badge,
remember the projection it replaces. Its answer is one of four actions: too late,
failed, projected, or thrown by the projection, before or among its units, which
then stay. Only units have the buttons; once decomposed a unit is a boundary,
and a second run of its name needs another node of that name. `ReplaceUnit` is an
edit: it cancels the run of the name, and the host accepts it only for units of
the last decomposition. `Execute` is a new decomposition of the source. `decide`
answers in the same turn here, so the decision is part of the request. Left out:
the user's own removal of nodes, the content of units beyond its revision, units that
contain units of the same recursive decomposition (here all hang from the unit that
was asked), and an `execute` that throws while it draws; the last two are in
`GraphProjection`, which draws any document.

### CliExecutor

One call from the handler to its result. Each callback that
`executeRegisteredCommand` installs is an action: the timeout, the abort
listener, data on two streams, `error`, `close`; `settle` and `stop` are
operators. The child is external: it writes, exits with a code or dies of a
signal whenever it likes, may ignore SIGTERM and may leave a process behind that
holds its pipes. Output is counted in units and arrives in chunks of any size.

### NodeCliExecutor

The executor of `plugins/ibd` behind the same handler, on the variables of
`CliExecutor`; `executor` says which of the two serves the call. It kills the
child with SIGKILL and settles at once, where the other sends SIGTERM and waits
for the pipes; it does not look at a signal that was aborted before the call; and
nobody listens to errors of the child's stdin, so that a child that ends with its
input unread may end the process of its host (`StdinBreaks`). The receipt a child
killed by the timeout would still give comes too late to count.

### ModuleGraph

The recursion of `visit` is a stack of open calls, each with its module, the
references of it and the next of them; `OnPath` is `activePath`. The walk awaits
its resolver once per reference and reads nothing afterwards that another task
can change, so a reference with its answer is one step. The resolver is the
host's and may answer anything: nothing, another module than the one asked for
(the code compares only a pinned revision), a new module each time. A module is
its key and, of each reference, the revision it pins. `ModuleClosure` is the
worklist such a walk implements: some open reference is answered, in any order,
until none is left; `ModuleGraph` implements it depth first.

### FamTopology, FoldPlanner, TopologyRunner and ResolvedModules

`FamTopology` holds the pure functions of `topology.ts`. A FAM is the sequence of
its nodes in the order `visit` meets them; a reference is a number, the place of
the node for its pointer, and names an author gives are numbers too, so that a
name may be another node's pointer. A string is the sequence of its parts between
dots: `this.after.a.b` has two qualifiers, which the code reads as two layers or as
the property name `a.b`. Layers, the merging of edges, the issues, the lookup by
`byRef` (last wins) and by `find` (first wins) are those of the code. A list of
children is a function on the places of the nodes: what the code does with it
depends on its order and on no index, so the places serve for both, and the
references of the nodes are one recursive function on the places before each.

`FoldPlanner` is `planParallelFold` with its loop as steps: `Prepare` blocks the
unverified and what depends on children that are not there, `PlanWave` takes those
whose dependencies are available, `StopPlanning` blocks the rest, and a runner
settles children of a finished plan and calls again. `TopologyRunner` begins with the children that
`projectTopologyForRunner` makes of a topology, and `ResolvedModules` walks a graph
of FAMs, whose references are those that `normalizeFamTopology` finds, and then
plans one module of the graph. So the properties of the plans are checked on the
dependencies that FAMs really declare, and proved for any.

Two facts about the code that the properties step around, since no document
speaks of them: a selector with two layers gives an edge, but asked again of the
topology it resolves to nothing, because the resolver joins the qualifiers to one
name (`Declared` exempts it); and a name equal to the pointer of a *later* node
leaves both with one reference, because the pointer is not looked up again. The
second is reported as an issue, and the planner throws on it
(`DuplicatesAreReported`); until it is mended the two ways to look a node up
differ, since normalising takes the last node of a reference and resolving the
first, and a selector asked again may find another node than its edge leads to.
`DependenciesAreDeclared` is therefore about topologies with `OneRefEach`; the
inputs of the run include some without (`MCClashing`).

### HostEdit

What the Playground knows of its document in five places: the canonical FAM, the
revision store, the receipts, the fold log, and the units on the canvas. Only the
answer of a provider is awaited; a gesture is one step with the decision of the
port, its commit, the listener that publishes (`PublishAccepted`, in the order
receipt, log, document), React's effect on the new document (`Effect`) and the
badge that follows. A document is its units with text and revision, its ids, and
whether it fits the decomposition profile, only the base profile ("loose"), or
cannot be projected at all ("unreadable"; the effect throws and React unmounts
the application). The ids are one value, or `None` for a candidate without. A change is what
a patch does to that: a text, a unit, the profile, or something protected. Every
way a step can end is an action of its own: `RejectPatch`, `RejectReplacement`,
`ReplaceThrows`, `AnswerThrows`, `AnswerCandidate`, `AnswerFails`. A provider may
repeat ids and names of units, and a unit of a recursive decomposition may bear
the name of one of the document. All units start as leaves: those that the
topology makes containers have no editor.

### JsonDraft and DraftEditing

`HostEdit` takes the content of a patch as given; these two modules are about it. A
JSON value is a leaf, an array or an object, a pointer a sequence of tokens.
`JsonDraft` has, as operators, the diff of two documents, the patch made of a diff
in descending order of pointers, its preview, the host's translation of it to the
engine's patches (`-` becomes an index *of the document before the first
operation*), the engine's operations, and which children a change affects.
`DraftEditing` sends three requests through them: the text in the editor, a patch
from a panel, and a proposal that a reviewer accepts. `rev` stands for all keys
that no patch may touch. A FAM has three axes and may contain FAMs; one with some of
its axes but not all is refused at any depth (`Complete`).

Two exemptions name what the code does otherwise: `Steady` leaves out patches that
insert into a container an earlier operation of the same patch made or moved
(the translation looks at the old one), and `Moved` leaves out children whose
pointer is into an array from which an earlier element was taken (the comparison
of pointers does not see that they moved). An insertion names its array, so
whatever is observed in it is asked again. The base revision that the host passes is that of the document
it patches (`session.ts:185`), so the engine's check for a stale base can only
fail in a review; and a text that cannot be read leaves no receipt
(`session.ts:170`).

### SemanticTopology, CausalProjection and GraphProjection

A document is its units, with the references and orders a provider may give or
omit, and the relations of its access maps. `SemanticTopology` stamps and projects
the units, reads and selects relations, and computes who contains whom and to
which boundary a relation between two units is lifted. `GraphProjection` is the
drawing: `Clear` what the last one added, `ReadDocument` (which throws on some),
`AddUnit` in an order that puts parents first, `PlaceUnit`, `ConnectBoundary`, then
the result of the decomposition, with the gates of `CausalProjection`. Every
dispatch is a step, and a drawing that throws leaves what it has done.

What the properties leave out: relations without a circle may form one when they
are lifted to a common boundary, and then the drawing throws at the root
(`CircleAtRoot`) or, inside an inner boundary, leaves the children of the circle
off the way from entrance to return; `unit_order` is an index for the gates and a
sort key for the units, so orders other than 0, 1, 2... name other units; and of
two gates that name one unit only the last counts. The projection status "unknown"
cannot come out of `reprojectFold` as the Playground calls it.

### ProviderCall

A decomposition from its caller to the model and back, on the two ways that exist:
the browser through the gateway and a query, or a program through a `Decomposer`
without a signal. `gateway`, `plugin` and `calls` are the three stages; `signal` is
what the plugin was given. The browser's 50 s, the query's 45 s and Ollama's own
115 s are ticks; a tick is far longer than a callback is late, so a timer that is
due fires before the next one. Texts are told apart by what the validators make of
them. The gateway does not notice that its client has given up, and works on.

Read off the code, and modelled so: `abort("client-timeout")` makes `fetch` reject
with that string, which is no `DOMException`, so a timeout of the browser is
reported as `decompose-failed` (`decomposer.ts:47,57`); a variable that is set and
empty counts as found and keeps later sources from being asked (`config:13`); a
refFAM's rejection leaves a receipt and the value is presented all the same.

## Runs and bounds

| Run | Question | Bounds | Distinct states |
|---|---|---|---|
| `evaluation` | call chain, timer, verdicts, contract, end | 2 ids, 1 binding name, `MaxDepth` 1, `MaxNodes` 2, `Timeout` 2 ticks, `MaxOps` 2 | 241,000 |
| `evidence` | is every satisfied result backed by evidence? (no) | `Timeout` 1, `MaxOps` 1, else the same | |
| `session` | what does the view keep in every order, is a decision ever lost, and what holds only for callers that wait? | 3 nodes, 2 capabilities, `MaxRequests` 2, `MaxInflight` 2 | 454,000 |
| `ghosts` | are nodes without a registration ghosts? (no) | 2 nodes, 2 plugins, 2 capabilities | |
| `recursive_fold` | who projects, what the badge says, end | 2 foldRefs, 1 text, `MaxNode` 4, `MaxChildren` 1, `MaxGen` 2, `MaxRev` 1 | 300,000 |
| `cli` | receipts, success, first cause, tools left at work, end, of both executors | limits 2 and 1, `MaxWritten` 3 | 44,000 |
| `topology` | walk, cycles, references, dependencies, waves | 2 modules of 2 revisions, `MaxModules` 3; some 750 FAMs of up to 5 nodes; plans for graphs of at most one reference | 358,000 |
| `host_edit` | do receipts, revisions, log and canvas agree? | 2 units, 2 texts, `MaxAnswers` 2, `MaxEdits` 2, `MaxChildren` 1 | 368,000 |
| `lost_edit` | is every accepted edit published? (no) | same | |
| `semantic_view` | order, boundaries, relations, result of a drawing | a short document, then one of every 3 units with up to 3 relations, 4 nested units with up to 2 dependencies, or 3 units with up to 2 gates | 67,000 |
| `drafts` | does an accepted edit do what the user saw? | values of up to 3 elements and 2 keys, 2 levels; 3 axes, FAMs in a FAM; every pair of operations of a panel; proposals of up to 2 patches | 140,000 |
| `provider_call` | what is handed on, what is left at work, who decides first, who waits | deadlines 3, 4, 5; `MaxTime` 11, `MaxRead` 5 | 560,000 |

`MaxDepth` and `MaxNodes` bound the *largest* limits a query may state; each run
covers all smaller ones, and the step past each of them. Two ids and a chain of
two give a cycle to itself and over one other query, and a query met again after
it has ended. Two operations give every pair, which is what the order of verdict,
value and evidence needs. `Timeout` 2 lets time pass before, during and after a
plugin call. For the session, two decisions in flight show every order of two
stale decisions; three nodes are needed for a node between two others. For the
recursive fold, two generations are one repetition; four nodes of two names give
every name again after its node is gone, with a unit below each of them. For the
CLI, one unit more than each limit.

For `topology`, four keys against a limit of three reach the limit, cycles of one
to three modules and shared modules, with references that pin a revision and
references that do not. Three siblings have a first, a middle and a last, so that
every pair of `before` and `after` gives chains, circles and contradictions; five
nodes on three levels give references across levels; the names an author gives
include the pointers of two later nodes. For the edits, two answers repeat an id, a
unit or replace a document that was edited; two edits chain revisions, from a
decomposition or a candidate; a second unit is the one an edit must leave alone or
take away. For `drafts`, two operations are what an order needs, arrays of zero to
three elements what an index needs, and one level below them what "above or below
the changed pointer" needs. For `semantic_view`, three units and three relations
give every containment of depth three and every circle; four units are needed for
a circle that only lifting makes. For `provider_call` the order of the three
deadlines is all that the code's constants say; eleven ticks are time for two calls
of Ollama that both run into their own timeout, and reading the refFAM may take
longer than the browser waits.

`evaluation`, `evidence`, `cli`, `topology`, `recursive_fold`, `host_edit`, `lost_edit`,
`semantic_view`, `drafts` and `provider_call` do not look for deadlock: calls, walks,
plans, requests and the executions that a bound allows end, an evaluation may wait
for a resolver for ever, and an unmounted Playground does nothing more. `session`
uses the symmetry of node ids, `host_edit` and `lost_edit` that of units and of
texts; they check no liveness. The other runs use none.

The three runs that end in a violation state what the repository says of itself
and show an execution that does otherwise; the `findings` of `PROJECT.json` quote
both sides.

## Fairness

- `Evaluator`: weak fairness of the evaluator's own steps (the event loop runs
  what is due), of the timer's callback and of the clock. Nothing is asked of
  plugins, resolvers or verifiers. Hence `EndsUnlessAwaiting`: an evaluation ends
  unless a resolver or a verifier, which have no deadline, never answers.
- `RecursiveFold`: weak fairness of answers, because `requestDecompose` arms a
  50 s timer that aborts its fetch, so each request is answered somehow.
- `CliExecutor`, `NodeCliExecutor`: weak fairness of the handler, of the timer and of
  the delivery of data, `error` and `close`; none of the child. Hence `CallsEnd`: a
  registered call may hang on a child that was stopped and stays, the other ends
  in any case, if need be with its process.
- `ResolvedModules`: weak fairness of the walk, answers of the resolver included; the
  code gives it no deadline, so `Ends` is about the walk, not about the resolver.
  Nothing is asked of the runner.
- `ProviderCall`: time passes, timers that are due fire, and the gateway's, the
  plugin's and the callers' own steps are taken; a provider need not answer. Hence
  `RequestsEnd`, and its one exception: Gemini, asked by a program, has no timer.
- The session, the plugin registry, the drawings and the edits have safety
  properties only; the code does nothing about a decision or an answer that never
  comes.

## Proofs

TLC checks the instances above; the following hold for all values of the
constants, from the assumptions on constants stated in the modules.

`EvaluatorProofs` builds one invariant in layers, each inductive given the ones
before it:

1. `TypeInv`, the types together with *inside evaluateNode there is a frame*;
   without the latter `Head(stack)` has no type. `StepShape` shows once that every
   step has one of four shapes (push, pop, rewrite the innermost frame, leave
   the stack alone), and all later proofs split on these four, not on the twenty
   actions.
2. `ChainInv`: `active` is the set of ids on the stack, each once, and
   `Cardinality(active) = Len(stack)`. Popping drops exactly the id that goes only
   because the ids are distinct, and pushing keeps them distinct only because
   of the check for cycles: neither half is inductive alone.
3. `LimitsHold`: the stack is never deeper than the depth limit allows, and never
   deeper than the count of nodes.
4. `TimerShape` and the timer's two invariants: armed exactly while a plugin call
   is open; what is left on the timer and the clock together reach the deadline.
5. `VerdictInv`: every frame's axes, not only the result on its way up, are vouched
   for; a satisfied lambda may wait in a frame while its query goes on.

Its last part proves `Spec => ContractSpec`: initial states map to
initial states, and each shape of step is an opening, a closing, a halt or a
stutter of the contract; a halt for a budget comes from `StopAtLimit` alone, whose guard
says that it is used up. It needs `Cardinality(active) = Len(stack)` to turn the
contract's budget on open queries into the code's check on depth.

`CliProofs` proves every safety property of `CliExecutor` for every limit
and every amount of output, from `LimitsAssumption` and `NoneAssumption` (a
`None` is no receipt, no result and no exit code). None of the properties is
inductive. `StepInv` is `TypeOK` with:

1. `CalledInv`: before `execute` there is neither child nor listener, so what the
   operating system does cannot reach a call that was never made;
2. `RunningInv`: while the call runs, whatever may stop it is armed or has
   stopped it already. Only so can an ended call be told from one that nothing
   watches;
3. `SettledInv`: a settled call has its receipt and nothing armed, so no cause
   can stop it once its receipt is made;
4. `KeptInv`: what is kept is within the limit, and is all that was read until a
   stop. A success has no stop, so it has everything;
5. `SuccessInv`: the child of a success is gone, its pipes are closed and all it
   wrote has been read, so no later chunk makes the receipt incomplete.

The lemma `ReceiptGiven` names the three ways a receipt comes about (refused,
no process, closed). `StdoutIsBounded` and `SuccessIsWhole` follow from the
invariant, `FirstCauseStands` and `StoppedIsNotExited` from it and the next-state
relation.

Its second half carries this over to `CallSpec`, in which a call is served by either
executor. `EitherInv` is `StepInv` where `CliExecutor` serves, with the fact that it
settles only without a child at work, and `NodeInv` where `NodeCliExecutor` does:
there what has to be known is that a receipt is only given in phase "running", that
whoever settles with the child running has killed it, and that a success is the
receipt of a child that is gone with all it wrote. `StepOfEither` splits a step on
the executor once for the four theorems.

`ResolvedModulesProofs` is about the way from a FAM to the plans of its runs. Every
theorem that some run checks is proved for `ResolvedSpec`, in which the walk finds
what it normalises and a module of the graph is planned, for all modules, limits,
FAMs and resolvers; those about the walk and the plans alone also for their own
specifications. `StepsOfTheWhole` says why one proof is enough: a step of the
composition is one of the walk or one of the planner, and the other stands still.
`AnswersAssumption` and `FamsAssumption` say what a resolver's answer is: a FAM,
parents before children, that pins what documents pin.

*The walk.* `Spec => ClosureSpec` needs to know, at each step, which references are
still open, and that is read off the stack: `VisitedAreModules` (the visited keys
are those of the modules found, each once), `OpenCallsAreModules` (a frame holds the
references of the module with its key, none past its end, and no key is on the
stack twice), `AnsweredUpToNext` (a reference of a module is answered exactly if its
call is over or has passed it) and `StackTellsTheStatus` (the stack is empty exactly
when the graph is returned). So a reference that is asked is open, which makes every
answer the first, and the last `Return` finds nothing open, which is the contract's
`End`. `CyclesAreCut` is about paths over references, stated by
sets that are closed under resolved references, because no induction along a path is
available. `CutInv` adds what keeps it: links stay within what is visited
(`LinksAreWithin`); an open call is led to by the call that made it and by no other
(`CallsAreLinkedOnce`), so what a returned call leads to has returned; and a closed
set with an open call has all calls further in (`CallersLeadOn`), so a reference to
an open call, marked as a cycle, does lead back.

*The plans.* For every list of children, with circles, missing and repeated ones,
settled in any order (`ASSUME \A list \in Inputs : IsChildren(list)` only types the
input of the planner alone). `PlanInv` adds to the properties:

1. `PhaseInv`: there is nothing of a plan left when the planner is called;
2. `AvailableInv`: what the loop takes for available is completed or in a wave, from
   which the waves are in order;
3. `AccountInv`: a child not yet in a wave nor blocked is schedulable, so when the
   loop ends nobody is lost;
4. `KnotInv`: a *knot* is a set of ready children each of which waits for a child
   of the set or for something that never comes. No knot ever meets what is
   available. When no wave can be made any more, what is left is itself a knot,
   and so it is the greatest one: blocked is who must be.

*The topology.* `PlannedInv` is short: the topology is that of a FAM of the graph, and
the children are its nodes with the dependencies of its runtime edges, whatever has
become of them since. The work is in what `normalizeFamTopology` computes.
`RefsOfTheNodes` shows that the recursive function of references has its defining
equation, by the least length without a solution; from it,
`SharedRefsAreReported`. `RuntimeEdges` says that runtime edges and declarations of
`before` and `after` correspond, through merging; `TargetsAreBeside`, that a
declaration leads to a sibling, the one it names if there is one; and
`DeclarationsAreFound`, that therefore `resolveTopologySelector`, asked again, takes
the same of its three ways (name, layer, plain) as the declaration did.

`GraphProjectionProofs` proves all five properties of `GraphProjection`, for every set
of answers, that is for all documents, orders, nestings, relations, gates and facts
(`AnswersAssumption` types them: lists are lists, numbers are numbers, and no unit
bears the name of the root). Its first half is about one document. What lies around a unit is a
recursive definition, and everything said about it is proved by a least element: of
the units for which it fails, one has a parent for which it holds. So units around a
unit form a chain, one deeper at each step; sorting by a key is a permutation with
keys that do not fall; a relation is lifted to two children of one boundary; in a
finite set without a circle, who follows the pairs to the end meets them all. The
second half is three invariants:

1. `DrawInv`, how far a drawing has come: the nodes and what is still to be added or
   placed make up the one order in which parents come first (`Listed`), ids are
   distinct and remembered (`OwnIds`), and a drawing fails for one of two reasons
   only (`Failing`). `ParentsComeFirst` alone is not inductive: a removal keeps it
   only because the deepest node goes first, a placement only because the parent is
   earlier in the order;
2. `Wired`: a boundary that is not on the list any more is connected as
   `connectBoundaryGraph` connects it, and stays so until the next clearing;
3. `Read`: the result is that of the document with its gates, whose names it has.

`RecursiveFoldProofs` proves every safety property of `RecursiveFold`, for every
number of nodes, runs and generations. `FoldInv` has, beside the types,
`TasksInv` (a fetch on its way is for a node that was there, for a generation that
was given out, to it alone), `RunsInv` (a run is of a node that was asked, so is its
projection) and `RunningIsAwaited`. The badge is the hard part: a badge sits on a node and
a run on a foldRef, and the operations on the graph (`WithBadge`, `Unprojected`,
`Projected`) go by nodes. `BusyBadgeTellsTheRun` speaks of nodes whose foldRef is
unique. The lemmas say which nodes each operation can touch, and every step is
shown to touch the one node with the foldRef of the run it changes.

`ProviderCallProofs` proves `TypeOK` and the three safety properties of
`ProviderCall` for all deadlines in the order of the code's. `CallInv` says that the
plugin works on one call at a time, its last (`PluginInv`); that a gateway that has
answered leaves a plugin that is done, or at its credential with an aborted signal,
which then refuses (`BrowserInv`); that a program's call is open only before its
outcome (`ProgramInv`); that a value handed on is that of the last call of a plugin
that is done (`ValueInv`), which no later step can change; and that the query's
timer is not overdue (`TimeInv`), because time waits for timers that are due.

`SessionProofs` proves `TypeOK` and every property of `PresentationSession`, for any
number of nodes, requests and decisions in flight. `ViewIsConsistent` needs to know
that a node that is added has no connection yet, though a decision may be as late as
it likes and its connection may be asked for first. `KnownInv` gives that: an id is
*promised* from the request that took it until its decision is applied, and *known*
once a node with it has been there; only known ids exist, are connected or are asked
to be connected. `PendingInv` says what an accepted decision carries; `FreshInv`, that
the one decision a waiting caller has on its way is about the state as it is, which
`ConnectionsAreSound` needs. `NoDecisionIsLost` does not: `OneMoreEntry` says what
one more entry on the list of decisions changes of what the list gives, whatever was
decided in between, and `SettleIsListed` that applying a decision changes the view in
just that way. One lemma per action; `DispatchKeeps` states once what the requests have
in common.

`HostEditProofs` proves `TypeOK`, `EditsAreTraceable`, `LogLeadsToCurrent` and
`UnitsShowTheDocument` of `HostEdit`, for any units and texts and any number of
answers and edits. The properties speak of the past; `StoreInv` says what the next edit
needs of it: only ids that were *given* (by a provider, or to an edit that was counted)
are stored or named as a base, so the id of a new edit is new; the current document is
stored under its id unless a provider has given that id twice (`Twice` shows that a
second answer with it counts as such); and without a document nothing is stored or
logged as accepted, so an edit of a candidate begins the chain. `LogChain` then grows at its end
only (`ChainGrows`). The canvas needs no more than `CanvasInv`: units are only shown
when there is a document, and whoever changes the document goes through `Effect`.

Only model-checked: the liveness properties (`EndsUnlessAwaiting`, `RunsEnd`,
`CallsEnd`, `Ends`, `RequestsEnd`), which are beyond the proof system; the properties
of `DraftEditing`, whose operators on JSON values of any depth are `RECURSIVE`
(`JsonDraft`), which the prover cannot use; and those that some run shows to be
violated. Where a definition recurs on numbers or on a finite set, as the references
of a FAM or the units around a unit, it is a recursive function, and least elements
do what induction cannot. The `TypeOK` of a module that has proofs is proved and in
no run, and so is `RunningIsAwaited`; that of `PluginPresentation` documents its
variables.

## Plan

Done: all modules above, and proofs of every safety property of theirs that the
prover can reach. What is left, in this order:

1. `JsonDraft` without `RECURSIVE`: pointers followed and containers rebuilt by
   functions on the length of a pointer, so that `ChangedChildrenAreAskedAgain` can be
   proved for documents of any depth, then `PatchesDoWhatTheyShow`.
2. The document store as the resolver of `ModuleGraph`, with documents put during
   the walk.
3. The plugin registry with OAE evaluation and last orders, and the sinks of
   `FoldLog`.
4. The user's removal of nodes in `RecursiveFold`.

## Not modelled

- Core: the Q builder, the document store (one map; see the plan), the check of a
  topology made by hand (`topology.ts:335`), the projection to a presentation,
  `assessFamExtraction`, `affectedSubgraph` with changed folds, which nothing in the
  repository passes.
- `fam-core`: form checks of rules and fact extractors, normalisation of records, the Sin
  vocabulary: all about the form of data.
- `fam-edit`: folding, searching and partitions of a text, hashing.
- Plugin SDK: the registry, the Q compiler, OAE evaluation; no host of the
  repository wires the registry to an evaluator.
- Credentials from YAML, explicit and callback sources, which only tests construct.
- `plugins/stdio`, a transport whose shape is that of the providers and that no host
  uses; discovery of models.
- The gateway's HTTP server, routes and pane registry; React's rendering and
  gestures, which end in the requests that `PresentationSession` takes; the hosts
  for VS Code and Sphere; benchmarks and scripts, which run offline.
- The order of an object's keys, sizes, positions, wording and localisation.

----------------------------- MODULE ProviderCall -----------------------------
(***************************************************************************)
(* One decomposition of a text, on either of its two ways to a provider.   *)
(*                                                                         *)
(* The browser asks the Playground's gateway (host/decomposer.ts,          *)
(* server/gateway.ts); the gateway reads the refFAM, evaluates a query of  *)
(* one invoke operation and judges the value with the refFAM.  A program   *)
(* asks a Decomposer of the plugin SDK instead, which calls the same       *)
(* plugin with no signal.  The plugin (plugins/ollama, plugins/gemini)     *)
(* asks its model, and once more if the first text is unusable.            *)
(*                                                                         *)
(* Four timers run against each other: the browser's 50 s, the query's     *)
(* 45 s, which aborts the signal the plugin was given, and 115 s for each  *)
(* call of Ollama without one; Gemini without one has none.  Time is in    *)
(* ticks, far longer than a callback is late, so a timer that is due fires *)
(* before the next tick.  What the evaluator does besides is Evaluator's.  *)
(*                                                                         *)
(* Providers, files and the network are external.  A text is told apart by *)
(* what the validators make of it.                                         *)
(***************************************************************************)
EXTENDS Integers, Sequences, SequencesExt, FiniteSetsExt

CONSTANTS
  ServerDeadline,  \* timeoutMs of the gateway's query, 45 s
  ClientDeadline,  \* the timer of requestDecompose, 50 s
  OwnDeadline,     \* ollamaGenerate's timeout when it is given no signal, 115 s
  MaxTime,         \* bound of the model: ticks
  MaxRead,         \* bound of the model: ticks until the refFAM is read
  None

ASSUME DeadlinesAssumption ==
  /\ {ServerDeadline, ClientDeadline, OwnDeadline, MaxTime, MaxRead} \subseteq Nat \ {0}
  /\ ServerDeadline < ClientDeadline /\ ClientDeadline < OwnDeadline

VARIABLES
  caller,   \* "browser", or "program" with a Decomposer of the SDK
  route,    \* "fixture" (ManualNlDecomposer for a program), "ollama" or "gemini"
  valid,    \* does the request pass the checks of its receiver?
  sources,  \* what each credential source holds, in their order
  now,
  gateway,  \* "none", "reading" the refFAM, "calling" the plugin, "answered"
  started,  \* when the query's timer was armed
  plugin,   \* "none", "credential", "generating", "done"
  signal,   \* of the plugin's call: "none", "live" or "aborted"
  calls,    \* the calls of the provider, in order
  answer,   \* what the gateway answered, None before
  outcome   \* what the caller has got, None before

inputs == <<caller, route, valid, sources>>
server == <<gateway, started, signal, answer>>
vars == <<inputs, now, server, plugin, calls, outcome>>

Unusable == "no FAM"               \* neither JSON nor a valid FAM base
Texts == {Unusable, "FAM", "decomposition"}
ASSUME NoneAssumption == None \notin Texts \cup {"literal"}

Held == {"no variable", "empty", "key", "no file", "unreadable"}
Sources == {<<environment, local, file>> : environment \in Held \ {"no file", "unreadable"},
                                           local \in Held, file \in Held}
Calls == [at : 0..MaxTime, heeds : BOOLEAN, state : {"open", "failed"} \cup Texts]
Reasons == {"accepted", "failed", "invalid", "threw", "unsupported", "timeout-exceeded",
            "http-error", "resolved", "unresolved", "profile-nonconformant", "rejected",
            "decompose-cancelled", "decompose-failed", "connection lost"}
Answers == [reason : Reasons, value : Texts \cup {"literal", None}, generation : BOOLEAN,
            post : {"none", "accepted", "rejected"}]
Outcomes == [reason : Reasons, value : Texts \cup {"literal", None}]

----------------------------------------------------------------------------
\* What is returned and made of it

Failed(reason) == [reason |-> reason, value |-> None]
Accepted(value) == [reason |-> "accepted", value |-> value]

\* FAM decompositions: what validateFamDecomposition accepts.
IsDecomposition(value) == value \in {"decomposition", "literal"}

\* The gateway's response to a result of the plugin.  A generation receipt is
\* found among the events of an accepted call only; the refFAM judges
\* decompositions, and a value that it rejects is presented all the same.
PostValidations(value) ==
  IF IsDecomposition(value) THEN {"accepted", "rejected"} ELSE {"none"}
Receipt(r) == r.reason = "accepted" /\ route # "fixture"
Respond(r) ==
  /\ gateway' = "answered"
  /\ \E post \in PostValidations(r.value) :
       answer' = [reason |-> r.reason, value |-> r.value, generation |-> Receipt(r),
                  post |-> post]

\* validateDecomposerCandidate, createUnresolvedDecomposition
DecompositionOutcome(r) ==
  IF r.reason = "threw" THEN Failed("threw")
  ELSE IF r.reason \in {"failed", "unsupported"} THEN Failed("unresolved")
  ELSE IF IsDecomposition(r.value) THEN [reason |-> "resolved", value |-> r.value]
  ELSE IF r.value = "FAM" THEN [reason |-> "profile-nonconformant", value |-> r.value]
  ELSE Failed("rejected")

\* invoke returns r, or throws.  The race may have been lost: then nobody listens.
Return(r) ==
  IF caller = "program"
    THEN outcome' = DecompositionOutcome(r) /\ UNCHANGED server
    ELSE /\ IF gateway = "calling" THEN Respond(r) ELSE UNCHANGED <<gateway, answer>>
         /\ UNCHANGED <<started, signal, outcome>>

----------------------------------------------------------------------------
\* The plugin

IsOpen(c) == c.state = "open"
Asking == plugin = "generating" /\ calls # <<>> /\ IsOpen(Last(calls))

\* Is the signal handed to a call, the repair too?
HeedsAtFirst(first) == first /\ signal # "none"   \* mutant: not to the repair
Heeds(first) == signal # "none"

NewCall == [at |-> now, heeds |-> Heeds(calls = <<>>), state |-> "open"]
Settled(state) == [calls EXCEPT ![Len(calls)].state = state]

\* resolveCredential asks the sources in order, until one has the variable; a
\* key that is empty counts as found.  A file that is not there holds nothing.
Decisive == {i \in DOMAIN sources : sources[i] \in {"empty", "key", "unreadable"}}
Credential == IF Decisive = {} THEN "not found" ELSE sources[Min(Decisive)]

\* The credential is there: the model is asked.  An aborted signal refuses.
Ask ==
  IF signal = "aborted" /\ Heeds(TRUE)
    THEN plugin' = "done" /\ UNCHANGED <<server, calls, outcome>>
    ELSE plugin' = "generating" /\ calls' = <<NewCall>> /\ UNCHANGED <<server, outcome>>

ResolveCredential ==
  /\ plugin = "credential"
  /\ CASE Credential = "key" -> Ask
       [] Credential = "unreadable" -> plugin' = "done" /\ Return(Failed("threw")) /\ UNCHANGED calls
       [] OTHER -> plugin' = "done" /\ Return(Failed("failed")) /\ UNCHANGED calls
  /\ UNCHANGED <<inputs, now>>

\* parseFam; mutant: the second text is taken as it is.
UsableOrSecond(text) == text # Unusable \/ Len(calls) = 2
Usable(text) == text # Unusable

ProviderAnswers(text) ==
  /\ Asking
  /\ IF Usable(text)
       THEN plugin' = "done" /\ calls' = Settled(text) /\ Return(Accepted(text))
     ELSE IF Len(calls) = 1
       THEN calls' = Append(Settled(text), NewCall) /\ UNCHANGED <<server, plugin, outcome>>
     ELSE plugin' = "done" /\ calls' = Settled(text) /\ Return(Failed("invalid"))
  /\ UNCHANGED <<inputs, now>>

\* A connection that fails, another status than 200, an empty answer.
CallFails ==
  /\ plugin' = "done" /\ calls' = Settled("failed") /\ Return(Failed("failed"))
  /\ UNCHANGED <<inputs, now>>

ProviderFails == Asking /\ CallFails

OwnDueNever == FALSE                      \* mutant: no timeout of its own
OwnDue ==
  Asking /\ route = "ollama" /\ signal = "none" /\ now >= Last(calls).at + OwnDeadline

OwnTimeout == OwnDue /\ CallFails

----------------------------------------------------------------------------
\* The gateway

\* assertDecomposeRequest and the reading of the body throw; so may the refFAM.
Refuse ==
  /\ gateway = "reading" /\ gateway' = "answered"
  /\ answer' = [reason |-> "http-error", value |-> None, generation |-> FALSE, post |-> "none"]
  /\ UNCHANGED <<inputs, now, started, signal, plugin, calls, outcome>>

\* The refFAM is read; evaluateQ arms the timer and invokes the plugin.
Evaluate ==
  /\ gateway = "reading" /\ valid
  /\ started' = now /\ signal' = "live"
  /\ \/ route = "fixture" /\ Respond(Accepted("literal")) /\ UNCHANGED <<plugin, calls>>
     \/ route = "gemini" /\ gateway' = "calling" /\ plugin' = "credential"
        /\ UNCHANGED <<calls, answer>>
     \/ route = "ollama" /\ gateway' = "calling" /\ plugin' = "generating"
        /\ calls' = <<[at |-> now, heeds |-> TRUE, state |-> "open"]>> /\ UNCHANGED answer
  /\ UNCHANGED <<inputs, now, outcome>>

\* The query's timer wins the race; what heeds the signal ends.
ServerDueLate == gateway = "calling" /\ now >= started + OwnDeadline  \* mutant: the plugin's own
ServerDue == gateway = "calling" /\ now >= started + ServerDeadline

ServerTimeout ==
  /\ ServerDue
  /\ signal' = "aborted"
  /\ calls' = [i \in DOMAIN calls |->
       IF IsOpen(calls[i]) /\ calls[i].heeds THEN [calls[i] EXCEPT !.state = "failed"] ELSE calls[i]]
  /\ plugin' = IF Asking /\ Last(calls).heeds THEN "done" ELSE plugin
  /\ Respond(Failed("timeout-exceeded"))
  /\ UNCHANGED <<inputs, now, started, outcome>>

----------------------------------------------------------------------------
\* The callers

\* Decomposer.decompose, at the time of the request
Called == caller = "program" /\ plugin = "none" /\ outcome = None

Unsupported == ~valid /\ Return(Failed("unsupported")) /\ UNCHANGED <<plugin, calls>>
Manual ==
  valid /\ route = "fixture" /\ Return(Accepted("literal")) /\ UNCHANGED <<plugin, calls>>
AskGemini ==
  valid /\ route = "gemini" /\ plugin' = "credential" /\ UNCHANGED <<server, calls, outcome>>
AskOllama == valid /\ route = "ollama" /\ Ask

Decompose ==
  Called /\ (Unsupported \/ Manual \/ AskGemini \/ AskOllama) /\ UNCHANGED <<inputs, now>>

Waiting == caller = "browser" /\ outcome = None

\* requestDecompose: the payload, with the reason of a last order as its error.
AnswerArrives ==
  /\ Waiting /\ gateway = "answered"
  /\ outcome' = [reason |-> answer.reason, value |-> answer.value]
  /\ UNCHANGED <<inputs, now, server, plugin, calls>>

\* The user cancels, or the connection is lost.  The gateway does not notice.
GiveUp(reason) ==
  /\ Waiting /\ outcome' = Failed(reason)
  /\ UNCHANGED <<inputs, now, server, plugin, calls>>

\* fetch rejects with the reason of the abort: here a string and no DOMException.
ClientDue == Waiting /\ now >= ClientDeadline
ClientTimeout == ClientDue /\ GiveUp("decompose-failed")

----------------------------------------------------------------------------
Init ==
  /\ caller \in {"browser", "program"} /\ route \in {"fixture", "ollama", "gemini"}
  /\ valid \in BOOLEAN
  /\ sources \in Sources
  /\ route # "gemini" => sources = <<"no variable", "no file", "no file">>
  /\ now = 0 /\ started = 0
  /\ gateway = IF caller = "browser" THEN "reading" ELSE "none"
  /\ plugin = "none" /\ signal = "none" /\ calls = <<>> /\ answer = None /\ outcome = None

Tick ==
  /\ now < MaxTime /\ now' = now + 1
  /\ gateway = "reading" => now < MaxRead
  /\ ~(ServerDue \/ OwnDue \/ ClientDue \/ Called)
  /\ UNCHANGED <<inputs, server, plugin, calls, outcome>>

Timers == OwnTimeout \/ ServerTimeout \/ ClientTimeout
Own == Refuse \/ Evaluate \/ ResolveCredential \/ Decompose \/ AnswerArrives

Next ==
  \/ Timers \/ Own \/ Tick
  \/ (\E text \in Texts : ProviderAnswers(text)) \/ ProviderFails
  \/ \E reason \in {"decompose-cancelled", "connection lost"} : GiveUp(reason)

\* Time passes, timers fire and files are read; a provider need not answer.
Spec == Init /\ [][Next]_vars /\ WF_vars(Tick) /\ WF_vars(Timers) /\ WF_vars(Own)

----------------------------------------------------------------------------
TypeOK ==
  /\ now \in 0..MaxTime /\ started \in 0..now
  /\ gateway \in {"none", "reading", "calling", "answered"}
  /\ plugin \in {"none", "credential", "generating", "done"}
  /\ signal \in {"none", "live", "aborted"} /\ calls \in Seq(Calls) /\ Len(calls) <= 2
  /\ answer \in Answers \cup {None} /\ outcome \in Outcomes \cup {None}

\* What is handed on has been validated: a value that a caller gets is the text
\* of the provider's last call, that text is a FAM, and it is called a
\* decomposition only if it is one (parseFam on the repair too).  A receipt for
\* the refFAM stands beside such a value, never beside a failure
\* (gateway.ts:95-108).
OnlyValidatedIsHandedOn ==
  /\ outcome # None /\ outcome.value \notin {None, "literal"} =>
       /\ outcome.value = Last(calls).state /\ outcome.value # Unusable
       /\ outcome.reason = "resolved" => outcome.value = "decomposition"
  /\ answer # None =>
       (answer.generation <=> answer.value \notin {None, "literal"})

\* No call of a provider outlives the one who asked: when the gateway has
\* answered, or the Decomposer has returned, none is open (the signal goes to
\* the repair call as well, ollama/src/index.ts:60, gemini/src/index.ts:65).
NoCallOutlivesItsAnswer ==
  (\E i \in DOMAIN calls : IsOpen(calls[i])) =>
    \/ gateway = "calling"
    \/ caller = "program" /\ outcome = None

\* The browser does not give up on a provider that the gateway is still waiting
\* for, unless reading the refFAM has taken time, and all of what its 50 s are
\* longer than the query's 45 s (decomposer.ts:47, gateway.ts:84).
TheGatewayDecidesFirst ==
  [][ClientTimeout /\ gateway = "calling" =>
       started > 0 /\ started >= ClientDeadline - ServerDeadline]_vars

\* Every request ends and every query is answered, however long a provider
\* stays silent; only a program that asks Gemini can wait for ever.
RequestsEnd ==
  /\ <>(gateway \in {"none", "answered"})
  /\ caller = "browser" \/ route # "gemini" => <>(outcome # None)
=============================================================================

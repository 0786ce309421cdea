--------------------------- MODULE ProviderCallProofs ---------------------------
(***************************************************************************)
(* Proofs about ProviderCall, for any deadlines in their order.            *)
(***************************************************************************)
EXTENDS ProviderCall, SequenceTheorems, TLAPS

RequestInv ==
  caller \in {"browser", "program"} /\ route \in {"fixture", "ollama", "gemini"}

\* The plugin works on one call at a time, its last one.
PluginInv ==
  /\ \A i \in DOMAIN calls : IsOpen(calls[i]) => i = Len(calls) /\ plugin = "generating"
  /\ plugin = "generating" => calls # <<>> /\ IsOpen(Last(calls))
  /\ plugin \in {"none", "credential"} => calls = <<>>
  /\ plugin # "none" => route # "fixture"

\* The gateway waits for the plugin, or has aborted it: then the plugin is at
\* its credential still, or has ended, as each of its calls heeds the signal.
BrowserInv ==
  caller = "browser" =>
    /\ gateway # "none"
    /\ gateway = "reading" => signal = "none" /\ plugin = "none" /\ answer = None
    /\ gateway = "calling" =>
         signal = "live" /\ plugin \in {"credential", "generating"} /\ answer = None
    /\ gateway = "answered" =>
         plugin # "generating" /\ (plugin = "credential" => signal = "aborted")
    /\ \A i \in DOMAIN calls : IsOpen(calls[i]) => calls[i].heeds

ProgramInv ==
  caller = "program" =>
    /\ gateway = "none" /\ signal = "none" /\ answer = None
    /\ plugin \in {"credential", "generating"} => outcome = None

\* A text that is handed on is that of the last call of a plugin that is done.
Delivered(value) ==
  /\ plugin = "done" /\ calls # <<>>
  /\ value = Last(calls).state /\ value \in Texts \ {Unusable}

ValueInv ==
  /\ gateway = "answered" =>
       /\ answer \in Answers /\ answer.reason # "resolved"
       /\ answer.generation <=> answer.value \notin {None, "literal"}
       /\ answer.value \notin {None, "literal"} => Delivered(answer.value)
  /\ outcome # None /\ outcome.value \notin {None, "literal"} =>
       /\ Delivered(outcome.value)
       /\ outcome.reason = "resolved" => outcome.value = "decomposition"

\* The query's timer is not overdue.
TimeInv == gateway = "calling" => now <= started + ServerDeadline

CallInv ==
  /\ TypeOK /\ RequestInv /\ PluginInv /\ BrowserInv /\ ProgramInv /\ ValueInv /\ TimeInv

----------------------------------------------------------------------------
\* Calls and results

\* What settling the last call does.
LEMMA SettledCalls ==
  ASSUME calls \in Seq(Calls), calls # <<>>, NEW state \in {"open", "failed"} \cup Texts
  PROVE  /\ Settled(state) \in Seq(Calls) /\ Len(Settled(state)) = Len(calls)
         /\ DOMAIN Settled(state) = DOMAIN calls /\ Settled(state) # <<>>
         /\ Last(Settled(state)).state = state
         /\ \A i \in DOMAIN calls \ {Len(calls)} : Settled(state)[i] = calls[i]
<1>1. Len(calls) \in Nat \ {0} /\ DOMAIN calls = 1..Len(calls)
  BY EmptySeq, LenProperties
<1>2. calls[Len(calls)] \in Calls
  BY <1>1
<1> DEFINE call == [calls[Len(calls)] EXCEPT !.state = state]
<1>3. call \in Calls /\ call.state = state
  BY <1>2 DEF Calls
<1>4. Settled(state) = [calls EXCEPT ![Len(calls)] = call]
  BY DEF Settled
<1> HIDE DEF call
<1>5. Settled(state) \in Seq(Calls) /\ Len(Settled(state)) = Len(calls)
  BY <1>1, <1>3, <1>4, ExceptSeq
<1>q. QED
  BY <1>1, <1>3, <1>4, <1>5 DEF Last

\* A new call is open, and heeds the signal if there is one.
LEMMA MadeCall ==
  ASSUME TypeOK
  PROVE  /\ NewCall \in Calls /\ NewCall.state = "open"
         /\ NewCall.heeds <=> signal # "none"
BY DEF TypeOK, NewCall, Heeds, Calls

\* A call more.
LEMMA SecondCall ==
  ASSUME NEW first \in Seq(Calls), Len(first) = 1, NEW call \in Calls,
         NEW both, both = Append(first, call)
  PROVE  /\ both \in Seq(Calls) /\ Len(both) = 2 /\ both[2] = call
         /\ both[1] = first[1] /\ both # <<>> /\ DOMAIN both = {1, 2}
<1>1. both \in Seq(Calls) /\ Len(both) = 2 /\ both[1] = first[1] /\ both[2] = call
  <2>1. both \in Seq(Calls)
    BY AppendProperties
  <2>2. Len(both) = Len(first) + 1 /\ both[Len(first) + 1] = call
    BY AppendProperties
  <2>3. both[1] = first[1]
    OBVIOUS
  <2>q. QED
    BY <2>1, <2>2, <2>3
<1>2. DOMAIN both = 1..2 /\ both # <<>>
  BY <1>1, LenProperties, EmptySeq
<1>q. QED
  BY <1>1, <1>2

\* The two kinds of results.
LEMMA Failures ==
  ASSUME NEW reason \in Reasons
  PROVE  /\ Failed(reason) \in Outcomes
         /\ Failed(reason).reason = reason /\ Failed(reason).value = None
BY DEF Failed, Outcomes

LEMMA Values ==
  ASSUME NEW value \in Texts \cup {"literal"}
  PROVE  /\ Accepted(value) \in Outcomes
         /\ Accepted(value).reason = "accepted" /\ Accepted(value).value = value
BY DEF Accepted, Outcomes, Reasons

\* What a caller makes of a result that is a failure or a text.
LEMMA OutcomeOf ==
  ASSUME NEW r \in Outcomes, r.value = None \/ r.reason = "accepted",
         NEW o, o = DecompositionOutcome(r)
  PROVE  /\ o \in Outcomes /\ o.value \in {None, r.value}
         /\ o.reason = "resolved" => o.value \in {"decomposition", "literal"}
<1>0. r.reason \in Reasons /\ r.value \in Texts \cup {"literal", None}
  BY DEF Outcomes
<1>1. CASE o \in {Failed("threw"), Failed("unresolved"), Failed("rejected")}
  <2>1. {"threw", "unresolved", "rejected"} \subseteq Reasons
    BY DEF Reasons
  <2>2. o \in Outcomes /\ o.value = None /\ o.reason \in {"threw", "unresolved", "rejected"}
    BY <1>1, <2>1, Failures
  <2>q. QED
    BY <2>2
<1>2. CASE o = [reason |-> "profile-nonconformant", value |-> r.value]
  <2>1. "profile-nonconformant" \in Reasons
    BY DEF Reasons
  <2>q. QED
    BY <1>0, <1>2, <2>1 DEF Outcomes
<1>3. CASE IsDecomposition(r.value) /\ o = [reason |-> "resolved", value |-> r.value]
  <2>1. "resolved" \in Reasons
    BY DEF Reasons
  <2>q. QED
    BY <1>0, <1>3, <2>1 DEF Outcomes, IsDecomposition
<1>q. QED
  BY <1>1, <1>2, <1>3 DEF DecompositionOutcome

\* The gateway's answer to a result.
LEMMA AnswerTo ==
  ASSUME NEW r \in Outcomes, Respond(r)
  PROVE  /\ gateway' = "answered" /\ answer' \in Answers
         /\ answer'.reason = r.reason /\ answer'.value = r.value
         /\ answer'.generation <=> r.reason = "accepted" /\ route # "fixture"
<1>1. PICK post \in PostValidations(r.value) :
        answer' = [reason |-> r.reason, value |-> r.value, generation |-> Receipt(r),
                   post |-> post]
  BY DEF Respond
<1>2. post \in {"none", "accepted", "rejected"} /\ Receipt(r) \in BOOLEAN
  BY DEF PostValidations, Receipt
<1>q. QED
  BY <1>1, <1>2 DEF Respond, Answers, Outcomes, Receipt

----------------------------------------------------------------------------
\* The steps

\* The plugin is done: what it returns is a failure, or the last text, usable.
LEMMA ReturnKeeps ==
  ASSUME CallInv, plugin \in {"credential", "generating"}, plugin' = "done",
         UNCHANGED <<inputs, now>>, calls' \in Seq(Calls), Len(calls') <= 2,
         \A i \in DOMAIN calls' : ~IsOpen(calls'[i]),
         NEW r, Return(r),
         \/ \E reason \in {"threw", "failed", "invalid"} : r = Failed(reason)
         \/ /\ calls' # <<>> /\ Last(calls').state \in Texts \ {Unusable}
            /\ r = Accepted(Last(calls').state)
  PROVE  CallInv'
<1>1. /\ r \in Outcomes /\ r.reason # "resolved" /\ r.value # "literal"
      /\ \/ r.value = None /\ r.reason # "accepted"
         \/ /\ r.value \notin {None, "literal"} /\ r.reason = "accepted"
            /\ Delivered(r.value)'
  <2>1. ASSUME NEW reason \in {"threw", "failed", "invalid"}, r = Failed(reason)
        PROVE  r \in Outcomes /\ r.reason = reason /\ r.value = None
    <3>1. reason \in Reasons
      BY DEF Reasons
    <3>q. QED
      BY <2>1, <3>1, Failures
  <2>2. ASSUME calls' # <<>>, Last(calls').state \in Texts \ {Unusable},
               r = Accepted(Last(calls').state)
        PROVE  /\ r \in Outcomes /\ r.reason = "accepted"
               /\ r.value \in Texts \ {Unusable} /\ r.value = Last(calls').state
    <3> DEFINE text == Last(calls').state
    <3>1. text \in Texts \cup {"literal"} /\ text \in Texts \ {Unusable} /\ r = Accepted(text)
      BY <2>2
    <3> HIDE DEF text
    <3>2. r \in Outcomes /\ r.reason = "accepted" /\ r.value = text /\ text \in Texts \ {Unusable}
      BY <3>1, Values
    <3>q. QED
      BY <3>2 DEF text
  <2>3. "literal" \notin Texts /\ None \notin Texts \cup {"literal"}
    BY NoneAssumption DEF Texts, Unusable
  <2>q. QED
    BY <2>1, <2>2, <2>3 DEF Delivered
<1>2. /\ TypeOK /\ RequestInv /\ PluginInv /\ BrowserInv /\ ProgramInv /\ ValueInv /\ TimeInv
      /\ route # "fixture"
  BY DEF CallInv, PluginInv
<1>3. UNCHANGED <<caller, route, now>>
  BY DEF inputs
<1>4. PluginInv' /\ RequestInv'
  BY <1>2, <1>3 DEF PluginInv, RequestInv
<1>5. CASE caller = "program"
  <2>1. /\ outcome' = DecompositionOutcome(r) /\ UNCHANGED <<gateway, started, signal, answer>>
        /\ gateway = "none" /\ signal = "none" /\ answer = None
    BY <1>2, <1>5 DEF Return, server, ProgramInv
  <2>2. /\ outcome' \in Outcomes /\ outcome'.value \in {None, r.value}
        /\ outcome'.reason = "resolved" => outcome'.value \in {"decomposition", "literal"}
    BY <1>1, <2>1, OutcomeOf
  <2>3. TypeOK'
    BY <1>2, <1>3, <2>1, <2>2 DEF TypeOK
  <2>4. BrowserInv' /\ ProgramInv' /\ TimeInv'
    BY <1>3, <1>5, <2>1 DEF BrowserInv, ProgramInv, TimeInv
  <2>5. ValueInv'
    BY <1>1, <2>1, <2>2 DEF ValueInv
  <2>q. QED
    BY <1>4, <2>3, <2>4, <2>5 DEF CallInv
<1>6. CASE caller = "browser"
  <2>1. /\ UNCHANGED <<started, signal, outcome>>
        /\ outcome # None => outcome.value \in {None, "literal"}
        /\ gateway \in {"calling", "answered"}
    BY <1>2, <1>6 DEF Return, ValueInv, Delivered, BrowserInv, TypeOK
  <2>2. CASE gateway = "calling"
    <3>1. Respond(r)
      BY <1>6, <2>2 DEF Return
    <3>2. /\ gateway' = "answered" /\ answer' \in Answers
          /\ answer'.reason = r.reason /\ answer'.value = r.value
          /\ answer'.generation <=> r.reason = "accepted"
      BY <1>1, <1>2, <3>1, AnswerTo
    <3>3. TypeOK'
      BY <1>2, <1>3, <2>1, <3>2 DEF TypeOK
    <3>4. BrowserInv' /\ ProgramInv' /\ TimeInv'
      BY <1>3, <1>6, <3>2 DEF BrowserInv, ProgramInv, TimeInv
    <3>5. ValueInv'
      BY <1>1, <2>1, <3>2 DEF ValueInv
    <3>q. QED
      BY <1>4, <3>3, <3>4, <3>5 DEF CallInv
  <2>3. CASE gateway = "answered"
    <3>1. UNCHANGED <<gateway, answer>>
      BY <1>6, <2>3 DEF Return
    <3>2. TypeOK'
      BY <1>2, <1>3, <2>1, <3>1 DEF TypeOK
    <3>3. BrowserInv' /\ ProgramInv' /\ TimeInv'
      BY <1>3, <1>6, <2>3, <3>1 DEF BrowserInv, ProgramInv, TimeInv
    <3>4. answer.value \in {None, "literal"}
      BY <1>2, <2>3 DEF ValueInv, Delivered
    <3>5. ValueInv'
      BY <1>2, <2>1, <2>3, <3>1, <3>4 DEF ValueInv
    <3>q. QED
      BY <1>4, <3>2, <3>3, <3>5 DEF CallInv
  <2>q. QED
    BY <2>1, <2>2, <2>3
<1>q. QED
  BY <1>2, <1>5, <1>6 DEF RequestInv

\* The state of a call that has just been settled.
LEMMA NoneIsOpen ==
  ASSUME CallInv, plugin = "generating", NEW state \in {"failed"} \cup Texts
  PROVE  /\ calls \in Seq(Calls) /\ calls # <<>> /\ Len(calls) <= 2
         /\ Settled(state) \in Seq(Calls) /\ Len(Settled(state)) = Len(calls)
         /\ Settled(state) # <<>> /\ Last(Settled(state)).state = state
         /\ \A i \in DOMAIN Settled(state) : ~IsOpen(Settled(state)[i])
<1>1. calls \in Seq(Calls) /\ calls # <<>> /\ Len(calls) <= 2
  BY DEF CallInv, TypeOK, PluginInv
<1>2. state # "open"
  BY DEF Texts, Unusable
<1>3. /\ Settled(state) \in Seq(Calls) /\ Len(Settled(state)) = Len(calls)
      /\ DOMAIN Settled(state) = DOMAIN calls /\ Settled(state) # <<>>
      /\ Last(Settled(state)).state = state
      /\ \A i \in DOMAIN calls \ {Len(calls)} : Settled(state)[i] = calls[i]
  BY <1>1, SettledCalls
<1>4. \A i \in DOMAIN calls : i # Len(calls) => ~IsOpen(calls[i])
  BY DEF CallInv, PluginInv
<1>q. QED
  BY <1>1, <1>2, <1>3, <1>4 DEF IsOpen, Last

\* A text comes, is returned or asks for a second call.
LEMMA AnswersKeep ==
  ASSUME CallInv, NEW text \in Texts, ProviderAnswers(text)
  PROVE  CallInv'
<1>1. plugin = "generating" /\ IsOpen(Last(calls)) /\ UNCHANGED <<inputs, now>>
  BY DEF ProviderAnswers, Asking
<1>2. /\ calls \in Seq(Calls) /\ calls # <<>> /\ Len(calls) <= 2
      /\ Settled(text) \in Seq(Calls) /\ Len(Settled(text)) = Len(calls)
      /\ Settled(text) # <<>> /\ Last(Settled(text)).state = text
      /\ \A i \in DOMAIN Settled(text) : ~IsOpen(Settled(text)[i])
  BY <1>1, NoneIsOpen
<1>3. CASE Usable(text)
  <2>1. plugin' = "done" /\ calls' = Settled(text) /\ Return(Accepted(text))
    BY <1>3 DEF ProviderAnswers
  <2>2. text \in Texts \ {Unusable}
    BY <1>3 DEF Usable
  <2>q. QED
    BY <1>1, <1>2, <2>1, <2>2, ReturnKeeps
<1>4. CASE ~Usable(text) /\ Len(calls) # 1
  <2>1. plugin' = "done" /\ calls' = Settled(text) /\ Return(Failed("invalid"))
    BY <1>4 DEF ProviderAnswers
  <2>q. QED
    BY <1>1, <1>2, <2>1, ReturnKeeps
<1>5. CASE ~Usable(text) /\ Len(calls) = 1
  <2>1. calls' = Append(Settled(text), NewCall) /\ UNCHANGED <<server, plugin, outcome>>
    BY <1>5 DEF ProviderAnswers
  <2>2. UNCHANGED <<caller, route, now, gateway, started, signal, answer, plugin, outcome>>
    BY <1>1, <2>1 DEF inputs, server
  <2>3. /\ TypeOK /\ RequestInv /\ PluginInv /\ BrowserInv /\ ProgramInv /\ ValueInv /\ TimeInv
    BY DEF CallInv
  <2>4. NewCall \in Calls /\ NewCall.state = "open" /\ (NewCall.heeds <=> signal # "none")
    BY <2>3, MadeCall
  <2>5. /\ calls' \in Seq(Calls) /\ Len(calls') = 2 /\ calls'[2] = NewCall
        /\ calls'[1] = Settled(text)[1] /\ calls' # <<>> /\ DOMAIN calls' = {1, 2}
    BY <1>2, <1>5, <2>1, <2>4, SecondCall
  <2>6. ~IsOpen(calls'[1]) /\ IsOpen(calls'[2])
    BY <1>2, <1>5, <2>4, <2>5 DEF IsOpen
  <2>7. TypeOK' /\ RequestInv'
    BY <2>2, <2>3, <2>5 DEF TypeOK, RequestInv
  <2>8. PluginInv'
    BY <1>1, <2>2, <2>3, <2>5, <2>6 DEF PluginInv, Last
  <2>9. BrowserInv'
    <3>1. caller = "browser" => gateway = "calling" /\ signal = "live"
      BY <1>1, <2>3 DEF BrowserInv, TypeOK
    <3>q. QED
      BY <2>2, <2>3, <2>4, <2>5, <2>6, <3>1 DEF BrowserInv
  <2>10. ProgramInv' /\ TimeInv'
    BY <2>2, <2>3 DEF ProgramInv, TimeInv
  <2>11. ValueInv'
    BY <1>1, <2>2, <2>3 DEF ValueInv, Delivered
  <2>q. QED
    BY <2>7, <2>8, <2>9, <2>10, <2>11 DEF CallInv
<1>q. QED
  BY <1>3, <1>4, <1>5

\* A call fails, or runs into its own timeout.
LEMMA FailuresKeep ==
  ASSUME CallInv, Asking, CallFails
  PROVE  CallInv'
<1>1. /\ plugin = "generating" /\ plugin' = "done" /\ calls' = Settled("failed")
      /\ Return(Failed("failed")) /\ UNCHANGED <<inputs, now>>
  BY DEF Asking, CallFails
<1>2. /\ calls \in Seq(Calls) /\ Len(calls) <= 2
      /\ Settled("failed") \in Seq(Calls) /\ Len(Settled("failed")) = Len(calls)
      /\ \A i \in DOMAIN Settled("failed") : ~IsOpen(Settled("failed")[i])
  BY <1>1, NoneIsOpen
<1>q. QED
  BY <1>1, <1>2, ReturnKeeps

\* The model is asked for the first time, by a plugin that has not begun.
LEMMA AskKeeps ==
  ASSUME CallInv, plugin \in {"none", "credential"}, Ask, UNCHANGED <<inputs, now>>,
         route # "fixture", caller = "browser" => plugin = "credential",
         caller = "program" => outcome = None
  PROVE  CallInv'
<1>1. /\ TypeOK /\ RequestInv /\ PluginInv /\ BrowserInv /\ ProgramInv /\ ValueInv /\ TimeInv
      /\ calls = <<>>
  BY DEF CallInv, PluginInv
<1>2. UNCHANGED <<caller, route, now, gateway, started, signal, answer, outcome>>
  BY DEF Ask, inputs, server
<1>3. CASE signal = "aborted"
  <2>1. plugin' = "done" /\ UNCHANGED calls
    BY <1>3 DEF Ask, Heeds
  <2>2. TypeOK' /\ RequestInv' /\ PluginInv' /\ TimeInv'
    BY <1>1, <1>2, <2>1 DEF TypeOK, RequestInv, PluginInv, TimeInv
  <2>3. BrowserInv' /\ ProgramInv'
    BY <1>1, <1>2, <1>3, <2>1 DEF BrowserInv, ProgramInv
  <2>4. ValueInv'
    BY <1>1, <1>2, <2>1 DEF ValueInv, Delivered
  <2>q. QED
    BY <2>2, <2>3, <2>4 DEF CallInv
<1>4. CASE signal # "aborted"
  <2>1. plugin' = "generating" /\ calls' = <<NewCall>>
    BY <1>4 DEF Ask
  <2>2. NewCall \in Calls /\ NewCall.state = "open" /\ (NewCall.heeds <=> signal # "none")
    BY <1>1, MadeCall
  <2>3. /\ calls' \in Seq(Calls) /\ Len(calls') = 1 /\ calls'[1] = NewCall
        /\ calls' # <<>> /\ DOMAIN calls' = {1}
    BY <2>1, <2>2
  <2>4. TypeOK' /\ RequestInv' /\ TimeInv'
    BY <1>1, <1>2, <2>1, <2>3 DEF TypeOK, RequestInv, TimeInv
  <2>5. PluginInv'
    BY <1>2, <2>1, <2>2, <2>3 DEF PluginInv, IsOpen, Last
  <2>6. BrowserInv'
    <3>1. caller = "browser" => gateway = "calling" /\ signal = "live"
      BY <1>1, <1>4 DEF BrowserInv, TypeOK
    <3>q. QED
      BY <1>1, <1>2, <2>1, <2>2, <2>3, <3>1 DEF BrowserInv
  <2>7. ProgramInv'
    BY <1>1, <1>2 DEF ProgramInv
  <2>8. ValueInv'
    BY <1>1, <1>2 DEF ValueInv, Delivered
  <2>q. QED
    BY <2>4, <2>5, <2>6, <2>7, <2>8 DEF CallInv
<1>q. QED
  BY <1>3, <1>4

\* The credential is there, is not, or cannot be read.
LEMMA CredentialKeeps ==
  ASSUME CallInv, ResolveCredential
  PROVE  CallInv'
<1>1. /\ plugin = "credential" /\ UNCHANGED <<inputs, now>> /\ calls = <<>>
      /\ route # "fixture" /\ calls \in Seq(Calls)
      /\ caller = "program" => outcome = None
  BY DEF CallInv, PluginInv, ProgramInv, TypeOK, ResolveCredential
<1>2. CASE Ask
  BY <1>1, <1>2, AskKeeps
<1>3. CASE /\ plugin' = "done" /\ UNCHANGED calls
           /\ Return(Failed("threw")) \/ Return(Failed("failed"))
  <2>1. /\ calls' \in Seq(Calls) /\ Len(calls') <= 2
        /\ \A i \in DOMAIN calls' : ~IsOpen(calls'[i])
    BY <1>1, <1>3
  <2>q. QED
    BY <1>1, <1>3, <2>1, ReturnKeeps
<1>q. QED
  BY <1>2, <1>3 DEF ResolveCredential

\* The request or the refFAM is refused.
LEMMA RefuseKeeps ==
  ASSUME CallInv, Refuse
  PROVE  CallInv'
<1>1. /\ TypeOK /\ RequestInv /\ PluginInv /\ BrowserInv /\ ProgramInv /\ ValueInv /\ TimeInv
  BY DEF CallInv
<1>2. /\ gateway = "reading" /\ gateway' = "answered"
      /\ UNCHANGED <<caller, route, now, started, signal, plugin, calls, outcome>>
      /\ answer' = [reason |-> "http-error", value |-> None, generation |-> FALSE,
                    post |-> "none"]
  BY DEF Refuse, inputs
<1>3. answer' \in Answers
  BY <1>2 DEF Answers, Reasons
<1>4. TypeOK' /\ RequestInv' /\ PluginInv' /\ TimeInv'
  BY <1>1, <1>2, <1>3 DEF TypeOK, RequestInv, PluginInv, TimeInv
<1>5. BrowserInv' /\ ProgramInv'
  BY <1>1, <1>2 DEF BrowserInv, ProgramInv
<1>6. ValueInv'
  BY <1>1, <1>2, <1>3 DEF ValueInv, Delivered
<1>q. QED
  BY <1>4, <1>5, <1>6 DEF CallInv

\* The gateway evaluates its query.
LEMMA EvaluateKeeps ==
  ASSUME CallInv, Evaluate
  PROVE  CallInv'
<1>1. /\ TypeOK /\ RequestInv /\ PluginInv /\ BrowserInv /\ ProgramInv /\ ValueInv /\ TimeInv
  BY DEF CallInv
<1>2. /\ gateway = "reading" /\ started' = now /\ signal' = "live"
      /\ UNCHANGED <<caller, route, now, outcome>>
  BY DEF Evaluate, inputs
<1>3. caller = "browser" /\ plugin = "none" /\ calls = <<>> /\ answer = None
  BY <1>1, <1>2 DEF RequestInv, ProgramInv, BrowserInv, PluginInv
<1>4. now \in Nat /\ started' \in 0..now /\ ServerDeadline \in Nat
  BY <1>1, <1>2, DeadlinesAssumption DEF TypeOK
<1>5. outcome # None => outcome.value \in {None, "literal"}
  BY <1>1, <1>3 DEF ValueInv, Delivered
<1>6. CASE route = "fixture" /\ Respond(Accepted("literal")) /\ UNCHANGED <<plugin, calls>>
  <2> DEFINE r == Accepted("literal")
  <2>1. r \in Outcomes /\ r.reason = "accepted" /\ r.value = "literal"
    BY Values
  <2>2. Respond(r)
    BY <1>6
  <2> HIDE DEF r
  <2>3. /\ gateway' = "answered" /\ answer' \in Answers
        /\ answer'.reason = "accepted" /\ answer'.value = "literal" /\ ~answer'.generation
    BY <1>6, <2>1, <2>2, AnswerTo
  <2>4. TypeOK' /\ RequestInv' /\ PluginInv' /\ TimeInv'
    BY <1>1, <1>2, <1>4, <1>6, <2>3 DEF TypeOK, RequestInv, PluginInv, TimeInv
  <2>5. BrowserInv' /\ ProgramInv'
    BY <1>1, <1>2, <1>3, <1>6, <2>3 DEF BrowserInv, ProgramInv
  <2>6. ValueInv'
    BY <1>2, <1>5, <2>3 DEF ValueInv
  <2>q. QED
    BY <2>4, <2>5, <2>6 DEF CallInv
<1>7. CASE /\ route = "gemini" /\ gateway' = "calling" /\ plugin' = "credential"
           /\ UNCHANGED <<calls, answer>>
  <2>1. TypeOK' /\ RequestInv' /\ PluginInv' /\ TimeInv'
    BY <1>1, <1>2, <1>3, <1>4, <1>7 DEF TypeOK, RequestInv, PluginInv, TimeInv
  <2>2. BrowserInv' /\ ProgramInv'
    BY <1>1, <1>2, <1>3, <1>7 DEF BrowserInv, ProgramInv
  <2>3. ValueInv'
    BY <1>2, <1>5, <1>7 DEF ValueInv
  <2>q. QED
    BY <2>1, <2>2, <2>3 DEF CallInv
<1>8. CASE /\ route = "ollama" /\ gateway' = "calling" /\ plugin' = "generating"
           /\ calls' = <<[at |-> now, heeds |-> TRUE, state |-> "open"]>> /\ UNCHANGED answer
  <2> DEFINE call == [at |-> now, heeds |-> TRUE, state |-> "open"]
  <2>1. call \in Calls /\ call.state = "open" /\ call.heeds
    BY <1>1 DEF TypeOK, Calls
  <2>2. calls' = <<call>>
    BY <1>8
  <2> HIDE DEF call
  <2>3. /\ calls' \in Seq(Calls) /\ Len(calls') = 1 /\ calls'[1] = call
        /\ calls' # <<>> /\ DOMAIN calls' = {1}
    BY <2>1, <2>2
  <2>4. TypeOK' /\ RequestInv' /\ TimeInv'
    BY <1>1, <1>2, <1>4, <1>8, <2>3 DEF TypeOK, RequestInv, TimeInv
  <2>5. PluginInv'
    BY <1>2, <1>8, <2>1, <2>3 DEF PluginInv, IsOpen, Last
  <2>6. BrowserInv' /\ ProgramInv'
    BY <1>1, <1>2, <1>3, <1>8, <2>1, <2>3 DEF BrowserInv, ProgramInv
  <2>7. ValueInv'
    BY <1>2, <1>5, <1>8 DEF ValueInv
  <2>q. QED
    BY <2>4, <2>5, <2>6, <2>7 DEF CallInv
<1>q. QED
  BY <1>6, <1>7, <1>8 DEF Evaluate

\* The query's timer fires: the open call, which heeds the signal, ends with it.
LEMMA ServerTimeoutKeeps ==
  ASSUME CallInv, ServerTimeout
  PROVE  CallInv'
<1>1. /\ TypeOK /\ RequestInv /\ PluginInv /\ BrowserInv /\ ProgramInv /\ ValueInv /\ TimeInv
  BY DEF CallInv
<1>2. /\ gateway = "calling" /\ signal' = "aborted" /\ Respond(Failed("timeout-exceeded"))
      /\ UNCHANGED <<caller, route, now, started, outcome>>
  BY DEF ServerTimeout, ServerDue, inputs
<1>3. /\ caller = "browser" /\ plugin \in {"credential", "generating"}
      /\ \A i \in DOMAIN calls : IsOpen(calls[i]) => calls[i].heeds
  BY <1>1, <1>2 DEF RequestInv, ProgramInv, BrowserInv
<1>4. /\ calls' \in Seq(Calls) /\ Len(calls') = Len(calls)
      /\ \A i \in DOMAIN calls' : ~IsOpen(calls'[i])
  <2>1. calls \in Seq(Calls) /\ DOMAIN calls = 1..Len(calls) /\ Len(calls) \in Nat
    BY <1>1 DEF TypeOK
  <2>2. ASSUME NEW i \in DOMAIN calls
        PROVE  calls'[i] \in Calls /\ ~IsOpen(calls'[i])
    <3>1. calls[i] \in Calls
      BY <2>1
    <3>2. CASE IsOpen(calls[i])
      <4>1. calls'[i] = [calls[i] EXCEPT !.state = "failed"]
        BY <1>3, <3>2 DEF ServerTimeout
      <4>q. QED
        BY <3>1, <4>1 DEF Calls, IsOpen
    <3>3. CASE ~IsOpen(calls[i])
      BY <3>1, <3>3 DEF ServerTimeout
    <3>q. QED
      BY <3>2, <3>3
  <2>3. calls' = [i \in 1..Len(calls) |-> calls'[i]] /\ DOMAIN calls' = DOMAIN calls
    BY <2>1 DEF ServerTimeout
  <2>4. calls' \in [1..Len(calls) -> Calls]
    BY <2>1, <2>2, <2>3
  <2>5. calls' \in Seq(Calls)
    BY <2>1, <2>4, SeqDef
  <2>q. QED
    BY <2>1, <2>2, <2>3, <2>4, <2>5, LenProperties
<1>5. plugin' = (IF plugin = "generating" THEN "done" ELSE "credential")
  <2>1. CASE plugin = "generating"
    <3>1. calls # <<>> /\ IsOpen(Last(calls))
      BY <1>1, <2>1 DEF PluginInv
    <3>2. Last(calls).heeds
      <4>1. Len(calls) \in Nat \ {0} /\ calls \in Seq(Calls)
        BY <1>1, <3>1, EmptySeq DEF TypeOK
      <4>2. Len(calls) \in DOMAIN calls
        BY <4>1
      <4>q. QED
        BY <1>3, <3>1, <4>2 DEF Last
    <3>q. QED
      BY <2>1, <3>1, <3>2 DEF ServerTimeout, Asking
  <2>2. CASE plugin = "credential"
    BY <2>2 DEF ServerTimeout, Asking
  <2>q. QED
    BY <1>3, <2>1, <2>2
<1>6. /\ gateway' = "answered" /\ answer' \in Answers
      /\ answer'.reason = "timeout-exceeded" /\ answer'.value = None /\ ~answer'.generation
  <2> DEFINE r == Failed("timeout-exceeded")
  <2>1. r \in Outcomes /\ r.reason = "timeout-exceeded" /\ r.value = None
    BY Failures DEF Reasons
  <2>2. Respond(r)
    BY <1>2
  <2> HIDE DEF r
  <2>q. QED
    BY <2>1, <2>2, AnswerTo
<1>7. plugin = "credential" => calls' = <<>>
  <2>1. plugin = "credential" => calls = <<>>
    BY <1>1 DEF PluginInv
  <2>q. QED
    BY <1>4, <2>1, EmptySeq
<1>8. TypeOK' /\ RequestInv' /\ TimeInv'
  BY <1>1, <1>2, <1>3, <1>4, <1>5, <1>6 DEF TypeOK, RequestInv, TimeInv
<1>9. PluginInv'
  BY <1>1, <1>2, <1>3, <1>4, <1>5, <1>7 DEF PluginInv
<1>10. BrowserInv' /\ ProgramInv'
  BY <1>1, <1>2, <1>3, <1>4, <1>5, <1>6 DEF BrowserInv, ProgramInv
<1>11. ValueInv'
  BY <1>1, <1>2, <1>3, <1>6 DEF ValueInv, Delivered
<1>q. QED
  BY <1>8, <1>9, <1>10, <1>11 DEF CallInv

\* A program asks its Decomposer.
LEMMA DecomposeKeeps ==
  ASSUME CallInv, Decompose
  PROVE  CallInv'
<1>1. /\ TypeOK /\ RequestInv /\ PluginInv /\ BrowserInv /\ ProgramInv /\ ValueInv /\ TimeInv
  BY DEF CallInv
<1>2. /\ caller = "program" /\ plugin = "none" /\ outcome = None
      /\ UNCHANGED <<inputs, now>> /\ UNCHANGED <<caller, route, now>>
  BY DEF Decompose, Called, inputs
<1>3. gateway = "none" /\ signal = "none" /\ answer = None
  BY <1>1, <1>2 DEF ProgramInv
<1>4. CASE Unsupported \/ Manual
  <2>1. PICK r \in {Failed("unsupported"), Accepted("literal")} :
          Return(r) /\ UNCHANGED <<plugin, calls>>
    BY <1>4 DEF Unsupported, Manual
  <2>2. /\ r \in Outcomes /\ r.value \in {None, "literal"}
        /\ r.value = None \/ r.reason = "accepted"
    <3>1. "unsupported" \in Reasons
      BY DEF Reasons
    <3>q. QED
      BY <3>1, Failures, Values
  <2>3. outcome' = DecompositionOutcome(r) /\ UNCHANGED <<gateway, started, signal, answer>>
    BY <1>2, <2>1 DEF Return, server
  <2>4. /\ outcome' \in Outcomes /\ outcome'.value \in {None, "literal"}
    BY <2>2, <2>3, OutcomeOf
  <2>5. TypeOK' /\ RequestInv' /\ PluginInv' /\ TimeInv'
    BY <1>1, <1>2, <2>1, <2>3, <2>4 DEF TypeOK, RequestInv, PluginInv, TimeInv
  <2>6. BrowserInv' /\ ProgramInv'
    BY <1>2, <1>3, <2>1, <2>3 DEF BrowserInv, ProgramInv
  <2>7. ValueInv'
    BY <1>3, <2>3, <2>4 DEF ValueInv
  <2>q. QED
    BY <2>5, <2>6, <2>7 DEF CallInv
<1>5. CASE AskGemini
  <2>1. /\ route = "gemini" /\ plugin' = "credential" /\ UNCHANGED <<calls, outcome>>
        /\ UNCHANGED <<gateway, started, signal, answer>>
    BY <1>5 DEF AskGemini, server
  <2>2. TypeOK' /\ RequestInv' /\ PluginInv' /\ TimeInv'
    BY <1>1, <1>2, <2>1 DEF TypeOK, RequestInv, PluginInv, TimeInv
  <2>3. BrowserInv' /\ ProgramInv' /\ ValueInv'
    BY <1>2, <1>3, <2>1 DEF BrowserInv, ProgramInv, ValueInv
  <2>q. QED
    BY <2>2, <2>3 DEF CallInv
<1>6. CASE AskOllama
  BY <1>2, <1>6, AskKeeps DEF AskOllama
<1>q. QED
  BY <1>4, <1>5, <1>6 DEF Decompose

\* The browser gets the gateway's answer, or gives up.
LEMMA BrowserKeeps ==
  ASSUME CallInv,
         \/ AnswerArrives
         \/ \E reason \in {"decompose-cancelled", "connection lost", "decompose-failed"} :
              GiveUp(reason)
  PROVE  CallInv'
<1>1. /\ TypeOK /\ RequestInv /\ PluginInv /\ BrowserInv /\ ProgramInv /\ ValueInv /\ TimeInv
  BY DEF CallInv
<1>2. /\ caller = "browser"
      /\ UNCHANGED <<caller, route, now, gateway, started, signal, answer, plugin, calls>>
  BY DEF AnswerArrives, GiveUp, Waiting, inputs, server
<1>3. /\ outcome' \in Outcomes
      /\ outcome'.value \notin {None, "literal"} =>
           Delivered(outcome'.value) /\ outcome'.reason # "resolved"
  <2>1. CASE AnswerArrives
    <3>1. gateway = "answered" /\ answer \in Answers
          /\ outcome' = [reason |-> answer.reason, value |-> answer.value]
      BY <1>1, <2>1 DEF AnswerArrives, ValueInv
    <3>q. QED
      BY <1>1, <3>1 DEF ValueInv, Answers, Outcomes
  <2>2. ASSUME NEW reason \in {"decompose-cancelled", "connection lost", "decompose-failed"},
               GiveUp(reason)
        PROVE  outcome' \in Outcomes /\ outcome'.value = None
    <3>1. reason \in Reasons
      BY DEF Reasons
    <3>q. QED
      BY <2>2, <3>1, Failures DEF GiveUp
  <2>q. QED
    BY <2>1, <2>2
<1>4. TypeOK' /\ RequestInv' /\ PluginInv' /\ TimeInv'
  BY <1>1, <1>2, <1>3 DEF TypeOK, RequestInv, PluginInv, TimeInv
<1>5. BrowserInv' /\ ProgramInv'
  BY <1>1, <1>2 DEF BrowserInv, ProgramInv, RequestInv
<1>6. ValueInv'
  <2>1. \A v : Delivered(v)' <=> Delivered(v)
    BY <1>2 DEF Delivered
  <2>q. QED
    BY <1>1, <1>2, <1>3, <2>1 DEF ValueInv, Delivered
<1>q. QED
  BY <1>4, <1>5, <1>6 DEF CallInv

\* Time passes no timer that is due.
LEMMA TickKeeps ==
  ASSUME CallInv, Tick
  PROVE  CallInv'
<1>1. /\ TypeOK /\ RequestInv /\ PluginInv /\ BrowserInv /\ ProgramInv /\ ValueInv /\ TimeInv
  BY DEF CallInv
<1>2. /\ now < MaxTime /\ now' = now + 1 /\ ~ServerDue
      /\ UNCHANGED <<caller, route, gateway, started, signal, answer, plugin, calls, outcome>>
  BY DEF Tick, inputs, server
<1>3. now \in Nat /\ now' \in 0..MaxTime /\ started \in 0..now' /\ ServerDeadline \in Nat
      /\ started \in Nat
  BY <1>1, <1>2, DeadlinesAssumption DEF TypeOK
<1>4. TypeOK'
  BY <1>1, <1>2, <1>3 DEF TypeOK
<1>5. RequestInv' /\ PluginInv' /\ BrowserInv' /\ ProgramInv'
  BY <1>1, <1>2 DEF RequestInv, PluginInv, BrowserInv, ProgramInv
<1>6. ValueInv'
  BY <1>1, <1>2 DEF ValueInv, Delivered
<1>7. TimeInv'
  BY <1>2, <1>3 DEF TimeInv, ServerDue
<1>q. QED
  BY <1>4, <1>5, <1>6, <1>7 DEF CallInv

----------------------------------------------------------------------------
\* The theorems

LEMMA CallsBegin == Init => CallInv
<1> SUFFICES ASSUME Init PROVE CallInv
  OBVIOUS
<1>1. /\ caller \in {"browser", "program"} /\ route \in {"fixture", "ollama", "gemini"}
      /\ now = 0 /\ started = 0
      /\ gateway = IF caller = "browser" THEN "reading" ELSE "none"
      /\ plugin = "none" /\ signal = "none" /\ calls = <<>> /\ answer = None
      /\ outcome = None
  BY DEF Init
<1>2. MaxTime \in Nat
  BY DeadlinesAssumption
<1>3. calls \in Seq(Calls) /\ Len(calls) = 0 /\ DOMAIN calls = {}
  BY <1>1
<1>4. TypeOK
  BY <1>1, <1>2, <1>3 DEF TypeOK
<1>q. QED
  BY <1>1, <1>3, <1>4
  DEF CallInv, RequestInv, PluginInv, BrowserInv, ProgramInv, ValueInv, TimeInv

LEMMA StepsKeep == CallInv /\ [Next]_vars => CallInv'
<1> SUFFICES ASSUME CallInv, [Next]_vars PROVE CallInv'
  OBVIOUS
<1>1. CASE Timers
  BY <1>1, FailuresKeep, ServerTimeoutKeeps, BrowserKeeps
  DEF Timers, OwnTimeout, OwnDue, ClientTimeout
<1>2. CASE Own
  BY <1>2, RefuseKeeps, EvaluateKeeps, CredentialKeeps, DecomposeKeeps, BrowserKeeps DEF Own
<1>3. CASE Tick
  BY <1>3, TickKeeps
<1>4. CASE (\E text \in Texts : ProviderAnswers(text)) \/ ProviderFails
  BY <1>4, AnswersKeep, FailuresKeep DEF ProviderFails
<1>5. CASE \E reason \in {"decompose-cancelled", "connection lost"} : GiveUp(reason)
  BY <1>5, BrowserKeeps
<1>6. CASE UNCHANGED vars
  BY <1>6
  DEF vars, inputs, server, CallInv, TypeOK, RequestInv, PluginInv, BrowserInv, ProgramInv,
      ValueInv, TimeInv, Delivered
<1>q. QED
  BY <1>1, <1>2, <1>3, <1>4, <1>5, <1>6 DEF Next

\* The invariant holds in every state.
LEMMA CallsHold == Spec => []CallInv
<1>1. Init => CallInv
  BY CallsBegin
<1>2. CallInv /\ [Next]_vars => CallInv'
  BY StepsKeep
<1>q. QED
  BY <1>1, <1>2, PTL DEF Spec

\* Type correctness of a decomposition request, from its caller to the provider.
THEOREM CallTypesHold == Spec => []TypeOK
<1>1. CallInv => TypeOK
  BY DEF CallInv
<1>q. QED
  BY <1>1, CallsHold, PTL

\* No provider works for a gateway that has answered, or for a Decomposer that
\* has returned: the signal reaches the repair call too (ollama/src/index.ts:60).
THEOREM CallsEndWithTheirAnswer == Spec => []NoCallOutlivesItsAnswer
<1>1. CallInv => NoCallOutlivesItsAnswer
  <2> SUFFICES ASSUME CallInv, NEW i \in DOMAIN calls, IsOpen(calls[i])
               PROVE  gateway = "calling" \/ (caller = "program" /\ outcome = None)
    BY DEF NoCallOutlivesItsAnswer
  <2>1. plugin = "generating"
    BY DEF CallInv, PluginInv
  <2>q. QED
    BY <2>1 DEF CallInv, RequestInv, BrowserInv, ProgramInv, TypeOK
<1>q. QED
  BY <1>1, CallsHold, PTL

\* A caller gets the text of the last call, a FAM, and nothing that has not been
\* validated; a receipt stands beside a value (gateway.ts:95-108).
THEOREM ValuesAreValidated == Spec => []OnlyValidatedIsHandedOn
<1>1. CallInv => OnlyValidatedIsHandedOn
  <2> SUFFICES ASSUME CallInv PROVE OnlyValidatedIsHandedOn
    OBVIOUS
  <2>1. answer # None => gateway = "answered"
    BY DEF CallInv, RequestInv, BrowserInv, ProgramInv, TypeOK
  <2>q. QED
    BY <2>1 DEF CallInv, ValueInv, Delivered, OnlyValidatedIsHandedOn
<1>q. QED
  BY <1>1, CallsHold, PTL

\* The browser's timer does not overtake the query's (decomposer.ts:47,
\* gateway.ts:84), whatever the two deadlines are.
THEOREM GatewayFirst == Spec => TheGatewayDecidesFirst
<1> DEFINE InTime ==
  ClientTimeout /\ gateway = "calling" =>
    started > 0 /\ started >= ClientDeadline - ServerDeadline
<1>1. CallInv /\ [Next]_vars => [InTime]_vars
  <2> SUFFICES ASSUME CallInv, ClientTimeout, gateway = "calling"
               PROVE  started > 0 /\ started >= ClientDeadline - ServerDeadline
    OBVIOUS
  <2>1. now <= started + ServerDeadline /\ now >= ClientDeadline
    BY DEF CallInv, TimeInv, ClientTimeout, ClientDue
  <2>2. /\ now \in Nat /\ started \in Nat /\ ServerDeadline \in Nat /\ ClientDeadline \in Nat
    BY DeadlinesAssumption DEF CallInv, TypeOK
  <2>3. ServerDeadline < ClientDeadline
    BY DeadlinesAssumption
  <2>q. QED
    BY <2>1, <2>2, <2>3
<1>q. QED
  BY <1>1, CallsHold, PTL DEF Spec, TheGatewayDecidesFirst
=============================================================================

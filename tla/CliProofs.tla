------------------------------- MODULE CliProofs -------------------------------
(***************************************************************************)
(* Proofs about a call of a command line tool, for every limit and every   *)
(* amount of output: of CliExecutor alone (Spec), and of a call that is    *)
(* served by CliExecutor or by NodeCliExecutor (CallSpec).                 *)
(***************************************************************************)
EXTENDS NodeCliExecutor, TLAPS

\* Before execute nothing has happened.
CalledInv ==
  phase = "called" =>
    /\ receipt = None /\ forced = "none" /\ child = "none"
    /\ ~timer /\ ~listening /\ ~pipesHeld

\* While the call runs, whatever may stop it is armed or has stopped it.
RunningInv ==
  phase = "running" =>
    /\ receipt = None
    /\ timer \/ forced # "none"
    /\ (listening /\ ~aborted) \/ forced # "none"

\* A call that has ended has its receipt, unless the handler threw, and nothing
\* is armed any more.
SettledInv ==
  /\ phase \in {"settled", "done"} => ~timer /\ ~listening
  /\ phase = "settled" => receipt # None
  /\ phase = "done" /\ receipt = None => child = "none" /\ ~pipesHeld
  /\ child \in {"failed", "gone"} => receipt # None
  /\ result # None => phase = "done" /\ receipt # None

\* What is kept is all that was read, until the call is stopped.
KeptInv == kept <= MaxStdoutBytes /\ (forced = "none" => kept = read["stdout"])

\* A receipt of a success is one of a child that is gone with all it wrote.
SuccessInv ==
  /\ receipt # None /\ Succeeds =>
       /\ child = "ended" /\ ~pipesHeld /\ read = written /\ forced = "none"
       /\ exit = [code |-> 0, signal |-> FALSE] /\ receipt.stdout = written["stdout"]
  /\ result # None /\ result.transport = "succeeded" => Succeeds

CallInv == CalledInv /\ RunningInv /\ SettledInv /\ KeptInv /\ SuccessInv

----------------------------------------------------------------------------
\* The initial state is of the right types.
LEMMA TypeInit == Init => TypeOK
<1> SUFFICES ASSUME Init PROVE TypeOK
  OBVIOUS
<1>1. written \in [Streams -> 0..MaxWritten] /\ read \in [Streams -> 0..MaxWritten]
  BY LimitsAssumption DEF Init
<1>2. kept \in 0..read["stdout"] /\ \A s \in Streams : read[s] <= written[s]
  BY DEF Init, Streams
<1>3. {aborted, listening, timer, sigterm, pipesHeld} \subseteq BOOLEAN
  BY DEF Init
<1>q. QED
  BY <1>1, <1>2, <1>3 DEF Init, TypeOK

\* A receipt is one.
LEMMA ReceiptTypes ==
  ASSUME TypeOK
  PROVE  /\ \A t \in Terminations : Rejected(t) \in Receipts
         /\ [termination |-> "spawn-failed", exitCode |-> None, stdout |-> kept] \in Receipts
         /\ [termination |-> IF forced # "none" THEN forced ELSE "exited",
             exitCode |-> None, stdout |-> kept] \in Receipts
         /\ child = "ended" =>
              [termination |-> Termination, exitCode |-> exit.code, stdout |-> kept] \in Receipts
<1>1. kept \in Nat /\ forced \in Stops \cup {"none"}
  BY LimitsAssumption DEF TypeOK, Streams
<1>2. child = "ended" => exit \in Exits /\ exit.code \in {0, 1, None}
  BY DEF TypeOK, Exits
<1>3. Termination \in Terminations
  BY <1>1 DEF Termination, Terminations, Stops
<1>q. QED
  BY <1>1, <1>2, <1>3 DEF Rejected, Receipts, Terminations, Stops

\* Every step keeps the types.
LEMMA TypeStep == TypeOK /\ CalledInv /\ [Next]_vars => TypeOK'
<1> SUFFICES ASSUME TypeOK, CalledInv, [Next]_vars PROVE TypeOK'
  OBVIOUS
<1> USE LimitsAssumption
<1>1. CASE Execute
  <2>1. Rejected("spawn-failed") \in Receipts /\ Rejected("cancelled") \in Receipts
    BY ReceiptTypes DEF Terminations, Stops
  <2>2. child = "none" /\ exit = None
    BY <1>1 DEF Execute, EncodeThrows, Reject, RejectAborted, SpawnThrows, Spawn, CalledInv, TypeOK
  <2>3. phase' \in {"called", "running", "settled", "done"} /\ receipt' \in Receipts \cup {None}
    BY <1>1, <2>1 DEF Execute, EncodeThrows, Reject, RejectAborted, SpawnThrows, Spawn, TypeOK
  <2>4. child' \in {"none", "starting", "running"} /\ exit' = None
    BY <1>1, <2>2 DEF Execute, EncodeThrows, Reject, RejectAborted, SpawnThrows, Spawn, process
  <2>5. {aborted', listening', timer', sigterm', pipesHeld'} \subseteq BOOLEAN
    BY <1>1 DEF Execute, EncodeThrows, Reject, RejectAborted, SpawnThrows, Spawn, TypeOK,
       listeners, process
  <2>6. UNCHANGED <<forced, written, read, kept, result>>
    BY <1>1 DEF Execute, EncodeThrows, Reject, RejectAborted, SpawnThrows, Spawn, process, collected
  <2>q. QED
    BY <2>3, <2>4, <2>5, <2>6 DEF TypeOK
<1>2. CASE TimerFires
  BY <1>2 DEF TimerFires, Stop, TypeOK, process, collected, Stops
<1>3. CASE Abort
  BY <1>3 DEF Abort, Stop, TypeOK, process, collected, Stops
<1>4. CASE Reads
  <2> PICK s \in Streams, n \in 1..MaxWritten : Data(s, n)
    BY <1>4 DEF Reads
  <2>1. read' \in [Streams -> 0..MaxWritten] /\ written' = written
        /\ \A t \in Streams : read'[t] <= written[t]
    BY DEF Data, TypeOK, process
  <2>2. kept' \in 0..read'["stdout"]
    BY DEF Data, Fits, TypeOK, Streams
  <2>3. forced' \in Stops \cup {"none"} /\ sigterm' \in BOOLEAN
    BY DEF Data, Stop, TypeOK, Stops
  <2>q. QED
    BY <2>1, <2>2, <2>3 DEF Data, TypeOK, listeners, process
<1>5. CASE SpawnError
  BY <1>5, ReceiptTypes DEF SpawnError, Settle, TypeOK, listeners, collected
<1>6. CASE Close
  BY <1>6, ReceiptTypes DEF Close, Closes, Settle, TypeOK, listeners, process, collected
<1>7. CASE CloseAfterError
  BY <1>7, ReceiptTypes DEF CloseAfterError, Settle, TypeOK, listeners, collected
<1>8. CASE HandlerResumes
  BY <1>8 DEF HandlerResumes, TypeOK, listeners, process, collected, Results
<1>9. CASE Child
  <2>1. CASE \E s \in Streams : ChildWrites(s)
    BY <2>1 DEF ChildWrites, TypeOK, listeners, collected, Streams
  <2>2. CASE \E e \in Exits : ChildEnds(e)
    BY <2>2, NoneAssumption DEF ChildEnds, TypeOK, listeners, collected
  <2>3. CASE PipesClose
    BY <2>3 DEF PipesClose, TypeOK, listeners, collected
  <2>q. QED
    BY <1>9, <2>1, <2>2, <2>3 DEF Child
<1>10. CASE UNCHANGED vars
  BY <1>10 DEF vars, TypeOK, listeners, process, collected
<1>q. QED
  BY <1>1, <1>2, <1>3, <1>4, <1>5, <1>6, <1>7, <1>8, <1>9, <1>10 DEF Next

\* Once execute was called it is not called again.
LEMMA CalledStep == TypeOK /\ CalledInv /\ [Next]_vars => CalledInv'
<1> SUFFICES ASSUME TypeOK, CalledInv, [Next]_vars, phase' = "called"
    PROVE CalledInv'
  BY DEF CalledInv
<1>1. phase = "called" /\ ~Execute
  BY DEF Next, Execute, EncodeThrows, Reject, RejectAborted, SpawnThrows, Spawn, TimerFires, Abort,
     Reads, Data, SpawnError, Close, CloseAfterError, HandlerResumes, Child, ChildWrites, ChildEnds,
     PipesClose, Settle, vars
<1>2. receipt = None /\ forced = "none" /\ child = "none" /\ ~timer /\ ~listening /\ ~pipesHeld
  BY <1>1 DEF CalledInv
<1>3. Abort \/ UNCHANGED vars
  BY <1>1, <1>2 DEF Next, TimerFires, Reads, Data, SpawnError, Close, Closes, CloseAfterError,
     HandlerResumes, Child, ChildWrites, ChildEnds, PipesClose
<1>q. QED
  BY <1>2, <1>3 DEF Abort, CalledInv, vars, listeners, process

----------------------------------------------------------------------------
\* The call invariant, one part at a time.  TypeOK holds before and after.

StepInv == TypeOK /\ CallInv

\* While the call runs it can still be stopped, or has been.
LEMMA RunningStep == StepInv /\ [Next]_vars => RunningInv'
<1> SUFFICES ASSUME StepInv, [Next]_vars, phase' = "running"
    PROVE  RunningInv'
  BY DEF RunningInv
<1> USE DEF StepInv, CallInv, RunningInv
<1>1. CASE phase = "called"
  <2>1. Spawn \/ Abort \/ UNCHANGED vars
    BY <1>1 DEF Next, Execute, EncodeThrows, Reject, RejectAborted, SpawnThrows, TimerFires, Reads, Data,
       SpawnError, Close, Closes, CloseAfterError, HandlerResumes, Child, ChildWrites, ChildEnds,
       PipesClose, CalledInv
  <2>q. QED
    BY <1>1, <2>1 DEF Spawn, Abort, CalledInv, vars
<1>2. CASE phase = "running"
  <2>1. ~Execute /\ ~HandlerResumes
    BY <1>2 DEF Execute, EncodeThrows, Reject, RejectAborted, SpawnThrows, Spawn, HandlerResumes
  <2>2. ~SpawnError /\ ~Close /\ ~CloseAfterError
    BY <1>2 DEF SpawnError, Close, CloseAfterError, Settle
  <2>3. CASE TimerFires
    BY <1>2, <2>3 DEF TimerFires, Stop, TypeOK
  <2>4. CASE Abort
    BY <1>2, <2>4 DEF Abort, Stop, TypeOK
  <2>5. CASE Reads
    BY <1>2, <2>5 DEF Reads, Data, Stop, listeners
  <2>6. CASE Child
    BY <1>2, <2>6 DEF Child, ChildWrites, ChildEnds, PipesClose, listeners
  <2>7. CASE UNCHANGED vars
    BY <1>2, <2>7 DEF vars, listeners
  <2>q. QED
    BY <2>1, <2>2, <2>3, <2>4, <2>5, <2>6, <2>7 DEF Next
<1>3. CASE phase \notin {"called", "running"}
  BY <1>3 DEF Next, Execute, EncodeThrows, Reject, RejectAborted, SpawnThrows, Spawn, TimerFires, Abort,
     Reads, Data, SpawnError, Close, CloseAfterError, HandlerResumes, Child, ChildWrites, ChildEnds,
     PipesClose, Settle, vars
<1>q. QED
  BY <1>1, <1>2, <1>3

\* Settling takes the timer and the listener away, and nothing arms them again.
LEMMA SettledStep == StepInv /\ TypeOK' /\ [Next]_vars => SettledInv'
<1> SUFFICES ASSUME StepInv, TypeOK', [Next]_vars PROVE SettledInv'
  OBVIOUS
<1> USE NoneAssumption DEF StepInv, CallInv, SettledInv
<1>0. /\ \A t \in Terminations : Rejected(t) # None
      /\ [termination |-> "spawn-failed", exitCode |-> None, stdout |-> kept] # None
      /\ child = "ended" =>
           [termination |-> Termination, exitCode |-> exit.code, stdout |-> kept] # None
  BY ReceiptTypes
<1>1. CASE Execute
  BY <1>0, <1>1 DEF Execute, EncodeThrows, Reject, RejectAborted, SpawnThrows, Spawn, CalledInv,
     Terminations, Stops, listeners, process
<1>2. CASE TimerFires
  BY <1>2 DEF TimerFires, process
<1>3. CASE Abort
  BY <1>3 DEF Abort, process
<1>4. CASE Reads
  BY <1>4 DEF Reads, Data, process, listeners
<1>5. CASE SpawnError
  BY <1>0, <1>5 DEF SpawnError, Settle, listeners
<1>6. CASE Close
  BY <1>0, <1>6 DEF Close, Closes, Settle, listeners, process
<1>7. CASE CloseAfterError
  BY <1>7 DEF CloseAfterError, Settle, listeners
<1>8. CASE HandlerResumes
  BY <1>8 DEF HandlerResumes, listeners, process
<1>9. CASE Child
  BY <1>9 DEF Child, ChildWrites, ChildEnds, PipesClose, listeners
<1>10. CASE UNCHANGED vars
  BY <1>10 DEF vars, listeners, process
<1>q. QED
  BY <1>1, <1>2, <1>3, <1>4, <1>5, <1>6, <1>7, <1>8, <1>9, <1>10 DEF Next

\* What is kept stays within the limit, and is all that was read until a stop.
LEMMA KeptStep == StepInv /\ [Next]_vars => KeptInv'
<1> SUFFICES ASSUME StepInv, [Next]_vars PROVE KeptInv'
  OBVIOUS
<1> USE LimitsAssumption DEF StepInv, CallInv, KeptInv
<1>1. CASE Reads
  <2> PICK s \in Streams, n \in 1..MaxWritten : Data(s, n)
    BY <1>1 DEF Reads
  <2>1. kept \in Nat /\ read["stdout"] \in Nat /\ kept <= read["stdout"] /\ n \in Nat
    BY DEF TypeOK, Streams
  <2>2. forced' = "none" => forced = "none"
    BY DEF Data, Stop
  <2>3. CASE s = "stdout" /\ Fits(n)
    <3>1. kept' = kept + n /\ read'["stdout"] = read["stdout"] + n
      BY <2>3 DEF Data, TypeOK
    <3>q. QED
      BY <2>1, <2>2, <2>3, <3>1 DEF Fits
  <2>4. CASE s = "stdout" /\ ~Fits(n)
    <3>1. kept' = kept /\ forced' # "none"
      BY <2>4 DEF Data, Stop, Stops, TypeOK
    <3>q. QED
      BY <3>1
  <2>5. CASE s # "stdout"
    BY <2>2, <2>5 DEF Data, TypeOK
  <2>q. QED
    BY <2>3, <2>4, <2>5
<1>2. CASE ~Reads
  <2>1. UNCHANGED <<read, kept>>
    BY <1>2 DEF Next, Execute, EncodeThrows, Reject, RejectAborted, SpawnThrows, Spawn, TimerFires, Abort,
       SpawnError, Close, CloseAfterError, HandlerResumes, Child, ChildWrites, ChildEnds, PipesClose,
       vars, collected
  <2>2. forced' = "none" => forced = "none"
    BY <1>2 DEF Next, Execute, EncodeThrows, Reject, RejectAborted, SpawnThrows, Spawn, TimerFires, Abort,
       Stop, SpawnError, Close, CloseAfterError, HandlerResumes, Child, ChildWrites, ChildEnds,
       PipesClose, vars
  <2>q. QED
    BY <2>1, <2>2
<1>q. QED
  BY <1>1, <1>2

\* A receipt stands: whatever comes later leaves it.
LEMMA ReceiptStands == StepInv /\ [Next]_vars /\ receipt # None => receipt' = receipt
<1> SUFFICES ASSUME StepInv, [Next]_vars, receipt # None PROVE receipt' = receipt
  OBVIOUS
<1>1. phase # "called"
  BY DEF StepInv, CallInv, CalledInv
<1>q. QED
  BY <1>1 DEF Next, Execute, EncodeThrows, Reject, RejectAborted, SpawnThrows, Spawn, TimerFires, Abort,
     Reads, Data, SpawnError, Settle, Close, CloseAfterError, HandlerResumes, Child, ChildWrites,
     ChildEnds, PipesClose, vars

\* A receipt that is given in a step is a rejection, a failed spawn or a close.
LEMMA ReceiptGiven ==
  ASSUME StepInv, [Next]_vars, receipt = None, receipt' # None
  PROVE  \/ phase = "called" /\ receipt'.termination \in {"spawn-failed", "cancelled"}
         \/ phase = "running" /\ receipt'.termination = "spawn-failed"
         \/ /\ phase = "running" /\ Closes /\ UNCHANGED <<forced, process, collected, aborted>>
            /\ receipt' = [termination |-> Termination, exitCode |-> exit.code, stdout |-> kept]
<1> USE DEF StepInv, CallInv
<1>1. CASE Execute
  BY <1>1 DEF Execute, EncodeThrows, Reject, RejectAborted, SpawnThrows, Spawn, Rejected
<1>2. CASE SpawnError \/ Close
  <2>1. phase = "running"
    BY <1>2 DEF SpawnError, Close, Closes, CalledInv, SettledInv, TypeOK
  <2>q. QED
    BY <1>2, <2>1 DEF SpawnError, Close, Settle
<1>3. CASE CloseAfterError
  BY <1>3 DEF CloseAfterError, SettledInv
<1>q. QED
  BY <1>1, <1>2, <1>3 DEF Next, TimerFires, Abort, Reads, Data, HandlerResumes, Child, ChildWrites,
     ChildEnds, PipesClose, vars

\* A success is given by a close with everything read, and what it found lasts:
\* the child is gone and nothing may stop the call any more.
LEMMA SuccessStep == StepInv /\ TypeOK' /\ [Next]_vars => SuccessInv'
<1> SUFFICES ASSUME StepInv, TypeOK', [Next]_vars PROVE SuccessInv'
  OBVIOUS
<1> USE DEF StepInv, CallInv
<1>1. CASE receipt = None /\ receipt' # None
  <2>1. result' = None
    BY <1>1 DEF SettledInv, Next, Execute, EncodeThrows, Reject, RejectAborted, SpawnThrows, Spawn,
       TimerFires, Abort, Reads, Data, SpawnError, Close, CloseAfterError, HandlerResumes, Child,
       ChildWrites, ChildEnds, PipesClose, vars
  <2>2. SUFFICES ASSUME Succeeds' PROVE
          /\ child' = "ended" /\ ~pipesHeld' /\ read' = written' /\ forced' = "none"
          /\ exit' = [code |-> 0, signal |-> FALSE] /\ receipt'.stdout = written'["stdout"]
    BY <2>1 DEF SuccessInv
  <2>3. Closes /\ UNCHANGED <<forced, process, collected>>
        /\ receipt' = [termination |-> Termination, exitCode |-> exit.code, stdout |-> kept]
    BY <1>1, <2>2, ReceiptGiven DEF Succeeds
  <2>4. forced = "none" /\ ~exit.signal /\ exit.code = 0
    BY <2>2, <2>3 DEF Succeeds, Termination, TypeOK, Stops
  <2>5. exit = [code |-> 0, signal |-> FALSE]
    BY <2>3, <2>4, NoneAssumption DEF Closes, TypeOK, Exits
  <2>6. kept = written["stdout"]
    BY <2>3, <2>4 DEF Closes, KeptInv
  <2>q. QED
    BY <2>3, <2>4, <2>5, <2>6 DEF Closes, process, collected
<1>2. CASE receipt # None
  <2>1. receipt' = receipt
    BY <1>2, ReceiptStands
  <2>2. phase \in {"settled", "done"} /\ ~timer /\ ~listening
    BY <1>2 DEF CalledInv, RunningInv, SettledInv, TypeOK
  <2>3. result' # None /\ result'.transport = "succeeded" => Succeeds'
    BY <2>1, <2>2 DEF SuccessInv, Next, Execute, EncodeThrows, Reject, RejectAborted, SpawnThrows, Spawn,
       TimerFires, Abort, Reads, Data, SpawnError, Close, CloseAfterError, HandlerResumes, Succeeds,
       Child, ChildWrites, ChildEnds, PipesClose, vars
  <2>4. ASSUME Succeeds
        PROVE  UNCHANGED <<child, pipesHeld, read, written, forced, exit>>
    <3>1. child = "ended" /\ ~pipesHeld /\ read = written /\ read \in [Streams -> 0..MaxWritten]
      BY <1>2, <2>4 DEF SuccessInv, TypeOK
    <3>2. ~Reads
      BY <3>1, LimitsAssumption DEF Reads, Data
    <3>q. QED
      BY <2>2, <3>1, <3>2 DEF Next, Execute, EncodeThrows, Reject, RejectAborted, SpawnThrows, Spawn,
         TimerFires, Abort, SpawnError, Close, CloseAfterError, HandlerResumes, Child, ChildWrites,
         ChildEnds, PipesClose, vars, process, collected
  <2>q. QED
    BY <1>2, <2>1, <2>3, <2>4 DEF SuccessInv, Succeeds
<1>3. CASE receipt' = None
  <2>1. receipt = None /\ result' = None
    BY <1>3, ReceiptStands DEF SettledInv, Next, Execute, EncodeThrows, Reject, RejectAborted,
       SpawnThrows, Spawn, TimerFires, Abort, Reads, Data, SpawnError, Close, CloseAfterError,
       HandlerResumes, Child, ChildWrites, ChildEnds, PipesClose, vars
  <2>q. QED
    BY <1>3, <2>1 DEF SuccessInv
<1>q. QED
  BY <1>1, <1>2, <1>3

\* The invariant holds from the start and in every step.
LEMMA CallCorrect == Spec => []StepInv
<1>1. Init => StepInv
  <2> SUFFICES ASSUME Init PROVE StepInv
    OBVIOUS
  <2>1. TypeOK
    BY TypeInit
  <2>2. CalledInv
    BY DEF Init, CalledInv
  <2>3. RunningInv
    BY DEF Init, RunningInv
  <2>4. SettledInv
    BY DEF Init, SettledInv
  <2>5. KeptInv
    BY LimitsAssumption DEF Init, KeptInv, Streams
  <2>6. SuccessInv
    BY DEF Init, SuccessInv
  <2>q. QED
    BY <2>1, <2>2, <2>3, <2>4, <2>5, <2>6 DEF StepInv, CallInv
<1>2. StepInv /\ [Next]_vars => StepInv'
  <2> SUFFICES ASSUME StepInv, [Next]_vars PROVE StepInv'
    OBVIOUS
  <2>1. TypeOK' /\ CalledInv'
    BY TypeStep, CalledStep DEF StepInv, CallInv
  <2>q. QED
    BY <2>1, RunningStep, SettledStep, KeptStep, SuccessStep DEF StepInv, CallInv
<1>q. QED
  BY <1>1, <1>2, PTL DEF Spec

----------------------------------------------------------------------------
\* The types of the variables of CliExecutor.
THEOREM TypesHold == Spec => []TypeOK
  BY CallCorrect, PTL DEF StepInv

\* However exit, output, timeout, abort and limits race: a call that succeeded
\* is of a child that exited with 0 by itself, and its receipt has everything
\* the child wrote (cli-executor.ts:97-130, cli-harness.ts:83).
THEOREM SuccessesAreWhole == Spec => []SuccessIsWhole
<1>1. StepInv => SuccessIsWhole
  BY DEF StepInv, CallInv, SettledInv, SuccessInv, SuccessIsWhole
<1>q. QED
  BY <1>1, CallCorrect, PTL

\* What is collected never passes the profile's limit (cli-executor.ts:97-105).
THEOREM OutputIsBounded == Spec => []StdoutIsBounded
<1>1. StepInv => StdoutIsBounded
  BY DEF StepInv, CallInv, KeptInv, StdoutIsBounded
<1>q. QED
  BY <1>1, CallCorrect, PTL

\* A call that its timeout or its caller stopped is not reported as exited,
\* even when the child had ended before (cli-executor.ts:87-95, 122-126).
THEOREM StopsAreReported == Spec => StoppedIsNotExited
<1>1. StepInv /\ [Next]_vars =>
        (receipt = None /\ receipt' # None /\ (aborted \/ (phase = "running" /\ ~timer))
           => receipt'.termination # "exited")
  <2> SUFFICES ASSUME StepInv, [Next]_vars, receipt = None, receipt' # None,
                      aborted \/ (phase = "running" /\ ~timer)
               PROVE  receipt'.termination # "exited"
    OBVIOUS
  <2>1. phase = "running" => forced # "none"
    BY DEF StepInv, CallInv, RunningInv
  <2>q. QED
    BY <2>1, ReceiptGiven DEF Termination, StepInv, TypeOK, Stops
<1>q. QED
  BY <1>1, CallCorrect, PTL DEF Spec, StoppedIsNotExited

\* The first cause stands, and so does a receipt (cli-executor.ts:80-92).
THEOREM FirstCauseIsKept == Spec => FirstCauseStands
<1>1. StepInv /\ [Next]_vars => (forced # "none" => forced' = forced)
  BY DEF Next, Execute, EncodeThrows, Reject, RejectAborted, SpawnThrows, Spawn, TimerFires, Abort,
     Reads, Data, Stop, SpawnError, Close, CloseAfterError, HandlerResumes, Child, ChildWrites,
     ChildEnds, PipesClose, vars
<1>2. StepInv /\ [Next]_vars =>
        (forced # "none" => forced' = forced) /\ (receipt # None => receipt' = receipt)
  BY <1>1, ReceiptStands
<1>q. QED
  BY <1>2, CallCorrect, PTL DEF Spec, FirstCauseStands

----------------------------------------------------------------------------
\* Either executor

\* CliExecutor settles only when no child has come to be or it has ended.
RegisteredInv ==
  /\ StepInv
  /\ phase \in {"settled", "done"} => child \notin {"starting", "running"}

NodeTypes ==
  /\ phase \in {"called", "running", "settled", "done", "crashed"}
  /\ child \in {"none", "starting", "running", "ended", "failed"}
  /\ exit \in Exits \cup {None} /\ (child = "ended" <=> exit # None)
  /\ written \in [Streams -> 0..MaxWritten] /\ read \in [Streams -> 0..MaxWritten]

\* How far the call is.
NodePhases ==
  /\ forced = "none"
  /\ phase = "called" => receipt = None /\ child = "none" /\ ~listening /\ ~timer /\ ~pipesHeld
  /\ phase = "running" => receipt = None /\ timer
  /\ phase = "settled" => receipt # None
  /\ phase = "done" /\ receipt = None => child = "none" /\ ~listening /\ ~timer /\ ~pipesHeld
  /\ result # None => phase \in {"done", "crashed"} /\ receipt # None

\* A call that is over has no child that nobody has killed.
NodeKills == phase \in {"settled", "done"} /\ child = "running" => killed

\* A receipt of a success is one of a child that is gone with all it wrote.
NodeSuccess ==
  /\ receipt # None /\ Succeeds =>
       /\ child = "ended" /\ ~pipesHeld /\ read = written
       /\ exit = [code |-> 0, signal |-> FALSE] /\ receipt.stdout = written["stdout"]
  /\ result # None /\ result.transport = "succeeded" => Succeeds

NodeInv == NodeTypes /\ NodePhases /\ NodeKills /\ NodeSuccess

EitherInv ==
  /\ executor \in {"registered", "node"}
  /\ executor = "registered" => RegisteredInv
  /\ executor = "node" => NodeInv

----------------------------------------------------------------------------
\* CliExecutor

LEMMA RegisteredStep == RegisteredInv /\ [Next]_vars => RegisteredInv'
<1> SUFFICES ASSUME RegisteredInv, [Next]_vars PROVE RegisteredInv'
  OBVIOUS
<1>1. StepInv'
  <2>1. TypeOK' /\ CalledInv'
    BY TypeStep, CalledStep DEF RegisteredInv, StepInv, CallInv
  <2>q. QED
    BY <2>1, RunningStep, SettledStep, KeptStep, SuccessStep DEF RegisteredInv, StepInv, CallInv
<1>2. phase' \in {"settled", "done"} => child' \notin {"starting", "running"}
  <2> SUFFICES ASSUME phase' \in {"settled", "done"}, child' \in {"starting", "running"}
               PROVE  FALSE
    OBVIOUS
  <2>1. TypeOK /\ CalledInv /\ SettledInv
    BY DEF RegisteredInv, StepInv, CallInv
  <2>2. CASE phase \in {"settled", "done"}
    BY <2>1, <2>2
    DEF RegisteredInv, Next, Execute, EncodeThrows, Reject, RejectAborted, SpawnThrows, Spawn,
        TimerFires, Abort, Reads, Data, SpawnError, Close, CloseAfterError, HandlerResumes,
        Child, ChildWrites, ChildEnds, PipesClose, vars, process
  <2>3. CASE phase = "called"
    BY <2>1, <2>3
    DEF CalledInv, Next, Execute, EncodeThrows, Reject, RejectAborted, SpawnThrows, Spawn,
        TimerFires, Abort, Reads, Data, SpawnError, Close, Closes, CloseAfterError,
        HandlerResumes, Child, ChildWrites, ChildEnds, PipesClose, vars, process
  <2>4. CASE phase = "running"
    BY <2>1, <2>4
    DEF Next, Execute, EncodeThrows, Reject, RejectAborted, SpawnThrows, Spawn,
        TimerFires, Abort, Reads, Data, SpawnError, Close, Closes, CloseAfterError,
        HandlerResumes, Child, ChildWrites, ChildEnds, PipesClose, vars, process
  <2>q. QED
    BY <2>1, <2>2, <2>3, <2>4 DEF TypeOK
<1>q. QED
  BY <1>1, <1>2 DEF RegisteredInv

----------------------------------------------------------------------------
\* NodeCliExecutor

\* A report is a receipt.
LEMMA Reports ==
  ASSUME NodeTypes, NEW t \in Terminations, NEW code \in {0, 1, None}
  PROVE  /\ Report(t, code) # None /\ Rejected(t) # None
         /\ Report(t, code).termination = t /\ Rejected(t).termination = t
         /\ Report(t, code).exitCode = code /\ Report(t, code).stdout = read["stdout"]
<1>1. read["stdout"] \in Nat
  BY LimitsAssumption DEF NodeTypes, Streams
<1>2. Report(t, code) \in Receipts /\ Rejected(t) \in Receipts
  BY <1>1 DEF Report, Rejected, Receipts
<1>q. QED
  BY <1>2, NoneAssumption DEF Report, Rejected

\* finish, with a receipt of no success.
LEMMA FinishKeeps ==
  ASSUME NodeInv, NEW r, r # None, r.termination # "exited", Finish(r),
         UNCHANGED <<forced, exit, pipesHeld, written, read, result>>,
         phase # "called", child' = child \/ (child' = "failed" /\ child = "starting"),
         child = "running" => killed', listening' = listening
  PROVE  NodeInv'
<1> USE DEF NodeInv
<1>1. NodeTypes'
  BY DEF NodeTypes, Finish
<1>2. NodePhases'
  BY DEF NodeTypes, NodePhases, Finish
<1>3. NodeKills'
  BY DEF NodeKills, NodeTypes
<1>4. NodeSuccess'
  BY DEF NodeSuccess, Finish, Succeeds, NodeTypes, NodePhases
<1>q. QED
  BY <1>1, <1>2, <1>3, <1>4

LEMMA NodeStep == NodeInv /\ phase # "crashed" /\ NodeNext => NodeInv'
<1> SUFFICES ASSUME NodeInv, phase # "crashed", NodeNext PROVE NodeInv'
  OBVIOUS
<1> USE DEF NodeInv
<1>0. /\ \A t \in Terminations : Rejected(t) # None /\ Rejected(t).termination = t
      /\ "timeout" \in Terminations /\ "cancelled" \in Terminations
      /\ "spawn-failed" \in Terminations /\ "exited" \in Terminations
      /\ "signalled" \in Terminations
  BY Reports DEF Terminations, Stops
<1>1. CASE NodeExecute
  <2>1. /\ phase = "called" /\ receipt = None /\ child = "none" /\ ~listening /\ ~timer
        /\ ~pipesHeld /\ result = None
    BY <1>1 DEF NodeExecute, EncodeThrows, NodeSpawnThrows, NodeSpawn, NodePhases
  <2>2. CASE EncodeThrows /\ UNCHANGED killed
    BY <2>1, <2>2
    DEF EncodeThrows, NodeTypes, NodePhases, NodeKills, NodeSuccess, process, collected, listeners
  <2>3. CASE NodeSpawnThrows
    <3>1. receipt' # None /\ receipt'.termination # "exited"
      BY <1>0, <2>3 DEF NodeSpawnThrows
    <3>q. QED
      BY <2>1, <2>3, <3>1
      DEF NodeSpawnThrows, NodeTypes, NodePhases, NodeKills, NodeSuccess, Succeeds, process,
          collected, listeners
  <2>4. CASE NodeSpawn
    BY <2>1, <2>4
    DEF NodeSpawn, NodeTypes, NodePhases, NodeKills, NodeSuccess, collected
  <2>q. QED
    BY <1>1, <2>2, <2>3, <2>4 DEF NodeExecute
<1>2. CASE NodeTimerFires
  <2>1. phase # "called"
    BY <1>2 DEF NodeTimerFires, NodePhases
  <2>2. Report("timeout", None) # None /\ Report("timeout", None).termination # "exited"
    BY <1>0, Reports
  <2>q. QED
    BY <1>2, <2>1, <2>2, FinishKeeps DEF NodeTimerFires, Kill, process, collected
<1>3. CASE NodeAbort
  <2>1. CASE listening
    <3>1. phase # "called"
      BY <2>1 DEF NodePhases
    <3>2. Report("cancelled", None) # None /\ Report("cancelled", None).termination # "exited"
      BY <1>0, Reports
    <3>q. QED
      BY <1>3, <2>1, <3>1, <3>2, FinishKeeps DEF NodeAbort, Kill, process, collected
  <2>2. CASE ~listening
    BY <1>3, <2>2
    DEF NodeAbort, NodeTypes, NodePhases, NodeKills, NodeSuccess, Succeeds, process, collected
  <2>q. QED
    BY <2>1, <2>2
<1>4. CASE NodeReads
  <2> PICK s \in Streams, n \in 1..MaxWritten : NodeData(s, n)
    BY <1>4 DEF NodeReads
  <2>1. read' \in [Streams -> 0..MaxWritten]
    <3>1. read[s] \in Nat /\ n \in Nat /\ written[s] \in 0..MaxWritten
      BY LimitsAssumption DEF NodeTypes
    <3>2. read[s] + n \in 0..MaxWritten
      BY <3>1, LimitsAssumption DEF NodeData
    <3>q. QED
      BY <3>2 DEF NodeData, NodeTypes
  <2>2. ~(receipt # None /\ Succeeds)
    <3>1. read[s] \in Nat /\ n \in Nat /\ n > 0 /\ read[s] + n <= written[s]
      BY LimitsAssumption DEF NodeTypes, NodeData
    <3>q. QED
      BY <3>1 DEF NodeSuccess
  <2>q. QED
    BY <2>1, <2>2
    DEF NodeData, NodeTypes, NodePhases, NodeKills, NodeSuccess, Succeeds, process, listeners
<1>5. CASE NodeSpawnError
  <2>1. phase # "called" /\ child = "starting"
    BY <1>5 DEF NodeSpawnError, NodePhases
  <2>2. /\ Report("spawn-failed", None) # None
        /\ Report("spawn-failed", None).termination # "exited"
    BY <1>0, Reports
  <2>q. QED
    BY <1>5, <2>1, <2>2, FinishKeeps DEF NodeSpawnError, collected
<1>6. CASE NodeClose
  <2> DEFINE t == IF exit.signal THEN "signalled" ELSE "exited"
             r == Report(t, exit.code)
  <2>1. /\ child = "ended" /\ ~pipesHeld /\ read = written /\ exit \in Exits
        /\ exit.code \in {0, 1, None} /\ exit.signal \in BOOLEAN
    BY <1>6 DEF NodeClose, Closes, NodeTypes, Exits
  <2>2. /\ r # None /\ r.termination = t /\ r.exitCode = exit.code
        /\ r.stdout = written["stdout"]
    BY <1>0, <2>1, Reports
  <2>3. /\ Finish(r)
        /\ UNCHANGED <<listening, forced, child, exit, pipesHeld, written, read, result, killed>>
    BY <1>6 DEF NodeClose, process, collected
  <2>4. r.termination = "exited" /\ r.exitCode = 0 => exit = [code |-> 0, signal |-> FALSE]
    BY <2>1, <2>2 DEF Exits
  <2> HIDE DEF r
  <2>5. NodeTypes' /\ NodePhases' /\ NodeKills'
    BY <2>1, <2>2, <2>3 DEF NodeTypes, NodePhases, NodeKills, Finish
  <2>6. NodeSuccess'
    <3>1. CASE receipt # None
      BY <2>3, <3>1 DEF Finish, NodeSuccess, Succeeds
    <3>2. CASE receipt = None
      <4>1. receipt' = r /\ result' = None
        BY <2>3, <3>2 DEF Finish, NodePhases
      <4>q. QED
        BY <2>1, <2>2, <2>3, <2>4, <4>1 DEF NodeSuccess, Succeeds
    <3>q. QED
      BY <3>1, <3>2
  <2>q. QED
    BY <2>5, <2>6
<1>7. CASE StdinBreaks
  BY <1>7
  DEF StdinBreaks, NodeTypes, NodePhases, NodeKills, NodeSuccess, Succeeds, process, collected,
      listeners
<1>8. CASE HandlerResumes /\ UNCHANGED killed
  <2>1. receipt # None
    BY <1>8 DEF HandlerResumes, NodePhases
  <2>2. result' # None /\ result'.transport = "succeeded" => Succeeds
    BY <1>8 DEF HandlerResumes
  <2>q. QED
    BY <1>8, <2>1, <2>2
    DEF HandlerResumes, NodeTypes, NodePhases, NodeKills, NodeSuccess, Succeeds, process,
        collected, listeners
<1>9. CASE Child /\ UNCHANGED killed
  <2>1. CASE \E s \in Streams : ChildWrites(s)
    <3> PICK s \in Streams : ChildWrites(s)
      BY <2>1
    <3>1. written' \in [Streams -> 0..MaxWritten]
      BY LimitsAssumption DEF ChildWrites, NodeTypes
    <3>q. QED
      BY <1>9, <3>1
      DEF ChildWrites, NodeTypes, NodePhases, NodeKills, NodeSuccess, Succeeds, collected,
          listeners
  <2>2. CASE \E e \in Exits : ChildEnds(e)
    BY <1>9, <2>2, NoneAssumption
    DEF ChildEnds, NodeTypes, NodePhases, NodeKills, NodeSuccess, Succeeds, collected, listeners
  <2>3. CASE PipesClose
    BY <1>9, <2>3
    DEF PipesClose, NodeTypes, NodePhases, NodeKills, NodeSuccess, Succeeds, collected, listeners
  <2>q. QED
    BY <1>9, <2>1, <2>2, <2>3 DEF Child
<1>q. QED
  BY <1>1, <1>2, <1>3, <1>4, <1>5, <1>6, <1>7, <1>8, <1>9 DEF NodeNext

----------------------------------------------------------------------------
\* The theorems

LEMMA CallBegins == CallInit => EitherInv
<1> SUFFICES ASSUME CallInit PROVE EitherInv
  OBVIOUS
<1>1. Init
  BY DEF CallInit
<1>2. StepInv
  <2>1. TypeOK
    BY <1>1, TypeInit
  <2>2. CalledInv /\ RunningInv /\ SettledInv /\ SuccessInv
    BY <1>1 DEF Init, CalledInv, RunningInv, SettledInv, SuccessInv
  <2>3. KeptInv
    BY <1>1, LimitsAssumption DEF Init, KeptInv, Streams
  <2>q. QED
    BY <2>1, <2>2, <2>3 DEF StepInv, CallInv
<1>3. RegisteredInv
  BY <1>1, <1>2 DEF Init, RegisteredInv
<1>4. NodeInv
  BY <1>1, <1>2 DEF Init, StepInv, TypeOK, NodeInv, NodeTypes, NodePhases, NodeKills, NodeSuccess
<1>q. QED
  BY <1>3, <1>4 DEF CallInit, EitherInv

\* A step of the one executor or of the other.
LEMMA StepOfEither ==
  ASSUME EitherInv, [CallNext]_callVars
  PROVE  \/ executor = "registered" /\ executor' = "registered" /\ [Next]_vars
         \/ executor = "node" /\ executor' = "node" /\ phase # "crashed" /\ NodeNext
         \/ UNCHANGED callVars
BY DEF CallNext, Registered, ByNode

LEMMA EitherStep == EitherInv /\ [CallNext]_callVars => EitherInv'
<1> SUFFICES ASSUME EitherInv, [CallNext]_callVars PROVE EitherInv'
  OBVIOUS
<1>1. CASE executor = "registered" /\ executor' = "registered" /\ [Next]_vars
  BY <1>1, RegisteredStep DEF EitherInv
<1>2. CASE executor = "node" /\ executor' = "node" /\ phase # "crashed" /\ NodeNext
  BY <1>2, NodeStep DEF EitherInv
<1>3. CASE UNCHANGED callVars
  <2>1. UNCHANGED vars /\ UNCHANGED <<executor, killed>>
    BY <1>3 DEF callVars
  <2>2. RegisteredInv => RegisteredInv'
    BY <2>1, RegisteredStep
  <2>3. NodeInv => NodeInv'
    BY <2>1
    DEF vars, listeners, process, collected, NodeInv, NodeTypes, NodePhases, NodeKills,
        NodeSuccess, Succeeds
  <2>q. QED
    BY <2>1, <2>2, <2>3 DEF EitherInv
<1>q. QED
  BY <1>1, <1>2, <1>3, StepOfEither

\* The invariant of a call, by whichever executor it is served.
LEMMA EitherHolds == CallSpec => []EitherInv
<1>1. CallInit => EitherInv
  BY CallBegins
<1>2. EitherInv /\ [CallNext]_callVars => EitherInv'
  BY EitherStep
<1>q. QED
  BY <1>1, <1>2, PTL DEF CallSpec

\* Whichever executor serves it, a call that succeeded has a child that exited
\* with 0 by itself, and all of its output.
THEOREM SuccessesOfBothAreWhole == CallSpec => []SuccessIsWhole
<1>1. EitherInv => SuccessIsWhole
  <2>1. RegisteredInv => SuccessIsWhole
    BY DEF RegisteredInv, StepInv, CallInv, SettledInv, SuccessInv, SuccessIsWhole
  <2>2. NodeInv => SuccessIsWhole
    BY DEF NodeInv, NodePhases, NodeSuccess, SuccessIsWhole
  <2>q. QED
    BY <2>1, <2>2 DEF EitherInv
<1>q. QED
  BY <1>1, EitherHolds, PTL

\* A call that is over has left no tool at work: CliExecutor waits for the child
\* to end, NodeCliExecutor has killed it.
THEOREM NoToolIsLeft == CallSpec => []NoToolIsLeftAtWork
<1>1. EitherInv => NoToolIsLeftAtWork
  BY DEF EitherInv, RegisteredInv, NodeInv, NodeKills, NoToolIsLeftAtWork
<1>q. QED
  BY <1>1, EitherHolds, PTL

\* A receipt that settles after the timeout, or of a registered tool after the
\* caller's abort, does not say that the tool exited by itself.
THEOREM StopsOfBothAreReported == CallSpec => StoppedCallsSaySo
<1>1. EitherInv /\ [CallNext]_callVars =>
        (receipt = None /\ receipt' # None
           /\ ((executor = "registered" /\ aborted) \/ (phase = "running" /\ ~timer))
         => receipt'.termination # "exited")
  <2> SUFFICES ASSUME EitherInv, [CallNext]_callVars, receipt = None, receipt' # None,
                      (executor = "registered" /\ aborted) \/ (phase = "running" /\ ~timer)
               PROVE  receipt'.termination # "exited"
    OBVIOUS
  <2>1. CASE executor = "registered" /\ [Next]_vars
    <3>1. StepInv
      BY <2>1 DEF EitherInv, RegisteredInv
    <3>2. phase = "running" => forced # "none"
      BY <3>1 DEF StepInv, CallInv, RunningInv
    <3>q. QED
      BY <2>1, <3>1, <3>2, ReceiptGiven DEF Termination, StepInv, TypeOK, Stops
  <2>2. CASE executor = "node"
    BY <2>2 DEF EitherInv, NodeInv, NodePhases
  <2>3. ~UNCHANGED callVars
    BY DEF callVars, vars
  <2>q. QED
    BY <2>1, <2>2, <2>3, StepOfEither
<1>q. QED
  BY <1>1, EitherHolds, PTL DEF CallSpec, StoppedCallsSaySo

\* The first cause stands, and so does the receipt that is given first, by
\* whichever of a child's end, a timer, an abort and an error.
THEOREM FirstCauseOfBothIsKept == CallSpec => FirstCauseStands
<1>1. EitherInv /\ [CallNext]_callVars =>
        (forced # "none" => forced' = forced) /\ (receipt # None => receipt' = receipt)
  <2> SUFFICES ASSUME EitherInv, [CallNext]_callVars
               PROVE  (forced # "none" => forced' = forced) /\ (receipt # None => receipt' = receipt)
    OBVIOUS
  <2>1. CASE executor = "registered" /\ [Next]_vars
    <3>1. StepInv
      BY <2>1 DEF EitherInv, RegisteredInv
    <3>2. forced # "none" => forced' = forced
      BY <2>1
      DEF Next, Execute, EncodeThrows, Reject, RejectAborted, SpawnThrows, Spawn, TimerFires,
          Abort, Reads, Data, Stop, SpawnError, Close, CloseAfterError, HandlerResumes, Child,
          ChildWrites, ChildEnds, PipesClose, vars
    <3>q. QED
      BY <2>1, <3>1, <3>2, ReceiptStands
  <2>2. CASE executor = "node" /\ NodeNext
    <3>1. forced = "none" /\ (receipt # None => phase # "called")
      BY <2>2 DEF EitherInv, NodeInv, NodePhases
    <3>q. QED
      BY <2>2, <3>1
      DEF NodeNext, NodeExecute, EncodeThrows, NodeSpawnThrows, NodeSpawn, NodeTimerFires,
          NodeAbort, NodeReads, NodeData, NodeSpawnError, NodeClose, StdinBreaks, Finish,
          HandlerResumes, Child, ChildWrites, ChildEnds, PipesClose
  <2>3. CASE UNCHANGED callVars
    BY <2>3 DEF callVars, vars
  <2>q. QED
    BY <2>1, <2>2, <2>3, StepOfEither
<1>2. EitherInv /\ [CallNext]_callVars =>
        [(forced # "none" => forced' = forced) /\ (receipt # None => receipt' = receipt)]_vars
  BY <1>1
<1>q. QED
  BY <1>2, EitherHolds, PTL DEF CallSpec, FirstCauseStands
=============================================================================

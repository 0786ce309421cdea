------------------------------ MODULE CliExecutor ------------------------------
(***************************************************************************)
(* One capability call through a command line tool: the handler of         *)
(* packages/plugin-sdk/src/cli-harness.ts and the executor of              *)
(* apps/playground/server/cli-executor.ts, which spawns a registered       *)
(* command, feeds it stdin, collects its output and settles one receipt.   *)
(*                                                                         *)
(* The timer, the caller's abort signal, the two output limits and the     *)
(* child itself all try to end the call, in any order.  The operating      *)
(* system and the child are external: the child may ignore SIGTERM, and a  *)
(* process it leaves behind may keep its pipes open.                       *)
(*                                                                         *)
(* Output is counted in units; what it says, the request's encoding and    *)
(* the provenance of the answer are left out.                              *)
(***************************************************************************)
EXTENDS Integers

CONSTANTS
  MaxStdoutBytes, MaxStderrBytes,   \* the profile's limits
  MaxWritten,                       \* bound of the model: units a child writes to a stream
  None

ASSUME LimitsAssumption ==
  MaxStdoutBytes \in Nat \ {0} /\ MaxStderrBytes \in Nat \ {0} /\ MaxWritten \in Nat

VARIABLES
  phase,     \* "called" before execute, "running" until its promise settles, "settled", "done"
  aborted,   \* request.signal.aborted
  listening, \* is cancel a listener of request.signal?
  timer,     \* is the timeout armed?
  forced,    \* forcedTermination, "none" while it is undefined
  child,     \* "none", "starting", "running", "ended", "failed" (no process came to be), "gone"
  exit,      \* how the child ended: [code, signal], None before
  sigterm,   \* has the child been sent SIGTERM?
  pipesHeld, \* does something else keep the child's pipes open?
  written,   \* units the child has written to each stream
  read,      \* stdoutBytes and stderrBytes
  kept,      \* units in stdoutChunks
  receipt,   \* what execute resolved with, None before
  result     \* what the handler returned, None before

listeners == <<listening, timer>>
process == <<child, exit, pipesHeld, written>>
collected == <<read, kept>>
vars == <<phase, aborted, listeners, forced, process, sigterm, collected, receipt, result>>

Streams == {"stdout", "stderr"}
Stops == {"timeout", "cancelled", "output-limit"}
Terminations == Stops \cup {"exited", "signalled", "spawn-failed"}
Exits == [code : {0, 1, None}, signal : BOOLEAN]
Receipts == [termination : Terminations, exitCode : {0, 1, None}, stdout : Nat]
Results == [transport : {"succeeded", "failed"}, output : {"accepted", "invalid"}]

ASSUME NoneAssumption == None \notin Exits \cup Receipts \cup Results \cup {0, 1}

----------------------------------------------------------------------------
Init ==
  /\ phase = "called" /\ aborted \in BOOLEAN
  /\ listening = FALSE /\ timer = FALSE /\ forced = "none"
  /\ child = "none" /\ exit = None /\ sigterm = FALSE /\ pipesHeld = FALSE
  /\ written = [s \in Streams |-> 0] /\ read = [s \in Streams |-> 0] /\ kept = 0
  /\ receipt = None /\ result = None

\* settle: the first receipt stands; the timer and the listener are taken away.
Settle(r) ==
  IF receipt # None THEN UNCHANGED <<receipt, phase, listeners>>
  ELSE /\ receipt' = r /\ phase' = "settled"
       /\ timer' = FALSE /\ listening' = FALSE

\* stop: the first cause stands, and only it sends SIGTERM.
StopByLast(termination) ==   \* mutant: a later cause replaces it
  forced' = termination /\ sigterm' = (sigterm \/ child = "running")
StopRunning(termination) ==  \* mutant: a child that has ended is not stopped
  IF forced # "none" \/ child # "running" THEN UNCHANGED <<forced, sigterm>>
  ELSE forced' = termination /\ sigterm' = TRUE
Stop(termination) ==
  IF forced # "none" THEN UNCHANGED <<forced, sigterm>>
  ELSE forced' = termination /\ sigterm' = (child = "running")

Rejected(termination) == [termination |-> termination, exitCode |-> None, stdout |-> 0]

----------------------------------------------------------------------------
\* execute

\* Encoding the request throws, and so does the handler.
EncodeThrows ==
  /\ phase = "called" /\ phase' = "done"
  /\ UNCHANGED <<aborted, listeners, forced, process, sigterm, collected, receipt, result>>

\* No such command, other arguments, too long a timeout or too much input.
Reject ==
  /\ phase = "called" /\ phase' = "settled"
  /\ receipt' = Rejected("spawn-failed")
  /\ UNCHANGED <<aborted, listeners, forced, process, sigterm, collected, result>>

RejectAborted ==
  /\ phase = "called" /\ aborted /\ phase' = "settled"
  /\ receipt' = Rejected("cancelled")
  /\ UNCHANGED <<aborted, listeners, forced, process, sigterm, collected, result>>

\* spawn throws at once, and with it execute; the handler makes a receipt of it.
SpawnThrows ==
  /\ phase = "called" /\ ~aborted /\ phase' = "settled"
  /\ receipt' = Rejected("spawn-failed")
  /\ UNCHANGED <<aborted, listeners, forced, process, sigterm, collected, result>>

Spawn ==
  /\ phase = "called" /\ ~aborted /\ phase' = "running"
  /\ child' \in {"starting", "running"}   \* a spawn that failed reports it later
  /\ timer' = TRUE /\ listening' = TRUE
  /\ UNCHANGED <<aborted, forced, exit, sigterm, pipesHeld, written, collected, receipt, result>>

----------------------------------------------------------------------------
\* The callbacks of executeRegisteredCommand

TimerFires ==
  /\ timer /\ timer' = FALSE
  /\ Stop("timeout")
  /\ UNCHANGED <<phase, aborted, listening, process, collected, receipt, result>>

\* The caller aborts; { once: true } takes the listener away.
Abort ==
  /\ ~aborted /\ aborted' = TRUE /\ listening' = FALSE
  /\ IF listening THEN Stop("cancelled") ELSE UNCHANGED <<forced, sigterm>>
  /\ UNCHANGED <<phase, timer, process, collected, receipt, result>>

\* A chunk of n units arrives: it is kept unless it passes the limit.
Fits(n) == read["stdout"] + n <= MaxStdoutBytes

Data(s, n) ==
  /\ child \in {"running", "ended"} /\ read[s] + n <= written[s]
  /\ read' = [read EXCEPT ![s] = @ + n]
  /\ kept' = IF s = "stdout" /\ Fits(n) THEN kept + n ELSE kept
  /\ IF IF s = "stdout" THEN Fits(n) ELSE read[s] + n <= MaxStderrBytes
     THEN UNCHANGED <<forced, sigterm>> ELSE Stop("output-limit")
  /\ UNCHANGED <<phase, aborted, listeners, process, receipt, result>>

\* "error": no process came to be.
SpawnError ==
  /\ child = "starting" /\ child' = "failed"
  /\ Settle([termination |-> "spawn-failed", exitCode |-> None, stdout |-> kept])
  /\ UNCHANGED <<aborted, forced, exit, pipesHeld, written, sigterm, collected, result>>

\* The termination of a child that ended.
Termination ==
  IF forced # "none" THEN forced ELSE IF exit.signal THEN "signalled" ELSE "exited"

\* "close": the child has ended and its streams are read to the end.  After an
\* "error" it may come too.  The mutant settles on "exit", before the streams end.
Exited == child = "ended"
Closes == child = "ended" /\ ~pipesHeld /\ read = written

Close ==
  /\ Closes
  /\ Settle([termination |-> Termination, exitCode |-> exit.code, stdout |-> kept])
  /\ UNCHANGED <<aborted, forced, process, sigterm, collected, result>>

CloseAfterError ==
  /\ child = "failed" /\ child' = "gone"
  /\ Settle([termination |-> IF forced # "none" THEN forced ELSE "exited",
             exitCode |-> None, stdout |-> kept])
  /\ UNCHANGED <<aborted, forced, exit, pipesHeld, written, sigterm, collected, result>>

\* The handler goes on: what it makes of the receipt.  Decoding may throw.
Succeeds == receipt.termination = "exited" /\ receipt.exitCode = 0

HandlerResumes ==
  /\ phase = "settled" /\ phase' = "done"
  /\ result' \in IF Succeeds
                 THEN [transport : {"succeeded"}, output : {"accepted", "invalid"}]
                 ELSE {[transport |-> "failed", output |-> "invalid"]}
  /\ UNCHANGED <<aborted, listeners, forced, process, sigterm, collected, receipt>>

----------------------------------------------------------------------------
\* The child, external

ChildWrites(s) ==
  /\ child = "running" \/ pipesHeld
  /\ written[s] < MaxWritten
  /\ written' = [written EXCEPT ![s] = @ + 1]
  /\ UNCHANGED <<phase, aborted, listeners, forced, child, exit, pipesHeld, sigterm,
                 collected, receipt, result>>

\* It exits, or dies of a signal, ours or another; it may leave its pipes to
\* a process of its own.
ChildEnds(e) ==
  /\ child = "running" /\ child' = "ended"
  /\ e.signal <=> e.code = None
  /\ exit' = e /\ pipesHeld' \in BOOLEAN
  /\ UNCHANGED <<phase, aborted, listeners, forced, written, sigterm, collected, receipt, result>>

PipesClose ==
  /\ pipesHeld /\ pipesHeld' = FALSE
  /\ UNCHANGED <<phase, aborted, listeners, forced, child, exit, written, sigterm,
                 collected, receipt, result>>

----------------------------------------------------------------------------
Execute == EncodeThrows \/ Reject \/ RejectAborted \/ SpawnThrows \/ Spawn

Reads == \E s \in Streams, n \in 1..MaxWritten : Data(s, n)

Child == (\E s \in Streams : ChildWrites(s)) \/ (\E e \in Exits : ChildEnds(e)) \/ PipesClose

Next == \/ Execute \/ TimerFires \/ Abort \/ Reads \/ SpawnError \/ Close
        \/ CloseAfterError \/ HandlerResumes \/ Child

\* The event loop delivers what is due; nothing is asked of the child.
Fairness ==
  /\ WF_vars(Execute) /\ WF_vars(TimerFires) /\ WF_vars(Reads) /\ WF_vars(SpawnError)
  /\ WF_vars(Close) /\ WF_vars(HandlerResumes)

Spec == Init /\ [][Next]_vars /\ Fairness

----------------------------------------------------------------------------
TypeOK ==
  /\ phase \in {"called", "running", "settled", "done"}
  /\ {aborted, listening, timer, sigterm, pipesHeld} \subseteq BOOLEAN
  /\ forced \in Stops \cup {"none"}
  /\ child \in {"none", "starting", "running", "ended", "failed", "gone"}
  /\ exit \in Exits \cup {None} /\ (child = "ended" <=> exit # None)
  /\ written \in [Streams -> 0..MaxWritten] /\ read \in [Streams -> 0..MaxWritten]
  /\ \A s \in Streams : read[s] <= written[s]
  /\ kept \in 0..read["stdout"]
  /\ receipt \in Receipts \cup {None} /\ result \in Results \cup {None}

\* A call that succeeded is one whose child exited with 0 by itself, and its
\* receipt has everything the child wrote: nothing was dropped at a limit or
\* was still in the pipe (cli-executor.ts:97-130, cli-harness.ts:83).
SuccessIsWhole ==
  result # None /\ result.transport = "succeeded" =>
    /\ exit = [code |-> 0, signal |-> FALSE] /\ forced = "none"
    /\ receipt.stdout = written["stdout"]

\* What is collected stays within the profile's limit, however the output is
\* cut into chunks and however long the child goes on after SIGTERM.
StdoutIsBounded == kept <= MaxStdoutBytes

\* A receipt that settles after the caller's abort or after the timeout does
\* not say that the tool exited by itself, even if the child had ended before.
StoppedIsNotExited ==
  [][receipt = None /\ receipt' # None /\ (aborted \/ (phase = "running" /\ ~timer))
       => receipt'.termination # "exited"]_vars

\* The first cause to stop the call is the one reported, and a receipt stands.
FirstCauseStands ==
  [][/\ forced # "none" => forced' = forced
     /\ receipt # None => receipt' = receipt]_vars

\* The call ends, unless it has been stopped and the child, or what the child
\* left behind, keeps its streams open: nothing but SIGTERM is ever sent.
EndsUnlessChildStays ==
  <>(phase = "done") \/ <>[](forced # "none" /\ (child = "running" \/ pipesHeld))
=============================================================================

---------------------------- MODULE NodeCliExecutor ----------------------------
(***************************************************************************)
(* The other executor of command line tools, plugins/ibd/src/executor.ts,  *)
(* behind the same handler: a call is served by one or by the other.       *)
(*                                                                         *)
(* It kills the child and settles at once, where CliExecutor sends SIGTERM *)
(* and waits for the streams to close.  It keeps all output, looks at the  *)
(* signal only through its listener, and listens to no error of stdin: a   *)
(* child that ends with its input unread may bring the process down.       *)
(*                                                                         *)
(* The variables are CliExecutor's; forced, sigterm and kept are not used. *)
(***************************************************************************)
EXTENDS CliExecutor

VARIABLES
  executor,  \* "registered" (CliExecutor) or "node"
  killed     \* has the child been sent SIGKILL?

callVars == <<vars, executor, killed>>

----------------------------------------------------------------------------
\* finish: the first receipt stands; the abort listener is left where it is.
Finish(r) ==
  IF receipt # None THEN UNCHANGED <<receipt, phase, timer>>
  ELSE receipt' = r /\ phase' = "settled" /\ timer' = FALSE

KillNothing == UNCHANGED killed     \* mutant: it settles and lets the child run
Kill == killed' = (killed \/ child = "running")

Report(termination, code) ==
  [termination |-> termination, exitCode |-> code, stdout |-> read["stdout"]]

\* spawn throws, the promise rejects, and the handler makes a receipt of it.
NodeSpawnThrows ==
  /\ phase = "called" /\ phase' = "settled" /\ receipt' = Rejected("spawn-failed")
  /\ UNCHANGED <<aborted, listeners, forced, process, sigterm, collected, result, killed>>

\* A signal that has been aborted already does not stop it.
NodeSpawn ==
  /\ phase = "called" /\ phase' = "running"
  /\ child' \in {"starting", "running"} /\ timer' = TRUE /\ listening' = TRUE
  /\ UNCHANGED <<aborted, forced, exit, sigterm, pipesHeld, written, collected, receipt,
                 result, killed>>

NodeExecute == (EncodeThrows /\ UNCHANGED killed) \/ NodeSpawnThrows \/ NodeSpawn

NodeTimerFires ==
  /\ timer /\ Kill /\ Finish(Report("timeout", None))
  /\ UNCHANGED <<aborted, listening, forced, process, sigterm, collected, result>>

NodeAbort ==
  /\ ~aborted /\ aborted' = TRUE
  /\ IF listening THEN Kill /\ Finish(Report("cancelled", None))
                  ELSE UNCHANGED <<killed, receipt, phase, timer>>
  /\ UNCHANGED <<listening, forced, process, sigterm, collected, result>>

NodeData(s, n) ==
  /\ child \in {"running", "ended"} /\ read[s] + n <= written[s]
  /\ read' = [read EXCEPT ![s] = @ + n]
  /\ UNCHANGED <<phase, aborted, listeners, forced, process, sigterm, kept, receipt, result, killed>>

NodeReads == \E s \in Streams, n \in 1..MaxWritten : NodeData(s, n)

NodeSpawnError ==
  /\ child = "starting" /\ child' = "failed" /\ Finish(Report("spawn-failed", None))
  /\ UNCHANGED <<aborted, listening, forced, exit, pipesHeld, written, sigterm, collected,
                 result, killed>>

\* "close"
NodeClose ==
  /\ Closes
  /\ Finish(Report(IF exit.signal THEN "signalled" ELSE "exited", exit.code))
  /\ UNCHANGED <<aborted, listening, forced, process, sigterm, collected, result, killed>>

\* EPIPE on stdin is an "error" event that nobody handles.
StdinBreaks ==
  /\ child = "ended" /\ phase' = "crashed"
  /\ UNCHANGED <<aborted, listeners, forced, process, sigterm, collected, receipt, result, killed>>

----------------------------------------------------------------------------
CallInit == Init /\ executor \in {"registered", "node"} /\ killed = FALSE

Registered(A) == executor = "registered" /\ A /\ UNCHANGED <<executor, killed>>
ByNode(A) == executor = "node" /\ phase # "crashed" /\ A /\ UNCHANGED executor

NodeNext ==
  \/ NodeExecute \/ NodeTimerFires \/ NodeAbort \/ NodeReads \/ NodeSpawnError
  \/ NodeClose \/ StdinBreaks
  \/ (HandlerResumes \/ Child) /\ UNCHANGED killed

CallNext == Registered(Next) \/ ByNode(NodeNext)

\* As for CliExecutor: the event loop delivers what is due.
CallFairness ==
  /\ WF_callVars(Registered(Execute)) /\ WF_callVars(Registered(TimerFires))
  /\ WF_callVars(Registered(Reads)) /\ WF_callVars(Registered(SpawnError))
  /\ WF_callVars(Registered(Close)) /\ WF_callVars(Registered(HandlerResumes))
  /\ WF_callVars(ByNode(NodeExecute)) /\ WF_callVars(ByNode(NodeTimerFires))
  /\ WF_callVars(ByNode(HandlerResumes /\ UNCHANGED killed))

CallSpec == CallInit /\ [][CallNext]_callVars /\ CallFairness

----------------------------------------------------------------------------
\* When a call is over, so is its child, or it has been sent the signal that no
\* child survives: neither executor returns and leaves a tool at work
\* (ibd/src/executor.ts:41, cli-executor.ts:126).
NoToolIsLeftAtWork ==
  phase \in {"settled", "done"} /\ child = "running" => executor = "node" /\ killed

\* A registered tool's receipt that settles after the caller's abort or after the
\* timeout does not say that the tool exited by itself.  NodeCliExecutor does
\* say so of a call that was aborted before it began.
StoppedCallsSaySo ==
  [][receipt = None /\ receipt' # None
       /\ ((executor = "registered" /\ aborted) \/ (phase = "running" /\ ~timer))
     => receipt'.termination # "exited"]_callVars

\* A call ends: a registered one unless it has been stopped and the child, or what
\* it left behind, keeps its streams open; the other in any case, though it may
\* take the whole process with it.
CallsEnd ==
  \/ EndsUnlessChildStays
  \/ executor = "node" /\ <>(phase \in {"done", "crashed"})
=============================================================================

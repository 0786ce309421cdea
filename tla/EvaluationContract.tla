-------------------------- MODULE EvaluationContract --------------------------
(***************************************************************************)
(* What evaluateQ promises about one evaluation, without saying how it is  *)
(* carried out: queries open and close under two budgets, no query is open *)
(* twice, and once the evaluation has halted with a bottom, a Last Order   *)
(* or a rejection nothing is opened any more and the halt is what the      *)
(* caller gets.                                                            *)
(***************************************************************************)
EXTENDS Integers, FiniteSets

CONSTANTS Id, Limits

VARIABLES
  limits, \* the budgets: how deep queries may nest, how many there may be
  open,   \* the queries being evaluated
  spent,  \* how many queries were ever opened
  halt,   \* "none", or the one way in which the evaluation was stopped
  ended   \* the caller has its answer

vars == <<limits, open, spent, halt, ended>>

Halts == {"bottom", "last-order", "rejected", "too deep", "too many"}

Init == limits \in Limits /\ open = {} /\ spent = 0 /\ halt = "none" /\ ended = FALSE

Open(q) ==
  /\ halt = "none" /\ ~ended
  /\ q \notin open /\ Cardinality(open) <= limits.maxDepth
  /\ spent < limits.maxNodes
  /\ open' = open \cup {q} /\ spent' = spent + 1
  /\ UNCHANGED <<limits, halt, ended>>

\* A query closes; with a stop of its own, the evaluation halts.
Close(q) ==
  /\ q \in open /\ open' = open \ {q}
  /\ IF halt = "none" THEN halt' \in {"none", "bottom", "last-order"}
     ELSE halt' = halt
  /\ UNCHANGED <<limits, spent, ended>>

\* A stop that belongs to no open query: a refusal, or a callee that rejects.  A
\* budget is the reason only when it is used up.
Halt ==
  /\ halt = "none" /\ ~ended
  /\ halt' \in Halts
  /\ halt' = "too deep" => Cardinality(open) > limits.maxDepth
  /\ halt' = "too many" => spent >= limits.maxNodes
  /\ UNCHANGED <<limits, open, spent, ended>>

End ==
  /\ open = {} /\ ~ended
  /\ ended' = TRUE
  /\ UNCHANGED <<limits, open, spent, halt>>

Next == (\E q \in Id : Open(q) \/ Close(q)) \/ Halt \/ End

Spec == Init /\ [][Next]_vars
=============================================================================

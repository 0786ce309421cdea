----------------------------- MODULE ModuleClosure -----------------------------
(***************************************************************************)
(* What resolveFamModuleGraph promises, whatever order it works in: it     *)
(* answers every reference of every module it finds exactly once, finds    *)
(* nothing but what a reference led to, keeps its modules within the limit *)
(* and ends with no reference left over.                                   *)
(***************************************************************************)
EXTENDS Integers, Sequences

CONSTANTS Module, Rev, None, Documents, MaxModules

VARIABLES
  found,   \* the modules found, in order, with the pins of their references
  answers, \* the answers given, in order
  result   \* "walking", "graph", or "rejected"

Key == Module \X Rev
Found == {found[i] : i \in DOMAIN found}
Keys == {m.key : m \in Found}

\* The references nobody has answered yet.
Open == {r \in UNION {{m.key} \X DOMAIN m.refs : m \in Found} :
           \A i \in DOMAIN answers : <<answers[i].source, answers[i].at>> # r}

Pin(r) == (CHOOSE m \in Found : m.key = r[1]).refs[r[2]]
Fits(r, k) == Pin(r) \in {None, k[2]}

Init ==
  /\ \E k \in Key, refs \in Documents : found = <<[key |-> k, refs |-> refs]>>
  /\ answers = <<>> /\ result = "walking"

Gives(r, status, target) ==
  answers' = Append(answers, [source |-> r[1], at |-> r[2], status |-> status,
                              target |-> target])

NotFound(r) == Gives(r, "unresolved", None) /\ found' = found

Mismatch(r, k) == ~Fits(r, k) /\ Gives(r, "revision-mismatch", k) /\ found' = found

Known(r, k) ==
  /\ Fits(r, k) /\ k \in Keys
  /\ Gives(r, "resolved", k) \/ Gives(r, "cycle", k)
  /\ found' = found

LimitReached(r, k) ==
  /\ Fits(r, k) /\ k \notin Keys /\ Len(found) = MaxModules
  /\ Gives(r, "module-limit-reached", k) /\ found' = found

Find(r, k) ==
  /\ Fits(r, k) /\ k \notin Keys /\ Len(found) < MaxModules
  /\ Gives(r, "resolved", k)
  /\ \E refs \in Documents : found' = Append(found, [key |-> k, refs |-> refs])

Answer(r) ==
  /\ result = "walking" /\ UNCHANGED result
  /\ \/ NotFound(r)
     \/ \E k \in Key : Mismatch(r, k) \/ Known(r, k) \/ LimitReached(r, k) \/ Find(r, k)

End == result = "walking" /\ Open = {} /\ result' = "graph" /\ UNCHANGED <<found, answers>>

\* A resolver that throws, or a module that cannot be read, ends it all.
Reject == result = "walking" /\ result' = "rejected" /\ UNCHANGED <<found, answers>>

Next == (\E r \in Open : Answer(r)) \/ End \/ Reject

Spec == Init /\ [][Next]_<<found, answers, result>>
=============================================================================

------------------------------ MODULE ModuleGraph ------------------------------
(***************************************************************************)
(* packages/core, resolveFamModuleGraph: the walk over the modules that    *)
(* fam_ref references lead to.  The resolver is the caller's: what it      *)
(* answers, from whatever store at whatever time, is chosen as the walk    *)
(* reaches the reference, so a store that changes under the walk is one of *)
(* its behaviours.  The walk reads nothing else between two awaits: a      *)
(* reference with its answer is one step.                                  *)
(*                                                                         *)
(* A module is its key, moduleRef@revisionRef, and the references of its   *)
(* topology, of which only the pinned revision matters: the walk never     *)
(* compares what it got with the name it asked for.  The issues repeat the *)
(* references whose status is neither resolved nor cycle, and are left out.*)
(***************************************************************************)
EXTENDS Integers, Sequences

CONSTANTS
  Module, Rev, None,
  Documents,   \* what modules hold: of each reference the revision it pins, or None
  MaxModules   \* options.maxModules

ASSUME ConstantsAssumption ==
  /\ MaxModules \in Nat \ {0} /\ Documents \subseteq Seq(Rev \cup {None})
  /\ None \notin Rev /\ None \notin Module \X Rev

VARIABLES
  stack,      \* the calls of visit: key, references and the next of them
  visited,
  modules,
  references,
  status      \* of the promise: "walking", "graph" when resolved, or "rejected"

vars == <<stack, visited, modules, references, status>>

Key == Module \X Rev
Frames == [key : Key, refs : Documents, next : Nat \ {0}]
Statuses == {"resolved", "unresolved", "revision-mismatch", "cycle", "module-limit-reached"}
Records == [source : Key, at : Nat \ {0}, status : Statuses, target : Key \cup {None}]

Top == stack[Len(stack)]
Pin == Top.refs[Top.next]

\* A reference is about to be resolved.
Asking == status = "walking" /\ stack # <<>> /\ Top.next <= Len(Top.refs)

\* activePath: the keys of the calls of visit that are open; the mutant forgets
\* all but the innermost.
OnPathTop(k) == k = Top.key
OnPath(k) == \E i \in DOMAIN stack : stack[i].key = k

Accepts(k) == Pin = None \/ Pin = k[2]

\* The mutant lets one module too many in.
FullLater == Len(modules) > MaxModules
Full == Len(modules) >= MaxModules

Frame(k, refs) == [key |-> k, refs |-> refs, next |-> 1]

\* The loop goes on with the next reference.
Advanced == [stack EXCEPT ![Len(stack)].next = @ + 1]

Record(s, target) ==
  references' = Append(references, [source |-> Top.key, at |-> Top.next, status |-> s,
                                    target |-> target])

----------------------------------------------------------------------------
Init ==
  \E root \in Key, refs \in Documents :
    /\ stack = <<Frame(root, refs)>>
    /\ visited = {root}
    /\ modules = <<[key |-> root, refs |-> refs]>>
    /\ references = <<>>
    /\ status = "walking"

Unresolved ==
  /\ Asking
  /\ Record("unresolved", None)
  /\ stack' = Advanced
  /\ UNCHANGED <<visited, modules, status>>

RevisionMismatch(k) ==
  /\ Asking /\ ~Accepts(k)
  /\ Record("revision-mismatch", k)
  /\ stack' = Advanced
  /\ UNCHANGED <<visited, modules, status>>

\* A module that is being visited, or has been.  The mutant awaits its visit, also
\* one that is open: then nobody is left to go on.
KnownAwaited(k) ==
  /\ Asking /\ Accepts(k) /\ k \in visited
  /\ Record("resolved", k)
  /\ stack' = IF OnPath(k) THEN <<>> ELSE Advanced
  /\ UNCHANGED <<visited, modules, status>>

Known(k) ==
  /\ Asking /\ Accepts(k)
  /\ OnPath(k) \/ k \in visited
  /\ Record(IF OnPath(k) THEN "cycle" ELSE "resolved", k)
  /\ stack' = Advanced
  /\ UNCHANGED <<visited, modules, status>>

LimitReached(k) ==
  /\ Asking /\ Accepts(k) /\ ~OnPath(k) /\ k \notin visited
  /\ Full
  /\ Record("module-limit-reached", k)
  /\ stack' = Advanced
  /\ UNCHANGED <<visited, modules, status>>

\* visit(resolved): recorded, visited, normalised and entered without an await.
Enter(k, refs) ==
  /\ Asking /\ Accepts(k) /\ ~OnPath(k) /\ k \notin visited
  /\ ~Full
  /\ Record("resolved", k)
  /\ visited' = visited \cup {k}
  /\ modules' = Append(modules, [key |-> k, refs |-> refs])
  /\ stack' = Append(Advanced, Frame(k, refs))
  /\ UNCHANGED status

\* The visit is the root's.
Outermost == Len(stack) = 1

\* A visit has dealt with its references; with the root's the promise resolves.
Return ==
  /\ status = "walking" /\ stack # <<>> /\ Top.next > Len(Top.refs)
  /\ stack' = SubSeq(stack, 1, Len(stack) - 1)
  /\ status' = IF Outermost THEN "graph" ELSE status
  /\ UNCHANGED <<visited, modules, references>>

\* The resolver throws, or normalizeFamTopology refuses the module's refs.
Throw ==
  /\ Asking
  /\ status' = "rejected"
  /\ UNCHANGED <<stack, visited, modules, references>>

Resolve ==
  \/ Unresolved \/ Throw
  \/ \E k \in Key : \/ RevisionMismatch(k) \/ Known(k) \/ LimitReached(k)
                    \/ \E refs \in Documents : Enter(k, refs)

Next == Resolve \/ Return

\* The resolver answers.
Spec == Init /\ [][Next]_vars /\ WF_vars(Next)

----------------------------------------------------------------------------
TypeOK ==
  /\ stack \in Seq(Frames) /\ visited \subseteq Key
  /\ modules \in Seq([key : Key, refs : Documents]) /\ references \in Seq(Records)
  /\ status \in {"walking", "graph", "rejected"}

\* The walk is the closure of the references, whatever the resolver answers: none
\* is skipped, none answered twice, no module is there twice or beyond the limit.
Closure == INSTANCE ModuleClosure WITH
  found <- modules, answers <- references, result <- status
ClosureSpec == Closure!Spec

\* The references marked resolved.
Links == {<<references[i].source, references[i].target>> :
            i \in {j \in DOMAIN references : references[j].status = "resolved"}}

\* A reader that follows resolved references only never comes back to where it
\* was, and loses nothing by it: a reference marked as a cycle does lead back, by
\* resolved references, to the module it stands in.
CyclesAreCut ==
  /\ \A S \in SUBSET visited : S # {} =>
       \E k \in S : \A link \in Links : link[1] = k => link[2] \notin S
  /\ \A i \in DOMAIN references : references[i].status = "cycle" =>
       \A S \in SUBSET visited :
         references[i].target \in S /\ (\A link \in Links : link[1] \in S => link[2] \in S)
           => references[i].source \in S

\* The walk ends, also when every answer is a module it has not met.
Ends == <>(status # "walking")
=============================================================================

-------------------------- MODULE ResolvedModulesProofs --------------------------
(***************************************************************************)
(* Proofs about the way from a FAM module to the plans of its Folds, for   *)
(* every resolver and all modules, limits and FAMs: the walk over modules  *)
(* (ModuleGraph) has its types, implements ModuleClosure and cuts every    *)
(* cycle; the plans (FoldPlanner) keep the order of the dependencies, lose *)
(* no child and block only the stuck; and a runner that walks, normalises  *)
(* and plans (ResolvedModules) does both, its children waiting for what    *)
(* the nodes of the topology declare (FamTopology, TopologyRunner).        *)
(***************************************************************************)
EXTENDS ResolvedModules, WellFoundedInduction, TLAPS

----------------------------------------------------------------------------
(***************************************************************************)
(* The walk.                                                               *)
(***************************************************************************)
Modules == [key : Key, refs : Documents]
\* The walk, however long the resolver takes.
Walking == Init /\ [][Next]_vars

Found == {modules[i] : i \in DOMAIN modules}
Answered(k, p) == \E i \in DOMAIN references : references[i].source = k /\ references[i].at = p

\* One reference has been answered and the loop goes on, without a new visit.
Answering ==
  /\ Asking
  /\ \E s \in Statuses, target \in Key \cup {None} : Record(s, target)
  /\ stack' = Advanced
  /\ UNCHANGED <<visited, modules, status>>

Entering == \E k \in Key, refs \in Documents : Enter(k, refs)

----------------------------------------------------------------------------
LEMMA Documents_ ==
  ASSUME NEW refs \in Documents
  PROVE  /\ refs \in Seq(Rev \cup {None}) /\ Len(refs) \in Nat /\ DOMAIN refs = 1..Len(refs)
BY ConstantsAssumption

LEMMA Typed ==
  ASSUME TypeOK
  PROVE  /\ \A m \in Found : /\ m \in Modules /\ m.refs \in Documents /\ m.key \in Key
                             /\ Len(m.refs) \in Nat /\ DOMAIN m.refs = 1..Len(m.refs)
                             /\ \A p \in DOMAIN m.refs : p \in Nat
         /\ \A i \in DOMAIN stack : /\ stack[i] \in Frames /\ stack[i].next \in Nat \ {0}
                                    /\ stack[i].refs \in Documents /\ Len(stack[i].refs) \in Nat
<1>1. ASSUME NEW m \in Found
      PROVE  /\ m \in Modules /\ m.refs \in Documents /\ m.key \in Key
             /\ Len(m.refs) \in Nat /\ DOMAIN m.refs = 1..Len(m.refs)
             /\ \A p \in DOMAIN m.refs : p \in Nat
  <2>1. modules \in Seq(Modules)
    BY DEF TypeOK, Modules
  <2>2. PICK j \in DOMAIN modules : m = modules[j]
    BY DEF Found
  <2>3. m \in Modules
    BY <2>1, <2>2
  <2> QED BY <2>3, Documents_ DEF Modules
<1>2. ASSUME NEW i \in DOMAIN stack
      PROVE  /\ stack[i] \in Frames /\ stack[i].next \in Nat \ {0}
             /\ stack[i].refs \in Documents /\ Len(stack[i].refs) \in Nat
  <2>1. stack[i] \in Frames
    BY DEF TypeOK
  <2> QED BY <2>1, Documents_ DEF Frames
<1> QED BY <1>1, <1>2

\* Advancing changes the next reference of the innermost call and nothing else.
LEMMA AdvancedIs ==
  ASSUME TypeOK, Asking
  PROVE  /\ Advanced \in Seq(Frames) /\ Len(Advanced) = Len(stack)
         /\ Len(stack) \in Nat \ {0} /\ Top \in Frames /\ Len(stack) \in DOMAIN stack
         /\ Top.next \in DOMAIN Top.refs
         /\ \A i \in DOMAIN stack :
              /\ Advanced[i].key = stack[i].key /\ Advanced[i].refs = stack[i].refs
              /\ Advanced[i].next = IF i = Len(stack) THEN stack[i].next + 1 ELSE stack[i].next
<1>1. Len(stack) \in Nat \ {0} /\ Top \in Frames /\ Len(stack) \in DOMAIN stack
  BY DEF TypeOK, Asking, Top
<1>2. Top.next \in DOMAIN Top.refs
  BY <1>1, Documents_ DEF Asking, Frames
<1>3. [Top EXCEPT !.next = @ + 1] \in Frames
  BY <1>1 DEF Frames
<1>4. Advanced = [stack EXCEPT ![Len(stack)] = [Top EXCEPT !.next = @ + 1]]
  BY DEF Advanced, Top
<1>5. Advanced \in Seq(Frames) /\ Len(Advanced) = Len(stack)
  BY <1>1, <1>3, <1>4 DEF TypeOK
<1>6. ASSUME NEW i \in DOMAIN stack
      PROVE  /\ Advanced[i].key = stack[i].key /\ Advanced[i].refs = stack[i].refs
             /\ Advanced[i].next = IF i = Len(stack) THEN stack[i].next + 1 ELSE stack[i].next
  <2>1. stack[i] \in Frames
    BY DEF TypeOK
  <2>2. CASE i = Len(stack)
    BY <1>1, <1>4, <2>2 DEF Top, Frames
  <2>3. CASE i # Len(stack)
    BY <1>4, <2>3
  <2> QED BY <2>2, <2>3
<1> QED BY <1>1, <1>2, <1>5, <1>6

\* After a record, what is answered is what was, and the reference in hand.
LEMMA AnsweredAfter ==
  ASSUME TypeOK, Asking, NEW s \in Statuses, NEW target \in Key \cup {None}, Record(s, target)
  PROVE  /\ references' \in Seq(Records)
         /\ \A i \in DOMAIN references' :
              \/ i \in DOMAIN references /\ references'[i] = references[i]
              \/ references'[i].source = Top.key /\ references'[i].at = Top.next
         /\ \A k, p : Answered(k, p)' <=> Answered(k, p) \/ (k = Top.key /\ p = Top.next)
<1> DEFINE r == [source |-> Top.key, at |-> Top.next, status |-> s, target |-> target]
<1>1. references' = Append(references, r) /\ r \in Records /\ references \in Seq(Records)
  BY AdvancedIs DEF Record, Records, Frames, TypeOK
<1> HIDE DEF r
<1>2. /\ references' \in Seq(Records) /\ Len(references') = Len(references) + 1
      /\ Len(references) \in Nat /\ references'[Len(references) + 1] = r
      /\ \A i \in 1..Len(references) : references'[i] = references[i]
  BY <1>1
<1>3. r.source = Top.key /\ r.at = Top.next
  BY DEF r
<1>4. DOMAIN references = 1..Len(references) /\ DOMAIN references' = 1..(Len(references) + 1)
  BY <1>1, <1>2
<1>5. ASSUME NEW k, NEW p
      PROVE  Answered(k, p)' <=> Answered(k, p) \/ (k = Top.key /\ p = Top.next)
  <2>1. Answered(k, p) => Answered(k, p)'
    BY <1>2, <1>4 DEF Answered
  <2>2. k = Top.key /\ p = Top.next => Answered(k, p)'
    <3>1. Len(references) + 1 \in DOMAIN references'
      BY <1>2, <1>4
    <3> QED BY <1>2, <1>3, <3>1 DEF Answered
  <2>3. Answered(k, p)' => Answered(k, p) \/ (k = Top.key /\ p = Top.next)
    BY <1>2, <1>3, <1>4 DEF Answered
  <2> QED BY <2>1, <2>2, <2>3
<1>6. ASSUME NEW i \in DOMAIN references'
      PROVE  \/ i \in DOMAIN references /\ references'[i] = references[i]
             \/ references'[i].source = Top.key /\ references'[i].at = Top.next
  BY <1>2, <1>3, <1>4
<1> QED BY <1>2, <1>5, <1>6

\* Every step is one of four kinds.
LEMMA Steps ==
  ASSUME TypeOK, Next
  PROVE  Answering \/ Entering \/ Return \/ Throw
BY DEF Next, Resolve, Answering, Entering, Unresolved, RevisionMismatch, Known, LimitReached, Statuses

----------------------------------------------------------------------------
LEMMA WalkTypes == Walking => []TypeOK
<1>1. Init => TypeOK
  <2> SUFFICES ASSUME Init PROVE TypeOK
    OBVIOUS
  <2>1. PICK root \in Key, refs \in Documents :
          /\ stack = <<Frame(root, refs)>> /\ visited = {root}
          /\ modules = <<[key |-> root, refs |-> refs]>> /\ references = <<>>
          /\ status = "walking"
    BY DEF Init
  <2>2. Frame(root, refs) \in Frames
    BY DEF Frame, Frames
  <2>3. [key |-> root, refs |-> refs] \in Modules
    BY DEF Modules
  <2> QED BY <2>1, <2>2, <2>3 DEF TypeOK, Modules
<1>2. TypeOK /\ [Next]_vars => TypeOK'
  <2> SUFFICES ASSUME TypeOK, [Next]_vars PROVE TypeOK'
    OBVIOUS
  <2>1. CASE Answering
    BY <2>1, AdvancedIs, AnsweredAfter DEF Answering, TypeOK
  <2>2. CASE Entering
    <3>1. PICK k \in Key, refs \in Documents : Enter(k, refs)
      BY <2>2 DEF Entering
    <3>2. references' \in Seq(Records)
      BY <3>1, AnsweredAfter DEF Enter, Statuses
    <3>3. Frame(k, refs) \in Frames /\ [key |-> k, refs |-> refs] \in Modules
      BY DEF Frame, Frames, Modules
    <3>4. modules' \in Seq([key : Key, refs : Documents])
      BY <3>1, <3>3 DEF Enter, TypeOK, Modules
    <3>5. Advanced \in Seq(Frames)
      BY <3>1, AdvancedIs DEF Enter
    <3>6. stack' \in Seq(Frames)
      BY <3>1, <3>3, <3>5 DEF Enter
    <3> QED BY <3>1, <3>2, <3>4, <3>6 DEF Enter, TypeOK
  <2>3. CASE Return
    BY <2>3 DEF Return, TypeOK
  <2>4. CASE Throw
    BY <2>4 DEF Throw, TypeOK
  <2>5. CASE UNCHANGED vars
    BY <2>5 DEF vars, TypeOK
  <2> QED BY <2>1, <2>2, <2>3, <2>4, <2>5, Steps
<1> QED BY <1>1, <1>2, PTL DEF Walking

----------------------------------------------------------------------------
(***************************************************************************)
(* The inductive invariant.  What the walk has visited are its modules,    *)
(* each once; every open call is one of them; and the references of a      *)
(* module are answered up to the one its call has reached, all of them     *)
(* once its call has returned.                                             *)
(***************************************************************************)
VisitedAreModules ==
  /\ visited = {m.key : m \in Found}
  /\ \A m, n \in Found : m.key = n.key => m = n
  /\ Len(modules) <= MaxModules

OpenCallsAreModules ==
  /\ \A i \in DOMAIN stack :
       /\ [key |-> stack[i].key, refs |-> stack[i].refs] \in Found
       /\ stack[i].next <= Len(stack[i].refs) + 1
  /\ \A i, j \in DOMAIN stack : stack[i].key = stack[j].key => i = j

AnsweredUpToNext ==
  /\ \A i \in DOMAIN references : references[i].source \in visited
  /\ \A m \in Found : \A p \in DOMAIN m.refs :
       Answered(m.key, p) <=> \A i \in DOMAIN stack : stack[i].key = m.key => p < stack[i].next

StackTellsTheStatus ==
  (status = "walking" => stack # <<>>) /\ (status = "graph" => stack = <<>>)

Inv == VisitedAreModules /\ OpenCallsAreModules /\ AnsweredUpToNext /\ StackTellsTheStatus

LEMMA InitInv ==
  ASSUME Init
  PROVE  Inv
<1>1. PICK root \in Key, refs \in Documents :
        /\ stack = <<Frame(root, refs)>> /\ visited = {root}
        /\ modules = <<[key |-> root, refs |-> refs]>> /\ references = <<>>
        /\ status = "walking"
  BY DEF Init
<1>2. Found = {[key |-> root, refs |-> refs]}
  BY <1>1 DEF Found
<1>3. VisitedAreModules
  <2>1. Len(modules) <= MaxModules
    BY <1>1, ConstantsAssumption
  <2> QED BY <1>1, <1>2, <2>1 DEF VisitedAreModules
<1>4. DOMAIN stack = {1} /\ stack[1].key = root /\ stack[1].refs = refs /\ stack[1].next = 1
  BY <1>1 DEF Frame
<1>5. OpenCallsAreModules
  BY <1>2, <1>4, Documents_ DEF OpenCallsAreModules
<1>6. AnsweredUpToNext
  <2>1. DOMAIN references = {}
    BY <1>1
  <2> QED BY <1>2, <1>4, <2>1, Documents_ DEF AnsweredUpToNext, Answered
<1> QED BY <1>1, <1>3, <1>5, <1>6 DEF Inv, StackTellsTheStatus

\* The module of an open call.
LEMMA CallsAreVisited ==
  ASSUME TypeOK, Inv
  PROVE  \A i \in DOMAIN stack :
           /\ stack[i].key \in visited
           /\ \A m \in Found : m.key = stack[i].key => m.refs = stack[i].refs
<1> SUFFICES ASSUME NEW i \in DOMAIN stack
             PROVE  /\ stack[i].key \in visited
                    /\ \A m \in Found : m.key = stack[i].key => m.refs = stack[i].refs
  OBVIOUS
<1> DEFINE n == [key |-> stack[i].key, refs |-> stack[i].refs]
<1>1. n \in Found
  BY DEF Inv, OpenCallsAreModules
<1>2. n.key = stack[i].key /\ n.refs = stack[i].refs
  OBVIOUS
<1> HIDE DEF n
<1>3. \A m \in Found : m.key = n.key => m = n
  BY <1>1 DEF Inv, VisitedAreModules
<1> QED BY <1>1, <1>2, <1>3 DEF Inv, VisitedAreModules

LEMMA AnsweringKeepsInv ==
  ASSUME TypeOK, Inv, Answering
  PROVE  Inv'
<1> USE DEF Inv
<1>1. PICK s \in Statuses, target \in Key \cup {None} : Record(s, target)
  BY DEF Answering
<1>2. Asking /\ stack' = Advanced /\ UNCHANGED <<visited, modules, status>>
  BY DEF Answering
<1>3. DOMAIN stack' = DOMAIN stack /\ DOMAIN stack = 1..Len(stack)
  BY <1>2, AdvancedIs DEF TypeOK
<1>4. Found' = Found
  BY <1>2 DEF Found
<1>5. VisitedAreModules'
  BY <1>2, <1>4 DEF VisitedAreModules
<1>6. OpenCallsAreModules'
  <2>1. ASSUME NEW i \in DOMAIN stack'
        PROVE  /\ [key |-> stack'[i].key, refs |-> stack'[i].refs] \in Found'
               /\ stack'[i].next <= Len(stack'[i].refs) + 1
    <3>1. [key |-> stack'[i].key, refs |-> stack'[i].refs] \in Found'
      BY <1>2, <1>3, <1>4, AdvancedIs DEF OpenCallsAreModules
    <3>2. i \in DOMAIN stack /\ stack[i].next \in Nat /\ Len(stack[i].refs) \in Nat
      BY <1>3, Typed
    <3>3. i = Len(stack) => stack[i].next <= Len(stack[i].refs)
      BY <1>2 DEF Asking, Top
    <3>5. stack[i].next <= Len(stack[i].refs) + 1
      BY <3>2 DEF OpenCallsAreModules
    <3>6. /\ stack'[i].refs = stack[i].refs
          /\ stack'[i].next = IF i = Len(stack) THEN stack[i].next + 1 ELSE stack[i].next
      BY <1>2, <3>2, AdvancedIs
    <3>4. stack'[i].next <= Len(stack'[i].refs) + 1
      BY <3>2, <3>3, <3>5, <3>6
    <3> QED BY <3>1, <3>4
  <2>2. ASSUME NEW i \in DOMAIN stack', NEW j \in DOMAIN stack', stack'[i].key = stack'[j].key
        PROVE  i = j
    BY <1>2, <1>3, <2>2, AdvancedIs DEF OpenCallsAreModules
  <2> QED BY <2>1, <2>2 DEF OpenCallsAreModules
<1>7. AnsweredUpToNext'
  <2>1. ASSUME NEW i \in DOMAIN references'
        PROVE  references'[i].source \in visited'
    <3>1. Top.key \in visited
      BY <1>2, AdvancedIs, CallsAreVisited DEF Top
    <3> QED BY <1>1, <1>2, <3>1, AnsweredAfter DEF AnsweredUpToNext
  <2>2. ASSUME NEW m \in Found', NEW p \in DOMAIN m.refs
        PROVE  Answered(m.key, p)' <=>
                 \A i \in DOMAIN stack' : stack'[i].key = m.key => p < stack'[i].next
    <3>1. /\ m \in Found
          /\ Answered(m.key, p) <=>
               \A i \in DOMAIN stack : stack[i].key = m.key => p < stack[i].next
          /\ Answered(m.key, p)' <=> Answered(m.key, p) \/ (m.key = Top.key /\ p = Top.next)
      BY <1>1, <1>2, <1>4, AnsweredAfter DEF AnsweredUpToNext
    <3>2. p \in Nat /\ \A i \in DOMAIN stack : stack[i].next \in Nat
      BY <3>1, Typed
    <3>3. CASE m.key = Top.key
      <4>1. \A i \in DOMAIN stack : stack[i].key = m.key <=> i = Len(stack)
        BY <1>2, <3>3, AdvancedIs DEF OpenCallsAreModules, Top
      <4>2. /\ Answered(m.key, p) <=> p < Top.next
            /\ (\A i \in DOMAIN stack' : stack'[i].key = m.key => p < stack'[i].next)
                 <=> p < Top.next + 1
        BY <1>2, <1>3, <3>1, <4>1, AdvancedIs DEF Top
      <4> QED BY <1>2, <3>1, <3>2, <3>3, <4>2, AdvancedIs DEF Top
    <3>4. CASE m.key # Top.key
      <4>1. \A i \in DOMAIN stack : stack[i].key = m.key => i # Len(stack)
        BY <1>2, <3>4 DEF Top
      <4> QED BY <1>2, <1>3, <3>1, <3>4, <4>1, AdvancedIs
    <3> QED BY <3>3, <3>4
  <2> QED BY <2>1, <2>2 DEF AnsweredUpToNext
<1>8. StackTellsTheStatus'
  BY <1>2, AdvancedIs DEF StackTellsTheStatus, Asking
<1> QED BY <1>5, <1>6, <1>7, <1>8

\* Entering a module adds it, unanswered, to the modules and to the open calls.
LEMMA EnteringKeepsInv ==
  ASSUME TypeOK, Inv, Entering
  PROVE  Inv'
<1> USE DEF Inv
<1>1. PICK k \in Key, refs \in Documents : Enter(k, refs)
  BY DEF Entering
<1> DEFINE new == [key |-> k, refs |-> refs]
           n == Len(stack) + 1
<1>2. /\ Asking /\ Record("resolved", k) /\ "resolved" \in Statuses /\ k \notin visited
      /\ Len(modules) < MaxModules /\ status' = status /\ visited' = visited \cup {k}
  <2>1. Len(modules) \in Nat /\ MaxModules \in Nat
    BY ConstantsAssumption DEF TypeOK
  <2> QED BY <1>1, <2>1 DEF Enter, Full, Statuses
<1>3. modules' = Append(modules, new) /\ modules \in Seq(Modules) /\ new \in Modules
  BY <1>1 DEF Enter, TypeOK, Modules
<1>4. new.key = k /\ new.refs = refs /\ refs \in Documents
  OBVIOUS
<1> HIDE DEF new
<1>5. Found' = Found \cup {new} /\ Len(modules') = Len(modules) + 1 /\ Len(modules) \in Nat
  <2>1. /\ Len(modules') = Len(modules) + 1 /\ Len(modules) \in Nat
        /\ DOMAIN modules = 1..Len(modules) /\ DOMAIN modules' = 1..(Len(modules) + 1)
        /\ modules'[Len(modules) + 1] = new
        /\ \A i \in 1..Len(modules) : modules'[i] = modules[i]
    BY <1>3
  <2>2. Found' \subseteq Found \cup {new}
    BY <2>1 DEF Found
  <2>3. Found \subseteq Found'
    BY <2>1 DEF Found
  <2>4. Len(modules) + 1 \in DOMAIN modules'
    BY <2>1
  <2>5. new \in Found'
    BY <2>1, <2>4 DEF Found
  <2> QED BY <2>1, <2>2, <2>3, <2>5
<1>6. VisitedAreModules'
  <2>1. visited' = {m.key : m \in Found'}
    BY <1>2, <1>4, <1>5 DEF VisitedAreModules
  <2>2. \A m \in Found : m.key # k
    BY <1>2 DEF VisitedAreModules
  <2>3. \A m, o \in Found' : m.key = o.key => m = o
    BY <1>4, <1>5, <2>2 DEF VisitedAreModules
  <2>4. Len(modules') <= MaxModules
    BY <1>2, <1>5, ConstantsAssumption
  <2> QED BY <2>1, <2>3, <2>4 DEF VisitedAreModules
<1>7. /\ n \in Nat \ {0} /\ DOMAIN stack = 1..Len(stack) /\ DOMAIN stack' = 1..n
      /\ stack'[n].key = k /\ stack'[n].refs = refs /\ stack'[n].next = 1
      /\ \A i \in DOMAIN stack : stack'[i] = Advanced[i]
  <2>1. Advanced \in Seq(Frames) /\ Len(Advanced) = Len(stack) /\ Len(stack) \in Nat
    BY <1>2, AdvancedIs
  <2>2. stack' = Append(Advanced, Frame(k, refs)) /\ Frame(k, refs) \in Frames
    BY <1>1 DEF Enter, Frame, Frames
  <2>3. stack'[n] = Frame(k, refs)
    BY <2>1, <2>2
  <2>4. stack'[n].key = k /\ stack'[n].refs = refs /\ stack'[n].next = 1
    BY <2>3 DEF Frame
  <2>5. DOMAIN stack = 1..Len(stack)
    BY DEF TypeOK
  <2> QED BY <2>1, <2>2, <2>4, <2>5
<1> HIDE DEF n
<1>8. n = Len(stack) + 1 /\ Len(stack) \in Nat
  BY <1>2, AdvancedIs DEF n
<1>9. \A i \in DOMAIN stack' : i \in DOMAIN stack \/ i = n
  BY <1>7, <1>8
<1>10. \A i \in DOMAIN stack : stack[i].key # k /\ stack'[i].key = stack[i].key
  BY <1>2, <1>7, CallsAreVisited, AdvancedIs
<1>11. OpenCallsAreModules'
  <2>1. ASSUME NEW i \in DOMAIN stack'
        PROVE  /\ [key |-> stack'[i].key, refs |-> stack'[i].refs] \in Found'
               /\ stack'[i].next <= Len(stack'[i].refs) + 1
    <3>1. CASE i = n
      <4>1. stack'[i].key = k /\ stack'[i].refs = refs /\ stack'[i].next = 1
        BY <1>7, <3>1
      <4>2. 1 <= Len(refs) + 1
        BY Documents_
      <4> QED BY <1>5, <4>1, <4>2 DEF new
    <3>2. CASE i \in DOMAIN stack
      <4>1. stack[i].next \in Nat /\ Len(stack[i].refs) \in Nat
        BY <3>2, Typed
      <4>2. stack[i].next <= Len(stack[i].refs) + 1
        BY <3>2 DEF OpenCallsAreModules
      <4>3. i = Len(stack) => stack[i].next <= Len(stack[i].refs)
        BY <1>2 DEF Asking, Top
      <4>4. /\ stack'[i].key = stack[i].key /\ stack'[i].refs = stack[i].refs
            /\ stack'[i].next = IF i = Len(stack) THEN stack[i].next + 1 ELSE stack[i].next
        BY <1>2, <1>7, <3>2, AdvancedIs
      <4>5. [key |-> stack[i].key, refs |-> stack[i].refs] \in Found'
        BY <1>5, <3>2 DEF OpenCallsAreModules
      <4>6. stack'[i].next <= Len(stack'[i].refs) + 1
        BY <4>1, <4>2, <4>3, <4>4
      <4> QED BY <4>4, <4>5, <4>6
    <3> QED BY <1>9, <3>1, <3>2
  <2>2. ASSUME NEW i \in DOMAIN stack', NEW j \in DOMAIN stack', stack'[i].key = stack'[j].key
        PROVE  i = j
    BY <1>7, <1>9, <1>10, <2>2 DEF OpenCallsAreModules
  <2> QED BY <2>1, <2>2 DEF OpenCallsAreModules
<1>12. AnsweredUpToNext'
  <2>1. Top.key \in visited
    BY <1>2, AdvancedIs, CallsAreVisited DEF Top
  <2>2. \A i \in DOMAIN references' : references'[i].source \in visited'
    BY <1>2, <2>1, AnsweredAfter DEF AnsweredUpToNext
  <2>3. ASSUME NEW m \in Found', NEW p \in DOMAIN m.refs
        PROVE  Answered(m.key, p)' <=>
                 \A i \in DOMAIN stack' : stack'[i].key = m.key => p < stack'[i].next
    <3>1. Answered(m.key, p)' <=> Answered(m.key, p) \/ (m.key = Top.key /\ p = Top.next)
      BY <1>2, AnsweredAfter
    <3>2. CASE m = new
      <4>1. p \in Nat \ {0}
        BY <1>4, <3>2, Documents_
      <4>2. ~Answered(m.key, p) /\ m.key # Top.key
        BY <1>2, <1>4, <2>1, <3>2 DEF AnsweredUpToNext, Answered
      <4>3. n \in DOMAIN stack' /\ stack'[n].key = m.key /\ ~(p < stack'[n].next)
        BY <1>4, <1>7, <3>2, <4>1
      <4> QED BY <3>1, <4>2, <4>3
    <3>3. CASE m \in Found
      <4>1. m.key # k
        BY <1>2, <3>3 DEF VisitedAreModules
      <4>2. (\A i \in DOMAIN stack' : stack'[i].key = m.key => p < stack'[i].next)
              <=> (\A i \in DOMAIN stack : stack[i].key = m.key => p < Advanced[i].next)
        BY <1>7, <1>8, <1>9, <1>10, <4>1
      <4>3. Answered(m.key, p) <=>
              \A i \in DOMAIN stack : stack[i].key = m.key => p < stack[i].next
        BY <3>3 DEF AnsweredUpToNext
      <4>4. p \in Nat /\ \A i \in DOMAIN stack : stack[i].next \in Nat
        BY <3>3, Typed
      <4>5. CASE m.key = Top.key
        <5>1. \A i \in DOMAIN stack : stack[i].key = m.key <=> i = Len(stack)
          BY <1>2, <4>5, AdvancedIs DEF OpenCallsAreModules, Top
        <5>2. /\ Answered(m.key, p) <=> p < Top.next
              /\ (\A i \in DOMAIN stack : stack[i].key = m.key => p < Advanced[i].next)
                   <=> p < Top.next + 1
          BY <1>2, <4>3, <5>1, AdvancedIs DEF Top
        <5> QED BY <1>2, <3>1, <4>2, <4>4, <4>5, <5>2, AdvancedIs DEF Top
      <4>6. CASE m.key # Top.key
        <5>1. \A i \in DOMAIN stack : stack[i].key = m.key => i # Len(stack)
          BY <1>2, <4>6 DEF Top
        <5> QED BY <1>2, <3>1, <4>2, <4>3, <4>6, <5>1, AdvancedIs
      <4> QED BY <4>5, <4>6
    <3> QED BY <1>5, <3>2, <3>3
  <2> QED BY <2>2, <2>3 DEF AnsweredUpToNext
<1>13. StackTellsTheStatus'
  <2>1. stack' # <<>>
    BY <1>7
  <2> QED BY <1>2, <2>1 DEF StackTellsTheStatus, Asking
<1> QED BY <1>6, <1>11, <1>12, <1>13

\* A call returns when its references are answered.
LEMMA ReturnKeepsInv ==
  ASSUME TypeOK, Inv, Return
  PROVE  Inv'
<1> USE DEF Inv
<1> DEFINE n == Len(stack)
<1>1. /\ stack # <<>> /\ Top.next > Len(Top.refs) /\ status = "walking"
      /\ stack' = SubSeq(stack, 1, n - 1) /\ UNCHANGED <<visited, modules, references>>
      /\ status' = IF n = 1 THEN "graph" ELSE status
  BY DEF Return, Outermost
<1>2. /\ n \in Nat \ {0} /\ DOMAIN stack = 1..n /\ DOMAIN stack' = 1..(n - 1)
      /\ \A i \in DOMAIN stack' : i \in DOMAIN stack /\ stack'[i] = stack[i]
      /\ n \in DOMAIN stack
  BY <1>1 DEF TypeOK
<1>3. Found' = Found
  BY <1>1 DEF Found
<1>4. VisitedAreModules'
  BY <1>1, <1>3 DEF VisitedAreModules
<1>5. OpenCallsAreModules'
  BY <1>2, <1>3 DEF OpenCallsAreModules
<1>6. AnsweredUpToNext'
  <2>1. ASSUME NEW m \in Found', NEW p \in DOMAIN m.refs
        PROVE  Answered(m.key, p)' <=>
                 \A i \in DOMAIN stack' : stack'[i].key = m.key => p < stack'[i].next
    <3>1. m \in Found /\ (Answered(m.key, p)' <=> Answered(m.key, p))
      BY <1>1, <1>3 DEF Answered
    <3>2. Answered(m.key, p) <=>
            \A i \in DOMAIN stack : stack[i].key = m.key => p < stack[i].next
      BY <3>1 DEF AnsweredUpToNext
    <3>3. CASE m.key = Top.key
      <4>1. \A i \in DOMAIN stack : stack[i].key = m.key <=> i = n
        BY <1>2, <3>3 DEF OpenCallsAreModules, Top
      <4>2. ~\E i \in DOMAIN stack' : stack'[i].key = m.key
        BY <1>2, <4>1
      <4>3. m.refs = Top.refs
        BY <1>2, <3>1, <3>3, CallsAreVisited DEF Top
      <4>4. p < Top.next
        BY <1>1, <1>2, <3>1, <4>3, Typed DEF Top
      <4> QED BY <3>1, <3>2, <4>1, <4>2, <4>4 DEF Top
    <3>4. CASE m.key # Top.key
      <4>1. \A i \in DOMAIN stack : stack[i].key = m.key => i # n
        BY <3>4 DEF Top
      <4>2. \A i \in DOMAIN stack : i # n => i \in DOMAIN stack'
        BY <1>2
      <4> QED BY <1>2, <3>1, <3>2, <4>1, <4>2
    <3> QED BY <3>3, <3>4
  <2> QED BY <1>1, <2>1 DEF AnsweredUpToNext
<1>7. StackTellsTheStatus'
  <2>1. CASE n = 1
    <3>1. stack' = <<>> /\ status' = "graph"
      BY <1>1, <2>1 DEF TypeOK
    <3> QED BY <3>1 DEF StackTellsTheStatus
  <2>2. CASE n # 1
    <3>1. 1 \in DOMAIN stack' /\ status' = "walking"
      BY <1>1, <1>2, <2>2
    <3> QED BY <3>1 DEF StackTellsTheStatus
  <2> QED BY <2>1, <2>2
<1> QED BY <1>4, <1>5, <1>6, <1>7

\* The invariant holds in every state.
LEMMA WalkInv == Walking => []Inv
<1>1. Init => Inv
  BY InitInv
<1>2. TypeOK /\ Inv /\ [Next]_vars => Inv'
  <2> SUFFICES ASSUME TypeOK, Inv, [Next]_vars PROVE Inv'
    OBVIOUS
  <2>1. CASE Throw
    BY <2>1 DEF Throw, Inv, VisitedAreModules, OpenCallsAreModules, AnsweredUpToNext,
                StackTellsTheStatus, Found, Answered
  <2>2. CASE UNCHANGED vars
    BY <2>2 DEF vars, Inv, VisitedAreModules, OpenCallsAreModules, AnsweredUpToNext,
                StackTellsTheStatus, Found, Answered
  <2> QED BY <2>1, <2>2, Steps, AnsweringKeepsInv, EnteringKeepsInv, ReturnKeepsInv
<1> QED BY <1>1, <1>2, WalkTypes, PTL DEF Walking

----------------------------------------------------------------------------
\* The reference in hand is one that nobody has answered.
LEMMA InHandIsOpen ==
  ASSUME TypeOK, Inv, Asking
  PROVE  /\ <<Top.key, Top.next>> \in Closure!Open
         /\ Closure!Pin(<<Top.key, Top.next>>) = Pin
         /\ Closure!Keys = visited
<1> DEFINE r == <<Top.key, Top.next>>
           mine == [key |-> Top.key, refs |-> Top.refs]
<1>1. mine \in Found /\ mine.key = Top.key /\ mine.refs = Top.refs
  BY AdvancedIs DEF Inv, OpenCallsAreModules, Top
<1> HIDE DEF mine
<1>2. Top.next \in DOMAIN Top.refs
  BY AdvancedIs
<1>3. ~Answered(Top.key, Top.next)
  <2>1. \A i \in DOMAIN stack : stack[i].key = Top.key <=> i = Len(stack)
    BY AdvancedIs DEF Inv, OpenCallsAreModules, Top
  <2>2. Answered(mine.key, Top.next) <=>
          \A i \in DOMAIN stack : stack[i].key = mine.key => Top.next < stack[i].next
    BY <1>1, <1>2 DEF Inv, AnsweredUpToNext
  <2>3. Top.next \in Nat /\ stack[Len(stack)] = Top /\ Len(stack) \in DOMAIN stack
    BY AdvancedIs, Typed DEF Top
  <2>4. ~(Top.next < Top.next)
    BY <2>3
  <2> QED BY <1>1, <2>1, <2>2, <2>3, <2>4
<1>4. r \in Closure!Open
  <2>1. r \in {mine.key} \X DOMAIN mine.refs
    BY <1>1, <1>2
  <2>2. r \in UNION {{m.key} \X DOMAIN m.refs : m \in Found}
    BY <1>1, <2>1
  <2>3. \A i \in DOMAIN references : <<references[i].source, references[i].at>> # r
    BY <1>3 DEF Answered
  <2> QED BY <2>2, <2>3 DEF Closure!Open, Closure!Found, Found
<1>5. Closure!Pin(r) = Pin
  <2>1. \A m \in Found : m.key = Top.key <=> m = mine
    BY <1>1 DEF Inv, VisitedAreModules
  <2>2. (CHOOSE m \in Found : m.key = r[1]) = mine
    <3>1. r[1] = Top.key
      OBVIOUS
    <3> QED BY <1>1, <2>1, <3>1
  <2> QED BY <1>1, <2>2 DEF Closure!Pin, Closure!Found, Pin, Found
<1>6. Closure!Keys = visited
  BY DEF Inv, VisitedAreModules, Closure!Keys, Closure!Found, Found
<1> QED BY <1>4, <1>5, <1>6

\* What the walk records is an answer to the reference in hand.
LEMMA RecordIsAnswer ==
  ASSUME NEW s, NEW target, Record(s, target)
  PROVE  Closure!Gives(<<Top.key, Top.next>>, s, target)
BY DEF Record, Closure!Gives

LEMMA AnsweringIsAnswer ==
  ASSUME TypeOK, Inv,
         \/ Unresolved
         \/ \E k \in Key : RevisionMismatch(k) \/ Known(k) \/ LimitReached(k)
  PROVE  Closure!Next
<1> DEFINE r == <<Top.key, Top.next>>
<1>1. Asking /\ modules' = modules /\ status' = status /\ status = "walking"
  BY DEF Unresolved, RevisionMismatch, Known, LimitReached, Asking
<1>2. r \in Closure!Open /\ Closure!Pin(r) = Pin /\ Closure!Keys = visited
  BY <1>1, InHandIsOpen
<1> HIDE DEF r
<1>4. CASE Unresolved
  <2>1. Closure!NotFound(r)
    BY <1>4, RecordIsAnswer DEF Unresolved, Closure!NotFound, r
  <2>2. Closure!Answer(r)
    BY <1>1, <2>1 DEF Closure!Answer
  <2> QED BY <1>2, <2>2 DEF Closure!Next
<1>5. ASSUME NEW k \in Key, RevisionMismatch(k)
      PROVE  Closure!Next
  <2>1. Closure!Mismatch(r, k)
    BY <1>2, <1>5, RecordIsAnswer
    DEF RevisionMismatch, Accepts, Closure!Mismatch, Closure!Fits, r
  <2> QED BY <1>1, <1>2, <2>1 DEF Closure!Next, Closure!Answer, Key, Closure!Key
<1>6. ASSUME NEW k \in Key, Known(k)
      PROVE  Closure!Next
  <2>1. k \in visited
    BY <1>6, CallsAreVisited DEF Known, OnPath
  <2>2. Closure!Known(r, k)
    BY <1>2, <1>6, <2>1, RecordIsAnswer
    DEF Known, Accepts, Closure!Known, Closure!Fits, r
  <2> QED BY <1>1, <1>2, <2>2 DEF Closure!Next, Closure!Answer, Key, Closure!Key
<1>7. ASSUME NEW k \in Key, LimitReached(k)
      PROVE  Closure!Next
  <2>1. Len(modules) = MaxModules
    BY <1>7, ConstantsAssumption DEF LimitReached, Full, Inv, VisitedAreModules, TypeOK
  <2>2. Closure!LimitReached(r, k)
    BY <1>2, <1>7, <2>1, RecordIsAnswer
    DEF LimitReached, Accepts, Closure!LimitReached, Closure!Fits, r
  <2> QED BY <1>1, <1>2, <2>2 DEF Closure!Next, Closure!Answer, Key, Closure!Key
<1> QED BY <1>4, <1>5, <1>6, <1>7

LEMMA EnteringIsFind ==
  ASSUME TypeOK, Inv, NEW k \in Key, NEW refs \in Documents, Enter(k, refs)
  PROVE  Closure!Next
<1> DEFINE r == <<Top.key, Top.next>>
<1>1. Asking /\ status' = status /\ status = "walking"
  BY DEF Enter, Asking
<1>2. r \in Closure!Open /\ Closure!Pin(r) = Pin /\ Closure!Keys = visited
  BY <1>1, InHandIsOpen
<1> HIDE DEF r
<1>3. Len(modules) < MaxModules
  BY ConstantsAssumption DEF Enter, Full, TypeOK
<1>4. Closure!Find(r, k)
  BY <1>2, <1>3, RecordIsAnswer DEF Enter, Accepts, Closure!Find, Closure!Fits, r
<1> QED BY <1>1, <1>2, <1>4 DEF Closure!Next, Closure!Answer, Key, Closure!Key

LEMMA ReturnIsEnd ==
  ASSUME TypeOK, Inv, Return
  PROVE  Closure!Next \/ UNCHANGED <<modules, references, status>>
<1>1. UNCHANGED <<modules, references>>
  BY DEF Return
<1>2. CASE ~Outermost
  BY <1>1, <1>2 DEF Return
<1>3. CASE Outermost
  <2>1. /\ DOMAIN stack = {1} /\ Top = stack[1] /\ Top.next > Len(Top.refs)
        /\ status = "walking" /\ status' = "graph"
    BY <1>3 DEF Return, Outermost, Top, TypeOK
  <2>2. ASSUME NEW m \in Found, NEW p \in DOMAIN m.refs
        PROVE  Answered(m.key, p)
    <3>1. m.key = Top.key => m.refs = Top.refs
      BY <2>1, CallsAreVisited
    <3>2. p \in 1..Len(m.refs) /\ Len(m.refs) \in Nat /\ Top.next \in Nat
      BY <2>1, Typed
    <3>3. m.key = Top.key => p < Top.next
      BY <2>1, <3>1, <3>2
    <3> QED BY <2>1, <3>3 DEF Inv, AnsweredUpToNext
  <2>3. Closure!Open = {}
    BY <2>2 DEF Closure!Open, Closure!Found, Answered, Found
  <2> QED BY <1>1, <2>1, <2>3 DEF Closure!Next, Closure!End
<1> QED BY <1>2, <1>3

\* The walk implements the closure: from a root whose module it is, each step of
\* the walk is an answer, the end, the rejection, or a return that changes nothing.
LEMMA WalkImplementsClosure == Walking => ClosureSpec
<1>1. Init => Closure!Init
  <2> SUFFICES ASSUME Init PROVE Closure!Init
    OBVIOUS
  <2>1. PICK root \in Key, refs \in Documents :
          /\ modules = <<[key |-> root, refs |-> refs]>> /\ references = <<>>
          /\ status = "walking"
    BY DEF Init
  <2> QED BY <2>1 DEF Closure!Init, Key, Closure!Key
<1>2. TypeOK /\ Inv /\ [Next]_vars => [Closure!Next]_<<modules, references, status>>
  <2> SUFFICES ASSUME TypeOK, Inv, [Next]_vars
               PROVE  Closure!Next \/ UNCHANGED <<modules, references, status>>
    OBVIOUS
  <2>1. CASE Unresolved \/ \E k \in Key : RevisionMismatch(k) \/ Known(k) \/ LimitReached(k)
    BY <2>1, AnsweringIsAnswer
  <2>2. CASE \E k \in Key, refs \in Documents : Enter(k, refs)
    BY <2>2, EnteringIsFind
  <2>3. CASE Return
    BY <2>3, ReturnIsEnd
  <2>4. CASE Throw
    BY <2>4 DEF Throw, Asking, Closure!Next, Closure!Reject
  <2>5. CASE UNCHANGED vars
    BY <2>5 DEF vars
  <2> QED BY <2>1, <2>2, <2>3, <2>4, <2>5 DEF Next, Resolve
<1>3. Closure!Init /\ [][Closure!Next]_<<modules, references, status>> => ClosureSpec
  BY PTL DEF ClosureSpec, Closure!Spec
<1> QED BY <1>1, <1>2, <1>3, WalkTypes, WalkInv, PTL DEF Walking

----------------------------------------------------------------------------
(***************************************************************************)
(* Cycles.  A module whose call is open is led to by the call that made    *)
(* this one and by no other; so whatever a returned call's module leads to *)
(* has returned, and the open calls lie on one way of resolved references. *)
(***************************************************************************)
Leads(S) == \A link \in Links : link[1] \in S => link[2] \in S

LinksAreWithin ==
  /\ \A link \in Links : link[1] \in visited /\ link[2] \in visited
  /\ \A i \in DOMAIN references : references[i].status = "cycle" => references[i].target \in visited

CallsAreLinkedOnce ==
  \A link \in Links, j \in DOMAIN stack :
    link[2] = stack[j].key => j > 1 /\ link[1] = stack[j - 1].key

CallersLeadOn ==
  \A S \in SUBSET visited : Leads(S) =>
    \A i, j \in DOMAIN stack : i <= j /\ stack[i].key \in S => stack[j].key \in S

CutInv == LinksAreWithin /\ CallsAreLinkedOnce /\ CallersLeadOn /\ CyclesAreCut

\* A resolved reference is a new link, any other record is none.
LEMMA LinksAfter ==
  ASSUME TypeOK, Asking, NEW s \in Statuses, NEW target \in Key \cup {None}, Record(s, target)
  PROVE  /\ Links' = Links \cup (IF s = "resolved" THEN {<<Top.key, target>>} ELSE {})
         /\ \A i \in DOMAIN references' :
              references'[i].status = "cycle" =>
                \/ i \in DOMAIN references /\ references'[i] = references[i]
                \/ s = "cycle" /\ references'[i].source = Top.key /\ references'[i].target = target
<1> DEFINE r == [source |-> Top.key, at |-> Top.next, status |-> s, target |-> target]
           n == Len(references) + 1
<1>1. references' = Append(references, r) /\ r \in Records /\ references \in Seq(Records)
  BY AdvancedIs DEF Record, Records, Frames, TypeOK
<1>2. r.source = Top.key /\ r.status = s /\ r.target = target
  OBVIOUS
<1> HIDE DEF r
<1>3. /\ DOMAIN references' = 1..n /\ DOMAIN references = 1..Len(references)
      /\ n \in Nat \ {0} /\ Len(references) \in Nat
      /\ references'[n] = r /\ \A i \in DOMAIN references : references'[i] = references[i]
  BY <1>1
<1>4. \A i \in DOMAIN references' : i \in DOMAIN references \/ i = n
  BY <1>3
<1>5. n \in DOMAIN references' /\ \A i \in DOMAIN references : i \in DOMAIN references'
  BY <1>3
<1> HIDE DEF n
<1>6. ASSUME NEW link
      PROVE  link \in Links' <=> link \in Links \/ (s = "resolved" /\ link = <<Top.key, target>>)
  <2>1. link \in Links' <=>
          \E i \in DOMAIN references' :
            references'[i].status = "resolved" /\ link = <<references'[i].source, references'[i].target>>
    BY DEF Links
  <2>2. link \in Links <=>
          \E i \in DOMAIN references :
            references[i].status = "resolved" /\ link = <<references[i].source, references[i].target>>
    BY DEF Links
  <2> QED BY <1>2, <1>3, <1>4, <1>5, <2>1, <2>2
<1> QED BY <1>2, <1>3, <1>4, <1>6

\* The two ends of a link are visited whenever what is recorded is.
LEMMA RecordKeepsLinksWithin ==
  ASSUME TypeOK, Inv, LinksAreWithin, Asking,
         NEW s \in Statuses, NEW target \in Key \cup {None}, Record(s, target),
         s \in {"resolved", "cycle"} => target \in visited', visited \subseteq visited'
  PROVE  LinksAreWithin'
<1>1. Top.key \in visited
  BY AdvancedIs, CallsAreVisited DEF Top
<1>2. \A link \in Links' : link[1] \in visited' /\ link[2] \in visited'
  BY <1>1, LinksAfter DEF LinksAreWithin
<1>3. \A i \in DOMAIN references' :
        references'[i].status = "cycle" => references'[i].target \in visited'
  BY LinksAfter DEF LinksAreWithin
<1> QED BY <1>2, <1>3 DEF LinksAreWithin

\* A set that the links of the next state lead on in, as this state sees it.
LEMMA LeadsBefore ==
  ASSUME LinksAreWithin, Links \subseteq Links', NEW S, Leads(S)'
  PROVE  Leads(S \cap visited)
<1>1. \A link \in Links : link[1] \in S => link[2] \in S
  BY DEF Leads
<1> QED BY <1>1 DEF Leads, LinksAreWithin

\* A reference is answered without a new visit.
LEMMA AnsweringKeepsCut ==
  ASSUME TypeOK, Inv, CutInv, Asking, NEW s \in Statuses, NEW target \in Key \cup {None},
         Record(s, target), stack' = Advanced, visited' = visited,
         s = "resolved" => target \in visited /\ ~OnPath(target),
         s = "cycle" => OnPath(target)
  PROVE  CutInv'
<1> USE DEF CutInv
<1>1. DOMAIN stack' = DOMAIN stack /\ DOMAIN stack = 1..Len(stack) /\ Len(stack) \in DOMAIN stack
  BY AdvancedIs DEF TypeOK
<1>2. \A i \in DOMAIN stack : stack'[i].key = stack[i].key
  BY AdvancedIs
<1>3. Links' = Links \cup (IF s = "resolved" THEN {<<Top.key, target>>} ELSE {})
  BY LinksAfter
<1>4. s \in {"resolved", "cycle"} => target \in visited
  BY CallsAreVisited DEF OnPath
<1>5. LinksAreWithin'
  BY <1>4, RecordKeepsLinksWithin
<1>6. CallsAreLinkedOnce'
  <2> SUFFICES ASSUME NEW link \in Links', NEW j \in DOMAIN stack', link[2] = stack'[j].key
               PROVE  j > 1 /\ link[1] = stack'[j - 1].key
    BY DEF CallsAreLinkedOnce
  <2>1. link[2] = stack[j].key
    BY <1>1, <1>2
  <2>2. link \in Links
    BY <1>1, <1>3, <2>1 DEF OnPath
  <2>3. j > 1 /\ link[1] = stack[j - 1].key
    BY <1>1, <2>1, <2>2 DEF CallsAreLinkedOnce
  <2>4. j - 1 \in DOMAIN stack
    BY <1>1, <2>3
  <2> QED BY <1>2, <2>3, <2>4
<1>7. CallersLeadOn'
  <2> SUFFICES ASSUME NEW S \in SUBSET visited, Leads(S)',
                      NEW i \in DOMAIN stack', NEW j \in DOMAIN stack',
                      i <= j, stack'[i].key \in S
               PROVE  stack'[j].key \in S
    BY DEF CallersLeadOn
  <2>1. Leads(S)
    BY <1>3 DEF Leads
  <2> QED BY <1>1, <1>2, <2>1 DEF CallersLeadOn
<1>8. ASSUME NEW S \in SUBSET visited', S # {}
      PROVE  \E k \in S : \A link \in Links' : link[1] = k => link[2] \notin S
  <2>1. CASE s = "resolved" /\ Top.key \in S /\ target \in S
    <3> DEFINE R == {k \in S : ~OnPath(k)}
    <3>1. target \in R /\ R \in SUBSET visited
      BY <2>1
    <3>2. PICK k \in R : \A link \in Links : link[1] = k => link[2] \notin R
      BY <3>1 DEF CyclesAreCut
    <3>3. ASSUME NEW link \in Links', link[1] = k, link[2] \in S
          PROVE  FALSE
      <4>1. OnPath(Top.key) /\ ~OnPath(k)
        BY <1>1 DEF OnPath, Top
      <4>2. link \in Links
        BY <1>3, <3>3, <4>1
      <4>3. OnPath(link[2])
        BY <3>2, <3>3, <4>2
      <4>4. PICK j \in DOMAIN stack : stack[j].key = link[2]
        BY <4>3 DEF OnPath
      <4>5. j > 1 /\ k = stack[j - 1].key
        BY <3>3, <4>2, <4>4 DEF CallsAreLinkedOnce
      <4>6. j - 1 \in DOMAIN stack
        BY <1>1, <4>5
      <4> QED BY <4>1, <4>5, <4>6 DEF OnPath
    <3> QED BY <3>2, <3>3
  <2>2. CASE ~(s = "resolved" /\ Top.key \in S /\ target \in S)
    <3>1. PICK k \in S : \A link \in Links : link[1] = k => link[2] \notin S
      BY <1>8 DEF CyclesAreCut
    <3> QED BY <1>3, <2>2, <3>1
  <2> QED BY <2>1, <2>2
<1>9. ASSUME NEW i \in DOMAIN references', references'[i].status = "cycle",
             NEW S \in SUBSET visited', references'[i].target \in S,
             \A link \in Links' : link[1] \in S => link[2] \in S
      PROVE  references'[i].source \in S
  <2>1. \A link \in Links : link[1] \in S => link[2] \in S
    BY <1>3, <1>9
  <2>2. CASE i \in DOMAIN references /\ references'[i] = references[i]
    BY <1>9, <2>1, <2>2 DEF CyclesAreCut
  <2>3. CASE s = "cycle" /\ references'[i].source = Top.key /\ references'[i].target = target
    <3>1. PICK j \in DOMAIN stack : stack[j].key = target
      BY <2>3 DEF OnPath
    <3>2. j <= Len(stack)
      BY <1>1
    <3>3. stack[Len(stack)].key \in S
      BY <1>1, <1>9, <2>1, <2>3, <3>1, <3>2 DEF CallersLeadOn, Leads
    <3> QED BY <2>3, <3>3 DEF Top
  <2> QED BY <1>9, <2>2, <2>3, LinksAfter
<1>10. CyclesAreCut'
  BY <1>8, <1>9 DEF CyclesAreCut
<1> QED BY <1>5, <1>6, <1>7, <1>10

\* A module is entered: the call it gets is linked to by the call that makes it.
LEMMA EnteringKeepsCut ==
  ASSUME TypeOK, Inv, CutInv, NEW k \in Key, NEW refs \in Documents, Enter(k, refs)
  PROVE  CutInv'
<1> USE DEF CutInv
<1> DEFINE n == Len(stack) + 1
<1>1. /\ Asking /\ Record("resolved", k) /\ "resolved" \in Statuses /\ k \notin visited
      /\ visited' = visited \cup {k} /\ stack' = Append(Advanced, Frame(k, refs))
  BY DEF Enter, Statuses
<1>2. /\ n \in Nat \ {0} /\ Len(stack) \in DOMAIN stack
      /\ DOMAIN stack = 1..Len(stack) /\ DOMAIN stack' = 1..n
      /\ stack'[n].key = k /\ \A i \in DOMAIN stack : stack'[i].key = stack[i].key
  <2>1. Advanced \in Seq(Frames) /\ Len(Advanced) = Len(stack) /\ Len(stack) \in Nat \ {0}
        /\ Len(stack) \in DOMAIN stack
    BY <1>1, AdvancedIs
  <2>2. Frame(k, refs) \in Frames /\ Frame(k, refs).key = k
    BY DEF Frame, Frames
  <2>3. stack'[n] = Frame(k, refs) /\ \A i \in 1..Len(stack) : stack'[i] = Advanced[i]
    BY <1>1, <2>1, <2>2
  <2>4. DOMAIN stack = 1..Len(stack) /\ DOMAIN stack' = 1..n
    BY <1>1, <2>1, <2>2 DEF TypeOK
  <2> QED BY <1>1, <2>1, <2>2, <2>3, <2>4, AdvancedIs
<1>3. \A i \in DOMAIN stack' : i \in DOMAIN stack \/ i = n
  BY <1>2
<1>4. n - 1 = Len(stack) /\ n > 1 /\ n \notin DOMAIN stack
  BY <1>2
<1> HIDE DEF n
<1>5. Links' = Links \cup {<<Top.key, k>>}
  BY <1>1, LinksAfter
<1>6. LinksAreWithin'
  BY <1>1, RecordKeepsLinksWithin
<1>7. /\ \A i \in DOMAIN stack : stack[i].key \in visited
      /\ Top.key \in visited /\ stack[Len(stack)].key = Top.key
  BY <1>2, CallsAreVisited DEF Top
<1>8. CallsAreLinkedOnce'
  <2> SUFFICES ASSUME NEW link \in Links', NEW j \in DOMAIN stack', link[2] = stack'[j].key
               PROVE  j > 1 /\ link[1] = stack'[j - 1].key
    BY DEF CallsAreLinkedOnce
  <2>1. CASE j = n
    <3>1. link = <<Top.key, k>>
      BY <1>1, <1>2, <1>5, <2>1 DEF LinksAreWithin
    <3> QED BY <1>2, <1>4, <1>7, <2>1, <3>1
  <2>2. CASE j \in DOMAIN stack
    <3>1. link \in Links /\ link[2] = stack[j].key
      BY <1>1, <1>2, <1>5, <1>7, <2>2
    <3>2. j > 1 /\ link[1] = stack[j - 1].key
      BY <2>2, <3>1 DEF CallsAreLinkedOnce
    <3>3. j - 1 \in DOMAIN stack
      BY <1>2, <2>2, <3>2
    <3> QED BY <1>2, <3>2, <3>3
  <2> QED BY <1>3, <2>1, <2>2
<1>9. CallersLeadOn'
  <2> SUFFICES ASSUME NEW S \in SUBSET visited', Leads(S)',
                      NEW i \in DOMAIN stack', NEW j \in DOMAIN stack',
                      i <= j, stack'[i].key \in S
               PROVE  stack'[j].key \in S
    BY DEF CallersLeadOn
  <2>1. Leads(S \cap visited)
    BY <1>5, LeadsBefore
  <2>2. ASSUME NEW l \in DOMAIN stack, i \in DOMAIN stack, i <= l
        PROVE  stack[l].key \in S
    <3>1. stack[i].key \in S \cap visited
      BY <1>2, <1>7, <2>2
    <3> QED BY <2>1, <2>2, <3>1 DEF CallersLeadOn
  <2>3. CASE i = n
    BY <1>2, <2>3
  <2>4. CASE i \in DOMAIN stack /\ j \in DOMAIN stack
    BY <1>2, <2>2, <2>4
  <2>5. CASE i \in DOMAIN stack /\ j = n
    <3>1. Top.key \in S
      BY <1>2, <1>7, <2>2, <2>5
    <3>2. <<Top.key, k>> \in Links'
      BY <1>5
    <3> QED BY <1>2, <2>5, <3>1, <3>2 DEF Leads
  <2> QED BY <1>3, <2>3, <2>4, <2>5
<1>10. ASSUME NEW S \in SUBSET visited', S # {}
       PROVE  \E x \in S : \A link \in Links' : link[1] = x => link[2] \notin S
  <2>1. CASE k \in S
    BY <1>1, <1>5, <1>7, <2>1 DEF LinksAreWithin
  <2>2. CASE k \notin S
    <3>1. S \in SUBSET visited
      BY <1>1, <2>2
    <3>2. PICK x \in S : \A link \in Links : link[1] = x => link[2] \notin S
      BY <1>10, <3>1 DEF CyclesAreCut
    <3> QED BY <1>5, <2>2, <3>2
  <2> QED BY <2>1, <2>2
<1>11. ASSUME NEW i \in DOMAIN references', references'[i].status = "cycle",
              NEW S \in SUBSET visited', references'[i].target \in S,
              \A link \in Links' : link[1] \in S => link[2] \in S
       PROVE  references'[i].source \in S
  <2>1. i \in DOMAIN references /\ references'[i] = references[i]
    BY <1>1, <1>11, LinksAfter
  <2>2. references[i].target \in S \cap visited
    BY <1>11, <2>1 DEF LinksAreWithin
  <2>3. \A link \in Links : link[1] \in S \cap visited => link[2] \in S \cap visited
    BY <1>5, <1>11 DEF LinksAreWithin
  <2>4. S \cap visited \in SUBSET visited
    OBVIOUS
  <2>5. references[i].source \in S \cap visited
    BY <1>11, <2>1, <2>2, <2>3, <2>4 DEF CyclesAreCut
  <2> QED BY <2>1, <2>5
<1>12. CyclesAreCut'
  BY <1>10, <1>11 DEF CyclesAreCut
<1> QED BY <1>6, <1>8, <1>9, <1>12

LEMMA WalkIsCut == Walking => []CutInv
<1>1. Init => CutInv
  <2> SUFFICES ASSUME Init PROVE CutInv
    OBVIOUS
  <2>1. PICK root \in Key, refs \in Documents :
          stack = <<Frame(root, refs)>> /\ visited = {root} /\ references = <<>>
    BY DEF Init
  <2>2. DOMAIN references = {} /\ Links = {}
    BY <2>1 DEF Links
  <2>3. DOMAIN stack = {1}
    BY <2>1
  <2>4. LinksAreWithin /\ CallsAreLinkedOnce /\ CyclesAreCut
    BY <2>2 DEF LinksAreWithin, CallsAreLinkedOnce, CyclesAreCut
  <2>5. CallersLeadOn
    BY <2>3 DEF CallersLeadOn
  <2> QED BY <2>4, <2>5 DEF CutInv
<1>2. TypeOK /\ Inv /\ CutInv /\ [Next]_vars => CutInv'
  <2> SUFFICES ASSUME TypeOK, Inv, CutInv, [Next]_vars PROVE CutInv'
    OBVIOUS
  <2>1. CASE Unresolved
    BY <2>1, AnsweringKeepsCut DEF Unresolved, Statuses
  <2>2. ASSUME NEW k \in Key, RevisionMismatch(k) PROVE CutInv'
    BY <2>2, AnsweringKeepsCut DEF RevisionMismatch, Statuses
  <2>3. ASSUME NEW k \in Key, Known(k) PROVE CutInv'
    <3>1. Asking /\ Record(IF OnPath(k) THEN "cycle" ELSE "resolved", k)
          /\ (OnPath(k) \/ k \in visited) /\ stack' = Advanced /\ visited' = visited
      BY <2>3 DEF Known
    <3>2. CASE OnPath(k)
      BY <3>1, <3>2, AnsweringKeepsCut DEF Statuses
    <3>3. CASE ~OnPath(k)
      BY <3>1, <3>3, AnsweringKeepsCut DEF Statuses
    <3> QED BY <3>2, <3>3
  <2>4. ASSUME NEW k \in Key, LimitReached(k) PROVE CutInv'
    BY <2>4, AnsweringKeepsCut DEF LimitReached, Statuses
  <2>5. ASSUME NEW k \in Key, NEW refs \in Documents, Enter(k, refs) PROVE CutInv'
    BY <2>5, EnteringKeepsCut
  <2>6. CASE Return
    <3>1. /\ stack' = SubSeq(stack, 1, Len(stack) - 1) /\ stack # <<>>
          /\ UNCHANGED <<visited, references>>
      BY <2>6 DEF Return
    <3>2. /\ DOMAIN stack' = 1..(Len(stack) - 1) /\ DOMAIN stack = 1..Len(stack)
          /\ \A i \in DOMAIN stack' : i \in DOMAIN stack /\ stack'[i] = stack[i]
      BY <3>1 DEF TypeOK
    <3>3. Links' = Links
      BY <3>1 DEF Links
    <3>4. LinksAreWithin' /\ CyclesAreCut'
      BY <3>1, <3>3 DEF CutInv, LinksAreWithin, CyclesAreCut
    <3>5. CallsAreLinkedOnce'
      <4> SUFFICES ASSUME NEW link \in Links, NEW j \in DOMAIN stack', link[2] = stack[j].key
                   PROVE  j > 1 /\ link[1] = stack'[j - 1].key
        BY <3>2, <3>3 DEF CallsAreLinkedOnce
      <4>1. j > 1 /\ link[1] = stack[j - 1].key
        BY <3>2 DEF CutInv, CallsAreLinkedOnce
      <4>2. j - 1 \in DOMAIN stack'
        BY <3>2, <4>1
      <4> QED BY <3>2, <4>1, <4>2
    <3>6. CallersLeadOn'
      BY <3>1, <3>2, <3>3 DEF CutInv, CallersLeadOn, Leads
    <3> QED BY <3>4, <3>5, <3>6 DEF CutInv
  <2>7. CASE Throw \/ UNCHANGED vars
    <3>1. UNCHANGED <<stack, visited, references>>
      BY <2>7 DEF Throw, vars
    <3>2. Links' = Links
      BY <3>1 DEF Links
    <3> QED BY <3>1, <3>2 DEF CutInv, LinksAreWithin, CallsAreLinkedOnce, CallersLeadOn,
                              CyclesAreCut, Leads
  <2> QED BY <2>1, <2>2, <2>3, <2>4, <2>5, <2>6, <2>7 DEF Next, Resolve
<1> QED BY <1>1, <1>2, WalkTypes, WalkInv, PTL DEF Walking

----------------------------------------------------------------------------
(***************************************************************************)
(* The plans.                                                              *)
(***************************************************************************)
\* What the planner is called with.
IsChildren(list) ==
  \A i \in DOMAIN list :
    list[i] \in [childRef : {list[i].childRef}, dependsOn : {list[i].dependsOn}, status : ChildStatuses]

BlockedRefs == {b.childRef : b \in blocked}
Cut == {r \in Marked("ready") : Missing(r) # {}}

\* Between two calls of the planner there is no plan.
PhaseInv ==
  /\ phase \in {"given", "refused"} =>
       schedulable = {} /\ available = {} /\ waves = <<>> /\ blocked = {}
  /\ phase \in {"planning", "planned"} => Distinct
  /\ phase = "planning" => parent = "resolved"

\* What the loop takes for available is completed or in a wave.
AvailableInv == phase = "planning" => available = Marked("completed") \cup Waved

\* No two waves share a child, and no child is blocked twice, or blocked and run.
Apart ==
  /\ \A j, k \in DOMAIN waves : j # k => waves[j] \cap waves[k] = {}
  /\ \A b \in blocked : b.childRef \notin Marked("completed") \cup Waved
  /\ \A a, b \in blocked : a.childRef = b.childRef => a = b

\* While the plan is made, a child that is nowhere else is schedulable.
AccountInv ==
  phase = "planning" =>
    /\ Refs = Marked("completed") \cup Waved \cup schedulable \cup BlockedRefs
    /\ schedulable \cap (Waved \cup BlockedRefs) = {}
    /\ Apart

\* No child of a knot gets into a wave.
KnotInv ==
  phase = "planning" =>
    /\ BlockedRefs = Marked("unverified") \cup Cut
    /\ schedulable \subseteq Marked("ready") \ Cut
    /\ \A K \in SUBSET Marked("ready") : Knot(K) => K \cap available = {}

PlanInv ==
  /\ PlanTypeOK /\ PhaseInv
  /\ AvailableInv /\ WavesFollowDependencies
  /\ AccountInv /\ EveryChildIsAccountedFor
  /\ KnotInv /\ OnlyTheStuckAreBlocked

----------------------------------------------------------------------------
\* Lists of children

\* Who is marked.
LEMMA MarkedRefs ==
  ASSUME NEW s, NEW r
  PROVE  r \in Marked(s) <=>
           \E i \in DOMAIN children : children[i].status = s /\ children[i].childRef = r
  BY DEF Marked

\* Every child has one of the three statuses, and one only.
LEMMA Statused ==
  ASSUME IsChildren(children), Distinct
  PROVE  /\ Refs = Marked("completed") \cup Marked("ready") \cup Marked("unverified")
         /\ Marked("completed") \cap Marked("ready") = {}
         /\ Marked("completed") \cap Marked("unverified") = {}
         /\ Marked("ready") \cap Marked("unverified") = {}
<1>1. \A i \in DOMAIN children : children[i].status \in ChildStatuses
  BY DEF IsChildren
<1>2. \A r : r \in Refs <=> \E i \in DOMAIN children : children[i].childRef = r
  BY DEF Refs
<1>3. Refs = Marked("completed") \cup Marked("ready") \cup Marked("unverified")
  BY <1>1, <1>2, MarkedRefs DEF ChildStatuses
<1>q. QED
  BY <1>3, MarkedRefs DEF Distinct

\* A child that settles is a child.
LEMMA SettledChildren ==
  ASSUME IsChildren(children), NEW ref, NEW s \in ChildStatuses
  PROVE  IsChildren([i \in DOMAIN children |->
                       IF children[i].childRef = ref THEN [children[i] EXCEPT !.status = s]
                       ELSE children[i]])
<1> DEFINE settled == [i \in DOMAIN children |->
                         IF children[i].childRef = ref THEN [children[i] EXCEPT !.status = s]
                         ELSE children[i]]
<1>1. ASSUME NEW i \in DOMAIN settled
      PROVE  settled[i] \in [childRef : {settled[i].childRef}, dependsOn : {settled[i].dependsOn},
                             status : ChildStatuses]
  <2>1. PICK r, deps : children[i] \in [childRef : {r}, dependsOn : {deps}, status : ChildStatuses]
    BY DEF IsChildren
  <2>2. settled[i] \in [childRef : {r}, dependsOn : {deps}, status : ChildStatuses]
    BY <2>1
  <2> HIDE DEF settled
  <2>q. QED
    BY <2>2
<1>q. QED
  BY <1>1 DEF IsChildren

\* Children they remain.
LEMMA ChildrenStay ==
  ASSUME IsChildren(children), [PlanNext]_planVars
  PROVE  IsChildren(children')
<1>1. CASE UNCHANGED children
  BY <1>1 DEF IsChildren
<1>2. ASSUME NEW ref \in Refs, NEW s \in {"completed", "unverified"}, Settle(ref, s)
      PROVE  IsChildren(children')
  BY <1>2, SettledChildren DEF Settle, CallAgain, ChildStatuses
<1>q. QED
  BY <1>1, <1>2 DEF PlanNext, Plan, Run, Refuse, HoldBack, Prepare, PlanWave, StopPlanning,
                    ResolveContext, CallAgain, planVars

----------------------------------------------------------------------------
\* The steps

\* Blocking names the blocked.
LEMMA BlockedNames ==
  ASSUME NEW R, NEW reason
  PROVE  /\ {b.childRef : b \in Blocked(R, reason)} = R
         /\ \A b \in Blocked(R, reason) : b.childRef \in R /\ b.reason = reason
         /\ \A a, b \in Blocked(R, reason) : a.childRef = b.childRef => a = b
<1>1. \A b \in Blocked(R, reason) :
        b = [childRef |-> b.childRef, reason |-> reason] /\ b.childRef \in R /\ b.reason = reason
  BY DEF Blocked
<1>2. ASSUME NEW r \in R PROVE \E b \in Blocked(R, reason) : b.childRef = r
  <2>1. [childRef |-> r, reason |-> reason] \in Blocked(R, reason)
    BY DEF Blocked
  <2>q. QED
    BY <2>1
<1>3. {b.childRef : b \in Blocked(R, reason)} = R
  BY <1>1, <1>2
<1>q. QED
  BY <1>1, <1>3

\* A call begins without a plan.
LEMMA CallBegins ==
  ASSUME NEW context \in Contexts, NEW list, CallAgain(context, list)
  PROVE  PlanInv'
<1>1. /\ parent' = context /\ phase' = "given" /\ schedulable' = {} /\ available' = {}
      /\ waves' = <<>> /\ blocked' = {}
  BY DEF CallAgain
<1>2. PlanTypeOK'
  BY <1>1 DEF PlanTypeOK
<1>3. PhaseInv' /\ AvailableInv' /\ AccountInv' /\ EveryChildIsAccountedFor' /\ KnotInv'
      /\ OnlyTheStuckAreBlocked'
  BY <1>1 DEF PhaseInv, AvailableInv, AccountInv, EveryChildIsAccountedFor, KnotInv,
              OnlyTheStuckAreBlocked
<1>4. WavesFollowDependencies'
  BY <1>1 DEF WavesFollowDependencies
<1>q. QED
  BY <1>2, <1>3, <1>4 DEF PlanInv

\* A parent that is not resolved blocks whoever is not completed.
LEMMA HeldBack ==
  ASSUME IsChildren(children), PlanInv, HoldBack
  PROVE  PlanInv'
<1>1. /\ phase = "given" /\ phase' = "planned" /\ Distinct /\ parent # "resolved" /\ waves = <<>>
      /\ blocked' = Blocked(Refs \ Marked("completed"), "parent-context-unresolved")
      /\ UNCHANGED <<parent, children, schedulable, available, waves>>
  BY DEF HoldBack, PlanInv, PhaseInv
<1>2. Distinct' /\ Refs' = Refs /\ Waved' = {} /\ \A s : Marked(s)' = Marked(s)
  BY <1>1 DEF Distinct, Refs, Waved, Marked
<1>3. PlanTypeOK'
  BY <1>1, <1>2 DEF PlanInv, PlanTypeOK, Blocked, Reasons
<1>4. PhaseInv' /\ AvailableInv' /\ AccountInv' /\ KnotInv' /\ OnlyTheStuckAreBlocked'
  BY <1>1, <1>2 DEF PhaseInv, AvailableInv, AccountInv, KnotInv, OnlyTheStuckAreBlocked
<1>5. WavesFollowDependencies'
  BY <1>1 DEF WavesFollowDependencies
<1>6. EveryChildIsAccountedFor'
  <2>1. Marked("completed") \subseteq Refs
    BY <1>1, Statused
  <2>2. {b.childRef : b \in blocked'} = Refs \ Marked("completed")
    BY <1>1, BlockedNames
  <2>3. \A b \in blocked' : b.childRef \notin Marked("completed")
    BY <1>1, BlockedNames
  <2>4. \A a, b \in blocked' : a.childRef = b.childRef => a = b
    BY <1>1, BlockedNames
  <2>5. \A j, k \in DOMAIN waves' : j # k => waves'[j] \cap waves'[k] = {}
    BY <1>1
  <2>q. QED
    BY <1>1, <1>2, <2>1, <2>2, <2>3, <2>4, <2>5 DEF EveryChildIsAccountedFor
<1>q. QED
  BY <1>3, <1>4, <1>5, <1>6 DEF PlanInv

\* Before the first wave.
LEMMA Prepared ==
  ASSUME IsChildren(children), PlanInv, Prepare
  PROVE  PlanInv'
<1>1. /\ phase = "given" /\ phase' = "planning" /\ Distinct /\ parent = "resolved" /\ waves = <<>>
      /\ schedulable' = Marked("ready") \ Cut
      /\ available' = Marked("completed")
      /\ blocked' = Blocked(Marked("unverified"), "child-status-unverified")
                      \cup Blocked(Cut, "dependency-not-found")
      /\ UNCHANGED <<parent, children, waves>>
  BY DEF Prepare, PlanInv, PhaseInv, Cut
<1>2. /\ Distinct' /\ Refs' = Refs /\ Waved' = {} /\ \A s : Marked(s)' = Marked(s)
  BY <1>1 DEF Distinct, Refs, Waved, Marked
<1>3. Cut' = Cut
  BY <1>1, <1>2 DEF Cut, Missing, Deps
<1>4. Cut \subseteq Marked("ready")
  BY DEF Cut
<1>5. BlockedRefs' = Marked("unverified") \cup Cut
  BY <1>1, BlockedNames DEF BlockedRefs
<1>6. PlanTypeOK'
  BY <1>1, <1>2, <1>4, Statused DEF PlanInv, PlanTypeOK, Blocked, Reasons
<1>7. PhaseInv' /\ EveryChildIsAccountedFor' /\ OnlyTheStuckAreBlocked'
  BY <1>1, <1>2 DEF PhaseInv, EveryChildIsAccountedFor, OnlyTheStuckAreBlocked
<1>8. WavesFollowDependencies' /\ AvailableInv'
  BY <1>1, <1>2 DEF WavesFollowDependencies, AvailableInv
<1>9. AccountInv'
  <2>1. \A b \in blocked' : b.childRef \notin Marked("completed")
    BY <1>1, <1>4, BlockedNames, Statused
  <2>2. \A a, b \in blocked' : a.childRef = b.childRef => a = b
    BY <1>1, <1>4, BlockedNames, Statused
  <2>3. Apart'
    BY <1>1, <1>2, <2>1, <2>2 DEF Apart
  <2>q. QED
    BY <1>1, <1>2, <1>4, <1>5, <2>3, Statused DEF AccountInv
<1>10. KnotInv'
  <2>1. (\A K \in SUBSET Marked("ready") : Knot(K) => K \cap available = {})'
    BY <1>1, <1>2, Statused
  <2>q. QED
    BY <1>1, <1>2, <1>3, <1>5, <2>1 DEF KnotInv
<1>q. QED
  BY <1>6, <1>7, <1>8, <1>9, <1>10 DEF PlanInv

\* One more wave.
LEMMA WavePlanned ==
  ASSUME IsChildren(children), PlanInv, PlanWave
  PROVE  PlanInv'
<1>1. /\ phase = "planning" /\ phase' = "planning" /\ Distinct /\ parent = "resolved"
      /\ waves' = Append(waves, NextWave)
      /\ available' = available \cup NextWave
      /\ schedulable' = schedulable \ NextWave
      /\ UNCHANGED <<parent, children, blocked>>
  BY DEF PlanWave, PlanInv, PhaseInv
<1>2. /\ Distinct' /\ Refs' = Refs /\ \A s : Marked(s)' = Marked(s)
      /\ \A r : Deps(r)' = Deps(r)
  BY <1>1 DEF Distinct, Refs, Marked, Deps
<1>3. Cut' = Cut /\ BlockedRefs' = BlockedRefs
  BY <1>1, <1>2 DEF Cut, Missing, BlockedRefs
<1>4. /\ NextWave \subseteq schedulable /\ schedulable \subseteq Marked("ready")
      /\ waves \in Seq(SUBSET Marked("ready"))
      /\ available = Marked("completed") \cup Waved
  BY <1>1 DEF NextWave, PlanInv, PlanTypeOK, AvailableInv
<1>5. /\ DOMAIN waves = 1..Len(waves) /\ Len(waves) \in Nat
      /\ DOMAIN waves' = 1..(Len(waves) + 1)
      /\ \A k \in DOMAIN waves : waves'[k] = waves[k]
      /\ waves'[Len(waves) + 1] = NextWave
  BY <1>1, <1>4
<1>6. Waved' = Waved \cup NextWave
  BY <1>5 DEF Waved
<1>7. PlanTypeOK'
  <2>1. waves' \in Seq(SUBSET Marked("ready"))
    BY <1>1, <1>4
  <2>2. available' \subseteq Refs
    BY <1>1, <1>4, Statused DEF PlanInv, PlanTypeOK
  <2>q. QED
    BY <1>1, <1>2, <1>4, <2>1, <2>2 DEF PlanInv, PlanTypeOK
<1>8. PhaseInv' /\ EveryChildIsAccountedFor' /\ OnlyTheStuckAreBlocked'
  BY <1>1, <1>2 DEF PhaseInv, EveryChildIsAccountedFor, OnlyTheStuckAreBlocked
<1>9. AvailableInv'
  BY <1>1, <1>2, <1>4, <1>6 DEF AvailableInv
<1>10. WavesFollowDependencies'
  <2> SUFFICES ASSUME NEW k \in DOMAIN waves', NEW r \in waves'[k]
               PROVE  Deps(r) \subseteq Marked("completed") \cup UNION {waves'[j] : j \in 1..(k - 1)}
    BY <1>2 DEF WavesFollowDependencies
  <2>1. \A j \in 1..(k - 1) : j \in DOMAIN waves /\ waves'[j] = waves[j]
    BY <1>5
  <2>2. UNION {waves'[j] : j \in 1..(k - 1)} = UNION {waves[j] : j \in 1..(k - 1)}
    BY <2>1
  <2>3. CASE k \in DOMAIN waves
    BY <1>5, <2>2, <2>3 DEF PlanInv, WavesFollowDependencies
  <2>4. CASE k = Len(waves) + 1
    <3>1. Deps(r) \subseteq Marked("completed") \cup Waved
      BY <1>4, <1>5, <2>4 DEF NextWave
    <3>2. 1..(k - 1) = DOMAIN waves
      BY <1>5, <2>4
    <3>q. QED
      BY <2>2, <3>1, <3>2 DEF Waved
  <2>q. QED
    BY <1>5, <2>3, <2>4
<1>11. AccountInv'
  <2>1. /\ Refs = Marked("completed") \cup Waved \cup schedulable \cup BlockedRefs
        /\ schedulable \cap (Waved \cup BlockedRefs) = {}
        /\ Apart
    BY <1>1 DEF PlanInv, AccountInv
  <2>2. \A k \in DOMAIN waves : waves[k] \subseteq Waved
    BY DEF Waved
  <2>3. \A j, k \in DOMAIN waves' : j # k => waves'[j] \cap waves'[k] = {}
    BY <1>4, <1>5, <2>1, <2>2 DEF Apart
  <2>4. \A b \in blocked : b.childRef \in BlockedRefs
    BY DEF BlockedRefs
  <2>5. \A b \in blocked : b.childRef \notin Marked("completed") \cup Waved \cup NextWave
    BY <1>4, <2>1, <2>4 DEF Apart
  <2>6. Apart'
    BY <1>1, <1>2, <1>6, <2>1, <2>3, <2>5 DEF Apart
  <2>q. QED
    BY <1>1, <1>2, <1>3, <1>4, <1>6, <2>1, <2>6 DEF AccountInv
<1>12. KnotInv'
  <2> SUFFICES ASSUME NEW K \in SUBSET Marked("ready"), Knot(K)
               PROVE  K \cap (available \cup NextWave) = {}
    <3>1. \A K \in SUBSET Marked("ready") : Knot(K)' <=> Knot(K)
      BY <1>2 DEF Knot
    <3>q. QED
      BY <1>1, <1>2, <1>3, <3>1 DEF PlanInv, KnotInv
  <2>1. K \cap available = {}
    BY <1>1 DEF PlanInv, KnotInv
  <2>2. available \subseteq Marked("completed") \cup Marked("ready")
    BY <1>4 DEF Waved
  <2>3. \A r \in K : r \notin NextWave
    <3> SUFFICES ASSUME NEW r \in K, Deps(r) \subseteq available PROVE FALSE
      BY DEF NextWave
    <3>1. PICK d \in Deps(r) : d \in K \/ d \notin Marked("completed") \cup Marked("ready")
      BY DEF Knot
    <3>q. QED
      BY <2>1, <2>2, <3>1
  <2>q. QED
    BY <2>1, <2>3
<1>q. QED
  BY <1>7, <1>8, <1>9, <1>10, <1>11, <1>12 DEF PlanInv

\* What is schedulable when no wave is left waits for itself: with those whose
\* dependencies do not exist it is a knot.
LEMMA TheLeftAreAKnot ==
  ASSUME IsChildren(children), PlanInv, phase = "planning", NextWave = {}
  PROVE  Knot(schedulable \cup Cut)
<1>1. /\ Refs = Marked("completed") \cup Waved \cup schedulable \cup BlockedRefs
      /\ BlockedRefs = Marked("unverified") \cup Cut
      /\ schedulable \subseteq Marked("ready") \ Cut
      /\ available = Marked("completed") \cup Waved /\ Distinct
  BY DEF PlanInv, AccountInv, KnotInv, AvailableInv, PhaseInv
<1>2. ASSUME NEW r \in schedulable
      PROVE  \E d \in Deps(r) : \/ d \in schedulable \cup Cut
                                \/ d \notin Marked("completed") \cup Marked("ready")
  <2>1. PICK d \in Deps(r) : d \notin available
    BY <1>2 DEF NextWave
  <2>2. Missing(r) = {}
    BY <1>1 DEF Cut
  <2>3. d \in Refs
    BY <2>1, <2>2 DEF Missing
  <2>q. QED
    BY <1>1, <2>1, <2>3, Statused
<1>3. ASSUME NEW r \in Cut
      PROVE  \E d \in Deps(r) : d \notin Marked("completed") \cup Marked("ready")
  <2>1. PICK d \in Deps(r) : d \notin Refs
    BY DEF Cut, Missing
  <2>q. QED
    BY <1>1, <2>1, Statused
<1>q. QED
  BY <1>2, <1>3 DEF Knot

\* No wave is left.
LEMMA PlanningStopped ==
  ASSUME IsChildren(children), PlanInv, StopPlanning
  PROVE  PlanInv'
<1>1. /\ phase = "planning" /\ phase' = "planned" /\ Distinct /\ parent = "resolved"
      /\ NextWave = {}
      /\ blocked' = blocked \cup Blocked(schedulable, "dependency-cycle-or-blocked")
      /\ UNCHANGED <<parent, children, schedulable, available, waves>>
  BY DEF StopPlanning, Left, PlanInv, PhaseInv
<1>2. /\ Distinct' /\ Refs' = Refs /\ Waved' = Waved /\ \A s : Marked(s)' = Marked(s)
      /\ \A r : Deps(r)' = Deps(r)
  BY <1>1 DEF Distinct, Refs, Marked, Deps, Waved
<1>3. /\ Refs = Marked("completed") \cup Waved \cup schedulable \cup BlockedRefs
      /\ schedulable \cap (Waved \cup BlockedRefs) = {}
      /\ Apart
  BY <1>1 DEF PlanInv, AccountInv
<1>4. /\ BlockedRefs = Marked("unverified") \cup Cut
      /\ schedulable \subseteq Marked("ready") \ Cut
  BY <1>1 DEF PlanInv, KnotInv
<1>5. {b.childRef : b \in blocked'} = BlockedRefs \cup schedulable
  BY <1>1, BlockedNames DEF BlockedRefs
<1>6. PlanTypeOK'
  BY <1>1, <1>2, <1>3 DEF PlanInv, PlanTypeOK, Blocked, Reasons
<1>7. PhaseInv' /\ AvailableInv' /\ AccountInv' /\ KnotInv'
  BY <1>1, <1>2 DEF PhaseInv, AvailableInv, AccountInv, KnotInv
<1>8. WavesFollowDependencies'
  BY <1>1, <1>2 DEF PlanInv, WavesFollowDependencies
<1>9. EveryChildIsAccountedFor'
  <2>1. \A b \in blocked : b.childRef \in BlockedRefs
    BY DEF BlockedRefs
  <2>2. \A b \in blocked' : b.childRef \notin Marked("completed") \cup Waved
    BY <1>1, <1>3, <1>4, BlockedNames, Statused DEF Apart
  <2>3. \A a, b \in blocked' : a.childRef = b.childRef => a = b
    BY <1>1, <1>3, <2>1, BlockedNames DEF Apart
  <2>q. QED
    BY <1>1, <1>2, <1>3, <1>5, <2>2, <2>3 DEF EveryChildIsAccountedFor, Apart
<1>10. OnlyTheStuckAreBlocked'
  <2>1. schedulable \cup Cut \in {K \in SUBSET Marked("ready") : Knot(K)}
    BY <1>1, <1>4, TheLeftAreAKnot DEF Cut
  <2>2. ASSUME NEW K \in SUBSET Marked("ready"), Knot(K)
        PROVE  K \subseteq schedulable \cup Cut
    <3>1. K \cap available = {} /\ available = Marked("completed") \cup Waved
      BY <1>1, <2>2 DEF PlanInv, KnotInv, AvailableInv
    <3>q. QED
      BY <1>1, <1>3, <1>4, <3>1, Statused
  <2>3. UNION {K \in SUBSET Marked("ready") : Knot(K)} = schedulable \cup Cut
    BY <2>1, <2>2
  <2>4. \A K : Knot(K)' <=> Knot(K)
    BY <1>2 DEF Knot
  <2>q. QED
    BY <1>1, <1>2, <1>4, <1>5, <2>3, <2>4 DEF OnlyTheStuckAreBlocked
<1>q. QED
  BY <1>6, <1>7, <1>8, <1>9, <1>10 DEF PlanInv

----------------------------------------------------------------------------
\* The plan's invariant is kept.
LEMMA PlanStep ==
  ASSUME IsChildren(children), PlanInv, [PlanNext]_planVars
  PROVE  PlanInv'
<1>1. CASE Refuse
  <2>1. UNCHANGED <<parent, children, schedulable, available, waves, blocked>>
        /\ phase' = "refused" /\ phase = "given"
    BY <1>1 DEF Refuse
  <2>q. QED
    BY <2>1 DEF PlanInv, PlanTypeOK, PhaseInv, AvailableInv, WavesFollowDependencies,
                AccountInv, EveryChildIsAccountedFor, KnotInv, OnlyTheStuckAreBlocked,
                Refs, Marked, Deps
<1>2. CASE UNCHANGED planVars
  <2>1. UNCHANGED <<parent, children, phase, schedulable, available, waves, blocked>>
    BY <1>2 DEF planVars
  <2>2. /\ Refs' = Refs /\ Waved' = Waved /\ BlockedRefs' = BlockedRefs
        /\ Distinct' = Distinct /\ \A s : Marked(s)' = Marked(s)
        /\ \A r : Deps(r)' = Deps(r)
    BY <2>1 DEF Refs, Waved, BlockedRefs, Distinct, Marked, Deps
  <2>3. Cut' = Cut /\ \A K : Knot(K)' = Knot(K)
    BY <2>2 DEF Cut, Missing, Knot
  <2>4. PlanTypeOK' /\ PhaseInv' /\ AvailableInv' /\ WavesFollowDependencies'
    BY <2>1, <2>2 DEF PlanInv, PlanTypeOK, PhaseInv, AvailableInv, WavesFollowDependencies
  <2>5. AccountInv' /\ EveryChildIsAccountedFor'
    BY <2>1, <2>2 DEF PlanInv, AccountInv, EveryChildIsAccountedFor, Apart
  <2>6. KnotInv' /\ OnlyTheStuckAreBlocked'
    BY <2>1, <2>2, <2>3 DEF PlanInv, KnotInv, OnlyTheStuckAreBlocked
  <2>q. QED
    BY <2>4, <2>5, <2>6 DEF PlanInv
<1>3. CASE Run
  <2>1. parent \in Contexts
    BY DEF PlanInv, PlanTypeOK
  <2>q. QED
    BY <1>3, <2>1, CallBegins DEF Run, Settle, ResolveContext, Contexts
<1>q. QED
  BY <1>1, <1>2, <1>3, HeldBack, Prepared, WavePlanned, PlanningStopped DEF PlanNext, Plan

\* A runner without children, between two plans.
LEMMA NoPlan ==
  ASSUME parent \in Contexts, phase \in {"given", "planned"}, parent = "resolved" \/ phase = "given",
         phase = "planned" => children = <<>>,
         schedulable = {}, available = {}, waves = <<>>, blocked = {}
  PROVE  PlanInv
<1>1. PlanTypeOK /\ WavesFollowDependencies
  BY DEF PlanTypeOK, WavesFollowDependencies
<1>2. PhaseInv /\ AvailableInv /\ AccountInv /\ KnotInv
  BY DEF PhaseInv, AvailableInv, AccountInv, KnotInv, Distinct
<1>3. EveryChildIsAccountedFor /\ OnlyTheStuckAreBlocked
  <2>1. CASE phase = "given"
    BY <2>1 DEF EveryChildIsAccountedFor, OnlyTheStuckAreBlocked
  <2>2. CASE phase = "planned"
    <3>1. DOMAIN children = {}
      BY <2>2
    <3>2. Refs = {} /\ Waved = {} /\ \A s : Marked(s) = {}
      BY <3>1 DEF Refs, Waved, Marked
    <3>q. QED
      BY <3>2 DEF EveryChildIsAccountedFor, OnlyTheStuckAreBlocked
  <2>q. QED
    BY <2>1, <2>2
<1>q. QED
  BY <1>1, <1>2, <1>3 DEF PlanInv

\* The plan's invariant, for every list of children.
LEMMA PlansHold ==
  ASSUME \A list \in Inputs : IsChildren(list)
  PROVE  PlanSpec => [](IsChildren(children) /\ PlanInv)
<1>1. PlanInit => IsChildren(children) /\ PlanInv
  BY NoPlan DEF PlanInit
<1>2. IsChildren(children) /\ PlanInv /\ [PlanNext]_planVars => (IsChildren(children) /\ PlanInv)'
  BY ChildrenStay, PlanStep
<1>q. QED
  BY <1>1, <1>2, PTL DEF PlanSpec

----------------------------------------------------------------------------
(***************************************************************************)
(* From the module to its plans.  A step of the whole is a step of the     *)
(* walk or a step of the planner, and the other one stands still.          *)
(***************************************************************************)
LEMMA StepsOfTheWhole ==
  ASSUME [ResolvedNext]_allVars
  PROVE  /\ [Next]_vars
         /\ \/ [PlanNext]_planVars
            \/ \E fam : \E context \in Contexts : Begin(fam, context)
<1>1. CASE Walk
  <2>1. Next
    <3>1. CASE EnterFam
      BY <3>1, AnswersAssumption DEF EnterFam, Next, Resolve
    <3>2. CASE AnswerWithoutEntering
      BY <3>2 DEF AnswerWithoutEntering, Next, Resolve
    <3> QED BY <1>1, <3>1, <3>2 DEF Walk
  <2>2. UNCHANGED planVars
    BY <1>1 DEF Walk, planning
  <2> QED BY <2>1, <2>2
<1>2. CASE PlanModule
  <2>1. PICK i \in DOMAIN fams, context \in Contexts : Begin(fams[i], context)
    BY <1>2 DEF PlanModule
  <2>2. UNCHANGED vars
    BY <1>2 DEF PlanModule
  <2> QED BY <2>1, <2>2
<1>3. CASE RunPlan
  BY <1>3 DEF RunPlan, RunnerNext
<1>4. CASE UNCHANGED allVars
  BY <1>4 DEF allVars, planning
<1> QED BY <1>1, <1>2, <1>3, <1>4 DEF ResolvedNext

LEMMA ResolvedWalks == ResolvedSpec => Walking
<1>1. ResolvedInit => Init
  BY DEF ResolvedInit
<1>2. [ResolvedNext]_allVars => [Next]_vars
  BY StepsOfTheWhole
<1> QED BY <1>1, <1>2, PTL DEF ResolvedSpec, Walking

\* What a module is planned from are children, all of them ready.
LEMMA BegunWithChildren ==
  ASSUME NEW fam, NEW context \in Contexts, Begin(fam, context)
  PROVE  IsChildren(children') /\ PlanInv'
<1>1. CallAgain(context, ProjectTopologyForRunner(topology', Ready(topology')))
  BY DEF Begin
<1>2. PICK t : t = topology'
  OBVIOUS
<1> DEFINE list == ProjectTopologyForRunner(t, Ready(t))
<1>3. children' = list
  BY <1>1, <1>2 DEF CallAgain
<1>4. ASSUME NEW i \in DOMAIN list
      PROVE  list[i] \in [childRef : {list[i].childRef}, dependsOn : {list[i].dependsOn},
                          status : ChildStatuses]
  <2>1. i \in DOMAIN t.nodes
    BY DEF ProjectTopologyForRunner
  <2>2. Ready(t)[t.nodes[i].nodeRef] = "ready"
    BY <2>1 DEF Ready, ToSet
  <2> QED BY <2>2 DEF ProjectTopologyForRunner, ChildStatuses
<1>5. IsChildren(children')
  BY <1>3, <1>4 DEF IsChildren
<1> QED BY <1>1, <1>5, CallBegins

LEMMA ResolvedPlansHold == ResolvedSpec => [](IsChildren(children) /\ PlanInv)
<1>1. ResolvedInit => IsChildren(children) /\ PlanInv
  <2> SUFFICES ASSUME ResolvedInit PROVE IsChildren(children) /\ PlanInv
    OBVIOUS
  <2>1. /\ parent = "resolved" /\ children = <<>> /\ phase = "planned"
        /\ schedulable = {} /\ available = {} /\ waves = <<>> /\ blocked = {}
    BY DEF ResolvedInit, RunnerInit
  <2>2. PlanInv
    BY <2>1, NoPlan DEF Contexts
  <2> QED BY <2>1, <2>2 DEF IsChildren
<1>2. IsChildren(children) /\ PlanInv /\ [ResolvedNext]_allVars => (IsChildren(children) /\ PlanInv)'
  BY StepsOfTheWhole, ChildrenStay, PlanStep, BegunWithChildren
<1> QED BY <1>1, <1>2, PTL DEF ResolvedSpec

----------------------------------------------------------------------------
(***************************************************************************)
(* The topology.  References are defined one after another; a solution of  *)
(* their equation exists because there is no least length without one.     *)
(***************************************************************************)
\* A nonempty set of numbers has a least element.
LEMMA LeastOf ==
  ASSUME NEW T \in SUBSET Nat, T # {}
  PROVE  \E n \in T : \A m \in T : n <= m
<1>1. \A x, y \in Nat : <<y, x>> \in OpToRel(<, Nat) <=> y < x
  BY SMT DEF OpToRel
<1>2. \E x \in T : \A y \in T : <<y, x>> \notin OpToRel(<, Nat)
  BY NatLessThanWellFounded, WFMin, Zenon
<1>3. \E x \in T : \A y \in T : ~(y < x)
  BY <1>1, <1>2, Zenon
<1>4. PICK x \in T : \A y \in T : ~(y < x)
  BY <1>3, Zenon
<1> HIDE <1>1, <1>2
<1>5. \A y \in T : x <= y
  BY ONLY T \in SUBSET Nat, x \in T, <1>4, SMT
<1> QED BY <1>5, Zenon

\* The references of the nodes: each from its name, its place and those before it.
LEMMA RefsOfTheNodes ==
  ASSUME NEW fam, NEW n \in Nat, DOMAIN fam = 1..n
  PROVE  /\ DOMAIN NodeRefs(fam) = 1..n
         /\ \A i \in 1..n : NodeRefs(fam)[i] = RefOf(Seen(NodeRefs(fam), i), fam[i].explicit, i)
<1> DEFINE Solves(f, m) == f = [i \in 1..m |-> RefOf({f[j] : j \in 1..(i - 1)}, fam[i].explicit, i)]
           T == {m \in Nat : ~\E f : Solves(f, m)}
<1>1. T = {}
  <2> SUFFICES ASSUME T # {} PROVE FALSE
    OBVIOUS
  <2>1. PICK m \in T : \A k \in T : m <= k
    <3>1. T \in SUBSET Nat
      OBVIOUS
    <3> HIDE DEF T
    <3> QED BY <3>1, LeastOf
  <2>2. m \in Nat /\ ~\E f : Solves(f, m)
    OBVIOUS
  <2>3. m # 0
    <3> SUFFICES ASSUME m = 0 PROVE FALSE
      OBVIOUS
    <3>1. Solves(<<>>, 0)
      OBVIOUS
    <3> HIDE DEF Solves
    <3> QED BY <2>2, <3>1
  <2>4. m - 1 \in Nat /\ m - 1 \notin T
    <3>1. m - 1 \in Nat /\ ~(m <= m - 1)
      BY <2>2, <2>3
    <3> HIDE DEF T
    <3> QED BY <2>1, <3>1
  <2>5. PICK f : Solves(f, m - 1)
    BY <2>4
  <2> DEFINE g == [i \in 1..m |-> RefOf({f[j] : j \in 1..(i - 1)}, fam[i].explicit, i)]
  <2>6. \A j \in 1..(m - 1) : g[j] = f[j]
    <3>1. 1..(m - 1) \subseteq 1..m
      BY <2>2
    <3>2. \A j \in 1..(m - 1) : f[j] = RefOf({f[k] : k \in 1..(j - 1)}, fam[j].explicit, j)
      BY <2>5
    <3> QED BY <3>1, <3>2
  <2>7. \A i \in 1..m : {f[j] : j \in 1..(i - 1)} = {g[j] : j \in 1..(i - 1)}
    <3>1. \A i \in 1..m : \A j \in 1..(i - 1) : j \in 1..(m - 1)
      BY <2>2
    <3> HIDE DEF g
    <3> QED BY <2>6, <3>1
  <2>8. g = [i \in 1..m |-> RefOf({g[j] : j \in 1..(i - 1)}, fam[i].explicit, i)]
    BY <2>7, Zenon
  <2> HIDE DEF g
  <2> QED BY <2>2, <2>8
<1>2. \E f : Solves(f, n)
  BY <1>1
<1>3. NodeRefs(fam) = CHOOSE f : Solves(f, n)
  BY Zenon DEF NodeRefs
<1>4. Solves(NodeRefs(fam), n)
  <2> HIDE DEF Solves
  <2> QED BY <1>2, <1>3, Zenon
<1>5. \A i \in 1..n :
        NodeRefs(fam)[i] = RefOf({NodeRefs(fam)[j] : j \in 1..(i - 1)}, fam[i].explicit, i)
  BY <1>4
<1> QED BY <1>4, <1>5 DEF Seen

\* Where two nodes share a reference the later one is reported.
LEMMA SharedRefsAreReported ==
  ASSUME NEW fam, NEW n \in Nat, DOMAIN fam = 1..n,
         NEW i \in 1..n, NEW j \in 1..n, i < j, NodeRefs(fam)[i] = NodeRefs(fam)[j]
  PROVE  j \in DuplicateNodeRefs(fam, NodeRefs(fam))
<1>1. NodeRefs(fam)[j] = RefOf(Seen(NodeRefs(fam), j), fam[j].explicit, j)
  BY RefsOfTheNodes
<1>2. NodeRefs(fam)[j] \in Seen(NodeRefs(fam), j)
  BY DEF Seen
<1> QED BY <1>1, <1>2 DEF RefOf, DuplicateNodeRefs

\* What normalizeFamTopology makes of a FAM, part by part.
NodesOf(fam) == TopologyNodes(fam, NodeRefs(fam))

TextsOf(fam) == UNION {{<<NodeRefs(fam)[i], t>> : t \in ToSet(fam[i].texts)} : i \in DOMAIN fam}
SelectorsOf(fam) ==
  {[nodeRef |-> d[1], text |-> d[2], selector |-> ParseFamSelector(d[2])] :
     d \in {t \in TextsOf(fam) : LooksLikeSelector(t[2]) /\ ParseFamSelector(t[2]) # Undefined}}

TargetOf(fam, d) == DeclaredTarget(NodesOf(fam), ByRef(NodesOf(fam), d.nodeRef), d.selector)
DeclaredBy(fam) ==
  {d \in {s \in SelectorsOf(fam) : s.selector.traversal \in Directional} : TargetOf(fam, d) # Undefined}

ContainmentOf(fam) ==
  UNION {{[kind |-> "containment", from |-> n.nodeRef, to |-> c, layerRefs |-> {}] : c \in ToSet(n.childRefs)} :
           n \in ToSet(NodesOf(fam))}
EdgesDeclared(fam) ==
  {DeclaredEdge(NodesOf(fam), ByRef(NodesOf(fam), d.nodeRef), d.selector, TargetOf(fam, d)) : d \in DeclaredBy(fam)}

\* These are the parts of the topology.
LEMMA Normalised ==
  ASSUME NEW fam
  PROVE  LET t == NormalizeFamTopology(fam) IN
         /\ t.nodes = NodesOf(fam)
         /\ t.edges = Merged(ContainmentOf(fam) \cup EdgesDeclared(fam))
         /\ t.selectors = SelectorsOf(fam)
         /\ \A i \in DuplicateNodeRefs(fam, NodeRefs(fam)) : <<"duplicate-node-ref", i>> \in t.issues
BY Zenon DEF NormalizeFamTopology, NodesOf, ContainmentOf, EdgesDeclared, DeclaredBy, TargetOf, SelectorsOf, TextsOf

\* One record per node, at its place.
LEMMA NodesAtTheirPlaces ==
  ASSUME NEW fam
  PROVE  /\ DOMAIN NodesOf(fam) = DOMAIN fam
         /\ \A i \in DOMAIN fam :
              /\ NodesOf(fam)[i].nodeRef = NodeRefs(fam)[i]
              /\ NodesOf(fam)[i].parentRef = IF fam[i].up = 0 THEN Undefined ELSE NodeRefs(fam)[fam[i].up]
              /\ NodesOf(fam)[i].childRefs = [j \in Children(fam, i) |-> NodeRefs(fam)[j]]
              /\ NodesOf(fam)[i].key = fam[i].key
BY DEF NodesOf, TopologyNodes

\* References that are not shared find their node, whichever way they are looked up.
LEMMA FoundByRef ==
  ASSUME NEW nodes, NEW n \in Nat, DOMAIN nodes = 1..n,
         \A i, j \in 1..n : nodes[i].nodeRef = nodes[j].nodeRef => i = j,
         NEW i \in 1..n
  PROVE  ByRef(nodes, nodes[i].nodeRef) = nodes[i] /\ Find(nodes, nodes[i].nodeRef) = nodes[i]
<1> DEFINE last == CHOOSE k \in DOMAIN nodes :
             nodes[k].nodeRef = nodes[i].nodeRef /\ \A j \in DOMAIN nodes : nodes[j].nodeRef = nodes[i].nodeRef => j <= k
           first == CHOOSE k \in DOMAIN nodes :
             nodes[k].nodeRef = nodes[i].nodeRef /\ \A j \in DOMAIN nodes : nodes[j].nodeRef = nodes[i].nodeRef => k <= j
<1>1. \A j \in DOMAIN nodes : nodes[j].nodeRef = nodes[i].nodeRef => j <= i /\ i <= j
  OBVIOUS
<1>2. last \in DOMAIN nodes /\ nodes[last].nodeRef = nodes[i].nodeRef
  BY <1>1
<1>3. first \in DOMAIN nodes /\ nodes[first].nodeRef = nodes[i].nodeRef
  BY <1>1
<1>4. last = i /\ first = i
  BY <1>2, <1>3
<1>5. ByRef(nodes, nodes[i].nodeRef) = nodes[last] /\ Find(nodes, nodes[i].nodeRef) = nodes[first]
  BY Zenon DEF ByRef, Find
<1> QED BY <1>4, <1>5

----------------------------------------------------------------------------
\* A FAM whose nodes have references of their own.
Named(fam) == IsFam(fam) /\ \A i, j \in DOMAIN fam : NodeRefs(fam)[i] = NodeRefs(fam)[j] => i = j

LEMMA NodesOfNamed ==
  ASSUME NEW fam, Named(fam)
  PROVE  /\ \E n \in Nat : DOMAIN fam = 1..n
         /\ \A i \in DOMAIN fam :
              /\ ByRef(NodesOf(fam), NodeRefs(fam)[i]) = NodesOf(fam)[i]
              /\ Find(NodesOf(fam), NodeRefs(fam)[i]) = NodesOf(fam)[i]
<1>1. PICK n \in Nat : DOMAIN fam = 1..n
  BY DEF Named, IsFam
<1>2. DOMAIN NodesOf(fam) = 1..n /\ \A i \in 1..n : NodesOf(fam)[i].nodeRef = NodeRefs(fam)[i]
  BY <1>1, NodesAtTheirPlaces
<1>3. \A i, j \in 1..n : NodesOf(fam)[i].nodeRef = NodesOf(fam)[j].nodeRef => i = j
  BY <1>1, <1>2 DEF Named
<1>4. ASSUME NEW i \in 1..n
      PROVE  /\ ByRef(NodesOf(fam), NodesOf(fam)[i].nodeRef) = NodesOf(fam)[i]
             /\ Find(NodesOf(fam), NodesOf(fam)[i].nodeRef) = NodesOf(fam)[i]
  BY <1>2, <1>3, FoundByRef
<1> QED BY <1>1, <1>2, <1>4

\* A declaration points to another child of the same node, to the one it names if
\* there is one.
LEMMA TargetsAreBeside ==
  ASSUME NEW fam, Named(fam), NEW i \in DOMAIN fam, NEW selector,
         DeclaredTarget(NodesOf(fam), NodesOf(fam)[i], selector) # Undefined
  PROVE  \E j \in DOMAIN fam :
           /\ DeclaredTarget(NodesOf(fam), NodesOf(fam)[i], selector) = NodeRefs(fam)[j]
           /\ fam[j].up = fam[i].up
           /\ \/ selector.qualifiers = <<>> \/ fam[j].key = selector.qualifiers
              \/ \A k \in DOMAIN fam : fam[k].up = fam[i].up => fam[k].key # selector.qualifiers
<1> DEFINE nodes == NodesOf(fam)
           refs == NodeRefs(fam)
           source == nodes[i]
           siblings == IF source.parentRef = Undefined THEN <<>> ELSE ByRef(nodes, source.parentRef).childRefs
           addressed == {k \in DOMAIN siblings : ByRef(nodes, siblings[k]).key = selector.qualifiers}
           places == {k \in DOMAIN siblings : siblings[k] = source.nodeRef}
           first(S) == CHOOSE k \in S : \A l \in S : k <= l
           neighbours == Beside(DOMAIN siblings, first(places), selector.traversal)
           target == DeclaredTarget(nodes, source, selector)
<1>1. target = IF selector.qualifiers # <<>> /\ addressed # {} THEN siblings[first(addressed)]
               ELSE IF places # {} /\ neighbours # {} THEN siblings[first(neighbours)]
               ELSE Undefined
  BY Zenon DEF DeclaredTarget
<1>2. PICK n \in Nat : DOMAIN fam = 1..n
  BY NodesOfNamed
<1>3. /\ source.parentRef = IF fam[i].up = 0 THEN Undefined ELSE refs[fam[i].up]
      /\ fam[i].up \in 0..(i - 1)
  BY NodesAtTheirPlaces DEF Named, IsFam
<1>4. CASE source.parentRef = Undefined
  <2>1. DOMAIN siblings = {}
    BY <1>4
  <2>2. addressed = {} /\ places = {}
    BY <2>1
  <2> HIDE DEF addressed, places, siblings, neighbours, target
  <2>3. target = Undefined
    BY <1>1, <2>2
  <2> QED BY <2>3 DEF target
<1>5. CASE source.parentRef # Undefined
  <2>1. fam[i].up \in 1..n /\ source.parentRef = refs[fam[i].up]
    BY <1>2, <1>3, <1>5
  <2>2. ByRef(nodes, source.parentRef).childRefs = [j \in Children(fam, fam[i].up) |-> refs[j]]
    BY <1>2, <2>1, NodesOfNamed, NodesAtTheirPlaces
  <2>3. siblings = [j \in Children(fam, fam[i].up) |-> refs[j]]
    BY <1>5, <2>2
  <2>4. DOMAIN siblings = {j \in DOMAIN fam : fam[j].up = fam[i].up}
    BY <2>3 DEF Children
  <2>5. \A j \in DOMAIN siblings : siblings[j] = refs[j] /\ ByRef(nodes, siblings[j]).key = fam[j].key
    <3>1. \A j \in DOMAIN fam : ByRef(nodes, refs[j]) = nodes[j] /\ nodes[j].key = fam[j].key
      BY NodesOfNamed, NodesAtTheirPlaces
    <3>2. \A j \in DOMAIN siblings : j \in DOMAIN fam /\ siblings[j] = refs[j]
      BY <2>3, <2>4
    <3> HIDE DEF siblings, nodes, refs
    <3> QED BY <3>1, <3>2
  <2> HIDE DEF siblings, source, nodes, refs
  <2>6. ASSUME NEW S \in SUBSET (DOMAIN siblings), S # {}
        PROVE  first(S) \in S
    <3>1. S \in SUBSET Nat
      BY <1>2, <2>4
    <3>2. \E k \in S : \A l \in S : k <= l
      BY <2>6, <3>1, LeastOf
    <3> QED BY <3>2
  <2>7. addressed \in SUBSET (DOMAIN siblings) /\ neighbours \in SUBSET (DOMAIN siblings)
    BY DEF Beside
  <2>8. \A k \in DOMAIN fam : fam[k].up = fam[i].up /\ fam[k].key = selector.qualifiers => k \in addressed
    BY <2>4, <2>5
  <2>9. CASE selector.qualifiers # <<>> /\ addressed # {}
    <3>1. first(addressed) \in addressed
      BY <2>6, <2>7, <2>9
    <3>2. target = siblings[first(addressed)]
      BY <1>1, <2>9
    <3>3. first(addressed) \in DOMAIN fam /\ fam[first(addressed)].up = fam[i].up
          /\ fam[first(addressed)].key = selector.qualifiers /\ target = refs[first(addressed)]
      BY <2>4, <2>5, <3>1, <3>2
    <3> HIDE DEF addressed, target, first
    <3> QED BY <3>3 DEF target, source, nodes, refs
  <2>10. CASE ~(selector.qualifiers # <<>> /\ addressed # {})
    <3> HIDE DEF addressed, target, neighbours, places
    <3>1. places # {} /\ neighbours # {} /\ target = siblings[first(neighbours)]
      BY <1>1, <2>10 DEF target, source, nodes
    <3>2. first(neighbours) \in neighbours
      BY <2>6, <2>7, <3>1
    <3>3. first(neighbours) \in DOMAIN fam /\ fam[first(neighbours)].up = fam[i].up
          /\ target = refs[first(neighbours)]
      BY <2>4, <2>5, <2>7, <3>1, <3>2
    <3>4. \/ selector.qualifiers = <<>>
          \/ \A k \in DOMAIN fam : fam[k].up = fam[i].up => fam[k].key # selector.qualifiers
      BY <2>8, <2>10
    <3> HIDE DEF first
    <3> QED BY <3>3, <3>4 DEF target, source, nodes, refs
  <2> QED BY <2>9, <2>10
<1> QED BY <1>4, <1>5

\* What a selector is that can be read.
LEMMA ParsedSelectors ==
  ASSUME NEW text, text \in Seq(ToSet(text)), ParseFamSelector(text) # Undefined
  PROVE  /\ ParseFamSelector(text).qualifiers \in Seq(ToSet(text))
         /\ ParseFamSelector(text).traversal \in Traversals \cup {Undefined}
<1> DEFINE bare == [base |-> text[1], traversal |-> Undefined, qualifiers |-> <<>>]
           long == [bare EXCEPT !.traversal = text[2], !.qualifiers = SubSeq(text, 3, Len(text))]
           s == ParseFamSelector(text)
<1>1. s = bare \/ (s = long /\ text[2] \in Traversals)
  BY Zenon DEF ParseFamSelector
<1>2. bare.qualifiers = <<>> /\ bare.traversal = Undefined
      /\ long.qualifiers = SubSeq(text, 3, Len(text)) /\ long.traversal = text[2]
  OBVIOUS
<1>3. Len(text) \in Nat
  OBVIOUS
<1>4. SubSeq(text, 3, Len(text)) \in Seq(ToSet(text))
  BY <1>3
<1>5. <<>> \in Seq(ToSet(text))
  OBVIOUS
<1> HIDE DEF bare, long
<1>6. CASE s = bare
  <2>1. s.qualifiers = <<>> /\ s.traversal = Undefined
    BY <1>2, <1>6
  <2> QED BY <1>5, <2>1
<1>7. CASE s = long /\ text[2] \in Traversals
  <2>1. s.qualifiers = SubSeq(text, 3, Len(text)) /\ s.traversal = text[2]
    BY <1>2, <1>7
  <2> QED BY <1>4, <1>7, <2>1
<1> QED BY <1>1, <1>6, <1>7

\* A declaration is of a node, whose text it reads.
LEMMA SelectorsAreOfNodes ==
  ASSUME NEW fam, Named(fam), NEW d \in SelectorsOf(fam)
  PROVE  /\ \E i \in DOMAIN fam : d.nodeRef = NodeRefs(fam)[i]
         /\ d.selector = ParseFamSelector(d.text)
         /\ \E S : d.selector.qualifiers \in Seq(S)
         /\ d.selector.traversal \in Traversals \cup {Undefined}
<1>1. PICK x \in TextsOf(fam) :
        /\ ParseFamSelector(x[2]) # Undefined
        /\ d = [nodeRef |-> x[1], text |-> x[2], selector |-> ParseFamSelector(x[2])]
  BY DEF SelectorsOf
<1>2. PICK i \in DOMAIN fam : \E t \in ToSet(fam[i].texts) : x = <<NodeRefs(fam)[i], t>>
  BY DEF TextsOf
<1>3. PICK t \in ToSet(fam[i].texts) : x = <<NodeRefs(fam)[i], t>>
  BY <1>2
<1>4. x[1] = NodeRefs(fam)[i] /\ x[2] = t
  BY <1>3
<1>5. t \in Seq(ToSet(t))
  BY DEF Named, IsFam
<1>6. ParseFamSelector(t).qualifiers \in Seq(ToSet(t)) /\ ParseFamSelector(t).traversal \in Traversals \cup {Undefined}
  BY <1>1, <1>4, <1>5, ParsedSelectors
<1>7. d.nodeRef = NodeRefs(fam)[i] /\ d.text = t /\ d.selector = ParseFamSelector(t)
  BY <1>1, <1>4
<1> QED BY <1>6, <1>7

\* The nodes a declaration is of and points to.
LEMMA DeclarationsOfNodes ==
  ASSUME NEW fam, Named(fam), NEW d \in DeclaredBy(fam)
  PROVE  /\ d \in SelectorsOf(fam) /\ d.selector.traversal \in Directional
         /\ \E i, j \in DOMAIN fam :
              /\ d.nodeRef = NodeRefs(fam)[i] /\ TargetOf(fam, d) = NodeRefs(fam)[j]
              /\ fam[j].up = fam[i].up
              /\ \/ d.selector.qualifiers = <<>> \/ fam[j].key = d.selector.qualifiers
                 \/ \A k \in DOMAIN fam : fam[k].up = fam[i].up => fam[k].key # d.selector.qualifiers
<1>1. d \in SelectorsOf(fam) /\ d.selector.traversal \in Directional /\ TargetOf(fam, d) # Undefined
  BY DEF DeclaredBy
<1>2. PICK i \in DOMAIN fam : d.nodeRef = NodeRefs(fam)[i]
  BY <1>1, SelectorsAreOfNodes
<1>3. TargetOf(fam, d) = DeclaredTarget(NodesOf(fam), NodesOf(fam)[i], d.selector)
  BY <1>2, NodesOfNamed DEF TargetOf
<1>4. PICK selector : selector = d.selector
  OBVIOUS
<1>5. \E j \in DOMAIN fam :
           /\ DeclaredTarget(NodesOf(fam), NodesOf(fam)[i], selector) = NodeRefs(fam)[j]
           /\ fam[j].up = fam[i].up
           /\ \/ selector.qualifiers = <<>> \/ fam[j].key = selector.qualifiers
              \/ \A k \in DOMAIN fam : fam[k].up = fam[i].up => fam[k].key # selector.qualifiers
  BY <1>1, <1>3, <1>4, TargetsAreBeside
<1> QED BY <1>1, <1>2, <1>3, <1>4, <1>5

\* The ends of the edge a declaration stands for.
EndsOf(fam, d) ==
  IF d.selector.traversal \in Forward THEN <<d.nodeRef, TargetOf(fam, d)>> ELSE <<TargetOf(fam, d), d.nodeRef>>

\* What the edge of a declaration says.
LEMMA EdgesOfDeclarations ==
  ASSUME NEW fam, Named(fam), NEW d \in DeclaredBy(fam),
         NEW e, e = DeclaredEdge(NodesOf(fam), ByRef(NodesOf(fam), d.nodeRef), d.selector, TargetOf(fam, d))
  PROVE  /\ DOMAIN e = {"kind", "from", "to", "layerRefs"}
         /\ e.kind = EdgeKind(d.selector.traversal) /\ <<e.from, e.to>> = EndsOf(fam, d)
         /\ d.selector.qualifiers # <<>> /\ ByRef(NodesOf(fam), TargetOf(fam, d)).key # d.selector.qualifiers
              => e.layerRefs = ToSet(d.selector.qualifiers)
<1>1. PICK i \in DOMAIN fam : d.nodeRef = NodeRefs(fam)[i]
  BY DeclarationsOfNodes
<1>2. ByRef(NodesOf(fam), d.nodeRef).nodeRef = d.nodeRef
  <2>1. ByRef(NodesOf(fam), NodeRefs(fam)[i]) = NodesOf(fam)[i]
    BY NodesOfNamed
  <2>2. NodesOf(fam)[i].nodeRef = NodeRefs(fam)[i]
    BY NodesAtTheirPlaces
  <2> QED BY <1>1, <2>1, <2>2
<1> DEFINE ahead == d.selector.traversal \in Forward
           named == d.selector.qualifiers # <<>> /\ ByRef(NodesOf(fam), TargetOf(fam, d)).key = d.selector.qualifiers
           source == ByRef(NodesOf(fam), d.nodeRef)
           target == TargetOf(fam, d)
           edge == [kind |-> EdgeKind(d.selector.traversal),
                    from |-> IF ahead THEN source.nodeRef ELSE target,
                    to |-> IF ahead THEN target ELSE source.nodeRef,
                    layerRefs |-> IF named THEN {} ELSE ToSet(d.selector.qualifiers)]
<1>3. e = edge
  BY Zenon DEF DeclaredEdge
<1>4. /\ edge.kind = EdgeKind(d.selector.traversal)
      /\ edge.from = IF ahead THEN source.nodeRef ELSE target
      /\ edge.to = IF ahead THEN target ELSE source.nodeRef
      /\ edge.layerRefs = IF named THEN {} ELSE ToSet(d.selector.qualifiers)
  <2> HIDE DEF ahead, named, source, target
  <2> QED OBVIOUS
<1>5. DOMAIN edge = {"kind", "from", "to", "layerRefs"}
  <2> HIDE DEF ahead, named, source, target
  <2> QED OBVIOUS
<1>6. <<e.from, e.to>> = IF ahead THEN <<d.nodeRef, target>> ELSE <<target, d.nodeRef>>
  <2> HIDE DEF ahead, edge, target
  <2> QED BY <1>2, <1>3, <1>4 DEF source
<1>7. <<e.from, e.to>> = EndsOf(fam, d)
  BY <1>6, Zenon DEF EndsOf
<1> HIDE DEF edge
<1> QED BY <1>3, <1>4, <1>5, <1>7

\* Merging keeps kinds and ends, and loses no layer.
LEMMA MergedEdges ==
  ASSUME NEW edges
  PROVE  /\ \A e \in Merged(edges) : \E f \in edges : e.kind = f.kind /\ e.from = f.from /\ e.to = f.to
         /\ \A f \in edges : DOMAIN f = {"kind", "from", "to", "layerRefs"} =>
              \E e \in Merged(edges) :
                e.kind = f.kind /\ e.from = f.from /\ e.to = f.to /\ f.layerRefs \subseteq e.layerRefs
<1> DEFINE M(e) == [e EXCEPT !.layerRefs =
      UNION {f.layerRefs : f \in {g \in edges : <<g.kind, g.from, g.to>> = <<e.kind, e.from, e.to>>}}]
<1>1. Merged(edges) = {M(e) : e \in edges}
  BY Zenon DEF Merged
<1>2. \A e : M(e).kind = e.kind /\ M(e).from = e.from /\ M(e).to = e.to
  OBVIOUS
<1>3. ASSUME NEW f \in edges, DOMAIN f = {"kind", "from", "to", "layerRefs"}
      PROVE  f.layerRefs \subseteq M(f).layerRefs
  <2>1. M(f).layerRefs =
          UNION {h.layerRefs : h \in {g \in edges : <<g.kind, g.from, g.to>> = <<f.kind, f.from, f.to>>}}
    BY <1>3
  <2> HIDE DEF M
  <2> QED BY <2>1
<1> HIDE DEF M
<1> QED BY <1>1, <1>2, <1>3

\* The declarations runtime edges stand for, those of before and after.
RunDeclaredBy(fam) == {d \in DeclaredBy(fam) : d.selector.traversal \in {"before", "after"}}

\* Every runtime edge is declared, and every such declaration has its edge.
LEMMA RuntimeEdges ==
  ASSUME NEW fam, Named(fam), NEW t, t = NormalizeFamTopology(fam)
  PROVE  /\ \A e \in t.edges : e.kind = "runtime" =>
              \E d \in RunDeclaredBy(fam) : <<e.from, e.to>> = EndsOf(fam, d)
         /\ \A d \in RunDeclaredBy(fam) :
              \E e \in t.edges :
                /\ e.kind = "runtime" /\ <<e.from, e.to>> = EndsOf(fam, d)
                /\ d.selector.qualifiers # <<>>
                     /\ ByRef(NodesOf(fam), TargetOf(fam, d)).key # d.selector.qualifiers
                     => ToSet(d.selector.qualifiers) \subseteq e.layerRefs
<1> DEFINE plain == ContainmentOf(fam) \cup EdgesDeclared(fam)
<1>1. t.edges = Merged(plain)
  BY Normalised
<1>2. \A f \in ContainmentOf(fam) : f.kind = "containment"
  BY DEF ContainmentOf
<1>3. ASSUME NEW e \in t.edges, e.kind = "runtime"
      PROVE  \E d \in RunDeclaredBy(fam) : <<e.from, e.to>> = EndsOf(fam, d)
  <2>1. PICK f \in plain : e.kind = f.kind /\ e.from = f.from /\ e.to = f.to
    BY <1>1, MergedEdges
  <2>2. f \in EdgesDeclared(fam)
    BY <1>2, <1>3, <2>1
  <2>3. PICK d \in DeclaredBy(fam) :
          f = DeclaredEdge(NodesOf(fam), ByRef(NodesOf(fam), d.nodeRef), d.selector, TargetOf(fam, d))
    BY <2>2 DEF EdgesDeclared
  <2>4. f.kind = EdgeKind(d.selector.traversal) /\ <<f.from, f.to>> = EndsOf(fam, d)
    BY <2>3, EdgesOfDeclarations
  <2>5. d.selector.traversal \in Directional
    BY DeclarationsOfNodes
  <2>6. d.selector.traversal \in {"before", "after"}
    BY <1>3, <2>1, <2>4, <2>5 DEF EdgeKind, Directional
  <2>7. d \in RunDeclaredBy(fam)
    BY <2>6 DEF RunDeclaredBy
  <2>8. <<e.from, e.to>> = <<f.from, f.to>>
    BY <2>1
  <2> QED BY <2>4, <2>7, <2>8
<1>4. ASSUME NEW d \in RunDeclaredBy(fam)
      PROVE  \E e \in t.edges :
                /\ e.kind = "runtime" /\ <<e.from, e.to>> = EndsOf(fam, d)
                /\ d.selector.qualifiers # <<>>
                     /\ ByRef(NodesOf(fam), TargetOf(fam, d)).key # d.selector.qualifiers
                     => ToSet(d.selector.qualifiers) \subseteq e.layerRefs
  <2>1. d \in DeclaredBy(fam) /\ d.selector.traversal \in {"before", "after"}
    BY DEF RunDeclaredBy
  <2>2. PICK f :
          f = DeclaredEdge(NodesOf(fam), ByRef(NodesOf(fam), d.nodeRef), d.selector, TargetOf(fam, d))
    OBVIOUS
  <2>3. /\ DOMAIN f = {"kind", "from", "to", "layerRefs"}
        /\ f.kind = EdgeKind(d.selector.traversal) /\ <<f.from, f.to>> = EndsOf(fam, d)
        /\ d.selector.qualifiers # <<>> /\ ByRef(NodesOf(fam), TargetOf(fam, d)).key # d.selector.qualifiers
              => f.layerRefs = ToSet(d.selector.qualifiers)
    BY <2>1, <2>2, EdgesOfDeclarations
  <2>4. f \in plain
    BY <2>1, <2>2 DEF EdgesDeclared
  <2>5. PICK e \in Merged(plain) :
          e.kind = f.kind /\ e.from = f.from /\ e.to = f.to /\ f.layerRefs \subseteq e.layerRefs
    BY <2>3, <2>4, MergedEdges
  <2>6. EdgeKind(d.selector.traversal) = "runtime"
    BY <2>1 DEF EdgeKind
  <2>7. e \in t.edges /\ e.kind = "runtime"
    BY <1>1, <2>3, <2>5, <2>6
  <2>8. <<e.from, e.to>> = EndsOf(fam, d)
    BY <2>3, <2>5
  <2> HIDE DEF plain
  <2> QED BY <2>3, <2>5, <2>7, <2>8
<1> QED BY <1>3, <1>4

\* What a selector of before or after reaches from a node, and the ends of the
\* edge it takes to get there.
ReachedFrom(fam, i, s) == Reached(NormalizeFamTopology(fam), NodesOf(fam)[i], s.traversal)
EndsTo(fam, i, s, r) ==
  IF s.traversal = "after" THEN <<NodeRefs(fam)[i], r>> ELSE <<r, NodeRefs(fam)[i]>>
NamedFrom(fam, i, s) ==
  {r \in ReachedFrom(fam, i, s) : Find(NodesOf(fam), r).key = s.qualifiers}

LayeredFrom(fam, i, s) ==
  {r \in ReachedFrom(fam, i, s) : OnLayer(NormalizeFamTopology(fam), NodeRefs(fam)[i], r, s)}

\* A node is reached over an edge.
LEMMA ReachedByEdges ==
  ASSUME NEW fam, Named(fam), NEW t, t = NormalizeFamTopology(fam),
         NEW i \in DOMAIN fam, NEW s, s.traversal \in {"before", "after"},
         NEW r
  PROVE  r \in ReachedFrom(fam, i, s) <=>
           \E e \in t.edges : e.kind = "runtime" /\ <<e.from, e.to>> = EndsTo(fam, i, s, r)
<1> DEFINE here == NodeRefs(fam)[i]
           current == NodesOf(fam)[i]
           reached == Reached(t, current, s.traversal)
<1>1. current.nodeRef = here
  BY NodesAtTheirPlaces
<1>2. EdgeKind(s.traversal) = "runtime"
  BY DEF EdgeKind
<1>3. ReachedFrom(fam, i, s) = reached
  BY DEF ReachedFrom
<1>4. CASE s.traversal = "after"
  <2>1. reached = Outgoing(t, here, "runtime")
    BY <1>1, <1>2, <1>4 DEF Reached
  <2>2. r \in reached <=> \E e \in t.edges : e.kind = "runtime" /\ e.from = here /\ e.to = r
    <3> HIDE DEF reached
    <3> QED BY <2>1 DEF Outgoing
  <2>3. EndsTo(fam, i, s, r) = <<here, r>>
    BY <1>4 DEF EndsTo
  <2> HIDE DEF reached, here
  <2> QED BY <1>3, <2>2, <2>3
<1>5. CASE s.traversal = "before"
  <2>1. reached = Incoming(t, here, "runtime")
    BY <1>1, <1>2, <1>5 DEF Reached
  <2>2. r \in reached <=> \E e \in t.edges : e.kind = "runtime" /\ e.to = here /\ e.from = r
    <3> HIDE DEF reached
    <3> QED BY <2>1 DEF Incoming
  <2>3. EndsTo(fam, i, s, r) = <<r, here>>
    BY <1>5 DEF EndsTo
  <2> HIDE DEF reached, here
  <2> QED BY <1>3, <2>2, <2>3
<1> QED BY <1>4, <1>5

\* What resolveTopologySelector makes of what is reached.
LEMMA ResolvedFrom ==
  ASSUME NEW fam, Named(fam), NEW t, t = NormalizeFamTopology(fam),
         NEW i \in DOMAIN fam, NEW text, NEW s, s = ParseFamSelector(text),
         s.traversal \in {"before", "after"}
  PROVE  ResolveTopologySelector(t, NodeRefs(fam)[i], text) =
           IF s.qualifiers = <<>> THEN ReachedFrom(fam, i, s)
           ELSE IF NamedFrom(fam, i, s) # {} THEN NamedFrom(fam, i, s)
           ELSE LayeredFrom(fam, i, s)
<1> DEFINE here == NodeRefs(fam)[i]
           current == Find(t.nodes, here)
           reached == Reached(t, current, s.traversal)
           addressed == {r \in reached : Find(t.nodes, r).key = s.qualifiers}
<1>1. t.nodes = NodesOf(fam)
  BY Normalised
<1>2. current = NodesOf(fam)[i]
  BY <1>1, NodesOfNamed
<1>3. here \in {n.nodeRef : n \in ToSet(t.nodes)}
  <2>1. DOMAIN t.nodes = DOMAIN fam
    BY <1>1, NodesAtTheirPlaces
  <2>2. NodesOf(fam)[i] \in ToSet(t.nodes)
    BY <1>1, <2>1 DEF ToSet
  <2>3. NodesOf(fam)[i].nodeRef = here
    BY NodesAtTheirPlaces
  <2> QED BY <2>2, <2>3
<1>4. s.traversal # Undefined
  BY UndefinedAssumption DEF Traversals
<1>5. ResolveTopologySelector(t, here, text) =
        IF here \notin {n.nodeRef : n \in ToSet(t.nodes)} THEN {}
        ELSE IF s.traversal = Undefined THEN {here}
        ELSE IF s.qualifiers = <<>> THEN reached
        ELSE IF addressed # {} THEN addressed
        ELSE {r \in reached : OnLayer(t, here, r, s)}
  BY Zenon DEF ResolveTopologySelector
<1>6. reached = ReachedFrom(fam, i, s)
  <2> HIDE DEF current
  <2> QED BY <1>2, Zenon DEF ReachedFrom
<1>7. addressed = NamedFrom(fam, i, s)
  <2> HIDE DEF reached
  <2> QED BY <1>1, <1>6, Zenon DEF NamedFrom
<1>9. {r \in reached : OnLayer(t, here, r, s)} = LayeredFrom(fam, i, s)
  <2> HIDE DEF reached
  <2> QED BY <1>6, Zenon DEF LayeredFrom
<1> HIDE DEF reached, addressed, here
<1>8. ResolveTopologySelector(t, here, text) =
        IF s.qualifiers = <<>> THEN reached
        ELSE IF addressed # {} THEN addressed
        ELSE {r \in reached : OnLayer(t, here, r, s)}
  BY <1>3, <1>4, <1>5, Zenon
<1> QED BY <1>6, <1>7, <1>8, <1>9, Zenon DEF here

\* A declaration of before or after, asked again, finds the node it points to.
LEMMA DeclarationsAreFound ==
  ASSUME NEW fam, Named(fam), NEW t, t = NormalizeFamTopology(fam), NEW d \in RunDeclaredBy(fam)
  PROVE  \/ TargetOf(fam, d) \in ResolveTopologySelector(t, d.nodeRef, d.text)
         \/ Len(d.selector.qualifiers) > 1
<1>1. PICK s, text, target : s = d.selector /\ text = d.text /\ target = TargetOf(fam, d)
  OBVIOUS
<1>2. /\ d \in DeclaredBy(fam) /\ d \in SelectorsOf(fam) /\ s.traversal \in {"before", "after"}
      /\ s = ParseFamSelector(text) /\ \E S : s.qualifiers \in Seq(S)
  BY <1>1, DeclarationsOfNodes, SelectorsAreOfNodes DEF RunDeclaredBy
<1>0. \E i, j \in DOMAIN fam :
        /\ d.nodeRef = NodeRefs(fam)[i] /\ TargetOf(fam, d) = NodeRefs(fam)[j]
        /\ fam[j].up = fam[i].up
        /\ \/ d.selector.qualifiers = <<>> \/ fam[j].key = d.selector.qualifiers
           \/ \A k \in DOMAIN fam : fam[k].up = fam[i].up => fam[k].key # d.selector.qualifiers
  BY <1>2, DeclarationsOfNodes
<1>3. PICK i \in DOMAIN fam, j \in DOMAIN fam :
        /\ d.nodeRef = NodeRefs(fam)[i] /\ target = NodeRefs(fam)[j]
        /\ fam[j].up = fam[i].up
        /\ \/ s.qualifiers = <<>> \/ fam[j].key = s.qualifiers
           \/ \A k \in DOMAIN fam : fam[k].up = fam[i].up => fam[k].key # s.qualifiers
  BY <1>1, <1>0, Zenon
<1> DEFINE here == NodeRefs(fam)[i]
           ends(r) == EndsTo(fam, i, s, r)
           reached == ReachedFrom(fam, i, s)
           addressed == NamedFrom(fam, i, s)
           found == ResolveTopologySelector(t, here, text)
<1>4. \A r : r \in reached <=> \E e \in t.edges : e.kind = "runtime" /\ <<e.from, e.to>> = ends(r)
  BY <1>2, ReachedByEdges
<1>5. found = IF s.qualifiers = <<>> THEN reached
              ELSE IF addressed # {} THEN addressed
              ELSE LayeredFrom(fam, i, s)
  BY <1>2, ResolvedFrom
<1>6. EndsOf(fam, d) = ends(target)
  BY <1>1, <1>2, <1>3 DEF EndsOf, Forward, EndsTo
<1>7. PICK e \in t.edges :
        /\ e.kind = "runtime" /\ <<e.from, e.to>> = ends(target)
        /\ s.qualifiers # <<>> /\ ByRef(NodesOf(fam), target).key # s.qualifiers
             => ToSet(s.qualifiers) \subseteq e.layerRefs
  BY <1>1, <1>6, RuntimeEdges
<1>8. target \in reached
  BY <1>4, <1>7
<1>10. \A k \in DOMAIN fam : Find(NodesOf(fam), NodeRefs(fam)[k]).key = fam[k].key
                          /\ ByRef(NodesOf(fam), NodeRefs(fam)[k]).key = fam[k].key
  <2> SUFFICES ASSUME NEW k \in DOMAIN fam
               PROVE  Find(NodesOf(fam), NodeRefs(fam)[k]).key = fam[k].key
                      /\ ByRef(NodesOf(fam), NodeRefs(fam)[k]).key = fam[k].key
    OBVIOUS
  <2>1. Find(NodesOf(fam), NodeRefs(fam)[k]) = NodesOf(fam)[k]
    BY NodesOfNamed
  <2>2. ByRef(NodesOf(fam), NodeRefs(fam)[k]) = NodesOf(fam)[k]
    BY NodesOfNamed
  <2>3. NodesOf(fam)[k].key = fam[k].key
    BY NodesAtTheirPlaces
  <2> QED BY <2>1, <2>2, <2>3
<1>11. ASSUME NEW r \in reached
       PROVE  \E k \in DOMAIN fam : r = NodeRefs(fam)[k] /\ fam[k].up = fam[i].up
  <2>1. PICK f \in t.edges : f.kind = "runtime" /\ <<f.from, f.to>> = ends(r)
    BY <1>4, <1>11
  <2>2. PICK c \in RunDeclaredBy(fam) : ends(r) = EndsOf(fam, c)
    BY <2>1, RuntimeEdges
  <2>3. c \in DeclaredBy(fam)
    BY DEF RunDeclaredBy
  <2>4. PICK a \in DOMAIN fam, b \in DOMAIN fam :
          c.nodeRef = NodeRefs(fam)[a] /\ TargetOf(fam, c) = NodeRefs(fam)[b] /\ fam[b].up = fam[a].up
    BY <2>3, DeclarationsOfNodes
  <2>5. \/ ends(r) = <<NodeRefs(fam)[a], NodeRefs(fam)[b]>>
        \/ ends(r) = <<NodeRefs(fam)[b], NodeRefs(fam)[a]>>
    BY <2>2, <2>4 DEF EndsOf
  <2>6. ends(r) = <<here, r>> \/ ends(r) = <<r, here>>
    BY DEF EndsTo
  <2>7. \/ here = NodeRefs(fam)[a] /\ r = NodeRefs(fam)[b]
        \/ here = NodeRefs(fam)[b] /\ r = NodeRefs(fam)[a]
    <3> HIDE DEF ends, here
    <3> QED BY <2>5, <2>6
  <2>8. i = a \/ i = b
    BY <2>7 DEF Named
  <2>9. CASE here = NodeRefs(fam)[a] /\ r = NodeRefs(fam)[b]
    <3>1. i = a
      BY <2>9 DEF Named
    <3> QED BY <2>4, <2>9, <3>1
  <2>10. CASE here = NodeRefs(fam)[b] /\ r = NodeRefs(fam)[a]
    <3>1. i = b
      BY <2>10 DEF Named
    <3> QED BY <2>4, <2>10, <3>1
  <2> QED BY <2>7, <2>9, <2>10
<1>12. CASE s.qualifiers = <<>>
  BY <1>1, <1>3, <1>5, <1>8, <1>12
<1>13. CASE s.qualifiers # <<>> /\ fam[j].key = s.qualifiers
  <2>1. Find(NodesOf(fam), target).key = s.qualifiers
    BY <1>3, <1>10, <1>13
  <2>2. target \in addressed
    BY <1>8, <2>1 DEF NamedFrom
  <2> HIDE DEF addressed, reached, found
  <2>3. found = addressed
    BY <1>5, <1>13, <2>2
  <2> QED BY <1>1, <1>3, <2>2, <2>3 DEF found
<1>14. CASE s.qualifiers # <<>> /\ \A k \in DOMAIN fam : fam[k].up = fam[i].up => fam[k].key # s.qualifiers
  <2>1. addressed = {}
    <3> HIDE DEF reached
    <3> QED BY <1>10, <1>11, <1>14 DEF NamedFrom, reached
  <2>2. found = LayeredFrom(fam, i, s)
    <3> HIDE DEF reached, found
    <3> QED BY <1>5, <1>14, <2>1
  <2>3. ByRef(NodesOf(fam), target).key # s.qualifiers
    BY <1>3, <1>10, <1>14
  <2>4. ToSet(s.qualifiers) \subseteq e.layerRefs
    BY <1>7, <1>14, <2>3
  <2>5. CASE Len(s.qualifiers) = 1
    <3>1. PICK S : s.qualifiers \in Seq(S)
      BY <1>2
    <3>2. s.qualifiers = <<s.qualifiers[1]>> /\ 1 \in DOMAIN s.qualifiers
      BY <2>5, <3>1
    <3>3. s.qualifiers[1] \in e.layerRefs
      BY <2>4, <3>2 DEF ToSet
    <3>4. EdgeKind(s.traversal) = "runtime"
      BY <1>2 DEF EdgeKind
    <3>5. <<e.from, e.to>> = IF s.traversal \in Forward THEN <<here, target>> ELSE <<target, here>>
      BY <1>2, <1>7 DEF Forward, EndsTo
    <3>6. OnLayer(t, here, target, s)
      <4> HIDE DEF here
      <4> QED BY <1>7, <3>2, <3>3, <3>4, <3>5 DEF OnLayer
    <3>7. target \in found
      <4> HIDE DEF found, reached, here
      <4> QED BY <1>8, <2>2, <3>6 DEF LayeredFrom, reached, here
    <3> QED BY <1>1, <1>3, <3>7
  <2>6. CASE Len(s.qualifiers) # 1
    <3>1. PICK S : s.qualifiers \in Seq(S)
      BY <1>2
    <3>2. PICK q : q = s.qualifiers
      OBVIOUS
    <3>3. q \in Seq(S) /\ q # <<>> /\ Len(q) # 1
      BY <1>14, <2>6, <3>1, <3>2
    <3>4. Len(q) > 1
      <4>1. Len(q) \in Nat
        BY <3>3
      <4>2. Len(q) = 0 => q = <<>>
        BY <3>3
      <4>3. Len(q) # 0 /\ Len(q) # 1
        BY <3>3, <4>2
      <4>4. \A n \in Nat : n # 0 /\ n # 1 => n > 1
        OBVIOUS
      <4> QED BY <4>1, <4>3, <4>4, Zenon
    <3>5. Len(s.qualifiers) > 1
      BY <3>2, <3>4
    <3> QED BY <1>1, <3>5
  <2> QED BY <2>5, <2>6
<1> QED BY <1>3, <1>12, <1>13, <1>14

\* What a selector of after finds is at the end of a runtime edge.
LEMMA FoundAreEdges ==
  ASSUME NEW fam, Named(fam), NEW t, t = NormalizeFamTopology(fam),
         NEW d \in SelectorsOf(fam), d.selector.traversal = "after",
         NEW to \in ResolveTopologySelector(t, d.nodeRef, d.text)
  PROVE  \E e \in t.edges : e.kind = "runtime" /\ e.from = d.nodeRef /\ e.to = to
<1>1. PICK s, text : s = d.selector /\ text = d.text
  OBVIOUS
<1>2. PICK i \in DOMAIN fam : d.nodeRef = NodeRefs(fam)[i]
  BY SelectorsAreOfNodes
<1>3. s = ParseFamSelector(text) /\ s.traversal = "after"
  BY <1>1, SelectorsAreOfNodes
<1> DEFINE here == NodeRefs(fam)[i]
           ends(r) == EndsTo(fam, i, s, r)
           reached == ReachedFrom(fam, i, s)
           addressed == NamedFrom(fam, i, s)
           found == ResolveTopologySelector(t, here, text)
<1>4. s.traversal \in {"before", "after"}
  BY <1>3
<1>5. \A r : r \in reached <=> \E e \in t.edges : e.kind = "runtime" /\ <<e.from, e.to>> = ends(r)
  BY <1>4, ReachedByEdges
<1>6. found = IF s.qualifiers = <<>> THEN reached
              ELSE IF addressed # {} THEN addressed
              ELSE LayeredFrom(fam, i, s)
  BY <1>3, <1>4, ResolvedFrom
<1>7. to \in found
  BY <1>1, <1>2
<1>8. to \in reached
  <2> HIDE DEF reached, found
  <2> QED BY <1>6, <1>7 DEF reached, NamedFrom, LayeredFrom
<1>9. PICK e \in t.edges : e.kind = "runtime" /\ <<e.from, e.to>> = ends(to)
  <2> HIDE DEF reached, ends
  <2> QED BY <1>5, <1>8
<1>10. <<e.from, e.to>> = <<here, to>>
  BY <1>3, <1>9 DEF EndsTo
<1>11. e.from = here /\ e.to = to
  <2> HIDE DEF here
  <2> QED BY <1>10
<1> QED BY <1>2, <1>9, <1>11

\* Who a node waits for, and what the children of a topology are.
WaitsFor(t, ref) == {e.from : e \in {f \in RunnerEdges(t) : f.to = ref}}
ChildrenOf(t, list) ==
  /\ DOMAIN list \subseteq DOMAIN t.nodes
  /\ \A i \in DOMAIN list :
       /\ list[i].childRef = t.nodes[i].nodeRef /\ list[i].childRef # RootRef(t)
       /\ list[i].dependsOn = WaitsFor(t, list[i].childRef)

\* The topology is that of a FAM of the graph, and the children are still its
\* nodes with their dependencies, whatever has become of them.
PlannedInv ==
  /\ fams \in Seq(Roots \cup Answers)
  /\ topology # Undefined =>
       /\ \E fam \in Roots \cup Answers : topology = NormalizeFamTopology(fam)
       /\ ChildrenOf(topology, children)
       /\ phase = "refused" => ~Distinct

\* A module is planned from the children of its topology.
LEMMA BegunOfTopology ==
  ASSUME NEW fam, NEW context, Begin(fam, context)
  PROVE  /\ topology' = NormalizeFamTopology(fam)
         /\ ChildrenOf(topology', children') /\ phase' = "given"
<1>1. PICK t : t = topology'
  OBVIOUS
<1>2. topology' = NormalizeFamTopology(fam) /\ children' = ProjectTopologyForRunner(t, Ready(t)) /\ phase' = "given"
  BY <1>1 DEF Begin, CallAgain
<1>3. ChildrenOf(t, ProjectTopologyForRunner(t, Ready(t)))
  <2> DEFINE below == {i \in DOMAIN t.nodes : t.nodes[i].nodeRef # RootRef(t)}
             Ref(i) == t.nodes[i].nodeRef
             list == [i \in below |-> [childRef |-> Ref(i),
                                       dependsOn |-> {e.from : e \in {f \in RunnerEdges(t) : f.to = Ref(i)}},
                                       status |-> Ready(t)[Ref(i)]]]
  <2>1. ProjectTopologyForRunner(t, Ready(t)) = list
    BY Zenon DEF ProjectTopologyForRunner
  <2>2. DOMAIN list = below
    OBVIOUS
  <2>3. \A i \in below : list[i].childRef = Ref(i) /\ list[i].dependsOn = WaitsFor(t, Ref(i))
    BY DEF WaitsFor
  <2> HIDE DEF list
  <2> QED BY <2>1, <2>2, <2>3 DEF ChildrenOf
<1> QED BY <1>1, <1>2, <1>3

\* A step of the planner or its runner leaves the children what they are.
LEMMA ChildrenKept ==
  ASSUME IsChildren(children), [PlanNext]_planVars, NEW t, ChildrenOf(t, children)
  PROVE  ChildrenOf(t, children')
<1>1. CASE UNCHANGED children
  BY <1>1
<1>2. ASSUME NEW ref, NEW s, Settle(ref, s)
      PROVE  ChildrenOf(t, children')
  <2> DEFINE settled == [i \in DOMAIN children |->
                           IF children[i].childRef = ref THEN [children[i] EXCEPT !.status = s]
                           ELSE children[i]]
  <2>1. children' = settled
    BY <1>2 DEF Settle, CallAgain
  <2>2. DOMAIN settled = DOMAIN children
    OBVIOUS
  <2>3. ASSUME NEW i \in DOMAIN children
        PROVE  settled[i].childRef = children[i].childRef /\ settled[i].dependsOn = children[i].dependsOn
    <3>1. PICK r, deps : children[i] \in [childRef : {r}, dependsOn : {deps}, status : ChildStatuses]
      BY DEF IsChildren
    <3> QED BY <3>1
  <2> HIDE DEF settled
  <2> QED BY <2>1, <2>2, <2>3 DEF ChildrenOf
<1> QED
  BY <1>1, <1>2 DEF PlanNext, Plan, Run, Refuse, HoldBack, Prepare, PlanWave, StopPlanning,
                    ResolveContext, CallAgain, planVars

\* A plan is refused for its children only.
LEMMA RefusedForChildren ==
  ASSUME [PlanNext]_planVars, phase = "refused" => ~Distinct
  PROVE  phase' = "refused" => ~Distinct'
<1>1. CASE UNCHANGED planVars
  BY <1>1 DEF planVars, Distinct
<1>2. CASE Refuse
  BY <1>2 DEF Refuse, Distinct
<1>3. CASE PlanNext /\ ~Refuse
  <2>1. phase' # "refused"
    BY <1>3 DEF PlanNext, Plan, Run, HoldBack, Prepare, PlanWave, StopPlanning, Settle, ResolveContext, CallAgain
  <2> QED BY <2>1
<1> QED BY <1>1, <1>2, <1>3

\* The invariant is one.
LEMMA PlannedInvHolds == ResolvedSpec => []PlannedInv
<1>1. ResolvedInit => PlannedInv
  <2> SUFFICES ASSUME ResolvedInit PROVE PlannedInv
    OBVIOUS
  <2>1. PICK fam \in Roots : fams = <<fam>>
    BY DEF ResolvedInit
  <2>2. topology = Undefined
    BY DEF ResolvedInit, RunnerInit
  <2> QED BY <2>1, <2>2 DEF PlannedInv
<1>2. PlannedInv /\ IsChildren(children) /\ [ResolvedNext]_allVars => PlannedInv'
  <2> SUFFICES ASSUME PlannedInv, IsChildren(children), [ResolvedNext]_allVars PROVE PlannedInv'
    OBVIOUS
  <2>1. CASE Walk
    <3>1. UNCHANGED <<topology, planVars>>
      BY <2>1 DEF Walk, planning
    <3>2. fams' \in Seq(Roots \cup Answers)
      <4>1. CASE EnterFam
        <5>1. PICK fam \in Answers : fams' = Append(fams, fam)
          BY <4>1 DEF EnterFam
        <5> QED BY <5>1 DEF PlannedInv
      <4>2. CASE UNCHANGED fams
        BY <4>2 DEF PlannedInv
      <4> QED BY <2>1, <4>1, <4>2 DEF Walk, AnswerWithoutEntering
    <3> QED BY <3>1, <3>2 DEF PlannedInv, planVars, Distinct
  <2>2. CASE PlanModule
    <3>1. PICK i \in DOMAIN fams, context \in Contexts : Begin(fams[i], context)
      BY <2>2 DEF PlanModule
    <3>2. UNCHANGED fams /\ fams[i] \in Roots \cup Answers
      BY <2>2 DEF PlanModule, PlannedInv
    <3>3. topology' = NormalizeFamTopology(fams[i]) /\ ChildrenOf(topology', children') /\ phase' = "given"
      BY <3>1, BegunOfTopology
    <3> QED BY <3>2, <3>3 DEF PlannedInv
  <2>3. CASE RunPlan
    <3>1. PlanNext /\ UNCHANGED <<topology, fams>> /\ topology # Undefined
      BY <2>3 DEF RunPlan, RunnerNext
    <3>2. ChildrenOf(topology, children') /\ (phase' = "refused" => ~Distinct')
      BY <3>1, ChildrenKept, RefusedForChildren DEF PlannedInv
    <3> QED BY <3>1, <3>2 DEF PlannedInv
  <2>4. CASE UNCHANGED allVars
    BY <2>4 DEF allVars, planning, planVars, PlannedInv, Distinct
  <2> QED BY <2>1, <2>2, <2>3, <2>4 DEF ResolvedNext
<1> QED BY <1>1, <1>2, ResolvedPlansHold, PTL DEF ResolvedSpec

\* What the invariant says of the topology.
LEMMA PlannedTopology ==
  ASSUME PlannedInv, topology # Undefined
  PROVE  \E fam :
           /\ topology = NormalizeFamTopology(fam) /\ IsFam(fam) /\ \E n \in Nat : DOMAIN fam = 1..n
           /\ OneRefEach <=> Named(fam)
           /\ \A i \in DOMAIN fam : topology.nodes[i].nodeRef = NodeRefs(fam)[i]
           /\ DOMAIN topology.nodes = DOMAIN fam
<1>1. PICK fam \in Roots \cup Answers : topology = NormalizeFamTopology(fam)
  BY DEF PlannedInv
<1>2. IsFam(fam)
  BY FamsAssumption
<1>3. \E n \in Nat : DOMAIN fam = 1..n
  BY <1>2 DEF IsFam
<1>4. DOMAIN topology.nodes = DOMAIN fam /\ \A i \in DOMAIN fam : topology.nodes[i].nodeRef = NodeRefs(fam)[i]
  <2>1. topology.nodes = NodesOf(fam)
    BY <1>1, Normalised
  <2>2. DOMAIN NodesOf(fam) = DOMAIN fam /\ \A i \in DOMAIN fam : NodesOf(fam)[i].nodeRef = NodeRefs(fam)[i]
    BY NodesAtTheirPlaces
  <2> QED BY <2>1, <2>2, Zenon
<1>5. OneRefEach <=> Named(fam)
  BY <1>2, <1>4 DEF OneRefEach, Named
<1> QED BY <1>1, <1>2, <1>3, <1>4, <1>5

\* Two nodes that share a reference are reported, and only they get a plan refused.
LEMMA DuplicatesReported == PlannedInv => DuplicatesAreReported
<1> SUFFICES ASSUME PlannedInv, topology # Undefined
             PROVE  /\ ~OneRefEach => \E x \in topology.issues : x[1] = "duplicate-node-ref"
                    /\ phase = "refused" => ~OneRefEach
  BY DEF DuplicatesAreReported
<1>1. PICK fam :
        /\ topology = NormalizeFamTopology(fam) /\ IsFam(fam) /\ \E n \in Nat : DOMAIN fam = 1..n
        /\ OneRefEach <=> Named(fam)
        /\ \A i \in DOMAIN fam : topology.nodes[i].nodeRef = NodeRefs(fam)[i]
        /\ DOMAIN topology.nodes = DOMAIN fam
  BY PlannedTopology
<1>2. PICK n \in Nat : DOMAIN fam = 1..n
  BY <1>1
<1>3. ASSUME ~OneRefEach
      PROVE  \E x \in topology.issues : x[1] = "duplicate-node-ref"
  <2>1. PICK i \in 1..n, j \in 1..n : NodeRefs(fam)[i] = NodeRefs(fam)[j] /\ i # j
    BY <1>1, <1>2, <1>3 DEF Named
  <2>2. \E k \in 1..n : k \in DuplicateNodeRefs(fam, NodeRefs(fam))
    <3>1. CASE i < j
      BY <1>2, <2>1, <3>1, SharedRefsAreReported
    <3>2. CASE j < i
      BY <1>2, <2>1, <3>2, SharedRefsAreReported
    <3> QED BY <2>1, <3>1, <3>2
  <2>3. PICK k : <<"duplicate-node-ref", k>> \in topology.issues
    BY <1>1, <2>2, Normalised
  <2>4. <<"duplicate-node-ref", k>>[1] = "duplicate-node-ref"
    OBVIOUS
  <2> QED BY <2>3, <2>4
<1>4. ASSUME phase = "refused"
      PROVE  ~OneRefEach
  <2>1. PICK i \in DOMAIN children, j \in DOMAIN children : children[i].childRef = children[j].childRef /\ i # j
    BY <1>4 DEF PlannedInv, Distinct
  <2>2. i \in DOMAIN topology.nodes /\ j \in DOMAIN topology.nodes
        /\ topology.nodes[i].nodeRef = topology.nodes[j].nodeRef
    BY <2>1 DEF PlannedInv, ChildrenOf
  <2> QED BY <2>1, <2>2 DEF OneRefEach
<1> QED BY <1>3, <1>4

\* The children wait for what their nodes declare and a selector finds.
LEMMA DependenciesDeclared == PlannedInv => DependenciesAreDeclared
<1> SUFFICES ASSUME PlannedInv, topology # Undefined, OneRefEach,
                    NEW i \in DOMAIN children, NEW from \in Nodes \ {RootRef(topology)},
                    NEW to, to = children[i].childRef
             PROVE  /\ from \in children[i].dependsOn => Declared(from, to)
                    /\ \A d \in topology.selectors :
                         d.nodeRef = from /\ d.selector.traversal = "after"
                           /\ to \in ResolveTopologySelector(topology, from, d.text)
                         => from \in children[i].dependsOn
  BY DEF DependenciesAreDeclared
<1>1. PICK t : t = topology
  OBVIOUS
<1>2. PICK fam : t = NormalizeFamTopology(fam) /\ Named(fam)
  BY <1>1, PlannedTopology
<1>3. children[i].dependsOn = WaitsFor(t, to) /\ to # RootRef(t)
  BY <1>1 DEF PlannedInv, ChildrenOf
<1>4. t.selectors = SelectorsOf(fam)
  BY <1>2, Normalised
<1>5. ASSUME from \in children[i].dependsOn
      PROVE  Declared(from, to)
  <2>1. PICK e \in RunnerEdges(t) : e.from = from /\ e.to = to
    BY <1>3, <1>5 DEF WaitsFor
  <2>2. e \in t.edges /\ e.kind = "runtime"
    BY <2>1 DEF RunnerEdges
  <2>3. PICK d \in RunDeclaredBy(fam) : <<e.from, e.to>> = EndsOf(fam, d)
    BY <1>2, <2>2, RuntimeEdges
  <2>4. d \in DeclaredBy(fam) /\ d.selector.traversal \in {"before", "after"}
    BY DEF RunDeclaredBy
  <2>5. d \in t.selectors
    BY <1>4, <2>4, DeclarationsOfNodes, <1>2
  <2>6. PICK target : target = TargetOf(fam, d)
    OBVIOUS
  <2>7. target \in ResolveTopologySelector(t, d.nodeRef, d.text) \/ Len(d.selector.qualifiers) > 1
    BY <1>2, <2>6, DeclarationsAreFound
  <2>8. CASE d.selector.traversal = "after"
    <3>1. EndsOf(fam, d) = <<d.nodeRef, target>>
      BY <2>6, <2>8 DEF EndsOf, Forward
    <3>2. d.nodeRef = from /\ target = to
      BY <2>1, <2>3, <3>1
    <3> QED BY <1>1, <2>5, <2>7, <2>8, <3>2 DEF Declared
  <2>9. CASE d.selector.traversal = "before"
    <3>1. EndsOf(fam, d) = <<target, d.nodeRef>>
      BY <2>6, <2>9 DEF EndsOf, Forward
    <3>2. d.nodeRef = to /\ target = from
      BY <2>1, <2>3, <3>1
    <3> QED BY <1>1, <2>5, <2>7, <2>9, <3>2 DEF Declared
  <2> QED BY <2>4, <2>8, <2>9
<1>6. ASSUME NEW d \in t.selectors, d.nodeRef = from, d.selector.traversal = "after",
             to \in ResolveTopologySelector(t, from, d.text)
      PROVE  from \in children[i].dependsOn
  <2>1. PICK e \in t.edges : e.kind = "runtime" /\ e.from = from /\ e.to = to
    BY <1>2, <1>4, <1>6, FoundAreEdges
  <2>2. e \in RunnerEdges(t)
    BY <1>1, <1>3, <2>1 DEF RunnerEdges
  <2> QED BY <1>3, <2>1, <2>2 DEF WaitsFor
<1> QED BY <1>1, <1>5, <1>6

----------------------------------------------------------------------------
(***************************************************************************)
(* The theorems.                                                           *)
(***************************************************************************)
\* The variables of the walk keep their types (module-graph.ts:64-139).
THEOREM TypesHold == Spec => []TypeOK
<1>1. Spec => Walking
  BY PTL DEF Spec, Walking
<1> QED BY <1>1, WalkTypes, PTL

\* Visited modules, open calls and answered references agree in every state.
THEOREM InvHolds == Spec => []Inv
<1>1. Spec => Walking
  BY PTL DEF Spec, Walking
<1> QED BY <1>1, WalkInv, PTL

\* The walk, alone or with the planning of what it found, implements the closure:
\* from a root whose module it is, each step is an answer, the end, the rejection,
\* or one that changes nothing (module-graph.ts:85-137).
THEOREM ImplementsClosure ==
  (Spec => ClosureSpec) /\ (ResolvedSpec => ClosureSpec)
<1>1. Spec => Walking
  BY PTL DEF Spec, Walking
<1> QED BY <1>1, ResolvedWalks, WalkImplementsClosure, PTL

\* Resolved references never lead back to where they come from, and a reference
\* marked as a cycle does, whatever the resolver answers (module-graph.ts:93-113).
THEOREM CyclesAreAlwaysCut ==
  (Spec => []CyclesAreCut) /\ (ResolvedSpec => []CyclesAreCut)
<1>1. Spec => Walking
  BY PTL DEF Spec, Walking
<1>2. CutInv => CyclesAreCut
  BY DEF CutInv
<1> QED BY <1>1, <1>2, ResolvedWalks, WalkIsCut, PTL

\* The variables of the planner keep their types (parallel-fold.ts:27-74).
THEOREM PlanTypesHold ==
  ASSUME \A list \in Inputs : IsChildren(list)
  PROVE  (PlanSpec => []PlanTypeOK) /\ (ResolvedSpec => []PlanTypeOK)
<1>1. PlanInv => PlanTypeOK
  BY DEF PlanInv
<1>q. QED
  BY <1>1, PlansHold, ResolvedPlansHold, PTL

\* A runner that works off the waves in order never starts a child too early
\* (parallel-fold.ts:58-69), be the list of children anybody's or a FAM module's.
THEOREM WavesAreInOrder ==
  ASSUME \A list \in Inputs : IsChildren(list)
  PROVE  (PlanSpec => []WavesFollowDependencies) /\ (ResolvedSpec => []WavesFollowDependencies)
<1>1. PlanInv => WavesFollowDependencies
  BY DEF PlanInv
<1>q. QED
  BY <1>1, PlansHold, ResolvedPlansHold, PTL

\* A finished plan has each child once (parallel-fold.ts:37-73).
THEOREM NoChildIsLost ==
  ASSUME \A list \in Inputs : IsChildren(list)
  PROVE  (PlanSpec => []EveryChildIsAccountedFor) /\ (ResolvedSpec => []EveryChildIsAccountedFor)
<1>1. PlanInv => EveryChildIsAccountedFor
  BY DEF PlanInv
<1>q. QED
  BY <1>1, PlansHold, ResolvedPlansHold, PTL

\* A plan blocks exactly the unverified and the greatest knot of ready children
\* (parallel-fold.ts:48-72).
THEOREM BlockedAreStuck ==
  ASSUME \A list \in Inputs : IsChildren(list)
  PROVE  (PlanSpec => []OnlyTheStuckAreBlocked) /\ (ResolvedSpec => []OnlyTheStuckAreBlocked)
<1>1. PlanInv => OnlyTheStuckAreBlocked
  BY DEF PlanInv
<1>q. QED
  BY <1>1, PlansHold, ResolvedPlansHold, PTL

\* A run waits exactly for what a before or after declares and a selector finds
\* (topology.ts:243-262, 455-472, topology-projection.ts:45-72), whatever the resolver
\* answered, where every node has a reference of its own.
THEOREM DependenciesAreTheDeclared == ResolvedSpec => []DependenciesAreDeclared
BY PlannedInvHolds, DependenciesDeclared, PTL

\* No two nodes share a reference without an issue, and no other list of
\* children is refused (topology.ts:186-195, parallel-fold.ts:31-36).
THEOREM SharedRefsAreNoSecret == ResolvedSpec => []DuplicatesAreReported
BY PlannedInvHolds, DuplicatesReported, PTL
==================================================================================

-------------------------- MODULE GraphProjectionProofs --------------------------
(***************************************************************************)
(* Proofs about the drawing of a decomposition (GraphProjection), for all  *)
(* answers of the gateway and every order of units, nesting and relations. *)
(*                                                                         *)
(* First what the containment of a document is: units around a unit form a *)
(* chain, one deeper at each step; the sorting by a key is a permutation;  *)
(* relations lifted to a boundary join children of it.  The recursive      *)
(* definition of "around" is reasoned about by least elements.  Then the   *)
(* inductive invariant: DrawInv says how far a drawing has come, Wired     *)
(* what it has connected, Read where the result is from.  The theorems     *)
(* follow from these.                                                      *)
(***************************************************************************)
EXTENDS GraphProjection, TLAPS, FiniteSetTheorems

----------------------------------------------------------------------------
\* Least elements; containment, sorting and lifted relations of any document.

\* A nonempty set of numbers has a least element.
LEMMA LeastNat ==
  ASSUME NEW T \in SUBSET Nat, T # {}
  PROVE  \E n \in T : \A m \in T : n <= m
<1>1. \A x, y \in Nat : <<y, x>> \in OpToRel(<, Nat) <=> y < x
  BY SMT DEF OpToRel
<1>2. \E x \in T : \A y \in T : <<y, x>> \notin OpToRel(<, Nat)
  BY NatLessThanWellFounded, WFMin, Zenon
<1>3. \E x \in T : \A y \in T : ~(y < x)
  BY <1>1, <1>2, Zenon
<1>4. PICK x \in T : \A y \in T : ~(y < x)
  BY <1>3, Zenon
<1> HIDE <1>1, <1>2
<1>5. \A y \in T : x <= y
  BY ONLY T \in SUBSET Nat, x \in T, <1>4, SMT
<1> QED BY <1>5, Zenon

\* Of the nonempty sets of a family on a finite set one has none below it.
LEMMA LeastSubset ==
  ASSUME NEW S, IsFiniteSet(S), NEW F \in SUBSET (SUBSET S), F # {}
  PROVE  \E T \in F : \A U \in F : U \subseteq T => U = T
<1>1. IsWellFoundedOn(StrictSubsetOrdering(S), FiniteSubsetsOf(S))
  BY FS_StrictSubsetOrderingWellFounded
<1>2. F \subseteq FiniteSubsetsOf(S)
  BY FS_Subset DEF FiniteSubsetsOf
<1>3. \E T \in F : \A U \in F : <<U, T>> \notin StrictSubsetOrdering(S)
  BY <1>1, <1>2, WFMin, Zenon
<1>4. \A T, U \in F : U \subseteq T /\ U # T => <<U, T>> \in StrictSubsetOrdering(S)
  BY <1>2 DEF StrictSubsetOrdering
<1> QED BY <1>3, <1>4

\* A unit's parent is a unit or the root, and it is what the relations say.
LEMMA Parents ==
  ASSUME NEW refs, NEW relations, Readable(refs, relations), Root \notin refs
  PROVE  /\ \A r \in Containing(relations) :
              r.from \in refs /\ r.to \in refs /\ ParentOf(r.to, relations) = r.from
         /\ \A x : ParentOf(x, relations) # Root =>
              \E r \in Containing(relations) : r.to = x /\ r.from = ParentOf(x, relations)
         /\ \A x : ParentOf(x, relations) \in refs \cup {Root}
<1> DEFINE P(x) == {r.from : r \in {c \in Containing(relations) : c.to = x}}
<1>1. ASSUME NEW x
      PROVE  /\ ParentOf(x, relations) = IF P(x) = {} THEN Root ELSE CHOOSE p \in P(x) : TRUE
  BY DEF ParentOf
<1>2. \A r \in Containing(relations) : r.from \in refs /\ r.to \in refs /\ r.from # Root
  BY DEF Readable, Containing
<1>3. ASSUME NEW x, P(x) # {}
      PROVE  ParentOf(x, relations) \in P(x)
  BY <1>1, <1>3
<1>4. ASSUME NEW r \in Containing(relations)
      PROVE  ParentOf(r.to, relations) = r.from
  <2>1. r.from \in P(r.to)
    OBVIOUS
  <2>2. \A a, b \in P(r.to) : a = b
    BY DEF Readable
  <2> QED BY <1>3, <2>1, <2>2
<1>5. \A x : ParentOf(x, relations) # Root =>
              \E r \in Containing(relations) : r.to = x /\ r.from = ParentOf(x, relations)
  BY <1>1, <1>3
<1> QED BY <1>2, <1>4, <1>5

\* No set of units in which each one's parent lies in the set again.
LEMMA NoEndlessClimb ==
  ASSUME NEW refs, IsFiniteSet(refs), Root \notin refs,
         NEW relations, Readable(refs, relations),
         NEW S \in SUBSET refs, \A x \in S : ParentOf(x, relations) \in S
  PROVE  S = {}
<1> SUFFICES ASSUME S # {} PROVE FALSE
  OBVIOUS
<1> DEFINE F == {T \in SUBSET refs : T # {} /\ \A x \in T : ParentOf(x, relations) \in T}
<1>1. F \in SUBSET (SUBSET refs) /\ S \in F
  OBVIOUS
<1>2. \A V : V \in F <=> V \in SUBSET refs /\ V # {} /\ \A x \in V : ParentOf(x, relations) \in V
  OBVIOUS
<1> HIDE DEF F
<1>3. F # {}
  BY <1>1
<1>4. PICK T \in F : \A V \in F : V \subseteq T => V = T
  BY <1>1, <1>3, LeastSubset
<1>5. T \in SUBSET refs /\ T # {} /\ \A x \in T : ParentOf(x, relations) \in T
  BY <1>2, <1>4
<1>6. \A y \in T : \E x \in T : y = ParentOf(x, relations)
  <2> DEFINE U == {ParentOf(x, relations) : x \in T}
  <2>1. U \subseteq T /\ U # {}
    BY <1>5
  <2>2. \A y \in U : ParentOf(y, relations) \in U
    BY <1>5
  <2>3. U \in F
    BY <1>2, <1>5, <2>1, <2>2
  <2> QED BY <1>4, <2>1, <2>3
<1>7. \A y \in T : \E x \in T : <<y, x>> \in Pairs(relations)
  <2> SUFFICES ASSUME NEW y \in T PROVE \E x \in T : <<y, x>> \in Pairs(relations)
    OBVIOUS
  <2>1. PICK x \in T : y = ParentOf(x, relations)
    BY <1>6
  <2>2. y # Root
    BY <1>5
  <2>3. PICK r \in Containing(relations) : r.to = x /\ r.from = y
    BY <2>1, <2>2, Parents
  <2> QED BY <2>3 DEF Pairs, Containing
<1>8. T \in SUBSET {p[1] : p \in Pairs(relations)}
  <2>1. \A y \in T : \E p \in Pairs(relations) : y = p[1]
    BY <1>7
  <2> QED BY <2>1
<1>9. PICK y \in T : \A p \in Pairs(relations) : p[1] = y => p[2] \notin T
  <2>1. Acyclic(Pairs(relations))
    BY DEF Readable
  <2> QED BY <1>5, <1>8, <2>1 DEF Acyclic
<1> QED BY <1>7, <1>9

\* The units around a unit are defined: each has itself and those around its parent.
LEMMA EnclosingEquation ==
  ASSUME NEW refs, IsFiniteSet(refs), Root \notin refs,
         NEW relations, Readable(refs, relations)
  PROVE  \A r \in refs : Enclosing(refs, relations)[r] =
           {r} \cup (IF ParentOf(r, relations) = Root THEN {}
                     ELSE Enclosing(refs, relations)[ParentOf(r, relations)])
<1> DEFINE P(x) == ParentOf(x, relations)
           Upward(S) == \A y \in S : P(y) # Root => P(y) \in S
           C(r) == {x \in refs : \A S \in SUBSET refs : r \in S /\ Upward(S) => x \in S}
           up == [r \in refs |-> C(r)]
<1>1. \A x : P(x) \in refs \cup {Root}
  BY Parents
<1>2. ASSUME NEW r \in refs
      PROVE  C(r) = {r} \cup (IF P(r) = Root THEN {} ELSE C(P(r)))
  <2> DEFINE D == {r} \cup (IF P(r) = Root THEN {} ELSE C(P(r)))
  <2>1. ASSUME NEW x \in D
        PROVE  x \in C(r)
    BY <1>1, <2>1
  <2>2. P(r) # Root => P(r) \in C(P(r))
    BY <1>1
  <2>3. D \in SUBSET refs /\ r \in D
    OBVIOUS
  <2>4. ASSUME NEW y \in D, P(y) # Root
        PROVE  P(y) \in D
    <3>1. CASE y = r
      BY <2>2, <2>4, <3>1
    <3>2. CASE P(r) # Root /\ y \in C(P(r))
      <4>1. \A S \in SUBSET refs : P(r) \in S /\ Upward(S) => P(y) \in S
        BY <2>4, <3>2
      <4>2. P(y) \in C(P(r))
        BY <1>1, <2>4, <4>1
      <4> QED BY <3>2, <4>2
    <3> QED BY <2>4, <3>1, <3>2
  <2>5. Upward(D)
    BY <2>4
  <2>6. C(r) \subseteq D
    BY <2>3, <2>5
  <2> QED BY <2>1, <2>6
<1> HIDE DEF C
<1>3. up = [r \in refs |-> {r} \cup (IF P(r) = Root THEN {} ELSE up[P(r)])]
  BY <1>1, <1>2
<1> HIDE DEF up
<1> DEFINE E == Enclosing(refs, relations)
<1>4. E = CHOOSE f : f = [r \in refs |-> {r} \cup (IF P(r) = Root THEN {} ELSE f[P(r)])]
  BY DEF Enclosing
<1> HIDE DEF E, P
<1>5. \E f : f = [r \in refs |-> {r} \cup (IF P(r) = Root THEN {} ELSE f[P(r)])]
  BY <1>3, Zenon
<1>6. E = [r \in refs |-> {r} \cup (IF P(r) = Root THEN {} ELSE E[P(r)])]
  BY <1>4, <1>5, Zenon
<1>7. \A r \in refs : E[r] = {r} \cup (IF P(r) = Root THEN {} ELSE E[P(r)])
  BY ONLY <1>6
<1> QED BY <1>7 DEF E, P

\* What lies around a unit.
LEMMA Climbing ==
  ASSUME NEW refs, IsFiniteSet(refs), Root \notin refs,
         NEW relations, Readable(refs, relations),
         NEW E, E = Enclosing(refs, relations)
  PROVE  /\ \A r \in refs : r \in E[r] /\ E[r] \in SUBSET refs
         /\ \A r \in refs : \A x \in E[r] :
              ParentOf(x, relations) # Root => ParentOf(x, relations) \in E[r]
         /\ \A S : \A r \in refs :
              r \in S /\ (\A y \in S : ParentOf(y, relations) # Root => ParentOf(y, relations) \in S)
                => E[r] \subseteq S
         /\ \A r \in refs : \A x \in E[r] : E[x] \subseteq E[r]
         /\ \A r \in refs : \A x \in E[r] \ {r} : \E y \in E[r] : ParentOf(y, relations) = x
         /\ \A r \in refs : \A x \in E[r] : r \in E[x] => x = r
<1> DEFINE P(x) == ParentOf(x, relations)
<1>1. \A x : P(x) \in refs \cup {Root}
  BY Parents
<1>2. \A r \in refs : E[r] = {r} \cup (IF P(r) = Root THEN {} ELSE E[P(r)])
  BY EnclosingEquation
<1> HIDE DEF P
<1>3. ASSUME NEW S \in SUBSET refs, \A x \in S : P(x) \in S
      PROVE  S = {}
  BY <1>3, NoEndlessClimb DEF P
<1>4. \A r \in refs : r \in E[r]
  BY <1>2
<1>5. \A r \in refs : E[r] \in SUBSET refs
  <2> DEFINE S == {r \in refs : E[r] \notin SUBSET refs}
  <2>1. \A r \in S : P(r) \in S
    BY <1>1, <1>2
  <2> QED BY <1>3, <2>1
<1>6. \A r \in refs : \A x \in E[r] : P(x) # Root => P(x) \in E[r]
  <2> DEFINE S == {r \in refs : \E x \in E[r] : P(x) # Root /\ P(x) \notin E[r]}
  <2>1. ASSUME NEW r \in S
        PROVE  P(r) \in S
    <3>1. PICK x \in E[r] : P(x) # Root /\ P(x) \notin E[r]
      OBVIOUS
    <3>2. P(r) # Root
      BY <1>2, <3>1
    <3>3. x # r
      BY <1>1, <1>2, <1>4, <3>1, <3>2
    <3>4. x \in E[P(r)] /\ P(x) \notin E[P(r)]
      BY <1>2, <3>1, <3>2, <3>3
    <3> QED BY <1>1, <3>1, <3>2, <3>4
  <2> QED BY <1>3, <2>1
<1>7. ASSUME NEW T, NEW r \in refs, r \in T, \A y \in T : P(y) # Root => P(y) \in T
      PROVE  E[r] \subseteq T
  <2> DEFINE S == {t \in refs : t \in T /\ ~(E[t] \subseteq T)}
  <2>1. \A t \in S : P(t) \in S
    BY <1>1, <1>2, <1>7
  <2> QED BY <1>3, <1>7, <2>1
<1>8. \A r \in refs : \A x \in E[r] : E[x] \subseteq E[r]
  BY <1>5, <1>6, <1>7
<1>9. \A r \in refs : \A x \in E[r] \ {r} : \E y \in E[r] : P(y) = x
  <2> DEFINE S == {r \in refs : \E x \in E[r] \ {r} : \A y \in E[r] : P(y) # x}
  <2>1. ASSUME NEW r \in S
        PROVE  P(r) \in S
    <3>1. PICK x \in E[r] \ {r} : \A y \in E[r] : P(y) # x
      OBVIOUS
    <3>2. P(r) # Root /\ x \in E[P(r)] /\ x # P(r)
      BY <1>2, <1>4, <3>1
    <3>3. \A y \in E[P(r)] : y \in E[r]
      BY <1>2, <3>2
    <3> QED BY <1>1, <3>1, <3>2, <3>3
  <2> QED BY <1>3, <2>1
<1>10. \A r \in refs : P(r) # Root => r \notin E[P(r)]
  <2> DEFINE S == {r \in refs : P(r) # Root /\ r \in E[P(r)]}
  <2>1. ASSUME NEW r \in S
        PROVE  P(r) \in S
    <3>1. P(r) # Root /\ P(r) \in refs /\ r \in E[P(r)]
      BY <1>1
    <3>2. r # P(r)
      <4>1. r = P(r) => {r} = {}
        BY <1>3
      <4> QED BY <4>1
    <3>3. P(P(r)) # Root /\ r \in E[P(P(r))]
      BY <1>2, <3>1, <3>2
    <3>4. P(P(r)) \in refs
      BY <1>1, <3>3
    <3>5. P(r) \in E[P(P(r))]
      BY <1>6, <3>1, <3>3, <3>4
    <3> QED BY <3>1, <3>3, <3>5
  <2> QED BY <1>3, <2>1
<1>11. ASSUME NEW r \in refs, NEW x \in E[r], r \in E[x]
       PROVE  x = r
  <2> SUFFICES ASSUME x # r PROVE FALSE
    OBVIOUS
  <2>1. P(r) # Root /\ x \in E[P(r)]
    BY <1>2
  <2>2. P(r) \in refs
    BY <1>1, <2>1
  <2>3. E[x] \subseteq E[P(r)]
    BY <1>8, <2>1, <2>2
  <2> QED BY <1>10, <1>11, <2>1, <2>3
<1> QED BY <1>4, <1>5, <1>6, <1>7, <1>8, <1>9, <1>11 DEF P

\* A unit lies one deeper than its parent.
LEMMA OneDeeper ==
  ASSUME NEW refs, IsFiniteSet(refs), Root \notin refs,
         NEW relations, Readable(refs, relations),
         NEW E, E = Enclosing(refs, relations)
  PROVE  \A r \in refs :
           /\ IsFiniteSet(E[r])
           /\ Cardinality(E[r]) \in Nat
           /\ ParentOf(r, relations) # Root =>
                Cardinality(E[r]) = Cardinality(E[ParentOf(r, relations)]) + 1
<1> SUFFICES ASSUME NEW r \in refs
    PROVE  /\ IsFiniteSet(E[r])
           /\ Cardinality(E[r]) \in Nat
           /\ ParentOf(r, relations) # Root =>
                Cardinality(E[r]) = Cardinality(E[ParentOf(r, relations)]) + 1
  OBVIOUS
<1>1. \A x \in refs : IsFiniteSet(E[x]) /\ Cardinality(E[x]) \in Nat
  BY Climbing, FS_Subset, FS_CardinalityType
<1>2. ASSUME ParentOf(r, relations) # Root
      PROVE  Cardinality(E[r]) = Cardinality(E[ParentOf(r, relations)]) + 1
  <2> DEFINE p == ParentOf(r, relations)
  <2>1. p \in refs
    BY <1>2, Parents
  <2>2. E[r] = E[p] \cup {r}
    BY <1>2, EnclosingEquation
  <2>3. p \in E[r]
    BY <1>2, Climbing
  <2>4. r \notin E[p]
    <3>1. r \in E[p] => p = r
      BY <2>3, Climbing
    <3>2. p # r
      <4>1. PICK c \in Containing(relations) : c.to = r /\ c.from = p
        BY <1>2, Parents
      <4> QED BY <4>1 DEF Readable, Containing
    <3> QED BY <3>1, <3>2
  <2> HIDE DEF p
  <2>5. Cardinality(E[p] \cup {r}) = Cardinality(E[p]) + 1
    BY <1>1, <2>1, <2>4, FS_AddElement
  <2> QED BY <2>2, <2>5 DEF p
<1> QED BY <1>1, <1>2

\* Counting for each place what comes before it, by a key and then by the place
\* itself, numbers the places from one on.
UpTo(i, key, n) == {j \in 1..n : key[j] < key[i] \/ (~(key[i] < key[j]) /\ j <= i)}
Rank(key, n) == [i \in 1..n |-> Cardinality(UpTo(i, key, n))]

\* Every number from one to n is the rank of exactly one place.
LEMMA Ranks ==
  ASSUME NEW n \in Nat, NEW key \in [1..n -> Int]
  PROVE  /\ Rank(key, n) \in [1..n -> 1..n]
         /\ \A i, j \in 1..n : key[i] < key[j] => Rank(key, n)[i] < Rank(key, n)[j]
         /\ \A i, j \in 1..n : Rank(key, n)[i] = Rank(key, n)[j] => i = j
         /\ \A k \in 1..n : \E i \in 1..n : Rank(key, n)[i] = k
<1> DEFINE place == Rank(key, n)
           C(i) == Cardinality(UpTo(i, key, n))
<1>1. place = [i \in 1..n |-> C(i)]
  BY DEF Rank
<1>2. \A i \in 1..n : key[i] \in Int
  OBVIOUS
<1>3. \A i \in 1..n : UpTo(i, key, n) \in SUBSET (1..n) /\ i \in UpTo(i, key, n)
  BY <1>2 DEF UpTo
<1>4. \A i, j \in 1..n : key[i] < key[j] \/ (key[i] = key[j] /\ i < j) =>
                           UpTo(i, key, n) \subseteq UpTo(j, key, n) /\ j \notin UpTo(i, key, n)
  BY <1>2 DEF UpTo
<1>5. IsFiniteSet(1..n) /\ Cardinality(1..n) = n
  BY FS_Interval
<1>6. \A i \in 1..n : IsFiniteSet(UpTo(i, key, n)) /\ C(i) \in Nat /\ C(i) <= n
  BY <1>3, <1>5, FS_Subset, FS_CardinalityType
<1>7. \A i \in 1..n : C(i) # 0
  BY <1>3, <1>6, FS_EmptySet
<1>8. ASSUME NEW i \in 1..n, NEW j \in 1..n, key[i] < key[j] \/ (key[i] = key[j] /\ i < j)
      PROVE  C(i) < C(j)
  <2>1. UpTo(i, key, n) \in SUBSET UpTo(j, key, n) /\ UpTo(i, key, n) # UpTo(j, key, n)
    BY <1>3, <1>4, <1>8
  <2>2. C(i) <= C(j) /\ C(i) # C(j)
    BY <1>6, <2>1, FS_Subset
  <2>3. C(i) \in Nat /\ C(j) \in Nat
    BY <1>6
  <2> HIDE DEF C
  <2> QED BY <2>2, <2>3
<1> HIDE DEF place, C
<1>9. place \in [1..n -> 1..n] /\ \A i \in 1..n : place[i] = C(i) /\ place[i] \in 1..n
  BY <1>1, <1>6, <1>7
<1>10. \A i, j \in 1..n : key[i] < key[j] => place[i] < place[j]
  BY <1>8, <1>9
<1>11. ASSUME NEW i \in 1..n, NEW j \in 1..n, place[i] = place[j]
       PROVE  i = j
  <2>1. ~(C(i) < C(j)) /\ ~(C(j) < C(i))
    BY <1>9, <1>11
  <2>2. ~(key[i] < key[j]) /\ ~(key[j] < key[i]) /\ ~(key[i] = key[j] /\ i < j) /\ ~(key[i] = key[j] /\ j < i)
    BY <1>8, <2>1
  <2> QED BY <1>2, <2>2
<1>12. \A k \in 1..n : \E i \in 1..n : place[i] = k
  <2>1. place \in Injection(1..n, 1..n)
    BY <1>9, <1>11 DEF Injection, IsInjective
  <2>2. place \in Surjection(1..n, 1..n)
    BY <1>5, <2>1, FS_Injection
  <2> QED BY <2>2 DEF Surjection
<1> QED BY <1>9, <1>10, <1>11, <1>12 DEF place

\* Sorting puts every place somewhere, and once; the keys do not fall.
Sorted(key, n) == [k \in 1..n |-> CHOOSE i \in 1..n : Rank(key, n)[i] = k]

\* SortedBy, by a numeric key, is a permutation of what it sorts, in the order of the key.
LEMMA Sorting ==
  ASSUME NEW n \in Nat, NEW key \in [1..n -> Int]
  PROVE  /\ Sorted(key, n) \in [1..n -> 1..n]
         /\ \A k, l \in 1..n : Sorted(key, n)[k] = Sorted(key, n)[l] => k = l
         /\ \A i \in 1..n : \E k \in 1..n : Sorted(key, n)[k] = i
         /\ \A k, l \in 1..n : k < l => key[Sorted(key, n)[k]] <= key[Sorted(key, n)[l]]
<1> DEFINE place == Rank(key, n)
           p == Sorted(key, n)
<1>1. /\ place \in [1..n -> 1..n]
      /\ \A i, j \in 1..n : key[i] < key[j] => place[i] < place[j]
      /\ \A i, j \in 1..n : place[i] = place[j] => i = j
      /\ \A k \in 1..n : \E i \in 1..n : place[i] = k
  BY Ranks
<1> HIDE DEF place
<1>2. p = [k \in 1..n |-> CHOOSE i \in 1..n : place[i] = k]
  BY DEF Sorted, place
<1> HIDE DEF p
<1>3. \A k \in 1..n : p[k] \in 1..n /\ place[p[k]] = k
  BY <1>1, <1>2
<1>4. \A i \in 1..n : place[i] \in 1..n /\ p[place[i]] = i
  BY <1>1, <1>3
<1>5. ASSUME NEW k \in 1..n, NEW l \in 1..n, k < l
      PROVE  key[p[k]] <= key[p[l]]
  <2>1. ~(key[p[l]] < key[p[k]])
    <3>1. p[k] \in 1..n /\ p[l] \in 1..n /\ place[p[k]] = k /\ place[p[l]] = l
      BY <1>3
    <3>2. key[p[l]] < key[p[k]] => place[p[l]] < place[p[k]]
      BY <1>1, <3>1
    <3>3. ~(l < k)
      BY <1>5
    <3> QED BY <3>1, <3>2, <3>3, Zenon
  <2>2. key[p[l]] \in Int /\ key[p[k]] \in Int
    BY <1>3
  <2> QED BY <2>1, <2>2
<1>6. p \in [1..n -> 1..n]
  BY <1>2, <1>3
<1>7. \A k, l \in 1..n : p[k] = p[l] => k = l
  BY <1>3
<1>8. \A i \in 1..n : \E k \in 1..n : p[k] = i
  BY <1>4
<1> QED BY <1>5, <1>6, <1>7, <1>8 DEF p

\* The units of a document, sorted by their orders.
LEMMA ProjectedUnits ==
  ASSUME NEW units, NEW n \in Nat, DOMAIN units = 1..n,
         \A i \in 1..n : units[i].order[1] \in Int
  PROVE  \E p \in [1..n -> 1..n] :
           /\ Projected(units) = [k \in 1..n |-> units[p[k]]]
           /\ \A k, l \in 1..n : p[k] = p[l] => k = l
           /\ \A i \in 1..n : \E k \in 1..n : p[k] = i
           /\ \A k, l \in 1..n : k < l => units[p[k]].order[1] <= units[p[l]].order[1]
<1> DEFINE key == [i \in 1..n |-> units[i].order[1]]
           p == Sorted(key, n)
<1>1. key \in [1..n -> Int] /\ \A i \in 1..n : key[i] = units[i].order[1]
  OBVIOUS
<1> HIDE DEF key
<1>2. Projected(units) = [k \in 1..n |-> units[p[k]]]
  <2> DEFINE direct == [i \in 1..n |->
                 Cardinality({j \in 1..n : units[j].order[1] < units[i].order[1]
                   \/ (~(units[i].order[1] < units[j].order[1]) /\ j <= i)})]
  <2>1. Projected(units) = [k \in 1..n |-> units[CHOOSE i \in 1..n : direct[i] = k]]
    BY DEF Projected, SortedBy, EarlierOrder
  <2>2. direct = Rank(key, n)
    <3>1. ASSUME NEW i \in 1..n
          PROVE  {j \in 1..n : units[j].order[1] < units[i].order[1]
                     \/ (~(units[i].order[1] < units[j].order[1]) /\ j <= i)} = UpTo(i, key, n)
      BY <1>1 DEF UpTo
    <3> QED BY <3>1 DEF Rank
  <2> HIDE DEF direct
  <2> QED BY <2>1, <2>2 DEF Sorted
<1>3. /\ \A k, l \in 1..n : k < l => key[p[k]] <= key[p[l]]
      /\ p \in [1..n -> 1..n]
      /\ \A k, l \in 1..n : p[k] = p[l] => k = l
      /\ \A i \in 1..n : \E k \in 1..n : p[k] = i
  BY <1>1, Sorting
<1> HIDE DEF p
<1>4. \A k, l \in 1..n : k < l => units[p[k]].order[1] <= units[p[l]].order[1]
  <2> SUFFICES ASSUME NEW k \in 1..n, NEW l \in 1..n, k < l
      PROVE  units[p[k]].order[1] <= units[p[l]].order[1]
    OBVIOUS
  <2>1. p[k] \in 1..n /\ p[l] \in 1..n
    BY <1>3
  <2>2. key[p[k]] = units[p[k]].order[1] /\ key[p[l]] = units[p[l]].order[1]
    BY <1>1, <2>1
  <2> QED BY <1>3, <2>2
<1> QED BY <1>2, <1>3, <1>4

\* Of two units around a third one is around the other.
LEMMA AroundIsAChain ==
  ASSUME NEW refs, IsFiniteSet(refs), Root \notin refs,
         NEW relations, Readable(refs, relations),
         NEW E, E = Enclosing(refs, relations)
  PROVE  \A r \in refs : \A x, y \in E[r] : x \in E[y] \/ y \in E[x]
<1> DEFINE S == {r \in refs : \E x, y \in E[r] : x \notin E[y] /\ y \notin E[x]}
<1>1. ASSUME NEW r \in S
      PROVE  ParentOf(r, relations) \in S
  <2> DEFINE p == ParentOf(r, relations)
  <2>1. E[r] = {r} \cup (IF p = Root THEN {} ELSE E[p]) /\ p \in refs \cup {Root}
    BY EnclosingEquation, Parents
  <2>2. PICK x, y \in E[r] : x \notin E[y] /\ y \notin E[x]
    OBVIOUS
  <2>3. x # r /\ y # r
    BY <2>2
  <2> QED BY <2>1, <2>2, <2>3
<1>2. S = {}
  BY <1>1, NoEndlessClimb
<1> QED BY <1>2

\* The root boundary is left by one way only.
LEMMA OneTop ==
  ASSUME NEW refs, IsFiniteSet(refs), Root \notin refs,
         NEW relations, Readable(refs, relations),
         NEW E, E = Enclosing(refs, relations),
         NEW r \in refs, NEW x \in E[r], NEW y \in E[r],
         ParentOf(x, relations) = Root, ParentOf(y, relations) = Root
  PROVE  x = y
<1>1. x \in refs /\ y \in refs
  BY Climbing
<1>2. E[x] = {x} /\ E[y] = {y}
  BY <1>1, EnclosingEquation
<1> QED BY <1>2, AroundIsAChain

\* Two units that do not lie in one another lie in two children of one boundary.
LEMMA CommonBoundary ==
  ASSUME NEW refs, IsFiniteSet(refs), Root \notin refs,
         NEW relations, Readable(refs, relations),
         NEW E, E = Enclosing(refs, relations),
         NEW f \in refs, NEW t \in refs, f \notin E[t], t \notin E[f]
  PROVE  \E a \in E[f] \ E[t] : \E b \in E[t] \ E[f] :
           ParentOf(a, relations) = ParentOf(b, relations)
<1> DEFINE P(x) == ParentOf(x, relations)
<1>1. ASSUME NEW v \in refs, NEW w \in refs, v \notin E[w]
      PROVE  \E a \in E[v] \ E[w] : P(a) \notin E[v] \ E[w]
  <2>1. v \in E[v] /\ E[v] \in SUBSET refs
    BY Climbing
  <2> QED BY <1>1, <2>1, NoEndlessClimb
<1>2. PICK a \in E[f] \ E[t] : P(a) \notin E[f] \ E[t]
  BY <1>1
<1>3. PICK b \in E[t] \ E[f] : P(b) \notin E[t] \ E[f]
  BY <1>1
<1>4. a \in refs /\ b \in refs
  BY Climbing
<1>5. /\ P(a) \in refs \cup {Root} /\ P(b) \in refs \cup {Root}
      /\ E[a] = {a} \cup (IF P(a) = Root THEN {} ELSE E[P(a)])
      /\ E[b] = {b} \cup (IF P(b) = Root THEN {} ELSE E[P(b)])
  BY <1>4, Parents, EnclosingEquation
<1>6. P(a) # Root => P(a) \in E[f] \cap E[t]
  BY <1>2, Climbing
<1>7. P(b) # Root => P(b) \in E[f] \cap E[t]
  BY <1>3, Climbing
<1>8. ASSUME NEW c \in E[f] \cap E[t]
      PROVE  c \in E[P(a)] /\ P(a) # Root /\ c \in E[P(b)] /\ P(b) # Root
  <2>1. E[c] \subseteq E[f] \cap E[t]
    BY Climbing
  <2>2. c \in E[a] /\ c # a
    BY <2>1, AroundIsAChain
  <2>3. c \in E[b] /\ c # b
    BY <2>1, AroundIsAChain
  <2> QED BY <1>5, <2>2, <2>3
<1>9. CASE P(a) = Root
  BY <1>7, <1>8, <1>9
<1>10. CASE P(a) # Root
  <2>1. P(b) # Root /\ P(a) \in E[P(b)]
    BY <1>6, <1>8, <1>10
  <2>2. P(b) \in E[P(a)]
    BY <1>7, <1>8, <2>1
  <2>3. P(a) \in refs /\ P(b) \in refs
    BY <1>5, <1>10, <2>1
  <2>4. P(a) = P(b)
    BY <2>1, <2>2, <2>3, Climbing
  <2> QED BY <2>4
<1> QED BY <1>9, <1>10

\* Where each of some lead on to another one of them, some also come from and lead
\* to one another.
LEMMA RoundAbout ==
  ASSUME NEW S, IsFiniteSet(S), S # {}, NEW pairs,
         \A x \in S : \E y \in S : <<x, y>> \in pairs
  PROVE  \E V \in SUBSET S :
           /\ V # {}
           /\ \A x \in V : \E y \in V : <<x, y>> \in pairs
           /\ \A x \in V : \E y \in V : <<y, x>> \in pairs
<1> DEFINE F == {V \in SUBSET S : V # {} /\ \A x \in V : \E y \in V : <<x, y>> \in pairs}
<1>1. F \in SUBSET (SUBSET S) /\ S \in F
  OBVIOUS
<1>2. \A V : V \in F <=> V \in SUBSET S /\ V # {} /\ \A x \in V : \E y \in V : <<x, y>> \in pairs
  OBVIOUS
<1> HIDE DEF F
<1>3. F # {}
  BY <1>1
<1>4. PICK V \in F : \A W \in F : W \subseteq V => W = V
  BY <1>1, <1>3, LeastSubset
<1>5. V \in SUBSET S /\ V # {} /\ \A x \in V : \E y \in V : <<x, y>> \in pairs
  BY <1>2, <1>4
<1> DEFINE W == {y \in V : \E x \in V : <<x, y>> \in pairs}
<1>6. W \in F
  <2>1. W \subseteq V /\ W # {}
    BY <1>5
  <2>2. \A y \in W : \E z \in W : <<y, z>> \in pairs
    BY <1>5
  <2> QED BY <1>2, <1>5, <2>1, <2>2
<1>7. W = V
  BY <1>4, <1>6
<1>8. \A x \in V : \E y \in V : <<y, x>> \in pairs
  BY <1>7
<1> QED BY <1>5, <1>8

\* Without a circle, who follows pairs among some to the end meets them all.
LEMMA AllAreMet ==
  ASSUME NEW T, IsFiniteSet(T), NEW pairs, Acyclic(pairs),
         NEW met \in SUBSET T,
         \/ \A y \in T \ met : \E x \in T \ met : <<x, y>> \in pairs
         \/ \A x \in T \ met : \E y \in T \ met : <<x, y>> \in pairs
  PROVE  met = T
<1> SUFFICES ASSUME T \ met # {} PROVE FALSE
  OBVIOUS
<1> DEFINE S == T \ met
<1>1. \E V \in SUBSET S : V # {} /\ \A x \in V : \E y \in V : <<x, y>> \in pairs
  <2>1. CASE \A x \in S : \E y \in S : <<x, y>> \in pairs
    BY <2>1
  <2>2. CASE \A y \in S : \E x \in S : <<x, y>> \in pairs
    <3> DEFINE back == {q \in S \X S : <<q[2], q[1]>> \in pairs}
    <3>1. \A x, y \in S : <<y, x>> \in back <=> <<x, y>> \in pairs
      OBVIOUS
    <3> HIDE DEF back
    <3>2. \A y \in S : \E x \in S : <<y, x>> \in back
      BY <2>2, <3>1
    <3>3. IsFiniteSet(S) /\ S # {}
      BY FS_Subset
    <3> HIDE DEF S
    <3>4. PICK V \in SUBSET S : V # {} /\ \A x \in V : \E y \in V : <<y, x>> \in back
      BY <3>2, <3>3, RoundAbout
    <3>5. \A x \in V : \E y \in V : <<x, y>> \in pairs
      BY <3>1, <3>4
    <3> QED BY <3>4, <3>5
  <2> QED BY <2>1, <2>2
<1>2. PICK V \in SUBSET S : V # {} /\ \A x \in V : \E y \in V : <<x, y>> \in pairs
  BY <1>1
<1>3. V \in SUBSET {p[1] : p \in pairs}
  <2>1. \A x \in V : \E p \in pairs : x = p[1]
    BY <1>2
  <2> QED BY <2>1
<1>4. PICK x \in V : \A p \in pairs : p[1] = x => p[2] \notin V
  BY <1>2, <1>3 DEF Acyclic
<1> QED BY <1>2, <1>4

\* What is seen from a boundary: relations between units in two of its children.
LEMMA LiftedPairs ==
  ASSUME NEW refs, IsFiniteSet(refs), Root \notin refs,
         NEW relations, Readable(refs, relations),
         NEW E, E = Enclosing(refs, relations), NEW boundary
  PROVE  /\ \A a, b : <<a, b>> \in Lifted(boundary, refs, relations) <=>
              /\ a # b
              /\ \E r \in relations \ Containing(relations) :
                   /\ a \in E[r.from] /\ ParentOf(a, relations) = boundary
                   /\ b \in E[r.to] /\ ParentOf(b, relations) = boundary
         /\ \A p \in Lifted(boundary, refs, relations) :
              /\ p = <<p[1], p[2]>>
              /\ p[1] \in refs /\ p[2] \in refs
              /\ ParentOf(p[1], relations) = boundary /\ ParentOf(p[2], relations) = boundary
<1> DEFINE D(r) == DirectChild(r.from, boundary, E, relations)
                     \X DirectChild(r.to, boundary, E, relations)
           all == UNION {D(r) : r \in relations \ Containing(relations)}
<1>1. Lifted(boundary, refs, relations) = {p \in all : p[1] # p[2]}
  BY DEF Lifted
<1>2. \A r \in relations : r.from \in refs /\ r.to \in refs
  BY DEF Readable
<1>3. \A r \in refs : E[r] \in SUBSET refs
  BY Climbing
<1>4. \A p : p \in all <=> \E r \in relations \ Containing(relations) : p \in D(r)
  OBVIOUS
<1>5. \A r, p : p \in D(r) <=>
        /\ p = <<p[1], p[2]>>
        /\ p[1] \in E[r.from] /\ ParentOf(p[1], relations) = boundary
        /\ p[2] \in E[r.to] /\ ParentOf(p[2], relations) = boundary
  BY DEF DirectChild
<1> HIDE DEF D, all
<1>6. ASSUME NEW p \in Lifted(boundary, refs, relations)
      PROVE  /\ p = <<p[1], p[2]>>
             /\ p[1] \in refs /\ p[2] \in refs
             /\ ParentOf(p[1], relations) = boundary /\ ParentOf(p[2], relations) = boundary
  <2>1. PICK r \in relations \ Containing(relations) : p \in D(r)
    BY <1>1, <1>4
  <2> QED BY <1>2, <1>3, <1>5, <2>1
<1>7. ASSUME NEW a, NEW b
      PROVE  <<a, b>> \in Lifted(boundary, refs, relations) <=>
              /\ a # b
              /\ \E r \in relations \ Containing(relations) :
                   /\ a \in E[r.from] /\ ParentOf(a, relations) = boundary
                   /\ b \in E[r.to] /\ ParentOf(b, relations) = boundary
  <2>1. \A r : <<a, b>> \in D(r) <=>
           /\ a \in E[r.from] /\ ParentOf(a, relations) = boundary
           /\ b \in E[r.to] /\ ParentOf(b, relations) = boundary
    BY <1>5
  <2>2. <<a, b>> \in Lifted(boundary, refs, relations) <=> <<a, b>> \in all /\ a # b
    BY <1>1
  <2> QED BY <1>4, <2>1, <2>2
<1> QED BY <1>6, <1>7

\* Where the children of the root go round in a circle and the relations do not,
\* relations both enter and leave one of them.
LEMMA EnteredAndLeft ==
  ASSUME NEW refs, IsFiniteSet(refs), Root \notin refs,
         NEW relations, Readable(refs, relations),
         NEW E, E = Enclosing(refs, relations),
         ~Acyclic(Lifted(Root, refs, relations))
  PROVE  \E u \in refs :
           LET within == {x \in refs : u \in E[x]} IN
           /\ \E r \in relations : r.from \notin within /\ r.to \in within \ {u}
           /\ \E r \in relations : r.from \in within /\ r.to \notin within
<1> DEFINE P(x) == ParentOf(x, relations)
           pairs == Lifted(Root, refs, relations)
           W(u) == {x \in refs : u \in E[x]}
<1>1. PICK S \in SUBSET refs : S # {} /\ \A x \in S : \E y \in S : <<x, y>> \in pairs
  <2>1. PICK S \in SUBSET {p[1] : p \in pairs} :
          S # {} /\ \A x \in S : \E p \in pairs : p[1] = x /\ p[2] \in S
    BY DEF Acyclic
  <2>2. \A p \in pairs : p = <<p[1], p[2]>> /\ p[1] \in refs
    BY LiftedPairs
  <2>3. S \in SUBSET refs
    BY <2>2
  <2> HIDE DEF pairs
  <2>4. \A x \in S : \E y \in S : <<x, y>> \in pairs
    BY <2>1, <2>2
  <2> QED BY <2>1, <2>3, <2>4
<1>2. PICK V \in SUBSET S :
        /\ V # {}
        /\ \A x \in V : \E y \in V : <<x, y>> \in pairs
        /\ \A x \in V : \E y \in V : <<y, x>> \in pairs
  <2> HIDE DEF pairs
  <2>1. IsFiniteSet(S)
    BY FS_Subset
  <2> QED BY <1>1, <2>1, RoundAbout
<1> DEFINE Leads(r, x, y) == /\ x # y /\ x \in E[r.from] /\ y \in E[r.to] /\ P(x) = Root /\ P(y) = Root
<1>3. \A x, y : <<x, y>> \in pairs => \E r \in relations : Leads(r, x, y)
  BY LiftedPairs
<1>4. V \in SUBSET refs
  BY <1>1, <1>2
<1> HIDE DEF pairs
<1>5. \A r \in relations : r.from \in refs /\ r.to \in refs
  BY DEF Readable
<1>6. ASSUME NEW r \in relations, NEW x \in refs, NEW y \in refs, Leads(r, x, y)
      PROVE  r.from \in W(x) /\ r.to \in W(y) /\ r.from \notin W(y) /\ r.to \notin W(x)
  <2>1. y \notin E[r.from] /\ x \notin E[r.to]
    BY <1>5, <1>6, OneTop
  <2> QED BY <1>5, <1>6, <2>1
<1>7. CASE \E r \in relations : \E x, y \in V : Leads(r, x, y) /\ r.to # y
  <2>1. PICK r \in relations : \E x, y \in V : Leads(r, x, y) /\ r.to # y
    BY <1>7
  <2>2. PICK x \in V, y \in V : Leads(r, x, y) /\ r.to # y
    BY <2>1
  <2>3. PICK z \in V : <<y, z>> \in pairs
    BY <1>2
  <2>4. PICK s \in relations : Leads(s, y, z)
    BY <1>3, <2>3
  <2> HIDE DEF Leads
  <2>5. r.from \notin W(y) /\ r.to \in W(y) \ {y}
    BY <1>4, <1>6, <2>2
  <2>6. s.from \in W(y) /\ s.to \notin W(y)
    BY <1>4, <1>6, <2>4
  <2> HIDE DEF W
  <2>7. /\ \E q \in relations : q.from \notin W(y) /\ q.to \in W(y) \ {y}
        /\ \E q \in relations : q.from \in W(y) /\ q.to \notin W(y)
    BY <2>5, <2>6
  <2> QED BY <1>4, <2>7 DEF W
<1>8. CASE \A r \in relations : \A x, y \in V : Leads(r, x, y) => r.to = y
  <2> DEFINE T == {z \in refs : \E r \in relations : \E x, y \in V : Leads(r, x, y) /\ z \in E[r.from]}
  <2>1. \A x \in V : \E y \in V : \E r \in relations : Leads(r, x, y)
    BY <1>2, <1>3
  <2>2. V \subseteq T
    BY <1>4, <2>1
  <2>3. \A z \in T : \E y \in T : <<z, y>> \in Pairs(relations)
    <3> SUFFICES ASSUME NEW z \in T PROVE \E y \in T : <<z, y>> \in Pairs(relations)
      OBVIOUS
    <3>1. PICK r \in relations : \E x, y \in V : Leads(r, x, y) /\ z \in E[r.from]
      OBVIOUS
    <3>2. PICK x \in V, y \in V : Leads(r, x, y) /\ z \in E[r.from]
      BY <3>1
    <3>3. CASE z = r.from
      <4>1. r.to \in T
        <5> HIDE DEF Leads, T
        <5> QED BY <1>8, <2>2, <3>2
      <4>2. <<z, r.to>> \in Pairs(relations)
        BY <3>3 DEF Pairs
      <4> QED BY <4>1, <4>2
    <3>4. CASE z # r.from
      <4>1. PICK w \in E[r.from] : P(w) = z
        BY <1>5, <3>2, <3>4, Climbing
      <4>2. z # Root
        OBVIOUS
      <4>3. PICK c \in Containing(relations) : c.to = w /\ c.from = z
        BY <4>1, <4>2, Parents
      <4>4. <<z, w>> \in Pairs(relations)
        BY <4>3 DEF Pairs, Containing
      <4>5. w \in refs
        BY <1>5, Climbing
      <4>6. w \in T
        BY <3>2, <4>5
      <4> QED BY <4>4, <4>6
    <3> QED BY <3>3, <3>4
  <2>4. T \in SUBSET {p[1] : p \in Pairs(relations)}
    <3>1. \A z \in T : \E p \in Pairs(relations) : z = p[1]
      BY <2>3
    <3> QED BY <3>1
  <2>5. PICK z \in T : \A p \in Pairs(relations) : p[1] = z => p[2] \notin T
    <3>1. Acyclic(Pairs(relations)) /\ T # {}
      BY <1>2, <2>2 DEF Readable
    <3> HIDE DEF T
    <3> QED BY <2>4, <3>1 DEF Acyclic
  <2> QED BY <2>3, <2>5
<1> QED BY <1>7, <1>8

----------------------------------------------------------------------------
\* The document that was given, and the order its units are added in.

\* All references that documents give their units.
Names == UNION {RefsOf(Stamped(answer.document.units)) : answer \in FirstAnswers \cup LaterAnswers}

\* A document as it is given: units that are stamped, and what the gateway said of it.
IsGiven(document, receipt) ==
  /\ \E n \in Nat : DOMAIN document.units = 1..n
  /\ \A i \in DOMAIN document.units :
       /\ document.units[i].ref \in Names /\ document.units[i].ref # Root
       /\ document.units[i].order[1] \in Int
  /\ receipt = PostValidation(document.units, document.relations)

\* What Execute keeps of an answer is a document as IsGiven describes it.
LEMMA AnswersAreGiven ==
  ASSUME NEW answer \in FirstAnswers \cup LaterAnswers,
         NEW units, units = Stamped(answer.document.units)
  PROVE  /\ IsGiven([answer.document EXCEPT !.units = units],
                    PostValidation(units, answer.document.relations))
<1> DEFINE listed == answer.document.units
           document == [answer.document EXCEPT !.units = units]
<1>1. document.units = units /\ document.relations = answer.document.relations
  BY AnswersAssumption
<1>2. listed \in Seq(Range(listed))
  BY AnswersAssumption
<1>3. PICK n \in Nat : DOMAIN listed = 1..n
  BY <1>2
<1>4. units = [i \in DOMAIN listed |->
         [ref   |-> IF listed[i].ref = Unset THEN DefaultRef(i) ELSE listed[i].ref,
          order |-> IF listed[i].order = Unset THEN <<i - 1>> ELSE listed[i].order]]
  BY DEF Stamped
<1>5. \A i \in DOMAIN listed : listed[i].ref # Root /\ (listed[i].order # Unset => listed[i].order[1] \in Int)
  BY AnswersAssumption
<1> HIDE DEF listed
<1>6. DOMAIN units = 1..n
  BY <1>3, <1>4
<1>7. ASSUME NEW i \in 1..n
      PROVE  units[i].ref \in Names /\ units[i].ref # Root /\ units[i].order[1] \in Int
  <2>1. units[i].ref \in Names
    <3>1. units[i].ref \in RefsOf(units)
      BY <1>6 DEF RefsOf
    <3> QED BY <3>1 DEF Names
  <2>2. \A k : DefaultRef(k) # Root
    <3>1. \A k : Len(DefaultRef(k)) = 2 /\ Len(Root) = 1
      BY DEF DefaultRef, Root
    <3> QED BY <3>1
  <2>3. units[i].ref # Root
    BY <1>3, <1>4, <1>5, <2>2
  <2>4. units[i].order[1] \in Int
    <3>1. <<i - 1>>[1] \in Int
      OBVIOUS
    <3>2. CASE listed[i].order = Unset
      BY <1>3, <1>4, <3>1, <3>2
    <3>3. CASE listed[i].order # Unset
      BY <1>3, <1>4, <1>5, <3>3
    <3> QED BY <3>2, <3>3
  <2> QED BY <2>1, <2>3, <2>4
<1> HIDE DEF document
<1> QED BY <1>1, <1>3, <1>6, <1>7 DEF IsGiven, document

\* The units in their order are those of the document.
LEMMA UnitsOfTheGiven ==
  ASSUME IsGiven(given.document, given.receipt)
  PROVE  /\ \E n \in Nat : DOMAIN Units = 1..n
         /\ RefsOf(Units) = Refs
         /\ DistinctRefs(Units) <=> DistinctRefs(given.document.units)
         /\ IsFiniteSet(Refs) /\ Root \notin Refs /\ Refs \subseteq Names
<1> DEFINE listed == given.document.units
<1>1. PICK n \in Nat : DOMAIN listed = 1..n
  BY DEF IsGiven
<1>2. \A i \in 1..n : listed[i].ref \in Names /\ listed[i].ref # Root /\ listed[i].order[1] \in Int
  BY <1>1 DEF IsGiven
<1>3. Units = Projected(listed)
  BY DEF Units
<1> HIDE DEF listed
<1>4. PICK p \in [1..n -> 1..n] :
        /\ Projected(listed) = [k \in 1..n |-> listed[p[k]]]
        /\ \A k, l \in 1..n : p[k] = p[l] => k = l
        /\ \A i \in 1..n : \E k \in 1..n : p[k] = i
        /\ \A k, l \in 1..n : k < l => listed[p[k]].order[1] <= listed[p[l]].order[1]
  <2>1. \A i \in 1..n : listed[i].order[1] \in Int
    BY <1>2
  <2> QED BY <1>1, <2>1, ProjectedUnits
<1>5. /\ DOMAIN Units = 1..n
      /\ \A k \in 1..n : Units[k] = listed[p[k]] /\ p[k] \in 1..n
  BY <1>3, <1>4
<1>6. Refs = {listed[i].ref : i \in 1..n}
  BY <1>1 DEF Refs, RefsOf, listed
<1>7. \A x : x \in RefsOf(Units) <=> \E k \in 1..n : x = listed[p[k]].ref
  <2>1. \A x : x \in RefsOf(Units) <=> \E k \in 1..n : x = Units[k].ref
    BY <1>5 DEF RefsOf
  <2> QED BY <1>5, <2>1
<1>8. RefsOf(Units) = Refs
  <2>1. ASSUME NEW x \in Refs PROVE x \in RefsOf(Units)
    <3>1. PICK i \in 1..n : x = listed[i].ref
      BY <1>6
    <3>2. PICK k \in 1..n : p[k] = i
      BY <1>4
    <3> QED BY <1>7, <3>1, <3>2
  <2>2. ASSUME NEW x \in RefsOf(Units) PROVE x \in Refs
    <3>1. PICK k \in 1..n : x = listed[p[k]].ref
      BY <1>7
    <3> QED BY <1>6, <1>5, <3>1
  <2> QED BY <2>1, <2>2
<1>9. DistinctRefs(Units) <=> \A k, l \in 1..n : listed[p[k]].ref = listed[p[l]].ref => k = l
  <2>1. DistinctRefs(Units) <=> \A k, l \in 1..n : Units[k].ref = Units[l].ref => k = l
    BY <1>5 DEF DistinctRefs
  <2>2. \A k \in 1..n : Units[k].ref = listed[p[k]].ref
    BY <1>5
  <2> QED BY <2>1, <2>2
<1>10. DistinctRefs(listed) <=> \A i, j \in 1..n : listed[i].ref = listed[j].ref => i = j
  BY <1>1 DEF DistinctRefs
<1>11. DistinctRefs(Units) <=> DistinctRefs(listed)
  <2>1. ASSUME DistinctRefs(listed) PROVE DistinctRefs(Units)
    <3> SUFFICES ASSUME NEW k \in 1..n, NEW l \in 1..n, listed[p[k]].ref = listed[p[l]].ref PROVE k = l
      BY <1>9
    <3>1. p[k] = p[l]
      BY <1>10, <1>5, <2>1
    <3> QED BY <1>4, <3>1
  <2>2. ASSUME DistinctRefs(Units) PROVE DistinctRefs(listed)
    <3> SUFFICES ASSUME NEW i \in 1..n, NEW j \in 1..n, listed[i].ref = listed[j].ref PROVE i = j
      BY <1>10
    <3>1. PICK k \in 1..n : p[k] = i
      BY <1>4
    <3>2. PICK l \in 1..n : p[l] = j
      BY <1>4
    <3> QED BY <1>9, <2>2, <3>1, <3>2
  <2> QED BY <2>1, <2>2
<1>12. IsFiniteSet(Refs)
  <2> DEFINE f == [i \in 1..n |-> listed[i].ref]
  <2>1. f \in Surjection(1..n, Refs)
    BY <1>6 DEF Surjection
  <2>2. IsFiniteSet(1..n)
    BY FS_Interval
  <2> HIDE DEF f
  <2> QED BY <2>1, <2>2, FS_Surjection
<1> QED BY <1>2, <1>5, <1>6, <1>8, <1>11, <1>12 DEF listed

\* A document that is drawn: what the lemmas on containment ask for.
LEMMA Containment ==
  ASSUME IsGiven(given.document, given.receipt), Readable(Refs, given.document.relations)
  PROVE  /\ IsFiniteSet(Refs) /\ Root \notin Refs /\ Readable(Refs, Relations)
         /\ \A r \in Refs : Around(r) = Enclosing(Refs, Relations)[r]
         /\ \A r \in Refs : Depth(r) \in Nat
         /\ \A r \in Refs : ParentOf(r, Relations) # Root =>
              ParentOf(r, Relations) \in Refs /\ Depth(r) = Depth(ParentOf(r, Relations)) + 1
<1>1. IsFiniteSet(Refs) /\ Root \notin Refs
  BY UnitsOfTheGiven
<1>2. Readable(Refs, Relations)
  <2>1. CASE given.document.selected
    BY <2>1 DEF Relations, Selected
  <2>2. CASE ~given.document.selected
    <3>1. Relations = {}
      BY <2>2 DEF Relations, Selected
    <3>2. Acyclic(Pairs({}))
      BY DEF Acyclic, Pairs
    <3> QED BY <3>1, <3>2 DEF Readable, Containing
  <2> QED BY <2>1, <2>2
<1>3. \A r : Around(r) = Enclosing(Refs, Relations)[r] /\ Depth(r) = Cardinality(Around(r))
  BY DEF Around, Depth
<1>4. \A r \in Refs : Depth(r) \in Nat
  BY <1>1, <1>2, <1>3, OneDeeper
<1>5. ASSUME NEW r \in Refs, ParentOf(r, Relations) # Root
      PROVE  ParentOf(r, Relations) \in Refs /\ Depth(r) = Depth(ParentOf(r, Relations)) + 1
  BY <1>1, <1>2, <1>3, <1>5, OneDeeper, Parents
<1> QED BY <1>1, <1>2, <1>3, <1>4, <1>5

\* The units are added each once, and none before one that lies less deep.
LEMMA WhatContainsIsAddedFirst ==
  ASSUME IsGiven(given.document, given.receipt),
         DistinctRefs(Units), Readable(Refs, given.document.relations)
  PROVE  /\ InAddingOrder \in Seq(Refs)
         /\ \A k, l \in DOMAIN InAddingOrder : InAddingOrder[k] = InAddingOrder[l] => k = l
         /\ \A r \in Refs : \E k \in DOMAIN InAddingOrder : InAddingOrder[k] = r
         /\ \A k, l \in DOMAIN InAddingOrder :
              k < l => Depth(InAddingOrder[k]) <= Depth(InAddingOrder[l])
<1>1. PICK n \in Nat : DOMAIN Units = 1..n
  BY UnitsOfTheGiven
<1>2. \A i \in 1..n : Units[i].ref \in Refs /\ Depth(Units[i].ref) \in Nat
  BY <1>1, UnitsOfTheGiven, Containment DEF RefsOf
<1> DEFINE key == [i \in 1..n |-> Depth(Units[i].ref)]
           p == Sorted(key, n)
<1>3. key \in [1..n -> Int] /\ \A i \in 1..n : key[i] = Depth(Units[i].ref)
  BY <1>2
<1> HIDE DEF key
<1>4. AddingOrder = [k \in 1..n |-> Units[p[k]]]
  <2> DEFINE up == Enclosing(Refs, Relations)
             d(i) == Cardinality(up[Units[i].ref])
             direct == [i \in 1..n |->
                 Cardinality({j \in 1..n : d(j) < d(i) \/ (~(d(i) < d(j)) /\ j <= i)})]
  <2>1. AddingOrder = [k \in 1..n |-> Units[CHOOSE i \in 1..n : direct[i] = k]]
    BY <1>1 DEF AddingOrder, SortedBy
  <2>2. direct = Rank(key, n)
    <3>1. \A i \in 1..n : d(i) = key[i]
      BY <1>3 DEF Depth, Around
    <3> HIDE DEF d
    <3>2. ASSUME NEW i \in 1..n
          PROVE  {j \in 1..n : d(j) < d(i) \/ (~(d(i) < d(j)) /\ j <= i)} = UpTo(i, key, n)
      BY <3>1 DEF UpTo
    <3> QED BY <3>2 DEF Rank
  <2> HIDE DEF direct
  <2> QED BY <2>1, <2>2 DEF Sorted
<1>5. /\ \A k, l \in 1..n : k < l => key[p[k]] <= key[p[l]]
      /\ p \in [1..n -> 1..n]
      /\ \A k, l \in 1..n : p[k] = p[l] => k = l
      /\ \A i \in 1..n : \E k \in 1..n : p[k] = i
  BY <1>3, Sorting
<1> HIDE DEF p
<1>6. InAddingOrder = [k \in 1..n |-> Units[p[k]].ref]
  BY <1>4 DEF InAddingOrder
<1>7. \A k \in 1..n : p[k] \in 1..n /\ InAddingOrder[k] = Units[p[k]].ref
  BY <1>5, <1>6
<1>8. InAddingOrder \in [1..n -> Refs]
  BY <1>2, <1>5, <1>6
<1>9. \A k, l \in 1..n : InAddingOrder[k] = InAddingOrder[l] => k = l
  <2> SUFFICES ASSUME NEW k \in 1..n, NEW l \in 1..n, InAddingOrder[k] = InAddingOrder[l] PROVE k = l
    OBVIOUS
  <2>1. \A i, j \in 1..n : Units[i].ref = Units[j].ref => i = j
    BY <1>1 DEF DistinctRefs
  <2>2. p[k] = p[l]
    BY <1>7, <2>1
  <2> QED BY <1>5, <2>2
<1>10. ASSUME NEW r \in Refs
       PROVE  \E k \in 1..n : InAddingOrder[k] = r
  <2>1. PICK i \in 1..n : Units[i].ref = r
    BY <1>1, UnitsOfTheGiven DEF RefsOf
  <2>2. PICK k \in 1..n : p[k] = i
    BY <1>5
  <2> QED BY <1>7, <2>1, <2>2
<1>11. ASSUME NEW k \in 1..n, NEW l \in 1..n, k < l
       PROVE  Depth(InAddingOrder[k]) <= Depth(InAddingOrder[l])
  <2>1. key[p[k]] <= key[p[l]]
    BY <1>5, <1>11
  <2>2. key[p[k]] = Depth(InAddingOrder[k]) /\ key[p[l]] = Depth(InAddingOrder[l])
    BY <1>3, <1>7
  <2> QED BY <2>1, <2>2
<1>12. DOMAIN InAddingOrder = 1..n /\ InAddingOrder \in Seq(Refs)
  BY <1>8
<1> QED BY <1>9, <1>10, <1>11, <1>12

\* A set put into a sequence is all there.
LEMMA SequenceOfASet ==
  ASSUME NEW S, IsFiniteSet(S)
  PROVE  \E n \in Nat : SetToSeq(S) \in [1..n -> S] /\ \A x \in S : \E i \in 1..n : SetToSeq(S)[i] = x
<1> DEFINE n == Cardinality(S)
<1>1. n \in Nat /\ ExistsBijection(1..n, S)
  BY FS_CardinalityType
<1>2. PICK f \in [1..n -> S] : IsInjective(f)
  BY <1>1 DEF ExistsBijection, Bijection, Injection
<1> HIDE DEF n
<1>3. SetToSeq(S) \in [1..n -> S] /\ IsInjective(SetToSeq(S))
  BY <1>2 DEF SetToSeq, n
<1>4. SetToSeq(S) \in Injection(1..n, S)
  BY <1>3 DEF Injection
<1>5. Cardinality(1..n) = n
  BY <1>1, FS_Interval
<1>6. SetToSeq(S) \in Surjection(1..n, S)
  BY <1>4, <1>5, FS_Injection DEF n
<1> QED BY <1>1, <1>3, <1>6 DEF Surjection

\* Taking a place out of a list moves those after it one forward.
LEMMA TakenOut ==
  ASSUME NEW S, NEW s \in Seq(S), NEW x \in 1..Len(s)
  PROVE  /\ RemoveAt(s, x) \in Seq(S)
         /\ Len(RemoveAt(s, x)) = Len(s) - 1
         /\ \A k \in 1..(Len(s) - 1) : RemoveAt(s, x)[k] = IF k < x THEN s[k] ELSE s[k + 1]
<1> DEFINE before == SubSeq(s, 1, x - 1)
           after == SubSeq(s, x + 1, Len(s))
<1>1. before \in Seq(S) /\ Len(before) = x - 1 /\ \A k \in 1..(x - 1) : before[k] = s[k]
  OBVIOUS
<1>2. after \in Seq(S) /\ Len(after) = Len(s) - x
      /\ \A k \in 1..(Len(s) - x) : after[k] = s[k + x]
  OBVIOUS
<1>3. RemoveAt(s, x) = before \o after
  BY DEF RemoveAt
<1>4. Len(s) \in Nat
  OBVIOUS
<1> HIDE DEF before, after
<1>5. before \o after \in Seq(S) /\ Len(before \o after) = Len(s) - 1
  <2>1. before \o after \in Seq(S)
    BY <1>1, <1>2
  <2>2. Len(before \o after) = Len(before) + Len(after)
    <3>1. ASSUME NEW a \in Seq(S), NEW b \in Seq(S) PROVE Len(a \o b) = Len(a) + Len(b)
      BY ONLY a \in Seq(S), b \in Seq(S)
    <3> QED BY <1>1, <1>2, <3>1
  <2> QED BY <1>1, <1>2, <1>4, <2>1, <2>2
<1>6. ASSUME NEW k \in 1..(Len(s) - 1), k < x
      PROVE  (before \o after)[k] = s[k]
  BY <1>1, <1>2, <1>4, <1>6
<1>7. ASSUME NEW k \in 1..(Len(s) - 1), ~(k < x)
      PROVE  (before \o after)[k] = s[k + 1]
  <2>1. (before \o after)[k] = after[k - (x - 1)]
    BY <1>1, <1>2, <1>4, <1>7
  <2>2. k - (x - 1) \in 1..(Len(s) - x) /\ k - (x - 1) + x = k + 1
    BY <1>4, <1>7
  <2> QED BY <1>2, <2>1, <2>2
<1> QED BY <1>3, <1>5, <1>6, <1>7

\* Taking the first of a list.
LEMMA FirstTaken ==
  ASSUME NEW S, NEW s \in Seq(S), s # <<>>
  PROVE  /\ Len(s) \in Nat \ {0} /\ DOMAIN s = 1..Len(s)
         /\ Head(s) = s[1] /\ Head(s) \in S
         /\ Tail(s) \in Seq(S) /\ Len(Tail(s)) = Len(s) - 1 /\ DOMAIN Tail(s) = 1..(Len(s) - 1)
         /\ \A i \in 1..(Len(s) - 1) : Tail(s)[i] = s[i + 1]
<1>1. Len(s) \in Nat \ {0} /\ DOMAIN s = 1..Len(s)
  OBVIOUS
<1>2. Head(s) = s[1] /\ Head(s) \in S
  BY <1>1
<1>3. Tail(s) \in Seq(S) /\ Len(Tail(s)) = Len(s) - 1
  BY <1>1
<1>4. DOMAIN Tail(s) = 1..(Len(s) - 1)
  BY <1>3
<1>5. \A i \in 1..(Len(s) - 1) : Tail(s)[i] = s[i + 1]
  BY <1>1
<1> QED BY <1>1, <1>2, <1>3, <1>4, <1>5

----------------------------------------------------------------------------
\* The inductive invariant.

NodeType == [id : Nat \ {0}, ref : Names, parent : Int, depth : Nat]
Phases == {"idle", "clearing", "adding", "placing", "wiring", "reading", "failed"}

\* A document is known from the first execution on; what lies in the lists are names.
TypeOK ==
  /\ turn \in 0..2
  /\ phase \in Phases
  /\ phase # "idle" => turn > 0
  /\ turn > 0 => IsGiven(given.document, given.receipt)
  /\ nodes \in Seq(NodeType)
  /\ gradients \in Seq(Nat)
  /\ todo \in Seq(Names \cup {Root})
  /\ lastId \in Nat

\* Nodes have ids of their own, and these are remembered.
OwnIds ==
  /\ \A i, j \in DOMAIN nodes : nodes[i].id = nodes[j].id => i = j
  /\ \A i \in DOMAIN nodes : nodes[i].id <= lastId /\ nodes[i].id \in Range(gradients)

\* From the reading of a document on the nodes are its units, in the order they are
\* added in, and the first ones of them have their place.
OfTheGiven == phase \in {"adding", "placing", "wiring", "reading"} \/ Drawn

\* How many nodes have their place.
Placed ==
  CASE phase = "adding"  -> 0
    [] phase = "placing" -> Len(InAddingOrder) - Len(todo)
    [] OTHER             -> Len(InAddingOrder)

\* A node is in its place: as deep as its unit, in the node of its unit's parent, which
\* came before it.
InPlace(i) ==
  LET p == ParentOf(nodes[i].ref, Relations) IN
  /\ nodes[i].depth = Depth(nodes[i].ref)
  /\ IF p = Root THEN nodes[i].parent = BoundaryNode
     ELSE \E j \in 1..(i - 1) : nodes[j].ref = p /\ nodes[i].parent = nodes[j].id

\* The nodes and what is still to be added or placed make up the order.
Listed ==
  OfTheGiven =>
    /\ Drawable
    /\ phase # "adding" => Len(nodes) = Len(InAddingOrder)
    /\ phase = "adding" => Len(InAddingOrder) = Len(nodes) + Len(todo)
    /\ phase = "placing" => Len(todo) <= Len(nodes)
    /\ \A i \in DOMAIN nodes : nodes[i].ref = InAddingOrder[i]
    /\ phase = "adding" => \A i \in DOMAIN todo : todo[i] = InAddingOrder[Len(nodes) + i]
    /\ phase = "placing" => \A i \in DOMAIN todo : todo[i] = InAddingOrder[Placed + i]
    /\ \A i \in DOMAIN nodes : IF i <= Placed THEN InPlace(i) ELSE nodes[i].parent = NoParent

\* A drawing fails for one of two reasons.
Failing == phase = "failed" => ~Drawable \/ ~NamesUnits(Units, given.gates, given.facts)

DrawInv == TypeOK /\ OwnIds /\ ParentsComeFirst /\ Listed /\ Failing

----------------------------------------------------------------------------
\* What is read off the document stays as it is while the document does.
LEMMA SameDocument ==
  ASSUME given' = given
  PROVE  /\ Units' = Units /\ Refs' = Refs /\ Relations' = Relations
         /\ Drawable' = Drawable
         /\ InAddingOrder' = InAddingOrder
         /\ \A r : Around(r)' = Around(r) /\ Depth(r)' = Depth(r)
<1>1. Units' = Units /\ Refs' = Refs /\ Relations' = Relations
  BY DEF Units, Refs, Relations
<1>2. Drawable' = Drawable
  BY <1>1 DEF Drawable, CircleAtRoot
<1>3. \A r : Around(r)' = Around(r)
  BY <1>1 DEF Around
<1>4. \A r : Depth(r)' = Depth(r)
  BY <1>3 DEF Depth
<1>5. AddingOrder' = AddingOrder
  BY <1>1 DEF AddingOrder, SortedBy
<1>6. InAddingOrder' = InAddingOrder
  BY <1>5 DEF InAddingOrder
<1> QED BY <1>1, <1>2, <1>3, <1>4, <1>6

\* What a document that is drawn has.
LEMMA OrderOfADrawing ==
  ASSUME IsGiven(given.document, given.receipt), Drawable
  PROVE  /\ IsFiniteSet(Refs) /\ Root \notin Refs /\ Readable(Refs, Relations) /\ Refs \subseteq Names
         /\ InAddingOrder \in Seq(Refs)
         /\ \A k, l \in DOMAIN InAddingOrder : InAddingOrder[k] = InAddingOrder[l] => k = l
         /\ \A r \in Refs : \E k \in DOMAIN InAddingOrder : InAddingOrder[k] = r
         /\ \A k, l \in DOMAIN InAddingOrder :
              k < l => Depth(InAddingOrder[k]) <= Depth(InAddingOrder[l])
  BY UnitsOfTheGiven, Containment, WhatContainsIsAddedFirst DEF Drawable

\* While a document is drawn each node stands for one unit, and NodeOf finds it.
LEMMA NodesOfADrawing ==
  ASSUME TypeOK, OwnIds, Listed, OfTheGiven
  PROVE  /\ IsGiven(given.document, given.receipt)
         /\ \A i \in DOMAIN nodes :
              /\ nodes[i] \in NodeType
              /\ i \in DOMAIN InAddingOrder /\ nodes[i].ref \in Refs
              /\ NodeOf(nodes[i].ref) = nodes[i].id
         /\ \A i, j \in DOMAIN nodes : nodes[i].ref = nodes[j].ref => i = j
         /\ phase # "adding" => \A r \in Refs : \E i \in DOMAIN nodes : nodes[i].ref = r
<1>1. IsGiven(given.document, given.receipt) /\ Drawable
  BY DEF TypeOK, Listed, OfTheGiven, Drawn, Phases
<1>2. /\ InAddingOrder \in Seq(Refs)
      /\ \A k, l \in DOMAIN InAddingOrder : InAddingOrder[k] = InAddingOrder[l] => k = l
      /\ \A r \in Refs : \E k \in DOMAIN InAddingOrder : InAddingOrder[k] = r
      /\ Root \notin Refs
  BY <1>1, OrderOfADrawing
<1>3. /\ phase # "adding" => Len(nodes) = Len(InAddingOrder)
      /\ phase = "adding" => Len(InAddingOrder) = Len(nodes) + Len(todo)
      /\ \A i \in DOMAIN nodes : nodes[i].ref = InAddingOrder[i]
  BY DEF Listed
<1>4. nodes \in Seq(NodeType) /\ Len(todo) \in Nat
  BY DEF TypeOK
<1>5. Len(nodes) \in Nat /\ DOMAIN nodes = 1..Len(nodes)
  BY <1>4
<1>6. Len(InAddingOrder) \in Nat /\ DOMAIN InAddingOrder = 1..Len(InAddingOrder)
      /\ \A k \in DOMAIN InAddingOrder : InAddingOrder[k] \in Refs
  BY <1>2
<1>7. Len(nodes) <= Len(InAddingOrder)
  <2>1. CASE phase = "adding"
    <3>1. Len(InAddingOrder) = Len(nodes) + Len(todo)
      BY <1>3, <2>1
    <3>2. Len(todo) \in Nat /\ Len(nodes) \in Nat
      BY <1>4, <1>5
    <3> QED BY <3>1, <3>2
  <2>2. CASE phase # "adding"
    BY <1>3, <1>6, <2>2
  <2> QED BY <2>1, <2>2
<1>8. \A i \in DOMAIN nodes : nodes[i] \in NodeType /\ i \in DOMAIN InAddingOrder /\ nodes[i].ref \in Refs
  <2>1. \A i \in DOMAIN nodes : i \in DOMAIN InAddingOrder
    BY <1>5, <1>6, <1>7
  <2>2. \A i \in DOMAIN nodes : nodes[i].ref \in Refs
    BY <1>3, <1>6, <2>1
  <2>3. \A i \in DOMAIN nodes : nodes[i] \in NodeType
    BY <1>4
  <2> QED BY <2>1, <2>2, <2>3
<1>9. \A i, j \in DOMAIN nodes : nodes[i].ref = nodes[j].ref => i = j
  BY <1>2, <1>3, <1>8
<1>10. ASSUME NEW i \in DOMAIN nodes
       PROVE  NodeOf(nodes[i].ref) = nodes[i].id
  <2>1. nodes[i].id \in Range(gradients) /\ nodes[i].ref # Root
    BY <1>2, <1>8 DEF OwnIds
  <2> DEFINE x == CHOOSE k \in DOMAIN nodes : nodes[k].ref = nodes[i].ref /\ nodes[k].id \in Range(gradients)
  <2>2. x \in DOMAIN nodes /\ nodes[x].ref = nodes[i].ref
    BY <2>1
  <2>3. x = i
    BY <1>9, <2>2
  <2> QED BY <2>1, <2>3 DEF NodeOf
<1>11. ASSUME phase # "adding", NEW r \in Refs
       PROVE  \E i \in DOMAIN nodes : nodes[i].ref = r
  <2>1. PICK k \in DOMAIN InAddingOrder : InAddingOrder[k] = r
    BY <1>2
  <2>2. k \in DOMAIN nodes
    BY <1>3, <1>5, <1>6, <1>11
  <2> QED BY <1>3, <2>1, <2>2
<1> QED BY <1>1, <1>8, <1>9, <1>10, <1>11

\* Nodes that are placed where the document says have their parents before them.
LEMMA PlacedComeFirst == TypeOK /\ OwnIds /\ Listed /\ OfTheGiven => ParentsComeFirst
<1> SUFFICES ASSUME TypeOK, OwnIds, Listed, OfTheGiven, NEW i \in DOMAIN nodes, nodes[i].parent > BoundaryNode
    PROVE  \E j \in 1..(i - 1) : nodes[j].id = nodes[i].parent /\ nodes[j].depth = nodes[i].depth - 1
  BY DEF ParentsComeFirst
<1>1. IsGiven(given.document, given.receipt) /\ Drawable
      /\ \A k \in DOMAIN nodes : nodes[k].ref \in Refs /\ nodes[k] \in NodeType
  BY NodesOfADrawing DEF Listed
<1>2. /\ \A r \in Refs : Depth(r) \in Nat
      /\ \A r \in Refs : ParentOf(r, Relations) # Root =>
           ParentOf(r, Relations) \in Refs /\ Depth(r) = Depth(ParentOf(r, Relations)) + 1
  BY <1>1, Containment DEF Drawable
<1>3. \A k \in DOMAIN nodes : IF k <= Placed THEN InPlace(k) ELSE nodes[k].parent = NoParent
  BY DEF Listed
<1>4. i <= Placed /\ InPlace(i)
  BY <1>3 DEF NoParent, BoundaryNode
<1>5. PICK j \in 1..(i - 1) :
        nodes[j].ref = ParentOf(nodes[i].ref, Relations) /\ nodes[i].parent = nodes[j].id
  BY <1>4 DEF InPlace, BoundaryNode
<1>6. j \in DOMAIN nodes /\ j \in Nat /\ i \in Nat /\ j <= i
  BY DEF TypeOK
<1>7. Placed \in Int
  <2>1. Len(todo) \in Nat
    BY DEF TypeOK
  <2>2. Len(InAddingOrder) \in Nat
    BY <1>1, OrderOfADrawing
  <2> QED BY <2>1, <2>2 DEF Placed
<1>8. j <= Placed
  BY <1>4, <1>6, <1>7
<1>9. nodes[j].depth = Depth(nodes[j].ref) /\ nodes[i].depth = Depth(nodes[i].ref)
  BY <1>3, <1>4, <1>6, <1>8 DEF InPlace
<1>10. nodes[j].ref # Root
  BY <1>1, <1>6, OrderOfADrawing
<1>11. nodes[j].depth = nodes[i].depth - 1
  BY <1>1, <1>2, <1>5, <1>6, <1>9, <1>10
<1> QED BY <1>5, <1>11

\* Of the nodes that are left to remove there is a deepest one.
LEMMA TheDeepest ==
  ASSUME TypeOK, OwnIds, nodes # <<>>
  PROVE  LET left == {g \in Range(gradients) : g \in Ids}
             deepest == {g \in left : \A h \in left : Node(h).depth <= Node(g).depth}
             gone == CHOOSE g \in deepest : \A h \in deepest : g <= h
             x == CHOOSE i \in DOMAIN nodes : nodes[i].id = gone
         IN  x \in DOMAIN nodes /\ \A h \in DOMAIN nodes : nodes[h].depth <= nodes[x].depth
<1> DEFINE left == {g \in Range(gradients) : g \in Ids}
           deepest == {g \in left : \A h \in left : Node(h).depth <= Node(g).depth}
           gone == CHOOSE g \in deepest : \A h \in deepest : g <= h
           x == CHOOSE i \in DOMAIN nodes : nodes[i].id = gone
           n == Len(nodes)
<1>1. n \in Nat /\ DOMAIN nodes = 1..n /\ \A i \in 1..n : nodes[i] \in NodeType
  BY DEF TypeOK
<1>2. n # 0
  BY DEF TypeOK
<1>3. ASSUME NEW i \in 1..n
      PROVE  Node(nodes[i].id) = nodes[i]
  <2> DEFINE c == CHOOSE k \in DOMAIN nodes : nodes[k].id = nodes[i].id
  <2>1. c \in DOMAIN nodes /\ nodes[c].id = nodes[i].id
    BY <1>1
  <2>2. c = i
    BY <1>1, <2>1 DEF OwnIds
  <2> QED BY <2>2 DEF Node
<1>4. left = Ids /\ Ids = {nodes[i].id : i \in 1..n}
  BY <1>1 DEF OwnIds, Ids
<1>5. \A i \in 1..n : nodes[i].id \in Nat /\ nodes[i].depth \in Nat
  BY <1>1 DEF NodeType
<1> HIDE DEF n
<1>6. \E i \in 1..n : \A h \in 1..n : nodes[h].depth <= nodes[i].depth
  <2> DEFINE D(i) == {h \in 1..n : nodes[h].depth >= nodes[i].depth}
             F == {D(i) : i \in 1..n}
  <2>1. IsFiniteSet(1..n)
    BY <1>1, FS_Interval
  <2>2. 1 \in 1..n /\ \A i \in 1..n : D(i) \in SUBSET (1..n)
    BY <1>1, <1>2
  <2>3. \A U : U \in F <=> \E i \in 1..n : U = D(i)
    OBVIOUS
  <2> HIDE DEF F
  <2>4. PICK T \in F : \A U \in F : U \subseteq T => U = T
    <3> HIDE DEF D
    <3> DEFINE I == 1..n
    <3>1. F \in SUBSET (SUBSET I) /\ F # {} /\ IsFiniteSet(I)
      BY <2>1, <2>2, <2>3
    <3> HIDE DEF I
    <3> QED BY <3>1, LeastSubset
  <2>5. PICK i \in 1..n : T = D(i)
    BY <2>3
  <2>6. ASSUME NEW h \in 1..n
        PROVE  nodes[h].depth <= nodes[i].depth
    <3> SUFFICES ASSUME ~(nodes[h].depth <= nodes[i].depth) PROVE FALSE
      OBVIOUS
    <3>1. D(h) \subseteq D(i) /\ i \notin D(h) /\ i \in D(i)
      BY <1>5
    <3>2. D(h) = D(i)
      BY <2>3, <2>4, <2>5, <3>1
    <3> QED BY <3>1, <3>2
  <2> QED BY <2>6
<1>7. \A i \in 1..n : nodes[i].id \in deepest <=> \A h \in 1..n : nodes[h].depth <= nodes[i].depth
  BY <1>3, <1>4
<1>8. deepest \in SUBSET Nat /\ \A g \in deepest : \E i \in 1..n : g = nodes[i].id
  BY <1>4, <1>5
<1> HIDE DEF deepest, left
<1>9. deepest # {}
  BY <1>6, <1>7
<1>10. gone \in deepest
  BY <1>8, <1>9, LeastNat
<1> HIDE DEF gone
<1>11. x \in 1..n /\ nodes[x].id = gone
  BY <1>1, <1>8, <1>10
<1> HIDE DEF x
<1>12. \A h \in 1..n : nodes[h].depth <= nodes[x].depth
  BY <1>7, <1>10, <1>11
<1>13. x \in DOMAIN nodes /\ \A h \in DOMAIN nodes : nodes[h].depth <= nodes[x].depth
  BY <1>1, <1>11, <1>12
<1> QED BY <1>13 DEF x, gone, deepest, left

\* Taking the deepest node away leaves every node with its parent before it.
LEMMA ClearKeeps == DrawInv /\ Clear => DrawInv'
<1> SUFFICES ASSUME DrawInv, Clear PROVE DrawInv'
  OBVIOUS
<1> USE DEF DrawInv
<1>1. nodes # <<>>
  BY DEF Clear, Ids
<1> DEFINE left == {g \in Range(gradients) : g \in Ids}
           deepest == {g \in left : \A h \in left : Node(h).depth <= Node(g).depth}
           gone == CHOOSE g \in deepest : \A h \in deepest : g <= h
           x == CHOOSE i \in DOMAIN nodes : nodes[i].id = gone
           n == Len(nodes)
<1>2. x \in DOMAIN nodes /\ \A h \in DOMAIN nodes : nodes[h].depth <= nodes[x].depth
  BY <1>1, TheDeepest
<1>3. nodes' = RemoveAt(nodes, x)
  BY DEF Clear
<1> HIDE DEF x
<1>4. n \in Nat /\ DOMAIN nodes = 1..n /\ x \in 1..n
  BY <1>2 DEF TypeOK
<1>5. /\ nodes' \in Seq(NodeType)
      /\ Len(nodes') = n - 1
      /\ \A k \in 1..(n - 1) : nodes'[k] = IF k < x THEN nodes[k] ELSE nodes[k + 1]
  BY <1>3, <1>4, TakenOut DEF TypeOK
<1>6. DOMAIN nodes' = 1..(n - 1)
  BY <1>4, <1>5
<1> HIDE DEF n
<1>7. \A i \in 1..n : nodes[i] \in NodeType /\ nodes[i].depth \in Nat
  <2>1. \A i \in 1..n : nodes[i] \in NodeType
    BY <1>4 DEF TypeOK
  <2> QED BY <2>1 DEF NodeType
<1> DEFINE at == [k \in 1..(n - 1) |-> IF k < x THEN k ELSE k + 1]
<1>8. /\ \A k \in 1..(n - 1) : at[k] \in 1..n /\ at[k] # x /\ nodes'[k] = nodes[at[k]]
      /\ \A k, l \in 1..(n - 1) : at[k] = at[l] => k = l
  BY <1>4, <1>5
<1>9. UNCHANGED <<turn, phase, given, gradients, todo, lastId>> /\ phase = "clearing"
  BY DEF Clear
<1>10. TypeOK'
  BY <1>5, <1>9 DEF TypeOK
<1>11. OwnIds'
  <2>1. ASSUME NEW i \in 1..(n - 1), NEW j \in 1..(n - 1), nodes'[i].id = nodes'[j].id
        PROVE  i = j
    <3> HIDE DEF at
    <3>1. at[i] = at[j]
      BY <1>4, <1>8, <2>1 DEF OwnIds
    <3> QED BY <1>8, <3>1
  <2>2. ASSUME NEW i \in 1..(n - 1)
        PROVE  nodes'[i].id <= lastId /\ nodes'[i].id \in Range(gradients)
    <3> HIDE DEF at
    <3> QED BY <1>4, <1>8 DEF OwnIds
  <2> QED BY <1>6, <1>9, <2>1, <2>2 DEF OwnIds
<1>12. ParentsComeFirst'
  <2> SUFFICES ASSUME NEW k \in 1..(n - 1), nodes'[k].parent > BoundaryNode
      PROVE  \E l \in 1..(k - 1) : nodes'[l].id = nodes'[k].parent /\ nodes'[l].depth = nodes'[k].depth - 1
    BY <1>6 DEF ParentsComeFirst
  <2> DEFINE i == IF k < x THEN k ELSE k + 1
  <2>1. i \in 1..n /\ i # x /\ nodes'[k] = nodes[i]
    BY <1>4, <1>5
  <2>2. PICK j \in 1..(i - 1) : nodes[j].id = nodes[i].parent /\ nodes[j].depth = nodes[i].depth - 1
    BY <1>4, <2>1 DEF ParentsComeFirst
  <2>3. j \in 1..n /\ j < i
    BY <1>4, <2>1
  <2>4. j # x
    <3>1. nodes[i].depth <= nodes[x].depth
      BY <1>2, <1>4, <2>1
    <3>2. nodes[j].depth < nodes[i].depth
      BY <1>7, <2>1, <2>2, <2>3
    <3> QED BY <1>4, <1>7, <2>1, <2>3, <3>1, <3>2
  <2> DEFINE l == IF j < x THEN j ELSE j - 1
  <2>5. l \in 1..(k - 1) /\ l \in 1..(n - 1) /\ (IF l < x THEN l ELSE l + 1) = j
    BY <1>4, <2>1, <2>3, <2>4
  <2> HIDE DEF l, i
  <2>6. nodes'[l] = nodes[j]
    BY <1>5, <2>5
  <2> QED BY <2>1, <2>2, <2>5, <2>6
<1>13. Listed' /\ Failing'
  BY <1>9 DEF Listed, Failing, OfTheGiven, Drawn
<1> QED BY <1>10, <1>11, <1>12, <1>13

\* Reading the document, with all nodes of the last drawing gone, starts the list of units.
LEMMA ReadingKeeps == DrawInv /\ (ReadDocument \/ DocumentThrows) => DrawInv'
<1> SUFFICES ASSUME DrawInv, ReadDocument \/ DocumentThrows PROVE DrawInv'
  OBVIOUS
<1> USE DEF DrawInv
<1>1. nodes = <<>> /\ Len(nodes) = 0 /\ DOMAIN nodes = {}
  <2>1. DOMAIN nodes = {}
    BY DEF ReadDocument, DocumentThrows, Cleared, OwnIds, Ids
  <2> QED BY <2>1 DEF TypeOK
<1>2. UNCHANGED <<turn, given, nodes, lastId>> /\ turn > 0
  BY DEF ReadDocument, DocumentThrows, Cleared, TypeOK
<1>3. IsGiven(given.document, given.receipt)
  BY <1>2 DEF TypeOK
<1>4. CASE ReadDocument
  <2>1. Drawable /\ todo' = InAddingOrder /\ gradients' = <<>> /\ phase' = "adding"
    BY <1>4 DEF ReadDocument
  <2>2. InAddingOrder \in Seq(Refs) /\ Refs \subseteq Names
    BY <1>3, <2>1, OrderOfADrawing
  <2>3. Drawable' /\ InAddingOrder' = InAddingOrder
    BY <1>2, <2>1, SameDocument
  <2>4. todo' \in Seq(Names \cup {Root})
    BY <2>1, <2>2
  <2>5. TypeOK'
    BY <1>2, <2>1, <2>4 DEF TypeOK, Phases
  <2>6. OwnIds' /\ ParentsComeFirst' /\ Failing'
    BY <1>1, <1>2, <2>1 DEF OwnIds, ParentsComeFirst, Failing
  <2>7. Listed'
    <3>1. Len(InAddingOrder) \in Nat
      BY <2>2
    <3>2. Len(InAddingOrder') = Len(nodes') + Len(todo') /\ \A i \in DOMAIN todo' : todo'[i] = InAddingOrder'[Len(nodes') + i]
      BY <1>1, <1>2, <2>1, <2>2, <2>3, <3>1
    <3> QED BY <1>1, <1>2, <2>1, <2>3, <3>2 DEF Listed
  <2> QED BY <2>5, <2>6, <2>7
<1>5. CASE DocumentThrows
  <2>1. ~Drawable /\ phase' = "failed" /\ UNCHANGED <<todo, gradients>>
    BY <1>5 DEF DocumentThrows
  <2>2. ~Drawable'
    BY <1>2, <2>1, SameDocument
  <2>3. TypeOK'
    BY <1>2, <2>1 DEF TypeOK, Phases
  <2>4. OwnIds' /\ ParentsComeFirst'
    BY <1>1, <1>2 DEF OwnIds, ParentsComeFirst
  <2> QED BY <2>1, <2>2, <2>3, <2>4 DEF Listed, Failing, OfTheGiven, Drawn
<1> QED BY <1>4, <1>5

\* A unit that is added is the next one of the order, and has no place yet.
LEMMA AddingKeeps == DrawInv /\ AddUnit => DrawInv'
<1> SUFFICES ASSUME DrawInv, AddUnit PROVE DrawInv'
  OBVIOUS
<1> USE DEF DrawInv
<1> DEFINE n == Len(nodes)
           new == [id |-> lastId', ref |-> Head(todo), parent |-> NoParent, depth |-> 0]
<1>1. /\ phase = "adding" /\ todo # <<>>
      /\ lastId' = lastId + 1
      /\ nodes' = Append(nodes, new)
      /\ gradients' = Append(gradients, lastId')
      /\ todo' = Tail(todo)
      /\ UNCHANGED <<turn, phase, given>>
  BY DEF AddUnit
<1>2. OfTheGiven /\ OfTheGiven' /\ turn > 0
  BY <1>1 DEF OfTheGiven, TypeOK
<1>3. /\ IsGiven(given.document, given.receipt) /\ Drawable
      /\ Len(InAddingOrder) = n + Len(todo)
      /\ \A i \in DOMAIN nodes : nodes[i].ref = InAddingOrder[i]
      /\ \A i \in DOMAIN todo : todo[i] = InAddingOrder[n + i]
      /\ \A i \in DOMAIN nodes : IF i <= Placed THEN InPlace(i) ELSE nodes[i].parent = NoParent
  BY <1>1, <1>2 DEF Listed, TypeOK
<1>4. InAddingOrder \in Seq(Refs) /\ Refs \subseteq Names
  BY <1>3, OrderOfADrawing
<1>5. /\ n \in Nat /\ DOMAIN nodes = 1..n
      /\ Len(todo) \in Nat \ {0} /\ DOMAIN todo = 1..Len(todo)
      /\ lastId \in Nat
  BY <1>1 DEF TypeOK
<1>6. /\ Head(todo) = todo[1] /\ Tail(todo) \in Seq(Names \cup {Root}) /\ Len(Tail(todo)) = Len(todo) - 1
      /\ DOMAIN Tail(todo) = 1..(Len(todo) - 1)
      /\ \A i \in 1..(Len(todo) - 1) : Tail(todo)[i] = todo[i + 1]
  BY <1>1, FirstTaken DEF TypeOK
<1>7. Head(todo) = InAddingOrder[n + 1] /\ Head(todo) \in Names
  BY <1>3, <1>4, <1>5, <1>6
<1>8. new \in NodeType
  BY <1>1, <1>5, <1>7 DEF NodeType, NoParent
<1> HIDE DEF new
<1>9. nodes \in Seq(NodeType) /\ gradients \in Seq(Nat)
  BY DEF TypeOK
<1>10. /\ nodes' \in Seq(NodeType) /\ Len(nodes') = n + 1 /\ DOMAIN nodes' = 1..(n + 1)
       /\ \A i \in 1..n : nodes'[i] = nodes[i]
       /\ nodes'[n + 1] = new
  BY <1>1, <1>5, <1>8, <1>9
<1> HIDE DEF n
<1>11. /\ gradients' \in Seq(Nat) /\ Range(gradients) \subseteq Range(gradients')
       /\ lastId' \in Range(gradients')
  <2> DEFINE m == Len(gradients)
  <2>1. m \in Nat /\ DOMAIN gradients = 1..m /\ lastId' \in Nat
    BY <1>1, <1>5, <1>9
  <2>2. /\ gradients' \in Seq(Nat) /\ DOMAIN gradients' = 1..(m + 1)
        /\ \A i \in 1..m : gradients'[i] = gradients[i]
        /\ gradients'[m + 1] = lastId'
    BY <1>1, <1>9, <2>1
  <2> HIDE DEF m
  <2> QED BY <2>1, <2>2 DEF Range
<1>12. TypeOK'
  BY <1>1, <1>5, <1>6, <1>10, <1>11 DEF TypeOK
<1>13. new.id = lastId + 1 /\ new.ref = Head(todo) /\ new.parent = NoParent
  BY <1>1 DEF new
<1>14. OwnIds'
  <2>1. \A i \in 1..n : nodes'[i].id \in Nat /\ nodes'[i].id <= lastId /\ nodes'[i].id \in Range(gradients')
    <3>1. \A i \in 1..n : nodes[i] \in NodeType
      BY <1>5, <1>9
    <3> QED BY <1>5, <1>10, <1>11, <3>1 DEF OwnIds, NodeType
  <2>2. ASSUME NEW i \in 1..(n + 1), NEW j \in 1..(n + 1), nodes'[i].id = nodes'[j].id
        PROVE  i = j
    <3>1. CASE i = n + 1 \/ j = n + 1
      BY <1>5, <1>10, <1>13, <2>1, <2>2, <3>1
    <3>2. CASE i \in 1..n /\ j \in 1..n
      BY <1>5, <1>10, <2>2, <3>2 DEF OwnIds
    <3> QED BY <1>5, <3>1, <3>2
  <2>3. ASSUME NEW i \in 1..(n + 1)
        PROVE  nodes'[i].id <= lastId' /\ nodes'[i].id \in Range(gradients')
    <3>1. CASE i = n + 1
      BY <1>1, <1>5, <1>10, <1>11, <1>13, <3>1
    <3>2. CASE i \in 1..n
      BY <1>1, <1>5, <2>1, <3>2
    <3> QED BY <1>5, <3>1, <3>2
  <2> QED BY <1>10, <2>2, <2>3 DEF OwnIds
<1>15. Drawable' /\ InAddingOrder' = InAddingOrder
  BY <1>1, <1>3, SameDocument
<1>16. Placed = 0 /\ Placed' = 0
  BY <1>1 DEF Placed
<1>17. Listed'
  <2>1. Len(InAddingOrder') = Len(nodes') + Len(todo')
    <3>1. Len(todo') = Len(todo) - 1 /\ Len(nodes') = n + 1 /\ Len(InAddingOrder') = n + Len(todo)
      BY <1>1, <1>3, <1>6, <1>10, <1>15
    <3> QED BY ONLY <1>5, <3>1
  <2>2. \A i \in DOMAIN nodes' : nodes'[i].ref = InAddingOrder'[i]
    BY <1>3, <1>5, <1>7, <1>10, <1>13, <1>15
  <2>3. ASSUME NEW i \in DOMAIN todo'
        PROVE  todo'[i] = InAddingOrder'[Len(nodes') + i]
    <3>1. i \in 1..(Len(todo) - 1)
      BY <1>1, <1>6, <2>3
    <3>2. todo'[i] = todo[i + 1]
      BY <1>1, <1>6, <3>1
    <3>3. i + 1 \in DOMAIN todo
      BY <1>5, <3>1
    <3>4. todo[i + 1] = InAddingOrder[n + (i + 1)]
      BY <1>3, <3>3
    <3>5. n + (i + 1) = Len(nodes') + i
      BY <1>5, <1>10, <3>1
    <3> QED BY <1>15, <3>2, <3>4, <3>5
  <2>4. \A i \in DOMAIN nodes' : ~(i <= Placed') /\ nodes'[i].parent = NoParent
    BY <1>3, <1>5, <1>10, <1>13, <1>16
  <2> QED BY <1>1, <1>15, <2>1, <2>2, <2>3, <2>4 DEF Listed
<1>18. ParentsComeFirst'
  BY <1>3, <1>5, <1>10, <1>13, <1>16 DEF ParentsComeFirst, NoParent, BoundaryNode
<1>19. Failing'
  BY <1>1 DEF Failing
<1> QED BY <1>12, <1>14, <1>17, <1>18, <1>19

\* With all units added the order begins anew.
LEMMA AllAddedKeeps == DrawInv /\ AllAdded => DrawInv'
<1> SUFFICES ASSUME DrawInv, AllAdded PROVE DrawInv'
  OBVIOUS
<1> USE DEF DrawInv
<1>1. /\ phase = "adding" /\ todo = <<>> /\ todo' = InAddingOrder /\ phase' = "placing"
      /\ UNCHANGED <<turn, given, nodes, gradients, lastId>>
  BY DEF AllAdded
<1>2. OfTheGiven /\ turn > 0
  BY <1>1 DEF OfTheGiven, TypeOK
<1>3. /\ IsGiven(given.document, given.receipt) /\ Drawable
      /\ Len(InAddingOrder) = Len(nodes) + Len(todo)
      /\ \A i \in DOMAIN nodes : nodes[i].ref = InAddingOrder[i]
      /\ \A i \in DOMAIN nodes : IF i <= Placed THEN InPlace(i) ELSE nodes[i].parent = NoParent
  BY <1>1, <1>2 DEF Listed, TypeOK
<1>4. InAddingOrder \in Seq(Refs) /\ Refs \subseteq Names
  BY <1>3, OrderOfADrawing
<1>5. Len(nodes) \in Nat /\ DOMAIN nodes = 1..Len(nodes) /\ Len(InAddingOrder) = Len(nodes)
  BY <1>1, <1>3 DEF TypeOK
<1>6. Drawable' /\ InAddingOrder' = InAddingOrder
  BY <1>1, <1>3, SameDocument
<1>7. todo' \in Seq(Names \cup {Root})
  BY <1>1, <1>4
<1>8. TypeOK'
  BY <1>1, <1>7 DEF TypeOK, Phases
<1>9. OwnIds' /\ ParentsComeFirst' /\ Failing'
  BY <1>1 DEF OwnIds, ParentsComeFirst, Failing
<1>10. Placed = 0 /\ Placed' = 0
  BY <1>1, <1>4, <1>6 DEF Placed
<1>11. \A i \in DOMAIN nodes : ~(i <= Placed) /\ nodes[i].parent = NoParent
  BY <1>3, <1>5, <1>10
<1>12. \A i \in DOMAIN todo' : todo'[i] = InAddingOrder'[Placed' + i]
  BY <1>1, <1>4, <1>6, <1>10
<1>13. Listed'
  BY <1>1, <1>3, <1>5, <1>6, <1>10, <1>11, <1>12 DEF Listed
<1> QED BY <1>8, <1>9, <1>13

\* A unit that is placed finds the node of its parent among those before its own.
LEMMA PlacingKeeps == DrawInv /\ PlaceUnit => DrawInv'
<1> SUFFICES ASSUME DrawInv, PlaceUnit PROVE DrawInv'
  OBVIOUS
<1> USE DEF DrawInv
<1> DEFINE n == Len(nodes)
           m == n - Len(todo) + 1
           ref == Head(todo)
<1>1. /\ phase = "placing" /\ todo # <<>>
      /\ nodes' = [i \in DOMAIN nodes |->
                 IF nodes[i].id = NodeOf(ref)
                   THEN [nodes[i] EXCEPT !.parent = NodeOf(ParentOf(ref, Relations)),
                                         !.depth = Depth(ref)]
                   ELSE nodes[i]]
      /\ todo' = Tail(todo)
      /\ UNCHANGED <<turn, phase, given, gradients, lastId>>
  BY DEF PlaceUnit
<1>2. OfTheGiven /\ OfTheGiven' /\ turn > 0
  BY <1>1 DEF OfTheGiven, TypeOK
<1>3. /\ IsGiven(given.document, given.receipt) /\ Drawable
      /\ Len(nodes) = Len(InAddingOrder) /\ Len(todo) <= Len(nodes)
      /\ \A i \in DOMAIN nodes : nodes[i].ref = InAddingOrder[i]
      /\ \A i \in DOMAIN todo : todo[i] = InAddingOrder[Placed + i]
      /\ \A i \in DOMAIN nodes : IF i <= Placed THEN InPlace(i) ELSE nodes[i].parent = NoParent
  BY <1>1, <1>2 DEF Listed, TypeOK
<1>4. /\ InAddingOrder \in Seq(Refs) /\ Refs \subseteq Names /\ Root \notin Refs
      /\ IsFiniteSet(Refs) /\ Readable(Refs, Relations)
      /\ \A k, l \in DOMAIN InAddingOrder :
              k < l => Depth(InAddingOrder[k]) <= Depth(InAddingOrder[l])
  BY <1>3, OrderOfADrawing
<1>5. /\ \A i \in DOMAIN nodes :
              /\ nodes[i] \in NodeType
              /\ i \in DOMAIN InAddingOrder /\ nodes[i].ref \in Refs
              /\ NodeOf(nodes[i].ref) = nodes[i].id
      /\ \A i, j \in DOMAIN nodes : nodes[i].ref = nodes[j].ref => i = j
      /\ \A r \in Refs : \E i \in DOMAIN nodes : nodes[i].ref = r
  BY <1>1, <1>2, NodesOfADrawing
<1>6. /\ n \in Nat /\ DOMAIN nodes = 1..n
      /\ Len(todo) \in Nat \ {0} /\ DOMAIN todo = 1..Len(todo)
      /\ lastId \in Nat
  <2>1. nodes \in Seq(NodeType) /\ todo \in Seq(Names \cup {Root}) /\ lastId \in Nat
    BY DEF TypeOK
  <2>2. Len(todo) \in Nat \ {0} /\ DOMAIN todo = 1..Len(todo)
    BY <1>1, <2>1, FirstTaken
  <2> QED BY <2>1, <2>2
<1>7. /\ Head(todo) = todo[1] /\ Tail(todo) \in Seq(Names \cup {Root}) /\ Len(Tail(todo)) = Len(todo) - 1
      /\ DOMAIN Tail(todo) = 1..(Len(todo) - 1)
      /\ \A i \in 1..(Len(todo) - 1) : Tail(todo)[i] = todo[i + 1]
  BY <1>1, FirstTaken DEF TypeOK
<1>8. Placed = m - 1 /\ m \in 1..n
  <2>1. Placed = Len(InAddingOrder) - Len(todo)
    BY <1>1 DEF Placed
  <2>2. Len(todo) <= n /\ Len(InAddingOrder) = n
    BY <1>3
  <2> HIDE DEF n
  <2> QED BY <1>6, <2>1, <2>2
<1>9. m = n - Len(todo) + 1
  OBVIOUS
<1> HIDE DEF n, m
<1>10. ref = InAddingOrder[m] /\ ref = nodes[m].ref /\ NodeOf(ref) = nodes[m].id /\ ref \in Refs
  <2>1. todo[1] = InAddingOrder[Placed + 1] /\ Placed + 1 = m
    BY <1>3, <1>6, <1>8
  <2> QED BY <1>3, <1>5, <1>6, <1>7, <1>8, <2>1
<1>11. /\ \A i \in 1..n : i # m => nodes'[i] = nodes[i]
       /\ nodes'[m] = [nodes[m] EXCEPT !.parent = NodeOf(ParentOf(ref, Relations)), !.depth = Depth(ref)]
       /\ DOMAIN nodes' = 1..n
  <2>1. \A i \in 1..n : nodes[i].id = NodeOf(ref) <=> i = m
    BY <1>6, <1>8, <1>10 DEF OwnIds
  <2> QED BY <1>1, <1>6, <1>8, <2>1
<1>12. /\ \A r \in Refs : Depth(r) \in Nat
       /\ \A r \in Refs : ParentOf(r, Relations) # Root =>
            ParentOf(r, Relations) \in Refs /\ Depth(r) = Depth(ParentOf(r, Relations)) + 1
  BY <1>3, Containment DEF Drawable
<1>13. ParentOf(ref, Relations) # Root =>
         \E j \in 1..(m - 1) : nodes[j].ref = ParentOf(ref, Relations)
                                /\ NodeOf(ParentOf(ref, Relations)) = nodes[j].id
  <2> SUFFICES ASSUME ParentOf(ref, Relations) # Root
      PROVE  \E j \in 1..(m - 1) : nodes[j].ref = ParentOf(ref, Relations)
                                /\ NodeOf(ParentOf(ref, Relations)) = nodes[j].id
    OBVIOUS
  <2>1. PICK j \in 1..n : nodes[j].ref = ParentOf(ref, Relations)
    BY <1>5, <1>6, <1>10, <1>12
  <2>2. Depth(nodes[j].ref) < Depth(ref) /\ Depth(nodes[j].ref) \in Nat /\ Depth(ref) \in Nat
    BY <1>10, <1>12, <2>1
  <2>3. j < m
    <3>1. nodes[j].ref = InAddingOrder[j] /\ ref = InAddingOrder[m]
          /\ j \in DOMAIN InAddingOrder /\ m \in DOMAIN InAddingOrder
      BY <1>3, <1>5, <1>6, <1>8, <1>10
    <3>2. ~(m < j)
      BY <1>4, <2>2, <3>1
    <3>3. j # m
      BY <1>10, <2>2
    <3> QED BY <1>6, <1>8, <3>2, <3>3
  <2>4. j \in 1..(m - 1) /\ NodeOf(nodes[j].ref) = nodes[j].id
    BY <1>5, <1>6, <1>8, <2>3
  <2> QED BY <2>1, <2>4
<1>14. NodeOf(ParentOf(ref, Relations)) \in Int
  <2>1. CASE ParentOf(ref, Relations) = Root
    BY <2>1 DEF NodeOf, BoundaryNode
  <2>2. CASE ParentOf(ref, Relations) # Root
    <3>1. PICK j \in 1..(m - 1) : NodeOf(ParentOf(ref, Relations)) = nodes[j].id
      BY <1>13, <2>2
    <3>2. j \in DOMAIN nodes
      BY <1>6, <1>8
    <3> QED BY <1>5, <3>1, <3>2 DEF NodeType
  <2> QED BY <2>1, <2>2
<1>15. /\ nodes'[m] \in NodeType /\ nodes'[m].id = nodes[m].id /\ nodes'[m].ref = nodes[m].ref
       /\ nodes'[m].parent = NodeOf(ParentOf(ref, Relations)) /\ nodes'[m].depth = Depth(ref)
  <2>1. nodes[m] \in NodeType /\ Depth(ref) \in Nat
    BY <1>5, <1>6, <1>8, <1>10, <1>12
  <2> QED BY <1>11, <1>14, <2>1 DEF NodeType
<1>16. \A i \in 1..n : nodes'[i] \in NodeType /\ nodes'[i].id = nodes[i].id /\ nodes'[i].ref = nodes[i].ref
  <2> SUFFICES ASSUME NEW i \in 1..n
      PROVE  nodes'[i] \in NodeType /\ nodes'[i].id = nodes[i].id /\ nodes'[i].ref = nodes[i].ref
    OBVIOUS
  <2>1. CASE i = m
    BY <1>15, <2>1
  <2>2. CASE i # m
    BY <1>5, <1>6, <1>11, <2>2
  <2> QED BY <2>1, <2>2
<1>17. nodes' \in Seq(NodeType) /\ Len(nodes') = n
  <2>1. nodes' \in [1..n -> NodeType]
    <3>1. nodes' = [i \in 1..n |-> nodes'[i]]
      BY <1>1, <1>6
    <3> QED BY <1>16, <3>1
  <2> QED BY <1>6, <2>1
<1>18. TypeOK'
  BY <1>1, <1>7, <1>17 DEF TypeOK
<1>19. OwnIds'
  <2>1. \A i \in 1..n : nodes'[i].id = nodes[i].id
    BY <1>16
  <2>2. \A i, j \in 1..n : nodes[i].id = nodes[j].id => i = j
    BY <1>6 DEF OwnIds
  <2>3. \A i \in 1..n : nodes[i].id <= lastId /\ nodes[i].id \in Range(gradients)
    BY <1>6 DEF OwnIds
  <2>4. \A i, j \in DOMAIN nodes' : nodes'[i].id = nodes'[j].id => i = j
    BY <1>11, <2>1, <2>2
  <2>5. \A i \in DOMAIN nodes' : nodes'[i].id <= lastId' /\ nodes'[i].id \in Range(gradients')
    BY <1>1, <1>11, <2>1, <2>3
  <2> QED BY <2>4, <2>5 DEF OwnIds
<1>20. /\ Drawable' /\ InAddingOrder' = InAddingOrder /\ Relations' = Relations
       /\ \A r : Depth(r)' = Depth(r)
  BY <1>1, <1>3, SameDocument
<1>21. Placed' = m
  <2>1. Placed' = Len(InAddingOrder') - Len(todo')
    BY <1>1 DEF Placed
  <2>2. Len(todo') = Len(todo) - 1 /\ Len(InAddingOrder') = n
    BY <1>1, <1>3, <1>7, <1>20 DEF n
  <2> QED BY ONLY <1>6, <1>9, <2>1, <2>2
<1>22. ASSUME NEW i \in 1..n
       PROVE  IF i <= m THEN InPlace(i)' ELSE nodes'[i].parent = NoParent
  <2>1. CASE i > m
    <3>1. ~(i <= Placed) /\ i # m
      BY <1>6, <1>8, <2>1
    <3>2. nodes[i].parent = NoParent
      BY <1>3, <1>6, <3>1
    <3>3. nodes'[i].parent = NoParent /\ ~(i <= m)
      BY <1>6, <1>8, <1>11, <2>1, <3>1, <3>2
    <3> QED BY <3>3
  <2>2. CASE i = m
    <3>1. nodes'[m].depth = Depth(nodes'[m].ref)
      BY <1>10, <1>15
    <3>2. ParentOf(nodes'[m].ref, Relations) = ParentOf(ref, Relations)
      BY <1>10, <1>15
    <3>3. CASE ParentOf(ref, Relations) = Root
      <4>1. nodes'[m].parent = BoundaryNode
        BY <1>15, <3>3 DEF NodeOf
      <4> QED BY <1>8, <1>20, <2>2, <3>1, <3>2, <3>3, <4>1 DEF InPlace
    <3>4. CASE ParentOf(ref, Relations) # Root
      <4>1. PICK j \in 1..(m - 1) : nodes[j].ref = ParentOf(ref, Relations)
                                /\ NodeOf(ParentOf(ref, Relations)) = nodes[j].id
        BY <1>13, <3>4
      <4>2. j \in 1..n
        BY <1>6, <1>8
      <4>3. nodes'[j].ref = ParentOf(ref, Relations) /\ nodes'[m].parent = nodes'[j].id
        BY <1>15, <1>16, <4>1, <4>2
      <4> QED BY <1>8, <1>20, <2>2, <3>1, <3>2, <3>4, <4>3 DEF InPlace
    <3> QED BY <3>3, <3>4
  <2>3. CASE i < m
    <3>1. i <= Placed /\ i # m /\ i <= m
      BY <1>6, <1>8, <2>3
    <3>2. InPlace(i)
      BY <1>3, <1>6, <3>1
    <3>3. nodes'[i] = nodes[i]
      BY <1>11, <3>1
    <3>4. \A j \in 1..(i - 1) : nodes'[j].ref = nodes[j].ref /\ nodes'[j].id = nodes[j].id
      BY <1>6, <1>16
    <3>5. InPlace(i)'
      <4>1. nodes'[i].depth = Depth(nodes'[i].ref)
        BY <3>2, <3>3 DEF InPlace
      <4>2. IF ParentOf(nodes'[i].ref, Relations) = Root THEN nodes'[i].parent = BoundaryNode
            ELSE \E j \in 1..(i - 1) : nodes'[j].ref = ParentOf(nodes'[i].ref, Relations)
                                        /\ nodes'[i].parent = nodes'[j].id
        BY <3>2, <3>3, <3>4 DEF InPlace
      <4> QED BY <1>20, <4>1, <4>2 DEF InPlace
    <3> QED BY <3>1, <3>5
  <2> QED BY <1>6, <1>8, <2>1, <2>2, <2>3
<1>23. Listed'
  <2>1. Len(nodes') = Len(InAddingOrder') /\ Len(todo') <= Len(nodes')
    <3>1. Len(nodes') = n /\ Len(InAddingOrder') = n /\ Len(todo') = Len(todo) - 1 /\ Len(todo) <= n
      BY <1>1, <1>3, <1>7, <1>17, <1>20 DEF n
    <3> QED BY ONLY <1>6, <3>1
  <2>2. \A i \in DOMAIN nodes' : nodes'[i].ref = InAddingOrder'[i]
    BY <1>3, <1>6, <1>11, <1>16, <1>20
  <2>3. ASSUME NEW i \in DOMAIN todo'
        PROVE  todo'[i] = InAddingOrder'[Placed' + i]
    <3>1. i \in 1..(Len(todo) - 1)
      BY <1>1, <1>7, <2>3
    <3>2. todo'[i] = todo[i + 1]
      BY <1>1, <1>7, <3>1
    <3>3. i + 1 \in DOMAIN todo
      BY <1>6, <3>1
    <3>4. todo[i + 1] = InAddingOrder[Placed + (i + 1)]
      BY <1>3, <3>3
    <3>5. Placed + (i + 1) = Placed' + i
      BY <1>8, <1>21, <3>1
    <3> QED BY <1>20, <3>2, <3>4, <3>5
  <2> QED BY <1>1, <1>11, <1>20, <1>21, <1>22, <2>1, <2>2, <2>3 DEF Listed
<1>24. ParentsComeFirst'
  <2>1. TypeOK' /\ OwnIds' /\ Listed' /\ OfTheGiven'
    BY <1>2, <1>18, <1>19, <1>23
  <2> QED BY <2>1, PlacedComeFirst, PTL
<1>25. Failing'
  BY <1>1 DEF Failing
<1> QED BY <1>18, <1>19, <1>23, <1>24, <1>25

\* From the placing of the last unit on the nodes stay as they are.
LEMMA WiringKeeps ==
  DrawInv /\ (AllPlaced \/ ConnectBoundary \/ AllConnected \/ ReadResult \/ ResultThrows) => DrawInv'
<1> SUFFICES ASSUME DrawInv, AllPlaced \/ ConnectBoundary \/ AllConnected \/ ReadResult \/ ResultThrows
             PROVE  DrawInv'
  OBVIOUS
<1> USE DEF DrawInv
<1>1. /\ UNCHANGED <<turn, given, nodes, gradients, lastId>>
      /\ phase \in {"placing", "wiring", "reading"}
      /\ phase = "placing" => todo = <<>>
  BY DEF AllPlaced, ConnectBoundary, AllConnected, ReadResult, ResultThrows
<1>2. OfTheGiven /\ turn > 0 /\ phase # "adding"
  BY <1>1 DEF OfTheGiven, TypeOK
<1>3. /\ IsGiven(given.document, given.receipt) /\ Drawable
      /\ Len(nodes) = Len(InAddingOrder)
      /\ \A i \in DOMAIN nodes : nodes[i].ref = InAddingOrder[i]
      /\ \A i \in DOMAIN nodes : IF i <= Placed THEN InPlace(i) ELSE nodes[i].parent = NoParent
  BY <1>2 DEF Listed, TypeOK
<1>4. InAddingOrder \in Seq(Refs) /\ Refs \subseteq Names /\ IsFiniteSet(Refs) /\ Readable(Refs, Relations)
  BY <1>3, OrderOfADrawing
<1>5. /\ Drawable' /\ InAddingOrder' = InAddingOrder /\ Relations' = Relations /\ Refs' = Refs
      /\ Units' = Units
      /\ \A r : Depth(r)' = Depth(r)
  BY <1>1, <1>3, SameDocument
<1>6. todo' \in Seq(Names \cup {Root}) /\ phase' \in {"wiring", "reading", "idle", "failed"}
  <2>1. CASE AllPlaced
    <3> DEFINE S == {r.from : r \in Containing(Relations)}
    <3>1. S \in SUBSET Refs
      BY <1>4 DEF Readable, Containing
    <3>2. IsFiniteSet(S)
      BY <1>4, <3>1, FS_Subset
    <3>3. todo' = <<Root>> \o SetToSeq(S) /\ phase' = "wiring"
      BY <2>1 DEF AllPlaced
    <3> HIDE DEF S
    <3>4. PICK n \in Nat : SetToSeq(S) \in [1..n -> S]
      BY <3>2, SequenceOfASet
    <3>5. SetToSeq(S) \in Seq(Names \cup {Root})
      BY <1>4, <3>1, <3>4
    <3>6. <<Root>> \in Seq(Names \cup {Root})
      OBVIOUS
    <3> QED BY <3>3, <3>5, <3>6
  <2>2. CASE ConnectBoundary
    <3>1. todo # <<>> /\ todo' = Tail(todo) /\ phase' = "wiring"
      BY <2>2 DEF ConnectBoundary
    <3> QED BY <3>1, FirstTaken DEF TypeOK
  <2>3. CASE AllConnected \/ ReadResult \/ ResultThrows
    BY <2>3 DEF AllConnected, ReadResult, ResultThrows, TypeOK
  <2> QED BY <2>1, <2>2, <2>3
<1>7. TypeOK'
  BY <1>1, <1>2, <1>6 DEF TypeOK, Phases
<1>8. OwnIds' /\ ParentsComeFirst'
  BY <1>1 DEF OwnIds, ParentsComeFirst
<1>9. Failing'
  <2>1. CASE ResultThrows
    BY <1>1, <1>5, <2>1 DEF ResultThrows, Failing
  <2>2. CASE ~ResultThrows
    BY <1>1, <2>2 DEF AllPlaced, ConnectBoundary, AllConnected, ReadResult, Failing
  <2> QED BY <2>1, <2>2
<1>10. Placed = Len(InAddingOrder)
  <2>1. Len(InAddingOrder) \in Nat
    BY <1>4
  <2>2. CASE phase = "placing"
    BY <1>1, <2>1, <2>2 DEF Placed
  <2>3. CASE phase # "placing"
    BY <1>2, <2>3 DEF Placed
  <2> QED BY <2>2, <2>3
<1>11. Placed' = Len(InAddingOrder)
  BY <1>5, <1>6 DEF Placed
<1>12. \A i \in DOMAIN nodes : i <= Placed /\ InPlace(i)
  <2>1. \A i \in DOMAIN nodes : i <= Placed
    BY <1>3, <1>10 DEF TypeOK
  <2> QED BY <1>3, <2>1
<1>13. \A i \in DOMAIN nodes' : i <= Placed' /\ InPlace(i)'
  BY <1>1, <1>5, <1>10, <1>11, <1>12 DEF InPlace
<1>14. Listed'
  BY <1>1, <1>3, <1>5, <1>6, <1>13 DEF Listed
<1> QED BY <1>7, <1>8, <1>9, <1>14

\* A new answer is a document to be drawn; the nodes of the last one are still there.
LEMMA ExecutingKeeps ==
  ASSUME DrawInv, NEW answer \in FirstAnswers \cup LaterAnswers, Execute(answer), turn < 2
  PROVE  DrawInv'
<1> USE DEF DrawInv
<1> DEFINE units == Stamped(answer.document.units)
           document == [answer.document EXCEPT !.units = units]
           receipt == PostValidation(units, answer.document.relations)
<1>1. /\ turn' = turn + 1 /\ phase' = "clearing"
      /\ given'.document = document /\ given'.receipt = receipt
      /\ UNCHANGED <<nodes, gradients, todo, lastId>>
  BY DEF Execute
<1>2. IsGiven(document, receipt)
  BY AnswersAreGiven
<1> HIDE DEF document, receipt, units
<1>3. IsGiven(given.document, given.receipt)'
  <2>1. IsGiven(given'.document, given'.receipt)
    BY <1>1, <1>2
  <2> QED BY <2>1 DEF IsGiven, PostValidation
<1>4. turn \in 0..2 /\ turn' \in 0..2 /\ turn' > 0
  BY <1>1 DEF TypeOK
<1>5. TypeOK'
  BY <1>1, <1>3, <1>4 DEF TypeOK, Phases
<1>6. OwnIds' /\ ParentsComeFirst'
  BY <1>1 DEF OwnIds, ParentsComeFirst
<1>7. Listed' /\ Failing'
  BY <1>1 DEF Listed, Failing, OfTheGiven, Drawn
<1> QED BY <1>5, <1>6, <1>7

\* Every step of a drawing keeps what DrawInv says.
LEMMA DrawInvHolds == Spec => []DrawInv
<1>1. Init => DrawInv
  BY DEF Init, DrawInv, TypeOK, OwnIds, ParentsComeFirst, Listed, Failing, OfTheGiven, Drawn, Phases
<1>2. DrawInv /\ [Next]_vars => DrawInv'
  <2> SUFFICES ASSUME DrawInv, [Next]_vars PROVE DrawInv'
    OBVIOUS
  <2>1. CASE Clear
    BY <2>1, ClearKeeps
  <2>2. CASE ReadDocument \/ DocumentThrows
    BY <2>2, ReadingKeeps
  <2>3. CASE AddUnit
    BY <2>3, AddingKeeps
  <2>4. CASE AllAdded
    BY <2>4, AllAddedKeeps
  <2>5. CASE PlaceUnit
    BY <2>5, PlacingKeeps
  <2>6. CASE AllPlaced \/ ConnectBoundary \/ AllConnected \/ ReadResult \/ ResultThrows
    BY <2>6, WiringKeeps
  <2>7. CASE \E answer \in FirstAnswers \cup LaterAnswers : turn < 2 /\ Execute(answer)
    BY <2>7, ExecutingKeeps
  <2>8. CASE UNCHANGED vars
    <3>1. UNCHANGED <<turn, phase, given, nodes, gradients, todo, lastId>>
      BY <2>8 DEF vars
    <3>2. TypeOK' /\ OwnIds' /\ ParentsComeFirst'
      BY <3>1 DEF DrawInv, TypeOK, OwnIds, ParentsComeFirst, IsGiven, PostValidation
    <3>3. Listed' /\ Failing'
      <4>1. /\ Drawable' = Drawable /\ InAddingOrder' = InAddingOrder /\ Relations' = Relations
            /\ Units' = Units /\ \A r : Depth(r)' = Depth(r)
        BY <3>1, SameDocument
      <4>2. Placed' = Placed
        BY <3>1, <4>1 DEF Placed
      <4>3. \A i : InPlace(i)' = InPlace(i)
        BY <3>1, <4>1 DEF InPlace
      <4>4. Failing'
        BY <3>1, <4>1 DEF DrawInv, Failing
      <4>5. OfTheGiven' = OfTheGiven
        BY <3>1 DEF OfTheGiven, Drawn
      <4>6. Listed'
        BY <3>1, <4>1, <4>2, <4>3, <4>5 DEF DrawInv, Listed
      <4> QED BY <4>4, <4>6
    <3> QED BY <3>2, <3>3 DEF DrawInv
  <2>9. Next => \/ Draw
                \/ \E answer \in FirstAnswers \cup LaterAnswers : turn < 2 /\ Execute(answer)
    BY DEF Next
  <2> QED BY <2>1, <2>2, <2>3, <2>4, <2>5, <2>6, <2>7, <2>8, <2>9 DEF Draw
<1> QED BY <1>1, <1>2, PTL DEF Spec

\* The state of a drawing has its types: nodes with ids from one on, references of the
\* answers only, a count of executions that ends at two.  (projectDecompositionGraph)
THEOREM TypesHold == Spec => []TypeOK
<1>1. DrawInv => TypeOK
  BY DEF DrawInv
<1> QED BY <1>1, DrawInvHolds, PTL

\* At every moment of a drawing - while nodes are removed, added, placed - a node with
\* a place comes after the node it lies in, one less deep.  (projectDecompositionGraph)
THEOREM ParentsAlwaysComeFirst == Spec => []ParentsComeFirst
<1>1. DrawInv => ParentsComeFirst
  BY DEF DrawInv
<1> QED BY <1>1, DrawInvHolds, PTL

\* A document that the gateway's validation accepts is drawn: a drawing that fails all
\* the same has a circle at the root that comes of lifting relations to units that they
\* both enter and leave, or an access map that names too many units.  (boundaryLayout)
THEOREM WhatIsAcceptedIsDrawn == Spec => []AcceptedIsDrawn
<1>1. DrawInv => AcceptedIsDrawn
  <2> SUFFICES ASSUME DrawInv, phase = "failed", given.receipt = "accepted",
                      NamesUnits(Units, given.gates, given.facts)
      PROVE  \E u \in Refs :
         LET within == {x \in Refs : u \in Around(x)} IN
         /\ \E r \in Relations : r.from \notin within /\ r.to \in within \ {u}
         /\ \E r \in Relations : r.from \in within /\ r.to \notin within
    BY DEF AcceptedIsDrawn
  <2>1. IsGiven(given.document, given.receipt) /\ ~Drawable
    BY DEF DrawInv, TypeOK, Failing
  <2>2. DistinctRefs(given.document.units) /\ Readable(Refs, given.document.relations)
    BY <2>1 DEF IsGiven, PostValidation, Refs
  <2>3. CircleAtRoot
    BY <2>1, <2>2, UnitsOfTheGiven DEF Drawable
  <2>4. /\ IsFiniteSet(Refs) /\ Root \notin Refs /\ Readable(Refs, Relations)
        /\ \A r \in Refs : Around(r) = Enclosing(Refs, Relations)[r]
    BY <2>1, <2>2, Containment
  <2>5. \E u \in Refs :
           LET within == {x \in Refs : u \in Enclosing(Refs, Relations)[x]} IN
           /\ \E r \in Relations : r.from \notin within /\ r.to \in within \ {u}
           /\ \E r \in Relations : r.from \in within /\ r.to \notin within
    BY <2>3, <2>4, EnteredAndLeft DEF CircleAtRoot
  <2>6. \A u : {x \in Refs : u \in Enclosing(Refs, Relations)[x]} = {x \in Refs : u \in Around(x)}
    BY <2>4
  <2> QED BY <2>5, <2>6
<1> QED BY <1>1, DrawInvHolds, PTL

----------------------------------------------------------------------------
\* What is connected.

\* The root and the units that contain others.
Boundaries == {Root} \cup {r.from : r \in Containing(Relations)}

\* What connectBoundaryGraph leaves behind.
Connected(b) ==
  /\ \A p \in Lifted(b, Refs, Relations) : <<NodeOf(p[1]), NodeOf(p[2])>> \in wires
  /\ \A c \in Entrance(b) : <<NodeOf(b), NodeOf(c)>> \in wires
  /\ \A c \in Return(b) : <<NodeOf(c), NodeOf(b)>> \in wires

\* Every boundary that is not on the list any more has been connected.
Wired ==
  /\ phase = "wiring" => \A b \in Boundaries \ Range(todo) : Connected(b)
  /\ phase = "reading" \/ Drawn => \A b \in Boundaries : Connected(b)

\* What was connected stays connected while the document and the nodes stay and no wire goes.
LEMMA SameConnections ==
  ASSUME UNCHANGED <<given, nodes, gradients>>
  PROVE  /\ Boundaries' = Boundaries
         /\ \A ref : NodeOf(ref)' = NodeOf(ref)
         /\ \A b : /\ Lifted(b, Refs, Relations)' = Lifted(b, Refs, Relations)
                   /\ Entrance(b)' = Entrance(b) /\ Return(b)' = Return(b)
         /\ wires \subseteq wires' => \A b : Connected(b) => Connected(b)'
<1>1. Refs' = Refs /\ Relations' = Relations
  BY SameDocument
<1>2. Boundaries' = Boundaries
  BY <1>1 DEF Boundaries
<1>3. \A ref : NodeOf(ref)' = NodeOf(ref)
  BY DEF NodeOf
<1>4. \A b : Lifted(b, Refs, Relations)' = Lifted(b, Refs, Relations)
  BY <1>1
<1>5. \A b : Entrance(b)' = Entrance(b) /\ Return(b)' = Return(b)
  BY <1>1 DEF Entrance, Return, Children
<1>6. ASSUME NEW b, Connected(b), wires \subseteq wires'
      PROVE  Connected(b)'
  BY <1>3, <1>4, <1>5, <1>6 DEF Connected
<1> QED BY <1>2, <1>3, <1>4, <1>5, <1>6

\* Boundary after boundary is connected, and none is undone before the next clearing.
LEMMA WiredKept == DrawInv /\ Wired /\ [Next]_vars => Wired'
<1> SUFFICES ASSUME DrawInv, Wired, [Next]_vars PROVE Wired'
  OBVIOUS
<1>1. CASE AllPlaced
  <2>1. OfTheGiven /\ phase' = "wiring"
    BY <1>1 DEF AllPlaced, OfTheGiven
  <2>2. IsGiven(given.document, given.receipt) /\ Drawable
    BY <2>1, NodesOfADrawing DEF DrawInv, Listed
  <2>3. IsFiniteSet(Refs) /\ Readable(Refs, Relations)
    BY <2>2, OrderOfADrawing
  <2> DEFINE S == {r.from : r \in Containing(Relations)}
  <2>4. S \in SUBSET Refs
    BY <2>3 DEF Readable, Containing
  <2>5. IsFiniteSet(S)
    BY <2>3, <2>4, FS_Subset
  <2>6. todo' = <<Root>> \o SetToSeq(S) /\ UNCHANGED <<given, nodes, gradients>>
    BY <1>1 DEF AllPlaced
  <2>7. Boundaries = {Root} \cup S
    BY DEF Boundaries
  <2> HIDE DEF S
  <2>8. PICK n \in Nat : SetToSeq(S) \in [1..n -> S] /\ \A x \in S : \E i \in 1..n : SetToSeq(S)[i] = x
    BY <2>5, SequenceOfASet
  <2> DEFINE s == SetToSeq(S)
  <2>9. s \in Seq(S) /\ Len(s) = n
    BY <2>8
  <2> HIDE DEF s
  <2>10. /\ DOMAIN (<<Root>> \o s) = 1..(n + 1)
         /\ (<<Root>> \o s)[1] = Root
         /\ \A i \in 1..n : (<<Root>> \o s)[i + 1] = s[i]
    BY <2>8, <2>9
  <2>11. \A b \in Boundaries : \E k \in DOMAIN todo' : todo'[k] = b
    <3>1. 1 \in DOMAIN todo' /\ todo'[1] = Root
      BY <2>6, <2>8, <2>10 DEF s
    <3>2. ASSUME NEW b \in S PROVE \E k \in DOMAIN todo' : todo'[k] = b
      <4>1. PICK i \in 1..n : s[i] = b
        BY <2>8 DEF s
      <4>2. i + 1 \in DOMAIN todo' /\ todo'[i + 1] = b
        BY <2>6, <2>8, <2>10, <4>1 DEF s
      <4> QED BY <4>2
    <3> QED BY <2>7, <3>1, <3>2
  <2>12. Boundaries' \ Range(todo') = {}
    BY <2>6, <2>11, SameConnections DEF Range
  <2> QED BY <2>1, <2>12 DEF Wired, Drawn
<1>2. CASE ConnectBoundary
  <2>1. PICK boundary : boundary = Head(todo)
    OBVIOUS
  <2>2. /\ phase = "wiring" /\ phase' = "wiring" /\ todo # <<>> /\ todo' = Tail(todo)
        /\ UNCHANGED <<given, nodes, gradients>>
        /\ wires' = wires
             \cup {<<NodeOf(p[1]), NodeOf(p[2])>> : p \in Lifted(boundary, Refs, Relations)}
             \cup {<<NodeOf(boundary), NodeOf(c)>> : c \in Entrance(boundary)}
             \cup {<<NodeOf(c), NodeOf(boundary)>> : c \in Return(boundary)}
    BY <1>2, <2>1 DEF ConnectBoundary
  <2>3. Connected(boundary)'
    <3>1. /\ \A p \in Lifted(boundary, Refs, Relations) : <<NodeOf(p[1]), NodeOf(p[2])>> \in wires'
          /\ \A c \in Entrance(boundary) : <<NodeOf(boundary), NodeOf(c)>> \in wires'
          /\ \A c \in Return(boundary) : <<NodeOf(c), NodeOf(boundary)>> \in wires'
      BY <2>2
    <3> QED BY <2>2, <3>1, SameConnections DEF Connected
  <2>4. wires \subseteq wires'
    BY <2>2
  <2>5. \A b \in Boundaries \ Range(todo) : Connected(b)
    BY <2>2 DEF Wired
  <2>6. Boundaries \ Range(todo') \subseteq (Boundaries \ Range(todo)) \cup {boundary}
    <3>1. /\ Len(todo) \in Nat \ {0} /\ DOMAIN todo = 1..Len(todo)
          /\ Head(todo) = todo[1] /\ DOMAIN todo' = 1..(Len(todo) - 1)
          /\ \A i \in 1..(Len(todo) - 1) : todo'[i] = todo[i + 1]
      BY <2>2, FirstTaken DEF DrawInv, TypeOK
    <3>2. ASSUME NEW k \in 1..Len(todo), k # 1 PROVE todo[k] \in Range(todo')
      <4>1. k - 1 \in DOMAIN todo' /\ todo'[k - 1] = todo[k]
        BY <3>1, <3>2
      <4> QED BY <4>1 DEF Range
    <3> QED BY <2>1, <3>1, <3>2 DEF Range
  <2>7. \A b \in Boundaries' \ Range(todo') : Connected(b)'
    BY <2>2, <2>3, <2>4, <2>5, <2>6, SameConnections
  <2> QED BY <2>2, <2>7 DEF Wired, Drawn
<1>3. CASE AllConnected \/ ReadResult
  <2>1. /\ UNCHANGED <<given, nodes, gradients, wires>>
        /\ phase' # "wiring"
    BY <1>3 DEF AllConnected, ReadResult
  <2>2. \A b \in Boundaries : Connected(b)
    <3>1. CASE AllConnected
      BY <3>1 DEF AllConnected, Wired, Range
    <3>2. CASE ReadResult
      BY <3>2 DEF ReadResult, Wired
    <3> QED BY <1>3, <3>1, <3>2
  <2>3. \A b \in Boundaries' : Connected(b)'
    BY <2>1, <2>2, SameConnections
  <2> QED BY <2>1, <2>3 DEF Wired
<1>4. CASE UNCHANGED vars
  <2>1. UNCHANGED <<turn, phase, given, nodes, gradients, wires, todo>>
    BY <1>4 DEF vars
  <2>2. Boundaries' = Boundaries /\ \A b : Connected(b) => Connected(b)'
    BY <2>1, SameConnections
  <2>3. Drawn' = Drawn
    BY <2>1 DEF Drawn
  <2> QED BY <2>1, <2>2, <2>3 DEF Wired
<1>5. CASE \/ Clear \/ ReadDocument \/ DocumentThrows \/ AddUnit \/ AllAdded \/ PlaceUnit \/ ResultThrows
           \/ \E answer \in FirstAnswers \cup LaterAnswers : Execute(answer)
  <2>1. phase' \in {"clearing", "adding", "failed", "placing"}
    BY <1>5 DEF Clear, ReadDocument, DocumentThrows, AddUnit, AllAdded, PlaceUnit, ResultThrows, Execute
  <2> QED BY <2>1 DEF Wired, Drawn
<1>6. Next => Draw \/ \E answer \in FirstAnswers \cup LaterAnswers : Execute(answer)
  BY DEF Next
<1> QED BY <1>1, <1>2, <1>3, <1>4, <1>5, <1>6 DEF Draw

\* Both invariants hold at every moment.
LEMMA WiredHolds == Spec => [](DrawInv /\ Wired)
<1>1. Init => Wired
  BY DEF Init, Wired, Drawn
<1> QED BY <1>1, WiredKept, DrawInvHolds, PTL DEF Spec

\* The canvas once it is drawn: each unit has a node, inside the node of its parent.
LEMMA Canvas ==
  ASSUME DrawInv, Wired, Drawn
  PROVE  /\ IsFiniteSet(Refs) /\ Root \notin Refs /\ Readable(Refs, Relations) /\ ~CircleAtRoot
         /\ \A r \in Refs : Around(r) = Enclosing(Refs, Relations)[r]
         /\ \A i \in DOMAIN nodes : \E r \in Refs : nodes[i].id = NodeOf(r)
         /\ \A r \in Refs : \E i \in DOMAIN nodes :
              nodes[i].ref = r /\ nodes[i].id = NodeOf(r)
                /\ nodes[i].parent = NodeOf(ParentOf(r, Relations))
         /\ \A r \in Refs : Node(NodeOf(r)).parent = NodeOf(ParentOf(r, Relations))
         /\ \A q, r \in Refs \cup {Root} : NodeOf(q) = NodeOf(r) => q = r
         /\ \A b \in Boundaries : Connected(b)
<1>1. OfTheGiven /\ phase = "idle"
  BY DEF OfTheGiven, Drawn
<1>2. /\ IsGiven(given.document, given.receipt) /\ Drawable
      /\ \A i \in DOMAIN nodes : IF i <= Placed THEN InPlace(i) ELSE nodes[i].parent = NoParent
      /\ Len(nodes) = Len(InAddingOrder)
  BY <1>1, NodesOfADrawing DEF DrawInv, Listed
<1>3. /\ IsFiniteSet(Refs) /\ Root \notin Refs /\ Readable(Refs, Relations) /\ ~CircleAtRoot
      /\ \A r \in Refs : Around(r) = Enclosing(Refs, Relations)[r]
  BY <1>2, Containment DEF Drawable
<1>4. /\ \A i \in DOMAIN nodes :
              /\ nodes[i] \in NodeType
              /\ nodes[i].ref \in Refs
              /\ NodeOf(nodes[i].ref) = nodes[i].id
      /\ \A i, j \in DOMAIN nodes : nodes[i].ref = nodes[j].ref => i = j
      /\ \A r \in Refs : \E i \in DOMAIN nodes : nodes[i].ref = r
  BY <1>1, NodesOfADrawing DEF DrawInv
<1>5. DOMAIN nodes = 1..Len(nodes) /\ Len(nodes) \in Nat
  BY DEF DrawInv, TypeOK
<1>6. \A i \in DOMAIN nodes : InPlace(i)
  <2>1. Placed = Len(InAddingOrder)
    BY <1>1 DEF Placed
  <2>2. \A i \in DOMAIN nodes : i <= Placed
    BY <1>2, <1>5, <2>1
  <2> QED BY <1>2, <2>2
<1>7. ASSUME NEW i \in DOMAIN nodes
      PROVE  nodes[i].parent = NodeOf(ParentOf(nodes[i].ref, Relations))
  <2>1. CASE ParentOf(nodes[i].ref, Relations) = Root
    BY <1>6, <2>1 DEF InPlace, NodeOf
  <2>2. CASE ParentOf(nodes[i].ref, Relations) # Root
    <3>1. PICK j \in 1..(i - 1) : nodes[j].ref = ParentOf(nodes[i].ref, Relations)
                                    /\ nodes[i].parent = nodes[j].id
      BY <1>6, <2>2 DEF InPlace
    <3>2. j \in DOMAIN nodes
      BY <1>5
    <3> QED BY <1>4, <3>1, <3>2
  <2> QED BY <2>1, <2>2
<1>8. \A r \in Refs : \E i \in DOMAIN nodes :
              nodes[i].ref = r /\ nodes[i].id = NodeOf(r)
                /\ nodes[i].parent = NodeOf(ParentOf(r, Relations))
  BY <1>4, <1>7
<1>9. ASSUME NEW r \in Refs
      PROVE  Node(NodeOf(r)).parent = NodeOf(ParentOf(r, Relations))
  <2>1. PICK i \in DOMAIN nodes : nodes[i].id = NodeOf(r) /\ nodes[i].parent = NodeOf(ParentOf(r, Relations))
    BY <1>8
  <2> DEFINE k == CHOOSE j \in DOMAIN nodes : nodes[j].id = NodeOf(r)
  <2>2. k \in DOMAIN nodes /\ nodes[k].id = NodeOf(r)
    BY <2>1
  <2>3. k = i
    BY <2>1, <2>2 DEF DrawInv, OwnIds
  <2> QED BY <2>1, <2>3 DEF Node
<1>10. ASSUME NEW q \in Refs \cup {Root}, NEW r \in Refs \cup {Root}, NodeOf(q) = NodeOf(r)
       PROVE  q = r
  <2>1. \A x \in Refs : \E i \in DOMAIN nodes : nodes[i].ref = x /\ nodes[i].id = NodeOf(x)
    BY <1>8
  <2>2. \A x \in Refs : NodeOf(x) # NodeOf(Root)
    <3>1. NodeOf(Root) = 0
      BY DEF NodeOf, BoundaryNode
    <3>2. \A i \in DOMAIN nodes : nodes[i].id # 0
      BY <1>4 DEF NodeType
    <3> QED BY <2>1, <3>1, <3>2
  <2>3. \A x, y \in Refs : NodeOf(x) = NodeOf(y) => x = y
    BY <2>1 DEF DrawInv, OwnIds
  <2> QED BY <1>10, <2>2, <2>3
<1>11. \A i \in DOMAIN nodes : \E r \in Refs : nodes[i].id = NodeOf(r)
  BY <1>4
<1>12. \A b \in Boundaries : Connected(b)
  BY DEF Wired
<1> QED BY <1>3, <1>8, <1>9, <1>10, <1>11, <1>12

\* Every relation of the selected branch is seen on the canvas once it is drawn.
\* (boundaryRelations, connectBoundaryGraph)
THEOREM RelationsAreDrawn == Spec => []EveryRelationIsDrawn
<1>1. DrawInv /\ Wired => EveryRelationIsDrawn
  <2> SUFFICES ASSUME DrawInv, Wired, Drawn, NEW r \in Relations
      PROVE  IF r.kind = "parent-child" THEN Node(NodeOf(r.to)).parent = NodeOf(r.from)
             ELSE \/ r.from \in Around(r.to) \/ r.to \in Around(r.from)
                  \/ \E w \in wires :
                       /\ w[1] \in {NodeOf(a) : a \in Around(r.from) \ Around(r.to)}
                       /\ w[2] \in {NodeOf(a) : a \in Around(r.to) \ Around(r.from)}
                       /\ Node(w[1]).parent = Node(w[2]).parent
    BY DEF EveryRelationIsDrawn
  <2> DEFINE E == Enclosing(Refs, Relations)
  <2>1. /\ IsFiniteSet(Refs) /\ Root \notin Refs /\ Readable(Refs, Relations)
        /\ \A x \in Refs : Around(x) = E[x]
        /\ \A x \in Refs : Node(NodeOf(x)).parent = NodeOf(ParentOf(x, Relations))
        /\ \A b \in Boundaries : Connected(b)
    BY Canvas
  <2>2. r.from \in Refs /\ r.to \in Refs
    BY <2>1 DEF Readable
  <2>3. CASE r.kind = "parent-child"
    <3>1. r \in Containing(Relations)
      BY <2>3 DEF Containing
    <3>2. ParentOf(r.to, Relations) = r.from
      BY <2>1, <3>1, Parents
    <3> QED BY <2>1, <2>2, <2>3, <3>2
  <2>4. CASE r.kind # "parent-child" /\ r.from \notin Around(r.to) /\ r.to \notin Around(r.from)
    <3>1. PICK a \in E[r.from] \ E[r.to] : \E b \in E[r.to] \ E[r.from] :
            ParentOf(a, Relations) = ParentOf(b, Relations)
      BY <2>1, <2>2, <2>4, CommonBoundary
    <3>2. PICK b \in E[r.to] \ E[r.from] : ParentOf(a, Relations) = ParentOf(b, Relations)
      BY <3>1
    <3> DEFINE p == ParentOf(a, Relations)
    <3>3. a \in Refs /\ b \in Refs
      BY <2>1, <2>2, Climbing
    <3>4. p \in Boundaries
      <4>1. p # Root => \E c \in Containing(Relations) : c.from = p
        BY <2>1, Parents
      <4> QED BY <4>1 DEF Boundaries
    <3>5. <<a, b>> \in Lifted(p, Refs, Relations)
      <4>1. a # b /\ r \in Relations \ Containing(Relations)
        BY <2>4 DEF Containing
      <4> QED BY <2>1, <3>2, <4>1, LiftedPairs
    <3> HIDE DEF p
    <3> DEFINE w == <<NodeOf(a), NodeOf(b)>>
    <3>6. w \in wires
      <4>1. Connected(p)
        BY <2>1, <3>4
      <4>2. <<NodeOf(<<a, b>>[1]), NodeOf(<<a, b>>[2])>> \in wires
        BY <3>5, <4>1 DEF Connected
      <4> QED BY <4>2
    <3>7. Node(NodeOf(a)).parent = Node(NodeOf(b)).parent
      BY <2>1, <3>2, <3>3
    <3>8. /\ w[1] = NodeOf(a) /\ w[2] = NodeOf(b)
          /\ a \in Around(r.from) \ Around(r.to) /\ b \in Around(r.to) \ Around(r.from)
      BY <2>1, <2>2
    <3> HIDE DEF w
    <3>9. \E v \in wires :
            /\ v[1] \in {NodeOf(x) : x \in Around(r.from) \ Around(r.to)}
            /\ v[2] \in {NodeOf(x) : x \in Around(r.to) \ Around(r.from)}
            /\ Node(v[1]).parent = Node(v[2]).parent
      BY <3>6, <3>7, <3>8
    <3> QED BY <2>4, <3>9
  <2> QED BY <2>3, <2>4
<1> QED BY <1>1, WiredHolds, PTL

\* Once a document is drawn every child of a boundary lies on a way from its entrance to
\* its return, save where the lifted relations go round inside a unit.
\* (connectBoundaryGraph)
THEOREM ChildrenAreOnAWay == Spec => []EveryChildIsOnAWay
<1>1. DrawInv /\ Wired => EveryChildIsOnAWay
  <2> SUFFICES ASSUME DrawInv, Wired, Drawn, NEW boundary \in Boundaries
      PROVE
        LET around == NodeOf(boundary)
            inside == {nodes[i].id : i \in {j \in DOMAIN nodes : nodes[j].parent = around}}
            within == {w \in wires : w[1] \in inside /\ w[2] \in inside}
            Onward(S) == {w[2] : w \in {v \in wires : v[1] \in S \cup {around}}} \cap inside
            Back(S) == {w[1] : w \in {v \in wires : v[2] \in S \cup {around}}} \cap inside
        IN  \/ \A met \in SUBSET inside :
                 Onward(met) \subseteq met \/ Back(met) \subseteq met => met = inside
            \/ boundary # Root /\ ~Acyclic(within)
    BY DEF EveryChildIsOnAWay, Boundaries
  <2> DEFINE around == NodeOf(boundary)
             inside == {nodes[i].id : i \in {j \in DOMAIN nodes : nodes[j].parent = around}}
             within == {w \in wires : w[1] \in inside /\ w[2] \in inside}
             Onward(S) == {w[2] : w \in {v \in wires : v[1] \in S \cup {around}}} \cap inside
             Back(S) == {w[1] : w \in {v \in wires : v[2] \in S \cup {around}}} \cap inside
             T == Children(boundary)
             pairs == Lifted(boundary, Refs, Relations)
  <2>1. /\ IsFiniteSet(Refs) /\ Root \notin Refs /\ Readable(Refs, Relations) /\ ~CircleAtRoot
        /\ \A i \in DOMAIN nodes : \E r \in Refs : nodes[i].id = NodeOf(r)
        /\ \A r \in Refs : \E i \in DOMAIN nodes :
             nodes[i].ref = r /\ nodes[i].id = NodeOf(r)
               /\ nodes[i].parent = NodeOf(ParentOf(r, Relations))
        /\ \A q, r \in Refs \cup {Root} : NodeOf(q) = NodeOf(r) => q = r
        /\ \A b \in Boundaries : Connected(b)
    BY Canvas
  <2>2. \A c \in T : c \in Refs /\ ParentOf(c, Relations) = boundary
    BY DEF Children, ChildrenOf
  <2>3. \A c \in Refs : ParentOf(c, Relations) = boundary => c \in T
    BY DEF Children, ChildrenOf
  <2>4. T \in SUBSET Refs /\ IsFiniteSet(T)
    BY <2>1, <2>2, FS_Subset
  <2>5. \A p \in pairs : p = <<p[1], p[2]>> /\ p[1] \in T /\ p[2] \in T
    BY <2>1, <2>3, LiftedPairs
  <2>6. /\ \A p \in pairs : <<NodeOf(p[1]), NodeOf(p[2])>> \in wires
        /\ \A c \in T : (\A p \in pairs : p[2] # c) => <<around, NodeOf(c)>> \in wires
        /\ \A c \in T : (\A p \in pairs : p[1] # c) => <<NodeOf(c), around>> \in wires
    BY <2>1 DEF Connected, Entrance, Return
  <2>7. \A c \in T : NodeOf(c) \in inside
    <3> SUFFICES ASSUME NEW c \in T PROVE NodeOf(c) \in inside
      OBVIOUS
    <3>1. PICK i \in DOMAIN nodes : nodes[i].id = NodeOf(c) /\ nodes[i].parent = NodeOf(ParentOf(c, Relations))
      BY <2>1, <2>2
    <3>2. nodes[i].parent = around
      BY <2>2, <3>1
    <3> QED BY <3>1, <3>2
  <2>8. \A id \in inside : \E c \in T : id = NodeOf(c)
    <3> SUFFICES ASSUME NEW id \in inside PROVE \E c \in T : id = NodeOf(c)
      OBVIOUS
    <3>1. PICK i \in DOMAIN nodes : nodes[i].id = id /\ nodes[i].parent = around
      OBVIOUS
    <3>2. PICK c \in Refs : nodes[i].id = NodeOf(c)
      BY <2>1
    <3>3. PICK j \in DOMAIN nodes : nodes[j].id = NodeOf(c) /\ nodes[j].parent = NodeOf(ParentOf(c, Relations))
      BY <2>1
    <3>4. i = j
      BY <3>2, <3>3 DEF DrawInv, OwnIds
    <3>5. NodeOf(ParentOf(c, Relations)) = NodeOf(boundary)
      BY <3>1, <3>3, <3>4
    <3>6. boundary \in Refs \cup {Root} /\ ParentOf(c, Relations) \in Refs \cup {Root}
      <4>1. \A r \in Containing(Relations) : r.from \in Refs
        BY <2>1, Parents
      <4> QED BY <2>1, <4>1, Parents DEF Boundaries
    <3>7. ParentOf(c, Relations) = boundary
      BY <2>1, <3>5, <3>6
    <3> QED BY <2>3, <3>1, <3>2, <3>7
  <2> HIDE DEF T, pairs, inside, around
  <2>9. CASE Acyclic(pairs)
    <3>1. ASSUME NEW met \in SUBSET inside, Onward(met) \subseteq met \/ Back(met) \subseteq met
          PROVE  met = inside
      <4> DEFINE M == {c \in T : NodeOf(c) \in met}
      <4>1. CASE Onward(met) \subseteq met
        <5>1. ASSUME NEW y \in T \ M
              PROVE  \E x \in T \ M : <<x, y>> \in pairs
          <6>1. \A v \in met \cup {around} : <<v, NodeOf(y)>> \notin wires
            <7> SUFFICES ASSUME NEW v \in met \cup {around}, <<v, NodeOf(y)>> \in wires PROVE FALSE
              OBVIOUS
            <7>1. NodeOf(y) \in Onward(met)
              <8>1. \E w \in wires : w[1] \in met \cup {around} /\ w[2] = NodeOf(y)
                OBVIOUS
              <8>2. NodeOf(y) \in inside
                BY <2>7
              <8> QED BY <8>1, <8>2
            <7> QED BY <4>1, <7>1
          <6>2. PICK p \in pairs : p[2] = y
            BY <2>6, <6>1
          <6>3. p = <<p[1], y>> /\ p[1] \in T
            BY <2>5, <6>2
          <6>4. NodeOf(p[1]) \notin met
            BY <2>6, <6>1, <6>2
          <6> QED BY <6>2, <6>3, <6>4
        <5> HIDE DEF M
        <5>2. M = T
          <6>1. M \in SUBSET T
            BY DEF M
          <6> QED BY <2>4, <2>9, <5>1, <6>1, AllAreMet
        <5> QED BY <2>8, <5>2 DEF M
      <4>2. CASE Back(met) \subseteq met
        <5>1. ASSUME NEW x \in T \ M
              PROVE  \E y \in T \ M : <<x, y>> \in pairs
          <6>1. \A v \in met \cup {around} : <<NodeOf(x), v>> \notin wires
            <7> SUFFICES ASSUME NEW v \in met \cup {around}, <<NodeOf(x), v>> \in wires PROVE FALSE
              OBVIOUS
            <7>1. NodeOf(x) \in Back(met)
              <8>1. \E w \in wires : w[2] \in met \cup {around} /\ w[1] = NodeOf(x)
                OBVIOUS
              <8>2. NodeOf(x) \in inside
                BY <2>7
              <8> QED BY <8>1, <8>2
            <7> QED BY <4>2, <7>1
          <6>2. PICK p \in pairs : p[1] = x
            BY <2>6, <6>1
          <6>3. p = <<x, p[2]>> /\ p[2] \in T
            BY <2>5, <6>2
          <6>4. NodeOf(p[2]) \notin met
            BY <2>6, <6>1, <6>2
          <6> QED BY <6>2, <6>3, <6>4
        <5> HIDE DEF M
        <5>2. M = T
          <6>1. M \in SUBSET T
            BY DEF M
          <6> QED BY <2>4, <2>9, <5>1, <6>1, AllAreMet
        <5> QED BY <2>8, <5>2 DEF M
      <4> QED BY <3>1, <4>1, <4>2
    <3> QED BY <3>1 DEF inside, around
  <2>10. CASE ~Acyclic(pairs)
    <3>1. boundary # Root
      BY <2>1, <2>10 DEF CircleAtRoot, pairs
    <3>2. PICK S \in SUBSET {p[1] : p \in pairs} :
            S # {} /\ \A x \in S : \E p \in pairs : p[1] = x /\ p[2] \in S
      BY <2>10 DEF Acyclic
    <3> DEFINE V == {NodeOf(x) : x \in S}
    <3>3. ASSUME NEW x \in S
          PROVE  \E w \in within : w[1] = NodeOf(x) /\ w[2] \in V
      <4>1. PICK p \in pairs : p[1] = x /\ p[2] \in S
        BY <3>2
      <4> DEFINE w == <<NodeOf(p[1]), NodeOf(p[2])>>
      <4>2. w \in wires /\ w[1] = NodeOf(x) /\ w[2] \in V
        BY <2>6, <4>1
      <4>3. w[1] \in inside /\ w[2] \in inside
        BY <2>5, <2>7, <4>1
      <4> HIDE DEF w, V
      <4> QED BY <4>2, <4>3
    <3>4. V # {} /\ \A v \in V : \E w \in within : w[1] = v /\ w[2] \in V
      BY <3>2, <3>3
    <3> HIDE DEF V, within
    <3>5. V \in SUBSET {w[1] : w \in within}
      BY <3>4
    <3>6. ~Acyclic(within)
      BY <3>4, <3>5 DEF Acyclic
    <3> QED BY <3>1, <3>6 DEF within, inside, around
  <2> QED BY <2>9, <2>10
<1> QED BY <1>1, WiredHolds, PTL

----------------------------------------------------------------------------
\* The result.

\* The numbers a gate puts under its condition, and those its fact takes of them.
Named(gate) == gate.active \cup gate.fallback
Met(gate, facts) == facts[gate.source] = "met"
Taken(gate, facts) ==
  IF Met(gate, facts) THEN gate.active
  ELSE IF facts[gate.source] = "unmet" THEN gate.fallback ELSE {}

\* The answers of the gateway that can be put to the units.
AreGates(gates, facts) ==
  /\ gates \in Seq(Range(gates)) /\ DOMAIN facts \subseteq Int
  /\ \A k \in DOMAIN gates : Named(gates[k]) \subseteq Int

\* What the gates are that apply, and that they name places of the list.
LEMMA GatesThatApply ==
  ASSUME NEW gates, NEW facts, AreGates(gates, facts),
         NEW n \in Nat, NEW units, DOMAIN units = 1..n, NamesUnits(units, gates, facts)
  PROVE  /\ DOMAIN Applicable(gates, facts) \subseteq Nat
         /\ \A k \in DOMAIN Applicable(gates, facts) :
              LET g == Applicable(gates, facts)[k] IN
              /\ g.source \in DOMAIN facts /\ g.source \in Int /\ g.source + 1 \in 1..n
              /\ \A m \in Named(g) : m \in Int /\ m + 1 \in 1..n
<1> DEFINE asked == Applicable(gates, facts)
<1>1. DOMAIN asked = {k \in DOMAIN gates : gates[k].source \in DOMAIN facts}
      /\ \A k \in DOMAIN asked : asked[k] = gates[k]
  BY DEF Applicable, RestrictValues, Restrict
<1>2. DOMAIN gates \subseteq Nat
  BY DEF AreGates
<1>3. \A k \in DOMAIN asked : \A m \in {asked[k].source} \cup asked[k].active \cup asked[k].fallback :
        Numbered(units, m)
  BY DEF NamesUnits
<1> HIDE DEF asked
<1>4. ASSUME NEW k \in DOMAIN asked
      PROVE  /\ asked[k].source \in DOMAIN facts /\ asked[k].source \in Int /\ asked[k].source + 1 \in 1..n
             /\ \A m \in Named(asked[k]) : m \in Int /\ m + 1 \in 1..n
  <2>1. asked[k].source \in DOMAIN facts /\ Named(asked[k]) \subseteq Int /\ DOMAIN facts \subseteq Int
    BY <1>1, <1>4 DEF AreGates
  <2>2. asked[k].source + 1 \in 1..n /\ \A m \in Named(asked[k]) : m + 1 \in 1..n
    BY <1>3, <1>4 DEF Numbered, Named
  <2> QED BY <2>1, <2>2
<1> QED BY <1>1, <1>2, <1>4 DEF asked

\* A gate is decided if its condition is met, or is not and there is another side.
LEMMA Verdicts ==
  ASSUME NEW n \in Nat, NEW units, DOMAIN units = 1..n,
         \A i \in 1..n : units[i].order[1] = i - 1,
         NEW facts, NEW gate, gate.source \in DOMAIN facts, gate.source \in Int, gate.source + 1 \in 1..n
  PROVE  /\ Verdict(units, gate, facts).recompose = ~(Met(gate, facts) \/ Taken(gate, facts) # {})
         /\ Verdict(units, gate, facts).chosen = RefsAt(units, Taken(gate, facts))
<1>1. units[gate.source + 1].order[1] = gate.source
  BY ONLY gate.source \in Int, gate.source + 1 \in 1..n, n \in Nat, \A i \in 1..n : units[i].order[1] = i - 1
<1>2. FactOf(units[gate.source + 1], facts) = facts[gate.source]
  BY <1>1 DEF FactOf
<1>3. RefsAt(units, {}) = {}
  BY DEF RefsAt
<1>4. CASE facts[gate.source] = "met"
  BY <1>2, <1>4 DEF Verdict, Met, Taken
<1>5. CASE facts[gate.source] = "unmet"
  <2>1. CASE gate.fallback # {}
    BY <1>2, <1>5, <2>1 DEF Verdict, Met, Taken
  <2>2. CASE gate.fallback = {}
    BY <1>2, <1>3, <1>5, <2>2 DEF Verdict, Met, Taken
  <2> QED BY <2>1, <2>2
<1>6. CASE facts[gate.source] \notin {"met", "unmet"}
  BY <1>2, <1>3, <1>6 DEF Verdict, Met, Taken
<1> QED BY <1>4, <1>5, <1>6

\* Where units carry the numbers of their places and no two gates name the same, a
\* unit is left out exactly if a gate names it and takes the other side.
LEMMA ShownUnits ==
  ASSUME NEW n \in Nat, NEW units, DOMAIN units = 1..n, DistinctRefs(units),
         \A i \in 1..n : units[i].order[1] = i - 1,
         NEW facts, NEW asked, DOMAIN asked \subseteq Nat,
         \A k \in DOMAIN asked :
           /\ asked[k].source \in DOMAIN facts /\ asked[k].source \in Int /\ asked[k].source + 1 \in 1..n
           /\ \A m \in Named(asked[k]) : m \in Int /\ m + 1 \in 1..n,
         \A k, l \in DOMAIN asked : k # l => Named(asked[k]) \cap Named(asked[l]) = {},
         NEW i \in 1..n
  PROVE  Shows(units[i], units, asked, facts) <=>
           ~\E k \in DOMAIN asked : i - 1 \in Named(asked[k]) \ Taken(asked[k], facts)
<1> DEFINE named == GatesOf(units[i], asked)
<1>1. named = {k \in DOMAIN asked : i - 1 \in Named(asked[k])}
  BY DEF GatesOf, Named
<1>2. CASE named = {}
  BY <1>1, <1>2 DEF Shows
<1>3. CASE named # {}
  <2>1. PICK k \in DOMAIN asked : i - 1 \in Named(asked[k])
    BY <1>1, <1>3
  <2>2. \A l \in DOMAIN asked : i - 1 \in Named(asked[l]) => l = k
    BY <2>1
  <2>3. named = {k}
    BY <1>1, <2>1, <2>2
  <2>4. (CHOOSE j \in named : \A l \in named : l <= j) = k
    <3>1. k \in Nat
      OBVIOUS
    <3> HIDE DEF named
    <3> QED BY <2>3, <3>1
  <2>5. Shows(units[i], units, asked, facts) <=>
          units[i].ref \in Verdict(units, asked[k], facts).chosen
    <3> DEFINE last == CHOOSE j \in named : \A l \in named : l <= j
    <3>1. Shows(units[i], units, asked, facts) <=>
            (named # {} => units[i].ref \in Verdict(units, asked[last], facts).chosen)
      BY Zenon DEF Shows
    <3>2. last = k
      BY <2>4
    <3> HIDE DEF last, named
    <3> QED BY <1>3, <3>1, <3>2
  <2>6. Verdict(units, asked[k], facts).chosen = RefsAt(units, Taken(asked[k], facts))
    <3>1. PICK gate : gate = asked[k]
      OBVIOUS
    <3>2. gate.source \in DOMAIN facts /\ gate.source \in Int /\ gate.source + 1 \in 1..n
      BY <3>1
    <3>3. Verdict(units, gate, facts).chosen = RefsAt(units, Taken(gate, facts))
      BY <3>2, Verdicts
    <3> QED BY <3>1, <3>3
  <2>7. Taken(asked[k], facts) \subseteq Named(asked[k])
    BY DEF Taken, Named
  <2>8. \A m \in Named(asked[k]) : units[m + 1].ref = units[i].ref => m = i - 1
    <3> SUFFICES ASSUME NEW m \in Named(asked[k]), units[m + 1].ref = units[i].ref PROVE m = i - 1
      OBVIOUS
    <3>1. m \in Int /\ m + 1 \in 1..n
      OBVIOUS
    <3>2. m + 1 = i
      BY <3>1 DEF DistinctRefs
    <3> QED BY <3>1, <3>2
  <2>9. units[(i - 1) + 1].ref = units[i].ref
    OBVIOUS
  <2>10. units[i].ref \in RefsAt(units, Taken(asked[k], facts)) <=> i - 1 \in Taken(asked[k], facts)
    BY <2>7, <2>8, <2>9 DEF RefsAt, RefAt
  <2> QED BY <2>1, <2>2, <2>5, <2>6, <2>10
<1> QED BY <1>2, <1>3

\* What an answer says of its gates stays as it is given.
Asked == turn > 0 => AreGates(given.gates, given.facts)

\* The result that is shown is read off the document with its gates.
Read ==
  Drawn => /\ NamesUnits(Units, given.gates, given.facts)
           /\ result = Reprojection(Units, given.document.units, given.gates, given.facts)

\* A drawing changes no answer, and only its last step the result.
LEMMA ReadHolds == Spec => [](DrawInv /\ Asked /\ Read)
<1>1. Init => Asked /\ Read
  BY DEF Init, Asked, Read, Drawn
<1>2. Asked /\ Read /\ [Next]_vars => Asked' /\ Read'
  <2> SUFFICES ASSUME Asked, Read, [Next]_vars PROVE Asked' /\ Read'
    OBVIOUS
  <2>1. CASE Draw
    <3>1. UNCHANGED <<turn, given>>
      BY <2>1 DEF Draw, Clear, ReadDocument, DocumentThrows, AddUnit, AllAdded, PlaceUnit, AllPlaced,
                  ConnectBoundary, AllConnected, ReadResult, ResultThrows
    <3>2. phase' # "idle" \/ ReadResult
      BY <2>1 DEF Draw, Clear, ReadDocument, DocumentThrows, AddUnit, AllAdded, PlaceUnit, AllPlaced,
                  ConnectBoundary, AllConnected, ResultThrows
    <3>3. Units' = Units /\ given'.document.units = given.document.units
      BY <3>1, SameDocument
    <3>4. ReadResult => Read'
      BY <3>1, <3>3 DEF ReadResult, Read
    <3>5. phase' # "idle" => Read'
      BY DEF Read, Drawn
    <3> QED BY <3>1, <3>2, <3>4, <3>5 DEF Asked
  <2>2. CASE \E answer \in FirstAnswers \cup LaterAnswers : Execute(answer)
    <3>1. PICK answer \in FirstAnswers \cup LaterAnswers : Execute(answer)
      BY <2>2
    <3>2. given'.gates = answer.gates /\ given'.facts = answer.facts /\ phase' = "clearing"
      BY <3>1 DEF Execute
    <3>3. AreGates(answer.gates, answer.facts)
      BY AnswersAssumption DEF AreGates, Named
    <3>4. AreGates(given'.gates, given'.facts)
      BY <3>2, <3>3
    <3> QED BY <3>2, <3>4 DEF Asked, Read, Drawn, AreGates
  <2>3. CASE UNCHANGED vars
    <3>1. UNCHANGED <<turn, phase, given, result>>
      BY <2>3 DEF vars
    <3>2. Units' = Units
      BY <3>1, SameDocument
    <3> QED BY <3>1, <3>2 DEF Asked, Read, Drawn
  <2>4. Next => Draw \/ \E answer \in FirstAnswers \cup LaterAnswers : Execute(answer)
    BY DEF Next
  <2> QED BY <2>1, <2>2, <2>3, <2>4
<1> QED BY <1>1, <1>2, DrawInvHolds, PTL DEF Spec

\* The result shows exactly the units that no gate leaves out, and none while a gate
\* cannot decide.  (reprojectWithAccessMap, reprojectFoldGraph)
THEOREM ResultsFollowTheGates == Spec => []TheResultFollowsTheGates
<1>1. DrawInv /\ Asked /\ Read => TheResultFollowsTheGates
  <2> SUFFICES ASSUME DrawInv, Asked, Read PROVE TheResultFollowsTheGates
    OBVIOUS
  <2> DEFINE asked == Applicable(given.gates, given.facts)
             facts == given.facts
             taken == [k \in DOMAIN asked |->
                  IF given.facts[asked[k].source] = "met" THEN asked[k].active
                  ELSE IF given.facts[asked[k].source] = "unmet" THEN asked[k].fallback ELSE {}]
             left == {i \in DOMAIN Units : \E k \in DOMAIN asked :
                 Units[i].order[1] \in (asked[k].active \cup asked[k].fallback) \ taken[k]}
             plain == /\ \A i \in DOMAIN Units : Units[i].order[1] = i - 1
                      /\ \A k, l \in DOMAIN asked : k # l =>
                           (asked[k].active \cup asked[k].fallback)
                             \cap (asked[l].active \cup asked[l].fallback) = {}
             decided == \A k \in DOMAIN asked : given.facts[asked[k].source] = "met" \/ taken[k] # {}
  <2> SUFFICES ASSUME Drawn, asked # <<>>, plain
      PROVE  /\ result.stale = ~decided
             /\ DOMAIN result.text = IF decided THEN DOMAIN Units \ left ELSE {}
             /\ \A i \in DOMAIN result.text : result.text[i] = Units[i].ref
    BY DEF TheResultFollowsTheGates
  <2>1. /\ IsGiven(given.document, given.receipt) /\ DistinctRefs(Units)
        /\ AreGates(given.gates, facts) /\ NamesUnits(Units, given.gates, facts)
        /\ result = Reprojection(Units, given.document.units, given.gates, facts)
    BY DEF DrawInv, TypeOK, Listed, OfTheGiven, Drawable, Drawn, Asked, Read
  <2>2. PICK n \in Nat : DOMAIN Units = 1..n
    BY <2>1, UnitsOfTheGiven
  <2>3. /\ DOMAIN asked \subseteq Nat
        /\ \A k \in DOMAIN asked :
             /\ asked[k].source \in DOMAIN facts /\ asked[k].source \in Int /\ asked[k].source + 1 \in 1..n
             /\ \A m \in Named(asked[k]) : m \in Int /\ m + 1 \in 1..n
    BY <2>1, <2>2, GatesThatApply
  <2>4. \A k \in DOMAIN asked : taken[k] = Taken(asked[k], facts)
    BY DEF Taken, Met
  <2>5. /\ \A i \in 1..n : Units[i].order[1] = i - 1
        /\ \A k, l \in DOMAIN asked : k # l => Named(asked[k]) \cap Named(asked[l]) = {}
    BY <2>2 DEF Named
  <2>6. /\ result.stale = \E k \in DOMAIN asked : Verdict(Units, asked[k], facts).recompose
        /\ result.text =
             LET shown == RestrictValues(Units, LAMBDA u : Shows(u, Units, asked, facts))
                 read == IF result.stale THEN <<>> ELSE shown
             IN  [k \in DOMAIN read |-> read[k].ref]
    BY <2>1 DEF Reprojection
  <2> HIDE DEF asked, facts
  <2>7. ASSUME NEW k \in DOMAIN asked
        PROVE  Verdict(Units, asked[k], facts).recompose = ~(Met(asked[k], facts) \/ Taken(asked[k], facts) # {})
    <3>1. PICK gate : gate = asked[k]
      OBVIOUS
    <3>2. gate.source \in DOMAIN facts /\ gate.source \in Int /\ gate.source + 1 \in 1..n
      BY <2>3, <3>1
    <3>3. Verdict(Units, gate, facts).recompose = ~(Met(gate, facts) \/ Taken(gate, facts) # {})
      BY <2>2, <2>5, <3>2, Verdicts
    <3> QED BY <3>1, <3>3
  <2>8. result.stale = ~decided
    <3>1. decided <=> \A k \in DOMAIN asked : Met(asked[k], facts) \/ Taken(asked[k], facts) # {}
      BY <2>4 DEF Met, facts
    <3>2. (\E k \in DOMAIN asked : Verdict(Units, asked[k], facts).recompose) <=> ~decided
      BY <2>7, <3>1
    <3> HIDE DEF decided
    <3> QED BY <2>6, <3>2
  <2>9. \A i \in 1..n : Shows(Units[i], Units, asked, facts) <=> i \notin left
    <3>1. ASSUME NEW i \in 1..n
          PROVE  Shows(Units[i], Units, asked, facts) <=>
                   ~\E k \in DOMAIN asked : i - 1 \in Named(asked[k]) \ Taken(asked[k], facts)
      BY <2>1, <2>2, <2>3, <2>5, ShownUnits
    <3> QED BY <2>2, <2>4, <2>5, <3>1 DEF Named
  <2> DEFINE shown == [i \in {j \in DOMAIN Units : Shows(Units[j], Units, asked, facts)} |-> Units[i]]
  <2>10. RestrictValues(Units, LAMBDA u : Shows(u, Units, asked, facts)) = shown
    BY DEF RestrictValues, Restrict
  <2>11. DOMAIN shown = DOMAIN Units \ left
    BY <2>2, <2>9
  <2>12. \A i \in DOMAIN shown : shown[i] = Units[i]
    OBVIOUS
  <2> HIDE DEF shown, left, decided
  <2>13. CASE decided
    <3>1. result.text = [k \in DOMAIN shown |-> shown[k].ref]
      BY <2>6, <2>8, <2>10, <2>13
    <3> QED BY <2>8, <2>11, <2>12, <2>13, <3>1
  <2>14. CASE ~decided
    <3>1. result.stale
      BY <2>8, <2>14
    <3>2. result.text = [k \in DOMAIN <<>> |-> <<>>[k].ref]
      BY <2>6, <3>1, Zenon
    <3>3. DOMAIN result.text = {}
      BY <3>2
    <3> QED BY <2>8, <2>14, <3>3
  <2> QED BY <2>13, <2>14
<1> QED BY <1>1, ReadHolds, PTL
==================================================================================

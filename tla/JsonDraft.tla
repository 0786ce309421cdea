------------------------------- MODULE JsonDraft -------------------------------
(***************************************************************************)
(* How a FAM is patched: draft.ts of fam-edit (diff, patch, preview), the  *)
(* host's toEnginePatches, and the operations of applyFamPatch.            *)
(*                                                                         *)
(* A JSON value is [leaf |-> x], [array |-> sequence] or [object |->       *)
(* function of its keys]; a pointer is the sequence of its tokens, all of  *)
(* them strings, and "0" names a place in an array and a key of an object. *)
(* The order of an object's keys is left out.  None is undefined, and the  *)
(* result of what throws or is refused.                                    *)
(***************************************************************************)
EXTENDS Integers, Sequences, SequencesExt, FiniteSets, TLC

CONSTANT None

Digits == <<"0", "1", "2", "3", "4", "5">>
Place(token) == CHOOSE i \in DOMAIN Digits : Digits[i] = token

IsArray(v) == v # None /\ DOMAIN v = {"array"}
IsObject(v) == v # None /\ DOMAIN v = {"object"}

\* The children of a value, by token.
Kids(v) ==
  IF IsObject(v) THEN v.object
  ELSE IF IsArray(v) THEN [t \in {Digits[i] : i \in DOMAIN v.array} |-> v.array[Place(t)]]
  ELSE <<>>

WithKid(v, token, w) ==
  IF IsArray(v) THEN [array |-> [v.array EXCEPT ![Place(token)] = w]]
  ELSE [object |-> (token :> w) @@ v.object]

WithoutKid(v, token) ==
  IF IsArray(v) THEN [array |-> RemoveAt(v.array, Place(token))]
  ELSE [object |-> [k \in DOMAIN v.object \ {token} |-> v.object[k]]]

\* getAtPointer, and valueAt of the engine, which throws where this is None.
At(v, path) == FoldLeft(LAMBDA w, t : IF t \in DOMAIN Kids(w) THEN Kids(w)[t] ELSE None, v, path)

RECURSIVE Put(_, _, _)
Put(v, path, w) ==
  IF path = <<>> THEN w ELSE WithKid(v, Head(path), Put(Kids(v)[Head(path)], Tail(path), w))

\* v with the container that holds the end of path changed to w, if it can be.
InContainer(v, path, w) == IF w = None THEN None ELSE Put(v, Front(path), w)

----------------------------------------------------------------------------
\* draft.ts: an operation is [op, path, value].

InsertPlaces(array) == {Digits[i] : i \in 1..(Len(array) + 1)} \cup {"-"}
InsertPlace(array, token) == IF token = "-" THEN Len(array) + 1 ELSE Place(token)

\* What becomes of the container.
Edited(node, token, o) ==
  CASE o.op = "insert" /\ IsArray(node) ->
         IF token \in InsertPlaces(node.array)
         THEN [array |-> InsertAt(node.array, InsertPlace(node.array, token), o.value)] ELSE None
    [] o.op = "insert" /\ IsObject(node) ->
         IF token \in DOMAIN Kids(node) THEN None ELSE WithKid(node, token, o.value)
    [] o.op = "set" /\ token \in DOMAIN Kids(node) -> WithKid(node, token, o.value)
    [] o.op = "remove" /\ token \in DOMAIN Kids(node) -> WithoutKid(node, token)
    [] OTHER -> None

\* applyOperation, mutate
ApplyOperation(root, o) ==
  IF root = None THEN None
  ELSE IF o.path = <<>> THEN IF o.op = "remove" THEN None ELSE o.value
  ELSE InContainer(root, o.path, Edited(At(root, Front(o.path)), Last(o.path), o))

\* previewFamDraftPatch: one operation that fails refuses all.
PreviewFamDraftPatch(v, ops) == FoldLeft(ApplyOperation, v, ops)

RECURSIVE DiffJson(_, _, _)
DiffJson(before, after, path) ==
  IF before = after THEN {}
  ELSE IF (IsObject(before) /\ IsObject(after)) \/ (IsArray(before) /\ IsArray(after))
  THEN UNION {LET at == Append(path, t) IN
              IF t \notin DOMAIN Kids(before) THEN {[path |-> at, change |-> "added", after |-> Kids(after)[t]]}
              ELSE IF t \notin DOMAIN Kids(after) THEN {[path |-> at, change |-> "removed", after |-> None]}
              ELSE DiffJson(Kids(before)[t], Kids(after)[t], at) :
                t \in DOMAIN Kids(before) \cup DOMAIN Kids(after)}
  ELSE {[path |-> path, change |-> "replaced", after |-> after]}

\* patchFromDiff.  Pointers differ at some token, and only the order of places
\* in an array matters.  The mutant removes
\* in the order of insertion.
PlaceBefore(p, q) ==
  LET i == CHOOSE k \in DOMAIN p \cap DOMAIN q : p[k] # q[k] /\ \A j \in 1..(k - 1) : p[j] = q[j]
      rank(t) == IF t \in ToSet(Digits) THEN Place(t) ELSE 0
  IN  rank(p[i]) < rank(q[i])

PlaceAscending(p, q) == PlaceBefore(p, q)
PlaceDescending(p, q) == PlaceBefore(q, p)

PatchFromDiff(diff) ==
  LET entries(change) == {e \in diff : e.change = change}
      operation(op, e) == [op |-> op, path |-> e.path, value |-> e.after]
      listed(op, S, before(_, _)) ==
        LET list == SetToSortSeq(S, LAMBDA d, e : before(d.path, e.path))
        IN  [i \in DOMAIN list |-> operation(op, list[i])]
  IN  listed("set", entries("replaced"), PlaceBefore) \o listed("insert", entries("added"), PlaceBefore)
        \o listed("remove", entries("removed"), PlaceDescending)

----------------------------------------------------------------------------
\* toEnginePatches: the engine inserts into arrays only, at an index.  What is
\* an array, and how long it is, is looked up in the document before the patch.
\* The mutant takes every container for an object.
EnginePatchOfKey(source, o) == IF o.op = "insert" THEN [o EXCEPT !.op = "set"] ELSE o
EnginePatch(source, o) ==
  LET parent == At(source, Front(o.path)) IN
  IF o.op # "insert" THEN o
  ELSE IF o.path = <<>> \/ ~IsArray(parent) THEN [o EXCEPT !.op = "set"]
  ELSE IF Last(o.path) \notin ToSet(Digits) \cup {"-"} THEN None
  ELSE [op |-> "insert", path |-> Front(o.path), value |-> o.value,
        index |-> InsertPlace(parent.array, Last(o.path))]

\* The list, or None if one operation throws.
ToEnginePatches(source, ops) ==
  LET patches == [i \in DOMAIN ops |-> EnginePatch(source, ops[i])]
  IN  IF None \in ToSet(patches) THEN None ELSE patches

\* applyOperation of the engine.
EngineOperation(root, p) ==
  LET target == At(root, p.path) IN
  IF root = None THEN None
  ELSE IF p.op = "insert"
  THEN IF IsArray(target) /\ p.index <= Len(target.array) + 1
       THEN Put(root, p.path, [array |-> InsertAt(target.array, p.index, p.value)]) ELSE None
  ELSE LET node == At(root, Front(p.path))
           token == Last(p.path)
       IN  InContainer(root, p.path,
             IF p.op = "set" /\ IsObject(node) THEN WithKid(node, token, p.value) ELSE Edited(node, token, p))

\* affectedChildrenForPatches: the pointers observed that a patch may change.  The
\* mutant forgets those above it.
PointersBelow(p, q) == IsPrefix(p, q)
PointersOverlap(p, q) == IsPrefix(p, q) \/ IsPrefix(q, p)
Affected(patches, observed) ==
  {o \in observed : \E i \in DOMAIN patches : PointersOverlap(patches[i].path, o)}
=============================================================================

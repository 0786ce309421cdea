------------------------------ MODULE DraftEditing ------------------------------
(***************************************************************************)
(* The text of a FAM edited in FAMVIM, a plugin's patch and a reviewed     *)
(* proposal of a child, on their way through the host to applyFamPatch:    *)
(* ui-react's FQueryFamvim.tsx, fam-edit and host/session.ts, with the     *)
(* patches of JsonDraft.  Receipts, the log and the nodes are HostEdit's.  *)
(*                                                                         *)
(* A FAM is an object with the key "rev", which stands for all that no     *)
(* patch may touch (fam_id, schema_version, revision_id), the axes, and    *)
(* keys nobody knows; there may be FAMs in it at any depth.                *)
(***************************************************************************)
EXTENDS JsonDraft

CONSTANTS
  Axes,       \* the keys a FAM must have
  Bodies,     \* FAMs without "rev": the canonical one and what a user types
  Operations, \* of a plugin's panel; it may send any list of two
  Proposals,  \* lists of the engine's patches, proposed for a parent FAM
  Observed,   \* pointers into the parent, each observed by a child
  MaxRev      \* bound of the model: requests

VARIABLES
  doc,   \* fams.current
  rev,   \* requests decided so far, the number of the next revision
  asked, \* the request the host decides next, or None
  again  \* revalidateChildRefs of the last review, by the pointer observed

vars == <<doc, rev, asked, again>>

Leaf(x) == [leaf |-> x]
Fam(body, n) == [object |-> ("rev" :> Leaf(n)) @@ body]
Body(fam) == [k \in DOMAIN fam.object \ {"rev"} |-> fam.object[k]]

Protected == {"rev"}

\* validateRequest, for a request with an operation id, the current revision as
\* its base and a new one as its result.
Admissible(patches) ==
  /\ patches # <<>>
  /\ \A i \in DOMAIN patches : patches[i].path # <<>> /\ patches[i].path[1] \notin Protected

\* validateFamNode, inspectNested: whatever has two axes must have all of them.
RECURSIVE Complete(_)
Complete(v) ==
  /\ IsObject(v) /\ Cardinality(Axes \cap DOMAIN v.object) >= 2 => Axes \subseteq DOMAIN v.object
  /\ \A t \in DOMAIN Kids(v) : Complete(Kids(v)[t])

\* validateFamJson
Valid(fam) == IsObject(fam) /\ Axes \subseteq DOMAIN fam.object /\ Complete(fam)

\* applyFamPatch: the new revision, or None if it is refused.
ApplyFamPatch(fam, patches, n) ==
  IF patches = None \/ ~Admissible(patches) THEN None
  ELSE LET candidate == FoldLeft(EngineOperation, fam, patches)
       IN  IF candidate = None \/ ~Valid(candidate) THEN None
           ELSE WithKid(candidate, "rev", Leaf(n))

----------------------------------------------------------------------------
Init ==
  /\ rev = 0 /\ asked = None /\ again = {}
  /\ \E body \in Bodies : doc = Fam(body, 0) /\ Valid(doc)

Ask(request) ==
  /\ asked = None /\ rev < MaxRev
  /\ asked' = request
  /\ UNCHANGED <<doc, rev, again>>

\* FAMVIM's button: the difference of the FAM shown, which is always the
\* canonical one, and the text typed.
AskEdit(draft) ==
  /\ draft # doc
  /\ Ask([by |-> "famvim", draft |-> draft, ops |-> PatchFromDiff(DiffJson(doc, draft, <<>>))])

\* property.change with fam.patch from any other panel.
AskPatch(ops) == Ask([by |-> "panel", ops |-> ops])

\* A review of a proposal made for revision n.
AskReview(patches, n) == Ask([by |-> "review", patches |-> patches, base |-> n])

\* What the request leads to, None if it is refused: resolveProperty, and
\* reviewParentPatchProposal with the action accept-patch.
Decided ==
  IF asked.by # "review" THEN ApplyFamPatch(doc, ToEnginePatches(doc, asked.ops), rev + 1)
  ELSE IF Leaf(asked.base) # doc.object["rev"] THEN None
  ELSE ApplyFamPatch(doc, asked.patches, rev + 1)

Decide ==
  /\ asked # None
  /\ doc' = IF Decided = None THEN doc ELSE Decided
  /\ rev' = rev + 1
  /\ again' = IF asked.by = "review" THEN Affected(asked.patches, Observed) ELSE {}
  /\ asked' = None

Next ==
  \/ \E body \in Bodies, n \in {0, MaxRev + 1} : AskEdit(Fam(body, n))
  \/ \E o, p \in Operations : AskPatch(<<o, p>>)
  \/ \E patches \in Proposals, n \in 0..MaxRev : AskReview(patches, n)
  \/ Decide

Spec == Init /\ [][Next]_vars

----------------------------------------------------------------------------
Asked(by) == asked # None /\ asked.by = by

\* An edit of the text leads to that text and nothing else, with the new
\* revision: the difference, made a patch, adapted and applied in this order,
\* gives the draft again.  Only a draft that touches what is protected, or lacks
\* an axis, is refused, and then nothing changes.
EditsGiveTheDraft ==
  [][Asked("famvim") =>
       LET admitted == asked.draft.object["rev"] = doc.object["rev"] /\ Valid(asked.draft) IN
       doc' = IF admitted THEN Fam(Body(asked.draft), rev + 1) ELSE doc]_vars

\* A patch does what its preview shows, if the preview is a FAM with the same
\* protected keys.  Not so where an operation inserts into what one before it has
\* made or moved: the adapter looks at the document before the patch.
Steady(ops) ==
  \A j \in DOMAIN ops :
    ops[j].op = "insert" /\ ops[j].path # <<>> =>
      LET container(v) == At(v, Front(ops[j].path))
      IN  container(doc) = container(PreviewFamDraftPatch(doc, SubSeq(ops, 1, j - 1)))

PatchesDoWhatTheyShow ==
  [][Asked("panel") =>
       LET shown == PreviewFamDraftPatch(doc, asked.ops) IN
       Admissible(asked.ops) /\ Valid(shown) /\ Steady(asked.ops) =>
         Body(doc') = Body(shown)]_vars

\* A child that observes what an accepted proposal changes is asked again.  Not
\* so where an element taken out of an array moves those after it, which the
\* comparison of pointers does not see.
Moved(patches, o) ==
  \E i \in DOMAIN patches :
    /\ patches[i].op = "remove" /\ IsArray(At(doc, Front(patches[i].path)))
    /\ IsStrictPrefix(Front(patches[i].path), o)

ChangedChildrenAreAskedAgain ==
  [][Asked("review") =>
       \A o \in Observed : At(doc', o) # At(doc, o) =>
         o \in again' \/ Moved(asked.patches, o)]_vars
=============================================================================

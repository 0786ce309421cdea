------------------------------- MODULE HostEdit -------------------------------
(***************************************************************************)
(* The Playground's edits of the canonical FAM: host/session.ts with its   *)
(* stores, fam-edit (applyFamPatch, replaceFamUnit), the fold log, and the *)
(* parts of App.tsx that send requests and show results.                   *)
(*                                                                         *)
(* A gesture is one step with everything it sets off: the port decides in  *)
(* the same turn, the rest follows in microtasks, and so does React's      *)
(* effect on a new canonical FAM.  Only the answer of a provider is        *)
(* awaited.  The log's "validate-edge" records, which say nothing of       *)
(* revisions, the badges of other axes and DeFold runs, which are          *)
(* RecursiveFold's, are left out.                                          *)
(*                                                                         *)
(* An id stands for fam_id and revision_id together, None for a document   *)
(* without them.  "fits" is the decomposition profile; a "loose" document  *)
(* misses it (no title, say), an "unreadable" one cannot be projected      *)
(* (another kind, or a unit the access map counts on is gone).             *)
(***************************************************************************)
EXTENDS Integers, Sequences, FiniteSets

CONSTANTS Unit, Text, None, MaxAnswers, MaxEdits, MaxChildren

ASSUME BoundsAssumption == MaxAnswers \in Nat /\ MaxEdits \in Nat /\ MaxChildren \in Nat

VARIABLES
  current,   \* fams.current, or None
  stored,    \* the revision store: id -> document
  receipts, log,
  candidate, \* what FAMVIM shows while there is no canonical FAM
  shown,     \* unit nodes, of the root decomposition and of DeFold runs below it
  edits,     \* editSequence
  issued,    \* the ids providers have given, in order
  execution, \* "idle", "asked", or "stuck": running stays true after a throw
  app        \* "unmapped" until there is an access map, then "mapped"; "unmounted"

stores == <<current, stored, receipts, log>>
vars == <<stores, candidate, shown, edits, issued, execution, app>>

Ids == ({"provider"} \X (1..MaxAnswers)) \cup ({"edit"} \X (1..MaxEdits))
Contents == [text : Text, rev : 1..(MaxEdits + 1)]
UnitMaps == UNION {[U -> Contents] : U \in SUBSET Unit}
Fits == {"fits", "loose", "unreadable"}
Documents == [id : Ids \cup {None}, units : UnitMaps, fit : Fits]
ASSUME NoneAssumption == None \notin Ids \cup Documents

Nodes == [leaf : BOOLEAN, shows : Contents \cup {None},
          edit : {"none", "requested", "accepted", "rejected"}]

\* What a patch does: to the text of a unit, to its place in the list, or to the
\* rest of the document.  "replace" is replaceFamUnit's; a "protected" one touches
\* the ids, leads nowhere, or takes an axis away.
Changes == [op : {"set", "replace"}, unit : Unit, text : Text]
             \cup [op : {"remove"}, unit : Unit, fit : Fits]
             \cup [op : {"fit"}, fit : Fits] \cup [op : {"protected"}]

Receipts == [status : {"accepted", "rejected"}, base : Ids \cup {None},
             result : {"edit"} \X (1..MaxEdits), change : Changes]
Records == [operation : {"decompose", "edit"}, status : {"accepted", "rejected"},
            base : Ids, result : Ids]

----------------------------------------------------------------------------
\* The units of d after change c by edit n; only a replacement is a revision of
\* its unit.
Units(d, c, n) ==
  CASE c.op = "set" -> [d.units EXCEPT ![c.unit].text = c.text]
    [] c.op = "replace" -> [d.units EXCEPT ![c.unit] = [text |-> c.text, rev |-> n + 1]]
    [] c.op = "remove" -> [u \in DOMAIN d.units \ {c.unit} |-> d.units[u]]
    [] OTHER -> d.units

Result(n) == <<"edit", n>>

\* applyFamPatch: the ids cannot be patched, so a document without stays without.
Patched(d, c, n) ==
  [id |-> IF d.id = None THEN None ELSE Result(n),
   units |-> Units(d, c, n),
   fit |-> IF c.op \in {"fit", "remove"} THEN c.fit ELSE d.fit]

\* What the editors send and applyFamPatch accepts of document d.
Applicable(d, c) ==
  \/ c.op = "set" /\ c.unit \in DOMAIN d.units /\ c.text # d.units[c.unit].text
  \/ /\ c.op = "remove" /\ c.unit \in DOMAIN d.units /\ DOMAIN d.units # {c.unit}
     /\ c.fit \in {d.fit, "unreadable"}
  \/ c.op = "fit" /\ c.fit # d.fit

Receipt(status, base, c, n) ==
  [status |-> status, base |-> base, result |-> Result(n), change |-> c]

\* appendEditFoldLog; the mutant reads the base after setDecision.
EditRecordLate(status, base, n) ==
  [operation |-> "edit", status |-> status, base |-> Result(n), result |-> Result(n)]
EditRecord(status, base, n) ==
  [operation |-> "edit", status |-> status, base |-> base, result |-> Result(n)]

\* Append if absent; the mutant keeps the current document only.
StoredNot(d) == stored
Stored(d) ==
  IF d.id \in DOMAIN stored THEN stored
  ELSE [id \in DOMAIN stored \cup {d.id} |-> IF id = d.id THEN d ELSE stored[id]]

\* refreshDecompositionNodes; the mutant leaves it to the decision.
RefreshedNot(nodes, d) == nodes
Refreshed(nodes, d) ==
  [k \in DOMAIN nodes |->
     IF k[1] = "root" /\ k[2] \in DOMAIN d.units
     THEN [nodes[k] EXCEPT !.shows = d.units[k[2]]] ELSE nodes[k]]

Mounted == app # "unmounted"

Children == {k \in DOMAIN shown : k[1] = "child"}

\* App's effect on a new canonical FAM d, with these nodes on the canvas.
Effect(nodes, d) ==
  IF app = "mapped" /\ d.fit = "unreadable"
  THEN app' = "unmounted" /\ shown' = nodes
  ELSE app' = app /\ shown' = IF app = "mapped" THEN Refreshed(nodes, d) ELSE nodes

\* The session's listener: receipt, log and canonical FAM, in this order.  The log
\* throws if the source has no fam_id, and nothing more is published.
PublishAccepted(source, d, c, n) ==
  /\ receipts' = Append(receipts, Receipt("accepted", source.id, c, n))
  /\ IF source.id = None THEN UNCHANGED <<current, stored, log>>
     ELSE /\ log' = Append(log, EditRecord("accepted", source.id, n))
          /\ stored' = Stored(d)
          /\ current' = d

PublishRejected(source, c, n) ==
  /\ receipts' = Append(receipts, Receipt("rejected", source.id, c, n))
  /\ log' = IF source.id = None THEN log ELSE Append(log, EditRecord("rejected", source.id, n))
  /\ UNCHANGED <<current, stored>>

Count == edits + 1
CountEdit == edits < MaxEdits /\ edits' = edits + 1

----------------------------------------------------------------------------
Init ==
  /\ current = None /\ stored = <<>> /\ receipts = <<>> /\ log = <<>>
  /\ candidate = None /\ shown = <<>>
  /\ edits = 0 /\ issued = <<>> /\ execution = "idle" /\ app = "unmapped"

\* The execute button.
Execute ==
  /\ Mounted /\ execution = "idle" /\ Len(issued) < MaxAnswers
  /\ execution' = "asked"
  /\ UNCHANGED <<stores, candidate, shown, edits, issued, app>>

\* The provider's decomposition; it may give an id it has given before.
AnswerOf(texts, i) ==
  [id |-> <<"provider", i>>, fit |-> "fits",
   units |-> [u \in DOMAIN texts |-> [text |-> texts[u], rev |-> 1]]]

LeafOf(content) == [leaf |-> TRUE, shows |-> content, edit |-> "none"]

Kept == [k \in Children |-> shown[k]]

\* projectDecompositionGraph: new nodes for the units, in place of the previous.
Projected(d) ==
  [k \in ({"root"} \X DOMAIN d.units) \cup Children |->
     IF k \in Children THEN shown[k] ELSE LeafOf(d.units[k[2]])]

\* A decomposition is answered: set, projected and logged.
Answer(d) ==
  /\ Mounted /\ execution = "asked"
  /\ current' = d /\ stored' = Stored(d)
  /\ shown' = Projected(d)
  /\ log' = Append(log, [operation |-> "decompose", status |-> "accepted",
                         base |-> d.id, result |-> d.id])
  /\ issued' = Append(issued, d.id) /\ execution' = "idle" /\ app' = "mapped"
  /\ UNCHANGED <<receipts, candidate, edits>>

\* Its projection throws: the FAM is current, not logged, and the button stays busy.
\* If its units cannot be told apart, the effect throws as well.
AnswerThrows(d) ==
  /\ Mounted /\ execution = "asked"
  /\ current' = d /\ stored' = Stored(d)
  /\ shown' = Kept
  /\ issued' = Append(issued, d.id) /\ execution' = "stuck"
  /\ app' \in {"mapped", "unmounted"}
  /\ UNCHANGED <<receipts, log, candidate, edits>>

\* An answer that misses the profile is only shown, for the user to put right.
AnswerCandidate(d) ==
  /\ Mounted /\ execution = "asked"
  /\ candidate' = IF current = None THEN d ELSE candidate
  /\ issued' = Append(issued, d.id) /\ execution' = "idle"
  /\ UNCHANGED <<stores, shown, edits, app>>

AnswerFails ==
  /\ Mounted /\ execution = "asked"
  /\ candidate' = IF current = None THEN None ELSE candidate
  /\ execution' = "idle"
  /\ UNCHANGED <<stores, shown, edits, issued, app>>

\* A DeFold run turns node k into a boundary around a unit of another FAM, which
\* may bear a name of this one.
ShowChild(k, u, t) ==
  /\ app = "mapped" /\ shown[k].leaf /\ <<"child", u>> \notin DOMAIN shown
  /\ Cardinality(Children) < MaxChildren
  /\ shown' = [x \in DOMAIN shown \cup {<<"child", u>>} |->
                  IF x = <<"child", u>> THEN LeafOf([text |-> t, rev |-> 1])
                  ELSE IF x = k THEN [leaf |-> FALSE, shows |-> None, edit |-> "none"]
                  ELSE shown[x]]
  /\ UNCHANGED <<stores, candidate, edits, issued, execution, app>>

\* A RAW or Q edit while node k (FAMVIM's, or a unit's) is active: it goes to the
\* canonical FAM, or to what FAMVIM shows if there is none.
Source == IF current = None THEN candidate ELSE current

Famvim == <<"famvim", None>>
Targets == {Famvim} \cup IF current = None THEN {} ELSE DOMAIN shown

\* The decision puts the whole document into the node.
Overwritten(k) ==
  IF k = Famvim THEN shown ELSE [shown EXCEPT ![k].shows = None, ![k].edit = "none"]

Patch(k, c) ==
  /\ Mounted /\ Source # None /\ Applicable(Source, c)
  /\ CountEdit
  /\ LET d == Patched(Source, c, Count) IN
       /\ PublishAccepted(Source, d, c, Count)
       /\ candidate' = IF current = None THEN d ELSE candidate
       /\ IF Source.id = None THEN shown' = Overwritten(k) /\ app' = app
          ELSE Effect(Overwritten(k), d)
  /\ UNCHANGED <<issued, execution>>

RejectPatch(c) ==
  /\ Mounted /\ Source # None /\ c.op = "protected"
  /\ CountEdit
  /\ PublishRejected(Source, c, Count)
  /\ UNCHANGED <<candidate, shown, issued, execution, app>>

\* The unit's replace button, disabled without a change and while one is requested.
CanReplace(k, t) ==
  /\ Mounted /\ shown[k].leaf /\ shown[k].edit # "requested"
  /\ shown[k].shows # None => t # shown[k].shows.text

Replacement(u, t) == [op |-> "replace", unit |-> u, text |-> t]

Badged(k, badge) == [shown EXCEPT ![k].edit = badge]

ReplaceUnit(k, t) ==
  /\ CanReplace(k, t) /\ k[2] \in DOMAIN current.units /\ current.fit = "fits"
  /\ CountEdit
  /\ LET c == Replacement(k[2], t)
         d == Patched(current, c, Count)
     IN /\ PublishAccepted(current, d, c, Count)
        /\ Effect([shown EXCEPT ![k].shows = d.units[k[2]], ![k].edit = "accepted"], d)
  /\ UNCHANGED <<candidate, issued, execution>>

\* validateFamDecomposition refuses the result.
RejectReplacement(k, t) ==
  /\ CanReplace(k, t) /\ k[2] \in DOMAIN current.units /\ current.fit # "fits"
  /\ CountEdit
  /\ PublishRejected(current, Replacement(k[2], t), Count)
  /\ shown' = Badged(k, "rejected")
  /\ UNCHANGED <<candidate, issued, execution, app>>

\* replaceFamUnit throws, for a unit that is not of the canonical FAM: the dispatch
\* rejects, there is no receipt, and the badge says requested for good.
ReplaceThrows(k, t) ==
  /\ CanReplace(k, t) /\ k[2] \notin DOMAIN current.units
  /\ CountEdit
  /\ shown' = Badged(k, "requested")
  /\ UNCHANGED <<stores, candidate, issued, execution, app>>

TextMaps == UNION {[U -> Text] : U \in SUBSET Unit \ {{}}}

Answers ==
  \/ AnswerFails
  \/ \E texts \in TextMaps, i \in 1..(Len(issued) + 1) :
       \/ Answer(AnswerOf(texts, i)) \/ AnswerThrows(AnswerOf(texts, i))
       \/ \E id \in {<<"provider", i>>, None} :
            AnswerCandidate([AnswerOf(texts, i) EXCEPT !.id = id, !.fit = "loose"])

Edits ==
  \/ \E c \in Changes : RejectPatch(c) \/ \E k \in Targets : Patch(k, c)
  \/ \E k \in DOMAIN shown, t \in Text :
       ReplaceUnit(k, t) \/ RejectReplacement(k, t) \/ ReplaceThrows(k, t)

Next ==
  \/ Execute \/ Answers \/ Edits
  \/ \E k \in DOMAIN shown, u \in Unit, t \in Text : ShowChild(k, u, t)

Spec == Init /\ [][Next]_vars

----------------------------------------------------------------------------
TypeOK ==
  /\ current \in Documents \cup {None} /\ candidate \in Documents \cup {None}
  /\ DOMAIN stored \subseteq Ids /\ \A id \in DOMAIN stored : stored[id] \in Documents
  /\ receipts \in Seq(Receipts) /\ log \in Seq(Records)
  /\ DOMAIN shown \subseteq {"root", "child"} \X Unit /\ \A k \in DOMAIN shown : shown[k] \in Nodes
  /\ edits \in 0..MaxEdits /\ issued \in Seq(Ids \cup {None}) /\ Len(issued) <= MaxAnswers
  /\ execution \in {"idle", "asked", "stuck"} /\ app \in {"unmapped", "mapped", "unmounted"}

Accepted == {receipts[i] : i \in {j \in DOMAIN receipts : receipts[j].status = "accepted"}}

GivenTwice(id) == Cardinality({i \in DOMAIN issued : issued[i] = id}) > 1

\* Receipts and revisions tell the history of the canonical FAM: what an accepted
\* receipt names is stored, and its patch makes it from the revision it names as its
\* base, unless that was of a candidate, or a provider has given the id twice.
EditsAreTraceable ==
  \A r \in Accepted : r.base # None =>
    /\ r.result \in DOMAIN stored
    /\ r.base \in DOMAIN stored /\ ~GivenTwice(r.base) =>
         stored[r.result] = Patched(stored[r.base], r.change, r.result[2])

\* The log tells how the canonical FAM came about: its accepted edits and its
\* decompositions, each edit from where the record before it led, lead to the current
\* one.  An execution that threw is not logged, and the chain stops there.
Changed == {i \in DOMAIN log : log[i].status = "accepted"}

\* j is the next change after i.
Follows(i, j) == i < j /\ \A k \in Changed : k <= i \/ j <= k

LogLeadsToCurrent ==
  execution # "stuck" =>
    /\ current # None =>
         \E i \in Changed : (\A j \in Changed : j <= i) /\ log[i].result = current.id
    /\ \A i, j \in Changed :
         Follows(i, j) /\ log[j].operation = "edit" => log[j].base = log[i].result

\* Whichever node an edit was made in, the units on the canvas show their text and
\* their revision in the canonical FAM, as long as it has them.
UnitsShowTheDocument ==
  app = "mapped" =>
    \A k \in DOMAIN shown : k[1] = "root" /\ shown[k].leaf /\ k[2] \in DOMAIN current.units =>
      shown[k].shows = current.units[k[2]]

\* What a receipt calls accepted becomes a revision, also when the first document is
\* incomplete (fam-edit-engine.ja.md: an incomplete first candidate can be recovered
\* by local edits, revisions and receipts).
AcceptedEditsArePublished == \A r \in Accepted : r.result \in DOMAIN stored
=============================================================================

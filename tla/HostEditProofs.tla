---------------------------- MODULE HostEditProofs ----------------------------
(***************************************************************************)
(* Proofs about HostEdit, for any units and texts and any number of        *)
(* answers and edits: what receipts, revisions, the log and the canvas     *)
(* tell of the canonical FAM.                                              *)
(***************************************************************************)
EXTENDS HostEdit, FiniteSetTheorems, TLAPS

Issued(id) == \E i \in DOMAIN issued : issued[i] = id

\* An id that has been handed out, by a provider or to an edit.
Given(id) == IF id[1] = "provider" THEN Issued(id) ELSE id[2] <= edits

\* Only ids that were given are stored or named as a base; the current document is
\* stored under its id, and nothing is before there is one.
StoreInv ==
  /\ current = None => DOMAIN stored = {} /\ Changed = {}
  /\ current # None =>
       /\ current.id \in DOMAIN stored
       /\ ~GivenTwice(current.id) => stored[current.id] = current
  /\ \A id \in DOMAIN stored : Given(id)
  /\ \A r \in Accepted : r.base # None => Given(r.base)
  /\ current = None /\ candidate # None /\ candidate.id # None => Given(candidate.id)
  /\ execution = "asked" => Len(issued) < MaxAnswers

StoreTypes ==
  /\ current \in Documents \cup {None} /\ candidate \in Documents \cup {None}
  /\ DOMAIN stored \subseteq Ids /\ \A id \in DOMAIN stored : stored[id] \in Documents
  /\ receipts \in Seq(Receipts) /\ log \in Seq(Records)
  /\ edits \in 0..MaxEdits /\ issued \in Seq(Ids \cup {None}) /\ Len(issued) <= MaxAnswers

CanvasTypes ==
  /\ DOMAIN shown \subseteq {"root", "child"} \X Unit
  /\ \A k \in DOMAIN shown : shown[k] \in Nodes
  /\ execution \in {"idle", "asked", "stuck"} /\ app \in {"unmapped", "mapped", "unmounted"}

LogChain ==
  /\ current # None =>
       \E i \in Changed : (\A j \in Changed : j <= i) /\ log[i].result = current.id
  /\ \A i, j \in Changed :
       Follows(i, j) /\ log[j].operation = "edit" => log[j].base = log[i].result

\* There is a document behind every unit on the canvas.
CanvasInv ==
  /\ app = "mapped" => current # None
  /\ DOMAIN shown # {} => current # None
  /\ UnitsShowTheDocument

EditInv ==
  TypeOK /\ StoreInv /\ EditsAreTraceable /\ LogLeadsToCurrent /\ CanvasInv

----------------------------------------------------------------------------
\* What is made of documents

LEMMA EditIds ==
  ASSUME NEW n \in 1..MaxEdits
  PROVE  Result(n) \in Ids /\ Result(n) \in {"edit"} \X (1..MaxEdits) /\ Result(n)[1] = "edit"
         /\ Result(n)[2] = n
BY DEF Result, Ids

\* A document that is patched where it can be is a document.
LEMMA PatchedIsADocument ==
  ASSUME NEW d \in Documents, NEW c \in Changes, NEW n \in 1..MaxEdits,
         \/ Applicable(d, c)
         \/ c.op = "replace" /\ c.unit \in DOMAIN d.units
  PROVE  /\ Patched(d, c, n) \in Documents
         /\ Patched(d, c, n).id = IF d.id = None THEN None ELSE Result(n)
<1>1. PICK U \in SUBSET Unit : d.units \in [U -> Contents]
  BY DEF Documents, UnitMaps
<1>2. d.id \in Ids \cup {None} /\ d.fit \in Fits
  BY DEF Documents
<1>3. n + 1 \in 1..(MaxEdits + 1) /\ MaxEdits \in Nat
  BY BoundsAssumption
<1>4. CASE c.op = "set"
  <2>1. c.unit \in U /\ c.text \in Text
    BY <1>1, <1>4 DEF Applicable, Changes
  <2>2. [d.units[c.unit] EXCEPT !.text = c.text] \in Contents
    BY <1>1, <2>1 DEF Contents
  <2>3. [d.units EXCEPT ![c.unit].text = c.text] \in [U -> Contents]
    BY <1>1, <2>2
  <2>q. QED
    BY <1>2, <1>4, <2>3, EditIds DEF Patched, Units, Documents, UnitMaps
<1>5. CASE c.op = "replace"
  <2>1. c.unit \in U /\ [text |-> c.text, rev |-> n + 1] \in Contents
    BY <1>1, <1>3, <1>5 DEF Applicable, Changes, Contents
  <2>2. [d.units EXCEPT ![c.unit] = [text |-> c.text, rev |-> n + 1]] \in [U -> Contents]
    BY <1>1, <2>1
  <2>q. QED
    BY <1>2, <1>5, <2>2, EditIds DEF Patched, Units, Documents, UnitMaps
<1>6. CASE c.op = "remove"
  <2>1. c.fit \in Fits /\ U \ {c.unit} \in SUBSET Unit
    BY <1>6 DEF Changes
  <2>2. [u \in DOMAIN d.units \ {c.unit} |-> d.units[u]] \in [U \ {c.unit} -> Contents]
    BY <1>1
  <2>3. Units(d, c, n) \in UnitMaps
    BY <1>6, <2>1, <2>2 DEF Units, UnitMaps
  <2>4. Patched(d, c, n) = [id |-> IF d.id = None THEN None ELSE Result(n),
                            units |-> Units(d, c, n), fit |-> c.fit]
    BY <1>6 DEF Patched
  <2>q. QED
    BY <1>2, <2>1, <2>3, <2>4, EditIds DEF Documents
<1>7. CASE c.op = "fit"
  <2>1. c.fit \in Fits
    BY <1>7 DEF Changes
  <2>q. QED
    BY <1>2, <1>7, <2>1, EditIds DEF Patched, Units, Documents
<1>q. QED
  BY <1>4, <1>5, <1>6, <1>7 DEF Applicable

\* A provider's answer is a document with an id of the provider's.
LEMMA AnswerIsADocument ==
  ASSUME TypeOK, Len(issued) < MaxAnswers,
         NEW texts \in TextMaps, NEW i \in 1..(Len(issued) + 1)
  PROVE  /\ AnswerOf(texts, i) \in Documents
         /\ AnswerOf(texts, i).id \in Ids /\ AnswerOf(texts, i).id[1] = "provider"
         /\ \A id \in {<<"provider", i>>, None} :
              LET d == [AnswerOf(texts, i) EXCEPT !.id = id, !.fit = "loose"] IN
              d \in Documents /\ d.id = id
<1>1. <<"provider", i>> \in Ids
  BY BoundsAssumption DEF TypeOK, Ids
<1>2. PICK U \in SUBSET Unit : texts \in [U -> Text]
  BY DEF TextMaps
<1>3. [u \in DOMAIN texts |-> [text |-> texts[u], rev |-> 1]] \in [U -> Contents]
  BY <1>2, BoundsAssumption DEF Contents
<1>4. [u \in DOMAIN texts |-> [text |-> texts[u], rev |-> 1]] \in UnitMaps
  BY <1>3 DEF UnitMaps
<1>q. QED
  BY <1>1, <1>4 DEF AnswerOf, Documents, Fits

\* Storing adds a document that is not stored yet and keeps the others.
LEMMA StoredFacts ==
  ASSUME NEW d, stored' = Stored(d)
  PROVE  /\ DOMAIN stored' = DOMAIN stored \cup {d.id}
         /\ \A id \in DOMAIN stored : stored'[id] = stored[id]
         /\ d.id \notin DOMAIN stored => stored'[d.id] = d
BY DEF Stored

\* The nodes a refreshed canvas has.
LEMMA RefreshedFacts ==
  ASSUME NEW nodes, DOMAIN nodes \subseteq {"root", "child"} \X Unit,
         \A k \in DOMAIN nodes : nodes[k] \in Nodes,
         NEW d \in Documents
  PROVE  /\ DOMAIN Refreshed(nodes, d) = DOMAIN nodes
         /\ \A k \in DOMAIN nodes :
              /\ Refreshed(nodes, d)[k] \in Nodes
              /\ k[1] = "root" /\ k[2] \in DOMAIN d.units =>
                   Refreshed(nodes, d)[k].shows = d.units[k[2]]
<1>1. \A u \in DOMAIN d.units : d.units[u] \in Contents
  BY DEF Documents, UnitMaps
<1>q. QED
  BY <1>1 DEF Refreshed, Nodes

\* An id given twice stays so, and one that is given again is.
LEMMA Twice ==
  ASSUME TypeOK, NEW id, NEW x, issued' = Append(issued, x)
  PROVE  /\ GivenTwice(id) => GivenTwice(id)'
         /\ Issued(id) => Issued(id)'
         /\ Issued(x)'
         /\ Issued(x) => GivenTwice(x)'
<1> DEFINE At(s, y) == {i \in DOMAIN s : s[i] = y}
<1>1. /\ Len(issued) \in Nat /\ DOMAIN issued = 1..Len(issued)
      /\ DOMAIN issued' = 1..(Len(issued) + 1)
      /\ issued'[Len(issued) + 1] = x /\ \A i \in DOMAIN issued : issued'[i] = issued[i]
  BY DEF TypeOK
<1>2. \A y : IsFiniteSet(At(issued', y)) /\ At(issued, y) \subseteq At(issued', y)
  <2>1. IsFiniteSet(DOMAIN issued')
    BY <1>1, FS_Interval
  <2>2. \A y : At(issued', y) \subseteq DOMAIN issued' /\ At(issued, y) \subseteq At(issued', y)
    BY <1>1
  <2>q. QED
    BY <2>1, <2>2, FS_Subset
<1>3. GivenTwice(id) => GivenTwice(id)'
  <2>1. /\ Cardinality(At(issued, id)) <= Cardinality(At(issued', id))
        /\ Cardinality(At(issued, id)) \in Nat /\ Cardinality(At(issued', id)) \in Nat
    <3> HIDE DEF At
    <3>q. QED
      BY <1>2, FS_Subset, FS_CardinalityType
  <2>2. /\ GivenTwice(id) <=> Cardinality(At(issued, id)) > 1
        /\ GivenTwice(id)' <=> Cardinality(At(issued', id)) > 1
    BY DEF GivenTwice
  <2> HIDE DEF At
  <2>q. QED
    BY <2>1, <2>2
<1>4. ASSUME Issued(x) PROVE GivenTwice(x)'
  <2>1. PICK i \in DOMAIN issued : issued[i] = x
    BY <1>4 DEF Issued
  <2> DEFINE two == {i, Len(issued) + 1}
  <2>2. two \subseteq At(issued', x) /\ i # Len(issued) + 1
    BY <1>1, <2>1
  <2>3. Cardinality(two) = 2
    <3> DEFINE one == {i}
    <3>1. IsFiniteSet(one) /\ Cardinality(one) = 1
      BY FS_Singleton
    <3>2. Len(issued) + 1 \notin one /\ two = one \cup {Len(issued) + 1}
      BY <2>2
    <3> HIDE DEF one, two
    <3>3. Cardinality(one \cup {Len(issued) + 1}) = Cardinality(one) + 1
      BY <3>1, <3>2, FS_AddElement
    <3>q. QED
      BY <3>1, <3>2, <3>3
  <2>4. /\ Cardinality(two) <= Cardinality(At(issued', x))
        /\ Cardinality(At(issued', x)) \in Nat
    <3> HIDE DEF At, two
    <3>q. QED
      BY <1>2, <2>2, FS_Subset, FS_CardinalityType
  <2>5. GivenTwice(x)' <=> Cardinality(At(issued', x)) > 1
    BY DEF GivenTwice
  <2> HIDE DEF At
  <2>q. QED
    BY <2>3, <2>4, <2>5
<1>q. QED
  BY <1>1, <1>3, <1>4 DEF Issued

----------------------------------------------------------------------------
\* The stores

\* One more receipt, one more record.
LEMMA ReceiptAppended ==
  ASSUME StoreTypes, NEW r \in Receipts, receipts' = Append(receipts, r)
  PROVE  /\ receipts' \in Seq(Receipts)
         /\ r.status = "accepted" => Accepted' = Accepted \cup {r}
         /\ r.status # "accepted" => Accepted' = Accepted
<1>1. /\ receipts' \in Seq(Receipts) /\ Len(receipts) \in Nat
      /\ DOMAIN receipts = 1..Len(receipts) /\ DOMAIN receipts' = 1..(Len(receipts) + 1)
      /\ receipts'[Len(receipts) + 1] = r
      /\ \A i \in DOMAIN receipts : receipts'[i] = receipts[i]
  BY DEF StoreTypes
<1>q. QED
  BY <1>1 DEF Accepted

LEMMA RecordAppended ==
  ASSUME StoreTypes, NEW r \in Records, log' = Append(log, r)
  PROVE  /\ log' \in Seq(Records) /\ Len(log) \in Nat
         /\ log'[Len(log) + 1] = r /\ \A i \in Changed : log'[i] = log[i]
         /\ Changed \subseteq 1..Len(log)
         /\ r.status = "accepted" => Changed' = Changed \cup {Len(log) + 1}
         /\ r.status # "accepted" => Changed' = Changed
<1>1. /\ log' \in Seq(Records) /\ Len(log) \in Nat
      /\ DOMAIN log = 1..Len(log) /\ DOMAIN log' = 1..(Len(log) + 1)
      /\ log'[Len(log) + 1] = r /\ \A i \in DOMAIN log : log'[i] = log[i]
  BY DEF StoreTypes
<1>q. QED
  BY <1>1 DEF Changed

\* A change that starts at the current document, or is a new one, continues the chain.
LEMMA ChainGrows ==
  ASSUME StoreTypes, StoreInv, LogChain, NEW r \in Records, log' = Append(log, r),
         r.status = "accepted", current'.id = r.result,
         r.operation = "edit" /\ current # None => r.base = current.id
  PROVE  LogChain'
<1> DEFINE new == Len(log) + 1
<1>1. /\ Len(log) \in Nat /\ log'[new] = r /\ \A i \in Changed : log'[i] = log[i]
      /\ Changed \subseteq 1..Len(log) /\ Changed' = Changed \cup {new}
  BY RecordAppended
<1>2. new \in Changed' /\ \A j \in Changed' : j \in Int /\ j <= new
  BY <1>1
<1>3. ASSUME NEW i \in Changed', NEW j \in Changed', Follows(i, j)', log'[j].operation = "edit"
      PROVE  log'[j].base = log'[i].result
  <2>1. i < j /\ \A k \in Changed' : k <= i \/ j <= k
    BY <1>3 DEF Follows
  <2>2. i \in Changed
    BY <1>1, <1>2, <2>1
  <2>3. CASE j \in Changed
    <3>1. Follows(i, j)
      BY <1>1, <2>1 DEF Follows
    <3>q. QED
      BY <1>1, <1>3, <2>2, <2>3, <3>1 DEF LogChain
  <2>4. CASE j = new
    <3>1. current # None
      BY <2>2 DEF StoreInv
    <3>2. PICK m \in Changed : (\A k \in Changed : k <= m) /\ log[m].result = current.id
      BY <3>1 DEF LogChain
    <3>3. m = i
      BY <1>1, <2>1, <2>2, <2>4, <3>2
    <3>q. QED
      BY <1>1, <1>3, <2>2, <2>4, <3>1, <3>2, <3>3
  <2>q. QED
    BY <1>1, <2>3, <2>4
<1> HIDE DEF new
<1>q. QED
  BY <1>1, <1>2, <1>3 DEF LogChain

\* An accepted edit of the document it was made for.
LEMMA AcceptedIsStored ==
  ASSUME EditInv, NEW c \in Changes, NEW d \in Documents, CountEdit, NEW n, n = Count, Source # None,
         d = Patched(Source, c, n), d.id = (IF Source.id = None THEN None ELSE Result(n)),
         PublishAccepted(Source, d, c, n),
         candidate' = IF current = None THEN d ELSE candidate,
         UNCHANGED <<issued, execution>>
  PROVE  StoreTypes' /\ StoreInv' /\ EditsAreTraceable' /\ LogLeadsToCurrent'
<1>1. /\ StoreTypes /\ StoreInv /\ EditsAreTraceable /\ LogLeadsToCurrent
      /\ Source \in Documents
  BY DEF EditInv, TypeOK, StoreTypes, Source
<1>2. /\ edits \in Nat /\ n \in 1..MaxEdits /\ n = edits + 1 /\ edits' = n
      /\ edits' \in 0..MaxEdits
  BY <1>1, BoundsAssumption DEF StoreTypes, CountEdit, Count
<1> DEFINE rec == Receipt("accepted", Source.id, c, n)
<1>3. /\ rec \in Receipts /\ rec.status = "accepted" /\ rec.base = Source.id
      /\ rec.result = Result(n) /\ rec.change = c
      /\ Result(n) \in Ids /\ Result(n)[1] = "edit" /\ Result(n)[2] = n
  BY <1>1, <1>2, EditIds DEF Receipt, Receipts, Documents
<1>4. receipts' \in Seq(Receipts) /\ Accepted' = Accepted \cup {rec}
  <2> HIDE DEF rec
  <2>1. receipts' = Append(receipts, rec)
    BY DEF PublishAccepted, rec
  <2>q. QED
    BY <1>1, <1>3, <2>1, ReceiptAppended
<1> HIDE DEF rec
<1>5. ASSUME NEW id \in Ids, Given(id)
      PROVE  Given(id)' /\ id # Result(n)
  <2>1. Issued(id)' <=> Issued(id)
    BY DEF Issued
  <2>2. id[1] = "edit" => id[2] \in Nat
    BY <1>2 DEF Ids
  <2>3. id[1] \in {"edit", "provider"}
    BY DEF Ids
  <2>q. QED
    BY <1>2, <1>3, <1>5, <2>1, <2>2, <2>3 DEF Given
<1>6. \A id : GivenTwice(id)' <=> GivenTwice(id)
  BY DEF GivenTwice
<1>7. \A r \in Accepted : r.base \in Ids \cup {None}
  <2>1. \A r \in Accepted : r \in Receipts
    BY <1>1 DEF StoreTypes, Accepted
  <2>q. QED
    BY <2>1 DEF Receipts
<1>8. CASE Source.id = None
  <2>1. UNCHANGED <<current, stored, log>>
    BY <1>8 DEF PublishAccepted
  <2>2. current = None
    BY <1>1, <1>8, NoneAssumption DEF Source, StoreInv, StoreTypes
  <2>3. candidate' = d /\ d.id = None
    BY <1>8, <2>2
  <2>4. StoreTypes'
    BY <1>1, <1>2, <1>4, <2>1, <2>3 DEF StoreTypes
  <2>5. StoreInv'
    BY <1>1, <1>3, <1>4, <1>5, <1>7, <1>8, <2>1, <2>2, <2>3 DEF StoreInv, Changed
  <2>6. EditsAreTraceable'
    BY <1>1, <1>3, <1>4, <1>6, <1>8, <2>1 DEF EditsAreTraceable
  <2>7. LogLeadsToCurrent'
    BY <1>1, <2>1 DEF LogLeadsToCurrent, Changed, Follows
  <2>q. QED
    BY <2>4, <2>5, <2>6, <2>7
<1>9. CASE Source.id # None
  <2>1. /\ log' = Append(log, EditRecord("accepted", Source.id, n))
        /\ stored' = Stored(d) /\ current' = d /\ d.id = Result(n) /\ Source.id \in Ids
    BY <1>1, <1>9 DEF PublishAccepted, Documents
  <2> DEFINE r == EditRecord("accepted", Source.id, n)
  <2>2. /\ r \in Records /\ r.status = "accepted" /\ r.operation = "edit"
        /\ r.base = Source.id /\ r.result = Result(n)
    BY <1>3, <2>1 DEF EditRecord, Records
  <2> HIDE DEF r
  <2>3. Result(n) \notin DOMAIN stored
    BY <1>1, <1>3, <1>5 DEF StoreInv
  <2>4. /\ DOMAIN stored' = DOMAIN stored \cup {Result(n)}
        /\ \A id \in DOMAIN stored : stored'[id] = stored[id]
        /\ stored'[Result(n)] = d
    BY <2>1, <2>3, StoredFacts
  <2>5. log' = Append(log, r)
    BY <2>1 DEF r
  <2>6. log' \in Seq(Records)
    BY <1>1, <2>2, <2>5, RecordAppended
  <2>7. StoreTypes'
    BY <1>1, <1>2, <1>3, <1>4, <2>1, <2>4, <2>6 DEF StoreTypes
  <2>8. current' # None /\ Given(Result(n))' /\ Given(Source.id)
    <3>1. Given(Result(n))'
      BY <1>2, <1>3 DEF Given
    <3>2. Given(Source.id)
      BY <1>1, <1>9 DEF Source, StoreInv
    <3>q. QED
      BY <2>1, <3>1, <3>2, NoneAssumption
  <2>9. StoreInv'
    <3>1. \A id \in DOMAIN stored' : Given(id)'
      BY <1>1, <1>5, <2>4, <2>8 DEF StoreInv, StoreTypes
    <3>2. \A q \in Accepted' : q.base # None => Given(q.base)'
      BY <1>1, <1>3, <1>4, <1>5, <1>7, <2>1, <2>8 DEF StoreInv
    <3>q. QED
      BY <1>1, <2>1, <2>4, <2>8, <3>1, <3>2 DEF StoreInv
  <2>10. EditsAreTraceable'
    <3> SUFFICES ASSUME NEW q \in Accepted', q.base # None
                 PROVE  /\ q.result \in DOMAIN stored'
                        /\ q.base \in DOMAIN stored' /\ ~GivenTwice(q.base)' =>
                             stored'[q.result] = Patched(stored'[q.base], q.change, q.result[2])
      BY DEF EditsAreTraceable
    <3>1. CASE q \in Accepted
      <4>1. q.base \in Ids /\ q.base # Result(n)
        BY <1>1, <1>5, <1>7, <3>1 DEF StoreInv
      <4>q. QED
        BY <1>1, <1>6, <2>4, <3>1, <4>1 DEF EditsAreTraceable
    <3>2. CASE q = rec
      <4>1. q.base = Source.id /\ q.result = Result(n) /\ q.change = c /\ q.result[2] = n
        BY <1>3, <3>2
      <4>2. Source.id # Result(n)
        BY <1>5, <2>1, <2>8
      <4>3. Source.id \in DOMAIN stored /\ ~GivenTwice(Source.id) => stored[Source.id] = Source
        BY <1>1 DEF StoreInv, Source
      <4>q. QED
        BY <1>6, <2>4, <4>1, <4>2, <4>3
    <3>q. QED
      BY <1>4, <3>1, <3>2
  <2>11. LogLeadsToCurrent'
    <3>1. current # None => r.base = current.id
      BY <2>2 DEF Source
    <3>2. LogChain => LogChain'
      BY <1>1, <2>1, <2>2, <2>5, <3>1, ChainGrows
    <3>q. QED
      BY <1>1, <3>2 DEF LogLeadsToCurrent, LogChain
  <2>q. QED
    BY <2>7, <2>9, <2>10, <2>11
<1>q. QED
  BY <1>8, <1>9

\* A step that accepts nothing.
LEMMA NothingAccepted ==
  ASSUME EditInv, StoreTypes', UNCHANGED <<current, stored>>,
         Accepted' = Accepted, Changed' = Changed, \A i \in Changed : log'[i] = log[i],
         edits' >= edits,
         \A id : Issued(id) => Issued(id)', \A id : GivenTwice(id) => GivenTwice(id)',
         current = None /\ candidate' # None /\ candidate'.id # None => Given(candidate.id)',
         execution' = "asked" => Len(issued') < MaxAnswers,
         execution = "stuck" => execution' = "stuck"
  PROVE  StoreInv' /\ EditsAreTraceable' /\ LogLeadsToCurrent'
<1>1. StoreTypes /\ StoreInv /\ EditsAreTraceable /\ LogLeadsToCurrent
  BY DEF EditInv, TypeOK, StoreTypes
<1>2. ASSUME NEW id \in Ids, Given(id)
      PROVE  Given(id)'
  <2>1. edits \in Nat /\ edits' \in Nat /\ (id[1] # "provider" => id[2] \in Nat)
    BY <1>1, BoundsAssumption DEF StoreTypes, Ids
  <2>q. QED
    BY <1>2, <2>1 DEF Given
<1>3. \A r \in Accepted : r.base \in Ids \cup {None}
  <2>1. \A r \in Accepted : r \in Receipts
    BY <1>1 DEF StoreTypes, Accepted
  <2>q. QED
    BY <2>1 DEF Receipts
<1>4. StoreInv'
  <2>1. \A r \in Accepted : r.base # None => Given(r.base)'
    BY <1>1, <1>2, <1>3 DEF StoreInv
  <2>2. \A id \in DOMAIN stored : Given(id)'
    BY <1>1, <1>2 DEF StoreInv, StoreTypes
  <2>3. current # None =>
          current.id \in DOMAIN stored /\ (~GivenTwice(current.id)' => stored[current.id] = current)
    BY <1>1 DEF StoreInv
  <2>q. QED
    BY <1>1, <2>1, <2>2, <2>3 DEF StoreInv
<1>5. EditsAreTraceable'
  BY <1>1 DEF EditsAreTraceable
<1>6. LogLeadsToCurrent'
  BY <1>1 DEF LogLeadsToCurrent, Follows
<1>q. QED
  BY <1>4, <1>5, <1>6

LEMMA RejectedIsKept ==
  ASSUME EditInv, NEW c \in Changes, CountEdit, Source # None,
         PublishRejected(Source, c, Count), UNCHANGED <<candidate, issued, execution>>
  PROVE  StoreTypes' /\ StoreInv' /\ EditsAreTraceable' /\ LogLeadsToCurrent'
<1>1. /\ StoreTypes /\ StoreInv /\ Source \in Documents
  BY DEF EditInv, TypeOK, StoreTypes, Source
<1>2. PICK n \in 1..MaxEdits : n = Count /\ edits' = n /\ edits' >= edits /\ edits' \in 0..MaxEdits
  BY <1>1, BoundsAssumption DEF StoreTypes, CountEdit, Count
<1>3. PICK s \in Documents : s = Source
  BY <1>1
<1> DEFINE rec == Receipt("rejected", s.id, c, n)
           r == EditRecord("rejected", s.id, n)
<1>4. /\ rec \in Receipts /\ rec.status = "rejected" /\ receipts' = Append(receipts, rec)
      /\ s.id # None => r \in Records /\ r.status = "rejected" /\ log' = Append(log, r)
      /\ s.id = None => log' = log
      /\ UNCHANGED <<current, stored>>
  <2>1. Result(n) \in Ids /\ Result(n) \in {"edit"} \X (1..MaxEdits) /\ s.id \in Ids \cup {None}
    BY EditIds DEF Documents
  <2>q. QED
    BY <1>2, <1>3, <2>1 DEF PublishRejected, Receipt, Receipts, EditRecord, Records
<1> HIDE DEF rec, r
<1>5. receipts' \in Seq(Receipts) /\ Accepted' = Accepted
  BY <1>1, <1>4, ReceiptAppended
<1>6. log' \in Seq(Records) /\ Changed' = Changed /\ \A i \in Changed : log'[i] = log[i]
  <2>1. CASE s.id = None
    BY <1>1, <1>4, <2>1 DEF StoreTypes, Changed
  <2>2. CASE s.id # None
    BY <1>1, <1>4, <2>2, RecordAppended
  <2>q. QED
    BY <2>1, <2>2
<1>7. StoreTypes'
  BY <1>1, <1>2, <1>4, <1>5, <1>6 DEF StoreTypes
<1>8. /\ \A id : Issued(id) => Issued(id)'
      /\ \A id : GivenTwice(id) => GivenTwice(id)'
  BY DEF Issued, GivenTwice
<1>9. current = None /\ candidate # None /\ candidate.id # None => Given(candidate.id)'
  <2> SUFFICES ASSUME current = None, candidate # None, candidate.id # None
               PROVE  Given(candidate.id)'
    OBVIOUS
  <2>1. PICK id \in Ids : id = candidate.id
    BY <1>1 DEF StoreTypes, Documents
  <2>2. Given(id) /\ (id[1] # "provider" => id[2] \in Nat) /\ edits \in Nat
    BY <1>1, <2>1, BoundsAssumption DEF StoreInv, StoreTypes, Ids
  <2>3. id[1] # "provider" => id[2] <= edits'
    BY <1>2, <2>2 DEF Given
  <2>4. id[1] = "provider" => Issued(id)'
    BY <1>8, <2>2 DEF Given
  <2>q. QED
    BY <2>1, <2>3, <2>4 DEF Given
<1>q. QED
  BY <1>1, <1>2, <1>4, <1>5, <1>6, <1>7, <1>8, <1>9, NothingAccepted DEF StoreInv

\* A provider's answer becomes current.
LEMMA AnswerIsStored ==
  ASSUME EditInv, execution = "asked", NEW d \in Documents, d.id \in Ids, d.id[1] = "provider",
         current' = d, stored' = Stored(d), issued' = Append(issued, d.id),
         execution' \in {"idle", "stuck"},
         IF execution' = "stuck" THEN log' = log
         ELSE log' = Append(log, [operation |-> "decompose", status |-> "accepted",
                                  base |-> d.id, result |-> d.id]),
         UNCHANGED <<receipts, candidate, edits>>
  PROVE  StoreTypes' /\ StoreInv' /\ EditsAreTraceable' /\ LogLeadsToCurrent'
<1>1. /\ StoreTypes /\ StoreInv /\ EditsAreTraceable /\ LogLeadsToCurrent /\ TypeOK
      /\ d # None
  BY NoneAssumption DEF EditInv, TypeOK, StoreTypes
<1>2. /\ DOMAIN stored' = DOMAIN stored \cup {d.id}
      /\ \A id \in DOMAIN stored : stored'[id] = stored[id]
      /\ d.id \notin DOMAIN stored => stored'[d.id] = d
  BY StoredFacts
<1>3. /\ \A id : Issued(id) => Issued(id)'
      /\ \A id : GivenTwice(id) => GivenTwice(id)'
      /\ Issued(d.id)' /\ (Issued(d.id) => GivenTwice(d.id)')
  BY <1>1, Twice
<1>4. issued' \in Seq(Ids \cup {None}) /\ Len(issued') <= MaxAnswers
  BY <1>1, BoundsAssumption DEF StoreTypes, StoreInv
<1> DEFINE r == [operation |-> "decompose", status |-> "accepted", base |-> d.id, result |-> d.id]
<1>5. r \in Records /\ r.status = "accepted" /\ r.operation = "decompose" /\ r.result = d.id
  BY DEF Records
<1> HIDE DEF r
<1>6. log' = log \/ log' = Append(log, r)
  BY DEF r
<1>7. log' \in Seq(Records)
  BY <1>1, <1>5, <1>6, RecordAppended DEF StoreTypes
<1>8. StoreTypes'
  BY <1>1, <1>2, <1>4, <1>7 DEF StoreTypes
<1>9. Accepted' = Accepted /\ \A q \in Accepted : q.base \in Ids \cup {None}
  <2>1. \A q \in Accepted : q \in Receipts
    BY <1>1 DEF StoreTypes, Accepted
  <2>q. QED
    BY <2>1 DEF Receipts, Accepted
<1>10. \A id \in Ids : Given(id) => Given(id)'
  BY <1>3 DEF Given
<1>11. Given(d.id) => Issued(d.id)
  BY DEF Given
<1>12. Given(d.id)'
  <2>1. PICK x : x = d.id
    OBVIOUS
  <2>q. QED
    BY <1>3 DEF Given
<1>13. StoreInv'
  <2>1. \A id \in DOMAIN stored' : Given(id)'
    BY <1>1, <1>2, <1>10, <1>12 DEF StoreInv, StoreTypes
  <2>2. \A q \in Accepted' : q.base # None => Given(q.base)'
    BY <1>1, <1>9, <1>10 DEF StoreInv
  <2>3. ~GivenTwice(d.id)' => stored'[d.id] = d
    BY <1>1, <1>2, <1>3, <1>11 DEF StoreInv
  <2>q. QED
    BY <1>1, <1>2, <2>1, <2>2, <2>3 DEF StoreInv
<1>14. EditsAreTraceable'
  <2> SUFFICES ASSUME NEW q \in Accepted, q.base # None
               PROVE  /\ q.result \in DOMAIN stored'
                      /\ q.base \in DOMAIN stored' /\ ~GivenTwice(q.base)' =>
                           stored'[q.result] = Patched(stored'[q.base], q.change, q.result[2])
    BY <1>9 DEF EditsAreTraceable
  <2>1. q.base = d.id => Issued(d.id)
    BY <1>1, <1>11 DEF StoreInv
  <2>q. QED
    BY <1>1, <1>2, <1>3, <2>1 DEF EditsAreTraceable
<1>15. LogLeadsToCurrent'
  <2>1. CASE execution' = "stuck"
    BY <2>1 DEF LogLeadsToCurrent
  <2>2. CASE execution' = "idle"
    <3>1. LogChain /\ log' = Append(log, r)
      BY <1>1, <2>2 DEF LogLeadsToCurrent, LogChain, r
    <3>2. LogChain'
      BY <1>1, <1>5, <3>1, ChainGrows
    <3>q. QED
      BY <3>2 DEF LogLeadsToCurrent, LogChain
  <2>q. QED
    BY <2>1, <2>2
<1>q. QED
  BY <1>8, <1>13, <1>14, <1>15

\* A step that leaves the stores alone.
LEMMA StoresAreKept ==
  ASSUME EditInv, UNCHANGED <<stores, issued>>, edits' \in {edits, edits + 1},
         edits' \in 0..MaxEdits, candidate' \in {candidate, None},
         execution' = "asked" => execution = "asked" \/ Len(issued) < MaxAnswers,
         execution = "stuck" => execution' = "stuck"
  PROVE  StoreTypes' /\ StoreInv' /\ EditsAreTraceable' /\ LogLeadsToCurrent'
<1>1. /\ StoreTypes /\ StoreInv /\ UNCHANGED <<current, stored, receipts, log, issued>>
      /\ edits' >= edits
  BY BoundsAssumption DEF EditInv, TypeOK, StoreTypes, stores
<1>2. StoreTypes'
  BY <1>1 DEF StoreTypes
<1>3. /\ Accepted' = Accepted /\ Changed' = Changed /\ \A i \in Changed : log'[i] = log[i]
      /\ \A id : Issued(id) => Issued(id)'
      /\ \A id : GivenTwice(id) => GivenTwice(id)'
  BY <1>1 DEF Accepted, Changed, Issued, GivenTwice
<1>4. current = None /\ candidate' # None /\ candidate'.id # None => Given(candidate.id)'
  <2> SUFFICES ASSUME current = None, candidate' # None, candidate'.id # None
               PROVE  Given(candidate.id)'
    OBVIOUS
  <2>1. PICK id \in Ids : id = candidate.id /\ candidate' = candidate
    BY <1>1 DEF StoreTypes, Documents
  <2>2. Given(id) /\ (id[1] # "provider" => id[2] \in Nat) /\ edits \in Nat
    BY <1>1, <2>1, BoundsAssumption DEF StoreInv, StoreTypes, Ids
  <2>3. id[1] # "provider" => id[2] <= edits'
    BY <1>1, <2>2 DEF Given
  <2>4. id[1] = "provider" => Issued(id)'
    BY <1>3, <2>2 DEF Given
  <2>q. QED
    BY <2>1, <2>3, <2>4 DEF Given
<1>q. QED
  BY <1>1, <1>2, <1>3, <1>4, NothingAccepted DEF StoreInv

----------------------------------------------------------------------------
\* The canvas

\* App's effect shows the new document in every unit that has a text in it.
LEMMA EffectFacts ==
  ASSUME NEW nodes, DOMAIN nodes \subseteq {"root", "child"} \X Unit,
         \A k \in DOMAIN nodes : nodes[k] \in Nodes,
         NEW d \in Documents, Effect(nodes, d), app \in {"unmapped", "mapped", "unmounted"}
  PROVE  /\ DOMAIN shown' = DOMAIN nodes /\ \A k \in DOMAIN nodes : shown'[k] \in Nodes
         /\ app' \in {"unmapped", "mapped", "unmounted"}
         /\ app' = "mapped" => app = "mapped" /\ d.fit # "unreadable"
         /\ app' = "mapped" => \A k \in DOMAIN nodes :
              k[1] = "root" /\ k[2] \in DOMAIN d.units => shown'[k].shows = d.units[k[2]]
<1>1. /\ DOMAIN Refreshed(nodes, d) = DOMAIN nodes
      /\ \A k \in DOMAIN nodes :
           /\ Refreshed(nodes, d)[k] \in Nodes
           /\ k[1] = "root" /\ k[2] \in DOMAIN d.units =>
                Refreshed(nodes, d)[k].shows = d.units[k[2]]
  BY RefreshedFacts
<1>2. shown' \in {nodes, Refreshed(nodes, d)} /\ app' \in {app, "unmounted"}
  BY DEF Effect
<1>3. app' = "mapped" => app = "mapped" /\ d.fit # "unreadable" /\ shown' = Refreshed(nodes, d)
  BY DEF Effect
<1>q. QED
  BY <1>1, <1>2, <1>3

\* A node with another text and badge, or with another badge.
LEMMA NodeOverwritten ==
  ASSUME CanvasTypes, NEW k, NEW shows \in Contents \cup {None},
         NEW edit \in {"none", "requested", "accepted", "rejected"}
  PROVE  LET nodes == [shown EXCEPT ![k].shows = shows, ![k].edit = edit] IN
         DOMAIN nodes = DOMAIN shown /\ \A j \in DOMAIN shown : nodes[j] \in Nodes
BY DEF CanvasTypes, Nodes

LEMMA NodeBadged ==
  ASSUME CanvasTypes, NEW k, NEW edit \in {"none", "requested", "accepted", "rejected"}
  PROVE  /\ DOMAIN Badged(k, edit) = DOMAIN shown
         /\ \A j \in DOMAIN shown :
              /\ Badged(k, edit)[j] \in Nodes
              /\ Badged(k, edit)[j].shows = shown[j].shows
              /\ Badged(k, edit)[j].leaf = shown[j].leaf
BY DEF CanvasTypes, Nodes, Badged

\* The parts of the invariant.
LEMMA Parts ==
  EditInv <=> /\ StoreTypes /\ CanvasTypes /\ StoreInv /\ EditsAreTraceable
              /\ LogLeadsToCurrent /\ CanvasInv
BY DEF EditInv, TypeOK, StoreTypes, CanvasTypes

LEMMA PartsLater ==
  ASSUME StoreTypes' /\ StoreInv' /\ EditsAreTraceable' /\ LogLeadsToCurrent',
         CanvasTypes', CanvasInv'
  PROVE  EditInv'
BY DEF EditInv, TypeOK, StoreTypes, CanvasTypes

----------------------------------------------------------------------------
\* The actions

LEMMA PatchKeeps ==
  ASSUME EditInv, NEW c \in Changes, NEW k \in Targets, Patch(k, c)
  PROVE  EditInv'
<1>1. StoreTypes /\ CanvasTypes /\ StoreInv /\ CanvasInv
  BY Parts
<1>2. Source \in Documents /\ Source # None /\ CountEdit
  BY <1>1 DEF Patch, Source, StoreTypes
<1>3. PICK n \in 1..MaxEdits : n = Count
  BY <1>1, <1>2, BoundsAssumption DEF StoreTypes, CountEdit, Count
<1>4. PICK d : d = Patched(Source, c, n)
  OBVIOUS
<1>5. d \in Documents /\ d.id = IF Source.id = None THEN None ELSE Result(n)
  BY <1>2, <1>4, PatchedIsADocument DEF Patch
<1>6. /\ PublishAccepted(Source, d, c, n)
      /\ candidate' = IF current = None THEN d ELSE candidate
      /\ IF Source.id = None THEN shown' = Overwritten(k) /\ app' = app
         ELSE Effect(Overwritten(k), d)
      /\ UNCHANGED <<issued, execution>>
  BY <1>3, <1>4 DEF Patch
<1>7. StoreTypes' /\ StoreInv' /\ EditsAreTraceable' /\ LogLeadsToCurrent'
  BY <1>2, <1>3, <1>4, <1>5, <1>6, AcceptedIsStored
<1>8. /\ DOMAIN Overwritten(k) = DOMAIN shown
      /\ \A j \in DOMAIN shown : Overwritten(k)[j] \in Nodes
  BY <1>1, NodeOverwritten DEF Overwritten, CanvasTypes
<1>9. CASE Source.id = None
  <2>1. current = None /\ current' = current
    BY <1>1, <1>6, <1>9, NoneAssumption DEF Source, StoreInv, StoreTypes, PublishAccepted
  <2>2. app # "mapped" /\ DOMAIN shown = {} /\ app' = app /\ shown' = Overwritten(k)
    BY <1>1, <1>6, <1>9, <2>1 DEF CanvasInv
  <2>3. CanvasTypes' /\ CanvasInv'
    BY <1>1, <1>6, <1>8, <2>1, <2>2 DEF CanvasTypes, CanvasInv, UnitsShowTheDocument
  <2>q. QED
    BY <1>7, <2>3, PartsLater
<1>10. CASE Source.id # None
  <2>1. current' = d /\ d # None
    BY <1>5, <1>6, <1>10, NoneAssumption DEF PublishAccepted
  <2>2. /\ DOMAIN shown' = DOMAIN shown /\ \A j \in DOMAIN shown : shown'[j] \in Nodes
        /\ app' \in {"unmapped", "mapped", "unmounted"}
        /\ app' = "mapped" => \A j \in DOMAIN shown :
             j[1] = "root" /\ j[2] \in DOMAIN d.units => shown'[j].shows = d.units[j[2]]
    <3>1. Effect(Overwritten(k), d) /\ app \in {"unmapped", "mapped", "unmounted"}
      BY <1>1, <1>6, <1>10 DEF CanvasTypes
    <3>2. DOMAIN Overwritten(k) \subseteq {"root", "child"} \X Unit
      BY <1>1, <1>8 DEF CanvasTypes
    <3> HIDE DEF Overwritten
    <3>q. QED
      BY <1>5, <1>8, <3>1, <3>2, EffectFacts
  <2>3. CanvasTypes' /\ CanvasInv'
    BY <1>1, <1>6, <2>1, <2>2 DEF CanvasTypes, CanvasInv, UnitsShowTheDocument
  <2>q. QED
    BY <1>7, <2>3, PartsLater
<1>q. QED
  BY <1>9, <1>10

LEMMA ReplaceKeeps ==
  ASSUME EditInv, NEW k \in DOMAIN shown, NEW t \in Text, ReplaceUnit(k, t)
  PROVE  EditInv'
<1>1. StoreTypes /\ CanvasTypes /\ StoreInv /\ CanvasInv
  BY Parts
<1>2. /\ current \in Documents /\ current # None /\ Source = current /\ CountEdit
      /\ k[2] \in Unit /\ k[2] \in DOMAIN current.units /\ current.id # None
  BY <1>1, NoneAssumption
     DEF ReplaceUnit, Source, StoreTypes, CanvasInv, CanvasTypes, StoreInv
<1>3. PICK n \in 1..MaxEdits : n = Count
  BY <1>1, <1>2, BoundsAssumption DEF StoreTypes, CountEdit, Count
<1>4. PICK c : c = Replacement(k[2], t)
  OBVIOUS
<1>5. c \in Changes /\ c.op = "replace" /\ c.unit = k[2] /\ c.text = t
  BY <1>2, <1>4 DEF Replacement, Changes
<1>6. PICK d : d = Patched(current, c, n)
  OBVIOUS
<1>7. d \in Documents /\ d.id = Result(n) /\ d # None
  BY <1>2, <1>5, <1>6, PatchedIsADocument, NoneAssumption
<1> DEFINE nodes == [shown EXCEPT ![k].shows = d.units[k[2]], ![k].edit = "accepted"]
<1>8. /\ PublishAccepted(Source, d, c, n) /\ Effect(nodes, d) /\ current' = d
      /\ UNCHANGED <<candidate, issued, execution>>
  BY <1>2, <1>3, <1>4, <1>6 DEF ReplaceUnit, PublishAccepted
<1>9. StoreTypes' /\ StoreInv' /\ EditsAreTraceable' /\ LogLeadsToCurrent'
  BY <1>2, <1>3, <1>5, <1>6, <1>7, <1>8, AcceptedIsStored
<1>10. /\ DOMAIN nodes = DOMAIN shown /\ DOMAIN nodes \subseteq {"root", "child"} \X Unit
       /\ \A j \in DOMAIN shown : nodes[j] \in Nodes
  <2>1. d.units[k[2]] \in Contents
    <3>1. \A u \in DOMAIN d.units : d.units[u] \in Contents
      BY <1>7 DEF Documents, UnitMaps
    <3>2. DOMAIN d.units = DOMAIN current.units
      BY <1>5, <1>6 DEF Patched, Units
    <3>q. QED
      BY <1>2, <3>1, <3>2
  <2>2. PICK shows \in Contents : shows = d.units[k[2]]
    BY <2>1
  <2>3. nodes = [shown EXCEPT ![k].shows = shows, ![k].edit = "accepted"]
    BY <2>2
  <2> HIDE DEF nodes
  <2>q. QED
    BY <1>1, <2>3, NodeOverwritten DEF CanvasTypes
<1> HIDE DEF nodes
<1>11. /\ DOMAIN shown' = DOMAIN shown /\ \A j \in DOMAIN shown : shown'[j] \in Nodes
       /\ app' \in {"unmapped", "mapped", "unmounted"}
       /\ app' = "mapped" => \A j \in DOMAIN shown :
            j[1] = "root" /\ j[2] \in DOMAIN d.units => shown'[j].shows = d.units[j[2]]
  BY <1>1, <1>7, <1>8, <1>10, EffectFacts DEF CanvasTypes
<1>12. CanvasTypes' /\ CanvasInv'
  BY <1>1, <1>7, <1>8, <1>11 DEF CanvasTypes, CanvasInv, UnitsShowTheDocument
<1>q. QED
  BY <1>9, <1>12, PartsLater

LEMMA RejectKeeps ==
  ASSUME EditInv,
         \/ \E c \in Changes : RejectPatch(c)
         \/ \E k \in DOMAIN shown, t \in Text : RejectReplacement(k, t) \/ ReplaceThrows(k, t)
  PROVE  EditInv'
<1>1. StoreTypes /\ CanvasTypes /\ StoreInv /\ CanvasInv
  BY Parts
<1>2. ASSUME NEW c \in Changes, RejectPatch(c)
      PROVE  EditInv'
  <2>1. StoreTypes' /\ StoreInv' /\ EditsAreTraceable' /\ LogLeadsToCurrent'
    BY <1>2, RejectedIsKept DEF RejectPatch
  <2>2. UNCHANGED <<current, shown, execution, app>>
    BY <1>2 DEF RejectPatch, PublishRejected
  <2>3. CanvasTypes' /\ CanvasInv'
    BY <1>1, <2>2 DEF CanvasTypes, CanvasInv, UnitsShowTheDocument
  <2>q. QED
    BY <2>1, <2>3, PartsLater
<1>3. ASSUME NEW k \in DOMAIN shown, NEW edit \in {"requested", "rejected"},
             shown' = Badged(k, edit), UNCHANGED <<current, execution, app>>
      PROVE  CanvasTypes' /\ CanvasInv'
  <2>1. /\ DOMAIN shown' = DOMAIN shown
        /\ \A j \in DOMAIN shown :
             /\ shown'[j] \in Nodes
             /\ shown'[j].shows = shown[j].shows /\ shown'[j].leaf = shown[j].leaf
    BY <1>1, <1>3, NodeBadged
  <2>q. QED
    BY <1>1, <1>3, <2>1 DEF CanvasTypes, CanvasInv, UnitsShowTheDocument
<1>4. ASSUME NEW k \in DOMAIN shown, NEW t \in Text, RejectReplacement(k, t)
      PROVE  EditInv'
  <2>1. /\ Source # None /\ Source = current /\ CountEdit /\ k[2] \in Unit
    BY <1>1, <1>4 DEF RejectReplacement, CanvasInv, CanvasTypes, Source
  <2>2. PICK c \in Changes : c = Replacement(k[2], t)
    BY <2>1 DEF Replacement, Changes
  <2>3. /\ PublishRejected(Source, c, Count) /\ shown' = Badged(k, "rejected")
        /\ UNCHANGED <<candidate, issued, execution, app, current>>
    BY <1>4, <2>1, <2>2 DEF RejectReplacement, PublishRejected
  <2>4. StoreTypes' /\ StoreInv' /\ EditsAreTraceable' /\ LogLeadsToCurrent'
    BY <2>1, <2>2, <2>3, RejectedIsKept
  <2>q. QED
    BY <1>3, <2>3, <2>4, PartsLater
<1>5. ASSUME NEW k \in DOMAIN shown, NEW t \in Text, ReplaceThrows(k, t)
      PROVE  EditInv'
  <2>1. /\ UNCHANGED <<stores, issued, candidate, execution, app>> /\ shown' = Badged(k, "requested")
        /\ edits' = edits + 1 /\ edits' \in 0..MaxEdits
    BY <1>1, <1>5, BoundsAssumption DEF ReplaceThrows, CountEdit, StoreTypes
  <2>2. StoreTypes' /\ StoreInv' /\ EditsAreTraceable' /\ LogLeadsToCurrent'
    BY <2>1, StoresAreKept
  <2>q. QED
    BY <1>3, <2>1, <2>2, PartsLater DEF stores
<1>q. QED
  BY <1>2, <1>4, <1>5

\* The document behind an answer.
LEMMA AnswerKeeps ==
  ASSUME EditInv, NEW d \in Documents, d.id \in Ids, d.id[1] = "provider",
         Answer(d) \/ AnswerThrows(d)
  PROVE  EditInv'
<1>1. CanvasTypes /\ CanvasInv /\ d # None
  BY Parts, NoneAssumption
<1>2. StoreTypes' /\ StoreInv' /\ EditsAreTraceable' /\ LogLeadsToCurrent'
  BY AnswerIsStored DEF Answer, AnswerThrows
<1>3. /\ \A u \in DOMAIN d.units : u \in Unit /\ d.units[u] \in Contents
      /\ Children \subseteq DOMAIN shown /\ \A k \in Children : k[1] = "child"
  BY DEF Documents, UnitMaps, Children
<1>4. CASE Answer(d)
  <2>1. /\ DOMAIN shown' = ({"root"} \X DOMAIN d.units) \cup Children
        /\ \A k \in DOMAIN shown' :
             shown'[k] = IF k \in Children THEN shown[k] ELSE LeafOf(d.units[k[2]])
        /\ current' = d /\ execution' = "idle" /\ app' = "mapped"
    BY <1>4 DEF Answer, Projected
  <2>2. \A u \in DOMAIN d.units :
          LeafOf(d.units[u]) \in Nodes /\ LeafOf(d.units[u]).shows = d.units[u]
    BY <1>3 DEF LeafOf, Nodes
  <2>3. CanvasTypes'
    BY <1>1, <1>3, <2>1, <2>2 DEF CanvasTypes
  <2>4. CanvasInv'
    BY <1>1, <1>3, <2>1, <2>2 DEF CanvasInv, UnitsShowTheDocument
  <2>q. QED
    BY <1>2, <2>3, <2>4, PartsLater
<1>5. CASE AnswerThrows(d)
  <2>1. /\ DOMAIN shown' = Children /\ \A k \in Children : shown'[k] = shown[k]
        /\ current' = d /\ execution' = "stuck" /\ app' \in {"mapped", "unmounted"}
    BY <1>5 DEF AnswerThrows, Kept
  <2>2. CanvasTypes' /\ CanvasInv'
    BY <1>1, <1>3, <2>1 DEF CanvasTypes, CanvasInv, UnitsShowTheDocument
  <2>q. QED
    BY <1>2, <2>2, PartsLater
<1>q. QED
  BY <1>4, <1>5

LEMMA CandidateKeeps ==
  ASSUME EditInv, NEW d \in Documents, d.id # None => d.id[1] = "provider",
         AnswerCandidate(d)
  PROVE  EditInv'
<1>1. /\ TypeOK /\ StoreTypes /\ CanvasTypes /\ StoreInv /\ CanvasInv
      /\ UNCHANGED <<current, stored, receipts, log, shown, edits, app>>
      /\ issued' = Append(issued, d.id) /\ execution = "asked" /\ execution' = "idle"
      /\ candidate' = IF current = None THEN d ELSE candidate
  BY Parts DEF AnswerCandidate, stores, EditInv
<1>2. d.id \in Ids \cup {None}
  BY DEF Documents
<1>3. StoreTypes'
  BY <1>1, <1>2, BoundsAssumption DEF StoreTypes, StoreInv
<1>4. /\ Accepted' = Accepted /\ Changed' = Changed /\ \A i \in Changed : log'[i] = log[i]
      /\ \A id : Issued(id) => Issued(id)'
      /\ \A id : GivenTwice(id) => GivenTwice(id)'
      /\ Issued(d.id)'
  BY <1>1, Twice DEF Accepted, Changed
<1>5. edits \in Nat /\ edits' >= edits
  BY <1>1, BoundsAssumption DEF StoreTypes
<1>6. current = None /\ candidate' # None /\ candidate'.id # None => Given(candidate.id)'
  <2> SUFFICES ASSUME current = None, d.id # None PROVE Given(candidate.id)'
    BY <1>1
  <2>1. candidate' = d
    BY <1>1
  <2>q. QED
    BY <1>4, <2>1 DEF Given
<1>7. StoreInv' /\ EditsAreTraceable' /\ LogLeadsToCurrent'
  BY <1>1, <1>3, <1>4, <1>5, <1>6, NothingAccepted
<1>8. CanvasTypes' /\ CanvasInv'
  BY <1>1 DEF CanvasTypes, CanvasInv, UnitsShowTheDocument
<1>q. QED
  BY <1>3, <1>7, <1>8, PartsLater

\* Execute, a failed answer and a DeFold run are no changes of the document.
LEMMA OthersKeep ==
  ASSUME EditInv,
         \/ Execute \/ AnswerFails
         \/ \E k \in DOMAIN shown, u \in Unit, t \in Text : ShowChild(k, u, t)
  PROVE  EditInv'
<1>1. StoreTypes /\ CanvasTypes /\ StoreInv /\ CanvasInv
  BY Parts
<1>2. /\ UNCHANGED <<stores, issued, edits>> /\ UNCHANGED current /\ candidate' \in {candidate, None}
      /\ execution' = "asked" => execution = "asked" \/ Len(issued) < MaxAnswers
      /\ execution = "stuck" => execution' = "stuck"
  BY DEF Execute, AnswerFails, ShowChild, stores
<1>3. edits' = edits /\ edits' \in 0..MaxEdits
  BY <1>1, <1>2 DEF StoreTypes
<1>4. StoreTypes' /\ StoreInv' /\ EditsAreTraceable' /\ LogLeadsToCurrent'
  BY <1>2, <1>3, StoresAreKept
<1>5. CASE Execute \/ AnswerFails
  <2>1. UNCHANGED <<current, shown, app>> /\ execution' \in {"asked", "idle"}
    BY <1>2, <1>5 DEF Execute, AnswerFails
  <2>2. CanvasTypes' /\ CanvasInv'
    BY <1>1, <2>1 DEF CanvasTypes, CanvasInv, UnitsShowTheDocument
  <2>q. QED
    BY <1>4, <2>2, PartsLater
<1>6. ASSUME NEW k \in DOMAIN shown, NEW u \in Unit, NEW t \in Text, ShowChild(k, u, t)
      PROVE  EditInv'
  <2> DEFINE new == <<"child", u>>
             leaf == LeafOf([text |-> t, rev |-> 1])
             boundary == [leaf |-> FALSE, shows |-> None, edit |-> "none"]
  <2>1. leaf \in Nodes /\ boundary \in Nodes /\ boundary.leaf = FALSE
    BY BoundsAssumption DEF LeafOf, Nodes, Contents
  <2>2. /\ DOMAIN shown' = DOMAIN shown \cup {new}
        /\ shown'[new] = leaf
        /\ \A x \in DOMAIN shown : shown'[x] \in {leaf, boundary, shown[x]}
        /\ \A x \in DOMAIN shown : x # new => shown'[x] \in {boundary, shown[x]}
        /\ new \in {"root", "child"} \X Unit /\ new[1] = "child"
        /\ UNCHANGED <<current, execution, app>>
    BY <1>2, <1>6 DEF ShowChild
  <2> HIDE DEF leaf, boundary, new
  <2>3. CanvasTypes'
    BY <1>1, <2>1, <2>2 DEF CanvasTypes
  <2>4. CanvasInv'
    BY <1>1, <2>1, <2>2 DEF CanvasInv, UnitsShowTheDocument
  <2>q. QED
    BY <1>4, <2>3, <2>4, PartsLater
<1>q. QED
  BY <1>5, <1>6

----------------------------------------------------------------------------
\* The invariant

LEMMA InitHasIt ==
  ASSUME Init
  PROVE  EditInv
<1>1. StoreTypes /\ CanvasTypes
  BY BoundsAssumption DEF Init, StoreTypes, CanvasTypes
<1>2. Accepted = {} /\ Changed = {} /\ DOMAIN stored = {} /\ DOMAIN shown = {}
  BY DEF Init, Accepted, Changed
<1>3. StoreInv /\ CanvasInv
  BY <1>2 DEF Init, StoreInv, CanvasInv, UnitsShowTheDocument
<1>4. EditsAreTraceable /\ LogLeadsToCurrent
  BY <1>2 DEF Init, EditsAreTraceable, LogLeadsToCurrent
<1>q. QED
  BY <1>1, <1>3, <1>4, Parts

LEMMA StepKeeps ==
  ASSUME EditInv, [Next]_vars
  PROVE  EditInv'
<1>1. CASE UNCHANGED vars
  <2>1. UNCHANGED <<current, stored, receipts, log, candidate, shown, edits, issued, execution, app>>
    BY <1>1 DEF vars, stores
  <2>2. StoreTypes /\ CanvasTypes /\ StoreInv /\ CanvasInv
    BY Parts
  <2>3. StoreTypes' /\ StoreInv' /\ EditsAreTraceable' /\ LogLeadsToCurrent'
    BY <2>1, <2>2, StoresAreKept DEF stores, StoreTypes
  <2>4. CanvasTypes' /\ CanvasInv'
    BY <2>1, <2>2 DEF CanvasTypes, CanvasInv, UnitsShowTheDocument
  <2>q. QED
    BY <2>3, <2>4, PartsLater
<1>2. CASE Answers
  <2>1. CASE AnswerFails
    BY <2>1, OthersKeep
  <2>2. ASSUME NEW texts \in TextMaps, NEW i \in 1..(Len(issued) + 1), execution = "asked",
               \/ Answer(AnswerOf(texts, i)) \/ AnswerThrows(AnswerOf(texts, i))
               \/ \E id \in {<<"provider", i>>, None} :
                    AnswerCandidate([AnswerOf(texts, i) EXCEPT !.id = id, !.fit = "loose"])
        PROVE  EditInv'
    <3>1. TypeOK /\ Len(issued) < MaxAnswers
      BY <2>2 DEF EditInv, StoreInv
    <3>2. PICK d : d = AnswerOf(texts, i)
      OBVIOUS
    <3>3. d \in Documents /\ d.id \in Ids /\ d.id[1] = "provider"
      BY <3>1, <3>2, AnswerIsADocument
    <3>4. CASE Answer(AnswerOf(texts, i)) \/ AnswerThrows(AnswerOf(texts, i))
      BY <3>2, <3>3, <3>4, AnswerKeeps
    <3>5. ASSUME NEW id \in {<<"provider", i>>, None},
                 AnswerCandidate([AnswerOf(texts, i) EXCEPT !.id = id, !.fit = "loose"])
          PROVE  EditInv'
      <4>1. PICK e : e = [AnswerOf(texts, i) EXCEPT !.id = id, !.fit = "loose"]
        OBVIOUS
      <4>2. e \in Documents /\ e.id = id
        BY <3>1, <4>1, AnswerIsADocument
      <4>3. e.id # None => e.id[1] = "provider"
        BY <4>2
      <4>q. QED
        BY <3>5, <4>1, <4>2, <4>3, CandidateKeeps
    <3>q. QED
      BY <2>2, <3>4, <3>5
  <2>q. QED
    BY <1>2, <2>1, <2>2 DEF Answers, Answer, AnswerThrows, AnswerCandidate
<1>3. CASE Edits
  BY <1>3, PatchKeeps, ReplaceKeeps, RejectKeeps DEF Edits
<1>q. QED
  BY <1>1, <1>2, <1>3, OthersKeep DEF Next

LEMMA Invariance == Spec => []EditInv
BY InitHasIt, StepKeeps, PTL DEF Spec

\* Documents, receipts, records and nodes keep their types, whatever is patched.
THEOREM Types == Spec => []TypeOK
<1>1. EditInv => TypeOK
  BY DEF EditInv
<1>q. QED
  BY <1>1, Invariance, PTL

\* What an accepted receipt names is stored, and its patch makes it from the revision
\* it names as its base.
THEOREM TheEditsAreTraceable == Spec => []EditsAreTraceable
<1>1. EditInv => EditsAreTraceable
  BY DEF EditInv
<1>q. QED
  BY <1>1, Invariance, PTL

\* The log's changes form a chain that ends at the current document.
THEOREM TheLogLeadsToCurrent == Spec => []LogLeadsToCurrent
<1>1. EditInv => LogLeadsToCurrent
  BY DEF EditInv
<1>q. QED
  BY <1>1, Invariance, PTL

\* Every unit on the canvas shows what the current document says of it.
THEOREM TheUnitsShowTheDocument == Spec => []UnitsShowTheDocument
<1>1. EditInv => UnitsShowTheDocument
  BY DEF EditInv, CanvasInv
<1>q. QED
  BY <1>1, Invariance, PTL
=============================================================================

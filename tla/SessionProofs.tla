----------------------------- MODULE SessionProofs -----------------------------
(***************************************************************************)
(* Proofs about PresentationSession, for any nodes, capabilities, requests *)
(* and decisions in flight.                                                *)
(***************************************************************************)
EXTENDS PresentationSession, TLAPS

Accepted == {d \in pending : d.status = "accepted"}

\* An accepted decision has what its kind needs.
PendingInv ==
  \A d \in Accepted :
    /\ d.kind \in {"node.add", "node.remove", "node.move", "property.change"} => d.node \in Node
    /\ d.kind = "node.add" => d.model \in Models /\ d.model.connected = {}
    /\ d.kind = "property.change" => d.shown.nodes[d.node] \in Models
    /\ d.kind \in {"connection.add", "connection.remove"} => d.edge \in Edges

\* The ids that were given to nodes that are still to come, broken requests
\* included, each to one request.
Promised == {d.node : d \in {p \in pending : p.kind = "node.add"}} \ {None}
Known == used \ Promised

\* Only nodes that have been there can exist, be connected, or be asked for.
KnownInv ==
  /\ \A d \in pending : d.kind = "node.add" /\ d.node # None => d.node \in used
  /\ \A d, e \in pending :
       d.kind = "node.add" /\ e.kind = "node.add" /\ d.node = e.node /\ d.node # None => d = e
  /\ \A n \in Node : Exists(n) => n \in Known
  /\ \A c \in connections : c[1] \in Known /\ c[2] \in Known
  /\ \A d \in Accepted :
       /\ d.kind = "connection.add" => d.edge[1] \in Known /\ d.edge[2] \in Known
       /\ d.kind = "property.change" => d.node \in Known

\* While one caller at a time waits, the decision on its way is about the state
\* as it is.
FreshInv ==
  ~interleaved =>
    /\ \A d, e \in Inflight : d = e
    /\ \A d \in Accepted :
         /\ d.kind = "connection.add" => Connectable(d.edge[1], d.edge[2])
         /\ d.kind = "property.change" => Exists(d.node) /\ d.shown.nodes[d.node] = nodes[d.node]

SessionInv ==
  /\ TypeOK /\ PendingInv /\ KnownInv /\ FreshInv
  /\ ViewIsConsistent /\ ConnectionsAreSound /\ NoDecisionIsLost
----------------------------------------------------------------------------
\* The helpers of session.ts

\* Refreshing the ports changes what they show and nothing else.
LEMMA Refreshed ==
  ASSUME NEW ns \in [Node -> Models \cup {None}], NEW conns
  PROVE  /\ RefreshPorts(ns, conns) \in [Node -> Models \cup {None}]
         /\ \A n \in Node :
              /\ RefreshPorts(ns, conns)[n] = None <=> ns[n] = None
              /\ ns[n] # None =>
                   /\ RefreshPorts(ns, conns)[n].connected = Touched(n, conns)
                   /\ RefreshPorts(ns, conns)[n].cap = ns[n].cap
<1>1. \A n \in Node : Touched(n, conns) \in SUBSET {"in", "out"}
  BY DEF Touched
<1>2. ASSUME NEW n \in Node, ns[n] # None
      PROVE  LET new == [ns[n] EXCEPT !.connected = Touched(n, conns)] IN
             /\ new \in Models /\ new # None /\ new.connected = Touched(n, conns)
             /\ new.cap = ns[n].cap
  <2>1. ns[n] \in Models /\ Touched(n, conns) \in SUBSET {"in", "out"}
    BY <1>1, <1>2
  <2>q. QED
    BY <2>1, NoneAssumption DEF Models
<1>q. QED
  BY <1>2 DEF RefreshPorts

\* A selection that is normalised has only what exists.
LEMMA NormalizedSelection ==
  ASSUME NEW ns \in [Node -> Models \cup {None}], NEW sel \in Selections,
         NEW new \in Normalized(ns, sel)
  PROVE  /\ new \in Selections /\ \A n \in new.ids : ns[n] # None
         /\ IF new.ids = {} THEN new.active = None ELSE new.active \in new.ids
<1> DEFINE ids == Kept(ns, sel)
           actives == IF sel.active \in ids THEN {sel.active}
                      ELSE IF ids = {} THEN {None} ELSE ids
<1>1. ids \in SUBSET Node /\ \A n \in ids : ns[n] # None
  BY DEF Kept, Selections
<1>2. PICK a \in actives : new = [ids |-> ids, active |-> a]
  BY DEF Normalized
<1>3. a \in Node \cup {None} /\ IF ids = {} THEN a = None ELSE a \in ids
  BY <1>1, <1>2
<1> HIDE DEF ids
<1>q. QED
  BY <1>1, <1>2, <1>3 DEF Selections

\* The decision that is settled leaves alone.
LEMMA OneSettled ==
  ASSUME TypeOK, NEW d \in pending
  PROVE  {p \in pending : p.id # d.id} = pending \ {d}
BY DEF TypeOK

----------------------------------------------------------------------------
\* Requests

\* What a request may add to the list.
Asked(d) ==
  /\ d \in Decisions /\ d.id = issued + 1 /\ d.status # "broken"
  /\ IF d.kind = "node.add" /\ d.node # None
       THEN d.node \in Node \ used /\ used' = used \cup {d.node}
       ELSE used' = used
  /\ d.status = "accepted" =>
       /\ d.kind \in {"node.add", "node.remove", "node.move", "property.change"} =>
            d.node \in Node
       /\ d.kind = "node.add" => d.model \in Models /\ d.model.connected = {}
       /\ d.kind \in {"connection.add", "connection.remove"} => d.edge \in Edges
       /\ d.kind = "connection.add" => Connectable(d.edge[1], d.edge[2])
       /\ d.kind = "property.change" => Exists(d.node) /\ d.shown.nodes[d.node] = nodes[d.node]

LEMMA DispatchKeeps ==
  ASSUME SessionInv, NEW d, Asked(d), Dispatch(d)
  PROVE  SessionInv'
<1>1. /\ UNCHANGED <<nodes, connections, layout, selection, decisions, interleaved>>
      /\ pending' = pending \cup {d} /\ issued' = issued + 1 /\ issued < MaxRequests
      /\ interleaved \/ Inflight = {}
  BY DEF Dispatch, Quiet, view
<1>2. TypeOK /\ PendingInv /\ KnownInv /\ FreshInv
  BY DEF SessionInv
<1>3. /\ d \in Decisions /\ d.id = issued + 1 /\ d.status # "broken"
      /\ issued \in Nat /\ used' \subseteq Node
      /\ \A p \in pending : p.id \in 1..issued
  BY <1>2, ConstantsAssumption DEF Asked, TypeOK
<1>4. TypeOK'
  <2>1. pending' \subseteq Decisions /\ issued' \in 0..MaxRequests
    BY <1>1, <1>2, <1>3, ConstantsAssumption DEF TypeOK
  <2>2. \A p, q \in pending' : p.id \in 1..issued' /\ (p.id = q.id => p = q)
    <3> SUFFICES ASSUME NEW p \in pending', NEW q \in pending'
                 PROVE  p.id \in 1..issued' /\ (p.id = q.id => p = q)
      OBVIOUS
    <3>1. \A r \in pending : r.id \in 1..issued /\ r.id # d.id
      BY <1>3
    <3>2. \A r, s \in pending : r.id = s.id => r = s
      BY <1>2 DEF TypeOK
    <3>q. QED
      BY <1>1, <1>3, <3>1, <3>2
  <2>q. QED
    BY <1>1, <1>2, <1>3, <2>1, <2>2 DEF TypeOK
<1>5. Accepted' \subseteq Accepted \cup {d} /\ (d \in Accepted' => d.status = "accepted")
  BY <1>1 DEF Accepted
<1>6. PendingInv'
  <2>1. \A n \in Node : Exists(n) => nodes[n] \in Models
    BY <1>2 DEF TypeOK, Exists
  <2>q. QED
    BY <1>2, <1>5, <2>1 DEF PendingInv, Asked
<1>7. Known' = Known
  <2>1. CASE d.kind = "node.add" /\ d.node # None
    <3>1. Promised' = Promised \cup {d.node}
      BY <1>1, <2>1 DEF Promised
    <3>2. used' = used \cup {d.node} /\ d.node \notin used
      BY <2>1 DEF Asked
    <3>q. QED
      BY <3>1, <3>2 DEF Known
  <2>2. CASE ~(d.kind = "node.add" /\ d.node # None)
    BY <1>1, <2>2 DEF Promised, Known, Asked
  <2>q. QED
    BY <2>1, <2>2
<1>8. KnownInv'
  <2>1. \A e \in pending' : e.kind = "node.add" /\ e.node # None => e.node \in used'
    BY <1>1, <1>2 DEF KnownInv, Asked
  <2>2. \A e, g \in pending' :
          e.kind = "node.add" /\ g.kind = "node.add" /\ e.node = g.node /\ e.node # None => e = g
    <3>1. \A e \in pending : e.kind = "node.add" /\ d.kind = "node.add" /\ d.node # None =>
            e.node # d.node
      BY <1>2 DEF KnownInv, Asked
    <3>2. \A e, g \in pending :
            e.kind = "node.add" /\ g.kind = "node.add" /\ e.node = g.node /\ e.node # None
              => e = g
      BY <1>2 DEF KnownInv
    <3>q. QED
      BY <1>1, <3>1, <3>2
  <2>3. \A n \in Node : Exists(n) => n \in Known
    BY <1>2 DEF KnownInv
  <2>4. ASSUME NEW e \in Accepted'
        PROVE  /\ e.kind = "connection.add" => e.edge[1] \in Known /\ e.edge[2] \in Known
               /\ e.kind = "property.change" => e.node \in Known
    <3>1. CASE e \in Accepted
      BY <1>2, <3>1 DEF KnownInv
    <3>2. CASE e = d /\ d.status = "accepted"
      <4>1. d.kind = "connection.add" =>
              d.edge[1] \in Node /\ d.edge[2] \in Node /\ Exists(d.edge[1]) /\ Exists(d.edge[2])
        BY <3>2 DEF Asked, Connectable, Edges
      <4>2. d.kind = "property.change" => d.node \in Node /\ Exists(d.node)
        BY <3>2 DEF Asked
      <4>q. QED
        BY <2>3, <3>2, <4>1, <4>2
    <3>q. QED
      BY <1>5, <2>4, <3>1, <3>2
  <2>q. QED
    BY <1>1, <1>2, <1>7, <2>1, <2>2, <2>4 DEF KnownInv, Exists
<1>9. FreshInv'
  <2> SUFFICES ASSUME ~interleaved' PROVE FreshInv'
    BY DEF FreshInv
  <2>1. Inflight = {}
    BY <1>1
  <2>2. Inflight' \subseteq {d} /\ Accepted' \subseteq {d}
    BY <1>1, <2>1 DEF Inflight, Accepted
  <2>3. \A e \in Accepted' :
          /\ e.kind = "connection.add" => Connectable(e.edge[1], e.edge[2])'
          /\ e.kind = "property.change" => Exists(e.node)' /\ e.shown.nodes[e.node] = nodes'[e.node]
    BY <1>1, <1>5, <2>2 DEF Asked, Connectable, Exists
  <2>q. QED
    BY <2>2, <2>3 DEF FreshInv
<1>10. ViewIsConsistent' /\ ConnectionsAreSound'
  BY <1>1 DEF SessionInv, ViewIsConsistent, ConnectionsAreSound, Exists
<1>11. NoDecisionIsLost'
  <2>1. 1..issued' \ {p.id : p \in pending'} = 1..issued \ {p.id : p \in pending}
    <3>1. {p.id : p \in pending'} = {p.id : p \in pending} \cup {issued + 1}
      BY <1>1, <1>3
    <3>2. \A i \in Int : i \in 1..issued' /\ i # issued + 1 <=> i \in 1..issued
      BY <1>1, <1>3
    <3>q. QED
      BY <3>1, <3>2
  <2>2. NoDecisionIsLost
    BY DEF SessionInv
  <2>q. QED
    BY <1>1, <2>1, <2>2 DEF NoDecisionIsLost, Connected, Placed, Put, Exists
<1>q. QED
  BY <1>4, <1>6, <1>8, <1>9, <1>10, <1>11 DEF SessionInv

\* Every request asks for something that DispatchKeeps covers.
LEMMA RequestKeeps ==
  ASSUME SessionInv, Request
  PROVE  SessionInv'
<1> DEFINE now == [nodes |-> nodes, connections |-> connections]
<1>1. issued + 1 \in Nat /\ None \notin Node /\ now \in Shown
  BY ConstantsAssumption DEF SessionInv, TypeOK, Shown
<1>2. ASSUME NEW kind \in Kinds, NEW status \in {"rejected", "unresolved"},
             Dispatch(Decision(kind, status)), UNCHANGED used
      PROVE  SessionInv'
  <2>1. Asked(Decision(kind, status))
    BY <1>1, <1>2 DEF Asked, Decision, Decisions, Statuses
  <2>q. QED
    BY <1>2, <2>1, DispatchKeeps
<1>3. ASSUME NEW cap \in Capability, RequestNodeAdd(cap)
      PROVE  SessionInv'
  <2>1. ASSUME NEW n \in Node \ used, used' = used \cup {n},
               Dispatch([Decision("node.add", "accepted") EXCEPT !.node = n,
                           !.model = [cap |-> cap, connected |-> {}]])
        PROVE  SessionInv'
    <3> DEFINE m == [cap |-> cap, connected |-> {}]
               d == [Decision("node.add", "accepted") EXCEPT !.node = n, !.model = m]
    <3>1. m \in Models /\ m.connected = {}
      BY ConstantsAssumption DEF Models
    <3>2. /\ d.id = issued + 1 /\ d.kind = "node.add" /\ d.status = "accepted"
          /\ d.node = n /\ d.model = m
      BY DEF Decision
    <3>3. d \in Decisions
      BY <1>1, <3>1 DEF Decision, Decisions, Kinds, Statuses
    <3>4. Asked(d)
      <4> HIDE DEF m, d
      <4>q. QED
        BY <1>1, <2>1, <3>1, <3>2, <3>3 DEF Asked
    <3>q. QED
      BY <2>1, <3>4, DispatchKeeps
  <2>q. QED
    BY <1>2, <1>3, <2>1 DEF RequestNodeAdd, Kinds
<1>4. ASSUME NEW n \in Node, NEW kind \in {"node.remove", "node.move"}, UNCHANGED used,
             Dispatch([Decision(kind, "accepted") EXCEPT !.node = n])
      PROVE  SessionInv'
  <2>1. Asked([Decision(kind, "accepted") EXCEPT !.node = n])
    BY <1>1, <1>4 DEF Asked, Decision, Decisions, Kinds, Statuses
  <2>q. QED
    BY <1>4, <2>1, DispatchKeeps
<1>5. ASSUME NEW n \in Node, RequestPropertyChange(n)
      PROVE  SessionInv'
  <2>1. CASE Exists(n) /\ Dispatch([Decision("property.change", "accepted") EXCEPT !.node = n])
    <3> DEFINE d == [Decision("property.change", "accepted") EXCEPT !.node = n]
    <3>1. nodes[n] \in Models /\ Exists(n) /\ UNCHANGED used
      BY <1>5, <2>1 DEF RequestPropertyChange, SessionInv, TypeOK, Exists
    <3>2. /\ d.id = issued + 1 /\ d.kind = "property.change" /\ d.status = "accepted"
          /\ d.node = n /\ d.shown.nodes = nodes
      BY DEF Decision
    <3>3. d \in Decisions
      BY <1>1, <3>1 DEF Decision, Decisions, Kinds, Statuses
    <3>4. Asked(d)
      <4> HIDE DEF d
      <4>q. QED
        BY <3>1, <3>2, <3>3 DEF Asked
    <3>q. QED
      BY <2>1, <3>4, DispatchKeeps
  <2>q. QED
    BY <1>2, <1>5, <2>1 DEF RequestPropertyChange, Kinds
<1>6. ASSUME NEW e \in Edges, NEW kind \in {"connection.add", "connection.remove"},
             kind = "connection.add" => Connectable(e[1], e[2]),
             Dispatch([Decision(kind, "accepted") EXCEPT !.edge = e]), UNCHANGED used
      PROVE  SessionInv'
  <2> DEFINE d == [Decision(kind, "accepted") EXCEPT !.edge = e]
  <2>1. d.id = issued + 1 /\ d.kind = kind /\ d.status = "accepted" /\ d.edge = e
    BY DEF Decision
  <2>2. d \in Decisions
    BY <1>1 DEF Decision, Decisions, Kinds, Statuses
  <2>3. Asked(d)
    <3> HIDE DEF d
    <3>q. QED
      BY <1>6, <2>1, <2>2 DEF Asked
  <2>q. QED
    BY <1>6, <2>3, DispatchKeeps
<1>7. ASSUME NEW n \in Node, RequestNodeRemove(n) \/ RequestNodeMove(n)
      PROVE  SessionInv'
  BY <1>2, <1>4, <1>7 DEF RequestNodeRemove, RequestNodeMove, Kinds
<1>8. ASSUME NEW e \in Edges, RequestConnectionAdd(e[1], e[2]) \/ RequestConnectionRemove(e)
      PROVE  SessionInv'
  <2>1. e = <<e[1], e[2]>>
    BY DEF Edges
  <2>2. CASE RequestConnectionAdd(e[1], e[2])
    BY <1>2, <1>6, <2>1, <2>2 DEF RequestConnectionAdd, Kinds
  <2>3. CASE RequestConnectionRemove(e)
    BY <1>2, <1>6, <2>3 DEF RequestConnectionRemove, Kinds
  <2>q. QED
    BY <1>8, <2>2, <2>3
<1>9. CASE RequestPresentationChange
  BY <1>2, <1>9 DEF RequestPresentationChange, Kinds
<1>q. QED
  BY <1>3, <1>5, <1>7, <1>8, <1>9 DEF Request

----------------------------------------------------------------------------
\* Answers

\* What settling a decision does beside applying it.
LEMMA SettleTakesItOff ==
  ASSUME SessionInv, NEW d \in pending, Settle(d)
  PROVE  /\ pending' = pending \ {d} /\ Accepted' \subseteq Accepted
         /\ UNCHANGED <<issued, used, interleaved>>
         /\ Known \subseteq Known'
         /\ d.kind = "node.add" /\ d.node # None => d.node \in Known' \ Known
         /\ PendingInv' /\ FreshInv'
<1>1. pending' = pending \ {d} /\ UNCHANGED <<issued, used, interleaved>>
  BY OneSettled DEF Settle, SessionInv
<1>2. Accepted' \subseteq Accepted /\ Promised' \subseteq Promised
  BY <1>1 DEF Accepted, Promised
<1>3. Known \subseteq Known'
  BY <1>1, <1>2 DEF Known
<1>4. ASSUME d.kind = "node.add", d.node # None
      PROVE  d.node \in Known' \ Known
  <2>1. d.node \in used /\ d.node \in Promised
    BY <1>4 DEF SessionInv, KnownInv, Promised
  <2>2. d.node \notin Promised'
    BY <1>1, <1>4 DEF SessionInv, KnownInv, Promised
  <2>q. QED
    BY <1>1, <2>1, <2>2 DEF Known
<1>5. PendingInv'
  BY <1>2 DEF SessionInv, PendingInv
<1>6. FreshInv'
  <2> SUFFICES ASSUME ~interleaved' PROVE FreshInv'
    BY DEF FreshInv
  <2>1. \A e \in Inflight : e = d
    BY <1>1 DEF SessionInv, FreshInv, Inflight, Settle
  <2>2. Inflight' = {} /\ Accepted' = {}
    BY <1>1, <2>1 DEF Inflight, Accepted
  <2>q. QED
    BY <2>2 DEF FreshInv
<1>q. QED
  BY <1>1, <1>2, <1>3, <1>4, <1>5, <1>6

\* What is left to show when a list of decisions has become shorter.
LEMMA ShorterList ==
  ASSUME SessionInv, pending' \subseteq pending, Accepted' \subseteq Accepted,
         UNCHANGED <<issued, used, interleaved>>, Known \subseteq Known',
         PendingInv', FreshInv', decisions' \in Seq(Entries), NoDecisionIsLost',
         nodes' \in [Node -> Models \cup {None}], connections' \subseteq Edges,
         layout' \subseteq Node, selection' \in Selections,
         \A n \in Node : Exists(n)' => n \in Known',
         \A c \in connections' : c[1] \in Known' /\ c[2] \in Known',
         ViewIsConsistent', ConnectionsAreSound'
  PROVE  SessionInv'
<1>1. TypeOK'
  BY DEF SessionInv, TypeOK
<1>2. KnownInv'
  <2>1. \A d \in Accepted' :
          /\ d.kind = "connection.add" => d.edge[1] \in Known' /\ d.edge[2] \in Known'
          /\ d.kind = "property.change" => d.node \in Known'
    BY DEF SessionInv, KnownInv
  <2>2. \A d \in pending' : d.kind = "node.add" /\ d.node # None => d.node \in used'
    BY DEF SessionInv, KnownInv
  <2>3. \A d, e \in pending' :
          d.kind = "node.add" /\ e.kind = "node.add" /\ d.node = e.node /\ d.node # None => d = e
    BY DEF SessionInv, KnownInv
  <2>q. QED
    BY <2>1, <2>2, <2>3 DEF KnownInv
<1>q. QED
  BY <1>1, <1>2 DEF SessionInv

\* What one more entry does to what a list says.
LEMMA OneMoreEntry ==
  ASSUME NEW list \in Seq(Entries), NEW entry \in Entries
  PROVE  /\ \A e \in Edges : e \in Connected(Append(list, entry)) <=>
              Connects(entry, e) \/ (e \in Connected(list) /\ ~Disconnects(entry, e))
         /\ \A n \in Node : n \in Placed(Append(list, entry)) <=>
              Places(entry, n) \/ (n \in Placed(list) /\ ~Removes(entry, n))
         /\ \A n \in Node : n \in Put(Append(list, entry)) <=>
              Puts(entry, n) \/ (n \in Put(list) /\ ~Removes(entry, n))
<1> DEFINE more == Append(list, entry)
           last == Len(list) + 1
<1>1. /\ Len(more) = last /\ more[last] = entry /\ Len(list) \in Nat
      /\ \A i \in 1..Len(list) : more[i] = list[i]
  OBVIOUS
<1>2. /\ \A i \in Int : i \in 1..last <=> i \in 1..Len(list) \/ i = last
      /\ \A i \in 1..Len(list) : \A j \in Int :
           j \in i + 1..last <=> j \in i + 1..Len(list) \/ j = last
      /\ \A j \in Int : j \notin last + 1..last
      /\ \A i \in 1..Len(list) : \A j \in i + 1..Len(list) : j \in 1..Len(list)
  BY <1>1
<1> HIDE DEF more, last
<1>3. ASSUME NEW e \in Edges
      PROVE  e \in Connected(more) <=>
               Connects(entry, e) \/ (e \in Connected(list) /\ ~Disconnects(entry, e))
  <2>1. ASSUME Connects(entry, e) PROVE e \in Connected(more)
    BY <1>1, <1>2, <2>1 DEF Connected
  <2>2. ASSUME e \in Connected(list), ~Disconnects(entry, e) PROVE e \in Connected(more)
    <3>1. PICK i \in 1..Len(list) :
            Connects(list[i], e) /\ \A j \in i + 1..Len(list) : ~Disconnects(list[j], e)
      BY <2>2 DEF Connected
    <3>2. i \in 1..Len(more) /\ Connects(more[i], e)
      BY <1>1, <1>2, <3>1
    <3>3. \A j \in i + 1..Len(more) : ~Disconnects(more[j], e)
      BY <1>1, <1>2, <2>2, <3>1
    <3>q. QED
      BY <3>2, <3>3 DEF Connected
  <2>3. ASSUME e \in Connected(more), ~Connects(entry, e)
        PROVE  e \in Connected(list) /\ ~Disconnects(entry, e)
    <3>1. PICK i \in 1..Len(more) :
            Connects(more[i], e) /\ \A j \in i + 1..Len(more) : ~Disconnects(more[j], e)
      BY <2>3 DEF Connected
    <3>2. i \in 1..Len(list) /\ Connects(list[i], e)
      BY <1>1, <1>2, <2>3, <3>1
    <3>3. last \in i + 1..Len(more) /\ \A j \in i + 1..Len(list) : j \in i + 1..Len(more)
      BY <1>1, <1>2, <3>2
    <3>4. /\ ~Disconnects(entry, e)
          /\ \A j \in i + 1..Len(list) : ~Disconnects(list[j], e)
      BY <1>1, <1>2, <3>1, <3>2, <3>3
    <3>q. QED
      BY <3>2, <3>4 DEF Connected
  <2>q. QED
    BY <2>1, <2>2, <2>3
<1>4. ASSUME NEW n \in Node
      PROVE  n \in Placed(more) <=>
               Places(entry, n) \/ (n \in Placed(list) /\ ~Removes(entry, n))
  <2>1. ASSUME Places(entry, n) PROVE n \in Placed(more)
    BY <1>1, <1>2, <2>1 DEF Placed
  <2>2. ASSUME n \in Placed(list), ~Removes(entry, n) PROVE n \in Placed(more)
    <3>1. PICK i \in 1..Len(list) :
            Places(list[i], n) /\ \A j \in i + 1..Len(list) : ~Removes(list[j], n)
      BY <2>2 DEF Placed
    <3>2. i \in 1..Len(more) /\ Places(more[i], n)
      BY <1>1, <1>2, <3>1
    <3>3. \A j \in i + 1..Len(more) : ~Removes(more[j], n)
      BY <1>1, <1>2, <2>2, <3>1
    <3>q. QED
      BY <3>2, <3>3 DEF Placed
  <2>3. ASSUME n \in Placed(more), ~Places(entry, n)
        PROVE  n \in Placed(list) /\ ~Removes(entry, n)
    <3>1. PICK i \in 1..Len(more) :
            Places(more[i], n) /\ \A j \in i + 1..Len(more) : ~Removes(more[j], n)
      BY <2>3 DEF Placed
    <3>2. i \in 1..Len(list) /\ Places(list[i], n)
      BY <1>1, <1>2, <2>3, <3>1
    <3>3. last \in i + 1..Len(more) /\ \A j \in i + 1..Len(list) : j \in i + 1..Len(more)
      BY <1>1, <1>2, <3>2
    <3>4. /\ ~Removes(entry, n)
          /\ \A j \in i + 1..Len(list) : ~Removes(list[j], n)
      BY <1>1, <1>2, <3>1, <3>2, <3>3
    <3>q. QED
      BY <3>2, <3>4 DEF Placed
  <2>q. QED
    BY <2>1, <2>2, <2>3
<1>5. ASSUME NEW n \in Node
      PROVE  n \in Put(more) <=> Puts(entry, n) \/ (n \in Put(list) /\ ~Removes(entry, n))
  <2>1. ASSUME Puts(entry, n) PROVE n \in Put(more)
    BY <1>1, <1>2, <2>1 DEF Put
  <2>2. ASSUME n \in Put(list), ~Removes(entry, n) PROVE n \in Put(more)
    <3>1. PICK i \in 1..Len(list) :
            Puts(list[i], n) /\ \A j \in i + 1..Len(list) : ~Removes(list[j], n)
      BY <2>2 DEF Put
    <3>2. i \in 1..Len(more) /\ Puts(more[i], n)
      BY <1>1, <1>2, <3>1
    <3>3. \A j \in i + 1..Len(more) : ~Removes(more[j], n)
      BY <1>1, <1>2, <2>2, <3>1
    <3>q. QED
      BY <3>2, <3>3 DEF Put
  <2>3. ASSUME n \in Put(more), ~Puts(entry, n)
        PROVE  n \in Put(list) /\ ~Removes(entry, n)
    <3>1. PICK i \in 1..Len(more) :
            Puts(more[i], n) /\ \A j \in i + 1..Len(more) : ~Removes(more[j], n)
      BY <2>3 DEF Put
    <3>2. i \in 1..Len(list) /\ Puts(list[i], n)
      BY <1>1, <1>2, <2>3, <3>1
    <3>3. last \in i + 1..Len(more) /\ \A j \in i + 1..Len(list) : j \in i + 1..Len(more)
      BY <1>1, <1>2, <3>2
    <3>4. /\ ~Removes(entry, n)
          /\ \A j \in i + 1..Len(list) : ~Removes(list[j], n)
      BY <1>1, <1>2, <3>1, <3>2, <3>3
    <3>q. QED
      BY <3>2, <3>4 DEF Put
  <2>q. QED
    BY <2>1, <2>2, <2>3
<1>q. QED
  BY <1>3, <1>4, <1>5 DEF more

\* A decision is entered once, and the view goes the way of the list.
LEMMA SettleIsListed ==
  ASSUME SessionInv, NEW d \in pending, Settle(d)
  PROVE  decisions' \in Seq(Entries) /\ NoDecisionIsLost'
<1> DEFINE entry == Entry(d)
<1>1. /\ nodes \in [Node -> Models \cup {None}] /\ connections \in SUBSET Edges
      /\ layout \in SUBSET Node /\ decisions \in Seq(Entries) /\ d \in Decisions
      /\ d.id \in 1..issued /\ NoDecisionIsLost
  BY DEF SessionInv, TypeOK
<1>2. pending' = pending \ {d} /\ issued' = issued /\ decisions' = Append(decisions, entry)
  BY OneSettled DEF Settle, SessionInv
<1>3. /\ entry \in Entries /\ entry.id = d.id /\ entry.kind = d.kind
      /\ entry.status = d.status /\ entry.node = d.node /\ entry.edge = d.edge
  BY <1>1 DEF Entry, Entries, Decisions
<1> HIDE DEF entry
<1>4. decisions' \in Seq(Entries)
  BY <1>1, <1>2, <1>3
<1>5. /\ Len(decisions') = Len(decisions) + 1 /\ decisions'[Len(decisions) + 1] = entry
      /\ \A i \in 1..Len(decisions) : decisions'[i] = decisions[i]
      /\ Len(decisions) \in Nat
  BY <1>1, <1>2, <1>3
<1>6. /\ \A i, j \in 1..Len(decisions') : decisions'[i].id = decisions'[j].id => i = j
      /\ {decisions'[i].id : i \in 1..Len(decisions')} = 1..issued' \ {p.id : p \in pending'}
  <2>1. /\ \A i, j \in 1..Len(decisions) : decisions[i].id = decisions[j].id => i = j
        /\ {decisions[i].id : i \in 1..Len(decisions)} = 1..issued \ {p.id : p \in pending}
    BY <1>1 DEF NoDecisionIsLost
  <2>2. \A i \in 1..Len(decisions) : decisions[i].id # d.id
    BY <2>1
  <2>3. \A i \in 1..Len(decisions') : i \in 1..Len(decisions) \/ i = Len(decisions) + 1
    BY <1>5
  <2>4. \A i \in 1..Len(decisions) : i \in 1..Len(decisions')
    BY <1>5
  <2>5. Len(decisions) + 1 \in 1..Len(decisions')
    BY <1>5
  <2>6. {decisions'[i].id : i \in 1..Len(decisions')}
          = {decisions[i].id : i \in 1..Len(decisions)} \cup {d.id}
    BY <1>3, <1>5, <2>3, <2>4, <2>5
  <2>7. {p.id : p \in pending'} = {p.id : p \in pending} \ {d.id}
    BY <1>2 DEF SessionInv, TypeOK
  <2>8. 1..issued' \ {p.id : p \in pending'}
          = (1..issued \ {p.id : p \in pending}) \cup {d.id}
    BY <1>1, <1>2, <2>7
  <2>q. QED
    BY <1>3, <1>5, <2>1, <2>2, <2>3, <2>6, <2>8
<1>7. /\ \A e \in Edges : e \in Connected(decisions') <=>
           Connects(entry, e) \/ (e \in connections /\ ~Disconnects(entry, e))
      /\ \A n \in Node : n \in Placed(decisions') <=>
           Places(entry, n) \/ (n \in layout /\ ~Removes(entry, n))
      /\ \A n \in Node : n \in Put(decisions') => Puts(entry, n) \/ (Exists(n) /\ ~Removes(entry, n))
  BY <1>1, <1>2, <1>3, OneMoreEntry DEF NoDecisionIsLost
<1>8. Connected(decisions') \subseteq Edges /\ Placed(decisions') \subseteq Node /\ Put(decisions') \subseteq Node
  BY DEF Connected, Placed, Put
<1>9. SUFFICES /\ connections' \in SUBSET Edges /\ layout' \in SUBSET Node
               /\ \A e \in Edges : e \in connections' <=>
                    Connects(entry, e) \/ (e \in connections /\ ~Disconnects(entry, e))
               /\ \A n \in Node : n \in layout' <=>
                    Places(entry, n) \/ (n \in layout /\ ~Removes(entry, n))
               /\ \A n \in Node : Puts(entry, n) \/ (Exists(n) /\ ~Removes(entry, n)) => Exists(n)'
  BY <1>4, <1>6, <1>7, <1>8 DEF NoDecisionIsLost
<1> USE DEF Accepts, Connects, Disconnects, Places, Puts, Removes
<1>10. CASE d.status # "accepted" /\ UNCHANGED view
  BY <1>1, <1>3, <1>10 DEF view, Exists
<1>11. ASSUME d.status = "accepted" PROVE d \in Accepted
  BY <1>11 DEF Accepted
<1>12. CASE d.status = "accepted" /\ d.kind = "node.add" /\ AddNode(d)
  <2>1. d.node \in Node /\ d.model \in Models
    BY <1>11, <1>12 DEF SessionInv, PendingInv
  <2>2. \A n \in Node : Exists(n) \/ n = d.node => Exists(n)'
    BY <1>1, <1>12, <2>1, NoneAssumption DEF AddNode, Upsert, Here, Exists
  <2>q. QED
    BY <1>1, <1>3, <1>12, <2>2 DEF AddNode
<1>13. CASE d.status = "accepted" /\ d.kind = "node.remove" /\ RemoveNode(d)
  <2>1. d.node \in Node
    BY <1>11, <1>13 DEF SessionInv, PendingInv
  <2> DEFINE ns == Upsert(d, None)
  <2>2. ns \in [Node -> Models \cup {None}] /\ \A n \in Node \ {d.node} : ns[n] = nodes[n]
    BY <1>1, <2>1 DEF Upsert, Here
  <2>3. nodes' = RefreshPorts(ns, connections')
    BY <1>13 DEF RemoveNode
  <2> HIDE DEF ns
  <2>4. \A n \in Node \ {d.node} : Exists(n) => Exists(n)'
    BY <2>2, <2>3, Refreshed DEF Exists
  <2>5. /\ connections' = {c \in connections : d.node \notin {c[1], c[2]}}
        /\ layout' = layout \ {d.node}
    BY <1>13 DEF RemoveNode, Here, Owns
  <2>q. QED
    BY <1>1, <1>3, <1>13, <2>4, <2>5
<1>14. CASE d.status = "accepted" /\ d.kind = "node.move" /\ MoveNode(d)
  <2>1. d.node \in Node
    BY <1>11, <1>14 DEF SessionInv, PendingInv
  <2>q. QED
    BY <1>1, <1>3, <1>14, <2>1 DEF MoveNode, Exists
<1>15. CASE d.status = "accepted" /\ d.kind = "property.change" /\ ReplaceNode(d)
  <2>1. d.node \in Node /\ d.shown.nodes[d.node] \in Models
    BY <1>11, <1>15 DEF SessionInv, PendingInv
  <2> DEFINE ns == Upsert(d, d.shown.nodes[d.node])
  <2>2. /\ ns \in [Node -> Models \cup {None}] /\ ns[d.node] # None
        /\ \A n \in Node \ {d.node} : ns[n] = nodes[n]
    BY <1>1, <2>1, NoneAssumption DEF Upsert, Here
  <2>3. nodes' = RefreshPorts(ns, connections) /\ UNCHANGED <<connections, layout>>
    BY <1>15 DEF ReplaceNode
  <2> HIDE DEF ns
  <2>4. \A n \in Node : Exists(n) \/ n = d.node => Exists(n)'
    BY <2>2, <2>3, Refreshed DEF Exists
  <2>q. QED
    BY <1>1, <1>3, <1>15, <2>3, <2>4
<1>16. ASSUME NEW conns, SetConnections(d, conns)
       PROVE  connections' = conns /\ layout' = layout /\ \A n \in Node : Exists(n) => Exists(n)'
  BY <1>1, <1>16, Refreshed DEF SetConnections, Here, Exists
<1>17. CASE d.status = "accepted" /\ d.kind = "connection.add"
              /\ SetConnections(d, Here(d).connections \cup {d.edge})
  <2>1. connections' = connections \cup {d.edge} /\ layout' = layout
        /\ \A n \in Node : Exists(n) => Exists(n)'
    BY <1>16, <1>17 DEF Here
  <2>2. d.edge \in Edges
    BY <1>11, <1>17 DEF SessionInv, PendingInv
  <2>q. QED
    BY <1>1, <1>3, <1>17, <2>1, <2>2
<1>18. CASE d.status = "accepted" /\ d.kind = "connection.remove"
              /\ SetConnections(d, Here(d).connections \ {d.edge})
  <2>1. connections' = connections \ {d.edge} /\ layout' = layout
        /\ \A n \in Node : Exists(n) => Exists(n)'
    BY <1>16, <1>18 DEF Here
  <2>q. QED
    BY <1>1, <1>3, <1>18, <2>1
<1>q. QED
  BY <1>10, <1>12, <1>13, <1>14, <1>15, <1>17, <1>18 DEF Settle, Apply

\* Whatever is settled, it is applied to a state it fits.
LEMMA SettleKeeps ==
  ASSUME SessionInv, NEW d \in pending, Settle(d)
  PROVE  SessionInv'
<1>1. /\ pending' \subseteq pending /\ Accepted' \subseteq Accepted
      /\ UNCHANGED <<issued, used, interleaved>> /\ Known \subseteq Known'
      /\ PendingInv' /\ FreshInv' /\ decisions' \in Seq(Entries) /\ NoDecisionIsLost'
      /\ d.kind = "node.add" /\ d.node # None => d.node \in Known' \ Known
  BY SettleTakesItOff, SettleIsListed
<1>2. /\ nodes \in [Node -> Models \cup {None}] /\ connections \subseteq Edges
      /\ layout \subseteq Node /\ selection \in Selections
  BY DEF SessionInv, TypeOK
<1>3. /\ \A n \in Node : Exists(n) => n \in Known'
      /\ \A c \in connections : c[1] \in Known' /\ c[2] \in Known'
  BY <1>1 DEF SessionInv, KnownInv
<1>4. ViewIsConsistent /\ ConnectionsAreSound
  BY DEF SessionInv
<1>5. ASSUME UNCHANGED <<nodes, connections, selection>>, layout' \subseteq Node
      PROVE  SessionInv'
  <2>1. ViewIsConsistent' /\ ConnectionsAreSound'
    BY <1>1, <1>4, <1>5 DEF ViewIsConsistent, ConnectionsAreSound, Exists
  <2>q. QED
    BY <1>1, <1>2, <1>3, <1>5, <2>1, ShorterList DEF Exists
<1>6. ASSUME NEW conns \in SUBSET Edges, SetConnections(d, conns),
             \A c \in conns : c[1] \in Known' /\ c[2] \in Known',
             ~interleaved =>
               /\ \A c \in conns : Exists(c[1]) /\ Exists(c[2])
               /\ \A c, e \in conns : c[2] = e[2] /\ nodes[c[2]].cap \notin ManyInput => c = e
      PROVE  SessionInv'
  <2>1. /\ connections' = conns /\ nodes' = RefreshPorts(nodes, conns)
        /\ UNCHANGED <<layout, selection>>
    BY <1>6 DEF SetConnections, Here
  <2>2. /\ nodes' \in [Node -> Models \cup {None}]
        /\ \A n \in Node :
             /\ Exists(n)' <=> Exists(n)
             /\ Exists(n) => nodes'[n].connected = Touched(n, conns) /\ nodes'[n].cap = nodes[n].cap
    BY <1>2, <2>1, Refreshed DEF Exists
  <2>3. ViewIsConsistent'
    BY <1>2, <1>4, <2>1, <2>2 DEF ViewIsConsistent, Selections
  <2>4. ConnectionsAreSound'
    BY <1>1, <1>6, <2>1, <2>2 DEF ConnectionsAreSound, Edges
  <2>q. QED
    BY <1>1, <1>2, <1>3, <1>6, <2>1, <2>2, <2>3, <2>4, ShorterList
<1>7. CASE d.status = "accepted" /\ d.kind = "node.add" /\ AddNode(d)
  <2>1. /\ d.node \in Node /\ d.node \in Known' \ Known
        /\ d.model \in Models /\ d.model.connected = {}
    BY <1>1, <1>7, ConstantsAssumption DEF SessionInv, PendingInv, Accepted
  <2>2. /\ nodes' \in [Node -> Models \cup {None}]
        /\ nodes'[d.node] = d.model /\ \A n \in Node \ {d.node} : nodes'[n] = nodes[n]
        /\ UNCHANGED <<connections, layout, selection>>
    BY <1>2, <1>7, <2>1 DEF AddNode, Upsert, Here
  <2>3. /\ \A n \in Node : Exists(n) => n # d.node
        /\ \A c \in connections : c[1] # d.node /\ c[2] # d.node
    BY <2>1 DEF SessionInv, KnownInv
  <2>4. Touched(d.node, connections) = {}
    BY <2>3 DEF Touched
  <2>5. ViewIsConsistent'
    <3>1. \A n \in selection.ids : n \in Node /\ Exists(n) /\ Exists(n)'
      BY <1>2, <1>4, <2>2, <2>3 DEF ViewIsConsistent, Selections, Exists
    <3>2. \A n \in Node : Exists(n)' => nodes'[n].connected = Touched(n, connections)
      BY <1>4, <2>1, <2>2, <2>4 DEF ViewIsConsistent, Exists
    <3>q. QED
      BY <1>4, <2>2, <3>1, <3>2 DEF ViewIsConsistent
  <2>6. ConnectionsAreSound'
    BY <1>1, <1>2, <1>4, <2>2, <2>3 DEF ConnectionsAreSound, Exists, Edges
  <2>7. \A n \in Node : Exists(n)' => n \in Known'
    BY <1>3, <2>1, <2>2 DEF Exists
  <2>q. QED
    BY <1>1, <1>2, <1>3, <2>2, <2>5, <2>6, <2>7, ShorterList
<1>8. CASE d.status = "accepted" /\ d.kind = "node.remove" /\ RemoveNode(d)
  <2> DEFINE ns == Upsert(d, None)
             left == {c \in connections : ~Owns(d.node, c)}
  <2>1. /\ connections' = left /\ nodes' = RefreshPorts(ns, left)
        /\ layout' \subseteq layout /\ selection' \in Normalized(nodes', selection)
    BY <1>8 DEF RemoveNode, Here
  <2>2. /\ d.node \in Node /\ ns \in [Node -> Models \cup {None}]
        /\ ns[d.node] = None /\ \A n \in Node \ {d.node} : ns[n] = nodes[n]
    BY <1>2, <1>8 DEF SessionInv, PendingInv, Accepted, Upsert, Here
  <2>3. left \subseteq connections /\ \A c \in left : c[1] # d.node /\ c[2] # d.node
    BY DEF Owns
  <2> HIDE DEF ns, left
  <2>4. /\ nodes' \in [Node -> Models \cup {None}]
        /\ \A n \in Node :
             /\ Exists(n)' <=> n # d.node /\ Exists(n)
             /\ Exists(n)' => nodes'[n].connected = Touched(n, left) /\ nodes'[n].cap = nodes[n].cap
    BY <2>1, <2>2, Refreshed DEF Exists
  <2>5. /\ selection' \in Selections /\ \A n \in selection'.ids : nodes'[n] # None
        /\ IF selection'.ids = {} THEN selection'.active = None
           ELSE selection'.active \in selection'.ids
    BY <1>2, <2>1, <2>4, NormalizedSelection
  <2>6. ViewIsConsistent'
    BY <2>1, <2>4, <2>5 DEF ViewIsConsistent, Exists
  <2>7. ConnectionsAreSound'
    BY <1>1, <1>2, <1>4, <2>1, <2>3, <2>4 DEF ConnectionsAreSound, Edges
  <2>q. QED
    BY <1>1, <1>2, <1>3, <2>1, <2>3, <2>4, <2>5, <2>6, <2>7, ShorterList
<1>9. CASE d.status = "accepted" /\ d.kind = "property.change" /\ ReplaceNode(d)
  <2> DEFINE model == d.shown.nodes[d.node]
             ns == Upsert(d, model)
  <2>1. /\ d.node \in Node /\ model \in Models /\ d.node \in Known'
        /\ ~interleaved => Exists(d.node) /\ model = nodes[d.node]
    BY <1>1, <1>9 DEF SessionInv, PendingInv, KnownInv, FreshInv, Accepted
  <2>2. /\ nodes' = RefreshPorts(ns, connections) /\ UNCHANGED <<connections, layout, selection>>
        /\ ns \in [Node -> Models \cup {None}] /\ ns[d.node] = model
        /\ \A n \in Node \ {d.node} : ns[n] = nodes[n]
    BY <1>2, <1>9, <2>1 DEF ReplaceNode, Upsert, Here
  <2> HIDE DEF ns, model
  <2>3. /\ nodes' \in [Node -> Models \cup {None}]
        /\ \A n \in Node :
             /\ Exists(n)' <=> n = d.node \/ Exists(n)
             /\ Exists(n)' => nodes'[n].connected = Touched(n, connections)
             /\ Exists(n)' => nodes'[n].cap = ns[n].cap
    BY <2>1, <2>2, Refreshed, NoneAssumption DEF Exists
  <2>4. ViewIsConsistent'
    BY <1>2, <1>4, <2>2, <2>3 DEF ViewIsConsistent, Selections
  <2>5. ConnectionsAreSound'
    <3>1. ~interleaved => \A n \in Node : Exists(n) => nodes'[n].cap = nodes[n].cap
      BY <2>1, <2>2, <2>3
    <3>q. QED
      BY <1>1, <1>2, <1>4, <2>2, <2>3, <3>1 DEF ConnectionsAreSound, Edges
  <2>q. QED
    BY <1>1, <1>2, <1>3, <2>1, <2>2, <2>3, <2>4, <2>5, ShorterList
<1>10. CASE d.status = "accepted" /\ d.kind = "node.move" /\ MoveNode(d)
  <2>1. d.node \in Node
    BY <1>10 DEF SessionInv, PendingInv, Accepted
  <2>q. QED
    BY <1>2, <1>5, <1>10, <2>1 DEF MoveNode
<1>11. CASE d.status = "accepted" /\ d.kind = "connection.add"
              /\ SetConnections(d, Here(d).connections \cup {d.edge})
  <2>1. /\ d.edge \in Edges /\ d.edge[1] \in Known' /\ d.edge[2] \in Known'
        /\ ~interleaved => Connectable(d.edge[1], d.edge[2])
    BY <1>1, <1>11 DEF SessionInv, PendingInv, KnownInv, FreshInv, Accepted
  <2> DEFINE conns == connections \cup {d.edge}
  <2>2. ~interleaved =>
          /\ \A c \in conns : Exists(c[1]) /\ Exists(c[2])
          /\ \A c, e \in conns : c[2] = e[2] /\ nodes[c[2]].cap \notin ManyInput => c = e
    BY <1>4, <2>1 DEF ConnectionsAreSound, Connectable
  <2>3. conns \in SUBSET Edges /\ \A c \in conns : c[1] \in Known' /\ c[2] \in Known'
    BY <1>2, <1>3, <2>1
  <2>q. QED
    BY <1>6, <1>11, <2>2, <2>3 DEF Here
<1>12. CASE d.status = "accepted" /\ d.kind = "connection.remove"
              /\ SetConnections(d, Here(d).connections \ {d.edge})
  <2> DEFINE conns == connections \ {d.edge}
  <2>1. conns \in SUBSET Edges /\ \A c \in conns : c[1] \in Known' /\ c[2] \in Known'
    BY <1>2, <1>3
  <2>2. ~interleaved =>
          /\ \A c \in conns : Exists(c[1]) /\ Exists(c[2])
          /\ \A c, e \in conns : c[2] = e[2] /\ nodes[c[2]].cap \notin ManyInput => c = e
    BY <1>4 DEF ConnectionsAreSound
  <2>q. QED
    BY <1>6, <1>12, <2>1, <2>2 DEF Here
<1>13. CASE UNCHANGED view
  BY <1>2, <1>5, <1>13 DEF view
<1>q. QED
  BY <1>7, <1>8, <1>9, <1>10, <1>11, <1>12, <1>13 DEF Settle, Apply

\* A request whose port breaks stays on the list and is applied never.
LEMMA PortBreaksKeeps ==
  ASSUME SessionInv, NEW d \in pending, PortBreaks(d)
  PROVE  SessionInv'
<1> DEFINE broken == [d EXCEPT !.status = "broken", !.edge = None, !.model = None, !.shown = None]
<1>1. /\ pending' = (pending \ {d}) \cup {broken}
      /\ UNCHANGED <<nodes, connections, layout, selection, decisions, issued, used, interleaved>>
  BY DEF PortBreaks, view
<1>2. /\ broken \in Decisions /\ broken.status = "broken"
      /\ broken.id = d.id /\ broken.kind = d.kind /\ broken.node = d.node
  BY DEF SessionInv, TypeOK, Decisions, Statuses
<1> HIDE DEF broken
<1>3. Accepted' \subseteq Accepted /\ Inflight' \subseteq Inflight
  BY <1>1, <1>2 DEF Accepted, Inflight
<1>4. Known' = Known
  BY <1>1, <1>2 DEF Known, Promised
<1>5. TypeOK'
  <2>1. pending' \subseteq Decisions
    BY <1>1, <1>2 DEF SessionInv, TypeOK
  <2>2. \A p, q \in pending' : p.id \in 1..issued' /\ (p.id = q.id => p = q)
    <3>1. \A p, q \in pending : p.id \in 1..issued /\ (p.id = q.id => p = q)
      BY DEF SessionInv, TypeOK
    <3>2. \A p \in pending \ {d} : p.id # d.id
      BY <3>1
    <3>q. QED
      BY <1>1, <1>2, <3>1, <3>2
  <2>q. QED
    BY <1>1, <2>1, <2>2 DEF SessionInv, TypeOK
<1>6. PendingInv' /\ FreshInv'
  BY <1>1, <1>3 DEF SessionInv, PendingInv, FreshInv, Connectable, Exists
<1>7. KnownInv'
  <2>1. \A p \in pending' : p.kind = "node.add" /\ p.node # None => p.node \in used'
    BY <1>1, <1>2 DEF SessionInv, KnownInv
  <2>2. \A p, q \in pending' :
          p.kind = "node.add" /\ q.kind = "node.add" /\ p.node = q.node /\ p.node # None => p = q
    <3>1. \A p, q \in pending :
            p.kind = "node.add" /\ q.kind = "node.add" /\ p.node = q.node /\ p.node # None
              => p = q
      BY DEF SessionInv, KnownInv
    <3>q. QED
      BY <1>1, <1>2, <3>1
  <2>q. QED
    BY <1>1, <1>3, <1>4, <2>1, <2>2 DEF SessionInv, KnownInv, Exists
<1>8. ViewIsConsistent' /\ ConnectionsAreSound'
  BY <1>1 DEF SessionInv, ViewIsConsistent, ConnectionsAreSound, Exists
<1>9. NoDecisionIsLost'
  <2>1. {p.id : p \in pending'} = {p.id : p \in pending}
    BY <1>1, <1>2
  <2>2. 1..issued' \ {p.id : p \in pending'} = 1..issued \ {p.id : p \in pending}
    BY <1>1, <2>1
  <2>3. NoDecisionIsLost
    BY DEF SessionInv
  <2>q. QED
    BY <1>1, <2>2, <2>3 DEF NoDecisionIsLost, Connected, Placed, Put, Exists
<1>q. QED
  BY <1>5, <1>6, <1>7, <1>8, <1>9 DEF SessionInv

----------------------------------------------------------------------------
\* Events that ask the port nothing

LEMMA SelectKeeps ==
  ASSUME SessionInv, NEW sel \in Selections, Select(sel)
  PROVE  SessionInv'
<1>1. /\ UNCHANGED <<nodes, connections, layout, pending, decisions, issued, used, interleaved>>
      /\ selection' \in Normalized(nodes, sel)
  BY DEF Select
<1>2. /\ selection' \in Selections /\ \A n \in selection'.ids : Exists(n)
      /\ IF selection'.ids = {} THEN selection'.active = None
         ELSE selection'.active \in selection'.ids
  BY <1>1, NormalizedSelection DEF SessionInv, TypeOK, Exists
<1>3. Accepted' = Accepted /\ Known' = Known /\ Inflight' = Inflight
  BY <1>1 DEF Accepted, Known, Promised, Inflight
<1>4. TypeOK'
  BY <1>1, <1>2 DEF SessionInv, TypeOK
<1>5. PendingInv' /\ KnownInv' /\ FreshInv'
  BY <1>1, <1>3 DEF SessionInv, PendingInv, KnownInv, FreshInv, Connectable, Exists
<1>6. ViewIsConsistent' /\ ConnectionsAreSound' /\ NoDecisionIsLost'
  BY <1>1, <1>2 DEF SessionInv, ViewIsConsistent, ConnectionsAreSound, NoDecisionIsLost,
       Connected, Placed, Put, Exists
<1>q. QED
  BY <1>4, <1>5, <1>6 DEF SessionInv

LEMMA EngineKeeps ==
  ASSUME SessionInv, NEW n \in Node, NEW cap \in Capability, EngineNodeChanged(n, cap)
  PROVE  SessionInv'
<1> DEFINE m == [cap |-> cap, connected |-> {}]
           ns == [nodes EXCEPT ![n] = m]
<1>1. /\ nodes' = RefreshPorts(ns, connections) /\ used' = used \cup {n}
      /\ UNCHANGED <<connections, layout, selection, pending, decisions, issued, interleaved>>
      /\ Exists(n) => cap = nodes[n].cap
      /\ \A p \in pending : p.kind = "node.add" => p.node # n
      /\ interleaved \/ Inflight = {}
  BY DEF EngineNodeChanged, Quiet
<1>2. /\ m \in Models /\ m.cap = cap /\ ns \in [Node -> Models \cup {None}]
      /\ ns[n] = m /\ \A o \in Node \ {n} : ns[o] = nodes[o]
  BY DEF Models, SessionInv, TypeOK
<1> HIDE DEF m, ns
<1>3. /\ nodes' \in [Node -> Models \cup {None}]
      /\ \A o \in Node :
           /\ Exists(o)' <=> o = n \/ Exists(o)
           /\ Exists(o)' => nodes'[o].connected = Touched(o, connections)
           /\ Exists(o) => nodes'[o].cap = nodes[o].cap
  BY <1>1, <1>2, Refreshed, NoneAssumption DEF Exists
<1>4. Promised' = Promised /\ n \notin Promised
  BY <1>1 DEF Promised
<1>5. Known' = Known \cup {n} /\ Accepted' = Accepted /\ Inflight' = Inflight
  BY <1>1, <1>4 DEF Known, Accepted, Inflight
<1>6. TypeOK' /\ PendingInv'
  BY <1>1, <1>3, <1>5 DEF SessionInv, TypeOK, PendingInv
<1>7. KnownInv'
  <2>1. \A o \in Node : Exists(o)' => o \in Known'
    BY <1>3, <1>5 DEF SessionInv, KnownInv
  <2>q. QED
    BY <1>1, <1>5, <2>1 DEF SessionInv, KnownInv
<1>8. FreshInv'
  <2>1. ~interleaved' => Inflight' = {} /\ Accepted' = {}
    BY <1>1, <1>5 DEF Inflight, Accepted
  <2>q. QED
    BY <2>1 DEF FreshInv
<1>9. ViewIsConsistent'
  BY <1>1, <1>3 DEF SessionInv, TypeOK, ViewIsConsistent, Selections
<1>10. ConnectionsAreSound'
  BY <1>1, <1>3 DEF SessionInv, TypeOK, ConnectionsAreSound, Edges
<1>11. NoDecisionIsLost'
  <2>1. \A o \in Put(decisions) : Exists(o)'
    BY <1>3 DEF SessionInv, NoDecisionIsLost, Put
  <2>q. QED
    BY <1>1, <2>1 DEF SessionInv, NoDecisionIsLost, Connected, Placed, Put
<1>q. QED
  BY <1>6, <1>7, <1>8, <1>9, <1>10, <1>11 DEF SessionInv

----------------------------------------------------------------------------
\* The invariant

LEMMA InitHasIt ==
  ASSUME Init
  PROVE  SessionInv
<1>1. TypeOK
  BY ConstantsAssumption DEF Init, TypeOK, Selections
<1>2. PendingInv /\ KnownInv /\ FreshInv
  BY DEF Init, PendingInv, KnownInv, FreshInv, Accepted, Inflight, Exists
<1>3. ViewIsConsistent /\ ConnectionsAreSound
  BY DEF Init, ViewIsConsistent, ConnectionsAreSound, Exists
<1>4. NoDecisionIsLost
  BY DEF Init, NoDecisionIsLost, Connected, Placed, Put
<1>q. QED
  BY <1>1, <1>2, <1>3, <1>4 DEF SessionInv

LEMMA StepKeeps ==
  ASSUME SessionInv, [Next]_vars
  PROVE  SessionInv'
<1>1. CASE UNCHANGED vars
  <2>1. /\ UNCHANGED <<nodes, connections, layout, selection, pending, decisions, issued, used,
                      interleaved>>
        /\ Known' = Known /\ Accepted' = Accepted /\ Inflight' = Inflight
    BY <1>1 DEF vars, view, Known, Promised, Accepted, Inflight
  <2>2. TypeOK' /\ PendingInv' /\ KnownInv' /\ FreshInv'
    BY <2>1 DEF SessionInv, TypeOK, PendingInv, KnownInv, FreshInv, Connectable, Exists
  <2>3. ViewIsConsistent' /\ ConnectionsAreSound' /\ NoDecisionIsLost'
    BY <2>1 DEF SessionInv, ViewIsConsistent, ConnectionsAreSound, NoDecisionIsLost,
         Connected, Placed, Put, Exists
  <2>q. QED
    BY <2>2, <2>3 DEF SessionInv
<1>2. CASE Request
  BY <1>2, RequestKeeps
<1>3. CASE Answer
  BY <1>3, SettleKeeps, PortBreaksKeeps DEF Answer
<1>4. CASE Event
  BY <1>4, SelectKeeps, EngineKeeps DEF Event
<1>q. QED
  BY <1>1, <1>2, <1>3, <1>4 DEF Next

LEMMA Invariance == Spec => []SessionInv
BY InitHasIt, StepKeeps, PTL DEF Spec

\* Every variable of the session keeps its type, and no two requests on the
\* list share an id.
THEOREM Types == Spec => []TypeOK
<1>1. SessionInv => TypeOK
  BY DEF SessionInv
<1>q. QED
  BY <1>1, Invariance, PTL

\* Whatever comes between a decision and its application, only what exists is
\* selected and a port is shown connected exactly while it is.
THEOREM TheViewIsConsistent == Spec => []ViewIsConsistent
<1>1. SessionInv => ViewIsConsistent
  BY DEF SessionInv
<1>q. QED
  BY <1>1, Invariance, PTL

\* While one caller at a time waits for its decision, no connection ends at a
\* node that is gone and a single input has at most one.
THEOREM TheConnectionsAreSound == Spec => []ConnectionsAreSound
<1>1. SessionInv => ConnectionsAreSound
  BY DEF SessionInv
<1>q. QED
  BY <1>1, Invariance, PTL

\* However late and in whatever order decisions arrive, from callers that wait or
\* do not, none undoes another: each request is pending or listed, once, and the
\* view is what the list says.
THEOREM NoneIsLost == Spec => []NoDecisionIsLost
<1>1. SessionInv => NoDecisionIsLost
  BY DEF SessionInv
<1>q. QED
  BY <1>1, Invariance, PTL

----------------------------------------------------------------------------
\* What a step may never do

\* Settling is the only step after which a node is gone.
LEMMA OnlyRemovalRemoves ==
  ASSUME SessionInv, [Next]_vars, NEW n \in Node, Exists(n), ~Exists(n)'
  PROVE  \E d \in pending : d.node = n /\ RemoveNode(d)
<1>1. /\ nodes \in [Node -> Models \cup {None}] /\ nodes' # nodes
  BY DEF SessionInv, TypeOK, Exists
<1>2. \A ns \in [Node -> Models \cup {None}] : \A conns :
        ns[n] # None => RefreshPorts(ns, conns)[n] # None
  BY Refreshed
<1>3. ~Request
  BY <1>1 DEF Request, RequestNodeAdd, RequestNodeRemove, RequestNodeMove,
       RequestPropertyChange, RequestConnectionAdd, RequestConnectionRemove,
       RequestPresentationChange, Dispatch, view
<1>4. ~Event
  <2>1. ASSUME NEW o \in Node, NEW cap \in Capability, EngineNodeChanged(o, cap)
        PROVE  FALSE
    <3> DEFINE ns == [nodes EXCEPT ![o] = [cap |-> cap, connected |-> {}]]
    <3>1. ns \in [Node -> Models \cup {None}] /\ ns[n] # None
      BY <1>1, NoneAssumption DEF Models, Exists
    <3>q. QED
      BY <1>2, <2>1, <3>1 DEF EngineNodeChanged, Exists
  <2>q. QED
    BY <1>1, <2>1 DEF Event, Select
<1>5. PICK d \in pending : Settle(d)
  BY <1>1, <1>3, <1>4 DEF Next, Answer, PortBreaks, vars, view
<1>6. d.status = "accepted" => d \in Accepted
  BY DEF Accepted
<1>7. ~(/\ d.status = "accepted"
        /\ \/ d.kind = "node.add" /\ AddNode(d)
           \/ d.kind = "property.change" /\ ReplaceNode(d))
  <2> SUFFICES ASSUME d.status = "accepted",
                      \/ d.kind = "node.add" /\ AddNode(d)
                      \/ d.kind = "property.change" /\ ReplaceNode(d)
               PROVE  FALSE
    OBVIOUS
  <2>1. PICK model \in Models :
          \/ nodes' = Upsert(d, model)
          \/ nodes' = RefreshPorts(Upsert(d, model), connections)
    <3>1. CASE d.kind = "node.add" /\ AddNode(d)
      BY <1>6, <3>1 DEF SessionInv, PendingInv, AddNode
    <3>2. CASE d.kind = "property.change" /\ ReplaceNode(d)
      BY <1>6, <3>2 DEF SessionInv, PendingInv, ReplaceNode
    <3>q. QED
      BY <3>1, <3>2
  <2>2. d.node \in Node
    BY <1>6 DEF SessionInv, PendingInv
  <2>3. Upsert(d, model) \in [Node -> Models \cup {None}] /\ Upsert(d, model)[n] # None
    BY <1>1, <2>2, NoneAssumption DEF Upsert, Here, Exists
  <2>q. QED
    BY <1>1, <1>2, <2>1, <2>3 DEF Exists
<1>8. \A conns : ~SetConnections(d, conns)
  BY <1>1, <1>2 DEF SetConnections, Here, Exists
<1>9. d.status = "accepted" /\ d.kind = "node.remove" /\ RemoveNode(d)
  BY <1>1, <1>5, <1>7, <1>8 DEF Settle, Apply, MoveNode, view
<1>10. d.node = n
  <2> SUFFICES ASSUME d.node # n PROVE FALSE
    OBVIOUS
  <2> DEFINE ns == Upsert(d, None)
  <2>1. ns \in [Node -> Models \cup {None}] /\ ns[n] # None
    BY <1>1 DEF Upsert, Here, Exists
  <2>q. QED
    BY <1>2, <1>9, <2>1 DEF RemoveNode, Exists
<1>q. QED
  BY <1>9, <1>10

\* A node that is removed takes its connections, its position and its place in
\* the selection with it.
THEOREM RemovalTakesAll == Spec => RemovalIsComplete
<1>1. ASSUME SessionInv, [Next]_vars
      PROVE  [\A n \in Node : Exists(n) /\ ~Exists(n)' =>
                /\ \A c \in connections' : n \notin {c[1], c[2]}
                /\ n \notin layout' \cup selection'.ids]_vars
  <2> SUFFICES ASSUME NEW n \in Node, Exists(n), ~Exists(n)'
               PROVE  /\ \A c \in connections' : n \notin {c[1], c[2]}
                      /\ n \notin layout' \cup selection'.ids
    OBVIOUS
  <2>1. PICK d \in pending : d.node = n /\ RemoveNode(d)
    BY <1>1, OnlyRemovalRemoves
  <2>2. /\ \A c \in connections' : n \notin {c[1], c[2]}
        /\ n \notin layout'
    BY <2>1 DEF RemoveNode, Owns
  <2>3. ViewIsConsistent'
    BY <1>1, StepKeeps DEF SessionInv
  <2>4. n \notin selection'.ids
    BY <2>3 DEF ViewIsConsistent
  <2>q. QED
    BY <2>2, <2>4
<1>q. QED
  BY <1>1, Invariance, PTL DEF Spec, RemovalIsComplete

=============================================================================

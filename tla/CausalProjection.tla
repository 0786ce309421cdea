--------------------------- MODULE CausalProjection ---------------------------
(***************************************************************************)
(* Which units a result is read from: reprojectWithAccessMap (playground   *)
(* host/causal-projection.ts) and reprojectFoldGraph (core                 *)
(* fold-reprojection.ts), on units that are sorted and have distinct       *)
(* references.                                                             *)
(*                                                                         *)
(* facts maps the numbers of the units an extractor found a fact in to     *)
(* "met" or "unmet" (at least the threshold of the gate or below it) or to *)
(* "elsewhere" (not at the path the gate looks at).  A gate is             *)
(* [source, active, fallback], numbers of units.                           *)
(***************************************************************************)
EXTENDS Integers, Sequences, FiniteSets, Functions

\* The access map numbers units by their place in the sorted list ...
Numbered(units, n) == n + 1 \in DOMAIN units
RefAt(units, n) == units[n + 1].ref
RefsAt(units, numbers) == {RefAt(units, n) : n \in numbers}

\* Gates and units that are left out leave their place empty.
Applicable(gates, facts) == RestrictValues(gates, LAMBDA g : g.source \in DOMAIN facts)

\* An extractor or an applicable gate that names no unit throws.
NamesUnits(units, gates, facts) ==
  /\ \A n \in DOMAIN facts : Numbered(units, n)
  /\ \A i \in DOMAIN Applicable(gates, facts) :
       LET g == Applicable(gates, facts)[i] IN
       \A n \in {g.source} \cup g.active \cup g.fallback : Numbered(units, n)

\* ... but facts and gates are put to the unit of that order.
FactOf(unit, facts) ==
  IF unit.order[1] \in DOMAIN facts THEN facts[unit.order[1]] ELSE "elsewhere"

\* The last gate that names an order wins.
GatesOf(unit, gates) ==
  {i \in DOMAIN gates : unit.order[1] \in gates[i].active \cup gates[i].fallback}

\* evaluateGate.  The mutant takes what it does not know for "not met".
VerdictOfUnknown(units, gate, facts) ==
  LET fact == FactOf(units[gate.source + 1], facts) IN
  CASE fact = "met" -> [recompose |-> FALSE, chosen |-> RefsAt(units, gate.active)]
    [] OTHER        -> [recompose |-> FALSE, chosen |-> RefsAt(units, gate.fallback)]
Verdict(units, gate, facts) ==
  LET fact == FactOf(units[gate.source + 1], facts) IN
  CASE fact = "met" -> [recompose |-> FALSE, chosen |-> RefsAt(units, gate.active)]
    [] fact = "unmet" /\ gate.fallback # {} ->
         [recompose |-> FALSE, chosen |-> RefsAt(units, gate.fallback)]
    [] OTHER -> [recompose |-> TRUE, chosen |-> {}]

\* reprojectFoldGraph: the units that are read, in order; none while a gate asks
\* for another composition.  Without a gate that applies there is no reprojection
\* and the result pane takes the units as the document has them (listed).
Shows(unit, units, gates, facts) ==
  LET named == GatesOf(unit, gates)
      last == CHOOSE i \in named : \A j \in named : j <= i
  IN  named # {} => unit.ref \in Verdict(units, gates[last], facts).chosen

Reprojection(units, listed, gates, facts) ==
  LET asked == Applicable(gates, facts)
      stale == \E i \in DOMAIN asked : Verdict(units, asked[i], facts).recompose
      shown == RestrictValues(units, LAMBDA u : Shows(u, units, asked, facts))
      read == IF asked = <<>> THEN listed ELSE IF stale THEN <<>> ELSE shown
  IN  [stale |-> stale, text |-> [k \in DOMAIN read |-> read[k].ref]]
==============================================================================

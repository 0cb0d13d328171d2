------------------------- MODULE DetectorFormation -------------------------
(***************************************************************************)
(* How the raw measurements of a finite circuit become detection events:   *)
(* the round every measurement arrives in, the table of recipes read off   *)
(* the circuit, and the former that turns one packet after the other into  *)
(* events from a ring of the last packets.  A circuit is a sequence of     *)
(* items [op, n, back, layer]: "M" takes n records; "D" is a detector on   *)
(* the records counted back from there, at a time layer; "O" an            *)
(* observable.  Records are numbered from 1.  A source is a circuit with   *)
(* its noiseless reference, and the rounds of its measurements and of its  *)
(* detectors when they are declared (else <<>>).                           *)
(***************************************************************************)
EXTENDS WindowPlans, Functions

Taken(circuit) ==
  LET taken[i \in 0 .. Len(circuit)] ==
        IF i = 0 THEN 0
        ELSE taken[i - 1] + IF circuit[i].op = "M" THEN circuit[i].n ELSE 0
  IN  taken
Items(circuit, op) == SelectSeq([i \in DOMAIN circuit |-> i], LAMBDA i : circuit[i].op = op)

(* Measurements wait for the next detector, which announces their round.   *)
Announcers(circuit) ==
  {i \in DOMAIN circuit :
     circuit[i].op = "D" /\ \E j \in 1 .. i - 1 : /\ circuit[j].op = "M"
                                                  /\ \A x \in j + 1 .. i - 1 : circuit[x].op # "D"}
Announced(circuit, i) == circuit[i].layer + 1

(* The data readout, announced one round late or not at all, is folded     *)
(* into the last round.                                                    *)
MeasurementRounds(s, n) ==
  LET taken == Taken(s.circuit)
      Closing(m) == {i \in Announcers(s.circuit) : taken[i] >= m}
  IN  IF s.declared # <<>> THEN s.declared
      ELSE [m \in 1 .. taken[Len(s.circuit)] |->
              IF Closing(m) = {} THEN n ELSE Least(Announced(s.circuit, Min(Closing(m))), n)]

DetectorRounds(s, n) ==
  LET d == Items(s.circuit, "D")
  IN  IF s.map # <<>> THEN s.map ELSE [x \in DOMAIN d |-> Least(s.circuit[d[x]].layer + 1, n)]

(* A measurement's address: its round and its slot in the round's packet.  *)
Addresses(rounds) ==
  [m \in DOMAIN rounds |-> <<rounds[m], Cardinality({x \in 1 .. m : rounds[x] = rounds[m]})>>]
Records(circuit, i) == {Taken(circuit)[i] - b + 1 : b \in circuit[i].back}

\* A detector is known by its round and its position in the round.
Names(rounds) == Addresses(rounds)

(* The recipes: the addresses each detector and observable reads, and the  *)
(* parity they have without noise.  The ring is as deep as the longest     *)
(* reach back.                                                             *)
FormationTable(s, n) ==
  LET at == Addresses(MeasurementRounds(s, n))
      rounds == DetectorRounds(s, n)
      Recipe(i, round) == [at |-> round, records |-> {at[m] : m \in Records(s.circuit, i)},
                           parity |-> Odd(Records(s.circuit, i) \cap s.reference)]
      detectors == Items(s.circuit, "D")
      observables == Items(s.circuit, "O")
      recipes == [d \in DOMAIN detectors |-> Recipe(detectors[d], rounds[d])]
      reads == [o \in DOMAIN observables |-> Recipe(observables[o], n)]
      Span(recipe) == recipe.at - Min({a[1] : a \in recipe.records})
  IN  [detectors |-> recipes, observables |-> reads, names |-> Names(rounds),
       depth |-> 1 + Max({0} \cup {Span(recipes[d]) : d \in DOMAIN recipes}
                             \cup {Span(reads[o]) : o \in DOMAIN reads})]

(* What is refused: rounds that do not grow with the measurements or are   *)
(* not those of the operation, a second group after the end, detectors     *)
(* outside the operation or before a bit they read.                        *)
SourceAccepted(s, n) ==
  LET rounds == MeasurementRounds(s, n)
      late   == {i \in Announcers(s.circuit) : Announced(s.circuit, i) > n}
      d      == Items(s.circuit, "D")
  IN  /\ d # <<>>
      /\ \A m \in DOMAIN rounds : m > 1 => rounds[m - 1] <= rounds[m]
      /\ IF s.declared # <<>> THEN Range(rounds) \subseteq 1 .. n
         ELSE /\ Range(rounds) = 1 .. n
              /\ Cardinality(late) <= 1 /\ \A i \in late : Announced(s.circuit, i) = n + 1
      /\ IF s.map # <<>> THEN Len(s.map) = Len(d) /\ Range(s.map) \subseteq 1 .. n
         ELSE \A x \in DOMAIN d : s.circuit[d[x]].layer <= n
      /\ LET table == FormationTable(s, n)
         IN  \A x \in DOMAIN d : \A a \in table.detectors[x].records : a[1] <= table.detectors[x].at

(* The error model of the circuit: what each fault, a set of measurements  *)
(* it flips, flips among the detectors.                                    *)
Catalog(s, n, flips) ==
  LET d == Items(s.circuit, "D")
      name == Names(DetectorRounds(s, n))
  IN  [f \in DOMAIN flips |->
         {name[x] : x \in {y \in DOMAIN d : Odd(Records(s.circuit, d[y]) \cap flips[f])}}]

(* The packets of a shot, as the set of the addresses that read one.       *)
Packets(s, n, ones) ==
  LET at == Addresses(MeasurementRounds(s, n)) IN {at[m] : m \in ones}

-----------------------------------------------------------------------------
(* The streaming former.  ring is the set of rounds whose packets it has.  *)

FeedPacket(table, ring, round) ==
  {r \in ring \cup {round} : r > round - table.depth}

\* The recipes evaluated when the packet of a round is in.
Due(table, n, round) ==
  {table.detectors[d] : d \in {x \in DOMAIN table.detectors : table.detectors[x].at = round}}
  \cup IF round = n THEN {table.observables[o] : o \in DOMAIN table.observables} ELSE {}
Formable(table, n, ring, round) ==
  \A recipe \in Due(table, n, round) : \A a \in recipe.records : a[1] \in ring

Form(recipe, bits) == recipe.parity # Odd(recipe.records \cap bits)
Formed(table, round, bits) ==
  {table.names[d] : d \in {x \in DOMAIN table.detectors :
                             table.detectors[x].at = round /\ Form(table.detectors[x], bits)}}
=============================================================================

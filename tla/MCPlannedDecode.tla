--------------------------- MODULE MCPlannedDecode --------------------------
(* A repetition-code memory with one ancilla and two data qubits.  Fault     *)
(* 2r - 1 is a data flip before round r, fault 2r a wrong reading in it; the *)
(* last data flip comes before the readout.  Weak runs decode sampled shots  *)
(* under every scheme; switching runs follow regions, order and time.        *)
EXTENDS PlannedDecode

M(n) == [op |-> "M", n |-> n, back |-> {}, layer |-> 0]
D(back, layer) == [op |-> "D", n |-> 0, back |-> back, layer |-> layer]
O(back) == [op |-> "O", n |-> 0, back |-> back, layer |-> 0]

Memory(n) ==
  [i \in 1 .. 2 * n |-> IF i % 2 = 1 THEN M(1)
                        ELSE D(IF i = 2 THEN {1} ELSE {1, 2}, (i \div 2) - 1)]
  \o <<M(2), D({1, 2, 3}, n), O({1})>>
Source(circuit) == [circuit |-> circuit, reference |-> {1, 2}, declared |-> <<>>, map |-> <<>>]
Flips(n) == [i \in 1 .. 2 * n + 1 |->
               IF i % 2 = 0 THEN {i \div 2} ELSE ((i \div 2) + 1) .. n \cup {n + 1}]
UpTo(n, m) == {S \in SUBSET (1 .. 2 * n + 1) : Cardinality(S) <= m}

Run(scheme, mode, rounds, F, B) ==
  [scheme |-> scheme, mode |-> mode, rounds |-> rounds, F |-> F, B |-> B,
   leading |-> 1, trailing |-> 1, justified |-> FALSE, keepup |-> <<0, 1>>,
   source |-> None, flips |-> <<>>, errors |-> {{}}, len |-> <<>>, likely |-> {}, backend |-> "any"]
Mapped(run, n) == [run EXCEPT !.source = Source(Memory(n)), !.flips = Flips(n)]
Decoding(run, n, backend, errors) ==
  [Mapped(run, n) EXCEPT !.errors = errors, !.backend = backend,
                         !.len = [i \in 1 .. 2 * n + 1 |-> 1 + (i % 3)], !.likely = {3}]

\* The readings of rounds 1 and 2 share a packet, detectors are moved late.
Declared(run) == [run EXCEPT !.source.declared = <<2, 2, 3, 4, 4, 4>>, !.source.map = <<2, 2, 4, 4, 4>>]
ConfigsDef ==
  {Decoding(Run("naive", "weak", <<4>>, 1, 1), 4, "union_find", UpTo(4, 3)),
   Declared(Decoding(Run("lookahead", "weak", <<4>>, 1, 1), 4, "union_find", UpTo(4, 2))),
   Decoding(Run("flush", "weak", <<6>>, 2, 1), 6, "union_find", UpTo(6, 2)),
   Decoding(Run("lookahead", "weak", <<5>>, 2, 1), 5, "any", UpTo(5, 1)),
   Decoding(Run("parallel", "weak", <<7>>, 1, 1), 7, "union_find", UpTo(7, 2)),
   Decoding(Run("parallel", "weak", <<7>>, 1, 1), 7, "any", UpTo(7, 1)),
   Decoding(Run("parallel", "weak", <<5>>, 1, 1), 5, "union_find", UpTo(5, 2)),
   Decoding(Run("sandwich", "weak", <<7>>, 2, 1), 7, "union_find", UpTo(7, 1)),
   Mapped(Run("lookahead", "serial", <<4>>, 1, 1), 4),
   Run("lookahead", "weak", <<2, 2>>, 1, 1),
   Mapped(Run("lookahead", "double", <<6>>, 1, 1), 6),
   Mapped(Run("lookahead", "double", <<9>>, 2, 1), 9),
   Mapped(Run("lookahead", "double", <<7>>, 3, 1), 7)}
\* refused: a buffer below its floor, the all-core flush under switching, a
\* double window on two operations, a keep-up ratio of one half, and sources
\* with a missing round, two readouts, rounds out of order or a detector
\* before its bits
Plain == Run("naive", "weak", <<2>>, 1, 1)
RefusedDef ==
  {Run("parallel", "weak", <<4>>, 1, 0), Run("flush", "serial", <<4>>, 1, 1),
   Run("lookahead", "double", <<2, 2>>, 1, 1),
   [Run("lookahead", "serial", <<4>>, 1, 2) EXCEPT !.keepup = <<1, 2>>],
   [Plain EXCEPT !.source = Source(<<M(1), D({1}, 0)>>)],
   [Plain EXCEPT !.source = Source(Memory(2) \o <<M(1), D({1, 2}, 2)>>)],
   [Plain EXCEPT !.source = [Source(Memory(2)) EXCEPT !.declared = <<2, 1, 2, 2>>]],
   [Plain EXCEPT !.source = [Source(Memory(2)) EXCEPT !.map = <<1, 1, 2>>]]}
AllConfigs == ConfigsDef \cup RefusedDef
=============================================================================

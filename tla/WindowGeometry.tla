--------------------------- MODULE WindowGeometry ---------------------------
(***************************************************************************)
(* The arithmetic of windows: where commit and buffer regions lie, when a  *)
(* window has its data, how far a set of committed regions reaches, and    *)
(* which region a strong decode takes.  Rounds are numbered from 1.  F is  *)
(* the commit round count and B the buffer round count of a code.          *)
(***************************************************************************)
EXTENDS Integers, Sequences, FiniteSets, FiniteSetsExt

Least(a, b) == IF a <= b THEN a ELSE b
Most(a, b) == IF a >= b THEN a ELSE b
CeilDiv(a, b) == (a + b - 1) \div b

Geometry(buffer_lo, commit_lo, commit_hi, buffer_hi) ==
  [blo |-> buffer_lo, lo |-> commit_lo, hi |-> commit_hi, bhi |-> buffer_hi]

(* A finite stream whose last window commits everything once fewer than    *)
(* W + F rounds remain.                                                    *)
RegularWindows(n, F, B) == Min({i \in 0..n : n - i * F < 2 * F + B})
FlushPlan(n, F, B) ==
  LET last == RegularWindows(n, F, B)
  IN  [k \in 1..(last + 1) |->
         LET lo == (k - 1) * F + 1
         IN  IF k = last + 1 THEN Geometry(lo, lo, n, n)
                             ELSE Geometry(lo, lo, k * F, k * F + B)]

(* The regular stride with a look-ahead after every window, the last one   *)
(* included.                                                               *)
LookaheadPlan(n, F, B) ==
  [k \in 1..Most(1, CeilDiv(n, F)) |->
     LET hi == Least(k * F, n)
     IN  Geometry((k - 1) * F + 1, (k - 1) * F + 1, hi, hi + B)]

(* A window is ready when its own rounds are in and what its buffer wants  *)
(* beyond the operation's end is there, closed, or not coming.             *)
(* successors: set of [arrived, count].                                    *)
MutDataComplete(bhi, arrived, count, successors, memory, closed) ==
  arrived + 1 >= Least(bhi, count)
DataComplete(bhi, arrived, count, successors, memory, closed) ==
  LET overflow == bhi - count
  IN  /\ arrived >= Least(bhi, count)
      /\ \/ overflow <= 0
         \/ closed
         \/ successors = {}
         \/ \E s \in successors : s.arrived >= overflow
         \/ memory >= overflow
         \/ \A s \in successors : s.arrived >= s.count

(* The rounds 1..n that a set of commit regions [lo, hi] covers without a  *)
(* break.                                                                  *)
Prefix(regions, limit) ==
  Max({n \in 0..limit :
         \A r \in 1..n : \E g \in regions : g.lo <= r /\ r <= g.hi})

(* Regions that cover lo..hi, each round once.                             *)
Tiles(regions, lo, hi) ==
  \A r \in lo..hi : Cardinality({g \in regions : g.lo <= r /\ r <= g.hi}) = 1
=============================================================================

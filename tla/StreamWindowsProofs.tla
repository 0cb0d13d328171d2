------------------------- MODULE StreamWindowsProofs -------------------------
(***************************************************************************)
(* Proofs about one live stream, for every code (F and B), every row of    *)
(* segments, every kind of stream, every feedback rule and policy, and any *)
(* number of idle and dropped rounds.                                      *)
(*                                                                         *)
(* BoundaryOnce and ReleasedIsFinal are not inductive.  A boundary comes   *)
(* in once because it is shipped once, and it is shipped once because a    *)
(* correction is at one place at a time on its way to the frame: the       *)
(* links' queues hold no window twice and share none (Corrections).  The   *)
(* window that waits for it is the next one, whenever that one was planned *)
(* (Linked, Chain).  What a released segment was answered with stands      *)
(* because the regions tile the stream (Tiled) in the plan's stride        *)
(* (OnPlan), so the committed prefix that covered the segment consists of  *)
(* final windows only, a window planned later lies behind it, and the tail *)
(* that is clipped when the stream is sealed still reaches beyond every    *)
(* segment that was answered (Rounds, Stands).                             *)
(*                                                                         *)
(* WindowsSound is proved of streams whose rounds arrive in one file       *)
(* (OneFile).  What a window reads ends at its buffer, at the end of the   *)
(* stream or at a boundary that closes inside its buffer (Stops), and      *)
(* each of the three can only move it back to a round that has not         *)
(* arrived yet (QueueInv), so that a submitted window was given all it     *)
(* reads and a waiting one holds it (Retains).  The plan is ahead of the   *)
(* rounds that arrive (Covered), so that a new window finds its rounds,    *)
(* and the committed prefix is the end of the windows committed without a  *)
(* gap (Reached).                                                          *)
(***************************************************************************)
EXTENDS StreamWindows, SequenceFacts

-----------------------------------------------------------------------------
(* The inductive invariant *)

Undecided == {"open", "queued", "landed"}

\* The fields the proofs depend on.
Scalars ==
  /\ mode \in Modes /\ next \in Nat /\ at \in Nat /\ arrived \in Nat /\ end \in Nat
  /\ closed \subseteq Nat /\ got \subseteq Nat
  /\ segEnd \in Seq(Nat) /\ transit \in Seq(Nat)

Tables ==
  win \in Seq(WindowType) /\ wdo \in Seq(Nat) /\ writes \in Seq(Nat) /\ dd \subseteq Nat

\* What a window shipped, what it has in the frame and in the ledger goes with
\* how far it is.
OwnResult(w) ==
  /\ w.out = "none" <=> w.stage \notin {"sinking", "final"}
  /\ w.stage = "sinking" => w.out = "weak"
  /\ w.stage = "final" => w.entry = w.out /\ w.says = w.out
  /\ w.stage # "final" => w.entry = "none"
  /\ w.stage \notin Undecided => w.deps = 0

\* A window and the one before it, D the boundaries in flight: the boundary is
\* outstanding, on its way, or in.
Linked(source, w, flying) ==
  /\ w.deps = 1 <=> w.chained /\ (source.out = "none" \/ flying)
  /\ w.deps = 0 => w.inb = source.out /\ source.out # "none"
  /\ flying => w.deps = 1 /\ source.out # "none"

Chain(ws, D) ==
  /\ \A k \in 1 .. Len(ws) : OwnResult(ws[k])
  /\ \A k \in 2 .. Len(ws) : Linked(ws[k - 1], ws[k], k - 1 \in D)
  /\ \A k \in D : k + 1 \in 1 .. Len(ws) /\ k \in 1 .. Len(ws)

\* A correction is on the way to the frame once: a weak one on the WDO link
\* or in the frame's queue, a strong one in that queue.
Corrections(ws) ==
  /\ IsInjective(wdo) /\ IsInjective(writes) /\ ToSet(wdo) \cap ToSet(writes) = {}
  /\ \A k \in ToSet(wdo) : k \in 1 .. Len(ws) /\ ws[k].stage = "sinking"
  /\ \A k \in ToSet(writes) :
       k \in 1 .. Len(ws) /\ ws[k].stage \in {"sinking", "resolving"}

BoundaryInv == Tables /\ Chain(win, dd) /\ Corrections(win)

\* The commit regions follow each other without a gap.
Tiled(ws) ==
  \A k \in 1 .. Len(ws) :
    /\ ws[k].lo = (IF k = 1 THEN 1 ELSE ws[k - 1].hi + 1)
    /\ ws[k].lo <= ws[k].hi

\* The last round the plan may begin at: the first segment of a protected
\* stream is closed one round before its last one is emitted.
Reach == IF mode.kind = "protected" /\ phase \notin {"sealing", "sealed"}
         THEN next + 1 ELSE next

\* The regions are those of the plan, and none begins behind that round.
OnPlan(ws) ==
  IF Finite THEN \A k \in 1 .. Len(ws) :
                   k \in DOMAIN Plan /\ ws[k].lo = Plan[k].lo /\ ws[k].hi = Plan[k].hi
  ELSE /\ phase # "sealed" => end = None
       /\ end = None => \A k \in 1 .. Len(ws) :
            ws[k].lo = (k - 1) * F + 1 /\ ws[k].hi = k * F /\ ws[k].lo <= Reach

\* The rounds of the QPU and the segments they belong to.
Rounds ==
  /\ arrived <= next /\ \A r \in ToSet(transit) : r <= next
  /\ Begun <= Len(Body[mode.kind])
  /\ phase \in {"waiting", "running", "ended", "closing", "sealing", "sealed"}
  /\ \A i \in 1 .. Begun :
       Body[mode.kind][i] <= segEnd[i] /\ segEnd[i] <= segEnd[Begun]
  /\ phase \in {"closing", "sealing"} => mode.kind = "protected"
  /\ IF phase = "waiting" THEN at = 0 ELSE Begun > 0
  /\ mode.kind = "protected" =>
       /\ phase = "waiting" => Begun = 0
       /\ phase # "running" => \A i \in 1 .. Begun : segEnd[i] <= Reach
  /\ mode.kind # "protected" =>
       /\ \A i \in 1 .. Begun : segEnd[i] <= next
       /\ phase = "running" => at < Body[mode.kind][Begun]

\* What a released segment was answered with: its windows are final, and the
\* plan goes on behind it.
Stands(a, ws) ==
  /\ a.seg \in 1 .. Begun /\ a.result = Result(ws, a.seg)
  /\ \E k \in 1 .. Len(ws) : segEnd[a.seg] <= ws[k].hi
  /\ \A k \in DOMAIN a.result : ws[k].stage = "final"
Answered(ws) == \A a \in sent : Stands(a, ws)

ReleaseInv == Tiled(win) /\ OnPlan(win) /\ Answered(win)

SInv == Scalars /\ Rounds /\ BoundaryInv /\ ReleaseInv

-----------------------------------------------------------------------------
(* Arithmetic *)

\* Least and Most pick one of the two and bound both.
LEMMA SmallerOf ==
  ASSUME NEW a \in Int, NEW b \in Int
  PROVE  /\ Least(a, b) \in {a, b} /\ Least(a, b) <= a /\ Least(a, b) <= b
         /\ Most(a, b) \in {a, b} /\ Most(a, b) >= a /\ Most(a, b) >= b
BY DEF Least, Most

\* A nonempty set of natural numbers has a minimum, and Min is it.
LEMMA MinOfNat ==
  ASSUME NEW T, T \subseteq Nat, T # {}
  PROVE  Min(T) \in T /\ \A y \in T : Min(T) <= y
<1>1. \E m \in T : \A y \in T : m <= y
  BY LeastOfNat
<1> QED BY <1>1 DEF Min

\* A product with a fixed factor grows with the other one.
LEMMA TimesMonotone ==
  ASSUME NEW m \in Nat, NEW a \in Int, NEW b \in Int, a <= b
  PROVE  a * m <= b * m
<1>1. b - a \in Nat /\ (b - a) * m \in Nat
  OBVIOUS
<1>2. b * m = a * m + (b - a) * m
  OBVIOUS
<1> QED BY <1>1, <1>2

\* The ceiling of a / m is the least multiple that reaches a, which is what
\* counts the windows of a region.
LEMMA CeilingBounds ==
  ASSUME NEW a \in Nat, NEW m \in Nat \ {0}
  PROVE  /\ CeilDiv(a, m) \in Nat
         /\ a <= CeilDiv(a, m) * m
         /\ \A k \in Nat : k <= CeilDiv(a, m) /\ k >= 1 => (k - 1) * m < a
         /\ a > 0 => CeilDiv(a, m) >= 1
<1> DEFINE q == (a + m - 1) \div m
<1>1. q \in Int /\ m * q <= a + m - 1 /\ a + m - 1 < m * (q + 1)
  OBVIOUS
<1>2. m * (q + 1) = m * q + m /\ m * q = q * m
  BY <1>1
<1>3. q >= 0
  BY <1>1
<1>4. ASSUME NEW k \in Nat, k <= q, k >= 1 PROVE (k - 1) * m < a
  <2>1. (k - 1) * m <= (q - 1) * m
    BY <1>1, <1>4, TimesMonotone
  <2>2. (q - 1) * m = q * m - m
    BY <1>1
  <2> QED BY <1>1, <1>2, <2>1, <2>2
<1>5. CeilDiv(a, m) = q
  BY DEF CeilDiv
<1>6. a > 0 => q >= 1
  BY <1>1, <1>2
<1> HIDE DEF q
<1> QED BY <1>1, <1>2, <1>3, <1>4, <1>5, <1>6


-----------------------------------------------------------------------------
(* The plans *)

\* A row of regions with their buffers.
RowOf(row, n) ==
  /\ DOMAIN row = 1 .. n
  /\ \A k \in 1 .. n :
       /\ row[k].lo \in Nat /\ row[k].hi \in Nat /\ row[k].bhi \in Nat
       /\ row[k].lo = (IF k = 1 THEN 1 ELSE row[k - 1].hi + 1)
       /\ row[k].lo <= row[k].hi

\* A region of a regular stride begins where the one before it ends.
LEMMA Stride ==
  ASSUME NEW k \in Nat, k >= 1
  PROVE  /\ (k - 1) * F \in Nat /\ k * F \in Nat
         /\ k * F = (k - 1) * F + F
         /\ (k - 1) * F + 1 <= k * F
         /\ k = 1 => (k - 1) * F + 1 = 1
<1>1. F \in Nat /\ F >= 1 /\ k - 1 \in Nat
  BY StreamAssumption
<1>2. k * F = (k - 1) * F + F /\ (k - 1) * F \in Nat
  BY <1>1
<1>3. k = 1 => (k - 1) * F = 0
  BY <1>1
<1> QED BY <1>1, <1>2, <1>3

\* The regions of a lookahead plan follow each other without a gap.
LEMMA LookaheadRow ==
  \E n \in Nat : RowOf(LookaheadPlan(Limit, F, B), n)
<1> DEFINE q == CeilDiv(Limit, F)
           row == LookaheadPlan(Limit, F, B)
<1>1. /\ q \in Nat /\ q >= 1
      /\ \A k \in Nat : k <= q /\ k >= 1 => (k - 1) * F < Limit
      /\ Limit \in Nat /\ F \in Nat /\ B \in Nat
  BY StreamAssumption, CeilingBounds
<1> HIDE DEF q
<1>2. Most(1, q) = q
  BY <1>1 DEF Most
<1>3. /\ DOMAIN row = 1 .. q
      /\ \A k \in 1 .. q : /\ row[k].lo = (k - 1) * F + 1
                           /\ row[k].hi = Least(k * F, Limit)
                           /\ row[k].bhi = Least(k * F, Limit) + B
  BY <1>2 DEF LookaheadPlan, Geometry, q
<1> HIDE DEF row
<1>4. ASSUME NEW k \in 1 .. q
      PROVE  /\ row[k].lo \in Nat /\ row[k].hi \in Nat /\ row[k].bhi \in Nat
             /\ row[k].lo = (IF k = 1 THEN 1 ELSE row[k - 1].hi + 1)
             /\ row[k].lo <= row[k].hi
  <2>1. k \in Nat /\ k >= 1 /\ (k - 1) * F < Limit
    BY <1>1
  <2>2. row[k].lo = (k - 1) * F + 1 /\ row[k].hi = Least(k * F, Limit)
        /\ row[k].bhi = Least(k * F, Limit) + B
    BY <1>3
  <2>3. row[k].hi \in Nat /\ row[k].lo <= row[k].hi
    BY <1>1, <2>1, <2>2, Stride DEF Least
  <2>4. CASE k = 1
    BY <1>1, <2>1, <2>2, <2>3, <2>4, Stride
  <2>5. CASE k # 1
    <3>1. k - 1 \in 1 .. q
      BY <1>1, <2>5
    <3>3. row[k - 1].hi = Least((k - 1) * F, Limit)
      BY <1>3, <3>1
    <3>2. Least((k - 1) * F, Limit) = (k - 1) * F
      BY <1>1, <2>1, Stride DEF Least
    <3> QED BY <1>1, <2>1, <2>2, <2>3, <2>5, <3>2, <3>3, Stride
  <2> QED BY <2>4, <2>5
<1> QED BY <1>1, <1>3, <1>4 DEF RowOf, row

\* How many regular regions a flushing plan has before the last one.
LEMMA RegularCount ==
  LET last == RegularWindows(Limit, F, B)
  IN  last \in Nat /\ last * F < Limit
<1> DEFINE T == {i \in 0 .. Limit : Limit - i * F < 2 * F + B}
<1>1. Limit \in Nat /\ Limit >= 1 /\ F \in Nat /\ F >= 1 /\ B \in Nat /\ B >= 1
  BY StreamAssumption
<1>2. T \subseteq Nat /\ Limit \in T
  <2>1. 1 * Limit <= F * Limit
    BY <1>1, TimesMonotone
  <2>2. Limit * F = F * Limit
    BY <1>1
  <2> QED BY <1>1, <2>1, <2>2
<1>3. Min(T) \in T /\ \A y \in T : Min(T) <= y
  BY <1>2, MinOfNat
<1> DEFINE last == Min(T)
<1> HIDE DEF last
<1>4. last \in Nat /\ last <= Limit
  BY <1>3 DEF last
<1>5. ASSUME last = 0 PROVE last * F < Limit
  BY <1>1, <1>5
<1>6. ASSUME last # 0 PROVE last * F < Limit
  <2>1. last - 1 \in 0 .. Limit /\ last - 1 \notin T
    BY <1>1, <1>3, <1>4, <1>6 DEF last
  <2>2. Limit - (last - 1) * F >= 2 * F + B
    <3>1. (last - 1) * F \in Int
      BY <1>1, <1>4
    <3> QED BY <1>1, <2>1, <3>1
  <2>3. last * F = (last - 1) * F + F /\ (last - 1) * F \in Int
    BY <1>1, <1>4
  <2> QED BY <1>1, <2>2, <2>3
<1> QED BY <1>4, <1>5, <1>6 DEF RegularWindows, last

\* The regions of a flushing plan follow each other without a gap.
LEMMA FlushRow ==
  \E n \in Nat : RowOf(FlushPlan(Limit, F, B), n)
<1> DEFINE last == RegularWindows(Limit, F, B)
           row == FlushPlan(Limit, F, B)
<1>1. /\ last \in Nat /\ last * F < Limit
      /\ Limit \in Nat /\ F \in Nat /\ F >= 1 /\ B \in Nat
  BY StreamAssumption, RegularCount
<1>2. /\ DOMAIN row = 1 .. (last + 1)
      /\ \A k \in 1 .. (last + 1) :
           /\ row[k].lo = (k - 1) * F + 1
           /\ row[k].hi = (IF k = last + 1 THEN Limit ELSE k * F)
           /\ row[k].bhi = (IF k = last + 1 THEN Limit ELSE k * F + B)
  BY DEF FlushPlan, Geometry
<1> HIDE DEF row, last
<1>3. ASSUME NEW k \in 1 .. (last + 1)
      PROVE  /\ row[k].lo \in Nat /\ row[k].hi \in Nat /\ row[k].bhi \in Nat
             /\ row[k].lo = (IF k = 1 THEN 1 ELSE row[k - 1].hi + 1)
             /\ row[k].lo <= row[k].hi
  <2>1. k \in Nat /\ k >= 1 /\ k <= last + 1
    BY <1>1
  <2>2. /\ row[k].lo = (k - 1) * F + 1
        /\ row[k].hi = (IF k = last + 1 THEN Limit ELSE k * F)
        /\ row[k].bhi = (IF k = last + 1 THEN Limit ELSE k * F + B)
    BY <1>2
  <2>3. row[k].lo \in Nat /\ row[k].hi \in Nat /\ row[k].bhi \in Nat
        /\ row[k].lo <= row[k].hi
    <3>1. CASE k = last + 1
      <4>1. (k - 1) * F = last * F
        BY <1>1, <3>1
      <4> QED BY <1>1, <2>1, <2>2, <3>1, <4>1, Stride
    <3>2. CASE k # last + 1
      BY <1>1, <2>1, <2>2, <3>2, Stride
    <3> QED BY <3>1, <3>2
  <2>4. CASE k = 1
    BY <2>1, <2>2, <2>3, <2>4, Stride
  <2>5. CASE k # 1
    <3>1. k - 1 \in 1 .. (last + 1) /\ k - 1 # last + 1
      BY <1>1, <2>1, <2>5
    <3>2. row[k - 1].hi = (k - 1) * F
      BY <1>2, <3>1
    <3> QED BY <2>2, <2>3, <2>5, <3>2
  <2> QED BY <2>4, <2>5
<1>4. last + 1 \in Nat
  BY <1>1
<1> QED BY <1>2, <1>3, <1>4 DEF RowOf, row

\* So do those of the plan of a finite stream.
LEMMA PlanRow == \E n \in Nat : RowOf(Plan, n)
BY LookaheadRow, FlushRow DEF Plan


-----------------------------------------------------------------------------
(* Planning *)

\* A window that has just been planned behind another.
Fresh(w, source) ==
  /\ w.stage = "open" /\ w.out = "none" /\ ~ w.held
  /\ w.entry = "none" /\ w.says = "none"
  /\ w.chained <=> source.out = "none"
  /\ w.deps = (IF w.chained THEN 1 ELSE 0)
  /\ w.deps = 0 => w.inb = source.out

\* Its region.
Laid(w, k, known, cap) ==
  IF Finite THEN k \in DOMAIN Plan /\ w.lo = Plan[k].lo /\ w.hi = Plan[k].hi
  ELSE /\ k <= CeilDiv(known, F)
       /\ w.lo = (k - 1) * F + 1
       /\ w.hi = (IF cap = None THEN k * F ELSE Least(k * F, cap))

\* What Grow makes of a row of windows: they stay, and new ones follow while
\* the stream is open.
Grown(ws, g, known, cap, n) ==
  /\ g \in Seq(WindowType) /\ Len(ws) <= Len(g)
  /\ \A k \in 1 .. Len(ws) : g[k] = ws[k]
  /\ \A k \in 1 .. Len(g) : k > Len(ws) =>
       /\ n = None /\ Laid(g[k], k, known, cap)
       /\ IF k = 1 THEN g[k].stage = "open" /\ g[k].out = "none" /\ g[k].entry = "none"
          ELSE Fresh(g[k], g[k - 1])
  /\ n = None /\ ~ Finite => CeilDiv(known, F) <= Len(g)

\* The end of what a window reads is a round.
LEMMA ReadsToNat ==
  ASSUME NEW w, w.bhi \in Nat, NEW shut, shut \subseteq Nat, NEW n \in Nat
  PROVE  ReadsTo(w, shut, n) \in Nat
<1> DEFINE inside == {b \in shut : w.hi <= b /\ b < w.bhi}
           known == IF n # None THEN n ELSE IF Finite THEN Limit ELSE w.bhi
<1>1. known \in Nat
  BY StreamAssumption DEF None
<1>2. Effective(w, shut, n) \in Nat
  <2>1. CASE inside = {}
    BY <1>1, <2>1 DEF Effective
  <2>2. CASE inside # {}
    <3>1. Min(inside) \in Nat
      BY <2>2, MinOfNat
    <3> HIDE DEF known
    <3>2. Least(known, Min(inside)) \in Nat
      BY <1>1, <3>1 DEF Least
    <3> QED BY <2>2, <3>2 DEF Effective, known
  <2> QED BY <2>1, <2>2
<1> QED BY <1>2 DEF ReadsTo, Least

\* The fields of a window in a row.
LEMMA WindowFields ==
  ASSUME NEW ws \in Seq(WindowType), NEW k \in 1 .. Len(ws)
  PROVE  /\ ws[k] \in WindowType
         /\ ws[k].lo \in Nat /\ ws[k].hi \in Nat /\ ws[k].bhi \in Nat
         /\ ws[k].out \in {"none", "weak", "strong"} /\ ws[k].deps \in {0, 1}
         /\ ws[k].chained \in BOOLEAN
<1>1. ws[k] \in WindowType
  BY ElementOfSeq
<1> QED BY <1>1 DEF WindowType

\* A window whose hold is moved is a window.
LEMMA HoldMoved ==
  ASSUME NEW w \in WindowType, NEW r \in Nat
  PROVE  [w EXCEPT !.rhi = r] \in WindowType
BY DEF WindowType

\* A new window is fresh, and has the region it was planned for.
LEMMA NewIsFresh ==
  ASSUME NEW g, g.lo \in Nat, g.hi \in Nat, g.bhi \in Nat,
         NEW before, NEW shut, shut \subseteq Nat, NEW n \in Nat,
         before # <<>> => Head(before).out \in {"none", "weak", "strong"}
  PROVE  LET w == NewWindow(g, before, shut, n)
         IN  /\ w \in WindowType /\ w.lo = g.lo /\ w.hi = g.hi /\ w.bhi = g.bhi
             /\ w.stage = "open" /\ w.out = "none" /\ w.entry = "none"
             /\ before # <<>> => Fresh(w, Head(before))
<1> DEFINE ready == Available(before)
           w == [lo |-> g.lo, hi |-> g.hi, bhi |-> g.bhi, rhi |-> 0, job |-> {},
                 stage |-> "open", chained |-> before # <<>> /\ ~ready,
                 deps |-> IF before # <<>> /\ ~ready THEN 1 ELSE 0,
                 inb |-> IF ready THEN Head(before).out ELSE "none",
                 out |-> "none", held |-> FALSE, entry |-> "none", says |-> "none"]
<1>1. ready <=> before # <<>> /\ Head(before).out # "none"
  BY DEF Available
<1> HIDE DEF ready
<1>2. w.bhi = g.bhi
  OBVIOUS
<1>3. ReadsTo(w, shut, n) \in Nat
  BY <1>2, ReadsToNat
<1>4. w \in WindowType
  BY <1>1 DEF WindowType
<1> DEFINE v == [w EXCEPT !.rhi = ReadsTo(w, shut, n)]
<1>5. v \in WindowType
  BY <1>3, <1>4, HoldMoved
<1>6. NewWindow(g, before, shut, n) = v
  BY DEF NewWindow, ready
<1>7. /\ v.lo = g.lo /\ v.hi = g.hi /\ v.bhi = g.bhi
      /\ v.stage = "open" /\ v.out = "none" /\ v.entry = "none"
  OBVIOUS
<1>8. before # <<>> => Fresh(v, Head(before))
  BY <1>1 DEF Fresh
<1> QED BY <1>5, <1>6, <1>7, <1>8


\* Where Grow puts the window k.
LayOf(k, cap) ==
  IF Finite THEN Plan[k]
  ELSE LET hi == IF cap = None THEN k * F ELSE Least(k * F, cap)
       IN  Geometry((k - 1) * F + 1, (k - 1) * F + 1, hi, hi + B)

\* How many windows there are to be.
WantedFor(known, n) ==
  IF n # None THEN 0
  ELSE IF Finite THEN Cardinality({k \in DOMAIN Plan : Plan[k].lo <= known})
  ELSE CeilDiv(known, F)

\* What stands before the window k.
BeforeOf(ws, k) ==
  IF k = 1 THEN <<>>
  ELSE IF k - 1 \in DOMAIN ws THEN <<ws[k - 1]>>
  ELSE <<[out |-> "none", held |-> FALSE]>>

\* The numbers Grow works with are numbers.
LEMMA WantedNat ==
  ASSUME NEW known \in Nat, NEW n \in Nat
  PROVE  /\ WantedFor(known, n) \in Nat
         /\ Finite => \A k \in 1 .. WantedFor(known, n) : k \in DOMAIN Plan
<1>1. CASE n # None
  BY <1>1 DEF WantedFor
<1>2. CASE n = None /\ ~ Finite
  BY <1>2, CeilingBounds, StreamAssumption DEF WantedFor
<1>3. CASE n = None /\ Finite
  <2> DEFINE T == {k \in DOMAIN Plan : Plan[k].lo <= known}
  <2>1. PICK m \in Nat : DOMAIN Plan = 1 .. m
    BY PlanRow DEF RowOf
  <2>2. IsFiniteSet(1 .. m) /\ Cardinality(1 .. m) = m
    BY <2>1, FS_Interval
  <2>3. Cardinality(T) \in Nat /\ Cardinality(T) <= m
    BY <2>1, <2>2, PartOfFinite
  <2>4. WantedFor(known, n) = Cardinality(T)
    BY <1>3 DEF WantedFor
  <2> HIDE DEF T
  <2> QED BY <2>1, <2>3, <2>4
<1> QED BY <1>1, <1>2, <1>3

\* The region of a window that is to be planned.
LEMMA LayNat ==
  ASSUME NEW k \in Nat, k >= 1, Finite => k \in DOMAIN Plan, NEW cap \in Nat
  PROVE  LET g == LayOf(k, cap) IN g.lo \in Nat /\ g.hi \in Nat /\ g.bhi \in Nat
<1>1. CASE Finite
  BY <1>1, PlanRow DEF RowOf, LayOf
<1>2. CASE ~ Finite
  <2>1. F \in Nat /\ B \in Nat
    BY StreamAssumption
  <2> DEFINE hi == IF cap = None THEN k * F ELSE Least(k * F, cap)
  <2>2. hi \in Nat /\ (k - 1) * F + 1 \in Nat
    BY <2>1, Stride DEF Least
  <2> HIDE DEF hi
  <2>3. hi + B \in Nat
    BY <2>1, <2>2
  <2> QED BY <1>2, <2>2, <2>3 DEF LayOf, Geometry, hi
<1> QED BY <1>1, <1>2

\* Grow appends the windows that are wanted and not there yet.
LEMMA GrowIs ==
  ASSUME NEW ws, NEW known, NEW cap, NEW shut, NEW n
  PROVE  Grow(ws, known, cap, shut, n) =
           ws \o [i \in 1 .. Most(0, WantedFor(known, n) - Len(ws)) |->
                    NewWindow(LayOf(Len(ws) + i, cap), BeforeOf(ws, Len(ws) + i),
                              shut, n)]
BY DEF Grow, WantedFor, LayOf, BeforeOf

\* Grow keeps the windows it finds and appends fresh ones, each on its region.
LEMMA GrowFacts ==
  ASSUME NEW ws \in Seq(WindowType), NEW known \in Nat, NEW cap \in Nat,
         NEW shut, shut \subseteq Nat, NEW n \in Nat
  PROVE  Grown(ws, Grow(ws, known, cap, shut, n), known, cap, n)
<1> DEFINE wanted == WantedFor(known, n)
           more == Most(0, wanted - Len(ws))
           fresh(k) == NewWindow(LayOf(k, cap), BeforeOf(ws, k), shut, n)
           tail == [i \in 1 .. more |-> fresh(Len(ws) + i)]
           g == Grow(ws, known, cap, shut, n)
<1>1. /\ Len(ws) \in Nat /\ wanted \in Nat /\ more \in Nat /\ DOMAIN ws = 1 .. Len(ws)
      /\ more > 0 => Len(ws) + more = wanted
      /\ wanted <= Len(ws) + more
  <2>1. Len(ws) \in Nat /\ DOMAIN ws = 1 .. Len(ws)
    BY LenProperties
  <2>2. wanted \in Nat
    BY WantedNat
  <2> HIDE DEF wanted
  <2> QED BY <2>1, <2>2 DEF Most
<1>2. g = ws \o tail
  BY GrowIs
<1>3. ASSUME NEW k \in 1 .. (Len(ws) + more), k > Len(ws)
      PROVE  LET w == fresh(k)
             IN  /\ w \in WindowType /\ w.lo = LayOf(k, cap).lo /\ w.hi = LayOf(k, cap).hi
                 /\ w.stage = "open" /\ w.out = "none" /\ w.entry = "none"
                 /\ k # 1 => Fresh(w, Head(BeforeOf(ws, k)))
  <2>1. k \in Nat /\ k >= 1 /\ k \in 1 .. wanted
    BY <1>1, <1>3
  <2>2. Finite => k \in DOMAIN Plan
    BY <2>1, WantedNat
  <2>3. LayOf(k, cap).lo \in Nat /\ LayOf(k, cap).hi \in Nat /\ LayOf(k, cap).bhi \in Nat
    BY <2>1, <2>2, LayNat
  <2>4. /\ BeforeOf(ws, k) # <<>> => Head(BeforeOf(ws, k)).out \in {"none", "weak", "strong"}
        /\ k # 1 => BeforeOf(ws, k) # <<>>
    <3>1. \A j \in 1 .. Len(ws) : ws[j].out \in {"none", "weak", "strong"}
      BY WindowFields
    <3> QED BY <1>1, <3>1 DEF BeforeOf
  <2> DEFINE lay == LayOf(k, cap)
             before == BeforeOf(ws, k)
  <2> HIDE DEF lay, before
  <2>5. LET w == NewWindow(lay, before, shut, n)
        IN  /\ w \in WindowType /\ w.lo = lay.lo /\ w.hi = lay.hi /\ w.bhi = lay.bhi
            /\ w.stage = "open" /\ w.out = "none" /\ w.entry = "none"
            /\ before # <<>> => Fresh(w, Head(before))
    BY <2>3, <2>4, NewIsFresh DEF lay, before
  <2> QED BY <2>4, <2>5 DEF lay, before
<1> HIDE DEF wanted, more, fresh
<1>4. tail \in Seq(WindowType) /\ Len(tail) = more
  <2>1. \A i \in 1 .. more : fresh(Len(ws) + i) \in WindowType
    <3> TAKE i \in 1 .. more
    <3>1. Len(ws) + i \in 1 .. (Len(ws) + more) /\ Len(ws) + i > Len(ws)
      BY <1>1
    <3> QED BY <1>3, <3>1
  <2>2. tail \in [1 .. more -> WindowType]
    BY <2>1
  <2> QED BY <1>1, <2>2
<1> HIDE DEF tail, g
<1>5. /\ g \in Seq(WindowType) /\ Len(g) = Len(ws) + more
      /\ \A k \in 1 .. (Len(ws) + more) :
           g[k] = IF k <= Len(ws) THEN ws[k] ELSE tail[k - Len(ws)]
  BY <1>1, <1>2, <1>4, ConcatProperties
<1>6. \A k \in 1 .. Len(ws) : g[k] = ws[k]
  BY <1>1, <1>5
<1>7. \A k \in 1 .. Len(g) : k > Len(ws) => g[k] = fresh(k)
  <2> SUFFICES ASSUME NEW k \in 1 .. Len(g), k > Len(ws) PROVE g[k] = fresh(k)
    OBVIOUS
  <2>1. k \in 1 .. (Len(ws) + more) /\ ~(k <= Len(ws)) /\ k - Len(ws) \in 1 .. more
        /\ Len(ws) + (k - Len(ws)) = k
    BY <1>1, <1>5
  <2>2. g[k] = tail[k - Len(ws)]
    BY <1>5, <2>1
  <2> QED BY <2>1, <2>2 DEF tail
<1>8. ASSUME NEW k \in 1 .. Len(g), k > Len(ws)
      PROVE  /\ n = None /\ Laid(g[k], k, known, cap)
             /\ IF k = 1 THEN g[k].stage = "open" /\ g[k].out = "none" /\ g[k].entry = "none"
                ELSE Fresh(g[k], g[k - 1])
  <2>1. k \in 1 .. (Len(ws) + more) /\ k <= wanted /\ k >= 1 /\ wanted # 0
    BY <1>1, <1>5, <1>8
  <2>2. n = None
    BY <2>1 DEF wanted, WantedFor
  <2>3. g[k].lo = LayOf(k, cap).lo /\ g[k].hi = LayOf(k, cap).hi
    BY <1>3, <1>7, <1>8, <2>1
  <2>4. Laid(g[k], k, known, cap)
    <3>1. CASE Finite
      <4>1. k \in DOMAIN Plan
        BY <2>1, <3>1, WantedNat DEF wanted
      <4> QED BY <2>3, <3>1, <4>1 DEF Laid, LayOf
    <3>2. CASE ~ Finite
      BY <2>1, <2>2, <2>3, <3>2 DEF Laid, LayOf, Geometry, wanted, WantedFor
    <3> QED BY <3>1, <3>2
  <2>5. CASE k = 1
    BY <1>3, <1>7, <1>8, <2>1, <2>2, <2>4, <2>5
  <2>6. CASE k # 1
    <3>1. Fresh(g[k], Head(BeforeOf(ws, k)))
      BY <1>3, <1>7, <1>8, <2>1, <2>6
    <3>2. Head(BeforeOf(ws, k)).out = g[k - 1].out
      <4>1. CASE k - 1 <= Len(ws)
        <5>1. k - 1 \in 1 .. Len(ws) /\ k - 1 \in DOMAIN ws
          BY <1>1, <2>1, <2>6, <4>1
        <5> QED BY <1>6, <2>6, <5>1 DEF BeforeOf
      <4>2. CASE k - 1 > Len(ws)
        <5>1. k - 1 \in 1 .. (Len(ws) + more) /\ k - 1 \in 1 .. Len(g)
              /\ k - 1 \notin DOMAIN ws
          BY <1>1, <1>5, <2>1, <2>6, <4>2
        <5>2. g[k - 1].out = "none"
          BY <1>3, <1>7, <4>2, <5>1
        <5> QED BY <2>6, <5>1, <5>2 DEF BeforeOf
      <4> QED BY <1>1, <2>1, <4>1, <4>2
    <3> QED BY <2>2, <2>4, <2>6, <3>1, <3>2 DEF Fresh
  <2> QED BY <2>5, <2>6
<1>9. n = None /\ ~ Finite => CeilDiv(known, F) <= Len(g)
  BY <1>1, <1>5 DEF wanted, WantedFor
<1> QED BY <1>1, <1>5, <1>6, <1>8, <1>9 DEF Grown, g


-----------------------------------------------------------------------------
(* Windows that wait *)

\* A window that moved on in its waiting, or not at all: what it has of its
\* neighbours and has given away stays.
Kept(w, v) ==
  /\ v.chained = w.chained /\ v.deps = w.deps /\ v.inb = w.inb /\ v.out = w.out
  /\ v.entry = w.entry /\ v.says = w.says
  /\ v.stage = w.stage \/ {w.stage, v.stage} \subseteq Undecided

KeptRow(ws, vs) ==
  /\ vs \in Seq(WindowType) /\ Len(vs) = Len(ws)
  /\ \A k \in 1 .. Len(ws) : Kept(ws[k], vs[k])

SameRegions(ws, vs) ==
  \A k \in 1 .. Len(ws) : vs[k].lo = ws[k].lo /\ vs[k].hi = ws[k].hi

\* A window that gets its rounds is submitted.
LEMMA Submitted ==
  ASSUME NEW w \in WindowType, w.stage = "open", NEW job \in SUBSET Nat,
         NEW v, v = [w EXCEPT !.stage = "queued", !.job = job]
  PROVE  v \in WindowType /\ Kept(w, v) /\ v.lo = w.lo /\ v.hi = w.hi
<1>1. v \in WindowType
  BY DEF WindowType
<1>2. /\ v.chained = w.chained /\ v.deps = w.deps /\ v.inb = w.inb /\ v.out = w.out
      /\ v.entry = w.entry /\ v.says = w.says /\ v.stage = "queued"
      /\ v.lo = w.lo /\ v.hi = w.hi
  BY DEF WindowType
<1> QED BY <1>1, <1>2 DEF Kept, Undecided

\* A function on the numbers of a row is a row.
LEMMA RowBy ==
  ASSUME NEW ws \in Seq(WindowType), NEW vs, DOMAIN vs = DOMAIN ws,
         vs = [k \in DOMAIN ws |-> vs[k]],
         \A k \in 1 .. Len(ws) : vs[k] \in WindowType
  PROVE  vs \in Seq(WindowType) /\ Len(vs) = Len(ws)
<1>1. Len(ws) \in Nat /\ DOMAIN ws = 1 .. Len(ws)
  BY LenProperties
<1>2. vs \in [1 .. Len(ws) -> WindowType]
  BY <1>1
<1> QED BY <1>1, <1>2

\* check_window only submits.
LEMMA CheckFacts ==
  ASSUME NEW ws \in Seq(WindowType), NEW count, NEW shut, NEW n,
         NEW stored, stored \subseteq Nat
  PROVE  LET vs == Check(ws, count, shut, n, stored)
         IN  KeptRow(ws, vs) /\ SameRegions(ws, vs)
<1> DEFINE vs == Check(ws, count, shut, n, stored)
           job(w) == stored \cap (w.lo .. ReadsTo(w, shut, n))
<1>1. Len(ws) \in Nat /\ DOMAIN ws = 1 .. Len(ws)
  BY LenProperties
<1>2. DOMAIN vs = DOMAIN ws /\ vs = [k \in DOMAIN ws |-> vs[k]]
  BY DEF Check
<1>3. ASSUME NEW k \in 1 .. Len(ws)
      PROVE  \/ vs[k] = ws[k]
             \/ ws[k].stage = "open" /\ vs[k] = [ws[k] EXCEPT !.stage = "queued",
                                                              !.job = job(ws[k])]
  BY <1>1 DEF Check
<1> HIDE DEF vs
<1>4. ASSUME NEW k \in 1 .. Len(ws)
      PROVE  /\ vs[k] \in WindowType /\ Kept(ws[k], vs[k])
             /\ vs[k].lo = ws[k].lo /\ vs[k].hi = ws[k].hi
  <2>1. ws[k] \in WindowType /\ job(ws[k]) \in SUBSET Nat
    BY WindowFields
  <2> HIDE DEF job
  <2>2. CASE vs[k] = ws[k]
    BY <2>1, <2>2 DEF Kept
  <2>3. CASE ws[k].stage = "open" /\ vs[k] = [ws[k] EXCEPT !.stage = "queued",
                                                          !.job = job(ws[k])]
    <3>1. PICK w, v, j : w = ws[k] /\ v = vs[k] /\ j = job(ws[k])
      OBVIOUS
    <3>2. /\ w \in WindowType /\ w.stage = "open" /\ j \in SUBSET Nat
          /\ v = [w EXCEPT !.stage = "queued", !.job = j]
      BY <2>1, <2>3, <3>1
    <3>3. v \in WindowType /\ Kept(w, v) /\ v.lo = w.lo /\ v.hi = w.hi
      BY <3>2, Submitted
    <3> QED BY <3>1, <3>3
  <2> QED BY <1>3, <2>2, <2>3 DEF job
<1>5. vs \in Seq(WindowType) /\ Len(vs) = Len(ws)
  BY <1>2, <1>4, RowBy
<1> QED BY <1>4, <1>5 DEF KeptRow, SameRegions, vs

\* Windows kept twice are kept.
LEMMA KeptTwice ==
  ASSUME NEW us, NEW ws, NEW vs, Len(us) \in Nat, KeptRow(us, ws), KeptRow(ws, vs)
  PROVE  KeptRow(us, vs)
<1>1. /\ vs \in Seq(WindowType) /\ Len(vs) = Len(us) /\ Len(ws) = Len(us)
  BY DEF KeptRow
<1>2. ASSUME NEW k \in 1 .. Len(us) PROVE Kept(us[k], vs[k])
  <2>1. Kept(us[k], ws[k]) /\ Kept(ws[k], vs[k])
    BY <1>1 DEF KeptRow
  <2> QED BY <2>1 DEF Kept
<1> QED BY <1>1, <1>2 DEF KeptRow

-----------------------------------------------------------------------------
(* Boundaries and corrections *)

\* Waiting windows keep the chain and the corrections on their way.
LEMMA ChainKept ==
  ASSUME NEW ws, NEW vs, NEW D, Len(ws) \in Nat, Chain(ws, D), KeptRow(ws, vs)
  PROVE  Chain(vs, D)
<1>1. Len(vs) = Len(ws)
  BY DEF KeptRow
<1>2. ASSUME NEW k \in 1 .. Len(vs) PROVE OwnResult(vs[k])
  <2>1. OwnResult(ws[k]) /\ Kept(ws[k], vs[k])
    BY <1>1 DEF Chain, KeptRow
  <2> QED BY <2>1 DEF OwnResult, Kept, Undecided
<1>3. ASSUME NEW k \in 2 .. Len(vs) PROVE Linked(vs[k - 1], vs[k], k - 1 \in D)
  <2>1. k \in 1 .. Len(ws) /\ k - 1 \in 1 .. Len(ws)
    BY <1>1
  <2>2. Kept(ws[k], vs[k]) /\ Kept(ws[k - 1], vs[k - 1])
    BY <2>1 DEF KeptRow
  <2>3. Linked(ws[k - 1], ws[k], k - 1 \in D)
    BY <1>1 DEF Chain
  <2> QED BY <2>2, <2>3 DEF Linked, Kept
<1> QED BY <1>1, <1>2, <1>3 DEF Chain

\* So are the corrections on their way.
LEMMA CorrectionsKept ==
  ASSUME NEW ws, NEW vs, Corrections(ws), KeptRow(ws, vs)
  PROVE  Corrections(vs)
<1>1. Len(vs) = Len(ws) /\ \A k \in 1 .. Len(ws) : Kept(ws[k], vs[k])
  BY DEF KeptRow
<1>2. ASSUME NEW k \in ToSet(wdo) PROVE k \in 1 .. Len(vs) /\ vs[k].stage = "sinking"
  BY <1>1 DEF Corrections, Kept, Undecided
<1>3. ASSUME NEW k \in ToSet(writes)
      PROVE  k \in 1 .. Len(vs) /\ vs[k].stage \in {"sinking", "resolving"}
  BY <1>1 DEF Corrections, Kept, Undecided
<1> QED BY <1>2, <1>3 DEF Corrections

\* So do new windows behind them: the first of them has the boundary of the
\* last old one if that was shipped, and is among its dependents if not.
LEMMA ChainGrown ==
  ASSUME NEW ws, NEW g, NEW D, NEW known, NEW cap, NEW n, Len(ws) \in Nat,
         Chain(ws, D), Grown(ws, g, known, cap, n)
  PROVE  Chain(g, D)
<1>1. /\ Len(g) \in Nat /\ Len(ws) <= Len(g)
      /\ \A k \in 1 .. Len(ws) : g[k] = ws[k]
      /\ \A k \in 1 .. Len(g) : k > Len(ws) =>
           IF k = 1 THEN g[k].stage = "open" /\ g[k].out = "none" /\ g[k].entry = "none"
           ELSE Fresh(g[k], g[k - 1])
  BY LenProperties DEF Grown
<1>2. ASSUME NEW k \in 1 .. Len(g) PROVE OwnResult(g[k])
  <2>1. CASE k <= Len(ws)
    <3>1. k \in 1 .. Len(ws)
      BY <2>1
    <3> QED BY <1>1, <3>1 DEF Chain
  <2>2. CASE k > Len(ws)
    <3>1. g[k].stage = "open" /\ g[k].out = "none" /\ g[k].entry = "none"
      BY <1>1, <2>2 DEF Fresh
    <3> QED BY <3>1 DEF OwnResult, Undecided
  <2> QED BY <2>1, <2>2
<1>3. ASSUME NEW k \in 2 .. Len(g) PROVE Linked(g[k - 1], g[k], k - 1 \in D)
  <2>1. CASE k <= Len(ws)
    <3>1. k \in 2 .. Len(ws) /\ k \in 1 .. Len(ws) /\ k - 1 \in 1 .. Len(ws)
      BY <2>1
    <3> QED BY <1>1, <3>1 DEF Chain
  <2>2. CASE k > Len(ws)
    <3>1. Fresh(g[k], g[k - 1])
      BY <1>1, <2>2
    <3>2. k - 1 \notin D
      <4>1. k \notin 1 .. Len(ws) /\ (k - 1) + 1 = k
        BY <2>2
      <4> QED BY <4>1 DEF Chain
    <3> QED BY <3>1, <3>2 DEF Fresh, Linked
  <2> QED BY <1>1, <2>1, <2>2
<1>4. ASSUME NEW k \in D PROVE k + 1 \in 1 .. Len(g) /\ k \in 1 .. Len(g)
  BY <1>1 DEF Chain
<1> QED BY <1>2, <1>3, <1>4 DEF Chain

\* The corrections on their way are those of the windows that were there.
LEMMA CorrectionsGrown ==
  ASSUME NEW ws, NEW g, NEW known, NEW cap, NEW n, Len(ws) \in Nat,
         Corrections(ws), Grown(ws, g, known, cap, n)
  PROVE  Corrections(g)
<1>1. Len(g) \in Nat /\ Len(ws) <= Len(g) /\ \A k \in 1 .. Len(ws) : g[k] = ws[k]
  BY LenProperties DEF Grown
<1> QED BY <1>1 DEF Corrections

-----------------------------------------------------------------------------
(* The QPU's side *)

\* The rounds of the segments.
LEMMA BodyFacts ==
  ASSUME mode \in Modes
  PROVE  /\ Body[mode.kind] \in Seq(Nat \ {0}) /\ Len(Body[mode.kind]) \in Nat
         /\ \A i \in 1 .. Len(Body[mode.kind]) :
              Body[mode.kind][i] \in Nat /\ Body[mode.kind][i] >= 1
<1> DEFINE body == Body[mode.kind]
<1>1. body \in Seq(Nat \ {0})
  BY StreamAssumption
<1> HIDE DEF body
<1>2. Len(body) \in Nat /\ \A i \in 1 .. Len(body) : body[i] \in Nat \ {0}
  BY <1>1, LenProperties, ElementOfSeq
<1> QED BY <1>1, <1>2 DEF body

\* What no step of the QPU or of a round touches stays.
LEMMA RoundsUnchanged ==
  ASSUME Scalars, Rounds, UNCHANGED <<qpuVars, roundVars, planVars>>
  PROVE  Scalars' /\ Rounds' /\ mode' = mode
<1>1. /\ UNCHANGED <<mode, next, segEnd, phase, at, arrived, transit, got, closed, end>>
      /\ Begun' = Begun /\ Reach' = Reach
  BY DEF qpuVars, roundVars, planVars, Begun, Reach
<1>2. Scalars'
  BY <1>1 DEF Scalars
<1> QED BY <1>1, <1>2 DEF Rounds

\* A segment that begins is bound behind every round reserved so far.
LEMMA BeginRounds ==
  ASSUME Scalars, Rounds, Begin
  PROVE  Scalars' /\ Rounds' /\ mode' = mode
<1>1. PICK body : body = Body[mode.kind]
  OBVIOUS
<1> DEFINE length == body[Begun + 1]
<1>2. /\ Begun \in Nat /\ Len(body) \in Nat /\ length \in Nat /\ length >= 1
      /\ Begun < Len(body) /\ next \in Nat /\ segEnd \in Seq(Nat)
      /\ \A i \in 1 .. Begun : segEnd[i] \in Nat
  <2>1. next \in Nat /\ segEnd \in Seq(Nat) /\ mode \in Modes
    BY DEF Scalars
  <2>2. Begun \in Nat /\ \A i \in 1 .. Begun : segEnd[i] \in Nat
    BY <2>1, LenProperties, ElementOfSeq DEF Begun
  <2>3. Len(body) \in Nat /\ \A i \in 1 .. Len(body) : body[i] \in Nat /\ body[i] >= 1
    BY <1>1, <2>1, BodyFacts
  <2>4. Begun < Len(body)
    BY <1>1 DEF Begin
  <2>5. Begun + 1 \in 1 .. Len(body)
    BY <2>2, <2>3, <2>4
  <2> QED BY <2>1, <2>2, <2>3, <2>4, <2>5
<1>3. /\ segEnd' = Append(segEnd, next + length) /\ mode' = mode
      /\ next' = IF mode.kind = "protected" THEN next ELSE next + length
      /\ phase' = IF mode.kind = "protected" THEN "running" ELSE "waiting"
      /\ at' = 0
      /\ UNCHANGED <<arrived, transit, got, closed, end>>
      /\ Begun = 0 \/ phase = "ended"
  BY <1>1 DEF Begin, roundVars, planVars
<1> HIDE DEF length
<1>4. next + length \in Nat
  BY <1>2
<1>5. /\ segEnd' \in Seq(Nat) /\ Begun' = Begun + 1
      /\ \A i \in 1 .. Begun : segEnd'[i] = segEnd[i]
      /\ segEnd'[Begun + 1] = next + length
  BY <1>2, <1>3, <1>4, AppendProperties DEF Begun
<1>6. Scalars'
  BY <1>2, <1>3, <1>5 DEF Scalars
<1>7. \A i \in 1 .. Begun : segEnd[i] <= next + length
  <2>1. CASE mode.kind = "protected"
    <3>1. CASE Begun = 0
      BY <3>1
    <3>2. CASE phase = "ended"
      <4>1. Reach = next + 1
        BY <2>1, <3>2 DEF Reach
      <4>2. \A i \in 1 .. Begun : segEnd[i] <= next + 1
        BY <2>1, <3>2, <4>1 DEF Rounds
      <4>3. next + 1 <= next + length /\ next + 1 \in Nat
        BY <1>2
      <4> QED BY <1>2, <1>4, <4>2, <4>3
    <3> QED BY <1>3, <3>1, <3>2
  <2>2. CASE mode.kind # "protected"
    BY <1>2, <2>2 DEF Rounds
  <2> QED BY <2>1, <2>2
<1>8. \A i \in 1 .. Begun' : body[i] <= segEnd'[i] /\ segEnd'[i] <= segEnd'[Begun']
  <2> SUFFICES ASSUME NEW i \in 1 .. (Begun + 1)
               PROVE  body[i] <= segEnd'[i] /\ segEnd'[i] <= next + length
    BY <1>5
  <2>1. CASE i \in 1 .. Begun
    BY <1>1, <1>2, <1>5, <1>7, <2>1 DEF Rounds
  <2>2. CASE i = Begun + 1
    BY <1>2, <1>5, <2>2 DEF length
  <2> QED BY <1>2, <2>1, <2>2
<1>9. mode.kind # "protected" => \A i \in 1 .. Begun' : segEnd'[i] <= next'
  BY <1>3, <1>5, <1>8
<1>10. arrived' <= next' /\ \A r \in ToSet(transit') : r <= next'
  <2>1. ToSet(transit) \subseteq Nat /\ next <= next' /\ next' \in Nat
    BY <1>2, <1>3, ToSetOfSeq DEF Scalars
  <2> QED BY <1>2, <1>3, <2>1 DEF Rounds, Scalars
<1>11. /\ phase' \in {"waiting", "running"} /\ Begun' > 0 /\ Begun' <= Len(body)
       /\ mode.kind = "protected" => phase' = "running"
       /\ mode.kind # "protected" => phase' = "waiting"
  BY <1>2, <1>3, <1>5
<1>12. Body[mode'.kind] = body
  BY <1>1, <1>3
<1> HIDE DEF length
<1> QED BY <1>3, <1>6, <1>8, <1>9, <1>10, <1>11, <1>12 DEF Rounds

\* A round the QPU emits joins those on their way.
LEMMA EmitRounds ==
  ASSUME Scalars, Rounds, mode' = mode, segEnd' = segEnd, next' \in Nat, next <= next',
         NEW r \in Nat, r <= next', transit' = Append(transit, r),
         arrived' = arrived
  PROVE  /\ transit' \in Seq(Nat) /\ Begun' = Begun
         /\ arrived' <= next' /\ \A x \in ToSet(transit') : x <= next'
<1>1. transit \in Seq(Nat) /\ arrived \in Nat /\ next \in Nat
  BY DEF Scalars
<1>2. transit' \in Seq(Nat) /\ ToSet(transit') = ToSet(transit) \cup {r}
        /\ ToSet(transit) \subseteq Nat
  BY <1>1, AppendElements, ToSetOfSeq
<1> QED BY <1>1, <1>2 DEF Begun, Rounds

\* A step that emits at most one round, leaves the segments where they are and
\* the body of the latest one where it was.
LEMMA EmissionRounds ==
  ASSUME Scalars, Rounds, IdleRound \/ ProtectedRound
  PROVE  Scalars' /\ Rounds' /\ mode' = mode
<1>1. next \in Nat /\ next' = next + 1 /\ transit' = Append(transit, next')
  BY DEF Scalars, IdleRound, ProtectedRound, Emitted
<1>2. /\ mode' = mode /\ segEnd' = segEnd /\ at' = at
      /\ UNCHANGED <<arrived, got, closed, end>>
      /\ phase' = phase \/ (mode.kind = "protected" /\ phase = "closing" /\ phase' = "sealing")
  BY DEF IdleRound, ProtectedRound, planVars
<1>3. /\ transit' \in Seq(Nat) /\ Begun' = Begun
      /\ arrived' <= next' /\ \A x \in ToSet(transit') : x <= next'
  BY <1>1, <1>2, EmitRounds
<1>4. Scalars'
  BY <1>1, <1>2, <1>3 DEF Scalars
<1>5. Reach \in Nat /\ Reach' \in Nat /\ Reach <= Reach' /\ next <= next'
  BY <1>1, <1>2 DEF Reach
<1>6. Begun \in Nat /\ \A i \in 1 .. Begun : segEnd[i] \in Nat
  BY LenProperties, ElementOfSeq DEF Scalars, Begun
<1>7. ASSUME NEW i \in 1 .. Begun
      PROVE  /\ mode.kind = "protected" /\ phase' # "running" => segEnd'[i] <= Reach'
             /\ mode.kind # "protected" => segEnd'[i] <= next'
  BY <1>1, <1>2, <1>5, <1>6 DEF Rounds
<1> QED BY <1>2, <1>3, <1>4, <1>7 DEF Rounds

\* A segment's own round.
LEMMA BodyRounds ==
  ASSUME Scalars, Rounds, BodyRound
  PROVE  Scalars' /\ Rounds' /\ mode' = mode
<1>1. PICK body : body = Body[mode.kind]
  OBVIOUS
<1> DEFINE r == segEnd[Begun] - body[Begun] + at + 1
<1>2. /\ mode.kind # "protected" /\ phase = "running" /\ mode' = mode
      /\ at' = at + 1 /\ transit' = Append(transit, r)
      /\ UNCHANGED <<next, segEnd, arrived, got, end>>
      /\ IF at' = body[Begun] THEN phase' = "ended" ELSE phase' = phase
      /\ closed' = closed \/ closed' = closed \cup {segEnd[Begun]}
  BY <1>1 DEF BodyRound, BodyEnds, CloseBoundary
<1>3. /\ Begun \in Nat /\ Begun >= 1 /\ next \in Nat /\ at \in Nat
      /\ \A i \in 1 .. Begun : segEnd[i] \in Nat
      /\ closed \subseteq Nat
  <2>1. Begun \in Nat /\ \A i \in 1 .. Begun : segEnd[i] \in Nat
    BY LenProperties, ElementOfSeq DEF Begun, Scalars
  <2>2. Begun > 0
    BY <1>2 DEF Rounds
  <2> QED BY <2>1, <2>2 DEF Scalars
<1>4. /\ body[Begun] \in Nat /\ body[Begun] <= segEnd[Begun]
      /\ segEnd[Begun] <= next /\ at < body[Begun]
  <2>1. Begun \in 1 .. Begun /\ Begun \in 1 .. Len(body)
    BY <1>1, <1>3, BodyFacts DEF Scalars, Rounds
  <2>2. body[Begun] \in Nat
    BY <1>1, <2>1, BodyFacts DEF Scalars
  <2> QED BY <1>1, <1>2, <2>1, <2>2 DEF Rounds
<1>5. r \in Nat /\ r <= next'
  BY <1>2, <1>3, <1>4
<1> HIDE DEF r
<1>6. /\ transit' \in Seq(Nat) /\ Begun' = Begun
      /\ arrived' <= next' /\ \A x \in ToSet(transit') : x <= next'
  BY <1>2, <1>3, <1>5, EmitRounds
<1>7. closed' \subseteq Nat
  <2>1. segEnd[Begun] \in Nat
    BY <1>3
  <2> QED BY <1>2, <1>3, <2>1
<1>8. Scalars'
  BY <1>2, <1>3, <1>6, <1>7 DEF Scalars
<1>9. phase' = "running" => at' < body[Begun]
  BY <1>2, <1>3, <1>4
<1>10. Body[mode'.kind] = body /\ phase' \in {"running", "ended"}
  BY <1>1, <1>2
<1> QED BY <1>1, <1>2, <1>3, <1>6, <1>8, <1>9, <1>10 DEF Rounds

\* A segment of a protected stream ends when the region's cycle is there.
LEMMA ProtectedRounds ==
  ASSUME Scalars, Rounds, ProtectedBodyEnds
  PROVE  Scalars' /\ Rounds' /\ mode' = mode
<1>1. /\ mode.kind = "protected" /\ phase = "running" /\ mode' = mode
      /\ next = segEnd[Begun] - (IF Begun = 1 THEN 1 ELSE 0)
      /\ phase' \in {"closing", "ended"}
      /\ UNCHANGED <<next, segEnd, at, transit, arrived, got, end>>
      /\ closed' = closed \/ closed' = closed \cup {segEnd[Begun]}
  BY DEF ProtectedBodyEnds, BodyEnds, CloseBoundary, roundVars
<1>2. /\ Begun \in Nat /\ Begun >= 1 /\ next \in Nat /\ closed \subseteq Nat
      /\ \A i \in 1 .. Begun : segEnd[i] \in Nat
  <2>1. Begun \in Nat /\ \A i \in 1 .. Begun : segEnd[i] \in Nat
    BY LenProperties, ElementOfSeq DEF Begun, Scalars
  <2>2. Begun > 0
    BY <1>1 DEF Rounds
  <2> QED BY <2>1, <2>2 DEF Scalars
<1>3. segEnd[Begun] \in Nat /\ closed' \subseteq Nat /\ Begun' = Begun
  <2>1. segEnd[Begun] \in Nat
    BY <1>2
  <2>2. Begun' = Begun
    BY <1>1 DEF Begun
  <2> QED BY <1>1, <1>2, <2>1, <2>2
<1>4. Scalars'
  BY <1>1, <1>3 DEF Scalars
<1>5. Reach' = next + 1
  BY <1>1 DEF Reach
<1>6. \A i \in 1 .. Begun : segEnd[i] <= next + 1
  BY <1>1, <1>2, <1>3 DEF Rounds
<1> QED BY <1>1, <1>2, <1>3, <1>4, <1>5, <1>6 DEF Rounds

\* Sealing reserves nothing more.
LEMMA SealRounds ==
  ASSUME Scalars, Rounds, Seal
  PROVE  Scalars' /\ Rounds' /\ mode' = mode
<1>1. /\ mode' = mode /\ end' = next /\ phase' = "sealed"
      /\ UNCHANGED <<next, segEnd, at, transit, arrived, got, closed>>
      /\ \/ mode.kind = "open" /\ phase = "ended"
         \/ phase = "sealing"
  BY DEF Seal, CanSeal, roundVars
<1>2. Scalars' /\ Begun' = Begun /\ next \in Nat
  BY <1>1 DEF Scalars, Begun
<1>3. Begun > 0 /\ Reach' = next /\ (mode.kind = "protected" => Reach = next)
  BY <1>1 DEF Reach, Rounds
<1>4. mode.kind = "protected" => \A i \in 1 .. Begun : segEnd[i] <= next
  BY <1>1, <1>3 DEF Rounds
<1> QED BY <1>1, <1>2, <1>3, <1>4 DEF Rounds

\* A round that arrives or is given up was emitted.
LEMMA TransitRounds ==
  ASSUME Scalars, Rounds, Arrive \/ Drop
  PROVE  Scalars' /\ Rounds' /\ mode' = mode
<1>1. /\ transit \in Seq(Nat) /\ transit # <<>> /\ transit' = Tail(transit)
  BY DEF Scalars, Arrive, Drop
<1>2. /\ Head(transit) \in Nat /\ transit' \in Seq(Nat)
      /\ ToSet(transit) = {Head(transit)} \cup ToSet(transit')
  BY <1>1, HeadAndTail
<1>3. /\ UNCHANGED <<mode, next, segEnd, phase, at, closed>>
      /\ arrived' = arrived \/ arrived' = Most(arrived, Head(transit))
      /\ got' = got \/ got' = got \cup {Head(transit)}
      /\ end' = end \/ end' = Limit
  BY DEF Arrive, Drop, qpuVars, planVars
<1>4. arrived' \in Nat /\ arrived' <= next
  BY <1>2, <1>3 DEF Scalars, Rounds, Most
<1>5. got' \subseteq Nat /\ end' \in Nat
  BY <1>2, <1>3, StreamAssumption DEF Scalars
<1>6. Scalars' /\ Begun' = Begun /\ Reach' = Reach
  BY <1>2, <1>3, <1>4, <1>5 DEF Scalars, Begun, Reach
<1> QED BY <1>2, <1>3, <1>4, <1>6 DEF Rounds

\* The step of a window touches none of this.
LEMMA RoundsStep ==
  ASSUME Scalars, Rounds, [Next]_vars
  PROVE  Scalars' /\ Rounds' /\ mode' = mode
<1>1. CASE Begin
  BY <1>1, BeginRounds
<1>2. CASE Start
  <2>1. /\ phase = "waiting" /\ Begun > 0 /\ phase' = "running"
        /\ UNCHANGED <<mode, next, segEnd, at, transit, arrived, got, closed, end>>
    BY <1>2 DEF Start, roundVars, planVars
  <2>2. Scalars' /\ Begun' = Begun
    BY <2>1 DEF Scalars, Begun
  <2>3. mode.kind # "protected" /\ at = 0
    BY <2>1 DEF Rounds
  <2>4. Body[mode.kind][Begun] >= 1
    <3>1. Begun \in Nat
      BY LenProperties DEF Scalars, Begun
    <3>2. Begun \in 1 .. Len(Body[mode.kind])
      BY <2>1, <3>1, BodyFacts DEF Scalars, Rounds
    <3> QED BY <3>2, BodyFacts DEF Scalars
  <2>5. at' < Body[mode.kind][Begun]
    <3>1. PICK x : x = Body[mode.kind][Begun]
      OBVIOUS
    <3>2. x \in Nat
      <4>1. Begun \in Nat
        BY LenProperties DEF Scalars, Begun
      <4>2. Begun \in 1 .. Len(Body[mode.kind])
        BY <2>1, <4>1, BodyFacts DEF Scalars, Rounds
      <4> QED BY <3>1, <4>2, BodyFacts DEF Scalars
    <3> QED BY <2>1, <2>3, <2>4, <3>1, <3>2
  <2> QED BY <2>1, <2>2, <2>3, <2>5 DEF Rounds
<1>3. CASE IdleRound \/ ProtectedRound
  BY <1>3, EmissionRounds
<1>4. CASE BodyRound
  BY <1>4, BodyRounds
<1>5. CASE ProtectedBodyEnds
  BY <1>5, ProtectedRounds
<1>6. CASE Seal
  BY <1>6, SealRounds
<1>7. CASE Arrive \/ Drop
  BY <1>7, TransitRounds
<1>8. CASE SinkWeak \/ Install \/ \E k \in DOMAIN win : Decoding(k)
  <2>1. UNCHANGED <<qpuVars, roundVars, planVars>>
    BY <1>8 DEF SinkWeak, Install, Decoding, Land, DecodeFinal, DecodeEscalated,
       SinkStrong, Receive
  <2> QED BY <2>1, RoundsUnchanged
<1>9. CASE UNCHANGED vars
  BY <1>9, RoundsUnchanged DEF vars
<1> QED BY <1>1, <1>2, <1>3, <1>4, <1>5, <1>6, <1>7, <1>8, <1>9
        DEF Next, Work, Emission

-----------------------------------------------------------------------------
(* Steps that plan windows or move their holds *)

\* A row written over the windows of another keeps what the windows keep.
LEMMA RewrittenRow ==
  ASSUME NEW ws \in Seq(WindowType), NEW vs, DOMAIN vs = DOMAIN ws,
         vs = [k \in DOMAIN ws |-> vs[k]],
         \A k \in 1 .. Len(ws) : vs[k] \in WindowType /\ Kept(ws[k], vs[k])
  PROVE  KeptRow(ws, vs)
BY RowBy DEF KeptRow

\* A window whose hold is moved keeps the rest.
LEMMA HoldKept ==
  ASSUME NEW w \in WindowType, NEW r \in Nat, NEW v, v = [w EXCEPT !.rhi = r]
  PROVE  v \in WindowType /\ Kept(w, v) /\ v.lo = w.lo /\ v.hi = w.hi
<1>1. v \in WindowType
  BY HoldMoved
<1>2. /\ v.chained = w.chained /\ v.deps = w.deps /\ v.inb = w.inb /\ v.out = w.out
      /\ v.entry = w.entry /\ v.says = w.says /\ v.stage = w.stage
      /\ v.lo = w.lo /\ v.hi = w.hi
  BY DEF WindowType
<1> QED BY <1>1, <1>2 DEF Kept

\* So does the tail window that is clipped.
LEMMA ClipKept ==
  ASSUME NEW w \in WindowType, NEW n \in Nat, NEW v, v = Clip(w, n)
  PROVE  v \in WindowType /\ Kept(w, v) /\ v.lo = w.lo /\ v.hi = n
<1>1. n + B \in Nat
  BY StreamAssumption
<1>2. v = [w EXCEPT !.hi = n, !.bhi = n + B, !.rhi = n]
  BY DEF Clip
<1>3. PICK m : m = n + B
  OBVIOUS
<1>4. v \in WindowType
  BY <1>1, <1>2, <1>3 DEF WindowType
<1>5. /\ v.chained = w.chained /\ v.deps = w.deps /\ v.inb = w.inb /\ v.out = w.out
      /\ v.entry = w.entry /\ v.says = w.says /\ v.stage = w.stage
      /\ v.lo = w.lo /\ v.hi = n
  BY <1>2 DEF WindowType
<1> QED BY <1>4, <1>5 DEF Kept

\* A boundary that closes plans up to it, moves the holds and submits.
LEMMA CloseFacts ==
  ASSUME Scalars, Tables, NEW b \in Nat, CloseBoundary(b)
  PROVE  \E g : Grown(win, g, b, None, end) /\ KeptRow(g, win') /\ SameRegions(g, win')
<1> DEFINE shut == closed \cup {b}
           g == Grow(win, b, None, shut, end)
           fresh == [k \in DOMAIN g |->
                       IF g[k].stage # "open" THEN g[k]
                       ELSE [g[k] EXCEPT !.rhi = ReadsTo(g[k], shut, end)]]
<1>1. shut \subseteq Nat /\ end \in Nat /\ win \in Seq(WindowType) /\ got \ freed \subseteq Nat
      /\ None \in Nat
  BY DEF Scalars, Tables, None
<1>2. win' = Check(fresh, arrived, shut, end, got \ freed)
  BY DEF CloseBoundary, Settle
<1> HIDE DEF shut
<1>3. Grown(win, g, b, None, end)
  BY <1>1, GrowFacts
<1> HIDE DEF g
<1>4. g \in Seq(WindowType) /\ Len(g) \in Nat /\ DOMAIN g = 1 .. Len(g)
  BY <1>3, LenProperties DEF Grown
<1>5. ASSUME NEW k \in 1 .. Len(g)
      PROVE  /\ fresh[k] \in WindowType /\ Kept(g[k], fresh[k])
             /\ fresh[k].lo = g[k].lo /\ fresh[k].hi = g[k].hi
  <2>1. g[k] \in WindowType /\ g[k].bhi \in Nat
    BY <1>4, WindowFields
  <2>2. ReadsTo(g[k], shut, end) \in Nat
    BY <1>1, <2>1, ReadsToNat
  <2>3. PICK w, v, r : w = g[k] /\ v = fresh[k] /\ r = ReadsTo(g[k], shut, end)
    OBVIOUS
  <2>4. v = w \/ v = [w EXCEPT !.rhi = r]
    BY <1>4, <2>3
  <2> HIDE DEF fresh
  <2>5. CASE v = w
    BY <2>1, <2>3, <2>5 DEF Kept
  <2>6. CASE v = [w EXCEPT !.rhi = r]
    <3>1. v \in WindowType /\ Kept(w, v) /\ v.lo = w.lo /\ v.hi = w.hi
      BY <2>1, <2>2, <2>3, <2>6, HoldKept
    <3> QED BY <2>3, <3>1
  <2> QED BY <2>4, <2>5, <2>6
<1>6. DOMAIN fresh = DOMAIN g /\ fresh = [k \in DOMAIN g |-> fresh[k]]
  OBVIOUS
<1> HIDE DEF fresh
<1>7. KeptRow(g, fresh)
  BY <1>4, <1>5, <1>6, RewrittenRow
<1>8. fresh \in Seq(WindowType) /\ Len(fresh) = Len(g)
  BY <1>7 DEF KeptRow
<1>9. KeptRow(fresh, win') /\ SameRegions(fresh, win')
  BY <1>1, <1>2, <1>8, CheckFacts
<1>10. KeptRow(g, win') /\ SameRegions(g, win')
  BY <1>4, <1>5, <1>7, <1>8, <1>9, KeptTwice DEF SameRegions
<1> QED BY <1>3, <1>10

\* A round that arrives plans up to it and submits.
LEMMA ArriveFacts ==
  ASSUME Scalars, Tables, Arrive
  PROVE  \E g : /\ Grown(win, g, arrived', None, end)
                /\ KeptRow(g, win') /\ SameRegions(g, win')
<1> DEFINE g == Grow(win, arrived', None, closed, end)
<1>1. /\ closed \subseteq Nat /\ end \in Nat /\ win \in Seq(WindowType) /\ None \in Nat
      /\ transit \in Seq(Nat) /\ transit # <<>> /\ got \subseteq Nat /\ arrived \in Nat
  BY DEF Scalars, Tables, None, Arrive
<1>2. Head(transit) \in Nat
  BY <1>1, HeadAndTail
<1>3. arrived' \in Nat /\ got' \ freed \subseteq Nat
  BY <1>1, <1>2 DEF Arrive, Most
<1>4. \E n : win' = Check(g, arrived', closed, n, got' \ freed)
  BY DEF Arrive, Settle
<1>5. Grown(win, g, arrived', None, end)
  BY <1>1, <1>3, GrowFacts
<1> HIDE DEF g
<1>6. g \in Seq(WindowType)
  BY <1>5 DEF Grown
<1>7. KeptRow(g, win') /\ SameRegions(g, win')
  BY <1>3, <1>4, <1>6, CheckFacts
<1> QED BY <1>5, <1>7

\* Sealing plans up to the end of the stream, cuts the tail and submits.
LEMMA SealFacts ==
  ASSUME Scalars, Tables, Seal
  PROVE  \E g : /\ Grown(win, g, next, next, end) /\ KeptRow(g, win')
                /\ \A k \in 1 .. Len(g) :
                     /\ win'[k].lo = g[k].lo
                     /\ win'[k].hi = IF k = Min(TailOf(g)) THEN next ELSE g[k].hi
<1> DEFINE g == Grow(win, next, next, closed, end)
           tail == Min(TailOf(g))
           clipped == [g EXCEPT ![tail] = Clip(g[tail], next)]
<1>1. /\ closed \subseteq Nat /\ end \in Nat /\ win \in Seq(WindowType)
      /\ next \in Nat /\ got \ freed \subseteq Nat
  BY DEF Scalars, Tables
<1>2. win' = Check(clipped, arrived, closed, next, got \ freed)
  BY DEF Seal, Settle
<1>3. Grown(win, g, next, next, end)
  BY <1>1, GrowFacts
<1> HIDE DEF g
<1>4. g \in Seq(WindowType) /\ Len(g) \in Nat /\ DOMAIN g = 1 .. Len(g)
  BY <1>3, LenProperties DEF Grown
<1> HIDE DEF tail
<1>5. ASSUME NEW k \in 1 .. Len(g)
      PROVE  /\ clipped[k] \in WindowType /\ Kept(g[k], clipped[k])
             /\ clipped[k].lo = g[k].lo
             /\ clipped[k].hi = IF k = tail THEN next ELSE g[k].hi
  <2>1. g[k] \in WindowType
    BY <1>4, WindowFields
  <2>2. PICK w, v : w = g[k] /\ v = clipped[k]
    OBVIOUS
  <2>3. CASE k = tail
    <3>1. v = Clip(w, next)
      BY <1>4, <2>2, <2>3
    <3>2. v \in WindowType /\ Kept(w, v) /\ v.lo = w.lo /\ v.hi = next
      BY <1>1, <2>1, <2>2, <3>1, ClipKept
    <3> QED BY <2>2, <2>3, <3>2
  <2>4. CASE k # tail
    <3>1. v = w
      BY <1>4, <2>2, <2>4
    <3> HIDE DEF clipped
    <3> QED BY <2>1, <2>2, <2>4, <3>1 DEF Kept
  <2> QED BY <2>3, <2>4
<1>6. DOMAIN clipped = DOMAIN g /\ clipped = [k \in DOMAIN g |-> clipped[k]]
  OBVIOUS
<1> HIDE DEF clipped
<1>7. KeptRow(g, clipped)
  BY <1>4, <1>5, <1>6, RewrittenRow
<1>8. clipped \in Seq(WindowType) /\ Len(clipped) = Len(g)
  BY <1>7 DEF KeptRow
<1>9. KeptRow(clipped, win') /\ SameRegions(clipped, win')
  BY <1>1, <1>2, <1>8, CheckFacts
<1>10. KeptRow(g, win')
  BY <1>4, <1>7, <1>9, KeptTwice
<1>11. \A k \in 1 .. Len(g) :
         /\ win'[k].lo = g[k].lo
         /\ win'[k].hi = IF k = Min(TailOf(g)) THEN next ELSE g[k].hi
  BY <1>5, <1>8, <1>9 DEF SameRegions, tail
<1> QED BY <1>3, <1>10, <1>11

-----------------------------------------------------------------------------
(* Steps of one window *)

\* Planning keeps the boundaries and the corrections in order.
LEMMA GrowthBoundary ==
  ASSUME BoundaryInv, NEW g, NEW known, NEW cap, NEW n,
         Grown(win, g, known, cap, n), KeptRow(g, win'), UNCHANGED <<wdo, writes, dd>>
  PROVE  BoundaryInv'
<1>1. Len(win) \in Nat /\ Len(g) \in Nat
  BY LenProperties DEF BoundaryInv, Tables, Grown
<1>2. Chain(g, dd) /\ Corrections(g)
  BY <1>1, ChainGrown, CorrectionsGrown DEF BoundaryInv
<1>3. Chain(win', dd) /\ Corrections(win')
  BY <1>1, <1>2, ChainKept, CorrectionsKept
<1>4. win' \in Seq(WindowType)
  BY DEF KeptRow
<1> QED BY <1>3, <1>4 DEF BoundaryInv, Tables, Chain, Corrections

\* So do the steps that only move windows on in their waiting.
LEMMA KeptBoundary ==
  ASSUME BoundaryInv, KeptRow(win, win'), UNCHANGED <<wdo, writes, dd>>
  PROVE  BoundaryInv'
<1>1. Len(win) \in Nat
  BY LenProperties DEF BoundaryInv, Tables
<1>2. Chain(win', dd) /\ Corrections(win')
  BY <1>1, ChainKept, CorrectionsKept DEF BoundaryInv
<1>3. win' \in Seq(WindowType)
  BY DEF KeptRow
<1> QED BY <1>2, <1>3 DEF BoundaryInv, Tables, Chain, Corrections

\* The row vs has v at k, and the windows of ws elsewhere.
Edited(ws, vs, k, v) ==
  /\ vs \in Seq(WindowType) /\ Len(vs) = Len(ws) /\ vs[k] = v
  /\ \A j \in 1 .. Len(ws) : j # k => vs[j] = ws[j]

\* Replacing one window of a row.
LEMMA EditOne ==
  ASSUME NEW ws \in Seq(WindowType), NEW k \in 1 .. Len(ws), NEW v \in WindowType,
         NEW vs, vs = [ws EXCEPT ![k] = v]
  PROVE  Edited(ws, vs, k, v)
<1>1. Len(ws) \in Nat /\ DOMAIN ws = 1 .. Len(ws)
  BY LenProperties
<1>2. vs[k] = v /\ \A j \in 1 .. Len(ws) : j # k => vs[j] = ws[j]
  BY <1>1
<1>3. \A j \in 1 .. Len(ws) : vs[j] \in WindowType
  BY <1>2, WindowFields
<1>4. DOMAIN vs = DOMAIN ws /\ vs = [j \in DOMAIN ws |-> vs[j]]
  OBVIOUS
<1>5. vs \in Seq(WindowType) /\ Len(vs) = Len(ws)
  BY <1>3, <1>4, RowBy
<1> QED BY <1>2, <1>5 DEF Edited

\* A chain in which one window and the boundaries next to it change.
LEMMA ChainEdited ==
  ASSUME NEW ws, NEW vs, NEW D, NEW E, Len(ws) \in Nat, Chain(ws, D),
         NEW k \in 1 .. Len(ws), NEW v, Edited(ws, vs, k, v), OwnResult(v),
         k > 1 => Linked(ws[k - 1], v, k - 1 \in E),
         k < Len(ws) => Linked(v, ws[k + 1], k \in E),
         \A j \in Nat : j # k /\ j # k - 1 => (j \in E <=> j \in D),
         \A j \in E : j + 1 \in 1 .. Len(ws) /\ j \in 1 .. Len(ws)
  PROVE  Chain(vs, E)
<1>1. Len(vs) = Len(ws) /\ vs[k] = v /\ \A j \in 1 .. Len(ws) : j # k => vs[j] = ws[j]
  BY DEF Edited
<1>2. ASSUME NEW j \in 1 .. Len(vs) PROVE OwnResult(vs[j])
  BY <1>1 DEF Chain
<1>3. ASSUME NEW j \in 2 .. Len(vs) PROVE Linked(vs[j - 1], vs[j], j - 1 \in E)
  <2>1. j \in 1 .. Len(ws) /\ j - 1 \in 1 .. Len(ws) /\ j - 1 \in Nat /\ j \in 2 .. Len(ws)
    BY <1>1
  <2>2. CASE j = k
    <3>1. vs[j - 1] = ws[k - 1] /\ vs[j] = v /\ k > 1
      BY <1>1, <2>1, <2>2
    <3> QED BY <2>2, <3>1
  <2>3. CASE j = k + 1
    <3>1. vs[j] = ws[k + 1] /\ vs[j - 1] = v /\ k < Len(ws) /\ j - 1 = k
      BY <1>1, <2>1, <2>3
    <3> QED BY <3>1
  <2>4. CASE j # k /\ j # k + 1
    <3>1. vs[j] = ws[j] /\ vs[j - 1] = ws[j - 1] /\ j - 1 # k /\ j - 1 # k - 1
      BY <1>1, <2>1, <2>4
    <3>2. j - 1 \in E <=> j - 1 \in D
      BY <2>1, <3>1
    <3>3. Linked(ws[j - 1], ws[j], j - 1 \in D)
      BY <2>1 DEF Chain
    <3> QED BY <3>1, <3>2, <3>3 DEF Linked
  <2> QED BY <2>2, <2>3, <2>4
<1> QED BY <1>1, <1>2, <1>3 DEF Chain

\* A window that ships its boundary: it goes to the next one, if that is there,
\* for it is among the dependents until it has a boundary.
LEMMA ChainShipped ==
  ASSUME NEW ws \in Seq(WindowType), NEW vs, NEW D, D \subseteq Nat, Chain(ws, D),
         NEW k \in 1 .. Len(ws), NEW v, Edited(ws, vs, k, v), ws[k].out = "none",
         OwnResult(v), v.out # "none",
         v.chained = ws[k].chained, v.deps = ws[k].deps, v.inb = ws[k].inb, v.deps = 0,
         NEW E, E = D \cup (IF k + 1 \in 1 .. Len(ws) /\ ws[k + 1].chained THEN {k} ELSE {})
  PROVE  Chain(vs, E)
<1>1. Len(ws) \in Nat /\ k \in Nat /\ DOMAIN ws = 1 .. Len(ws)
  BY LenProperties
<1>2. k > 1 => Linked(ws[k - 1], v, k - 1 \in E)
  <2> SUFFICES ASSUME k > 1 PROVE Linked(ws[k - 1], v, k - 1 \in E)
    OBVIOUS
  <2>1. Linked(ws[k - 1], ws[k], k - 1 \in D)
    BY <1>1 DEF Chain
  <2>2. k - 1 \in E <=> k - 1 \in D
    BY <1>1
  <2> QED BY <2>1, <2>2 DEF Linked
<1>3. k < Len(ws) => Linked(v, ws[k + 1], k \in E)
  <2> SUFFICES ASSUME k < Len(ws) PROVE Linked(v, ws[k + 1], k \in E)
    OBVIOUS
  <2>1. k + 1 \in 2 .. Len(ws) /\ k + 1 \in 1 .. Len(ws) /\ (k + 1) - 1 = k
    BY <1>1
  <2>2. Linked(ws[k], ws[k + 1], k \in D)
    <3>1. Linked(ws[(k + 1) - 1], ws[k + 1], (k + 1) - 1 \in D)
      BY <2>1 DEF Chain
    <3> QED BY <2>1, <3>1
  <2>3. ws[k + 1].deps \in {0, 1}
    BY <2>1, WindowFields
  <2>4. ws[k + 1].deps = 1 /\ ws[k + 1].chained
    BY <2>2, <2>3 DEF Linked
  <2>5. k \in E
    BY <2>1, <2>4
  <2> QED BY <2>2, <2>4, <2>5 DEF Linked
<1>4. \A j \in Nat : j # k /\ j # k - 1 => (j \in E <=> j \in D)
  OBVIOUS
<1>5. \A j \in E : j + 1 \in 1 .. Len(ws) /\ j \in 1 .. Len(ws)
  BY DEF Chain
<1> QED BY <1>1, <1>2, <1>3, <1>4, <1>5, ChainEdited

\* A window that ships nothing, and had shipped what it has now.
LEMMA ChainStays ==
  ASSUME NEW ws \in Seq(WindowType), NEW vs, NEW D, Chain(ws, D),
         NEW k \in 1 .. Len(ws), NEW v, Edited(ws, vs, k, v), OwnResult(v),
         v.chained = ws[k].chained, v.deps = ws[k].deps, v.inb = ws[k].inb,
         v.out = ws[k].out
  PROVE  Chain(vs, D)
<1>1. Len(ws) \in Nat /\ k \in Nat
  BY LenProperties
<1>2. k > 1 => Linked(ws[k - 1], v, k - 1 \in D)
  <2>1. k > 1 => Linked(ws[k - 1], ws[k], k - 1 \in D)
    BY <1>1 DEF Chain
  <2> QED BY <2>1 DEF Linked
<1>3. k < Len(ws) => Linked(v, ws[k + 1], k \in D)
  <2> SUFFICES ASSUME k < Len(ws) PROVE Linked(v, ws[k + 1], k \in D)
    OBVIOUS
  <2>1. k + 1 \in 2 .. Len(ws) /\ (k + 1) - 1 = k
    BY <1>1
  <2>2. Linked(ws[(k + 1) - 1], ws[k + 1], (k + 1) - 1 \in D)
    BY <2>1 DEF Chain
  <2> QED BY <2>1, <2>2 DEF Linked
<1>5. \A j \in D : j + 1 \in 1 .. Len(ws) /\ j \in 1 .. Len(ws)
  BY DEF Chain
<1>6. \A j \in Nat : j # k /\ j # k - 1 => (j \in D <=> j \in D)
  OBVIOUS
<1> QED BY <1>1, <1>2, <1>3, <1>5, <1>6, ChainEdited

\* What follows the head of a sequence without repetitions has none.
LEMMA TailInjective ==
  ASSUME NEW S, NEW s \in Seq(S), s # <<>>, IsInjective(s)
  PROVE  IsInjective(Tail(s))
<1>1. Len(s) \in Nat /\ Len(s) >= 1
  BY LenProperties, EmptySeq
<1>2. Tail(s) = SubSeq(s, 1 + 1, Len(s))
  BY <1>1
<1>3. 1 \in 0 .. Len(s)
  BY <1>1
<1>4. IsInjective(SubSeq(s, 1 + 1, Len(s)))
  BY <1>3, CutElements, Zenon
<1> QED BY <1>2, <1>4

\* A decode whose result is accepted ships the boundary at once.
LEMMA DecodeFinalBoundary ==
  ASSUME BoundaryInv, NEW k \in DOMAIN win, DecodeFinal(k)
  PROVE  BoundaryInv'
<1>1. PICK w : w = win[k]
  OBVIOUS
<1> DEFINE v == [w EXCEPT !.out = "weak", !.stage = "sinking"]
<1>2. /\ win \in Seq(WindowType) /\ Len(win) \in Nat /\ DOMAIN win = 1 .. Len(win)
      /\ k \in 1 .. Len(win) /\ k \in Nat
      /\ w \in WindowType /\ OwnResult(w) /\ w.stage = "landed" /\ w.deps = 0
      /\ w.out = "none"
  <2>1. win \in Seq(WindowType) /\ Len(win) \in Nat /\ DOMAIN win = 1 .. Len(win)
    BY LenProperties DEF BoundaryInv, Tables
  <2>2. OwnResult(w) /\ w \in WindowType
    BY <1>1, <2>1, WindowFields DEF BoundaryInv, Chain
  <2> QED BY <1>1, <2>1, <2>2 DEF DecodeFinal, OwnResult
<1>3. /\ v \in WindowType /\ v.out = "weak" /\ v.stage = "sinking"
      /\ v.chained = w.chained /\ v.deps = w.deps /\ v.inb = w.inb /\ v.entry = w.entry
  BY <1>2 DEF WindowType
<1>4. win' = [win EXCEPT ![k] = v]
  BY <1>1, <1>2 DEF DecodeFinal, Ship
<1> HIDE DEF v
<1>5. Edited(win, win', k, v)
  BY <1>2, <1>3, <1>4, EditOne
<1>6. OwnResult(v)
  BY <1>2, <1>3 DEF OwnResult, Undecided
<1>7. /\ dd' = dd \cup (IF k + 1 \in 1 .. Len(win) /\ win[k + 1].chained THEN {k} ELSE {})
      /\ wdo' = Append(wdo, k) /\ writes' = writes
  BY <1>2 DEF DecodeFinal, Deliveries
<1>8. Chain(win, dd) /\ dd \subseteq Nat /\ win[k].out = "none"
  BY <1>1, <1>2 DEF BoundaryInv, Tables
<1>9. Chain(win', dd')
  BY <1>1, <1>2, <1>3, <1>5, <1>6, <1>7, <1>8, ChainShipped
<1>10. wdo \in Seq(Nat) /\ k \notin ToSet(wdo) /\ k \notin ToSet(writes)
  BY <1>1, <1>2 DEF BoundaryInv, Tables, Corrections
<1>11. /\ wdo' \in Seq(Nat) /\ ToSet(wdo') = ToSet(wdo) \cup {k}
       /\ IsInjective(wdo')
  BY <1>2, <1>7, <1>10, AppendElements DEF BoundaryInv, Corrections
<1>12. Corrections(win)'
  <2>1. \A j \in ToSet(wdo') : j \in 1 .. Len(win') /\ win'[j].stage = "sinking"
    BY <1>1, <1>2, <1>3, <1>5, <1>11 DEF Edited, BoundaryInv, Corrections
  <2>2. \A j \in ToSet(writes) :
          j \in 1 .. Len(win') /\ win'[j].stage \in {"sinking", "resolving"}
    BY <1>2, <1>5, <1>10 DEF Edited, BoundaryInv, Corrections
  <2> QED BY <1>7, <1>10, <1>11, <2>1, <2>2 DEF BoundaryInv, Corrections
<1>13. Tables'
  BY <1>2, <1>5, <1>7, <1>11 DEF BoundaryInv, Tables, Edited
<1> QED BY <1>9, <1>12, <1>13 DEF BoundaryInv, Chain

\* An escalated one keeps its boundary back.
LEMMA DecodeEscalatedBoundary ==
  ASSUME BoundaryInv, NEW k \in DOMAIN win, DecodeEscalated(k)
  PROVE  BoundaryInv'
<1>1. PICK w : w = win[k]
  OBVIOUS
<1> DEFINE v == [w EXCEPT !.stage = "asked", !.says = "weak", !.held = TRUE]
<1>2. /\ win \in Seq(WindowType) /\ Len(win) \in Nat /\ DOMAIN win = 1 .. Len(win)
      /\ k \in 1 .. Len(win)
      /\ w \in WindowType /\ OwnResult(w) /\ w.stage = "landed" /\ w.deps = 0
  <2>1. win \in Seq(WindowType) /\ Len(win) \in Nat /\ DOMAIN win = 1 .. Len(win)
    BY LenProperties DEF BoundaryInv, Tables
  <2>2. OwnResult(w) /\ w \in WindowType
    BY <1>1, <2>1, WindowFields DEF BoundaryInv, Chain
  <2> QED BY <1>1, <2>1, <2>2 DEF DecodeEscalated
<1>3. /\ v \in WindowType /\ v.out = w.out /\ v.stage = "asked"
      /\ v.chained = w.chained /\ v.deps = w.deps /\ v.inb = w.inb /\ v.entry = w.entry
  BY <1>2 DEF WindowType
<1>4. win' = [win EXCEPT ![k] = v] /\ UNCHANGED <<wdo, writes, dd>>
  BY <1>1, <1>2 DEF DecodeEscalated
<1> HIDE DEF v
<1>5. Edited(win, win', k, v)
  BY <1>2, <1>3, <1>4, EditOne
<1>6. OwnResult(v)
  BY <1>2, <1>3 DEF OwnResult, Undecided
<1>7. Chain(win, dd)
  BY DEF BoundaryInv
<1>8. Chain(win', dd)
  BY <1>1, <1>2, <1>3, <1>5, <1>6, <1>7, ChainStays
<1>9. k \notin ToSet(wdo) /\ k \notin ToSet(writes)
  BY <1>1, <1>2 DEF BoundaryInv, Corrections
<1>10. Corrections(win')
  BY <1>5, <1>9 DEF Edited, BoundaryInv, Corrections
<1> QED BY <1>4, <1>5, <1>8, <1>10 DEF BoundaryInv, Tables, Edited, Chain, Corrections

\* The frame takes a weak correction off the link once.
LEMMA SinkWeakBoundary ==
  ASSUME BoundaryInv, SinkWeak
  PROVE  BoundaryInv'
<1>1. /\ wdo \in Seq(Nat) /\ wdo # <<>> /\ writes \in Seq(Nat)
      /\ wdo' = Tail(wdo) /\ writes' = Append(writes, Head(wdo))
      /\ UNCHANGED <<win, dd>>
  BY DEF BoundaryInv, Tables, SinkWeak
<1>2. PICK k : k = Head(wdo)
  OBVIOUS
<1>3. /\ k \in Nat /\ wdo' \in Seq(Nat) /\ ToSet(wdo) = {k} \cup ToSet(wdo')
      /\ k \notin ToSet(wdo')
  BY <1>1, <1>2, HeadAndTail DEF BoundaryInv, Corrections
<1>4. k \notin ToSet(writes) /\ IsInjective(writes)
  BY <1>3 DEF BoundaryInv, Corrections
<1>5. /\ writes' \in Seq(Nat) /\ ToSet(writes') = ToSet(writes) \cup {k}
      /\ IsInjective(writes')
  BY <1>1, <1>2, <1>3, <1>4, AppendElements
<1>6. IsInjective(wdo')
  BY <1>1, TailInjective DEF BoundaryInv, Corrections
<1>7. Corrections(win)'
  BY <1>1, <1>3, <1>4, <1>5, <1>6 DEF BoundaryInv, Corrections
<1> QED BY <1>1, <1>3, <1>5, <1>7 DEF BoundaryInv, Tables, Chain

\* The strong result of an escalated window reaches the frame.
LEMMA SinkStrongBoundary ==
  ASSUME BoundaryInv, NEW k \in DOMAIN win, SinkStrong(k)
  PROVE  BoundaryInv'
<1>1. PICK w : w = win[k]
  OBVIOUS
<1> DEFINE v == [w EXCEPT !.stage = "resolving"]
<1>2. /\ win \in Seq(WindowType) /\ Len(win) \in Nat /\ DOMAIN win = 1 .. Len(win)
      /\ k \in 1 .. Len(win) /\ k \in Nat
      /\ w \in WindowType /\ OwnResult(w) /\ w.stage = "asked"
  <2>1. win \in Seq(WindowType) /\ Len(win) \in Nat /\ DOMAIN win = 1 .. Len(win)
    BY LenProperties DEF BoundaryInv, Tables
  <2>2. OwnResult(w) /\ w \in WindowType
    BY <1>1, <2>1, WindowFields DEF BoundaryInv, Chain
  <2> QED BY <1>1, <2>1, <2>2 DEF SinkStrong
<1>3. /\ v \in WindowType /\ v.out = w.out /\ v.stage = "resolving"
      /\ v.chained = w.chained /\ v.deps = w.deps /\ v.inb = w.inb /\ v.entry = w.entry
  BY <1>2 DEF WindowType
<1>4. /\ win' = [win EXCEPT ![k] = v] /\ UNCHANGED <<wdo, dd>>
      /\ writes' = Append(writes, k)
  BY <1>1, <1>2 DEF SinkStrong
<1> HIDE DEF v
<1>5. Edited(win, win', k, v)
  BY <1>2, <1>3, <1>4, EditOne
<1>6. OwnResult(v)
  BY <1>2, <1>3 DEF OwnResult, Undecided
<1>7. Chain(win, dd)
  BY DEF BoundaryInv
<1>8. Chain(win', dd)
  BY <1>1, <1>2, <1>3, <1>5, <1>6, <1>7, ChainStays
<1>9. k \notin ToSet(wdo) /\ k \notin ToSet(writes) /\ writes \in Seq(Nat)
  BY <1>1, <1>2 DEF BoundaryInv, Corrections, Tables
<1>10. /\ writes' \in Seq(Nat) /\ ToSet(writes') = ToSet(writes) \cup {k}
       /\ IsInjective(writes')
  BY <1>2, <1>4, <1>9, AppendElements DEF BoundaryInv, Corrections
<1>11. Corrections(win)'
  <2>1. \A j \in ToSet(wdo) : j \in 1 .. Len(win') /\ win'[j].stage = "sinking"
    BY <1>5, <1>9 DEF Edited, BoundaryInv, Corrections
  <2>2. \A j \in ToSet(writes') :
          j \in 1 .. Len(win') /\ win'[j].stage \in {"sinking", "resolving"}
    BY <1>2, <1>3, <1>5, <1>9, <1>10 DEF Edited, BoundaryInv, Corrections
  <2> QED BY <1>4, <1>9, <1>10, <2>1, <2>2 DEF BoundaryInv, Corrections
<1> QED BY <1>4, <1>5, <1>8, <1>10, <1>11 DEF BoundaryInv, Tables, Edited, Chain

\* The window at the head of the frame's queue becomes final; a strong one
\* ships the boundary it kept back.
LEMMA InstallBoundary ==
  ASSUME BoundaryInv, Install
  PROVE  BoundaryInv'
<1>1. PICK k : k = Head(writes)
  OBVIOUS
<1>2. /\ writes \in Seq(Nat) /\ writes # <<>> /\ writes' = Tail(writes) /\ wdo' = wdo
  BY DEF BoundaryInv, Tables, Install
<1>3. /\ k \in Nat /\ writes' \in Seq(Nat) /\ ToSet(writes) = {k} \cup ToSet(writes')
      /\ k \notin ToSet(writes') /\ IsInjective(writes')
  BY <1>1, <1>2, HeadAndTail, TailInjective DEF BoundaryInv, Corrections
<1>4. PICK w : w = win[k]
  OBVIOUS
<1> DEFINE weak == [w EXCEPT !.stage = "final", !.says = "weak", !.entry = "weak",
                             !.held = FALSE]
           strong == [w EXCEPT !.stage = "final", !.says = "strong", !.entry = "strong",
                               !.held = FALSE, !.out = "strong"]
           v == IF w.stage = "resolving" THEN strong ELSE weak
<1>5. /\ win \in Seq(WindowType) /\ Len(win) \in Nat /\ DOMAIN win = 1 .. Len(win)
      /\ k \in 1 .. Len(win) /\ w \in WindowType /\ OwnResult(w)
      /\ w.stage \in {"sinking", "resolving"}
  <2>1. win \in Seq(WindowType) /\ Len(win) \in Nat /\ DOMAIN win = 1 .. Len(win)
    BY LenProperties DEF BoundaryInv, Tables
  <2>2. k \in 1 .. Len(win) /\ w.stage \in {"sinking", "resolving"}
    BY <1>3, <1>4 DEF BoundaryInv, Corrections
  <2>3. OwnResult(w) /\ w \in WindowType
    BY <1>4, <2>1, <2>2, WindowFields DEF BoundaryInv, Chain
  <2> QED BY <2>1, <2>2, <2>3
<1>6. /\ weak \in WindowType /\ weak.out = w.out /\ weak.stage = "final"
      /\ weak.says = "weak" /\ weak.entry = "weak"
      /\ weak.chained = w.chained /\ weak.deps = w.deps /\ weak.inb = w.inb
  BY <1>5 DEF WindowType
<1>7. /\ strong \in WindowType /\ strong.out = "strong" /\ strong.stage = "final"
      /\ strong.says = "strong" /\ strong.entry = "strong"
      /\ strong.chained = w.chained /\ strong.deps = w.deps /\ strong.inb = w.inb
  BY <1>5 DEF WindowType
<1>8. win' = [win EXCEPT ![k] = v]
  <2>1. CASE w.stage = "resolving"
    BY <1>1, <1>4, <1>5, <2>1 DEF Install, Ship
  <2>2. CASE w.stage # "resolving"
    BY <1>1, <1>4, <1>5, <2>2 DEF Install
  <2> QED BY <2>1, <2>2
<1> DEFINE more == IF k + 1 \in 1 .. Len(win) /\ win[k + 1].chained THEN {k} ELSE {}
<1>9. IF w.stage = "resolving" THEN dd' = dd \cup more ELSE dd' = dd
  <2>1. CASE w.stage = "resolving"
    <3>1. PICK ws : /\ ws = Ship([win EXCEPT ![k].stage = "final", ![k].says = "strong",
                                             ![k].entry = "strong", ![k].held = FALSE],
                                 k, "strong")
                    /\ dd' = dd \cup Deliveries(ws, k)
      BY <1>1, <1>4, <2>1 DEF Install
    <3>2. DOMAIN ws = 1 .. Len(win) /\ (k + 1 \in 1 .. Len(win) => ws[k + 1] = win[k + 1])
      BY <1>3, <1>5, <3>1 DEF Ship
    <3>3. Deliveries(ws, k) = more
      BY <3>2 DEF Deliveries
    <3> QED BY <2>1, <3>1, <3>3
  <2>2. CASE w.stage # "resolving"
    BY <1>1, <1>4, <2>2 DEF Install
  <2> QED BY <2>1, <2>2
<1>10. /\ v \in WindowType /\ v.stage = "final" /\ v.entry = v.out /\ v.says = v.out
       /\ v.chained = w.chained /\ v.deps = w.deps /\ v.inb = w.inb /\ v.out # "none"
       /\ w.stage # "resolving" => v.out = w.out
       /\ w.stage = "resolving" => w.out = "none"
       /\ w.deps = 0
  BY <1>5, <1>6, <1>7 DEF OwnResult, Undecided
<1> HIDE DEF weak, strong, v
<1>11. OwnResult(v)
  BY <1>10 DEF OwnResult
<1>12. Edited(win, win', k, v)
  BY <1>5, <1>8, <1>10, EditOne
<1>13. Chain(win, dd) /\ dd \subseteq Nat
  BY DEF BoundaryInv, Tables
<1>14. Chain(win', dd')
  <2>1. CASE w.stage = "resolving"
    <3>1. dd' = dd \cup (IF k + 1 \in 1 .. Len(win) /\ win[k + 1].chained THEN {k} ELSE {})
      BY <1>9, <2>1
    <3> QED BY <1>4, <1>5, <1>10, <1>11, <1>12, <1>13, <2>1, <3>1, ChainShipped
  <2>2. CASE w.stage # "resolving"
    BY <1>4, <1>5, <1>9, <1>10, <1>11, <1>12, <1>13, <2>2, ChainStays
  <2> QED BY <2>1, <2>2
<1>15. k \notin ToSet(wdo)
  BY <1>3 DEF BoundaryInv, Corrections
<1>16. Corrections(win)'
  <2>1. \A j \in ToSet(wdo) : j \in 1 .. Len(win') /\ win'[j].stage = "sinking"
    BY <1>12, <1>15 DEF Edited, BoundaryInv, Corrections
  <2>2. \A j \in ToSet(writes') :
          j \in 1 .. Len(win') /\ win'[j].stage \in {"sinking", "resolving"}
    BY <1>3, <1>12 DEF Edited, BoundaryInv, Corrections
  <2> QED BY <1>2, <1>3, <2>1, <2>2 DEF BoundaryInv, Corrections
<1>17. dd' \subseteq Nat
  BY <1>3, <1>9, <1>13
<1> QED BY <1>2, <1>3, <1>12, <1>14, <1>16, <1>17
        DEF BoundaryInv, Tables, Edited, Chain

\* A boundary that arrives is the one its window still wants.
LEMMA ReceiveBoundary ==
  ASSUME Scalars, BoundaryInv, NEW k \in DOMAIN win, Receive(k)
  PROVE  BoundaryInv'
<1>1. /\ win \in Seq(WindowType) /\ Len(win) \in Nat /\ DOMAIN win = 1 .. Len(win)
      /\ k \in dd /\ k \in Nat /\ k + 1 \in 1 .. Len(win) /\ k \in 1 .. Len(win)
      /\ k + 1 \in 2 .. Len(win) /\ (k + 1) - 1 = k
  <2>1. win \in Seq(WindowType) /\ Len(win) \in Nat /\ DOMAIN win = 1 .. Len(win)
    BY LenProperties DEF BoundaryInv, Tables
  <2>2. k \in dd /\ k + 1 \in 1 .. Len(win) /\ k \in 1 .. Len(win)
    BY DEF Receive, BoundaryInv, Chain
  <2> QED BY <2>1, <2>2
<1>2. PICK w, source : w = win[k + 1] /\ source = win[k]
  OBVIOUS
<1>3. w \in WindowType /\ source \in WindowType /\ OwnResult(w)
  BY <1>1, <1>2, WindowFields DEF BoundaryInv, Chain
<1>4. Linked(source, w, TRUE)
  <2>1. Linked(win[(k + 1) - 1], win[k + 1], (k + 1) - 1 \in dd)
    BY <1>1 DEF BoundaryInv, Chain
  <2> QED BY <1>1, <1>2, <2>1 DEF Linked
<1> DEFINE v == [w EXCEPT !.deps = 0, !.inb = source.out]
           ws == [win EXCEPT ![k + 1] = v]
<1>5. /\ v \in WindowType /\ v.deps = 0 /\ v.inb = source.out /\ v.stage = w.stage
      /\ v.out = w.out /\ v.entry = w.entry /\ v.says = w.says /\ v.chained = w.chained
  BY <1>3 DEF WindowType
<1>6. /\ win' = Check(ws, arrived, closed, end, got \ freed)
      /\ dd' = dd \ {k} /\ UNCHANGED <<wdo, writes>>
  BY <1>1, <1>2 DEF Receive, Settle
<1> HIDE DEF v
<1>7. ws = [win EXCEPT ![k + 1] = v]
  OBVIOUS
<1> HIDE DEF ws
<1>8. Edited(win, ws, k + 1, v)
  BY <1>1, <1>5, <1>7, EditOne
<1>9. OwnResult(v)
  BY <1>3, <1>5 DEF OwnResult
<1>10. Chain(ws, dd')
  <2>1. PICK j : j = k + 1
    OBVIOUS
  <2>2. Chain(win, dd) /\ j \in 1 .. Len(win) /\ Edited(win, ws, j, v)
    BY <1>1, <1>8, <2>1 DEF BoundaryInv
  <2>3. Linked(win[j - 1], v, j - 1 \in dd')
    BY <1>1, <1>2, <1>4, <1>5, <1>6, <2>1 DEF Linked
  <2>4. j < Len(win) => Linked(v, win[j + 1], j \in dd')
    <3> SUFFICES ASSUME j < Len(win) PROVE Linked(v, win[j + 1], j \in dd')
      OBVIOUS
    <3>1. j + 1 \in 2 .. Len(win) /\ (j + 1) - 1 = j /\ (j \in dd' <=> j \in dd)
      BY <1>1, <1>6, <2>1
    <3>2. Linked(win[(j + 1) - 1], win[j + 1], (j + 1) - 1 \in dd)
      BY <2>2, <3>1 DEF Chain
    <3> QED BY <1>2, <1>5, <2>1, <3>1, <3>2 DEF Linked
  <2>5. \A i \in Nat : i # j /\ i # j - 1 => (i \in dd' <=> i \in dd)
    BY <1>1, <1>6, <2>1
  <2>6. \A i \in dd' : i + 1 \in 1 .. Len(win) /\ i \in 1 .. Len(win)
    BY <1>6, <2>2 DEF Chain
  <2> QED BY <1>1, <1>9, <2>2, <2>3, <2>4, <2>5, <2>6, ChainEdited
<1>11. Corrections(ws)
  BY <1>2, <1>5, <1>8 DEF Edited, BoundaryInv, Corrections
<1>12. ws \in Seq(WindowType) /\ Len(ws) \in Nat /\ got \ freed \subseteq Nat
  BY <1>1, <1>8 DEF Edited, Scalars
<1>13. KeptRow(ws, win')
  BY <1>6, <1>12, CheckFacts
<1>14. Chain(win', dd') /\ Corrections(win')
  BY <1>10, <1>11, <1>12, <1>13, ChainKept, CorrectionsKept
<1>15. win' \in Seq(WindowType) /\ dd' \subseteq Nat
  BY <1>6, <1>13 DEF KeptRow, BoundaryInv, Tables
<1> QED BY <1>6, <1>14, <1>15 DEF BoundaryInv, Tables, Chain, Corrections

\* An input that lands.
LEMMA LandKept ==
  ASSUME Tables, NEW k \in DOMAIN win, Land(k)
  PROVE  KeptRow(win, win') /\ SameRegions(win, win')
<1>1. win \in Seq(WindowType) /\ Len(win) \in Nat /\ DOMAIN win = 1 .. Len(win)
  BY LenProperties DEF Tables
<1>2. PICK w : w = win[k]
  OBVIOUS
<1> DEFINE v == [w EXCEPT !.stage = "landed"]
<1>3. w \in WindowType /\ w.stage = "queued"
  BY <1>1, <1>2, WindowFields DEF Land
<1>4. v \in WindowType /\ Kept(w, v) /\ v.lo = w.lo /\ v.hi = w.hi
  BY <1>3 DEF WindowType, Kept, Undecided
<1>5. win' = [win EXCEPT ![k] = v]
  BY <1>1, <1>2 DEF Land, Settle
<1> HIDE DEF v
<1>6. Edited(win, win', k, v)
  BY <1>1, <1>4, <1>5, EditOne
<1>7. ASSUME NEW j \in 1 .. Len(win)
      PROVE  Kept(win[j], win'[j]) /\ win'[j].lo = win[j].lo /\ win'[j].hi = win[j].hi
  <2>1. CASE j = k
    BY <1>2, <1>4, <1>6, <2>1 DEF Edited
  <2>2. CASE j # k
    BY <1>6, <2>2 DEF Edited, Kept
  <2> QED BY <2>1, <2>2
<1> QED BY <1>6, <1>7 DEF KeptRow, SameRegions, Edited

\* Every step.
LEMMA BoundaryStep ==
  ASSUME Scalars, Rounds, BoundaryInv, [Next]_vars
  PROVE  BoundaryInv'
<1>1. CASE Begin \/ Start \/ IdleRound \/ ProtectedRound \/ Drop \/ UNCHANGED vars
  <2>1. UNCHANGED <<win, wdo, writes, dd>>
    BY <1>1 DEF Begin, Start, IdleRound, ProtectedRound, Drop, vars, lateVars
  <2> QED BY <2>1 DEF BoundaryInv, Tables, Chain, Corrections
<1>2. CASE BodyRound \/ ProtectedBodyEnds
  <2>1. UNCHANGED <<wdo, writes, dd>>
    BY <1>2 DEF BodyRound, ProtectedBodyEnds, lateVars
  <2>2. CASE UNCHANGED win
    BY <2>1, <2>2 DEF BoundaryInv, Tables, Chain, Corrections
  <2>3. CASE CloseBoundary(segEnd[Begun])
    <3>1. segEnd[Begun] \in Nat
      <4>1. Begun > 0
        BY <1>2 DEF BodyRound, ProtectedBodyEnds, Rounds
      <4>2. Begun \in Nat /\ \A i \in 1 .. Begun : segEnd[i] \in Nat
        BY LenProperties, ElementOfSeq DEF Begun, Scalars
      <4>3. Begun \in 1 .. Begun
        BY <4>1, <4>2
      <4> QED BY <4>2, <4>3
    <3>2. PICK g : Grown(win, g, segEnd[Begun], None, end) /\ KeptRow(g, win')
      BY <2>3, <3>1, CloseFacts DEF BoundaryInv
    <3> QED BY <2>1, <3>2, GrowthBoundary
  <2> QED BY <1>2, <2>2, <2>3 DEF BodyRound, ProtectedBodyEnds, BodyEnds
<1>3. CASE Seal
  <2>1. UNCHANGED <<wdo, writes, dd>>
    BY <1>3 DEF Seal
  <2>2. PICK g : Grown(win, g, next, next, end) /\ KeptRow(g, win')
    BY <1>3, SealFacts DEF BoundaryInv
  <2> QED BY <2>1, <2>2, GrowthBoundary
<1>4. CASE Arrive
  <2>1. UNCHANGED <<wdo, writes, dd>>
    BY <1>4 DEF Arrive
  <2>2. PICK g : Grown(win, g, arrived', None, end) /\ KeptRow(g, win')
    BY <1>4, ArriveFacts DEF BoundaryInv
  <2> QED BY <2>1, <2>2, GrowthBoundary
<1>5. CASE SinkWeak
  BY <1>5, SinkWeakBoundary
<1>6. CASE Install
  BY <1>6, InstallBoundary
<1>7. ASSUME NEW k \in DOMAIN win, Decoding(k) PROVE BoundaryInv'
  <2>1. CASE Land(k)
    <3>1. UNCHANGED <<wdo, writes, dd>>
      BY <2>1 DEF Land, lateVars
    <3> QED BY <2>1, <3>1, LandKept, KeptBoundary DEF BoundaryInv
  <2>2. CASE DecodeFinal(k)
    BY <2>2, DecodeFinalBoundary
  <2>3. CASE DecodeEscalated(k)
    BY <2>3, DecodeEscalatedBoundary
  <2>4. CASE SinkStrong(k)
    BY <2>4, SinkStrongBoundary
  <2>5. CASE Receive(k)
    BY <2>5, ReceiveBoundary
  <2> QED BY <1>7, <2>1, <2>2, <2>3, <2>4, <2>5 DEF Decoding
<1> QED BY <1>1, <1>2, <1>3, <1>4, <1>5, <1>6, <1>7 DEF Next, Work, Emission

-----------------------------------------------------------------------------
(* Boundaries once *)

\* Initially nothing is planned.
LEMMA BoundaryInit ==
  ASSUME Init
  PROVE  Scalars /\ Rounds /\ BoundaryInv
<1>1. ToSet(<<>>) = {} /\ IsInjective(<<>>)
  BY DEF ToSet, IsInjective
<1>2. Scalars
  BY DEF Init, Scalars, None
<1>3. Begun = 0 /\ Len(Body[mode.kind]) \in Nat
  BY <1>2, BodyFacts DEF Init, Begun, Scalars
<1>4. Rounds
  BY <1>1, <1>3 DEF Init, Rounds
<1>5. Tables /\ Chain(win, dd) /\ Corrections(win)
  BY <1>1 DEF Init, Tables, Chain, Corrections
<1> QED BY <1>2, <1>4, <1>5 DEF BoundaryInv

\* The invariant is kept.
LEMMA BoundaryInvariance ==
  Spec => [](Scalars /\ Rounds /\ BoundaryInv)
<1>1. Init => Scalars /\ Rounds /\ BoundaryInv
  BY BoundaryInit
<1>2. (Scalars /\ Rounds /\ BoundaryInv) /\ [Next]_vars => (Scalars /\ Rounds /\ BoundaryInv)'
  BY RoundsStep, BoundaryStep
<1> QED BY <1>1, <1>2, PTL DEF Spec

\* A window planned behind another gets that one's boundary exactly once,
\* whenever it was created, and none is decoded on anything but the final
\* result of the one before (create_dynamic_window and the courier): true for
\* every code, every row of segments and every number of windows.
THEOREM EveryBoundaryOnce == Spec => []BoundaryOnce
<1>1. BoundaryInv => BoundaryOnce
  <2> SUFFICES ASSUME BoundaryInv, NEW k \in 2 .. Len(win)
               PROVE  LET source == win[k - 1]
                      IN  /\ win[k].deps = 1 <=> win[k].chained /\ (source.out = "none" \/ k - 1 \in dd)
                          /\ win[k].deps = 0 => win[k].inb = source.out /\ source.out # "none"
                          /\ k - 1 \in dd => win[k].deps = 1
                          /\ win[k].stage \notin {"open", "queued", "landed"} =>
                               /\ source.stage \in {"sinking", "final"}
                               /\ source.stage = "final" => win[k].inb = source.entry
    BY DEF BoundaryOnce
  <2>1. Len(win) \in Nat
    BY LenProperties DEF BoundaryInv, Tables
  <2>2. k \in 1 .. Len(win) /\ k - 1 \in 1 .. Len(win)
    BY <2>1
  <2>3. OwnResult(win[k]) /\ OwnResult(win[k - 1]) /\ Linked(win[k - 1], win[k], k - 1 \in dd)
    BY <2>2 DEF BoundaryInv, Chain
  <2> QED BY <2>3 DEF OwnResult, Linked, Undecided
<1> QED BY <1>1, BoundaryInvariance, PTL

-----------------------------------------------------------------------------
(* The row of regions *)

\* In a row without gaps the regions stand in their order.
LEMMA RowOrder ==
  ASSUME NEW ws \in Seq(WindowType), Tiled(ws)
  PROVE  /\ \A i, j \in 1 .. Len(ws) : i < j => ws[i].hi < ws[j].lo
         /\ \A k \in 1 .. Len(ws) : ws[k].lo >= 1
<1>1. /\ Len(ws) \in Nat
      /\ \A k \in 1 .. Len(ws) : ws[k].lo \in Nat /\ ws[k].hi \in Nat
  BY LenProperties, WindowFields
<1> DEFINE S == {n \in Nat : \A i \in 1 .. Len(ws) :
                   i + 1 + n <= Len(ws) => ws[i].hi < ws[i + 1 + n].lo}
<1>2. \A k \in 2 .. Len(ws) : /\ k - 1 \in 1 .. Len(ws) /\ k \in 1 .. Len(ws)
                              /\ ws[k].lo = ws[k - 1].hi + 1
  <2> TAKE k \in 2 .. Len(ws)
  <2>1. k - 1 \in 1 .. Len(ws) /\ k \in 1 .. Len(ws) /\ k # 1
    BY <1>1
  <2> QED BY <2>1 DEF Tiled
<1>3. 0 \in S
  <2> SUFFICES ASSUME NEW i \in 1 .. Len(ws), i + 1 <= Len(ws)
               PROVE  ws[i].hi < ws[i + 1 + 0].lo
    OBVIOUS
  <2>1. i + 1 \in 2 .. Len(ws) /\ (i + 1) - 1 = i /\ i + 1 + 0 = i + 1
    BY <1>1
  <2>2. ws[i + 1].lo = ws[(i + 1) - 1].hi + 1
    BY <1>2, <2>1
  <2> QED BY <1>1, <2>1, <2>2
<1>4. ASSUME NEW n \in Nat, n \in S PROVE n + 1 \in S
  <2> SUFFICES ASSUME NEW i \in 1 .. Len(ws), i + 1 + (n + 1) <= Len(ws)
               PROVE  ws[i].hi < ws[i + 1 + (n + 1)].lo
    OBVIOUS
  <2>1. PICK j : j = i + 1 + n
    OBVIOUS
  <2>2. j \in 1 .. Len(ws) /\ j + 1 \in 2 .. Len(ws) /\ (j + 1) - 1 = j
        /\ i + 1 + (n + 1) = j + 1 /\ i + 1 + n <= Len(ws) /\ j + 1 \in 1 .. Len(ws)
    BY <1>1, <2>1
  <2>3. ws[i].hi < ws[j].lo
    BY <1>4, <2>1, <2>2
  <2>4. ws[j].lo <= ws[j].hi /\ ws[j + 1].lo = ws[j].hi + 1
    BY <1>2, <2>2 DEF Tiled
  <2>5. ws[j].lo \in Nat /\ ws[j].hi \in Nat /\ ws[i].hi \in Nat
    BY <1>1, <2>2
  <2>6. ws[i].hi < ws[j + 1].lo
    <3>1. PICK a, b, c : a = ws[i].hi /\ b = ws[j].lo /\ c = ws[j].hi
      OBVIOUS
    <3>2. a \in Nat /\ b \in Nat /\ c \in Nat /\ a < b /\ b <= c
      BY <2>3, <2>4, <2>5, <3>1
    <3>3. a < c + 1
      BY <3>2
    <3> QED BY <2>4, <3>1, <3>3
  <2> QED BY <2>2, <2>6
<1>5. Nat \subseteq S
  <2> HIDE DEF S
  <2> QED BY <1>3, <1>4, NatSetInduction
<1>6. ASSUME NEW i \in 1 .. Len(ws), NEW j \in 1 .. Len(ws), i < j
      PROVE  ws[i].hi < ws[j].lo
  <2>1. PICK n : n = j - i - 1
    OBVIOUS
  <2>2. n \in Nat /\ i + 1 + n = j
    BY <1>1, <1>6, <2>1
  <2>3. n \in S
    BY <1>5, <2>2
  <2>4. i + 1 + n <= Len(ws)
    BY <1>1, <2>2
  <2>5. ws[i].hi < ws[i + 1 + n].lo
    BY <2>3, <2>4
  <2> QED BY <2>2, <2>5
<1>7. ASSUME NEW k \in 1 .. Len(ws) PROVE ws[k].lo >= 1
  <2>1. 1 \in 1 .. Len(ws) /\ ws[1].lo = 1 /\ ws[1].lo <= ws[1].hi
    BY <1>1 DEF Tiled
  <2>2. k = 1 \/ 1 < k
    BY <1>1
  <2> QED BY <1>1, <1>6, <2>1, <2>2
<1> QED BY <1>6, <1>7

\* The windows planned are those of the plan, new ones included.
LEMMA GrownOnPlan ==
  ASSUME Tables, Tiled(win), OnPlan(win), NEW known \in Nat,
         NEW g, Grown(win, g, known, None, end)
  PROVE  /\ Tiled(g)
         /\ Finite => \A k \in 1 .. Len(g) : /\ k \in DOMAIN Plan
                                             /\ g[k].lo = Plan[k].lo /\ g[k].hi = Plan[k].hi
         /\ ~ Finite /\ end = None => \A k \in 1 .. Len(g) :
              /\ g[k].lo = (k - 1) * F + 1 /\ g[k].hi = k * F
              /\ g[k].lo <= known \/ g[k].lo <= Reach
<1>1. /\ g \in Seq(WindowType) /\ Len(g) \in Nat /\ Len(win) \in Nat /\ Len(win) <= Len(g)
      /\ \A k \in 1 .. Len(win) : g[k] = win[k]
      /\ \A k \in 1 .. Len(g) : k > Len(win) =>
           end = None /\ Laid(g[k], k, known, None)
  BY LenProperties DEF Grown, Tables
<1>2. CASE Finite
  <2>1. ASSUME NEW k \in 1 .. Len(g)
        PROVE  k \in DOMAIN Plan /\ g[k].lo = Plan[k].lo /\ g[k].hi = Plan[k].hi
    <3>1. CASE k > Len(win)
      BY <1>1, <1>2, <3>1 DEF Laid
    <3>2. CASE k <= Len(win)
      <4>1. k \in 1 .. Len(win)
        BY <3>2
      <4> QED BY <1>1, <1>2, <4>1 DEF OnPlan
    <3> QED BY <1>1, <3>1, <3>2
  <2>2. ASSUME NEW k \in 1 .. Len(g)
        PROVE  /\ g[k].lo = (IF k = 1 THEN 1 ELSE g[k - 1].hi + 1)
               /\ g[k].lo <= g[k].hi
    <3>1. PICK m \in Nat : RowOf(Plan, m)
      BY PlanRow
    <3>2. k \in 1 .. m
      BY <2>1, <3>1 DEF RowOf
    <3>3. k # 1 => k - 1 \in 1 .. Len(g)
      BY <1>1
    <3> QED BY <2>1, <3>1, <3>2, <3>3 DEF RowOf
  <2> QED BY <1>2, <2>1, <2>2 DEF Tiled
<1>3. CASE ~ Finite /\ end = None
  <2>1. ASSUME NEW k \in 1 .. Len(g)
        PROVE  /\ g[k].lo = (k - 1) * F + 1 /\ g[k].hi = k * F
               /\ g[k].lo <= known \/ g[k].lo <= Reach
    <3>1. CASE k > Len(win)
      <4>1. /\ k <= CeilDiv(known, F) /\ g[k].lo = (k - 1) * F + 1 /\ g[k].hi = k * F
            /\ k \in Nat /\ k >= 1
        BY <1>1, <1>3, <3>1 DEF Laid
      <4>2. (k - 1) * F < known
        BY <4>1, CeilingBounds, StreamAssumption
      <4>3. (k - 1) * F \in Nat
        BY <4>1, Stride
      <4> QED BY <4>1, <4>2, <4>3
    <3>2. CASE k <= Len(win)
      <4>1. k \in 1 .. Len(win)
        BY <3>2
      <4> QED BY <1>1, <1>3, <4>1 DEF OnPlan
    <3> QED BY <1>1, <3>1, <3>2
  <2>2. ASSUME NEW k \in 1 .. Len(g)
        PROVE  /\ g[k].lo = (IF k = 1 THEN 1 ELSE g[k - 1].hi + 1)
               /\ g[k].lo <= g[k].hi
    <3>1. k \in Nat /\ k >= 1 /\ (k # 1 => k - 1 \in 1 .. Len(g))
      BY <1>1
    <3> QED BY <2>1, <3>1, Stride
  <2> QED BY <1>3, <2>1, <2>2 DEF Tiled
<1>4. CASE ~ Finite /\ end # None
  <2>1. Len(g) = Len(win) /\ \A k \in 1 .. Len(g) : g[k] = win[k]
    <3>1. ~(Len(win) + 1 \in 1 .. Len(g))
      <4> SUFFICES ASSUME Len(win) + 1 \in 1 .. Len(g) PROVE FALSE
        OBVIOUS
      <4>1. Len(win) + 1 > Len(win)
        BY <1>1
      <4> QED BY <1>1, <1>4, <4>1
    <3> QED BY <1>1, <3>1
  <2> QED BY <1>1, <1>4, <2>1 DEF Tiled
<1> QED BY <1>2, <1>3, <1>4

\* A stream that is sealed is not a finite one, has rounds, and was open.
LEMMA SealedStream ==
  ASSUME Scalars, Rounds, OnPlan(win), Seal
  PROVE  /\ ~ Finite /\ end = None /\ next >= 1 /\ Reach = next /\ end' = next
         /\ \A i \in 1 .. Begun : segEnd[i] <= next
<1>1. /\ (mode.kind = "open" /\ phase = "ended") \/ phase = "sealing"
      /\ end' = next
  BY DEF Seal, CanSeal
<1>2. ~ Finite /\ phase # "sealed" /\ Reach = next
  BY <1>1 DEF Finite, Rounds, Reach
<1>3. end = None
  BY <1>2 DEF OnPlan
<1>4. /\ Begun \in Nat /\ next \in Nat /\ Begun > 0
      /\ \A i \in 1 .. Begun : segEnd[i] \in Nat
  <2>1. Begun \in Nat /\ \A i \in 1 .. Begun : segEnd[i] \in Nat
    BY LenProperties, ElementOfSeq DEF Begun, Scalars
  <2> QED BY <1>1, <2>1 DEF Scalars, Rounds
<1>5. \A i \in 1 .. Begun : segEnd[i] <= next
  BY <1>1, <1>2 DEF Rounds
<1>6. next >= 1
  <2>1. 1 \in 1 .. Begun /\ 1 \in 1 .. Len(Body[mode.kind])
    BY <1>4, BodyFacts DEF Scalars, Rounds
  <2>2. Body[mode.kind][1] >= 1 /\ Body[mode.kind][1] \in Nat
    BY <2>1, BodyFacts DEF Scalars
  <2>3. Body[mode.kind][1] <= segEnd[1] /\ segEnd[1] <= next /\ segEnd[1] \in Nat
    BY <1>4, <1>5, <2>1 DEF Rounds
  <2> QED BY <1>4, <2>2, <2>3
<1> QED BY <1>1, <1>2, <1>3, <1>5, <1>6

\* The windows a sealed stream has: the tail is the last of them.
LEMMA SealedRow ==
  ASSUME Scalars, Rounds, Tables, OnPlan(win), Seal,
         NEW g, Grown(win, g, next, next, end)
  PROVE  /\ Len(g) = CeilDiv(next, F) /\ Len(g) >= 1 /\ Min(TailOf(g)) = Len(g)
         /\ \A k \in 1 .. Len(g) :
              /\ g[k].lo = (k - 1) * F + 1 /\ g[k].lo <= next
              /\ k < Len(g) => g[k].hi = k * F
              /\ k = Len(g) => next <= g[k].hi
              /\ k <= Len(win) => g[k].hi = k * F
<1> DEFINE q == CeilDiv(next, F)
<1>1. /\ ~ Finite /\ end = None /\ next >= 1 /\ next \in Nat /\ Reach = next
      /\ F \in Nat /\ F >= 1
  BY SealedStream, StreamAssumption DEF Scalars
<1>2. /\ q \in Nat /\ q >= 1 /\ next <= q * F
      /\ \A k \in Nat : k <= q /\ k >= 1 => (k - 1) * F < next
  BY <1>1, CeilingBounds
<1> HIDE DEF q
<1>3. /\ g \in Seq(WindowType) /\ Len(g) \in Nat /\ Len(win) \in Nat /\ Len(win) <= Len(g)
      /\ DOMAIN g = 1 .. Len(g)
      /\ \A k \in 1 .. Len(win) : g[k] = win[k]
      /\ \A k \in 1 .. Len(g) : k > Len(win) => Laid(g[k], k, next, next)
      /\ q <= Len(g)
  BY <1>1, LenProperties DEF Grown, Tables, q
<1>4. ASSUME NEW k \in 1 .. Len(g)
      PROVE  /\ g[k].lo = (k - 1) * F + 1 /\ k <= q
             /\ IF k <= Len(win) THEN g[k].hi = k * F ELSE g[k].hi = Least(k * F, next)
  <2>0. k \in Nat /\ k >= 1
    BY <1>3
  <2>1. CASE k > Len(win)
    BY <1>1, <1>3, <2>0, <2>1 DEF Laid, None, q
  <2>2. CASE k <= Len(win)
    <3>1. k \in 1 .. Len(win)
      BY <2>2
    <3>2. g[k].lo = (k - 1) * F + 1 /\ g[k].hi = k * F /\ g[k].lo <= next
      BY <1>1, <1>3, <3>1 DEF OnPlan
    <3>3. k <= q
      <4> SUFFICES ASSUME k > q PROVE FALSE
        BY <1>2, <2>0
      <4>1. q <= k - 1
        BY <1>2, <2>0
      <4>2. q * F <= (k - 1) * F
        BY <1>1, <1>2, <2>0, <4>1, TimesMonotone
      <4>3. (k - 1) * F \in Nat /\ q * F \in Nat
        BY <1>2, <2>0, Stride
      <4> QED BY <1>1, <1>2, <3>2, <4>2, <4>3
    <3> QED BY <2>2, <3>2, <3>3
  <2> QED BY <1>3, <2>0, <2>1, <2>2
<1>10. Len(g) \in Nat /\ Len(win) \in Nat /\ q <= Len(g)
  BY <1>3
<1>5. Len(g) = q
  <2>1. Len(g) \in 1 .. Len(g)
    BY <1>2, <1>10
  <2>2. Len(g) <= q
    BY <1>4, <2>1
  <2> QED BY <1>2, <1>10, <2>2
<1>6. ASSUME NEW k \in 1 .. Len(g)
      PROVE  /\ g[k].lo = (k - 1) * F + 1 /\ g[k].lo <= next
             /\ k < Len(g) => g[k].hi = k * F /\ g[k].hi < next
             /\ k = Len(g) => next <= g[k].hi
             /\ k <= Len(win) => g[k].hi = k * F
  <2>1. k \in Nat /\ k >= 1 /\ k <= q
    BY <1>4, <1>10
  <2>2. (k - 1) * F < next /\ (k - 1) * F \in Nat /\ k * F \in Nat
    BY <1>2, <2>1, Stride
  <2>3. g[k].lo = (k - 1) * F + 1 /\ g[k].lo <= next
    BY <1>1, <1>4, <2>2
  <2>4. g[k].hi = k * F \/ g[k].hi = Least(k * F, next)
    BY <1>4
  <2>5. k < Len(g) => g[k].hi = k * F /\ g[k].hi < next
    <3> SUFFICES ASSUME k < Len(g) PROVE g[k].hi = k * F /\ g[k].hi < next
      OBVIOUS
    <3>1. k * F < next
      <4>1. k + 1 \in Nat /\ k + 1 <= q /\ k + 1 >= 1 /\ (k + 1) - 1 = k
        BY <1>2, <1>5, <2>1
      <4>2. ((k + 1) - 1) * F < next
        BY <1>2, <4>1
      <4> QED BY <4>1, <4>2
    <3>2. Least(k * F, next) = k * F
      BY <1>1, <2>2, <3>1 DEF Least
    <3> QED BY <2>4, <3>1, <3>2
  <2>6. k = Len(g) => next <= g[k].hi
    <3> SUFFICES ASSUME k = Len(g) PROVE next <= g[k].hi
      OBVIOUS
    <3>1. next <= k * F
      BY <1>2, <1>5
    <3>2. Least(k * F, next) \in {k * F, next}
      BY DEF Least
    <3>3. g[k].hi = k * F \/ g[k].hi = next
      BY <2>4, <3>2
    <3>4. CASE g[k].hi = k * F
      BY <3>1, <3>4
    <3>5. CASE g[k].hi = next
      BY <1>1, <3>5
    <3> QED BY <3>3, <3>4, <3>5
  <2>7. k <= Len(win) => g[k].hi = k * F
    BY <1>4
  <2> QED BY <2>3, <2>5, <2>6, <2>7
<1>7. TailOf(g) = {Len(g)}
  <2>1. Len(g) \in 1 .. Len(g)
    BY <1>2, <1>5
  <2>2. \A k \in 1 .. Len(g) : k # Len(g) => k < Len(g)
    BY <1>10
  <2>3. \A k \in 1 .. Len(g) : g[k].lo <= next /\ next <= g[k].hi <=> k = Len(g)
    <3> TAKE k \in 1 .. Len(g)
    <3>1. g[k].hi \in Nat
      BY <1>3, WindowFields
    <3> QED BY <1>1, <1>6, <2>2, <3>1
  <2> QED BY <1>3, <2>1, <2>3 DEF TailOf
<1>8. Min(TailOf(g)) = Len(g)
  <2>1. {Len(g)} \subseteq Nat /\ {Len(g)} # {}
    BY <1>3
  <2>2. Min({Len(g)}) \in {Len(g)}
    BY <2>1, MinOfNat
  <2> QED BY <1>7, <2>2
<1> QED BY <1>2, <1>5, <1>6, <1>8 DEF q

\* Sealing leaves no gap, and the plan is not asked for more.
LEMMA SealedTiles ==
  ASSUME Scalars, Rounds, Tables, OnPlan(win), Seal, mode' = mode,
         NEW g, Grown(win, g, next, next, end), KeptRow(g, win'),
         \A k \in 1 .. Len(g) :
           /\ win'[k].lo = g[k].lo
           /\ win'[k].hi = IF k = Min(TailOf(g)) THEN next ELSE g[k].hi
  PROVE  Tiled(win') /\ OnPlan(win)'
<1>1. /\ Len(g) >= 1 /\ Min(TailOf(g)) = Len(g)
      /\ \A k \in 1 .. Len(g) :
           /\ g[k].lo = (k - 1) * F + 1 /\ g[k].lo <= next
           /\ k < Len(g) => g[k].hi = k * F
  BY SealedRow
<1>2. Len(win') = Len(g) /\ Len(g) \in Nat
  BY LenProperties DEF KeptRow, Grown
<1>3. ASSUME NEW k \in 1 .. Len(win')
      PROVE  /\ win'[k].lo = (IF k = 1 THEN 1 ELSE win'[k - 1].hi + 1)
             /\ win'[k].lo <= win'[k].hi
  <2>1. k \in Nat /\ k >= 1 /\ k \in 1 .. Len(g) /\ win'[k].lo = (k - 1) * F + 1
    BY <1>1, <1>2
  <2>2. win'[k].lo <= win'[k].hi
    <3>1. CASE k = Len(g)
      BY <1>1, <2>1, <3>1
    <3>2. CASE k # Len(g)
      <4>1. win'[k].hi = k * F
        BY <1>1, <1>2, <2>1, <3>2
      <4> QED BY <2>1, <4>1, Stride
    <3> QED BY <3>1, <3>2
  <2>3. CASE k = 1
    BY <2>1, <2>2, <2>3, Stride
  <2>4. CASE k # 1
    <3>1. k - 1 \in 1 .. Len(g) /\ k - 1 < Len(g) /\ k - 1 # Len(g)
      BY <1>2, <2>1, <2>4
    <3>2. win'[k - 1].hi = (k - 1) * F
      BY <1>1, <3>1
    <3> QED BY <2>1, <2>2, <2>4, <3>2
  <2> QED BY <2>3, <2>4
<1>4. ~ Finite /\ next >= 1 /\ end' = next /\ phase' = "sealed"
  BY SealedStream DEF Seal
<1>5. ~ Finite' /\ end' # None
  BY <1>4 DEF Finite, None
<1> QED BY <1>3, <1>4, <1>5 DEF Tiled, OnPlan

-----------------------------------------------------------------------------
(* What a segment was answered with *)

\* The row vs goes on from ws, a clipped tail included that ends behind the
\* round e: windows that are final stay, and new ones are behind all others.
Continues(ws, vs, e) ==
  /\ Len(ws) <= Len(vs)
  /\ \A k \in 1 .. Len(ws) :
       /\ vs[k].lo = ws[k].lo
       /\ vs[k].hi = ws[k].hi \/ (e <= ws[k].hi /\ e <= vs[k].hi)
       /\ ws[k].stage = "final" => vs[k].stage = "final" /\ vs[k].says = ws[k].says
  /\ \A k \in 1 .. Len(vs) : k > Len(ws) => \A j \in 1 .. Len(ws) : ws[j].hi < vs[k].lo

\* The windows of a range the row reaches stay the same.
LEMMA RangeStays ==
  ASSUME NEW ws \in Seq(WindowType), NEW vs \in Seq(WindowType),
         NEW lo \in Nat, NEW e \in Nat, lo <= e, Continues(ws, vs, e),
         \E k \in 1 .. Len(ws) : e <= ws[k].hi
  PROVE  /\ Overlapping(vs, lo, e) = Overlapping(ws, lo, e)
         /\ \E k \in 1 .. Len(vs) : e <= vs[k].hi
<1>1. /\ Len(ws) \in Nat /\ Len(vs) \in Nat /\ DOMAIN ws = 1 .. Len(ws)
      /\ DOMAIN vs = 1 .. Len(vs) /\ Len(ws) <= Len(vs)
  BY LenProperties DEF Continues
<1>2. PICK last \in 1 .. Len(ws) : e <= ws[last].hi
  OBVIOUS
<1>3. ASSUME NEW k \in 1 .. Len(ws)
      PROVE  ws[k].lo <= e /\ ws[k].hi >= lo <=> vs[k].lo <= e /\ vs[k].hi >= lo
  <2>1. k \in 1 .. Len(vs)
    BY <1>1
  <2>2. ws[k].lo \in Nat /\ ws[k].hi \in Nat /\ vs[k].lo \in Nat /\ vs[k].hi \in Nat
    BY <2>1, WindowFields
  <2>3. /\ vs[k].lo = ws[k].lo
        /\ vs[k].hi = ws[k].hi \/ (e <= ws[k].hi /\ e <= vs[k].hi)
    BY DEF Continues
  <2> QED BY <2>2, <2>3
<1>4. ASSUME NEW k \in 1 .. Len(vs), k > Len(ws) PROVE ~(vs[k].lo <= e)
  <2>1. vs[k].lo \in Nat /\ ws[last].hi \in Nat
    BY WindowFields
  <2>2. ws[last].hi < vs[k].lo
    BY <1>4 DEF Continues
  <2> QED BY <1>2, <2>1, <2>2
<1>5. ASSUME NEW k
      PROVE  k \in Overlapping(vs, lo, e) <=> k \in Overlapping(ws, lo, e)
  <2>1. CASE k \in 1 .. Len(ws)
    <3>1. k \in 1 .. Len(vs)
      BY <1>1, <2>1
    <3> QED BY <1>1, <1>3, <2>1, <3>1 DEF Overlapping
  <2>2. CASE k \notin 1 .. Len(ws)
    <3>1. k \notin Overlapping(ws, lo, e)
      BY <1>1, <2>2 DEF Overlapping
    <3>2. ASSUME k \in Overlapping(vs, lo, e) PROVE FALSE
      <4>1. k \in 1 .. Len(vs) /\ vs[k].lo <= e
        BY <1>1, <3>2 DEF Overlapping
      <4>2. k > Len(ws)
        BY <1>1, <2>2, <4>1
      <4> QED BY <1>4, <4>1, <4>2
    <3> QED BY <3>1, <3>2
  <2> QED BY <2>1, <2>2
<1>6. \E k \in 1 .. Len(vs) : e <= vs[k].hi
  <2>1. last \in 1 .. Len(vs) /\ e <= vs[last].hi
    BY <1>1, <1>2 DEF Continues
  <2> QED BY <2>1
<1> QED BY <1>5, <1>6

\* The first and the last round of a segment that has begun.
LEMMA SegmentBounds ==
  ASSUME Scalars, Rounds, NEW s \in 1 .. Begun
  PROVE  /\ segEnd[s] \in Nat /\ segEnd[s] >= 1
         /\ segEnd[s] - Body[mode.kind][s] + 1 \in Nat
         /\ segEnd[s] - Body[mode.kind][s] + 1 >= 1
         /\ segEnd[s] - Body[mode.kind][s] + 1 <= segEnd[s]
<1>1. Begun \in Nat /\ segEnd[s] \in Nat
  BY LenProperties, ElementOfSeq DEF Begun, Scalars
<1>2. s \in 1 .. Len(Body[mode.kind])
  BY <1>1, BodyFacts DEF Scalars, Rounds
<1>3. Body[mode.kind][s] \in Nat /\ Body[mode.kind][s] >= 1
  BY <1>2, BodyFacts DEF Scalars
<1>4. Body[mode.kind][s] <= segEnd[s]
  BY DEF Rounds
<1> QED BY <1>1, <1>3, <1>4

\* An answer stands when the row goes on.
LEMMA StandsOn ==
  ASSUME Scalars, Rounds, Tables, win' \in Seq(WindowType), mode' = mode,
         Begun' \in Nat, Begun <= Begun', \A i \in 1 .. Begun : segEnd'[i] = segEnd[i],
         NEW a, Stands(a, win), Continues(win, win', segEnd[a.seg])
  PROVE  Stands(a, win)'
<1>1. PICK s : s = a.seg
  OBVIOUS
<1>2. PICK e, lo : e = segEnd[s] /\ lo = segEnd[s] - Body[mode.kind][s] + 1
  OBVIOUS
<1>3. s \in 1 .. Begun /\ Begun \in Nat
  BY <1>1, LenProperties DEF Stands, Begun, Scalars
<1>4. e \in Nat /\ lo \in Nat /\ lo <= e
  BY <1>2, <1>3, SegmentBounds
<1>5. /\ Result(win, s) = [k \in Overlapping(win, lo, e) |-> win[k].says]
      /\ (Result(win, s))' = [k \in Overlapping(win', lo, e) |-> win'[k].says]
  BY <1>2, <1>3 DEF Result, Overlapping
<1>6. /\ Overlapping(win', lo, e) = Overlapping(win, lo, e)
      /\ \E k \in 1 .. Len(win') : e <= win'[k].hi
  <2>1. \E k \in 1 .. Len(win) : e <= win[k].hi
    BY <1>1, <1>2 DEF Stands
  <2>2. win \in Seq(WindowType) /\ Continues(win, win', e)
    BY <1>1, <1>2 DEF Tables
  <2> QED BY <1>4, <2>1, <2>2, RangeStays
<1>7. ASSUME NEW k \in Overlapping(win, lo, e)
      PROVE  win'[k].stage = "final" /\ win'[k].says = win[k].says
  <2>1. k \in 1 .. Len(win)
    BY LenProperties DEF Overlapping, Tables
  <2>2. win[k].stage = "final"
    BY <1>1, <1>5 DEF Stands
  <2> QED BY <2>1, <2>2 DEF Continues
<1>8. (Result(win, s))' = Result(win, s)
  BY <1>5, <1>6, <1>7
<1>9. a.result = Result(win, s) /\ DOMAIN a.result = Overlapping(win, lo, e)
  BY <1>1, <1>5 DEF Stands
<1>10. s \in 1 .. Begun' /\ segEnd'[s] = e
  BY <1>2, <1>3
<1> QED BY <1>1, <1>6, <1>7, <1>8, <1>9, <1>10 DEF Stands

\* A bounded set of natural numbers has a greatest element.
LEMMA MaxOfBounded ==
  ASSUME NEW m \in Nat, NEW T, T \subseteq 0 .. m, T # {}
  PROVE  Max(T) \in T /\ \A y \in T : Max(T) >= y
<1> DEFINE U == {m - x : x \in T}
<1>1. U \subseteq Nat /\ U # {}
  <2>1. \A x \in T : x \in 0 .. m
    OBVIOUS
  <2>2. \A x \in T : m - x \in Nat
    BY <2>1
  <2>3. PICK x \in T : TRUE
    OBVIOUS
  <2>4. m - x \in U
    BY <2>3
  <2> QED BY <2>2, <2>4
<1>2. PICK u \in U : \A y \in U : u <= y
  BY <1>1, LeastOfNat
<1>3. PICK x \in T : u = m - x
  BY <1>2
<1>4. \A y \in T : x >= y
  <2> TAKE y \in T
  <2>1. m - y \in U /\ x \in Nat /\ y \in Nat
    OBVIOUS
  <2>2. m - x <= m - y
    BY <1>2, <1>3, <2>1
  <2> QED BY <2>1, <2>2
<1> QED BY <1>4 DEF Max

\* The committed prefix is covered by committed regions.
LEMMA PrefixCovered ==
  ASSUME NEW regions, NEW limit \in Nat, NEW upto, upto = Prefix(regions, limit)
  PROVE  upto \in Nat /\ \A r \in 1 .. upto : \E h \in regions : h.lo <= r /\ r <= h.hi
<1> DEFINE T == {n \in 0 .. limit : \A r \in 1 .. n : \E h \in regions : h.lo <= r /\ r <= h.hi}
<1>1. T \subseteq 0 .. limit /\ 0 \in T
  OBVIOUS
<1>2. Max(T) \in T
  <2> HIDE DEF T
  <2>1. T # {}
    BY <1>1
  <2> QED BY <1>1, <2>1, MaxOfBounded
<1>3. upto = Max(T)
  BY DEF Prefix
<1> QED BY <1>2, <1>3

\* What release_stream_segments_at_commit answers with is final.
LEMMA ReleasedStands ==
  ASSUME Scalars, Rounds, NEW ws \in Seq(WindowType), Tiled(ws),
         NEW limit \in Nat, NEW upto, upto = Prefix(Regions(ws), limit),
         NEW s \in 1 .. Begun, segEnd[s] <= upto, ~ WaitsForStrong(ws, s),
         NEW a, a = [seg |-> s, result |-> Result(ws, s)]
  PROVE  Stands(a, ws)
<1>1. PICK e, lo : e = segEnd[s] /\ lo = segEnd[s] - Body[mode.kind][s] + 1
  OBVIOUS
<1>2. e \in Nat /\ e >= 1 /\ lo \in Nat /\ lo >= 1 /\ lo <= e
  BY <1>1, SegmentBounds
<1>3. /\ upto \in Nat
      /\ \A r \in 1 .. upto : \E h \in Regions(ws) : h.lo <= r /\ r <= h.hi
  BY PrefixCovered
<1>4. /\ Len(ws) \in Nat /\ DOMAIN ws = 1 .. Len(ws)
      /\ \A k \in 1 .. Len(ws) : ws[k].lo \in Nat /\ ws[k].hi \in Nat
  BY LenProperties, WindowFields
<1>5. /\ \A i, j \in 1 .. Len(ws) : i < j => ws[i].hi < ws[j].lo
      /\ \A k \in 1 .. Len(ws) : ws[k].lo >= 1 /\ ws[k].lo <= ws[k].hi
  BY RowOrder DEF Tiled
<1>6. ASSUME NEW r \in 1 .. upto
      PROVE  \E k \in 1 .. Len(ws) : Committed(ws[k]) /\ ws[k].lo <= r /\ r <= ws[k].hi
  <2>1. PICK h \in Regions(ws) : h.lo <= r /\ r <= h.hi
    BY <1>3, <1>6
  <2>2. PICK k \in 1 .. Len(ws) : Committed(ws[k]) /\ h = [lo |-> ws[k].lo, hi |-> ws[k].hi]
    BY <1>4 DEF Regions
  <2> QED BY <2>1, <2>2
<1>7. \E k \in 1 .. Len(ws) : e <= ws[k].hi
  <2>1. e \in 1 .. upto
    BY <1>1, <1>2, <1>3
  <2> QED BY <1>6, <2>1
<1>8. Result(ws, s) = [k \in Overlapping(ws, lo, e) |-> ws[k].says]
  BY <1>1 DEF Result
<1>9. ASSUME NEW k \in Overlapping(ws, lo, e) PROVE ws[k].stage = "final"
  <2>1. k \in 1 .. Len(ws) /\ ws[k].lo <= e
    BY <1>4 DEF Overlapping
  <2>2. ws[k].lo \in 1 .. upto
    BY <1>1, <1>2, <1>3, <1>4, <1>5, <2>1
  <2>3. PICK j \in 1 .. Len(ws) : Committed(ws[j]) /\ ws[j].lo <= ws[k].lo /\ ws[k].lo <= ws[j].hi
    BY <1>6, <2>2
  <2>4. ~(j < k) /\ ~(k < j)
    <3>1. /\ ws[k].lo \in Nat /\ ws[k].hi \in Nat /\ ws[k].lo <= ws[k].hi
          /\ ws[j].lo \in Nat /\ ws[j].hi \in Nat
      BY <1>4, <1>5, <2>1
    <3>2. j < k => ws[j].hi < ws[k].lo
      BY <1>5, <2>1
    <3>3. k < j => ws[k].hi < ws[j].lo
      BY <1>5, <2>1
    <3> QED BY <2>3, <3>1, <3>2, <3>3
  <2>5. j = k
    BY <2>1, <2>4
  <2>6. ~ Pending(ws[k])
    BY <1>1, <1>4, <2>1 DEF WaitsForStrong
  <2> QED BY <2>3, <2>5, <2>6 DEF Committed, Pending
<1>10. DOMAIN a.result = Overlapping(ws, lo, e) /\ a.seg = s
  BY <1>8
<1> QED BY <1>1, <1>7, <1>9, <1>10 DEF Stands

\* So every answer stands after a commit.
LEMMA CommitStands ==
  ASSUME Scalars, Rounds, Tiled(win'), win' \in Seq(WindowType),
         UNCHANGED <<mode, next, segEnd>>, NEW strong, AfterCommit(win', strong),
         \A a \in sent : Stands(a, win)'
  PROVE  Answered(win)'
<1>1. ASSUME NEW a \in sent', a \notin sent PROVE Stands(a, win)'
  <2>1. PICK upto, limit : limit = Most(next, Limit) /\ upto = Prefix(Regions(win'), limit)
    OBVIOUS
  <2>2. limit \in Nat
    BY <2>1, StreamAssumption DEF Scalars, Most
  <2>3. Release(win', upto)
    BY <1>1, <2>1 DEF AfterCommit
  <2>4. PICK s \in Waiting \cap (1 .. Begun) :
          /\ segEnd[s] <= upto /\ ~ WaitsForStrong(win', s)
          /\ a = [seg |-> s, result |-> Result(win', s)]
    BY <1>1, <2>3 DEF Release
  <2>5. s \in 1 .. Begun
    OBVIOUS
  <2>6. Stands(a, win')
    BY <2>1, <2>2, <2>4, <2>5, ReleasedStands
  <2> QED BY <2>6 DEF Stands, Result, Begun
<1> QED BY <1>1 DEF Answered

-----------------------------------------------------------------------------
(* The release of a segment is final *)

\* The successors of two numbers stand in their order.
LEMMA SuccessorOrder ==
  ASSUME NEW a \in Nat, NEW b \in Nat, a <= b
  PROVE  a + 1 \in Nat /\ b + 1 \in Nat /\ a + 1 <= b + 1
OBVIOUS

\* The plan may begin further on with every step, and a stream is sealed once.
LEMMA ReachGrows ==
  ASSUME Scalars, Rounds, Scalars', [Next]_vars
  PROVE  /\ Reach \in Nat /\ Reach' \in Nat /\ Reach <= Reach'
         /\ ~ Finite /\ ~ Seal => end' = end
         /\ phase = "sealed" => phase' = "sealed"
<1>1. next \in Nat /\ next' \in Nat
  BY DEF Scalars
<1>2. CASE Begin
  <2>1. phase \in {"waiting", "ended"}
    BY <1>2 DEF Begin, Rounds
  <2>2. Begun \in Nat /\ Begun < Len(Body[mode.kind])
    BY <1>2, LenProperties DEF Begin, Scalars, Begun
  <2>3. Begun + 1 \in 1 .. Len(Body[mode.kind])
    BY <2>2, BodyFacts DEF Scalars
  <2>4. PICK length : length = Body[mode.kind][Begun + 1]
    OBVIOUS
  <2>5. length \in Nat
    BY <2>3, <2>4, BodyFacts DEF Scalars
  <2>6. /\ next' = next \/ next' = next + length
        /\ mode' = mode /\ end' = end /\ phase' \in {"waiting", "running"}
    BY <1>2, <2>4 DEF Begin, planVars
  <2>7. next <= next'
    BY <1>1, <2>5, <2>6
  <2>8. phase \notin {"sealing", "sealed"} /\ phase' \notin {"sealing", "sealed"}
    BY <2>1, <2>6
  <2>9. CASE mode.kind = "protected"
    <3>1. Reach = next + 1 /\ Reach' = next' + 1
      BY <2>6, <2>8, <2>9 DEF Reach
    <3>2. next + 1 \in Nat /\ next' + 1 \in Nat /\ next + 1 <= next' + 1
      <4>1. next <= next'
        BY <1>1, <2>7
      <4> QED BY <1>1, <4>1, SuccessorOrder
    <3>3. end' = end /\ phase # "sealed"
      BY <2>6, <2>8
    <3> QED BY <3>1, <3>2, <3>3
  <2>10. CASE mode.kind # "protected"
    <3>1. Reach = next /\ Reach' = next'
      BY <2>6, <2>10 DEF Reach
    <3> QED BY <1>1, <2>6, <2>7, <2>8, <3>1
  <2> QED BY <2>9, <2>10
<1>3. CASE Start \/ IdleRound
  <2>1. /\ phase \in {"waiting", "ended"} /\ phase' \in {phase, "running"}
        /\ mode' = mode /\ end' = end /\ (next' = next \/ next' = next + 1)
    BY <1>3 DEF Start, IdleRound, planVars
  <2>2. phase \notin {"sealing", "sealed"} /\ phase' \notin {"sealing", "sealed"}
    BY <2>1
  <2>3. CASE mode.kind = "protected"
    <3>1. Reach = next + 1 /\ Reach' = next' + 1
      BY <2>1, <2>2, <2>3 DEF Reach
    <3>2. next + 1 \in Nat /\ next' + 1 \in Nat /\ next + 1 <= next' + 1
      <4>1. next <= next'
        BY <1>1, <2>1
      <4> QED BY <1>1, <4>1, SuccessorOrder
    <3>3. end' = end /\ phase # "sealed"
      BY <2>1, <2>2
    <3> QED BY <3>1, <3>2, <3>3
  <2>4. CASE mode.kind # "protected"
    <3>1. Reach = next /\ Reach' = next'
      BY <2>1, <2>4 DEF Reach
    <3> QED BY <1>1, <2>1, <2>2, <3>1
  <2> QED BY <2>3, <2>4
<1>4. CASE ProtectedRound
  <2>1. /\ phase \in {"running", "ended", "closing"} /\ mode' = mode /\ end' = end
        /\ next' = next + 1 /\ phase' = IF phase = "closing" THEN "sealing" ELSE phase
    BY <1>4 DEF ProtectedRound, planVars
  <2> QED BY <1>1, <2>1 DEF Reach
<1>5. CASE BodyRound \/ ProtectedBodyEnds
  <2>1. /\ phase = "running" /\ phase' \in {"running", "ended", "closing"}
        /\ mode' = mode /\ next' = next /\ end' = end
    BY <1>5 DEF BodyRound, ProtectedBodyEnds
  <2> QED BY <1>1, <2>1 DEF Reach
<1>6. CASE Seal
  <2>1. /\ (mode.kind = "open" /\ phase = "ended") \/ phase = "sealing"
        /\ mode' = mode /\ next' = next /\ phase' = "sealed"
    BY <1>6 DEF Seal, CanSeal
  <2> QED BY <1>1, <1>6, <2>1 DEF Reach
<1>7. CASE UNCHANGED <<mode, next, phase>> /\ (~ Finite => end' = end)
  BY <1>1, <1>7 DEF Reach
<1>8. CASE Arrive
  <2>1. UNCHANGED <<mode, next, phase>> /\ (~ Finite => end' = end)
    BY <1>8 DEF Arrive, qpuVars
  <2> QED BY <1>7, <2>1
<1>9. CASE Drop \/ SinkWeak \/ Install \/ UNCHANGED vars
           \/ \E k \in DOMAIN win : Decoding(k)
  <2>1. UNCHANGED <<mode, next, phase, end>>
    BY <1>9 DEF Drop, SinkWeak, Install, Decoding, Land, DecodeFinal, DecodeEscalated,
       SinkStrong, Receive, vars, qpuVars, planVars
  <2> QED BY <1>7, <2>1
<1> QED BY <1>2, <1>3, <1>4, <1>5, <1>6, <1>8, <1>9 DEF Next, Work, Emission

\* The plan the regions stand on is reached further by every step.
LEMMA OnPlanStays ==
  ASSUME Scalars, Rounds, Tables, Rounds', Scalars', [Next]_vars, ~ Seal,
         OnPlan(win), Tiled(win), win' \in Seq(WindowType), Len(win') = Len(win),
         SameRegions(win, win')
  PROVE  Tiled(win') /\ OnPlan(win)'
<1>1. /\ Len(win) \in Nat
      /\ \A k \in 1 .. Len(win) : win'[k].lo = win[k].lo /\ win'[k].hi = win[k].hi
  BY LenProperties DEF Tables, SameRegions
<1>2. Tiled(win')
  <2> SUFFICES ASSUME NEW k \in 1 .. Len(win)
               PROVE  /\ win'[k].lo = (IF k = 1 THEN 1 ELSE win'[k - 1].hi + 1)
                      /\ win'[k].lo <= win'[k].hi
    BY DEF Tiled
  <2>1. k # 1 => k - 1 \in 1 .. Len(win)
    BY <1>1
  <2> QED BY <1>1, <2>1 DEF Tiled
<1>3. mode' = mode
  BY RoundsStep
<1>4. /\ Reach \in Nat /\ Reach' \in Nat /\ Reach <= Reach'
      /\ ~ Finite => end' = end
      /\ phase' # "sealed" => phase # "sealed"
  BY ReachGrows
<1>5. CASE Finite
  BY <1>1, <1>2, <1>3, <1>5 DEF OnPlan, Finite, Plan
<1>6. CASE ~ Finite
  <2>1. /\ phase # "sealed" => end = None
        /\ end = None => \A k \in 1 .. Len(win) :
             /\ win[k].lo = (k - 1) * F + 1 /\ win[k].hi = k * F /\ win[k].lo <= Reach
    BY <1>6 DEF OnPlan
  <2>2. end = None => \A k \in 1 .. Len(win) : win[k].lo <= Reach'
    <3> SUFFICES ASSUME end = None, NEW k \in 1 .. Len(win) PROVE win[k].lo <= Reach'
      OBVIOUS
    <3>1. win[k].lo \in Nat /\ win[k].lo <= Reach
      BY <2>1, WindowFields DEF Tables
    <3> QED BY <1>4, <3>1
  <2>3. ~ Finite'
    BY <1>3, <1>6 DEF Finite
  <2>4. phase' # "sealed" => end' = None
    BY <1>4, <1>6, <2>1
  <2>5. end' = None => \A k \in 1 .. Len(win') :
          /\ win'[k].lo = (k - 1) * F + 1 /\ win'[k].hi = k * F /\ win'[k].lo <= Reach'
    BY <1>1, <1>4, <1>6, <2>1, <2>2
  <2> QED BY <1>2, <2>3, <2>4, <2>5 DEF OnPlan
<1> QED BY <1>5, <1>6

\* The segments that have begun keep their last rounds.
LEMMA SegmentsStay ==
  ASSUME Scalars, [Next]_vars
  PROVE  /\ Begun \in Nat /\ Begun' \in Nat /\ Begun <= Begun'
         /\ \A i \in 1 .. Begun : segEnd'[i] = segEnd[i]
<1>1. segEnd \in Seq(Nat) /\ Begun \in Nat
  BY LenProperties DEF Scalars, Begun
<1>2. CASE Begin
  <2>1. PICK e : segEnd' = Append(segEnd, e)
    BY <1>2 DEF Begin
  <2>2. /\ Begun' = Begun + 1 /\ \A i \in 1 .. Begun : segEnd'[i] = segEnd[i]
    BY <1>1, <2>1 DEF Begun
  <2> QED BY <1>1, <2>2
<1>3. CASE UNCHANGED segEnd
  BY <1>1, <1>3 DEF Begun
<1>4. ASSUME ~ Begin PROVE UNCHANGED segEnd
  <2>1. CASE Emission
    BY <1>4, <2>1 DEF Emission, Start, IdleRound, ProtectedRound, BodyRound,
       ProtectedBodyEnds, Seal
  <2>2. CASE Arrive \/ Drop \/ SinkWeak \/ Install \/ UNCHANGED vars
    BY <2>2 DEF Arrive, Drop, SinkWeak, Install, vars, qpuVars
  <2>3. CASE \E k \in DOMAIN win : Decoding(k)
    BY <2>3 DEF Decoding, Land, DecodeFinal, DecodeEscalated, SinkStrong, Receive, qpuVars
  <2> QED BY <2>1, <2>2, <2>3 DEF Next, Work
<1> QED BY <1>2, <1>3, <1>4

\* Final windows stay what they are.
FinalStay(ws, vs) ==
  \A k \in 1 .. Len(ws) :
    ws[k].stage = "final" => vs[k].stage = "final" /\ vs[k].says = ws[k].says

\* A step that plans nothing keeps the regions and every answer.
LEMMA SameRowRelease ==
  ASSUME Scalars, Rounds, Tables, Rounds', Scalars', [Next]_vars, ~ Seal, ReleaseInv,
         win' \in Seq(WindowType), Len(win') = Len(win),
         SameRegions(win, win'), FinalStay(win, win')
  PROVE  Tiled(win') /\ OnPlan(win)' /\ \A a \in sent : Stands(a, win)'
<1>1. Tiled(win') /\ OnPlan(win)'
  BY OnPlanStays DEF ReleaseInv
<1>2. Len(win) \in Nat
  BY LenProperties DEF Tables
<1>3. ASSUME NEW a \in sent PROVE Stands(a, win)'
  <2>1. Stands(a, win)
    BY DEF ReleaseInv, Answered
  <2>2. Continues(win, win', segEnd[a.seg])
    BY <1>2 DEF Continues, SameRegions, FinalStay
  <2>3. mode' = mode
    BY RoundsStep
  <2> QED BY <2>1, <2>2, <2>3, SegmentsStay, StandsOn
<1> QED BY <1>1, <1>3

\* So does one that plans more behind the windows there are.
LEMMA GrownRelease ==
  ASSUME Scalars, Rounds, Tables, Rounds', Scalars', [Next]_vars, ~ Seal, ReleaseInv,
         NEW known \in Nat, known <= Reach', NEW g, Grown(win, g, known, None, end),
         KeptRow(g, win'), SameRegions(g, win'), sent' = sent
  PROVE  ReleaseInv'
<1>1. /\ Tiled(g)
      /\ Finite => \A k \in 1 .. Len(g) : /\ k \in DOMAIN Plan
                                          /\ g[k].lo = Plan[k].lo /\ g[k].hi = Plan[k].hi
      /\ ~ Finite /\ end = None => \A k \in 1 .. Len(g) :
           /\ g[k].lo = (k - 1) * F + 1 /\ g[k].hi = k * F
           /\ g[k].lo <= known \/ g[k].lo <= Reach
  BY GrownOnPlan DEF ReleaseInv
<1>2. /\ g \in Seq(WindowType) /\ Len(g) \in Nat /\ win' \in Seq(WindowType)
      /\ Len(win') = Len(g) /\ win \in Seq(WindowType) /\ Len(win) \in Nat
      /\ Len(win) <= Len(g) /\ \A k \in 1 .. Len(win) : g[k] = win[k]
  BY LenProperties DEF Grown, KeptRow, Tables
<1>3. \A k \in 1 .. Len(g) : /\ win'[k].lo = g[k].lo /\ win'[k].hi = g[k].hi
                             /\ Kept(g[k], win'[k])
  BY DEF SameRegions, KeptRow
<1>4. Tiled(win')
  <2> SUFFICES ASSUME NEW k \in 1 .. Len(g)
               PROVE  /\ win'[k].lo = (IF k = 1 THEN 1 ELSE win'[k - 1].hi + 1)
                      /\ win'[k].lo <= win'[k].hi
    BY <1>2 DEF Tiled
  <2>1. k # 1 => k - 1 \in 1 .. Len(g)
    BY <1>2
  <2> QED BY <1>1, <1>3, <2>1 DEF Tiled
<1>5. mode' = mode /\ (~ Finite => end' = end)
      /\ (phase' # "sealed" => phase # "sealed")
      /\ Reach \in Nat /\ Reach' \in Nat /\ Reach <= Reach'
  BY RoundsStep, ReachGrows
<1>6. OnPlan(win)'
  <2>1. CASE Finite
    BY <1>1, <1>2, <1>3, <1>5, <2>1 DEF OnPlan, Finite, Plan
  <2>2. CASE ~ Finite
    <3>1. ~ Finite' /\ (phase' # "sealed" => end' = None)
      BY <1>5, <2>2 DEF Finite, ReleaseInv, OnPlan
    <3>2. ASSUME end' = None, NEW k \in 1 .. Len(g)
          PROVE  win'[k].lo = (k - 1) * F + 1 /\ win'[k].hi = k * F /\ win'[k].lo <= Reach'
      <4>1. /\ g[k].lo = (k - 1) * F + 1 /\ g[k].hi = k * F
            /\ g[k].lo <= known \/ g[k].lo <= Reach
        BY <1>1, <1>5, <2>2, <3>2
      <4>2. g[k].lo \in Nat
        BY <1>2, WindowFields
      <4>3. g[k].lo <= Reach'
        BY <1>5, <4>1, <4>2
      <4> QED BY <1>3, <4>1, <4>3
    <3> QED BY <1>2, <3>1, <3>2 DEF OnPlan
  <2> QED BY <2>1, <2>2
<1>7. \A i, j \in 1 .. Len(g) : i < j => g[i].hi < g[j].lo
  BY <1>1, <1>2, RowOrder
<1>8. ASSUME NEW a \in sent PROVE Stands(a, win)'
  <2>1. Stands(a, win)
    BY DEF ReleaseInv, Answered
  <2>2. ASSUME NEW k \in 1 .. Len(win)
        PROVE  /\ win'[k].lo = win[k].lo /\ win'[k].hi = win[k].hi
               /\ win[k].stage = "final" =>
                    win'[k].stage = "final" /\ win'[k].says = win[k].says
    <3>1. k \in 1 .. Len(g) /\ g[k] = win[k]
      BY <1>2
    <3> QED BY <1>3, <3>1 DEF Kept, Undecided
  <2>3. ASSUME NEW k \in 1 .. Len(g), k > Len(win), NEW j \in 1 .. Len(win)
        PROVE  win[j].hi < win'[k].lo
    <3>1. j \in 1 .. Len(g) /\ j < k
      BY <1>2, <2>3
    <3>2. g[j].hi < g[k].lo
      BY <1>7, <3>1
    <3> QED BY <1>2, <1>3, <3>2
  <2>4. Continues(win, win', segEnd[a.seg])
    BY <1>2, <2>2, <2>3 DEF Continues
  <2> QED BY <1>2, <1>5, <2>1, <2>4, SegmentsStay, StandsOn
<1> QED BY <1>4, <1>6, <1>8 DEF ReleaseInv, Answered

\* Sealing clips the tail behind every segment that was answered.
LEMMA SealRelease ==
  ASSUME Scalars, Rounds, Tables, Rounds', Scalars', Seal, ReleaseInv
  PROVE  ReleaseInv'
<1>1. PICK g : /\ Grown(win, g, next, next, end) /\ KeptRow(g, win')
               /\ \A k \in 1 .. Len(g) :
                    /\ win'[k].lo = g[k].lo
                    /\ win'[k].hi = IF k = Min(TailOf(g)) THEN next ELSE g[k].hi
  BY SealFacts
<1>2. mode' = mode /\ sent' = sent /\ segEnd' = segEnd /\ OnPlan(win)
  BY DEF Seal, ReleaseInv
<1>3. Tiled(win') /\ OnPlan(win)'
  BY <1>1, <1>2, SealedTiles
<1>4. /\ Min(TailOf(g)) = Len(g)
      /\ \A k \in 1 .. Len(g) : /\ g[k].lo = (k - 1) * F + 1
                                /\ k < Len(g) => g[k].hi = k * F
                                /\ k = Len(g) => next <= g[k].hi
  BY <1>1, <1>2, SealedRow
<1>5. /\ g \in Seq(WindowType) /\ Len(g) \in Nat /\ win' \in Seq(WindowType)
      /\ Len(win') = Len(g) /\ win \in Seq(WindowType) /\ Len(win) \in Nat
      /\ Len(win) <= Len(g) /\ \A k \in 1 .. Len(win) : g[k] = win[k]
  BY <1>1, LenProperties DEF Grown, KeptRow, Tables
<1>6. \A i \in 1 .. Begun : segEnd[i] <= next
  BY <1>2, SealedStream
<1>7. ASSUME NEW a \in sent PROVE Stands(a, win)'
  <2>1. Stands(a, win) /\ a.seg \in 1 .. Begun
    BY DEF ReleaseInv, Answered, Stands
  <2>2. segEnd[a.seg] <= next /\ segEnd[a.seg] \in Nat /\ next \in Nat
    BY <1>6, <2>1, SegmentBounds DEF Scalars
  <2>3. ASSUME NEW k \in 1 .. Len(win)
        PROVE  /\ win'[k].lo = win[k].lo
               /\ \/ win'[k].hi = win[k].hi
                  \/ segEnd[a.seg] <= win[k].hi /\ segEnd[a.seg] <= win'[k].hi
               /\ win[k].stage = "final" =>
                    win'[k].stage = "final" /\ win'[k].says = win[k].says
    <3>1. k \in 1 .. Len(g) /\ g[k] = win[k] /\ Kept(g[k], win'[k])
      BY <1>1, <1>5 DEF KeptRow
    <3>2. CASE k = Len(g)
      <4>1. win'[k].hi = next /\ next <= win[k].hi /\ win[k].hi \in Nat
        BY <1>1, <1>4, <1>5, <3>1, <3>2, WindowFields
      <4>2. segEnd[a.seg] <= win[k].hi /\ segEnd[a.seg] <= win'[k].hi
        BY <2>2, <4>1
      <4> QED BY <1>1, <3>1, <4>2 DEF Kept, Undecided
    <3>3. CASE k # Len(g)
      BY <1>1, <1>4, <3>1, <3>3 DEF Kept, Undecided
    <3> QED BY <3>2, <3>3
  <2>4. ASSUME NEW k \in 1 .. Len(g), k > Len(win), NEW j \in 1 .. Len(win)
        PROVE  win[j].hi < win'[k].lo
    <3>1. j \in 1 .. Len(g) /\ j < Len(g) /\ j \in Nat /\ k \in Nat /\ j <= k - 1 /\ k >= 1
      BY <1>5, <2>4
    <3>2. g[j].hi = j * F /\ win'[k].lo = (k - 1) * F + 1 /\ g[j] = win[j]
      BY <1>1, <1>4, <1>5, <3>1
    <3>3. j * F <= (k - 1) * F
      BY <3>1, TimesMonotone, StreamAssumption
    <3>4. j * F \in Nat /\ (k - 1) * F \in Nat
      BY <3>1, Stride
    <3> QED BY <3>2, <3>3, <3>4
  <2>5. Continues(win, win', segEnd[a.seg])
    BY <1>5, <2>3, <2>4 DEF Continues
  <2>6. Begun' \in Nat /\ Begun <= Begun' /\ \A i \in 1 .. Begun : segEnd'[i] = segEnd[i]
    BY <1>2, LenProperties DEF Begun, Scalars
  <2> QED BY <1>2, <1>5, <2>1, <2>5, <2>6, StandsOn
<1> QED BY <1>2, <1>3, <1>7 DEF ReleaseInv, Answered

\* Two rows with the same numbers are of the same length.
LEMMA SameLength ==
  ASSUME NEW ws \in Seq(WindowType), NEW vs \in Seq(WindowType), DOMAIN vs = DOMAIN ws
  PROVE  Len(vs) = Len(ws) /\ DOMAIN ws = 1 .. Len(ws)
<1>1. /\ Len(ws) \in Nat /\ Len(vs) \in Nat
      /\ DOMAIN ws = 1 .. Len(ws) /\ DOMAIN vs = 1 .. Len(vs)
  BY LenProperties
<1>2. 1 .. Len(ws) = 1 .. Len(vs)
  BY <1>1
<1>3. Len(ws) <= Len(vs)
  <2>1. Len(ws) >= 1 => Len(ws) \in 1 .. Len(ws)
    BY <1>1
  <2> QED BY <1>1, <1>2, <2>1
<1>4. Len(vs) <= Len(ws)
  <2>1. Len(vs) >= 1 => Len(vs) \in 1 .. Len(vs)
    BY <1>1
  <2> QED BY <1>1, <1>2, <2>1
<1> QED BY <1>1, <1>3, <1>4

\* The step of one window keeps the regions and what is final.
LEMMA WindowStepRow ==
  ASSUME Scalars, BoundaryInv, Tables',
         SinkWeak \/ Install \/ \E k \in DOMAIN win : Decoding(k)
  PROVE  /\ Len(win') = Len(win) /\ SameRegions(win, win') /\ FinalStay(win, win')
<1>1. /\ win \in Seq(WindowType) /\ Len(win) \in Nat /\ DOMAIN win = 1 .. Len(win)
      /\ win' \in Seq(WindowType)
      /\ \A j \in 1 .. Len(win) : win[j] \in WindowType
  BY LenProperties, WindowFields DEF BoundaryInv, Tables
<1>2. CASE SinkWeak
  BY <1>2 DEF SinkWeak, SameRegions, FinalStay
<1>3. CASE Install
  <2>1. PICK k : k = Head(writes)
    OBVIOUS
  <2>2. writes \in Seq(Nat) /\ writes # <<>>
    BY <1>3 DEF Install, BoundaryInv, Tables
  <2>3. k \in ToSet(writes)
    <3>1. ToSet(writes) = {Head(writes)} \cup ToSet(Tail(writes))
      BY <2>2, HeadAndTail
    <3> QED BY <2>1, <3>1
  <2>4. k \in 1 .. Len(win) /\ win[k].stage # "final"
    BY <2>3 DEF BoundaryInv, Corrections
  <2>5. DOMAIN win' = DOMAIN win
    BY <1>3 DEF Install, Ship
  <2>6. ASSUME NEW j \in 1 .. Len(win)
        PROVE  /\ win'[j].lo = win[j].lo /\ win'[j].hi = win[j].hi
               /\ j # k => win'[j] = win[j]
    <3>1. CASE win[k].stage = "resolving"
      <4>1. win' = Ship([win EXCEPT ![k].stage = "final", ![k].says = "strong",
                                    ![k].entry = "strong", ![k].held = FALSE], k, "strong")
        BY <1>3, <2>1, <3>1 DEF Install
      <4>2. CASE j = k
        BY <1>1, <2>4, <4>1, <4>2 DEF Ship, WindowType
      <4>3. CASE j # k
        BY <1>1, <2>4, <4>1, <4>3 DEF Ship
      <4> QED BY <4>2, <4>3
    <3>2. CASE win[k].stage # "resolving"
      <4>1. win' = [win EXCEPT ![k].stage = "final", ![k].says = "weak",
                               ![k].entry = "weak", ![k].held = FALSE]
        BY <1>3, <2>1, <3>2 DEF Install
      <4>2. CASE j = k
        <5>1. win[k] \in WindowType /\ k \in DOMAIN win
          BY <1>1, <2>4, <4>2
        <5>2. win'[k].lo = win[k].lo /\ win'[k].hi = win[k].hi
              /\ win'[k].stage = "final" /\ win'[k].says = "weak"
          BY <4>1, <5>1 DEF WindowType
        <5> QED BY <4>2, <5>2
      <4>3. CASE j # k
        BY <1>1, <2>4, <4>1, <4>3
      <4> QED BY <4>2, <4>3
    <3> QED BY <3>1, <3>2
  <2>7. Len(win') = Len(win)
    BY <1>1, <2>5, SameLength
  <2> QED BY <2>4, <2>6, <2>7 DEF SameRegions, FinalStay
<1>4. ASSUME NEW k \in DOMAIN win, DecodeFinal(k) \/ DecodeEscalated(k) \/ SinkStrong(k)
      PROVE  /\ Len(win') = Len(win) /\ SameRegions(win, win') /\ FinalStay(win, win')
  <2>1. k \in 1 .. Len(win) /\ win[k].stage # "final"
    BY <1>1, <1>4 DEF DecodeFinal, DecodeEscalated, SinkStrong
  <2>2. DOMAIN win' = DOMAIN win
    BY <1>4 DEF DecodeFinal, DecodeEscalated, SinkStrong, Ship
  <2>3. ASSUME NEW j \in 1 .. Len(win)
        PROVE  /\ win'[j].lo = win[j].lo /\ win'[j].hi = win[j].hi
               /\ j # k => win'[j] = win[j]
    <3>1. CASE DecodeFinal(k)
      <4>1. win' = [win EXCEPT ![k] = [win[k] EXCEPT !.out = "weak", !.stage = "sinking"]]
        BY <1>1, <2>1, <3>1 DEF DecodeFinal, Ship
      <4>2. win[k] \in WindowType
        BY <1>1, <2>1
      <4>3. win'[k].lo = win[k].lo /\ win'[k].hi = win[k].hi
        BY <1>1, <2>1, <4>1, <4>2 DEF WindowType
      <4>4. j # k => win'[j] = win[j]
        BY <1>1, <2>1, <4>1
      <4> QED BY <4>3, <4>4
    <3>2. CASE DecodeEscalated(k)
      <4>1. win' = [win EXCEPT ![k].stage = "asked", ![k].says = "weak", ![k].held = TRUE]
        BY <3>2 DEF DecodeEscalated
      <4>2. win[k] \in WindowType
        BY <1>1, <2>1
      <4>3. win'[k].lo = win[k].lo /\ win'[k].hi = win[k].hi
        BY <1>1, <2>1, <4>1, <4>2 DEF WindowType
      <4>4. j # k => win'[j] = win[j]
        BY <1>1, <2>1, <4>1
      <4> QED BY <4>3, <4>4
    <3>3. CASE SinkStrong(k)
      <4>1. win' = [win EXCEPT ![k].stage = "resolving"]
        BY <3>3 DEF SinkStrong
      <4>2. win[k] \in WindowType
        BY <1>1, <2>1
      <4>3. win'[k].lo = win[k].lo /\ win'[k].hi = win[k].hi
        BY <1>1, <2>1, <4>1, <4>2 DEF WindowType
      <4>4. j # k => win'[j] = win[j]
        BY <1>1, <2>1, <4>1
      <4> QED BY <4>3, <4>4
    <3> QED BY <1>4, <3>1, <3>2, <3>3
  <2>4. Len(win') = Len(win)
    BY <1>1, <2>2, SameLength
  <2> QED BY <2>1, <2>3, <2>4 DEF SameRegions, FinalStay
<1>5. ASSUME NEW k \in DOMAIN win, Land(k)
      PROVE  /\ Len(win') = Len(win) /\ SameRegions(win, win') /\ FinalStay(win, win')
  <2>1. KeptRow(win, win') /\ SameRegions(win, win')
    BY <1>5, LandKept DEF BoundaryInv
  <2> QED BY <2>1 DEF KeptRow, Kept, FinalStay, Undecided
<1>6. ASSUME NEW k \in DOMAIN win, Receive(k)
      PROVE  /\ Len(win') = Len(win) /\ SameRegions(win, win') /\ FinalStay(win, win')
  <2>1. k \in 1 .. Len(win) /\ k + 1 \in 1 .. Len(win)
    BY <1>6 DEF Receive, BoundaryInv, Chain
  <2>2. PICK w, source : w = win[k + 1] /\ source = win[k]
    OBVIOUS
  <2> DEFINE v == [w EXCEPT !.deps = 0, !.inb = source.out]
             ws == [win EXCEPT ![k + 1] = v]
  <2>3. /\ v \in WindowType /\ v.lo = w.lo /\ v.hi = w.hi /\ v.stage = w.stage
        /\ v.says = w.says
    <3>1. w \in WindowType /\ source \in WindowType
      BY <1>1, <2>1, <2>2
    <3> QED BY <3>1 DEF WindowType
  <2>4. win' = Check(ws, arrived, closed, end, got \ freed)
    BY <1>1, <1>6, <2>1, <2>2 DEF Receive, Settle
  <2> HIDE DEF v
  <2>5. ws = [win EXCEPT ![k + 1] = v]
    OBVIOUS
  <2> HIDE DEF ws
  <2>6. Edited(win, ws, k + 1, v)
    BY <1>1, <2>1, <2>3, <2>5, EditOne
  <2>7. ws \in Seq(WindowType) /\ Len(ws) = Len(win) /\ got \ freed \subseteq Nat
    BY <2>6 DEF Edited, Scalars
  <2>8. KeptRow(ws, win') /\ SameRegions(ws, win')
    BY <2>4, <2>7, CheckFacts
  <2>9. ASSUME NEW j \in 1 .. Len(win)
        PROVE  ws[j].lo = win[j].lo /\ ws[j].hi = win[j].hi
               /\ ws[j].stage = win[j].stage /\ ws[j].says = win[j].says
    <3>1. CASE j = k + 1
      <4>1. ws[j] = v /\ win[j] = w
        BY <2>2, <2>6, <3>1 DEF Edited
      <4> QED BY <2>3, <4>1
    <3>2. CASE j # k + 1
      BY <2>6, <3>2 DEF Edited
    <3> QED BY <3>1, <3>2
  <2>10. Len(win') = Len(win)
    BY <2>7, <2>8 DEF KeptRow
  <2>11. SameRegions(win, win')
    <3>1. \A j \in 1 .. Len(win) : win'[j].lo = ws[j].lo /\ win'[j].hi = ws[j].hi
      BY <2>7, <2>8 DEF SameRegions
    <3> QED BY <2>9, <3>1 DEF SameRegions
  <2>12. FinalStay(win, win')
    <3>1. \A j \in 1 .. Len(win) : Kept(ws[j], win'[j])
      BY <2>7, <2>8 DEF KeptRow
    <3>2. ASSUME NEW j \in 1 .. Len(win), win[j].stage = "final"
          PROVE  win'[j].stage = "final" /\ win'[j].says = win[j].says
      <4>1. ws[j].stage = "final" /\ ws[j].says = win[j].says /\ Kept(ws[j], win'[j])
        BY <2>9, <3>1, <3>2
      <4> QED BY <4>1 DEF Kept, Undecided
    <3> QED BY <3>2 DEF FinalStay
  <2> QED BY <2>10, <2>11, <2>12
<1> QED BY <1>2, <1>3, <1>4, <1>5, <1>6 DEF Decoding

\* Every step.
LEMMA ReleaseStep ==
  ASSUME Scalars, Rounds, BoundaryInv, ReleaseInv, [Next]_vars
  PROVE  ReleaseInv'
<1>1. Scalars' /\ Rounds' /\ mode' = mode /\ BoundaryInv'
  BY RoundsStep, BoundaryStep
<1>2. Tables /\ Tables' /\ win \in Seq(WindowType) /\ win' \in Seq(WindowType)
  BY <1>1 DEF BoundaryInv, Tables
<1>3. CASE Seal
  BY <1>1, <1>2, <1>3, SealRelease
<1>4. ASSUME ~ Seal, UNCHANGED <<win, sent>> PROVE ReleaseInv'
  <2>1. SameRegions(win, win') /\ FinalStay(win, win') /\ Len(win') = Len(win)
    BY <1>4 DEF SameRegions, FinalStay
  <2> QED BY <1>1, <1>2, <1>4, <2>1, SameRowRelease DEF ReleaseInv, Answered
<1>5. CASE ~ Seal /\ (Begin \/ Start \/ IdleRound \/ ProtectedRound \/ Drop \/ UNCHANGED vars)
  <2>1. UNCHANGED <<win, sent>>
    BY <1>5 DEF Begin, Start, IdleRound, ProtectedRound, Drop, vars, lateVars
  <2> QED BY <1>4, <1>5, <2>1
<1>6. CASE ~ Seal /\ (BodyRound \/ ProtectedBodyEnds)
  <2>1. (sent' = sent /\ segEnd' = segEnd /\ phase' # "running") \/ UNCHANGED <<win, sent>>
    BY <1>6 DEF BodyRound, ProtectedBodyEnds, lateVars
  <2>2. CASE UNCHANGED <<win, sent>>
    BY <1>4, <1>6, <2>2
  <2>3. CASE CloseBoundary(segEnd[Begun]) /\ ~ UNCHANGED <<win, sent>>
    <3>1. /\ Begun \in Nat /\ Begun > 0 /\ Begun' = Begun
          /\ segEnd[Begun] \in Nat
      <4>1. Begun > 0
        BY <1>6 DEF BodyRound, ProtectedBodyEnds, Rounds
      <4>2. Begun \in Nat /\ \A i \in 1 .. Begun : segEnd[i] \in Nat
        BY LenProperties, ElementOfSeq DEF Begun, Scalars
      <4>3. Begun \in 1 .. Begun
        BY <4>1, <4>2
      <4>4. segEnd' = segEnd
        BY <2>1, <2>3
      <4> QED BY <4>1, <4>2, <4>3, <4>4 DEF Begun
    <3>2. segEnd[Begun] <= Reach'
      <4>1. Begun \in 1 .. Begun' /\ segEnd'[Begun] = segEnd[Begun] /\ phase' # "running"
        BY <2>1, <2>3, <3>1
      <4>2. CASE mode.kind = "protected"
        BY <1>1, <4>1, <4>2 DEF Rounds
      <4>3. CASE mode.kind # "protected"
        BY <1>1, <4>1, <4>3 DEF Rounds, Reach
      <4> QED BY <4>2, <4>3
    <3>3. PICK g : /\ Grown(win, g, segEnd[Begun], None, end)
                   /\ KeptRow(g, win') /\ SameRegions(g, win')
      BY <1>2, <2>3, <3>1, CloseFacts
    <3>4. PICK b : b = segEnd[Begun]
      OBVIOUS
    <3> QED BY <1>1, <1>2, <1>6, <2>1, <2>3, <3>1, <3>2, <3>3, <3>4, GrownRelease
  <2>4. CloseBoundary(segEnd[Begun]) \/ UNCHANGED win
    BY <1>6 DEF BodyRound, ProtectedBodyEnds, BodyEnds
  <2>5. sent' = sent
    BY <1>6 DEF BodyRound, ProtectedBodyEnds, lateVars
  <2> QED BY <2>2, <2>3, <2>4, <2>5
<1>7. CASE ~ Seal /\ Arrive
  <2>1. sent' = sent /\ UNCHANGED <<mode, next, phase>>
    BY <1>7 DEF Arrive, qpuVars
  <2>2. PICK g : /\ Grown(win, g, arrived', None, end)
                 /\ KeptRow(g, win') /\ SameRegions(g, win')
    BY <1>2, <1>7, ArriveFacts
  <2>3. arrived' \in Nat /\ arrived' <= Reach'
    <3>1. arrived' \in Nat /\ next' \in Nat /\ arrived' <= next'
      BY <1>1 DEF Scalars, Rounds
    <3>2. next' <= Reach' /\ Reach' \in Nat
      <4>1. PICK n : n = next'
        OBVIOUS
      <4>2. Reach' = n \/ Reach' = n + 1
        BY <4>1 DEF Reach
      <4> QED BY <3>1, <4>1, <4>2
    <3> QED BY <3>1, <3>2
  <2> QED BY <1>1, <1>2, <1>7, <2>1, <2>2, <2>3, GrownRelease
<1>8. CASE ~ Seal /\ (SinkWeak \/ Install \/ \E k \in DOMAIN win : Decoding(k))
  <2>1. Len(win') = Len(win) /\ SameRegions(win, win') /\ FinalStay(win, win')
    BY <1>2, <1>8, WindowStepRow
  <2>2. Tiled(win') /\ OnPlan(win)' /\ \A a \in sent : Stands(a, win)'
    BY <1>1, <1>2, <1>8, <2>1, SameRowRelease
  <2>3. CASE sent' = sent
    BY <2>2, <2>3 DEF ReleaseInv, Answered
  <2>4. CASE UNCHANGED <<mode, next, segEnd>> /\ \E strong : AfterCommit(win', strong)
    BY <1>2, <2>2, <2>4, CommitStands DEF ReleaseInv
  <2>5. ASSUME NEW k \in DOMAIN win, Decoding(k)
        PROVE  \/ sent' = sent
               \/ UNCHANGED <<mode, next, segEnd>> /\ \E strong : AfterCommit(win', strong)
    BY <2>5 DEF Decoding, Land, DecodeFinal, DecodeEscalated, SinkStrong, Receive,
       lateVars, qpuVars
  <2>6. CASE Install
    BY <2>4, <2>6 DEF Install, qpuVars
  <2>7. CASE SinkWeak
    BY <2>3, <2>7 DEF SinkWeak
  <2> QED BY <1>8, <2>3, <2>4, <2>5, <2>6, <2>7
<1>9. Seal \/ ~ Seal
  OBVIOUS
<1> QED BY <1>3, <1>5, <1>6, <1>7, <1>8, <1>9 DEF Next, Work, Emission

\* Initially no segment has been answered.
LEMMA ReleaseInit ==
  ASSUME Init
  PROVE  ReleaseInv
BY DEF Init, ReleaseInv, Tiled, OnPlan, Answered, None

\* The invariant is kept.
LEMMA StreamInvariance == Spec => []SInv
<1>1. Init => SInv
  BY BoundaryInit, ReleaseInit DEF SInv
<1>2. SInv /\ [Next]_vars => SInv'
  BY RoundsStep, BoundaryStep, ReleaseStep DEF SInv
<1> QED BY <1>1, <1>2, PTL DEF Spec

\* What a segment was answered with never changes again, and the frame agrees
\* with the ledger (release_stream_segments_at_commit): true for every code,
\* every row of segments, every kind of stream and every policy.
THEOREM ReleasesAreFinal == Spec => []ReleasedIsFinal
<1>1. SInv => ReleasedIsFinal
  <2> SUFFICES ASSUME SInv PROVE ReleasedIsFinal
    OBVIOUS
  <2>1. DOMAIN win = 1 .. Len(win) /\ \A k \in 1 .. Len(win) : OwnResult(win[k])
    BY LenProperties DEF SInv, BoundaryInv, Tables, Chain
  <2>2. ASSUME NEW k \in DOMAIN win, win[k].entry # "none"
        PROVE  win[k].says = win[k].entry
    BY <2>1, <2>2 DEF OwnResult
  <2>3. ASSUME NEW a \in sent
        PROVE  /\ a.result = Result(win, a.seg)
               /\ \A k \in DOMAIN a.result : win[k].entry = a.result[k]
    <3>1. Stands(a, win)
      BY DEF SInv, ReleaseInv, Answered
    <3>2. a.result = Result(win, a.seg)
      BY <3>1 DEF Stands
    <3>3. ASSUME NEW k \in DOMAIN a.result PROVE win[k].entry = a.result[k]
      <4>1. a.result[k] = win[k].says /\ k \in DOMAIN win
        BY <3>2, <3>3 DEF Result, Overlapping
      <4>2. win[k].stage = "final"
        BY <3>1, <3>3 DEF Stands
      <4> QED BY <2>1, <4>1, <4>2 DEF OwnResult
    <3> QED BY <3>2, <3>3
  <2> QED BY <2>2, <2>3 DEF ReleasedIsFinal
<1> QED BY <1>1, StreamInvariance, PTL

-----------------------------------------------------------------------------
(* What the windows read *)

\* The rounds there are, as far as a window knows.
Known(w, n) == IF n # None THEN n ELSE IF Finite THEN Limit ELSE w.bhi

\* A boundary that closed inside its buffer.
Inside(w, b) == w.hi <= b /\ b < w.bhi

\* r is where a window stops reading: at the end of its buffer, of the rounds
\* there are (known) or at the first boundary that closed inside its buffer,
\* whichever comes first.
Stops(w, shut, known, r) ==
  /\ r \in Nat /\ r <= w.bhi /\ r <= known
  /\ \A b \in shut : Inside(w, b) => r <= b
  /\ r = w.bhi \/ r = known \/ \E b \in shut : Inside(w, b) /\ r = b

\* ReadsTo is that place.
LEMMA ReadsIs ==
  ASSUME NEW w, w.bhi \in Nat, NEW shut, shut \subseteq Nat, NEW n \in Nat
  PROVE  Stops(w, shut, Known(w, n), ReadsTo(w, shut, n))
<1> DEFINE inside == {b \in shut : w.hi <= b /\ b < w.bhi}
<1>1. PICK known : known = Known(w, n)
  OBVIOUS
<1>2. known \in Nat
  BY <1>1, StreamAssumption DEF None, Known
<1>3. Effective(w, shut, n) = IF inside = {} THEN known ELSE Least(known, Min(inside))
  BY <1>1 DEF Effective, Known
<1>4. inside # {} => Min(inside) \in inside /\ \A y \in inside : Min(inside) <= y
  BY MinOfNat
<1>5. \A b \in shut : Inside(w, b) <=> b \in inside
  BY DEF Inside
<1>6. inside \subseteq shut /\ inside \subseteq Nat
  OBVIOUS
<1> HIDE DEF inside
<1>7. CASE inside = {}
  <2>1. ReadsTo(w, shut, n) = Least(w.bhi, known)
    BY <1>3, <1>7 DEF ReadsTo
  <2>2. Least(w.bhi, known) \in Nat /\ Least(w.bhi, known) \in {w.bhi, known}
        /\ Least(w.bhi, known) <= w.bhi /\ Least(w.bhi, known) <= known
    BY <1>2 DEF Least
  <2> QED BY <1>1, <1>5, <1>7, <2>1, <2>2 DEF Stops
<1>8. CASE inside # {}
  <2>1. PICK b : b = Min(inside)
    OBVIOUS
  <2>2. b \in shut /\ b \in inside /\ b \in Nat /\ \A y \in inside : b <= y
    BY <1>4, <1>6, <1>8, <2>1
  <2>3. PICK r : r = Least(w.bhi, Least(known, b))
    OBVIOUS
  <2>4. ReadsTo(w, shut, n) = r
    BY <1>3, <1>8, <2>1, <2>3 DEF ReadsTo
  <2>5. r \in Nat /\ r \in {w.bhi, known, b} /\ r <= w.bhi /\ r <= known /\ r <= b
    BY <1>2, <2>2, <2>3 DEF Least
  <2>6. \A y \in inside : r <= y
    <3> TAKE y \in inside
    <3>1. y \in Nat /\ b <= y
      BY <1>6, <2>2
    <3> QED BY <2>2, <2>5, <3>1
  <2> QED BY <1>1, <1>5, <2>2, <2>4, <2>5, <2>6 DEF Stops
<1> QED BY <1>7, <1>8

\* A window has its data when what it reads has arrived.
LEMMA DataIs ==
  ASSUME NEW w, w.bhi \in Nat, NEW shut, shut \subseteq Nat, NEW n \in Nat, NEW count \in Nat
  PROVE  LET have == Effective(w, shut, n)
         IN  DataComplete(w.bhi, count, have, {}, 0, have < w.bhi)
               <=> ReadsTo(w, shut, n) <= count
<1>1. PICK have : have = Effective(w, shut, n)
  OBVIOUS
<1>2. have \in Nat
  <2> DEFINE inside == {b \in shut : w.hi <= b /\ b < w.bhi}
  <2>1. PICK known \in Nat : known = Known(w, n)
    BY StreamAssumption DEF None, Known
  <2>2. have = IF inside = {} THEN known ELSE Least(known, Min(inside))
    BY <1>1, <2>1 DEF Effective, Known
  <2>3. inside # {} => Min(inside) \in Nat
    BY MinOfNat
  <2> HIDE DEF inside
  <2> QED BY <2>1, <2>2, <2>3 DEF Least
<1>3. ReadsTo(w, shut, n) = Least(w.bhi, have)
  BY <1>1 DEF ReadsTo
<1>4. w.bhi - have <= 0 \/ have < w.bhi
  BY <1>2
<1> QED BY <1>1, <1>2, <1>3, <1>4 DEF DataComplete

\* A window reads rounds that are there or will come: what a waiting window
\* will read is held and not released, and a submitted one was given all it
\* reads.  shut are the closed boundaries, n the rounds of a stream that has
\* ended, count how far the rounds have arrived, taken and gone those Buffer 0
\* has taken and released.
Retains(w, shut, n, count, taken, gone) ==
  /\ w.hi <= w.bhi /\ w.hi <= ReadsTo(w, shut, n)
  /\ n = None /\ ~ Finite => w.hi < w.bhi
  /\ IF w.stage = "open" THEN ReadsTo(w, shut, n) <= w.rhi
     ELSE /\ ReadsTo(w, shut, n) <= count
          /\ w.job = taken \cap (w.lo .. ReadsTo(w, shut, n))
  /\ gone \cap Hold(w) = {}

\* A boundary that closes at the rounds that have arrived or behind them cuts
\* nothing a submitted window reads.
LEMMA RetainsShut ==
  ASSUME NEW w \in WindowType, NEW shut, shut \subseteq Nat, NEW n \in Nat,
         NEW count \in Nat, NEW taken, NEW gone, Retains(w, shut, n, count, taken, gone),
         NEW b \in Nat, count <= b
  PROVE  Retains(w, shut \cup {b}, n, count, taken, gone)
<1>1. PICK r, s, T : r = ReadsTo(w, shut, n) /\ s = ReadsTo(w, T, n) /\ T = shut \cup {b}
  OBVIOUS
<1>2. /\ w.hi \in Nat /\ w.bhi \in Nat /\ w.rhi \in Nat /\ T \subseteq Nat
  BY <1>1 DEF WindowType
<1>3. Stops(w, shut, Known(w, n), r)
  BY <1>1, <1>2, ReadsIs
<1>4. Stops(w, T, Known(w, n), s)
  BY <1>1, <1>2, ReadsIs
<1>5. s <= r /\ (s = r \/ (Inside(w, b) /\ s = b))
  <2>1. s <= r
    BY <1>1, <1>2, <1>3, <1>4 DEF Stops
  <2>2. CASE s = w.bhi \/ s = Known(w, n) \/ \E c \in shut : Inside(w, c) /\ s = c
    <3>1. r <= s
      BY <1>3, <2>2 DEF Stops
    <3> QED BY <1>3, <1>4, <2>1, <3>1 DEF Stops
  <2>3. CASE Inside(w, b) /\ s = b
    BY <2>1, <2>3
  <2> QED BY <1>1, <1>4, <2>2, <2>3 DEF Stops
<1>6. r \in Nat /\ s \in Nat
  BY <1>3, <1>4 DEF Stops
<1>7. w.hi <= s
  BY <1>1, <1>5 DEF Retains, Inside
<1>8. r <= count => s = r
  BY <1>5, <1>6
<1>9. r <= w.rhi => s <= w.rhi
  BY <1>2, <1>5, <1>6
<1> QED BY <1>1, <1>7, <1>8, <1>9 DEF Retains

\* A round that arrives behind the others is not one of those a submitted
\* window reads.
LEMMA RetainsMore ==
  ASSUME NEW w \in WindowType, NEW shut, shut \subseteq Nat, NEW n \in Nat,
         NEW count \in Nat, NEW taken, NEW gone, Retains(w, shut, n, count, taken, gone),
         NEW x \in Nat, count < x
  PROVE  Retains(w, shut, n, x, taken \cup {x}, gone)
<1>1. PICK r : r = ReadsTo(w, shut, n)
  OBVIOUS
<1>2. r \in Nat /\ w.lo \in Nat
  BY <1>1, ReadsIs DEF WindowType, Stops
<1>3. r <= count => r <= x /\ x \notin w.lo .. r
  BY <1>2
<1> QED BY <1>1, <1>3 DEF Retains

\* Whether a finite stream is known to have ended changes nothing.
LEMMA RetainsFull ==
  ASSUME Finite, NEW w \in WindowType, NEW shut, NEW n \in {None, Limit},
         NEW m \in {None, Limit}, NEW count, NEW taken, NEW gone,
         Retains(w, shut, n, count, taken, gone)
  PROVE  Retains(w, shut, m, count, taken, gone)
<1>1. Effective(w, shut, n) = Effective(w, shut, m)
  BY DEF Effective
<1>2. ReadsTo(w, shut, n) = ReadsTo(w, shut, m)
  BY <1>1 DEF ReadsTo
<1> QED BY <1>2 DEF Retains

\* The end of the stream cuts nothing a submitted window reads either.
LEMMA RetainsSealed ==
  ASSUME ~ Finite, NEW w \in WindowType, NEW shut, shut \subseteq Nat,
         NEW count \in Nat, NEW taken, NEW gone, Retains(w, shut, None, count, taken, gone),
         NEW m \in Nat, m # None, count <= m, w.hi <= m
  PROVE  Retains(w, shut, m, count, taken, gone)
<1>1. PICK r, s : r = ReadsTo(w, shut, None) /\ s = ReadsTo(w, shut, m)
  OBVIOUS
<1>2. /\ w.hi \in Nat /\ w.bhi \in Nat /\ w.rhi \in Nat /\ None \in Nat
  BY DEF WindowType, None
<1>3. Known(w, None) = w.bhi /\ Known(w, m) = m
  BY DEF Known
<1>4. Stops(w, shut, w.bhi, r)
  BY <1>1, <1>2, <1>3, ReadsIs
<1>5. Stops(w, shut, m, s)
  BY <1>1, <1>2, <1>3, ReadsIs
<1>6. s \in Nat /\ r \in Nat /\ s <= r
  BY <1>4, <1>5 DEF Stops
<1>7. s = r \/ s = m
  <2>1. CASE s = w.bhi \/ \E c \in shut : Inside(w, c) /\ s = c
    <3>1. r <= s
      BY <1>4, <2>1 DEF Stops
    <3> QED BY <1>6, <3>1
  <2> QED BY <1>5, <2>1 DEF Stops
<1>8. w.hi <= s
  BY <1>1, <1>7 DEF Retains
<1>9. r <= count => s = r
  BY <1>6, <1>7
<1>10. r <= w.rhi => s <= w.rhi
  BY <1>2, <1>6
<1> QED BY <1>1, <1>8, <1>9, <1>10 DEF Retains

\* A clipped tail reads its own rounds and nothing more.
LEMMA RetainsClip ==
  ASSUME NEW w \in WindowType, w.stage = "open", NEW shut, shut \subseteq Nat,
         NEW count, NEW taken, NEW gone, Retains(w, shut, None, count, taken, gone),
         NEW m \in Nat, m # None, m <= w.hi, \A b \in shut : b < m, NEW v, v = Clip(w, m)
  PROVE  Retains(v, shut, m, count, taken, gone)
<1>1. PICK e : e = m + B
  OBVIOUS
<1>2. e \in Nat /\ m <= e
  BY <1>1, StreamAssumption
<1>3. v = [w EXCEPT !.hi = m, !.bhi = e, !.rhi = m]
  BY <1>1 DEF Clip
<1>4. v.hi = m /\ v.bhi = e /\ v.rhi = m /\ v.lo = w.lo /\ v.stage = "open"
  BY <1>3 DEF WindowType
<1>5. Known(v, m) = m /\ v.bhi \in Nat
  BY <1>2, <1>4 DEF Known
<1>6. PICK s : s = ReadsTo(v, shut, m)
  OBVIOUS
<1>7. Stops(v, shut, m, s)
  BY <1>5, <1>6, ReadsIs
<1>8. ASSUME NEW c \in shut PROVE ~ Inside(v, c)
  <2>1. c \in Nat /\ c < m
    OBVIOUS
  <2>2. ~(m <= c)
    BY <2>1
  <2> QED BY <1>4, <2>2 DEF Inside
<1>9. s = m
  BY <1>2, <1>4, <1>7, <1>8 DEF Stops
<1>10. Hold(v) \subseteq Hold(w)
  <2>1. PICK r : r = ReadsTo(w, shut, None)
    OBVIOUS
  <2>2. w.hi <= r /\ r <= w.rhi
    BY <2>1 DEF Retains
  <2>3. w.lo \in Nat /\ w.hi \in Nat /\ w.rhi \in Nat /\ r \in Nat
    <3>1. w.bhi \in Nat /\ None \in Nat
      BY DEF WindowType, None
    <3>2. r \in Nat
      BY <2>1, <3>1, ReadsIs DEF Stops
    <3> QED BY <3>2 DEF WindowType
  <2>4. m <= w.rhi
    BY <2>2, <2>3
  <2> QED BY <1>4, <2>3, <2>4 DEF Hold
<1> QED BY <1>2, <1>4, <1>6, <1>9, <1>10 DEF Retains

\* A hold that is moved to what the window reads covers it.
LEMMA RetainsRefreshed ==
  ASSUME NEW w \in WindowType, w.stage = "open", NEW shut, shut \subseteq Nat,
         NEW n \in Nat, NEW count, NEW taken, NEW gone,
         Retains(w, shut, n, count, taken, gone),
         NEW v, v = [w EXCEPT !.rhi = ReadsTo(w, shut, n)]
  PROVE  Retains(v, shut, n, count, taken, gone)
<1>1. PICK r : r = ReadsTo(w, shut, n)
  OBVIOUS
<1>2. r \in Nat /\ r <= w.rhi /\ w.rhi \in Nat /\ w.lo \in Nat
  BY <1>1, ReadsIs DEF WindowType, Retains, Stops
<1>3. /\ v.hi = w.hi /\ v.bhi = w.bhi /\ v.lo = w.lo /\ v.stage = w.stage /\ v.rhi = r
  BY <1>1 DEF WindowType
<1>4. ReadsTo(v, shut, n) = r
  BY <1>1, <1>3 DEF ReadsTo, Effective
<1>5. Hold(v) \subseteq Hold(w)
  BY <1>2, <1>3 DEF Hold
<1> QED BY <1>1, <1>2, <1>3, <1>4, <1>5 DEF Retains

-----------------------------------------------------------------------------
(* A row of windows that have what they read *)

\* A window contributes to the ledger as soon as it is committed.
Contributes(w) == w.says # "none" <=> Committed(w)

Fit(ws, shut, n, count, taken, gone) ==
  \A k \in 1 .. Len(ws) : Retains(ws[k], shut, n, count, taken, gone) /\ Contributes(ws[k])

\* Buffer 0 keeps a round as long as a window holds it, and no longer.
Exact(ws, taken, gone) ==
  /\ gone \subseteq taken
  /\ \A r \in taken : r \notin gone => \E k \in 1 .. Len(ws) : r \in Hold(ws[k])

\* A window that is planned before its rounds have arrived has what it reads.
LEMMA NewRetains ==
  ASSUME NEW g, g.lo \in Nat, g.hi \in Nat, g.bhi \in Nat, g.hi <= g.bhi,
         IF Finite THEN g.hi <= Limit ELSE g.hi < g.bhi,
         NEW before, NEW shut, shut \subseteq Nat,
         before # <<>> => Head(before).out \in {"none", "weak", "strong"},
         NEW count, NEW taken, NEW gone, \A r \in gone : r \in Nat /\ r < g.lo,
         NEW v, v = NewWindow(g, before, shut, None)
  PROVE  Retains(v, shut, None, count, taken, gone) /\ Contributes(v)
<1> DEFINE ready == Available(before)
           w == [lo |-> g.lo, hi |-> g.hi, bhi |-> g.bhi, rhi |-> 0, job |-> {},
                 stage |-> "open", chained |-> before # <<>> /\ ~ready,
                 deps |-> IF before # <<>> /\ ~ready THEN 1 ELSE 0,
                 inb |-> IF ready THEN Head(before).out ELSE "none",
                 out |-> "none", held |-> FALSE, entry |-> "none", says |-> "none"]
<1> HIDE DEF ready
<1>1. w.bhi = g.bhi /\ w.hi = g.hi /\ None \in Nat
  BY DEF None
<1>2. PICK r : r = ReadsTo(w, shut, None)
  OBVIOUS
<1>3. Stops(w, shut, Known(w, None), r)
  BY <1>1, <1>2, ReadsIs
<1>4. v = [w EXCEPT !.rhi = r]
  BY <1>2 DEF NewWindow, ready
<1>5. /\ v.lo = g.lo /\ v.hi = g.hi /\ v.bhi = g.bhi /\ v.rhi = r /\ v.stage = "open"
      /\ v.says = "none"
  BY <1>4
<1> HIDE DEF w
<1>6. ReadsTo(v, shut, None) = r
  BY <1>1, <1>2, <1>5 DEF ReadsTo, Effective
<1>7. g.hi <= r
  <2>1. CASE r = w.bhi
    BY <1>1, <2>1
  <2>2. CASE r = Known(w, None)
    BY <1>1, <2>2 DEF Known
  <2>3. CASE \E b \in shut : Inside(w, b) /\ r = b
    BY <1>1, <2>3 DEF Inside
  <2> QED BY <1>3, <2>1, <2>2, <2>3 DEF Stops
<1>8. gone \cap Hold(v) = {}
  <2>1. Hold(v) = g.lo .. r
    BY <1>5 DEF Hold
  <2> QED BY <2>1
<1>9. r <= r
  BY <1>3 DEF Stops
<1>10. Retains(v, shut, None, count, taken, gone)
  BY <1>5, <1>6, <1>7, <1>8, <1>9 DEF Retains
<1> QED BY <1>5, <1>10 DEF Contributes, Committed

\* New windows begin behind the rounds that have arrived.
Covered(ws, count) ==
  IF Finite THEN \A k \in DOMAIN Plan : Plan[k].lo <= count => k <= Len(ws)
  ELSE count <= Len(ws) * F

\* What every plan of a finite stream has: a regular stride, buffers behind the
\* regions, and an end at the last round.
EndsAt(row, n) ==
  \E q \in Nat :
    /\ q >= 1 /\ DOMAIN row = 1 .. q /\ row[q].hi = n
    /\ \A k \in 1 .. q : /\ row[k].lo = (k - 1) * F + 1 /\ row[k].lo <= n
                         /\ row[k].hi <= n /\ row[k].hi <= row[k].bhi

\* The plan with a lookahead buffer has all of it.
LEMMA LookaheadEnds == EndsAt(LookaheadPlan(Limit, F, B), Limit)
<1> DEFINE q == CeilDiv(Limit, F)
           row == LookaheadPlan(Limit, F, B)
<1>1. /\ q \in Nat /\ q >= 1 /\ Limit <= q * F
      /\ \A k \in Nat : k <= q /\ k >= 1 => (k - 1) * F < Limit
      /\ Limit \in Nat /\ F \in Nat /\ B \in Nat
  BY StreamAssumption, CeilingBounds
<1> HIDE DEF q
<1>2. Most(1, q) = q
  BY <1>1 DEF Most
<1>3. /\ DOMAIN row = 1 .. q
      /\ \A k \in 1 .. q : /\ row[k].lo = (k - 1) * F + 1
                           /\ row[k].hi = Least(k * F, Limit)
                           /\ row[k].bhi = Least(k * F, Limit) + B
  BY <1>2 DEF LookaheadPlan, Geometry, q
<1> HIDE DEF row
<1>4. ASSUME NEW k \in 1 .. q
      PROVE  /\ row[k].lo = (k - 1) * F + 1 /\ row[k].lo <= Limit
             /\ row[k].hi <= Limit /\ row[k].hi <= row[k].bhi
  <2>1. k \in Nat /\ k >= 1 /\ (k - 1) * F < Limit /\ (k - 1) * F \in Nat /\ k * F \in Nat
    BY <1>1, Stride
  <2>2. PICK h : h = Least(k * F, Limit)
    OBVIOUS
  <2>3. h \in Nat /\ h <= Limit
    BY <1>1, <2>1, <2>2 DEF Least
  <2>4. row[k].lo = (k - 1) * F + 1 /\ row[k].hi = h /\ row[k].bhi = h + B
    BY <1>3, <2>2
  <2>5. h <= h + B /\ (k - 1) * F + 1 <= Limit
    BY <1>1, <2>1, <2>3
  <2> QED BY <2>3, <2>4, <2>5
<1>5. row[q].hi = Limit
  <2>1. q \in 1 .. q
    BY <1>1
  <2>2. PICK x : x = q * F
    OBVIOUS
  <2>3. x \in Nat /\ Limit <= x
    BY <1>1, <2>2
  <2>4. Least(x, Limit) = Limit
    BY <1>1, <2>3 DEF Least
  <2> QED BY <1>3, <2>1, <2>2, <2>4
<1> QED BY <1>1, <1>3, <1>4, <1>5 DEF EndsAt, row

\* So has the plan that flushes its last buffer.
LEMMA FlushEnds == EndsAt(FlushPlan(Limit, F, B), Limit)
<1> DEFINE last == RegularWindows(Limit, F, B)
           row == FlushPlan(Limit, F, B)
<1>1. /\ last \in Nat /\ last * F < Limit
      /\ Limit \in Nat /\ F \in Nat /\ F >= 1 /\ B \in Nat
  BY StreamAssumption, RegularCount
<1>2. /\ DOMAIN row = 1 .. (last + 1)
      /\ \A k \in 1 .. (last + 1) :
           /\ row[k].lo = (k - 1) * F + 1
           /\ row[k].hi = (IF k = last + 1 THEN Limit ELSE k * F)
           /\ row[k].bhi = (IF k = last + 1 THEN Limit ELSE k * F + B)
  BY DEF FlushPlan, Geometry
<1> HIDE DEF row, last
<1>3. ASSUME NEW k \in 1 .. (last + 1)
      PROVE  /\ row[k].lo = (k - 1) * F + 1 /\ row[k].lo <= Limit
             /\ row[k].hi <= Limit /\ row[k].hi <= row[k].bhi
  <2>1. k \in Nat /\ k >= 1 /\ k <= last + 1 /\ k - 1 <= last
    BY <1>1
  <2>2. (k - 1) * F <= last * F /\ (k - 1) * F \in Nat /\ last * F \in Nat /\ k * F \in Nat
    BY <1>1, <2>1, TimesMonotone, Stride
  <2>3. row[k].lo = (k - 1) * F + 1 /\ row[k].lo <= Limit
    <3>1. PICK x, y : x = (k - 1) * F /\ y = last * F
      OBVIOUS
    <3>2. x + 1 <= Limit
      BY <1>1, <2>2, <3>1
    <3> QED BY <1>2, <3>1, <3>2
  <2>4. CASE k = last + 1
    BY <1>1, <1>2, <2>3, <2>4
  <2>5. CASE k # last + 1
    <3>1. k <= last
      BY <1>1, <2>1, <2>5
    <3>2. k * F <= last * F
      BY <1>1, <2>1, <3>1, TimesMonotone
    <3>3. row[k].hi = k * F /\ row[k].bhi = k * F + B
      BY <1>2, <2>5
    <3>4. k * F <= Limit /\ k * F <= k * F + B
      BY <1>1, <2>2, <3>2
    <3> QED BY <2>3, <3>3, <3>4
  <2> QED BY <2>4, <2>5
<1>4. last + 1 \in Nat /\ last + 1 >= 1 /\ last + 1 \in 1 .. (last + 1)
  BY <1>1
<1> QED BY <1>2, <1>3, <1>4 DEF EndsAt, row

\* And so the plan of a finite stream, by either scheme.
LEMMA PlanEnds == EndsAt(Plan, Limit)
BY LookaheadEnds, FlushEnds DEF Plan

\* The region of a window that is to be planned has a buffer behind it.
LEMMA LayFits ==
  ASSUME NEW k \in Nat, k >= 1, Finite => k \in DOMAIN Plan, NEW cap \in Nat,
         NEW m \in Nat, m < k, NEW count \in Nat,
         IF Finite THEN \A j \in DOMAIN Plan : Plan[j].lo <= count => j <= m
         ELSE count <= m * F
  PROVE  LET g == LayOf(k, cap)
         IN  /\ g.lo \in Nat /\ g.hi \in Nat /\ g.bhi \in Nat /\ g.hi <= g.bhi
             /\ IF Finite THEN g.hi <= Limit ELSE g.hi < g.bhi
             /\ count < g.lo
<1>1. CASE Finite
  <2>1. LayOf(k, cap) = Plan[k] /\ k \in DOMAIN Plan
    BY <1>1 DEF LayOf
  <2>2. Plan[k].lo \in Nat /\ Plan[k].hi \in Nat /\ Plan[k].bhi \in Nat
    BY <2>1, PlanRow DEF RowOf
  <2>3. ~(Plan[k].lo <= count)
    BY <1>1, <2>1
  <2>4. Plan[k].hi <= Plan[k].bhi /\ Plan[k].hi <= Limit
    BY <2>1, PlanEnds DEF EndsAt
  <2> QED BY <1>1, <2>1, <2>2, <2>3, <2>4
<1>2. CASE ~ Finite
  <2>1. F \in Nat /\ B \in Nat /\ B >= 1
    BY StreamAssumption
  <2> DEFINE hi == IF cap = None THEN k * F ELSE Least(k * F, cap)
  <2>2. hi \in Nat /\ (k - 1) * F + 1 \in Nat /\ (k - 1) * F \in Nat
    BY <2>1, Stride DEF Least
  <2> HIDE DEF hi
  <2>3. hi + B \in Nat /\ hi < hi + B
    BY <2>1, <2>2
  <2>4. m * F <= (k - 1) * F /\ m * F \in Nat
    BY TimesMonotone, StreamAssumption
  <2>5. count < (k - 1) * F + 1
    BY <1>2, <2>2, <2>4
  <2> QED BY <1>2, <2>2, <2>3, <2>5 DEF LayOf, Geometry, hi
<1> QED BY <1>1, <1>2

\* Planning more windows leaves every window with what it reads, and there are
\* as many windows as are wanted.
LEMMA GrowFit ==
  ASSUME NEW ws \in Seq(WindowType), NEW known \in Nat, NEW cap \in Nat,
         NEW shut, shut \subseteq Nat, NEW n \in Nat, NEW count, NEW taken, NEW gone,
         Fit(ws, shut, n, count, taken, gone),
         NEW m \in Nat, gone \subseteq 1 .. m, n = None => Covered(ws, m)
  PROVE  LET g == Grow(ws, known, cap, shut, n)
         IN  Fit(g, shut, n, count, taken, gone) /\ WantedFor(known, n) <= Len(g)
<1> DEFINE wanted == WantedFor(known, n)
           more == Most(0, wanted - Len(ws))
           fresh(k) == NewWindow(LayOf(k, cap), BeforeOf(ws, k), shut, n)
           tail == [i \in 1 .. more |-> fresh(Len(ws) + i)]
           g == Grow(ws, known, cap, shut, n)
<1>1. /\ Len(ws) \in Nat /\ wanted \in Nat /\ more \in Nat /\ DOMAIN ws = 1 .. Len(ws)
      /\ more > 0 => Len(ws) + more = wanted
      /\ wanted <= Len(ws) + more
  <2>1. Len(ws) \in Nat /\ DOMAIN ws = 1 .. Len(ws)
    BY LenProperties
  <2>2. wanted \in Nat
    BY WantedNat
  <2> HIDE DEF wanted
  <2> QED BY <2>1, <2>2 DEF Most
<1>2. g = ws \o tail
  BY GrowIs
<1>3. /\ g \in Seq(WindowType) /\ Len(ws) <= Len(g)
      /\ \A k \in 1 .. Len(ws) : g[k] = ws[k]
  <2>1. Grown(ws, g, known, cap, n)
    BY GrowFacts
  <2> HIDE DEF g
  <2> QED BY <2>1 DEF Grown
<1>4. ASSUME NEW k \in 1 .. (Len(ws) + more), k > Len(ws)
      PROVE  Retains(fresh(k), shut, n, count, taken, gone) /\ Contributes(fresh(k))
  <2>1. k \in Nat /\ k >= 1 /\ k \in 1 .. wanted /\ k - 1 \in Nat /\ Len(ws) < k
    BY <1>1, <1>4
  <2>2. Finite => k \in DOMAIN Plan
    BY <2>1, WantedNat
  <2>3. n = None
    BY <2>1 DEF WantedFor
  <2> DEFINE lay == LayOf(k, cap)
             before == BeforeOf(ws, k)
  <2>4. before # <<>> => Head(before).out \in {"none", "weak", "strong"}
    <3>1. \A j \in 1 .. Len(ws) : ws[j].out \in {"none", "weak", "strong"}
      BY WindowFields
    <3> QED BY <1>1, <3>1 DEF BeforeOf
  <2>5. /\ lay.lo \in Nat /\ lay.hi \in Nat /\ lay.bhi \in Nat /\ lay.hi <= lay.bhi
        /\ IF Finite THEN lay.hi <= Limit ELSE lay.hi < lay.bhi
        /\ m < lay.lo
    <3>1. IF Finite THEN \A j \in DOMAIN Plan : Plan[j].lo <= m => j <= Len(ws)
          ELSE m <= Len(ws) * F
      BY <2>3 DEF Covered
    <3>2. Len(ws) \in Nat
      BY <1>1
    <3> QED BY <2>1, <2>2, <3>1, <3>2, LayFits
  <2> HIDE DEF lay, before
  <2>6. \A r \in gone : r \in Nat /\ r < lay.lo
    BY <2>5
  <2>7. PICK v : v = NewWindow(lay, before, shut, None)
    OBVIOUS
  <2>8. Retains(v, shut, None, count, taken, gone) /\ Contributes(v)
    BY <2>4, <2>5, <2>6, <2>7, NewRetains
  <2>9. v = fresh(k)
    BY <2>3, <2>7 DEF lay, before
  <2> QED BY <2>3, <2>8, <2>9
<1>10. tail \in Seq(WindowType) /\ Len(tail) = more
  <2>1. Len(tail) = more /\ DOMAIN tail = 1 .. more
    <3>1. more \in Nat
      BY <1>1
    <3> HIDE DEF more
    <3> QED BY <3>1
  <2>2. ASSUME NEW i \in 1 .. more PROVE fresh(Len(ws) + i) \in WindowType
    <3>1. PICK k : k = Len(ws) + i
      OBVIOUS
    <3>2. k \in Nat /\ k >= 1 /\ k \in 1 .. wanted /\ k > Len(ws)
      BY <1>1, <3>1
    <3>3. Finite => k \in DOMAIN Plan
      BY <3>2, WantedNat
    <3> DEFINE lay == LayOf(k, cap)
               before == BeforeOf(ws, k)
    <3>4. lay.lo \in Nat /\ lay.hi \in Nat /\ lay.bhi \in Nat
      BY <3>2, <3>3, LayNat
    <3>5. before # <<>> => Head(before).out \in {"none", "weak", "strong"}
      <4>1. \A j \in 1 .. Len(ws) : ws[j].out \in {"none", "weak", "strong"}
        BY WindowFields
      <4> QED BY <1>1, <4>1 DEF BeforeOf
    <3> HIDE DEF lay, before
    <3>6. NewWindow(lay, before, shut, n) \in WindowType
      BY <3>4, <3>5, NewIsFresh
    <3> QED BY <3>1, <3>6 DEF lay, before
  <2> HIDE DEF fresh
  <2>3. tail \in [1 .. more -> WindowType]
    BY <2>2
  <2>4. more \in Nat
    BY <1>1
  <2> HIDE DEF more, tail
  <2> QED BY <2>1, <2>3, <2>4
<1> HIDE DEF wanted, more, fresh
<1> HIDE DEF tail, g
<1>11. /\ Len(g) = Len(ws) + more
       /\ \A k \in 1 .. (Len(ws) + more) :
            g[k] = IF k <= Len(ws) THEN ws[k] ELSE tail[k - Len(ws)]
  BY <1>1, <1>2, <1>10, ConcatProperties
<1>5. ASSUME NEW k \in 1 .. Len(g)
      PROVE  Retains(g[k], shut, n, count, taken, gone) /\ Contributes(g[k])
  <2>1. CASE k <= Len(ws)
    BY <1>3, <2>1 DEF Fit
  <2>2. CASE k > Len(ws)
    <3>1. k \in 1 .. (Len(ws) + more) /\ ~(k <= Len(ws)) /\ k - Len(ws) \in 1 .. more
          /\ Len(ws) + (k - Len(ws)) = k
      BY <1>1, <1>11, <2>2
    <3>2. g[k] = tail[k - Len(ws)]
      BY <1>11, <3>1
    <3>3. g[k] = fresh(k)
      BY <3>1, <3>2 DEF tail
    <3> QED BY <1>4, <2>2, <3>1, <3>3
  <2> QED BY <1>1, <1>11, <2>1, <2>2
<1>6. wanted <= Len(g)
  BY <1>1, <1>11
<1> QED BY <1>5, <1>6 DEF Fit, g, wanted

\* check_window submits a window with all the rounds it reads.
LEMMA CheckFit ==
  ASSUME NEW ws \in Seq(WindowType), NEW shut, shut \subseteq Nat, NEW n \in Nat,
         NEW count \in Nat, NEW taken, taken \subseteq Nat, NEW gone,
         Fit(ws, shut, n, count, taken, gone)
  PROVE  Fit(Check(ws, count, shut, n, taken \ gone), shut, n, count, taken, gone)
<1> DEFINE vs == Check(ws, count, shut, n, taken \ gone)
<1>1. DOMAIN vs = DOMAIN ws /\ DOMAIN ws = 1 .. Len(ws) /\ Len(vs) = Len(ws)
  <2>1. DOMAIN vs = DOMAIN ws /\ DOMAIN ws = 1 .. Len(ws)
    BY LenProperties DEF Check
  <2>2. vs \in Seq(WindowType) /\ Len(vs) = Len(ws)
    <3>1. taken \ gone \subseteq Nat
      OBVIOUS
    <3>2. KeptRow(ws, vs)
      BY <3>1, CheckFacts
    <3> QED BY <3>2 DEF KeptRow
  <2> QED BY <2>1, <2>2
<1>2. ASSUME NEW k \in 1 .. Len(ws)
      PROVE  Retains(vs[k], shut, n, count, taken, gone) /\ Contributes(vs[k])
  <2>1. PICK w, v, r : w = ws[k] /\ v = vs[k] /\ r = ReadsTo(w, shut, n)
    OBVIOUS
  <2>2. /\ w \in WindowType /\ Retains(w, shut, n, count, taken, gone) /\ Contributes(w)
    BY <2>1, WindowFields DEF Fit
  <2>3. w.bhi \in Nat /\ w.lo \in Nat /\ w.rhi \in Nat
    BY <2>2 DEF WindowType
  <2>4. \/ v = w
        \/ /\ w.stage = "open" /\ r <= count
           /\ v = [w EXCEPT !.stage = "queued", !.job = (taken \ gone) \cap (w.lo .. r)]
    <3>1. LET have == Effective(w, shut, n)
          IN  DataComplete(w.bhi, count, have, {}, 0, have < w.bhi) <=> r <= count
      BY <2>1, <2>3, DataIs
    <3> QED BY <1>1, <2>1, <3>1 DEF Check
  <2> HIDE DEF vs
  <2>5. CASE v = w
    BY <2>1, <2>2, <2>5
  <2>6. ASSUME w.stage = "open", r <= count,
               v = [w EXCEPT !.stage = "queued", !.job = (taken \ gone) \cap (w.lo .. r)]
        PROVE  Retains(v, shut, n, count, taken, gone) /\ Contributes(v)
    <3>1. /\ v.lo = w.lo /\ v.hi = w.hi /\ v.bhi = w.bhi /\ v.rhi = w.rhi
          /\ v.stage = "queued" /\ v.says = w.says
          /\ v.job = (taken \ gone) \cap (w.lo .. r)
      BY <2>2, <2>6 DEF WindowType
    <3>2. ReadsTo(v, shut, n) = r
      BY <2>1, <3>1 DEF ReadsTo, Effective
    <3>3. Hold(v) = Hold(w) /\ Hold(w) = w.lo .. w.rhi
      BY <2>6, <3>1 DEF Hold
    <3>4. /\ w.hi <= w.bhi /\ w.hi <= r /\ (n = None /\ ~ Finite => w.hi < w.bhi)
          /\ r <= w.rhi /\ gone \cap Hold(w) = {}
      BY <2>1, <2>2, <2>6 DEF Retains
    <3>5. r \in Nat
      BY <2>1, <2>3, ReadsToNat
    <3>6. (taken \ gone) \cap (w.lo .. r) = taken \cap (w.lo .. r)
      <4>1. w.lo .. r \subseteq w.lo .. w.rhi
        BY <2>3, <3>4, <3>5
      <4> QED BY <3>3, <3>4, <4>1
    <3>7. Retains(v, shut, n, count, taken, gone)
      BY <2>6, <3>1, <3>2, <3>3, <3>4, <3>6 DEF Retains
    <3>8. Contributes(v)
      BY <2>2, <2>6, <3>1 DEF Contributes, Committed
    <3> QED BY <3>7, <3>8
  <2> QED BY <2>1, <2>4, <2>5, <2>6
<1> QED BY <1>1, <1>2 DEF Fit

\* What no window holds leaves Buffer 0, and nothing else.
LEMMA SettleFit ==
  ASSUME NEW ws, NEW shut, NEW n, NEW count, NEW taken, NEW gone,
         Fit(ws, shut, n, count, taken, gone), gone \subseteq taken,
         DOMAIN ws = 1 .. Len(ws),
         NEW now, now = gone \cup Released(ws, taken)
  PROVE  Fit(ws, shut, n, count, taken, now) /\ Exact(ws, taken, now)
<1>1. Released(ws, taken) \subseteq taken
  BY DEF Released
<1>2. \A k \in 1 .. Len(ws) : Released(ws, taken) \cap Hold(ws[k]) = {}
  BY DEF Released
<1>3. ASSUME NEW k \in 1 .. Len(ws)
      PROVE  Retains(ws[k], shut, n, count, taken, now) /\ Contributes(ws[k])
  <2>1. Retains(ws[k], shut, n, count, taken, gone) /\ Contributes(ws[k])
    BY DEF Fit
  <2>2. gone \cap Hold(ws[k]) = {}
    BY <2>1 DEF Retains
  <2>3. now \cap Hold(ws[k]) = {}
    BY <1>2, <2>2
  <2> QED BY <2>1, <2>3 DEF Retains
<1>4. ASSUME NEW r \in taken, r \notin now PROVE \E k \in 1 .. Len(ws) : r \in Hold(ws[k])
  BY <1>4 DEF Released
<1> QED BY <1>1, <1>3, <1>4 DEF Fit, Exact

-----------------------------------------------------------------------------
(* Rounds that arrive in their order *)

\* The streams the theorem is about.  Of an unprotected stream one segment is
\* under way: the rounds of several overtake each other, and then a round may
\* arrive behind the counter.  A protected region of one segment that others
\* wait for closes its boundary at the round that also ends the stream.  The
\* source of a finite stream has the rounds of its segment.
OneFile ==
  \A m \in Modes :
    /\ m.kind # "protected" => Len(Body[m.kind]) = 1
    /\ m.kind = "protected" /\ m.feedback = "measurement_closed"
         => Len(Body[m.kind]) > 1 \/ 1 \notin Blocking[m.kind]
    /\ m.kind = "finite" => Body[m.kind][1] <= Limit

\* The last round that has been emitted.
Out == IF mode.kind # "protected" /\ phase \in {"waiting", "running"} THEN at ELSE next

\* Rounds on their way: in their order, behind those that have arrived.
InOrder(t, a, o) ==
  /\ a <= o
  /\ \A i \in 1 .. Len(t) : a < t[i] /\ t[i] <= o
  /\ \A i, j \in 1 .. Len(t) : i < j => t[i] < t[j]

Queue == InOrder(transit, arrived, Out) /\ got \subseteq 1 .. arrived

\* The last round of the segment that runs in a protected region; the first one
\* ends a round early.
Quota == segEnd[Begun] - (IF Begun = 1 THEN 1 ELSE 0)

\* The rounds reserved and those of the segments.
Reserved ==
  /\ mode.kind # "protected" =>
       /\ Begun = 0 => next = 0
       /\ Begun > 0 => segEnd[1] = Body[mode.kind][1] /\ segEnd[1] <= next
       /\ phase \in {"waiting", "running"} /\ Begun > 0 => next = segEnd[1]
  /\ Finite => next <= Limit
  /\ mode.kind = "protected" =>
       /\ phase = "running" => next <= Quota
       /\ phase = "closing" => Begun = Len(Body[mode.kind]) /\ next = Quota
       /\ phase \in {"sealing", "sealed"} => Begun = Len(Body[mode.kind]) /\ next = Quota + 1

\* Boundaries close where a segment ends that others wait for, and inside the
\* stream.
Shut ==
  /\ \A b \in closed : /\ \E i \in 1 .. Begun : b = segEnd[i] /\ i \in Blocking[mode.kind]
                       /\ mode.feedback = "measurement_closed"
  /\ phase = "sealed" => \A b \in closed : b < next

\* A round behind the last one joins the others in their order.
LEMMA OrderAppended ==
  ASSUME NEW t \in Seq(Nat), NEW a \in Nat, NEW o \in Nat, InOrder(t, a, o),
         NEW r \in Nat, o < r
  PROVE  InOrder(Append(t, r), a, r)
<1>1. PICK u : u = Append(t, r)
  OBVIOUS
<1>2. PICK n : n = Len(t)
  OBVIOUS
<1>3. /\ n \in Nat /\ Len(u) = n + 1 /\ u[n + 1] = r
      /\ \A i \in 1 .. n : u[i] = t[i] /\ t[i] \in Nat
  BY <1>1, <1>2, AppendProperties, LenProperties, ElementOfSeq
<1>4. \A i \in 1 .. n : a < t[i] /\ t[i] <= o
  BY <1>2 DEF InOrder
<1>5. \A i, j \in 1 .. n : i < j => t[i] < t[j]
  BY <1>2 DEF InOrder
<1>6. a <= o
  BY DEF InOrder
<1>7. \A i \in 1 .. (n + 1) : i \in 1 .. n \/ i = n + 1
  BY <1>3
<1>8. ASSUME NEW i \in 1 .. (n + 1) PROVE a < u[i] /\ u[i] <= r
  BY <1>3, <1>4, <1>6, <1>7
<1>9. ASSUME NEW i \in 1 .. (n + 1), NEW j \in 1 .. (n + 1), i < j PROVE u[i] < u[j]
  <2>1. i \in 1 .. n
    BY <1>3, <1>9
  <2>2. CASE j \in 1 .. n
    BY <1>3, <1>5, <1>9, <2>1, <2>2
  <2>3. CASE j = n + 1
    <3>1. t[i] \in Nat /\ t[i] <= o /\ u[i] = t[i] /\ u[j] = r
      BY <1>3, <1>4, <2>1, <2>3
    <3> QED BY <3>1
  <2> QED BY <1>7, <2>2, <2>3
<1> QED BY <1>1, <1>3, <1>6, <1>8, <1>9 DEF InOrder

\* What is behind the first round is behind it.
LEMMA OrderTaken ==
  ASSUME NEW t \in Seq(Nat), t # <<>>, NEW a \in Nat, NEW o \in Nat, InOrder(t, a, o)
  PROVE  /\ InOrder(Tail(t), Head(t), o) /\ InOrder(Tail(t), a, o)
         /\ Head(t) \in Nat /\ a < Head(t) /\ Head(t) <= o
<1>1. PICK u, h, n : u = Tail(t) /\ h = Head(t) /\ n = Len(t)
  OBVIOUS
<1>2. /\ n \in Nat /\ n >= 1 /\ Len(u) = n - 1 /\ h = t[1] /\ h \in Nat
      /\ \A i \in 1 .. (n - 1) : u[i] = t[i + 1]
  BY <1>1, HeadTailProperties, EmptySeq, LenProperties
<1>3. \A i \in 1 .. n : a < t[i] /\ t[i] <= o
  BY <1>1 DEF InOrder
<1>4. \A i, j \in 1 .. n : i < j => t[i] < t[j]
  BY <1>1 DEF InOrder
<1>5. 1 \in 1 .. n /\ \A i \in 1 .. (n - 1) : i + 1 \in 1 .. n /\ 1 < i + 1
  BY <1>2
<1>6. ASSUME NEW i \in 1 .. (n - 1) PROVE h < u[i] /\ a < u[i] /\ u[i] <= o
  BY <1>2, <1>3, <1>4, <1>5
<1>7. ASSUME NEW i \in 1 .. (n - 1), NEW j \in 1 .. (n - 1), i < j PROVE u[i] < u[j]
  <2>1. i + 1 < j + 1
    BY <1>7
  <2> QED BY <1>2, <1>4, <1>5, <2>1
<1>8. a < h /\ h <= o /\ a <= o
  BY <1>2, <1>3, <1>5 DEF InOrder
<1> QED BY <1>1, <1>2, <1>6, <1>7, <1>8 DEF InOrder

\* There is room for more rounds.
LEMMA OrderWider ==
  ASSUME NEW t \in Seq(Nat), NEW a \in Nat, NEW o \in Nat, InOrder(t, a, o),
         NEW p \in Nat, o <= p
  PROVE  InOrder(t, a, p)
<1>1. \A i \in 1 .. Len(t) : t[i] \in Nat
  BY ElementOfSeq
<1> QED BY <1>1 DEF InOrder

QueueInv == Queue /\ Reserved /\ Shut

\* What these say of numbers.
LEMMA QueueFacts ==
  ASSUME OneFile, Scalars, Rounds
  PROVE  /\ next \in Nat /\ at \in Nat /\ arrived \in Nat /\ Out \in Nat
         /\ transit \in Seq(Nat) /\ segEnd \in Seq(Nat)
         /\ Begun \in Nat /\ Begun = Len(segEnd) /\ \A i \in 1 .. Begun : segEnd[i] \in Nat
         /\ mode.kind # "protected" => Len(Body[mode.kind]) = 1 /\ Begun <= 1
         /\ Body[mode.kind][1] \in Nat /\ Body[mode.kind][1] >= 1
         /\ Begun > 0 => segEnd[Begun] \in Nat /\ segEnd[1] \in Nat
         /\ Begun > 0 => segEnd[Begun] >= 1 /\ Quota \in Nat /\ Quota <= segEnd[Begun]
<1>1. next \in Nat /\ at \in Nat /\ arrived \in Nat /\ transit \in Seq(Nat) /\ segEnd \in Seq(Nat)
      /\ mode \in Modes
  BY DEF Scalars
<1>2. Begun \in Nat /\ Begun = Len(segEnd) /\ \A i \in 1 .. Begun : segEnd[i] \in Nat
  BY <1>1, LenProperties, ElementOfSeq DEF Begun
<1>3. mode.kind # "protected" => Len(Body[mode.kind]) = 1 /\ Begun <= 1
  BY <1>1 DEF OneFile, Rounds
<1>4. Body[mode.kind][1] \in Nat /\ Body[mode.kind][1] >= 1
  <2>1. PICK body : body = Body[mode.kind]
    OBVIOUS
  <2>2. body \in Seq(Nat \ {0}) /\ body # <<>>
    BY <1>1, <2>1, StreamAssumption
  <2>3. Head(body) \in Nat \ {0} /\ Head(body) = body[1]
    BY <2>2, HeadAndTail
  <2> QED BY <2>1, <2>3
<1>5. Begun > 0 => 1 \in 1 .. Begun /\ Begun \in 1 .. Begun
  BY <1>2
<1>6. Begun > 0 => segEnd[Begun] \in Nat /\ segEnd[1] \in Nat /\ segEnd[Begun] >= 1
  BY <1>2, <1>5, SegmentBounds
<1>7. Begun > 0 => Quota \in Nat /\ Quota <= segEnd[Begun]
  BY <1>6 DEF Quota
<1> QED BY <1>1, <1>2, <1>3, <1>4, <1>6, <1>7 DEF Out

\* Boundaries that have closed stay where they are.
LEMMA ShutStays ==
  ASSUME Scalars, [Next]_vars, Shut, mode' = mode, closed' = closed,
         phase' = "sealed" => phase = "sealed" /\ next' = next
  PROVE  Shut'
<1>1. /\ Begun \in Nat /\ Begun' \in Nat /\ Begun <= Begun'
      /\ \A i \in 1 .. Begun : segEnd'[i] = segEnd[i]
  BY SegmentsStay
<1>2. ASSUME NEW b \in closed'
      PROVE  /\ \E i \in 1 .. Begun' : b = segEnd'[i] /\ i \in Blocking[mode'.kind]
             /\ mode'.feedback = "measurement_closed"
  <2>1. PICK i \in 1 .. Begun : b = segEnd[i] /\ i \in Blocking[mode.kind]
    BY <1>2 DEF Shut
  <2>2. i \in 1 .. Begun' /\ b = segEnd'[i]
    BY <1>1, <2>1
  <2> QED BY <1>2, <2>1, <2>2 DEF Shut
<1> QED BY <1>2 DEF Shut

\* What no step of the QPU or of a round touches stays.
LEMMA QueueUnchanged ==
  ASSUME QueueInv, UNCHANGED <<qpuVars, roundVars, closed>>
  PROVE  QueueInv'
<1>1. /\ UNCHANGED <<mode, next, segEnd, phase, at, arrived, transit, got, closed>>
  BY DEF qpuVars, roundVars
<1>2. Begun' = Begun /\ Out' = Out /\ Quota' = Quota /\ (Finite' <=> Finite)
  BY <1>1 DEF Begun, Out, Quota, Finite
<1>3. Queue'
  BY <1>1, <1>2 DEF Queue, QueueInv
<1>4. Reserved'
  BY <1>1, <1>2 DEF Reserved, QueueInv
<1>5. Shut'
  BY <1>1, <1>2 DEF Shut, QueueInv
<1> QED BY <1>3, <1>4, <1>5 DEF QueueInv

\* A segment begins behind every round that has been emitted.
LEMMA QueueBegin ==
  ASSUME OneFile, Scalars, Rounds, QueueInv, Begin
  PROVE  QueueInv'
<1>1. /\ next \in Nat /\ Begun \in Nat /\ segEnd \in Seq(Nat) /\ Begun = Len(segEnd)
      /\ mode.kind # "protected" => Len(Body[mode.kind]) = 1
      /\ Body[mode.kind][1] \in Nat
  BY QueueFacts
<1>2. PICK length : length = Body[mode.kind][Begun + 1]
  OBVIOUS
<1>3. /\ segEnd' = Append(segEnd, next + length) /\ mode' = mode
      /\ next' = IF mode.kind = "protected" THEN next ELSE next + length
      /\ phase' = IF mode.kind = "protected" THEN "running" ELSE "waiting"
      /\ at' = 0 /\ Begun < Len(Body[mode.kind])
      /\ UNCHANGED <<arrived, transit, got, closed>>
      /\ Begun = 0 \/ phase = "ended"
  BY <1>2 DEF Begin, roundVars, planVars
<1>4. length \in Nat /\ length >= 1
  <2>1. Begun + 1 \in 1 .. Len(Body[mode.kind])
    BY <1>1, <1>3, BodyFacts DEF Scalars
  <2> QED BY <1>2, <2>1, BodyFacts DEF Scalars
<1>5. Begun' = Begun + 1 /\ segEnd'[Begun + 1] = next + length
  BY <1>1, <1>3, <1>4, AppendProperties DEF Begun
<1>6. Shut'
  BY <1>3, ShutStays DEF QueueInv, Next, Work, Emission
<1>7. Begun = 0 => phase = "waiting" /\ at = 0
  BY DEF Rounds
<1>8. CASE mode.kind = "protected"
  <2>1. Out' = Out
    BY <1>3, <1>8 DEF Out
  <2>2. Queue'
    BY <1>3, <2>1 DEF Queue, QueueInv
  <2>3. Quota' = next + length - (IF Begun + 1 = 1 THEN 1 ELSE 0)
    <3>1. PICK k : k = Begun + 1
      OBVIOUS
    <3>2. Begun' = k /\ segEnd'[k] = next + length
      BY <1>5, <3>1
    <3>3. Quota' = segEnd'[Begun'] - (IF Begun' = 1 THEN 1 ELSE 0)
      BY DEF Quota
    <3>4. PICK e, d : e = next + length /\ d = (IF k = 1 THEN 1 ELSE 0)
      OBVIOUS
    <3>5. segEnd'[Begun'] = e /\ (IF Begun' = 1 THEN 1 ELSE 0) = d
      BY <3>2, <3>4
    <3>6. Quota' = e - d
      BY <3>3, <3>5
    <3> QED BY <1>1, <1>4, <3>1, <3>4, <3>6
  <2>4. next' <= Quota'
    BY <1>1, <1>3, <1>4, <1>8, <2>3
  <2>5. ~ Finite'
    BY <1>3, <1>8 DEF Finite
  <2>6. Reserved'
    BY <1>3, <1>8, <2>4, <2>5 DEF Reserved
  <2> QED BY <1>6, <2>2, <2>6 DEF QueueInv
<1>9. CASE mode.kind # "protected"
  <2>1. Begun = 0 /\ next = 0
    <3>1. PICK x, y : x = Begun /\ y = Len(Body[mode.kind])
      OBVIOUS
    <3>2. x \in Nat /\ y = 1 /\ x < y
      BY <1>1, <1>3, <1>9, <3>1
    <3>3. Begun = 0
      BY <3>1, <3>2
    <3>4. Begun = 0 => next = 0
      BY <1>9 DEF QueueInv, Reserved
    <3> QED BY <3>3, <3>4
  <2>2. Out' = Out
    BY <1>3, <1>7, <1>9, <2>1 DEF Out
  <2>3. Queue'
    BY <1>3, <2>2 DEF Queue, QueueInv
  <2>4. /\ Begun' = 1 /\ length = Body[mode.kind][1]
        /\ segEnd'[1] = length /\ next' = length
    BY <1>1, <1>2, <1>3, <1>4, <1>5, <1>9, <2>1
  <2>5. Finite' => next' <= Limit
    <3>1. Finite' => mode.kind = "finite"
      BY <1>3 DEF Finite
    <3> QED BY <2>4, <3>1 DEF OneFile, Scalars
  <2>6. Reserved'
    BY <1>3, <1>4, <1>9, <2>4, <2>5 DEF Reserved
  <2> QED BY <1>6, <2>3, <2>6 DEF QueueInv
<1> QED BY <1>8, <1>9

\* Its rounds start at a later cycle.
LEMMA QueueStart ==
  ASSUME OneFile, Scalars, Rounds, QueueInv, Start
  PROVE  QueueInv'
<1>1. /\ phase = "waiting" /\ Begun > 0 /\ phase' = "running"
      /\ UNCHANGED <<mode, next, segEnd, at, transit, arrived, got, closed>>
  BY DEF Start, roundVars, planVars
<1>2. mode.kind # "protected"
  BY <1>1 DEF Rounds
<1>3. Begun' = Begun /\ Out' = Out /\ (Finite' <=> Finite)
  BY <1>1, <1>2 DEF Begun, Out, Finite
<1>4. Queue'
  BY <1>1, <1>3 DEF Queue, QueueInv
<1>5. Reserved'
  BY <1>1, <1>2, <1>3 DEF Reserved, QueueInv
<1>6. Shut'
  BY <1>1, ShutStays DEF QueueInv, Next, Work, Emission
<1> QED BY <1>4, <1>5, <1>6 DEF QueueInv

\* A round of the cycle, idle or protected, comes behind the others.
LEMMA QueueEmission ==
  ASSUME OneFile, Scalars, Rounds, QueueInv, IdleRound \/ ProtectedRound
  PROVE  QueueInv'
<1>1. /\ next \in Nat /\ arrived \in Nat /\ transit \in Seq(Nat) /\ Begun \in Nat
      /\ mode.kind # "protected" => Begun <= 1
      /\ Begun > 0 => Quota \in Nat
      /\ Begun > 0 => segEnd[1] \in Nat
  BY QueueFacts
<1>2. /\ next' = next + 1 /\ transit' = Append(transit, next + 1)
      /\ UNCHANGED <<mode, segEnd, at, arrived, got, closed>>
      /\ IF phase = "closing" THEN phase' = "sealing" /\ mode.kind = "protected"
                              ELSE phase' = phase
  <2>1. CASE IdleRound
    BY <2>1 DEF IdleRound, Emitted, planVars
  <2>2. CASE ProtectedRound
    BY <2>2 DEF ProtectedRound, Emitted, planVars
  <2> QED BY <2>1, <2>2
<1>3. IF mode.kind = "protected" THEN
        \/ phase = "running" /\ next < Quota
        \/ phase \in {"ended", "closing"}
      ELSE phase = "ended" /\ (Finite => next < Limit)
  <2>1. CASE IdleRound
    BY <1>1, <2>1 DEF IdleRound
  <2>2. CASE ProtectedRound
    BY <2>2 DEF ProtectedRound, Quota
  <2> QED BY <2>1, <2>2
<1>4. Out = next /\ Out' = next + 1
  BY <1>2, <1>3 DEF Out
<1>5. Queue'
  <2>1. InOrder(transit, arrived, next) /\ got \subseteq 1 .. arrived
    BY <1>4 DEF Queue, QueueInv
  <2>2. PICK r : r = next + 1
    OBVIOUS
  <2>3. InOrder(Append(transit, r), arrived, r)
    BY <1>1, <2>1, <2>2, OrderAppended
  <2> QED BY <1>2, <1>4, <2>1, <2>2, <2>3 DEF Queue
<1>6. Begun' = Begun /\ Quota' = Quota /\ (Finite' <=> Finite)
  BY <1>2 DEF Begun, Quota, Finite
<1>7. Reserved'
  <2>1. CASE mode.kind = "protected"
    <3>1. Begun > 0 => Quota \in Nat
      BY <1>1
    <3>2. phase = "running" => Begun > 0
      BY DEF Rounds
    <3> QED BY <1>1, <1>2, <1>3, <1>6, <2>1, <3>1, <3>2 DEF Reserved, QueueInv, Finite
  <2>2. CASE mode.kind # "protected"
    <3>1. Begun > 0
      BY <1>3, <2>2 DEF Rounds
    <3>2. Finite => next' <= Limit
      BY <1>1, <1>2, <1>3, <2>2, StreamAssumption
    <3>3. segEnd[1] = Body[mode.kind][1] /\ segEnd[1] <= next'
      BY <1>1, <1>2, <2>2, <3>1 DEF Reserved, QueueInv
    <3> QED BY <1>2, <1>3, <1>6, <2>2, <3>1, <3>2, <3>3 DEF Reserved
  <2> QED BY <2>1, <2>2
<1>8. Shut'
  <2>1. phase' # "sealed"
    BY <1>2, <1>3
  <2> QED BY <1>2, <2>1, ShutStays DEF QueueInv, Next, Work, Emission
<1> QED BY <1>5, <1>7, <1>8 DEF QueueInv

\* The rounds of one segment.
LEMMA FoldOne ==
  ASSUME NEW f, f[1] \in Nat
  PROVE  FoldFunctionOnSet(+, 0, f, 1 .. 1) = f[1]
<1> DEFINE S == 1 .. 1
           Solves(h) == h = [s \in SUBSET S |->
                          IF s = {} THEN 0 ELSE LET x == CHOOSE x \in s : TRUE
                                                IN  f[x] + h[s \ {x}]]
<1>1. FoldFunctionOnSet(+, 0, f, S) = (CHOOSE iter : Solves(iter))[S]
  BY DEF FoldFunctionOnSet, MapThenFoldSet
<1>2. S = {1}
  OBVIOUS
<1>3. \E h : Solves(h)
  <2>1. PICK h : h = [s \in SUBSET S |-> IF s = {} THEN 0 ELSE f[1]]
    OBVIOUS
  <2>2. ASSUME NEW s \in SUBSET S, s # {}
        PROVE  h[s] = f[CHOOSE x \in s : TRUE] + h[s \ {CHOOSE x \in s : TRUE}]
    <3>1. s = {1}
      BY <1>2, <2>2
    <3>2. (CHOOSE x \in s : TRUE) = 1
      BY <3>1
    <3>3. h[{}] = 0 /\ h[s] = f[1] /\ s \ {1} = {}
      BY <2>1, <2>2, <3>1
    <3>4. PICK c : c = CHOOSE x \in s : TRUE
      OBVIOUS
    <3>5. c = 1 /\ s \ {c} = {} /\ f[c] = h[s]
      BY <3>2, <3>3, <3>4
    <3>6. h[s] = f[c] + h[s \ {c}]
      <4>1. h[s \ {c}] = 0 /\ f[c] \in Nat
        BY <3>3, <3>5
      <4> QED BY <3>5, <4>1
    <3> QED BY <3>4, <3>6
  <2>3. Solves(h)
    BY <2>1, <2>2
  <2> QED BY <2>3
<1> HIDE DEF Solves
<1>4. PICK h : h = CHOOSE iter : Solves(iter)
  OBVIOUS
<1>5. Solves(h)
  BY <1>3, <1>4
<1>6. h[S] = f[1]
  <2>1. h[{}] = 0
    BY <1>5 DEF Solves
  <2>2. h[{1}] = f[1] + h[{1} \ {1}]
    <3>1. (CHOOSE x \in {1} : TRUE) = 1
      OBVIOUS
    <3>2. {1} \in SUBSET S /\ {1} # {}
      BY <1>2
    <3>3. h[{1}] = f[CHOOSE x \in {1} : TRUE] + h[{1} \ {CHOOSE x \in {1} : TRUE}]
      BY <1>5, <3>2 DEF Solves
    <3> QED BY <3>1, <3>3
  <2>3. {1} \ {1} = {}
    OBVIOUS
  <2> QED BY <1>2, <2>1, <2>2, <2>3
<1> QED BY <1>1, <1>4, <1>6

\* Every boundary lies before the last round when the stream may be sealed.
LEMMA ClosedBehind ==
  ASSUME OneFile, Scalars, Rounds, Reserved, Shut, CanSeal, NEW b \in closed
  PROVE  b < next
<1>1. /\ next \in Nat /\ Begun \in Nat
      /\ mode.kind # "protected" => Len(Body[mode.kind]) = 1
      /\ Body[mode.kind][1] \in Nat
      /\ \A i \in 1 .. Begun : segEnd[i] \in Nat
      /\ Begun > 0 => segEnd[Begun] \in Nat
  BY QueueFacts
<1>2. PICK i \in 1 .. Begun : b = segEnd[i] /\ i \in Blocking[mode.kind]
  BY DEF Shut
<1>3. mode.feedback = "measurement_closed" /\ mode \in Modes
  BY DEF Shut, Scalars
<1>4. b \in Nat /\ Begun > 0 /\ b <= segEnd[Begun]
  BY <1>1, <1>2 DEF Rounds
<1>5. CASE phase = "sealing"
  <2>1. mode.kind = "protected" /\ Begun = Len(Body[mode.kind]) /\ next = Quota + 1
    BY <1>5 DEF Rounds, Reserved
  <2>2. Begun # 1
    <3> SUFFICES ASSUME Begun = 1 PROVE FALSE
      OBVIOUS
    <3>1. i = 1 /\ Len(Body[mode.kind]) = 1
      BY <2>1
    <3>2. PICK l : l = Len(Body[mode.kind])
      OBVIOUS
    <3>3. l > 1 \/ 1 \notin Blocking[mode.kind]
      BY <1>3, <2>1, <3>2 DEF OneFile
    <3> QED BY <1>2, <3>1, <3>2, <3>3
  <2>3. next = segEnd[Begun] + 1
    BY <1>1, <1>4, <2>1, <2>2 DEF Quota
  <2> QED BY <1>1, <1>4, <2>3
<1>6. CASE mode.kind = "open" /\ Idles > 0 /\ Begun = Len(Body[mode.kind])
  <2>1. Begun = 1 /\ mode.kind # "protected"
    BY <1>1, <1>6
  <2>2. i = 1 /\ segEnd[1] = Body[mode.kind][1]
    BY <1>2, <2>1 DEF Reserved
  <2>3. Idles = next - Body[mode.kind][1]
    <3>1. Idles = next - FoldFunctionOnSet(+, 0, Body[mode.kind], 1 .. 1)
      BY <2>1 DEF Idles
    <3>2. PICK f : f = Body[mode.kind]
      OBVIOUS
    <3>3. FoldFunctionOnSet(+, 0, f, 1 .. 1) = f[1]
      BY <1>1, <3>2, FoldOne
    <3> QED BY <3>1, <3>2, <3>3
  <2> QED BY <1>1, <1>2, <1>6, <2>2, <2>3
<1> QED BY <1>5, <1>6 DEF CanSeal

\* The boundary of a segment that ends while others wait for it.
LEMMA ShutMore ==
  ASSUME Scalars, Rounds, Shut, UNCHANGED <<mode, segEnd>>, phase' # "sealed", Begun > 0,
         \/ closed' = closed
         \/ /\ closed' = closed \cup {segEnd[Begun]} /\ Begun \in Waiting
            /\ mode.feedback = "measurement_closed"
  PROVE  Shut'
<1>1. Begun' = Begun /\ Begun \in 1 .. Begun
  BY LenProperties DEF Begun, Scalars
<1>2. ASSUME NEW b \in closed'
      PROVE  /\ \E i \in 1 .. Begun' : b = segEnd'[i] /\ i \in Blocking[mode'.kind]
             /\ mode'.feedback = "measurement_closed"
  <2>1. CASE b \in closed
    BY <1>1, <2>1 DEF Shut
  <2>2. CASE b \notin closed
    <3>1. b = segEnd[Begun] /\ Begun \in Blocking[mode.kind]
          /\ mode.feedback = "measurement_closed"
      BY <1>2, <2>2 DEF Waiting
    <3> QED BY <1>1, <3>1
  <2> QED BY <2>1, <2>2
<1> QED BY <1>2 DEF Shut

\* So does a segment's own round; its last one may close the boundary.
LEMMA QueueBody ==
  ASSUME OneFile, Scalars, Rounds, QueueInv, BodyRound
  PROVE  QueueInv'
<1>1. /\ next \in Nat /\ at \in Nat /\ arrived \in Nat /\ transit \in Seq(Nat) /\ Begun \in Nat
      /\ mode.kind # "protected" => Begun <= 1
      /\ Body[mode.kind][1] \in Nat
  BY QueueFacts
<1>2. /\ mode.kind # "protected" /\ phase = "running" /\ mode' = mode
      /\ at' = at + 1
      /\ transit' = Append(transit, segEnd[Begun] - Body[mode.kind][Begun] + at + 1)
      /\ UNCHANGED <<next, segEnd, arrived, got>>
      /\ IF at' = Body[mode.kind][Begun] THEN phase' = "ended" ELSE phase' = phase
      /\ \/ closed' = closed
         \/ /\ closed' = closed \cup {segEnd[Begun]} /\ Begun \in Waiting
            /\ mode.feedback = "measurement_closed"
  BY DEF BodyRound, BodyEnds, CloseBoundary
<1>3. Begun = 1
  BY <1>1, <1>2 DEF Rounds
<1>4. segEnd[1] = Body[mode.kind][1] /\ next = segEnd[1] /\ at < Body[mode.kind][1]
  BY <1>2, <1>3 DEF QueueInv, Reserved, Rounds
<1>5. transit' = Append(transit, at + 1)
  <2>1. PICK x, y : x = Body[mode.kind][Begun] /\ y = at + 1
    OBVIOUS
  <2>2. segEnd[Begun] = x /\ x \in Nat
    BY <1>1, <1>3, <1>4, <2>1
  <2>3. segEnd[Begun] - Body[mode.kind][Begun] + at + 1 = y
    BY <1>1, <2>1, <2>2
  <2> QED BY <1>2, <2>1, <2>3
<1>6. Out = at /\ Out' = at + 1
  BY <1>1, <1>2, <1>3, <1>4 DEF Out
<1>7. Queue'
  <2>1. InOrder(transit, arrived, at) /\ got \subseteq 1 .. arrived
    BY <1>6 DEF Queue, QueueInv
  <2>2. PICK r : r = at + 1
    OBVIOUS
  <2>3. InOrder(Append(transit, r), arrived, r)
    BY <1>1, <2>1, <2>2, OrderAppended
  <2> QED BY <1>2, <1>5, <1>6, <2>1, <2>2, <2>3 DEF Queue
<1>8. Begun' = Begun /\ (Finite' <=> Finite)
  BY <1>2 DEF Begun, Finite
<1>9. Reserved'
  BY <1>1, <1>2, <1>3, <1>4, <1>8 DEF Reserved, QueueInv
<1>10. Shut'
  <2>1. phase' # "sealed" /\ Begun > 0
    BY <1>2, <1>3
  <2> QED BY <1>2, <2>1, ShutMore DEF QueueInv
<1> QED BY <1>7, <1>9, <1>10 DEF QueueInv

\* A segment of a protected region ends with the rounds of the cycle.
LEMMA QueueProtectedEnds ==
  ASSUME OneFile, Scalars, Rounds, QueueInv, ProtectedBodyEnds
  PROVE  QueueInv'
<1>1. /\ mode.kind = "protected" /\ phase = "running" /\ mode' = mode /\ next = Quota
      /\ phase' = IF Begun = Len(Body[mode.kind]) THEN "closing" ELSE "ended"
      /\ UNCHANGED <<next, segEnd, at, transit, arrived, got>>
      /\ \/ closed' = closed
         \/ /\ closed' = closed \cup {segEnd[Begun]} /\ Begun \in Waiting
            /\ mode.feedback = "measurement_closed"
  BY DEF ProtectedBodyEnds, BodyEnds, CloseBoundary, roundVars, Quota
<1>2. Begun' = Begun /\ Out' = Out /\ Quota' = Quota /\ ~ Finite'
  BY <1>1 DEF Begun, Out, Quota, Finite
<1>3. Queue'
  BY <1>1, <1>2 DEF Queue, QueueInv
<1>4. Reserved'
  BY <1>1, <1>2 DEF Reserved
<1>5. Shut'
  <2>1. phase' # "sealed" /\ Begun > 0
    BY <1>1 DEF Rounds
  <2> QED BY <1>1, <2>1, ShutMore DEF QueueInv
<1> QED BY <1>3, <1>4, <1>5 DEF QueueInv

\* A stream is sealed behind its closed boundaries.
LEMMA QueueSeal ==
  ASSUME OneFile, Scalars, Rounds, QueueInv, Seal
  PROVE  QueueInv'
<1>1. /\ CanSeal /\ phase' = "sealed"
      /\ UNCHANGED <<mode, next, segEnd, at, transit, arrived, got, closed>>
      /\ (mode.kind = "open" /\ phase = "ended") \/ phase = "sealing"
  BY DEF Seal, CanSeal, roundVars
<1>2. Begun' = Begun /\ Out' = Out /\ Quota' = Quota /\ (Finite' <=> Finite)
  BY <1>1 DEF Begun, Out, Quota, Finite
<1>3. Queue'
  BY <1>1, <1>2 DEF Queue, QueueInv
<1>4. Reserved'
  BY <1>1, <1>2 DEF Reserved, QueueInv
<1>5. \A b \in closed : b < next
  BY <1>1, ClosedBehind DEF QueueInv
<1>6. Shut'
  BY <1>1, <1>2, <1>5 DEF Shut, QueueInv
<1> QED BY <1>3, <1>4, <1>6 DEF QueueInv

\* A round that arrives is behind those that have; a dropped one leaves a gap.
LEMMA QueueTransit ==
  ASSUME OneFile, Scalars, Rounds, QueueInv, Arrive \/ Drop
  PROVE  /\ QueueInv'
         /\ Arrive => arrived' = Head(transit) /\ arrived < arrived' /\ arrived' <= next
<1>1. /\ next \in Nat /\ arrived \in Nat /\ transit \in Seq(Nat) /\ Out \in Nat
  BY QueueFacts
<1>2. /\ transit # <<>> /\ transit' = Tail(transit)
      /\ UNCHANGED <<mode, next, segEnd, phase, at, closed>>
  BY DEF Arrive, Drop, qpuVars, planVars
<1>3. /\ InOrder(Tail(transit), Head(transit), Out) /\ InOrder(Tail(transit), arrived, Out)
      /\ Head(transit) \in Nat /\ arrived < Head(transit)
  <2>1. InOrder(transit, arrived, Out)
    BY DEF Queue, QueueInv
  <2>2. PICK o : o = Out
    OBVIOUS
  <2> QED BY <1>1, <1>2, <2>1, <2>2, OrderTaken
<1>4. Begun' = Begun /\ Out' = Out /\ Quota' = Quota /\ (Finite' <=> Finite)
  BY <1>2 DEF Begun, Out, Quota, Finite
<1>5. CASE Arrive
  <2>1. arrived' = Head(transit) /\ got' = got \cup {Head(transit)}
    BY <1>1, <1>3, <1>5 DEF Arrive, Most
  <2>2. got' \subseteq 1 .. arrived'
    <3>1. got \subseteq 1 .. arrived
      BY DEF Queue, QueueInv
    <3>2. PICK h : h = Head(transit)
      OBVIOUS
    <3>3. got \cup {h} \subseteq 1 .. h
      <4> SUFFICES ASSUME NEW x \in got \cup {h} PROVE x \in 1 .. h
        OBVIOUS
      <4>1. h \in Nat /\ arrived < h
        BY <1>3, <3>2
      <4>2. CASE x \in got
        <5>1. x \in 1 .. arrived
          BY <3>1, <4>2
        <5> QED BY <1>1, <4>1, <5>1
      <4>3. CASE x = h
        BY <1>1, <4>1, <4>3
      <4> QED BY <4>2, <4>3
    <3> QED BY <2>1, <3>2, <3>3
  <2>3. Queue'
    BY <1>2, <1>3, <1>4, <2>1, <2>2 DEF Queue
  <2>4. Head(transit) <= next
    <3>1. Head(transit) \in ToSet(transit)
      <4>1. ToSet(transit) = {Head(transit)} \cup ToSet(Tail(transit))
        BY <1>1, <1>2, HeadAndTail
      <4> QED BY <4>1
    <3> QED BY <3>1 DEF Rounds
  <2>5. Reserved' /\ Shut'
    BY <1>2, <1>4 DEF Reserved, Shut, QueueInv
  <2> QED BY <1>3, <2>1, <2>3, <2>4, <2>5 DEF QueueInv
<1>6. CASE ~ Arrive
  <2>1. UNCHANGED <<arrived, got>>
    BY <1>6 DEF Drop
  <2>2. Queue'
    BY <1>2, <1>3, <1>4, <2>1 DEF Queue, QueueInv
  <2>3. Reserved' /\ Shut'
    BY <1>2, <1>4 DEF Reserved, Shut, QueueInv
  <2> QED BY <1>6, <2>2, <2>3 DEF QueueInv
<1> QED BY <1>5, <1>6

\* Every step.
LEMMA QueueStep ==
  ASSUME OneFile, Scalars, Rounds, QueueInv, [Next]_vars
  PROVE  QueueInv'
<1>1. CASE SinkWeak \/ Install \/ (\E k \in DOMAIN win : Decoding(k)) \/ UNCHANGED vars
  <2>1. UNCHANGED <<qpuVars, roundVars, closed>>
    BY <1>1 DEF SinkWeak, Install, Decoding, Land, DecodeFinal, DecodeEscalated,
       SinkStrong, Receive, vars, planVars
  <2> QED BY <2>1, QueueUnchanged
<1> QED BY <1>1, QueueBegin, QueueStart, QueueEmission, QueueBody, QueueProtectedEnds,
           QueueSeal, QueueTransit DEF Next, Work, Emission

-----------------------------------------------------------------------------
(* Every window reads its rounds *)

\* The plan covers the rounds that have arrived, and a stream that has ended.
Cover(ws) ==
  IF end = None THEN Covered(ws, arrived)
  ELSE /\ ws # <<>> /\ ws[Len(ws)].hi = end
       /\ IF Finite THEN end = Limit ELSE end = next /\ phase = "sealed"

ReadInv ==
  /\ Fit(win, closed, end, arrived, got, freed) /\ Exact(win, got, freed)
  /\ Cover(win)

\* What is submitted and released goes together.
LEMMA CheckSettle ==
  ASSUME NEW ws \in Seq(WindowType), NEW shut, shut \subseteq Nat, NEW n \in Nat,
         NEW count \in Nat, NEW taken, taken \subseteq Nat, NEW gone, gone \subseteq taken,
         Fit(ws, shut, n, count, taken, gone),
         NEW vs, vs = Check(ws, count, shut, n, taken \ gone),
         NEW now, now = gone \cup Released(vs, taken)
  PROVE  Fit(vs, shut, n, count, taken, now) /\ Exact(vs, taken, now)
<1>1. Fit(vs, shut, n, count, taken, gone)
  BY CheckFit
<1>2. DOMAIN vs = 1 .. Len(vs)
  <2>1. taken \ gone \subseteq Nat
    OBVIOUS
  <2>2. KeptRow(ws, vs)
    BY <2>1, CheckFacts
  <2> QED BY <2>2, LenProperties DEF KeptRow
<1> QED BY <1>1, <1>2, SettleFit

\* A window that is decoded keeps what it was given.
LEMMA RetainsMoved ==
  ASSUME NEW w, NEW v, NEW shut, NEW n, NEW count, NEW taken, NEW gone,
         Retains(w, shut, n, count, taken, gone),
         v.lo = w.lo, v.hi = w.hi, v.bhi = w.bhi, v.rhi = w.rhi, v.job = w.job,
         v.stage = "open" <=> w.stage = "open", Hold(v) \subseteq Hold(w)
  PROVE  Retains(v, shut, n, count, taken, gone)
<1>1. ReadsTo(v, shut, n) = ReadsTo(w, shut, n)
  BY DEF ReadsTo, Effective
<1> QED BY <1>1 DEF Retains

\* Closing a boundary.
LEMMA CloseFit ==
  ASSUME Scalars, Tables, Queue, ReadInv, NEW b \in Nat, arrived <= b, CloseBoundary(b)
  PROVE  Fit(win', closed', end, arrived, got, freed') /\ Exact(win', got, freed')
<1>1. PICK shut, g : shut = closed \cup {b} /\ g = Grow(win, b, None, shut, end)
  OBVIOUS
<1> DEFINE fresh == [k \in DOMAIN g |->
                       IF g[k].stage # "open" THEN g[k]
                       ELSE [g[k] EXCEPT !.rhi = ReadsTo(g[k], shut, end)]]
<1>2. /\ shut \subseteq Nat /\ end \in Nat /\ win \in Seq(WindowType) /\ got \subseteq Nat
      /\ None \in Nat /\ arrived \in Nat /\ freed \subseteq got /\ freed \subseteq 1 .. arrived
      /\ closed \subseteq Nat
  BY <1>1 DEF Scalars, Tables, None, ReadInv, Exact, Queue
<1>3. /\ win' = Check(fresh, arrived, shut, end, got \ freed)
      /\ freed' = freed \cup Released(win', got) /\ closed' = shut
  BY <1>1 DEF CloseBoundary, Settle
<1>4. Fit(win, shut, end, arrived, got, freed)
  <2> SUFFICES ASSUME NEW k \in 1 .. Len(win)
               PROVE  Retains(win[k], shut, end, arrived, got, freed) /\ Contributes(win[k])
    BY DEF Fit
  <2>1. win[k] \in WindowType
    BY <1>2, WindowFields
  <2>2. Retains(win[k], closed, end, arrived, got, freed) /\ Contributes(win[k])
    BY DEF ReadInv, Fit
  <2> QED BY <1>1, <1>2, <2>1, <2>2, RetainsShut
<1>5. Fit(g, shut, end, arrived, got, freed)
  <2>1. end = None => Covered(win, arrived)
    BY DEF ReadInv, Cover
  <2> QED BY <1>1, <1>2, <1>4, <2>1, GrowFit
<1>6. g \in Seq(WindowType) /\ Len(g) \in Nat /\ DOMAIN g = 1 .. Len(g)
  <2>1. Grown(win, g, b, None, end)
    BY <1>1, <1>2, GrowFacts
  <2> QED BY <2>1, LenProperties DEF Grown
<1>7. ASSUME NEW k \in 1 .. Len(g)
      PROVE  /\ fresh[k] \in WindowType /\ Kept(g[k], fresh[k])
             /\ Retains(fresh[k], shut, end, arrived, got, freed) /\ Contributes(fresh[k])
  <2>1. PICK w, v, r : w = g[k] /\ v = fresh[k] /\ r = ReadsTo(g[k], shut, end)
    OBVIOUS
  <2>2. /\ w \in WindowType /\ w.bhi \in Nat
        /\ Retains(w, shut, end, arrived, got, freed) /\ Contributes(w)
    BY <1>5, <1>6, <2>1, WindowFields DEF Fit
  <2>3. r \in Nat
    BY <1>2, <2>1, <2>2, ReadsToNat
  <2>4. v = w \/ (w.stage = "open" /\ v = [w EXCEPT !.rhi = r])
    BY <1>6, <2>1
  <2> HIDE DEF fresh
  <2>5. CASE v = w
    BY <2>1, <2>2, <2>5 DEF Kept
  <2>6. CASE w.stage = "open" /\ v = [w EXCEPT !.rhi = r]
    <3>1. v \in WindowType /\ Kept(w, v)
      BY <2>2, <2>3, <2>6, HoldKept
    <3>2. Retains(v, shut, end, arrived, got, freed)
      <4>1. v = [w EXCEPT !.rhi = ReadsTo(w, shut, end)]
        BY <2>1, <2>6
      <4> QED BY <1>2, <2>2, <2>6, <4>1, RetainsRefreshed
    <3>3. Contributes(v)
      <4>1. v.says = w.says /\ v.stage = w.stage
        BY <2>2, <2>6 DEF WindowType
      <4> QED BY <2>2, <4>1 DEF Contributes, Committed
    <3> QED BY <2>1, <3>1, <3>2, <3>3
  <2> QED BY <2>4, <2>5, <2>6
<1>8. DOMAIN fresh = DOMAIN g /\ fresh = [k \in DOMAIN g |-> fresh[k]]
  OBVIOUS
<1> HIDE DEF fresh
<1>9. fresh \in Seq(WindowType) /\ Len(fresh) = Len(g)
  <2>1. KeptRow(g, fresh)
    BY <1>6, <1>7, <1>8, RewrittenRow
  <2> QED BY <2>1 DEF KeptRow
<1>10. Fit(fresh, shut, end, arrived, got, freed)
  BY <1>7, <1>9 DEF Fit
<1>11. PICK vs, now : vs = win' /\ now = freed'
  OBVIOUS
<1>12. Fit(vs, shut, end, arrived, got, now) /\ Exact(vs, got, now)
  BY <1>2, <1>3, <1>9, <1>10, <1>11, CheckSettle
<1> QED BY <1>3, <1>11, <1>12

\* The arrival of a round.
LEMMA ArriveFit ==
  ASSUME Scalars, Tables, Queue, ReadInv, Arrive, arrived < arrived',
         arrived' = Head(transit), OnPlan(win),
         Finite => end \in {None, Limit} /\ closed \subseteq Nat
  PROVE  /\ Fit(win', closed', end', arrived', got', freed') /\ Exact(win', got', freed')
         /\ LET g == Grow(win, arrived', None, closed, end)
            IN  WantedFor(arrived', end) <= Len(g) /\ Len(win') = Len(g)
<1>1. PICK g, x, n : /\ g = Grow(win, arrived', None, closed, end) /\ x = arrived'
                     /\ n = end'
  OBVIOUS
<1>2. /\ closed \subseteq Nat /\ end \in Nat /\ win \in Seq(WindowType) /\ got \subseteq Nat
      /\ None \in Nat /\ arrived \in Nat /\ freed \subseteq got /\ freed \subseteq 1 .. arrived
      /\ transit \in Seq(Nat) /\ transit # <<>>
  BY DEF Scalars, Tables, None, ReadInv, Exact, Queue, Arrive
<1>3. x \in Nat /\ arrived < x
  BY <1>1, <1>2, HeadAndTail
<1>4. PICK taken : taken = got \cup {x}
  OBVIOUS
<1>5. /\ got' = taken /\ closed' = closed
      /\ win' = Check(g, x, closed, n, taken \ freed)
      /\ freed' = freed \cup Released(win', taken)
      /\ n = (IF Finite /\ x >= Limit THEN Limit ELSE end)
  BY <1>1, <1>4 DEF Arrive, Settle
<1>6. Fit(win, closed, end, x, taken, freed)
  <2> SUFFICES ASSUME NEW k \in 1 .. Len(win)
               PROVE  Retains(win[k], closed, end, x, taken, freed) /\ Contributes(win[k])
    BY DEF Fit
  <2>1. win[k] \in WindowType
    BY <1>2, WindowFields
  <2>2. Retains(win[k], closed, end, arrived, got, freed) /\ Contributes(win[k])
    BY DEF ReadInv, Fit
  <2> QED BY <1>2, <1>3, <1>4, <2>1, <2>2, RetainsMore
<1>7. Fit(g, closed, end, x, taken, freed) /\ WantedFor(x, end) <= Len(g)
  <2>1. end = None => Covered(win, arrived)
    BY DEF ReadInv, Cover
  <2> QED BY <1>1, <1>2, <1>3, <1>6, <2>1, GrowFit
<1>8. g \in Seq(WindowType)
  <2>1. Grown(win, g, x, None, end)
    BY <1>1, <1>2, <1>3, GrowFacts
  <2> QED BY <2>1 DEF Grown
<1>9. Fit(g, closed, n, x, taken, freed) /\ n \in Nat
  <2>1. CASE n = end
    BY <1>2, <1>7, <2>1
  <2>2. CASE n # end
    <3>1. Finite /\ n = Limit /\ n \in {None, Limit} /\ end \in {None, Limit} /\ n \in Nat
      BY <1>5, <2>2, StreamAssumption
    <3>2. ASSUME NEW k \in 1 .. Len(g)
          PROVE  Retains(g[k], closed, n, x, taken, freed) /\ Contributes(g[k])
      <4>1. g[k] \in WindowType
        BY <1>8, WindowFields
      <4>2. Retains(g[k], closed, end, x, taken, freed) /\ Contributes(g[k])
        BY <1>7 DEF Fit
      <4> QED BY <3>1, <4>1, <4>2, RetainsFull
    <3> QED BY <3>1, <3>2 DEF Fit
  <2> QED BY <2>1, <2>2
<1>10. PICK vs, now : vs = win' /\ now = freed'
  OBVIOUS
<1>11. taken \subseteq Nat /\ freed \subseteq taken
  BY <1>2, <1>3, <1>4
<1>12. Fit(vs, closed, n, x, taken, now) /\ Exact(vs, taken, now)
  BY <1>2, <1>3, <1>5, <1>8, <1>9, <1>10, <1>11, CheckSettle
<1>13. Len(win') = Len(g)
  <2>1. taken \ freed \subseteq Nat
    BY <1>11
  <2>2. KeptRow(g, vs)
    BY <1>5, <1>8, <1>10, <2>1, CheckFacts
  <2> QED BY <1>10, <2>2 DEF KeptRow
<1> QED BY <1>1, <1>5, <1>7, <1>10, <1>12, <1>13

\* Sealing the stream.
LEMMA SealFit ==
  ASSUME OneFile, Scalars, Rounds, Tables, QueueInv, ReadInv, OnPlan(win), Seal
  PROVE  /\ Fit(win', closed', end', arrived, got, freed') /\ Exact(win', got, freed')
         /\ win' # <<>> /\ win'[Len(win')].hi = next
<1>1. PICK g, tail : g = Grow(win, next, next, closed, end) /\ tail = Min(TailOf(g))
  OBVIOUS
<1>2. PICK clipped : clipped = [g EXCEPT ![tail] = Clip(g[tail], next)]
  OBVIOUS
<1>3. /\ closed \subseteq Nat /\ end \in Nat /\ win \in Seq(WindowType) /\ got \subseteq Nat
      /\ next \in Nat /\ None \in Nat /\ arrived \in Nat /\ freed \subseteq got
      /\ freed \subseteq 1 .. arrived /\ arrived <= next
  BY DEF Scalars, Tables, None, ReadInv, Exact, Queue, QueueInv, Rounds
<1>4. ~ Finite /\ end = None /\ next >= 1 /\ end' = next /\ next # None
  BY SealedStream DEF None
<1>5. Grown(win, g, next, next, end)
  BY <1>1, <1>3, GrowFacts
<1>6. g \in Seq(WindowType) /\ Len(g) \in Nat /\ DOMAIN g = 1 .. Len(g)
  BY <1>5, LenProperties DEF Grown
<1>7. /\ Len(g) >= 1 /\ tail = Len(g)
      /\ \A k \in 1 .. Len(g) : /\ g[k].lo = (k - 1) * F + 1 /\ g[k].lo <= next
                                /\ k < Len(g) => g[k].hi = k * F
                                /\ k = Len(g) => next <= g[k].hi
  BY <1>1, <1>5, SealedRow
<1>8. /\ g[tail].stage = "open" /\ closed' = closed
      /\ win' = Check(clipped, arrived, closed, next, got \ freed)
      /\ freed' = freed \cup Released(win', got)
  BY <1>1, <1>2 DEF Seal, Settle
<1>9. Fit(g, closed, end, arrived, got, freed)
  <2>1. end = None => Covered(win, arrived)
    BY DEF ReadInv, Cover
  <2>2. Fit(win, closed, end, arrived, got, freed)
    BY DEF ReadInv
  <2> QED BY <1>1, <1>3, <2>1, <2>2, GrowFit
<1>10. \A b \in closed : b < next
  BY ClosedBehind DEF Seal, QueueInv
<1>11. ASSUME NEW k \in 1 .. Len(g)
       PROVE  /\ clipped[k] \in WindowType /\ Kept(g[k], clipped[k])
              /\ Retains(clipped[k], closed, next, arrived, got, freed)
              /\ Contributes(clipped[k])
              /\ k = Len(g) => clipped[k].hi = next
  <2>1. PICK w, v : w = g[k] /\ v = clipped[k]
    OBVIOUS
  <2>2. /\ w \in WindowType /\ w.hi \in Nat
        /\ Retains(w, closed, None, arrived, got, freed) /\ Contributes(w)
    BY <1>4, <1>6, <1>9, <2>1, WindowFields DEF Fit
  <2>3. CASE k = tail
    <3>1. v = Clip(w, next) /\ w.stage = "open" /\ next <= w.hi
      BY <1>2, <1>6, <1>7, <1>8, <2>1, <2>3
    <3>2. v \in WindowType /\ Kept(w, v) /\ v.hi = next
      BY <1>3, <2>2, <3>1, ClipKept
    <3>3. Retains(v, closed, next, arrived, got, freed)
      BY <1>3, <1>4, <1>10, <2>2, <3>1, RetainsClip
    <3>4. Contributes(v)
      <4>1. v.says = w.says /\ v.stage = w.stage
        BY <2>2, <3>1 DEF WindowType, Clip
      <4> QED BY <2>2, <4>1 DEF Contributes, Committed
    <3> QED BY <2>1, <3>2, <3>3, <3>4
  <2>4. CASE k # tail
    <3>1. v = w
      BY <1>2, <1>6, <2>1, <2>4
    <3>2. w.hi <= next
      <4>0. PICK m : m = Len(g)
        OBVIOUS
      <4>1. m \in Nat /\ k # m /\ k \in 1 .. m
        BY <1>6, <1>7, <2>4, <4>0
      <4>2. k + 1 \in 1 .. m /\ k < m
        BY <4>1
      <4>3. k + 1 \in 1 .. Len(g) /\ k < Len(g)
        BY <4>0, <4>2
      <4>4. w.hi = k * F /\ g[k + 1].lo = (k + 1 - 1) * F + 1 /\ g[k + 1].lo <= next
        BY <1>7, <2>1, <4>3
      <4>5. k + 1 - 1 = k
        OBVIOUS
      <4>6. g[k + 1].lo = w.hi + 1
        BY <4>4, <4>5
      <4> QED BY <1>3, <2>2, <4>4, <4>6
    <3>3. Retains(w, closed, next, arrived, got, freed)
      BY <1>3, <1>4, <2>2, <3>2, RetainsSealed
    <3> QED BY <1>7, <2>1, <2>2, <2>4, <3>1, <3>3 DEF Kept
  <2> QED BY <2>3, <2>4
<1>12. DOMAIN clipped = DOMAIN g /\ clipped = [k \in DOMAIN g |-> clipped[k]]
  BY <1>2
<1>13. clipped \in Seq(WindowType) /\ Len(clipped) = Len(g)
  <2>1. KeptRow(g, clipped)
    BY <1>6, <1>11, <1>12, RewrittenRow
  <2> QED BY <2>1 DEF KeptRow
<1>14. Fit(clipped, closed, next, arrived, got, freed)
  BY <1>11, <1>13 DEF Fit
<1>15. PICK vs, now : vs = win' /\ now = freed'
  OBVIOUS
<1>16. Fit(vs, closed, next, arrived, got, now) /\ Exact(vs, got, now)
  BY <1>3, <1>8, <1>13, <1>14, <1>15, CheckSettle
<1>17. vs # <<>> /\ vs[Len(vs)].hi = next
  <2>1. got \ freed \subseteq Nat
    BY <1>3
  <2>2. KeptRow(clipped, vs) /\ SameRegions(clipped, vs)
    BY <1>8, <1>13, <1>15, <2>1, CheckFacts
  <2>0. PICK m : m = Len(g)
    OBVIOUS
  <2>a. m \in Nat /\ m >= 1
    BY <1>6, <1>7, <2>0
  <2>b. m \in 1 .. m
    BY <2>a
  <2>3. vs \in Seq(WindowType) /\ Len(vs) = Len(g) /\ Len(g) >= 1 /\ Len(g) \in 1 .. Len(g)
    BY <1>13, <2>0, <2>a, <2>b, <2>2 DEF KeptRow
  <2>4. vs[Len(g)].hi = clipped[Len(g)].hi
    BY <1>13, <2>2, <2>3 DEF SameRegions
  <2>5. vs # <<>>
    BY <2>3, LenProperties
  <2> QED BY <1>11, <2>3, <2>4, <2>5
<1> QED BY <1>4, <1>8, <1>15, <1>16, <1>17

\* As many windows as are wanted cover a finite stream as far as it has arrived.
LEMMA WantedCovers ==
  ASSUME Finite, NEW known \in Nat, NEW m \in Nat, WantedFor(known, None) <= m
  PROVE  \A k \in DOMAIN Plan : Plan[k].lo <= known => k <= m
<1> SUFFICES ASSUME NEW k \in DOMAIN Plan, Plan[k].lo <= known
             PROVE  k <= m
  OBVIOUS
<1>1. PICK q \in Nat :
        /\ q >= 1 /\ DOMAIN Plan = 1 .. q /\ Plan[q].hi = Limit
        /\ \A j \in 1 .. q : /\ Plan[j].lo = (j - 1) * F + 1 /\ Plan[j].lo <= Limit
                             /\ Plan[j].hi <= Limit /\ Plan[j].hi <= Plan[j].bhi
  BY PlanEnds DEF EndsAt
<1>2. PICK P : P = {j \in DOMAIN Plan : Plan[j].lo <= known}
  OBVIOUS
<1>3. k \in Nat /\ k >= 1 /\ k <= q
  BY <1>1
<1>4. ASSUME NEW j \in 1 .. k PROVE j \in P
  <2>1. PICK x, y : x = (j - 1) * F /\ y = (k - 1) * F
    OBVIOUS
  <2>2. j \in Nat /\ j >= 1 /\ j <= k /\ j \in 1 .. q
    BY <1>3
  <2>3. x \in Nat /\ y \in Nat
    BY <1>3, <2>1, <2>2, Stride
  <2>4. x <= y
    <3>1. j - 1 \in Int /\ k - 1 \in Int /\ j - 1 <= k - 1
      BY <1>3, <2>2
    <3> QED BY <2>1, <3>1, TimesMonotone, StreamAssumption
  <2>5. Plan[j].lo = x + 1 /\ Plan[k].lo = y + 1
    BY <1>1, <2>1, <2>2
  <2>6. Plan[j].lo <= known
    BY <2>3, <2>4, <2>5
  <2> QED BY <1>1, <1>2, <2>2, <2>6
<1>5. IsFiniteSet(P) /\ Cardinality(P) \in Nat
  <2>1. IsFiniteSet(1 .. q)
    BY FS_Interval
  <2>2. P \subseteq 1 .. q
    BY <1>1, <1>2
  <2> QED BY <2>1, <2>2, FS_Subset, FS_CardinalityType
<1>6. Cardinality(1 .. k) <= Cardinality(P)
  <2>1. 1 .. k \subseteq P
    BY <1>4
  <2> QED BY <1>5, <2>1, FS_Subset
<1>7. Cardinality(1 .. k) = k
  BY <1>3, FS_Interval
<1>8. WantedFor(known, None) = Cardinality(P)
  BY <1>2 DEF WantedFor
<1> QED BY <1>3, <1>5, <1>6, <1>7, <1>8

\* The plan covers the rounds that have arrived, and all of a stream that ends.
LEMMA ArriveCover ==
  ASSUME OneFile, Scalars, Rounds, Tables, QueueInv, ReadInv, OnPlan(win), Arrive,
         mode' = mode, win' \in Seq(WindowType), OnPlan(win)'
  PROVE  Cover(win)'
<1>1. PICK x, n, vs : x = arrived' /\ n = end' /\ vs = win'
  OBVIOUS
<1>2. x = Head(transit) /\ arrived < x /\ x <= next /\ next \in Nat /\ x \in Nat
  <2>1. arrived' \in Nat
    BY TransitRounds DEF Scalars
  <2> QED BY <1>1, <2>1, QueueTransit DEF Scalars
<1>3. /\ end \in Nat /\ win \in Seq(WindowType) /\ Len(win) \in Nat /\ Len(vs) \in Nat
      /\ closed \subseteq Nat /\ None \in Nat /\ vs \in Seq(WindowType)
  BY <1>1, LenProperties DEF Scalars, Tables, None
<1>4. n = (IF Finite /\ x >= Limit THEN Limit ELSE end) /\ next' = next /\ phase' = phase
  BY <1>1 DEF Arrive, qpuVars
<1>5. Finite => end \in {None, Limit}
  BY DEF ReadInv, Cover
<1>6. WantedFor(x, end) <= Len(vs)
  BY <1>1, <1>2, <1>3, <1>5, ArriveFit DEF QueueInv
<1>7. CASE end # None
  <2>1. n = end
    BY <1>4, <1>5, <1>7
  <2>2. PICK g : Grown(win, g, x, None, end) /\ KeptRow(g, vs) /\ SameRegions(g, vs)
    BY <1>1, ArriveFacts
  <2>3. Len(g) = Len(win) /\ Len(vs) = Len(win)
    <3>1. Len(g) \in Nat /\ Len(win) <= Len(g) /\ \A k \in 1 .. Len(g) : k <= Len(win)
      BY <1>3, <1>7, <2>2, LenProperties DEF Grown
    <3> QED BY <1>3, <2>2, <3>1 DEF KeptRow
  <2>4. win # <<>> /\ win[Len(win)].hi = end
    BY <1>7 DEF ReadInv, Cover
  <2>5. Len(win) \in 1 .. Len(win)
    BY <1>3, <2>4, LenProperties
  <2>6. vs[Len(vs)].hi = end
    BY <2>2, <2>3, <2>4, <2>5 DEF Grown, SameRegions
  <2>7. vs # <<>>
    BY <1>3, <2>3, <2>5
  <2>8. IF Finite THEN end = Limit ELSE end = next /\ phase = "sealed"
    BY <1>7 DEF ReadInv, Cover
  <2> QED BY <1>1, <1>4, <1>7, <2>1, <2>6, <2>7, <2>8 DEF Cover, Finite
<1>8. CASE end = None /\ ~ Finite
  <2>1. n = None
    BY <1>4, <1>8
  <2>2. PICK c, y, z : c = CeilDiv(x, F) /\ y = c * F /\ z = Len(vs) * F
    OBVIOUS
  <2>3. c \in Nat /\ x <= y /\ c <= Len(vs)
    BY <1>2, <1>6, <1>8, <2>2, CeilingBounds, StreamAssumption DEF WantedFor
  <2>4. y <= z
    BY <1>3, <2>2, <2>3, TimesMonotone, StreamAssumption
  <2>5. y \in Int /\ z \in Int
    BY <1>3, <2>2, <2>3, StreamAssumption
  <2>6. x <= z
    BY <1>2, <2>3, <2>4, <2>5
  <2> QED BY <1>1, <1>8, <2>1, <2>2, <2>6 DEF Cover, Covered, Finite
<1>9. CASE end = None /\ Finite
  <2>1. \A k \in DOMAIN Plan : Plan[k].lo <= x => k <= Len(vs)
    BY <1>2, <1>3, <1>6, <1>9, WantedCovers
  <2>2. CASE x < Limit
    <3>1. n = None
      BY <1>2, <1>4, <1>9, <2>2, StreamAssumption
    <3> QED BY <1>1, <1>9, <2>1, <3>1 DEF Cover, Covered, Finite, Plan
  <2>3. CASE x >= Limit
    <3>1. PICK q \in Nat :
            /\ q >= 1 /\ DOMAIN Plan = 1 .. q /\ Plan[q].hi = Limit
            /\ \A j \in 1 .. q : /\ Plan[j].lo = (j - 1) * F + 1 /\ Plan[j].lo <= Limit
                                 /\ Plan[j].hi <= Limit /\ Plan[j].hi <= Plan[j].bhi
      BY PlanEnds DEF EndsAt
    <3>2. x = Limit
      BY <1>2, <1>9, <2>3, StreamAssumption DEF QueueInv, Reserved
    <3>3. q <= Len(vs)
      BY <2>1, <3>1, <3>2
    <3>4. \A k \in 1 .. Len(vs) : k \in DOMAIN Plan /\ vs[k].hi = Plan[k].hi
      BY <1>1, <1>9 DEF OnPlan, Finite, Plan
    <3>5. Len(vs) = q
      BY <1>3, <3>1, <3>3, <3>4
    <3>6. vs # <<>> /\ vs[Len(vs)].hi = Limit
      BY <3>1, <3>4, <3>5, LenProperties
    <3>7. n = Limit /\ Limit # None
      BY <1>4, <1>9, <2>3, StreamAssumption DEF None
    <3> QED BY <1>1, <1>9, <3>6, <3>7 DEF Cover, Finite
  <2>4. x < Limit \/ x >= Limit
    BY <1>2, StreamAssumption
  <2> QED BY <2>2, <2>3, <2>4
<1> QED BY <1>7, <1>8, <1>9

-----------------------------------------------------------------------------
(* Steps of one window, and what it reads *)

\* A window that is decoded, or whose result is committed, has its rounds and
\* holds none.
Onward(w, v) ==
  /\ v.lo = w.lo /\ v.hi = w.hi /\ v.bhi = w.bhi /\ v.rhi = w.rhi /\ v.job = w.job
  /\ w.stage \notin {"open", "queued"} /\ v.stage \notin {"open", "queued"}
  /\ Contributes(w) => Contributes(v)
  /\ Committed(w) => Committed(v)

\* One window of the row went on.
OneOnward(ws, vs) ==
  \E k \in 1 .. Len(ws) : \E v \in WindowType : Edited(ws, vs, k, v) /\ Onward(ws[k], v)

\* A decode that ends, and a strong result that comes in, move one window on.
LEMMA DecodedOnward ==
  ASSUME Tables, NEW k \in DOMAIN win, DecodeFinal(k) \/ DecodeEscalated(k) \/ SinkStrong(k)
  PROVE  OneOnward(win, win')
<1>1. PICK w : w = win[k]
  OBVIOUS
<1>2. /\ win \in Seq(WindowType) /\ DOMAIN win = 1 .. Len(win)
      /\ k \in 1 .. Len(win) /\ w \in WindowType
  <2>1. win \in Seq(WindowType) /\ DOMAIN win = 1 .. Len(win)
    BY LenProperties DEF Tables
  <2> QED BY <1>1, <2>1, WindowFields
<1>3. CASE DecodeFinal(k)
  <2> DEFINE v == [w EXCEPT !.out = "weak", !.stage = "sinking"]
  <2>1. v \in WindowType /\ Onward(w, v)
    <3>1. w.stage = "landed"
      BY <1>1, <1>3 DEF DecodeFinal
    <3>2. /\ v \in WindowType /\ v.stage = "sinking" /\ v.says = w.says
          /\ v.lo = w.lo /\ v.hi = w.hi /\ v.bhi = w.bhi /\ v.rhi = w.rhi /\ v.job = w.job
      BY <1>2 DEF WindowType
    <3> QED BY <3>1, <3>2 DEF Onward, Contributes, Committed
  <2>2. win' = [win EXCEPT ![k] = v]
    BY <1>1, <1>2, <1>3 DEF DecodeFinal, Ship
  <2> HIDE DEF v
  <2>3. Edited(win, win', k, v)
    BY <1>2, <2>1, <2>2, EditOne
  <2> QED BY <1>1, <1>2, <2>1, <2>3 DEF OneOnward
<1>4. CASE DecodeEscalated(k)
  <2> DEFINE v == [w EXCEPT !.stage = "asked", !.says = "weak", !.held = TRUE]
  <2>1. v \in WindowType /\ Onward(w, v)
    <3>1. w.stage = "landed"
      BY <1>1, <1>4 DEF DecodeEscalated
    <3>2. /\ v \in WindowType /\ v.stage = "asked" /\ v.says = "weak"
          /\ v.lo = w.lo /\ v.hi = w.hi /\ v.bhi = w.bhi /\ v.rhi = w.rhi /\ v.job = w.job
      BY <1>2 DEF WindowType
    <3> QED BY <3>1, <3>2 DEF Onward, Contributes, Committed
  <2>2. win' = [win EXCEPT ![k] = v]
    BY <1>1, <1>2, <1>4 DEF DecodeEscalated
  <2> HIDE DEF v
  <2>3. Edited(win, win', k, v)
    BY <1>2, <2>1, <2>2, EditOne
  <2> QED BY <1>1, <1>2, <2>1, <2>3 DEF OneOnward
<1>5. CASE SinkStrong(k)
  <2> DEFINE v == [w EXCEPT !.stage = "resolving"]
  <2>1. v \in WindowType /\ Onward(w, v)
    <3>1. w.stage = "asked"
      BY <1>1, <1>5 DEF SinkStrong
    <3>2. /\ v \in WindowType /\ v.stage = "resolving" /\ v.says = w.says
          /\ v.lo = w.lo /\ v.hi = w.hi /\ v.bhi = w.bhi /\ v.rhi = w.rhi /\ v.job = w.job
      BY <1>2 DEF WindowType
    <3> QED BY <3>1, <3>2 DEF Onward, Contributes, Committed
  <2>2. win' = [win EXCEPT ![k] = v]
    BY <1>1, <1>2, <1>5 DEF SinkStrong
  <2> HIDE DEF v
  <2>3. Edited(win, win', k, v)
    BY <1>2, <2>1, <2>2, EditOne
  <2> QED BY <1>1, <1>2, <2>1, <2>3 DEF OneOnward
<1> QED BY <1>3, <1>4, <1>5

\* So does a correction that the frame installs.
LEMMA InstalledOnward ==
  ASSUME BoundaryInv, Install
  PROVE  OneOnward(win, win')
<1>1. PICK k, w : k = Head(writes) /\ w = win[Head(writes)]
  OBVIOUS
<1>2. /\ win \in Seq(WindowType) /\ DOMAIN win = 1 .. Len(win)
      /\ k \in 1 .. Len(win) /\ w \in WindowType /\ w = win[k]
      /\ w.stage \in {"sinking", "resolving"}
  <2>1. win \in Seq(WindowType) /\ DOMAIN win = 1 .. Len(win)
    BY LenProperties DEF BoundaryInv, Tables
  <2>2. ToSet(writes) = {Head(writes)} \cup ToSet(Tail(writes))
    BY HeadAndTail DEF Install, BoundaryInv, Tables
  <2>3. k \in 1 .. Len(win) /\ w.stage \in {"sinking", "resolving"}
    BY <1>1, <2>2 DEF BoundaryInv, Corrections
  <2> QED BY <1>1, <2>1, <2>3, WindowFields
<1>3. w \in WindowType
  BY <1>2
<1>4. CASE w.stage = "resolving"
  <2> DEFINE v == [w EXCEPT !.stage = "final", !.says = "strong", !.entry = "strong",
                            !.held = FALSE, !.out = "strong"]
  <2>1. v \in WindowType /\ Onward(w, v)
    <3>1. /\ v \in WindowType /\ v.stage = "final" /\ v.says = "strong"
          /\ v.lo = w.lo /\ v.hi = w.hi /\ v.bhi = w.bhi /\ v.rhi = w.rhi /\ v.job = w.job
      BY <1>3 DEF WindowType
    <3> QED BY <1>4, <3>1 DEF Onward, Contributes, Committed
  <2>2. win' = [win EXCEPT ![k] = v]
    <3>1. win' = Ship([win EXCEPT ![k].stage = "final", ![k].says = "strong",
                                  ![k].entry = "strong", ![k].held = FALSE], k, "strong")
      BY <1>1, <1>2, <1>4 DEF Install
    <3> QED BY <1>2, <3>1 DEF Ship
  <2> HIDE DEF v
  <2>3. Edited(win, win', k, v)
    BY <1>2, <2>1, <2>2, EditOne
  <2> QED BY <1>2, <2>1, <2>3 DEF OneOnward
<1>5. CASE w.stage # "resolving"
  <2> DEFINE v == [w EXCEPT !.stage = "final", !.says = "weak", !.entry = "weak",
                            !.held = FALSE]
  <2>1. v \in WindowType /\ Onward(w, v)
    <3>1. /\ v \in WindowType /\ v.stage = "final" /\ v.says = "weak"
          /\ v.lo = w.lo /\ v.hi = w.hi /\ v.bhi = w.bhi /\ v.rhi = w.rhi /\ v.job = w.job
      BY <1>3 DEF WindowType
    <3> QED BY <1>2, <3>1 DEF Onward, Contributes, Committed
  <2>2. win' = [win EXCEPT ![k] = v]
    <3>1. win' = [win EXCEPT ![k].stage = "final", ![k].says = "weak",
                             ![k].entry = "weak", ![k].held = FALSE]
      BY <1>1, <1>2, <1>5 DEF Install
    <3> QED BY <1>2, <3>1
  <2> HIDE DEF v
  <2>3. Edited(win, win', k, v)
    BY <1>2, <2>1, <2>2, EditOne
  <2> QED BY <1>2, <2>1, <2>3 DEF OneOnward
<1> QED BY <1>4, <1>5

\* It keeps what it has read, and Buffer 0 has nothing more to release.
LEMMA OnwardReads ==
  ASSUME Tables, ReadInv, OneOnward(win, win'), UNCHANGED <<mode, closed, end, got, arrived, freed>>
  PROVE  /\ Fit(win', closed', end', arrived', got', freed') /\ Exact(win', got', freed')
         /\ Len(win') = Len(win) /\ SameRegions(win, win')
<1>1. PICK vs : vs = win'
  OBVIOUS
<1>2. PICK k \in 1 .. Len(win), v \in WindowType : Edited(win, vs, k, v) /\ Onward(win[k], v)
  BY <1>1 DEF OneOnward
<1>3. Len(vs) = Len(win)
  BY <1>2 DEF Edited
<1>4. ASSUME NEW j \in 1 .. Len(win)
      PROVE  /\ Retains(vs[j], closed, end, arrived, got, freed) /\ Contributes(vs[j])
             /\ Hold(vs[j]) = Hold(win[j]) /\ vs[j].lo = win[j].lo /\ vs[j].hi = win[j].hi
  <2>1. Retains(win[j], closed, end, arrived, got, freed) /\ Contributes(win[j])
    BY DEF ReadInv, Fit
  <2>2. CASE j = k
    <3>1. PICK w : w = win[k]
      OBVIOUS
    <3>2. Onward(w, v) /\ vs[j] = v /\ win[j] = w
      BY <1>2, <2>2, <3>1 DEF Edited
    <3>3. Hold(v) = {} /\ Hold(w) = {}
      BY <3>2 DEF Onward, Hold
    <3>4. v.stage = "open" <=> w.stage = "open"
      BY <3>2 DEF Onward
    <3>5. Retains(v, closed, end, arrived, got, freed)
      BY <2>1, <3>2, <3>3, <3>4, RetainsMoved DEF Onward
    <3> QED BY <2>1, <3>2, <3>3, <3>5 DEF Onward
  <2>3. CASE j # k
    <3>1. vs[j] = win[j]
      BY <1>2, <2>3 DEF Edited
    <3> QED BY <2>1, <3>1
  <2> QED BY <2>2, <2>3
<1>5. Fit(vs, closed, end, arrived, got, freed)
  BY <1>3, <1>4 DEF Fit
<1>6. Exact(vs, got, freed)
  <2>1. Exact(win, got, freed)
    BY DEF ReadInv
  <2> QED BY <1>3, <1>4, <2>1 DEF Exact
<1>7. SameRegions(win, vs)
  BY <1>4 DEF SameRegions
<1> QED BY <1>1, <1>3, <1>5, <1>6, <1>7

\* The plan covers what it covered when the regions stay.
LEMMA CoverStays ==
  ASSUME Tables, Cover(win), win' \in Seq(WindowType), Len(win') = Len(win),
         SameRegions(win, win'), UNCHANGED <<mode, arrived, end>>,
         phase # "sealed" \/ UNCHANGED <<next, phase>>
  PROVE  Cover(win)'
<1>1. PICK vs : vs = win'
  OBVIOUS
<1>2. /\ win \in Seq(WindowType) /\ Len(win) \in Nat /\ vs \in Seq(WindowType)
      /\ Len(vs) = Len(win)
  BY <1>1, LenProperties DEF Tables
<1>3. CASE end = None
  <2>1. Covered(win, arrived)
    BY <1>3 DEF Cover
  <2> QED BY <1>1, <1>2, <1>3, <2>1 DEF Cover, Covered, Finite, Plan
<1>4. CASE end # None
  <2>1. /\ win # <<>> /\ win[Len(win)].hi = end
        /\ IF Finite THEN end = Limit ELSE end = next /\ phase = "sealed"
    BY <1>4 DEF Cover
  <2>2. PICK m : m = Len(win)
    OBVIOUS
  <2>3. m \in Nat /\ m # 0 /\ m \in 1 .. m
    <3>1. m \in Nat /\ m # 0
      BY <1>2, <2>1, <2>2, LenProperties
    <3> QED BY <3>1
  <2>4. vs[m].hi = end
    BY <1>1, <2>1, <2>2, <2>3 DEF SameRegions
  <2>5. vs # <<>>
    BY <1>2, <2>2, <2>3, LenProperties
  <2> QED BY <1>1, <1>2, <1>4, <2>1, <2>2, <2>4, <2>5 DEF Cover, Finite
<1> QED BY <1>3, <1>4

\* An input that lands is held no more.
LEMMA LandReads ==
  ASSUME Scalars, Tables, ReadInv, NEW k \in DOMAIN win, Land(k)
  PROVE  Fit(win', closed, end, arrived, got, freed') /\ Exact(win', got, freed')
<1>1. PICK w, vs, now : w = win[k] /\ vs = win' /\ now = freed'
  OBVIOUS
<1>2. /\ win \in Seq(WindowType) /\ DOMAIN win = 1 .. Len(win)
      /\ k \in 1 .. Len(win)
  BY LenProperties DEF Tables
<1>3. w \in WindowType /\ w.stage = "queued"
  BY <1>1, <1>2, WindowFields DEF Land
<1> DEFINE v == [w EXCEPT !.stage = "landed"]
<1>4. /\ v \in WindowType /\ v.lo = w.lo /\ v.hi = w.hi /\ v.bhi = w.bhi /\ v.rhi = w.rhi
      /\ v.job = w.job /\ v.stage = "landed" /\ v.says = w.says
  BY <1>3 DEF WindowType
<1>5. vs = [win EXCEPT ![k] = v]
  BY <1>1, <1>2 DEF Land, Settle
<1>6. now = freed \cup Released(vs, got)
  BY <1>1 DEF Land, Settle
<1> HIDE DEF v
<1>7. Edited(win, vs, k, v)
  BY <1>2, <1>4, <1>5, EditOne
<1>8. Len(vs) = Len(win) /\ vs \in Seq(WindowType) /\ DOMAIN vs = 1 .. Len(vs)
  BY <1>7, LenProperties DEF Edited
<1>9. ASSUME NEW j \in 1 .. Len(win)
      PROVE  Retains(vs[j], closed, end, arrived, got, freed) /\ Contributes(vs[j])
  <2>1. Retains(win[j], closed, end, arrived, got, freed) /\ Contributes(win[j])
    BY DEF ReadInv, Fit
  <2>2. CASE j = k
    <3>1. vs[j] = v /\ Hold(v) \subseteq Hold(w)
      BY <1>4, <1>7, <2>2 DEF Edited, Hold
    <3>2. v.stage = "open" <=> w.stage = "open"
      BY <1>3, <1>4
    <3>3. Retains(w, closed, end, arrived, got, freed) /\ Contributes(w)
      BY <1>1, <2>1, <2>2
    <3>4. Retains(v, closed, end, arrived, got, freed)
      BY <1>4, <3>1, <3>2, <3>3, RetainsMoved
    <3>5. Contributes(v)
      BY <1>3, <1>4, <3>3 DEF Contributes, Committed
    <3> QED BY <3>1, <3>4, <3>5
  <2>3. CASE j # k
    <3>1. vs[j] = win[j]
      BY <1>7, <2>3 DEF Edited
    <3> QED BY <2>1, <3>1
  <2> QED BY <2>2, <2>3
<1>10. Fit(vs, closed, end, arrived, got, freed)
  BY <1>8, <1>9 DEF Fit
<1>11. freed \subseteq got
  BY DEF ReadInv, Exact
<1>12. Fit(vs, closed, end, arrived, got, now) /\ Exact(vs, got, now)
  BY <1>6, <1>8, <1>10, <1>11, SettleFit
<1> QED BY <1>1, <1>12

\* A boundary that comes in.
LEMMA ReceiveReads ==
  ASSUME Scalars, BoundaryInv, ReadInv, NEW k \in DOMAIN win, Receive(k)
  PROVE  Fit(win', closed, end, arrived, got, freed') /\ Exact(win', got, freed')
<1>1. PICK w, source, us, vs, now :
        /\ w = win[k + 1] /\ source = win[k] /\ vs = win' /\ now = freed'
        /\ us = [win EXCEPT ![k + 1].deps = 0, ![k + 1].inb = win[k].out]
  OBVIOUS
<1>2. /\ win \in Seq(WindowType) /\ DOMAIN win = 1 .. Len(win)
      /\ k \in 1 .. Len(win) /\ k + 1 \in 1 .. Len(win)
  <2>1. win \in Seq(WindowType) /\ DOMAIN win = 1 .. Len(win)
    BY LenProperties DEF BoundaryInv, Tables
  <2> QED BY <2>1 DEF Receive, BoundaryInv, Chain
<1>3. w \in WindowType /\ source \in WindowType
  BY <1>1, <1>2, WindowFields
<1> DEFINE v == [w EXCEPT !.deps = 0, !.inb = source.out]
<1>4. /\ v \in WindowType /\ v.lo = w.lo /\ v.hi = w.hi /\ v.bhi = w.bhi /\ v.rhi = w.rhi
      /\ v.job = w.job /\ v.stage = w.stage /\ v.says = w.says
  BY <1>3 DEF WindowType
<1>5. us = [win EXCEPT ![k + 1] = v]
  BY <1>1, <1>2
<1>6. /\ vs = Check(us, arrived, closed, end, got \ freed)
      /\ now = freed \cup Released(vs, got)
  BY <1>1 DEF Receive, Settle
<1> HIDE DEF v
<1>7. Edited(win, us, k + 1, v)
  BY <1>2, <1>4, <1>5, EditOne
<1>8. Len(us) = Len(win) /\ us \in Seq(WindowType)
  BY <1>7 DEF Edited
<1>9. ASSUME NEW j \in 1 .. Len(win)
      PROVE  Retains(us[j], closed, end, arrived, got, freed) /\ Contributes(us[j])
  <2>1. Retains(win[j], closed, end, arrived, got, freed) /\ Contributes(win[j])
    BY DEF ReadInv, Fit
  <2>2. CASE j = k + 1
    <3>1. us[j] = v /\ Hold(v) \subseteq Hold(w)
      BY <1>4, <1>7, <2>2 DEF Edited, Hold
    <3>2. Retains(w, closed, end, arrived, got, freed) /\ Contributes(w)
      BY <1>1, <2>1, <2>2
    <3>3. Retains(v, closed, end, arrived, got, freed)
      BY <1>4, <3>1, <3>2, RetainsMoved
    <3>4. Contributes(v)
      BY <1>4, <3>2 DEF Contributes, Committed
    <3> QED BY <3>1, <3>3, <3>4
  <2>3. CASE j # k + 1
    <3>1. us[j] = win[j]
      BY <1>7, <2>3 DEF Edited
    <3> QED BY <2>1, <3>1
  <2> QED BY <2>2, <2>3
<1>10. Fit(us, closed, end, arrived, got, freed)
  BY <1>8, <1>9 DEF Fit
<1>11. /\ freed \subseteq got /\ got \subseteq Nat /\ closed \subseteq Nat /\ end \in Nat
       /\ arrived \in Nat
  BY DEF ReadInv, Exact, Scalars
<1>12. Fit(vs, closed, end, arrived, got, now) /\ Exact(vs, got, now)
  BY <1>6, <1>8, <1>10, <1>11, CheckSettle
<1> QED BY <1>1, <1>12

\* The invariant after a step, read in the state before it.
LEMMA ReadPrimed ==
  ASSUME mode' = mode, Fit(win', closed', end', arrived', got', freed'),
         Exact(win', got', freed'), Cover(win)'
  PROVE  ReadInv'
<1>1. Fit(win, closed, end, arrived, got, freed)'
  BY DEF Fit, Retains, ReadsTo, Effective, Finite, Hold, Contributes, Committed
<1>2. Exact(win, got, freed)'
  BY DEF Exact, Hold
<1> QED BY <1>1, <1>2 DEF ReadInv

\* Steps that plan nothing and move no window.
LEMMA ReadUnchanged ==
  ASSUME Tables, ReadInv, UNCHANGED <<mode, win, freed, got, arrived, closed, end>>,
         phase # "sealed" \/ UNCHANGED <<next, phase>>
  PROVE  ReadInv'
<1>1. Cover(win)'
  <2>1. SameRegions(win, win') /\ win' \in Seq(WindowType) /\ Len(win') = Len(win)
    BY DEF SameRegions, Tables
  <2>2. Cover(win)
    BY DEF ReadInv
  <2> QED BY <2>1, <2>2, CoverStays
<1>2. Fit(win', closed', end', arrived', got', freed') /\ Exact(win', got', freed')
  BY DEF ReadInv
<1> QED BY <1>1, <1>2, ReadPrimed

\* A body that ends, with its boundary closed behind the rounds that have arrived.
LEMMA ReadBody ==
  ASSUME OneFile, Scalars, Rounds, Tables, QueueInv, ReadInv, mode' = mode,
         win' \in Seq(WindowType), BodyRound \/ ProtectedBodyEnds
  PROVE  ReadInv'
<1>1. phase = "running" /\ UNCHANGED <<got, arrived, end>>
  BY DEF BodyRound, ProtectedBodyEnds, lateVars, roundVars
<1>2. CASE UNCHANGED <<closed, win, freed>>
  BY <1>1, <1>2, ReadUnchanged
<1>3. CASE ~ UNCHANGED <<closed, win, freed>>
  <2>1. PICK b : b = segEnd[Begun]
    OBVIOUS
  <2>2. mode.feedback = "measurement_closed" /\ CloseBoundary(b)
    BY <1>3, <2>1 DEF BodyRound, ProtectedBodyEnds, BodyEnds
  <2>3. phase # "sealed"
    BY <1>1
  <2>5. Begun > 0
    BY <1>1 DEF Rounds
  <2>6. b \in Nat /\ arrived <= b
    <3>1. b \in Nat /\ arrived \in Nat /\ next \in Nat /\ at \in Nat
      BY <2>1, <2>5, QueueFacts
    <3>2. CASE mode.kind # "protected"
      <4>1. Begun = 1
        BY <2>5, <3>2, QueueFacts
      <4>2. b = Body[mode.kind][1] /\ at < Body[mode.kind][1]
        BY <1>1, <2>1, <2>5, <3>2, <4>1 DEF QueueInv, Reserved, Rounds
      <4>3. arrived <= at
        BY <1>1, <3>2 DEF QueueInv, Queue, InOrder, Out
      <4> QED BY <3>1, <4>2, <4>3
    <3>3. CASE mode.kind = "protected"
      <4>1. next = Quota
        BY <1>1, <3>3 DEF BodyRound, ProtectedBodyEnds, Quota
      <4>2. Quota \in Nat /\ Quota <= b
        BY <2>1, <2>5, QueueFacts
      <4>3. arrived <= next
        BY DEF Rounds
      <4> QED BY <3>1, <4>1, <4>2, <4>3
    <3> QED BY <3>2, <3>3
  <2>7. Fit(win', closed', end', arrived', got', freed') /\ Exact(win', got', freed')
    <3>1. Fit(win', closed', end, arrived, got, freed') /\ Exact(win', got, freed')
      BY <2>2, <2>6, CloseFit DEF QueueInv
    <3> QED BY <1>1, <3>1
  <2>8. Cover(win)'
    <3>1. PICK g, vs : /\ Grown(win, g, b, None, end) /\ KeptRow(g, vs)
                       /\ SameRegions(g, vs) /\ vs = win'
      BY <2>2, <2>6, CloseFacts
    <3>2. PICK m, n : m = Len(win) /\ n = Len(vs)
      OBVIOUS
    <3>3. m \in Nat /\ n \in Nat /\ m <= n /\ n = Len(g)
      BY <3>1, <3>2, LenProperties DEF Tables, Grown, KeptRow
    <3>4. CASE end = None /\ Finite
      <4>1. \A k \in DOMAIN Plan : Plan[k].lo <= arrived => k <= m
        BY <3>2, <3>4 DEF ReadInv, Cover, Covered
      <4>2. DOMAIN Plan \subseteq Nat
        BY PlanRow DEF RowOf
      <4>3. \A k \in DOMAIN Plan : Plan[k].lo <= arrived => k <= n
        BY <3>3, <4>1, <4>2
      <4> QED BY <1>1, <3>1, <3>2, <3>4, <4>3 DEF Cover, Covered, Finite, Plan
    <3>5. CASE end = None /\ ~ Finite
      <4>1. PICK y, z : y = m * F /\ z = n * F
        OBVIOUS
      <4>2. y <= z /\ y \in Int /\ z \in Int
        BY <3>3, <4>1, TimesMonotone, StreamAssumption
      <4>3. arrived <= y
        BY <3>2, <3>5, <4>1 DEF ReadInv, Cover, Covered
      <4>4. arrived <= z
        BY <4>2, <4>3 DEF Scalars
      <4> QED BY <1>1, <3>1, <3>2, <3>5, <4>1, <4>4 DEF Cover, Covered, Finite
    <3>6. CASE end # None
      <4>1. n = m
        <5>1. \A k \in 1 .. n : k <= m
          BY <3>1, <3>2, <3>3, <3>6 DEF Grown
        <5> QED BY <3>3, <5>1
      <4>2. SameRegions(win, vs)
        BY <3>1, <3>2, <3>3, <4>1 DEF Grown, SameRegions
      <4> QED BY <1>1, <2>3, <3>1, <3>2, <4>1, <4>2, CoverStays DEF ReadInv
    <3> QED BY <3>4, <3>5, <3>6
  <2> QED BY <2>7, <2>8, ReadPrimed
<1> QED BY <1>2, <1>3

\* Every step.
LEMMA ReadStep ==
  ASSUME OneFile, Scalars, Rounds, BoundaryInv, ReleaseInv, QueueInv, ReadInv, [Next]_vars,
         mode' = mode, Tables', ReleaseInv'
  PROVE  ReadInv'
<1>1. Tables /\ OnPlan(win) /\ OnPlan(win)' /\ win' \in Seq(WindowType) /\ Cover(win)
  BY DEF BoundaryInv, ReleaseInv, Tables, ReadInv
<1>2. CASE Begin \/ Start \/ IdleRound \/ ProtectedRound
  <2>1. phase # "sealed"
    BY <1>2 DEF Rounds, Begin, Start, IdleRound, ProtectedRound
  <2>2. UNCHANGED <<win, freed, got, arrived, closed, end>>
    BY <1>2 DEF Begin, Start, IdleRound, ProtectedRound, roundVars, planVars
  <2> QED BY <1>1, <2>1, <2>2, ReadUnchanged
<1>3. CASE Drop \/ SinkWeak \/ UNCHANGED vars
  <2>1. UNCHANGED <<win, freed, got, arrived, closed, end, next, phase>>
    BY <1>3 DEF Drop, SinkWeak, vars, roundVars, planVars, qpuVars
  <2> QED BY <1>1, <2>1, ReadUnchanged
<1>4. CASE BodyRound \/ ProtectedBodyEnds
  BY <1>1, <1>4, ReadBody
<1>5. CASE Seal
  <2>1. UNCHANGED <<arrived, got, next>> /\ end' = next /\ phase' = "sealed" /\ next # None
    BY <1>1, <1>5, SealedStream DEF Seal, roundVars, None
  <2>2. /\ Fit(win', closed', end', arrived', got', freed') /\ Exact(win', got', freed')
        /\ win' # <<>> /\ win'[Len(win')].hi = next
    BY <1>1, <1>5, <2>1, SealFit
  <2>3. ~ Finite
    BY <1>1, <1>5, SealedStream
  <2>4. Cover(win)'
    BY <2>1, <2>2, <2>3 DEF Cover, Finite, None
  <2> QED BY <2>2, <2>4, ReadPrimed
<1>6. CASE Arrive
  <2>1. Cover(win)'
    BY <1>1, <1>6, ArriveCover
  <2>2. arrived < arrived' /\ arrived' = Head(transit)
    BY <1>6, QueueTransit
  <2>3. Finite => end \in {None, Limit} /\ closed \subseteq Nat
    BY DEF ReadInv, Cover, Scalars
  <2>4. Fit(win', closed', end', arrived', got', freed') /\ Exact(win', got', freed')
    BY <1>1, <1>6, <2>2, <2>3, ArriveFit DEF QueueInv
  <2> QED BY <2>1, <2>4, ReadPrimed
<1>7. CASE Install \/ \E k \in DOMAIN win : DecodeFinal(k) \/ DecodeEscalated(k) \/ SinkStrong(k)
  <2>1. OneOnward(win, win')
    BY <1>1, <1>7, InstalledOnward, DecodedOnward
  <2>2. UNCHANGED <<closed, end, got, arrived, freed, next, phase>>
    BY <1>7 DEF Install, DecodeFinal, DecodeEscalated, SinkStrong, qpuVars, roundVars, planVars
  <2>3. /\ Fit(win', closed', end', arrived', got', freed') /\ Exact(win', got', freed')
        /\ Len(win') = Len(win) /\ SameRegions(win, win')
    BY <1>1, <2>1, <2>2, OnwardReads
  <2>4. Cover(win)'
    BY <1>1, <2>2, <2>3, CoverStays
  <2> QED BY <2>3, <2>4, ReadPrimed
<1>8. CASE \E k \in DOMAIN win : Land(k) \/ Receive(k)
  <2>1. UNCHANGED <<closed, end, got, arrived, next, phase>>
    BY <1>8 DEF Land, Receive, qpuVars, roundVars, planVars
  <2>2. Fit(win', closed, end, arrived, got, freed') /\ Exact(win', got, freed')
    BY <1>1, <1>8, LandReads, ReceiveReads
  <2>3. Fit(win', closed', end', arrived', got', freed') /\ Exact(win', got', freed')
    BY <2>1, <2>2
  <2>4. Len(win') = Len(win) /\ SameRegions(win, win')
    BY <1>8, WindowStepRow DEF Decoding
  <2>5. Cover(win)'
    BY <1>1, <2>1, <2>4, CoverStays
  <2> QED BY <2>3, <2>5, ReadPrimed
<1>9. Next \/ UNCHANGED vars
  OBVIOUS
<1> QED
  BY <1>2, <1>3, <1>4, <1>5, <1>6, <1>7, <1>8, <1>9 DEF Next, Work, Emission, Decoding

-----------------------------------------------------------------------------
(* The committed prefix *)

\* The first k windows are committed.
AllCommitted(ws, k) == \A i \in 1 .. k : Committed(ws[i])

\* The ledger answers up to p: to the end of the last window of the front.
Reached(ws, p) ==
  /\ p \in Nat
  /\ p = 0 \/ \E k \in 1 .. Len(ws) : AllCommitted(ws, k) /\ p = ws[k].hi
  /\ \A k \in 1 .. Len(ws) : AllCommitted(ws, k) => ws[k].hi <= p

\* The round r of a committed front lies in one of its windows.
LEMMA FrontCovers ==
  ASSUME NEW ws \in Seq(WindowType), Tiled(ws), NEW k \in 1 .. Len(ws),
         NEW r \in 1 .. ws[k].hi
  PROVE  \E i \in 1 .. k : ws[i].lo <= r /\ r <= ws[i].hi
<1>1. PICK m : m = Len(ws)
  OBVIOUS
<1>2. /\ m \in Nat /\ k \in 1 .. m /\ k \in Nat
      /\ \A i \in 1 .. m : ws[i].lo \in Nat /\ ws[i].hi \in Nat
  BY <1>1, LenProperties, WindowFields
<1>3. r \in Nat /\ r >= 1 /\ r <= ws[k].hi
  BY <1>2
<1> DEFINE S == {i \in 1 .. k : r <= ws[i].hi}
<1>4. S \subseteq Nat /\ S # {}
  <2>1. k \in 1 .. k
    BY <1>2
  <2> QED BY <1>3, <2>1
<1>5. PICK i \in S : \A j \in S : i <= j
  BY <1>4, LeastOfNat
<1>6. i \in 1 .. k /\ i \in 1 .. m /\ r <= ws[i].hi
  BY <1>2, <1>5
<1>7. ws[i].lo <= r
  <2>1. CASE i = 1
    BY <1>1, <1>3, <1>6, <2>1 DEF Tiled
  <2>2. CASE i # 1
    <3>1. i - 1 \in 1 .. k /\ i - 1 \in 1 .. m /\ ~(i <= i - 1)
      BY <1>2, <1>6, <2>2
    <3>2. ~(r <= ws[i - 1].hi)
      BY <1>5, <3>1
    <3>3. ws[i].lo = ws[i - 1].hi + 1
      BY <1>1, <1>6, <2>2 DEF Tiled
    <3>4. PICK h : h = ws[i - 1].hi
      OBVIOUS
    <3>5. h \in Nat
      BY <1>2, <3>1, <3>4
    <3> QED BY <1>3, <3>2, <3>3, <3>4, <3>5
  <2> QED BY <2>1, <2>2
<1> QED BY <1>6, <1>7

\* The committed prefix is the end of the committed front.
LEMMA PrefixReaches ==
  ASSUME NEW ws \in Seq(WindowType), Tiled(ws), NEW limit \in Nat,
         \A k \in 1 .. Len(ws) : Committed(ws[k]) => ws[k].hi <= limit,
         NEW upto, upto = Prefix(Regions(ws), limit)
  PROVE  Reached(ws, upto)
<1> DEFINE T == {n \in 0 .. limit : \A r \in 1 .. n :
                   \E h \in Regions(ws) : h.lo <= r /\ r <= h.hi}
<1>1. /\ Len(ws) \in Nat /\ DOMAIN ws = 1 .. Len(ws)
      /\ \A k \in 1 .. Len(ws) : ws[k].lo \in Nat /\ ws[k].hi \in Nat
  BY LenProperties, WindowFields
<1>2. /\ \A i, j \in 1 .. Len(ws) : i < j => ws[i].hi < ws[j].lo
      /\ \A k \in 1 .. Len(ws) : ws[k].lo >= 1 /\ ws[k].lo <= ws[k].hi
  BY RowOrder DEF Tiled
<1>3. T \subseteq 0 .. limit /\ 0 \in T /\ upto = Max(T)
  BY DEF Prefix
<1>4. upto \in T /\ \A y \in T : upto >= y
  <2> HIDE DEF T
  <2>1. T # {}
    BY <1>3
  <2> QED BY <1>3, <2>1, MaxOfBounded
<1>5. /\ upto \in Nat
      /\ \A r \in 1 .. upto : \E k \in 1 .. Len(ws) :
           Committed(ws[k]) /\ ws[k].lo <= r /\ r <= ws[k].hi
  <2>1. upto \in Nat /\ \A r \in 1 .. upto : \E h \in Regions(ws) : h.lo <= r /\ r <= h.hi
    BY <1>4
  <2>2. ASSUME NEW r \in 1 .. upto
        PROVE  \E k \in 1 .. Len(ws) : Committed(ws[k]) /\ ws[k].lo <= r /\ r <= ws[k].hi
    <3>1. PICK h \in Regions(ws) : h.lo <= r /\ r <= h.hi
      BY <2>1, <2>2
    <3>2. PICK k \in 1 .. Len(ws) : Committed(ws[k]) /\ h = [lo |-> ws[k].lo, hi |-> ws[k].hi]
      BY <1>1 DEF Regions
    <3> QED BY <3>1, <3>2
  <2> QED BY <2>1, <2>2
<1>6. ASSUME NEW k \in 1 .. Len(ws), AllCommitted(ws, k)
      PROVE  ws[k].hi <= upto
  <2>1. k \in 1 .. k /\ k \in Nat /\ ws[k].hi \in Nat
    BY <1>1
  <2>2. ws[k].hi <= limit
    BY <1>6, <2>1 DEF AllCommitted
  <2>3. ASSUME NEW r \in 1 .. ws[k].hi
        PROVE  \E h \in Regions(ws) : h.lo <= r /\ r <= h.hi
    <3>1. PICK i \in 1 .. k : ws[i].lo <= r /\ r <= ws[i].hi
      BY FrontCovers
    <3>2. i \in 1 .. Len(ws) /\ Committed(ws[i])
      BY <1>1, <1>6, <2>1 DEF AllCommitted
    <3>3. [lo |-> ws[i].lo, hi |-> ws[i].hi] \in Regions(ws)
      BY <1>1, <3>2 DEF Regions
    <3> QED BY <3>1, <3>3
  <2>4. ws[k].hi \in T
    BY <2>1, <2>2, <2>3
  <2> HIDE DEF T
  <2> QED BY <1>4, <1>5, <2>1, <2>4
<1> HIDE DEF T
<1>7. upto # 0 => \E k \in 1 .. Len(ws) : AllCommitted(ws, k) /\ upto = ws[k].hi
  <2> HAVE upto # 0
  <2>1. upto \in 1 .. upto
    BY <1>5
  <2>2. PICK j \in 1 .. Len(ws) : Committed(ws[j]) /\ ws[j].lo <= upto /\ upto <= ws[j].hi
    BY <1>5, <2>1
  <2>3. ASSUME NEW i \in 1 .. j PROVE Committed(ws[i])
    <3>1. CASE i = j
      BY <2>2, <3>1
    <3>2. CASE i # j
      <4>1. i \in 1 .. Len(ws) /\ i < j
        BY <1>1, <3>2
      <4>2. ws[i].hi < ws[j].lo
        BY <1>2, <4>1
      <4>3. PICK r, lo : r = ws[i].hi /\ lo = ws[j].lo
        OBVIOUS
      <4>4. r \in Nat /\ lo \in Nat /\ r < lo /\ lo <= upto /\ ws[i].lo <= r /\ ws[i].lo >= 1
            /\ ws[i].lo \in Nat
        BY <1>1, <1>2, <2>2, <4>1, <4>2, <4>3
      <4>5. r \in 1 .. upto
        BY <1>5, <4>4
      <4>6. PICK m \in 1 .. Len(ws) : Committed(ws[m]) /\ ws[m].lo <= r /\ r <= ws[m].hi
        BY <1>5, <4>5
      <4>7. m = i
        <5>1. ~(i < m)
          <6>1. ws[m].lo \in Nat
            BY <1>1
          <6>2. ~(r < ws[m].lo)
            BY <4>4, <4>6, <6>1
          <6> QED BY <1>2, <4>1, <4>3, <6>2
        <5>2. ~(m < i)
          <6>1. ws[m].hi \in Nat
            BY <1>1
          <6>2. ~(ws[m].hi < ws[i].lo)
            BY <4>4, <4>6, <6>1
          <6> QED BY <1>2, <4>1, <6>2
        <5> QED BY <1>1, <4>1, <5>1, <5>2
      <4> QED BY <4>6, <4>7
    <3> QED BY <3>1, <3>2
  <2>4. AllCommitted(ws, j)
    BY <2>3 DEF AllCommitted
  <2>5. ws[j].hi <= upto /\ ws[j].hi \in Nat
    BY <1>1, <1>6, <2>4
  <2>6. upto = ws[j].hi
    BY <1>5, <2>2, <2>5
  <2> QED BY <2>4, <2>6
<1> QED BY <1>5, <1>6, <1>7 DEF Reached

\* The same windows are committed, and others wait behind them.
SameCommitted(ws, vs) ==
  /\ Len(ws) <= Len(vs)
  /\ \A k \in 1 .. Len(ws) : /\ Committed(vs[k]) <=> Committed(ws[k])
                             /\ Committed(ws[k]) => vs[k].hi = ws[k].hi
  /\ \A k \in 1 .. Len(vs) : k > Len(ws) => ~ Committed(vs[k])

\* Then the ledger answers for no more.
LEMMA ReachedStays ==
  ASSUME NEW ws \in Seq(WindowType), NEW vs \in Seq(WindowType), SameCommitted(ws, vs),
         NEW p, Reached(ws, p)
  PROVE  Reached(vs, p)
<1>1. PICK m, n : m = Len(ws) /\ n = Len(vs)
  OBVIOUS
<1>2. m \in Nat /\ n \in Nat /\ m <= n
  BY <1>1, LenProperties DEF SameCommitted
<1>3. ASSUME NEW k \in 1 .. n, AllCommitted(vs, k)
      PROVE  k \in 1 .. m /\ AllCommitted(ws, k) /\ vs[k].hi = ws[k].hi
  <2>1. k \in 1 .. k /\ k \in Nat
    BY <1>2
  <2>2. k \in 1 .. m
    BY <1>1, <1>2, <1>3, <2>1 DEF AllCommitted, SameCommitted
  <2>3. \A i \in 1 .. k : i \in 1 .. m
    BY <1>2, <2>2
  <2> QED BY <1>1, <1>3, <2>1, <2>2, <2>3 DEF AllCommitted, SameCommitted
<1>4. ASSUME NEW k \in 1 .. m, AllCommitted(ws, k)
      PROVE  k \in 1 .. n /\ AllCommitted(vs, k) /\ vs[k].hi = ws[k].hi
  <2>1. k \in 1 .. k /\ k \in Nat /\ k \in 1 .. n /\ \A i \in 1 .. k : i \in 1 .. m
    BY <1>2
  <2> QED BY <1>1, <1>4, <2>1 DEF AllCommitted, SameCommitted
<1> QED BY <1>1, <1>3, <1>4 DEF Reached

\* When more windows are committed, it answers for as much at least.
LEMMA ReachedMore ==
  ASSUME NEW ws, NEW vs, Len(vs) = Len(ws), SameRegions(ws, vs),
         \A k \in 1 .. Len(ws) : Committed(ws[k]) => Committed(vs[k]),
         Len(ws) \in Nat, NEW p, Reached(ws, p), NEW q, Reached(vs, q)
  PROVE  Reached(vs, Most(p, q))
<1>1. p \in Nat /\ q \in Nat
  BY DEF Reached
<1>2. p <= q
  <2>1. CASE p = 0
    BY <1>1, <2>1
  <2>2. CASE p # 0
    <3>1. PICK k \in 1 .. Len(ws) : AllCommitted(ws, k) /\ p = ws[k].hi
      BY <2>2 DEF Reached
    <3>2. \A i \in 1 .. k : i \in 1 .. Len(ws)
      OBVIOUS
    <3>3. AllCommitted(vs, k) /\ vs[k].hi = p
      BY <3>1, <3>2 DEF AllCommitted, SameRegions
    <3> QED BY <3>3 DEF Reached
  <2> QED BY <2>1, <2>2
<1>3. Most(p, q) = q
  BY <1>1, <1>2 DEF Most
<1> QED BY <1>3

\* What has been submitted has arrived.
LEMMA SubmittedArrived ==
  ASSUME NEW ws \in Seq(WindowType), NEW shut, shut \subseteq Nat, NEW n \in Nat,
         NEW count \in Nat, NEW taken, NEW gone, Fit(ws, shut, n, count, taken, gone),
         NEW k \in 1 .. Len(ws), ws[k].stage # "open"
  PROVE  ws[k].hi <= count
<1>1. PICK w, r : w = ws[k] /\ r = ReadsTo(ws[k], shut, n)
  OBVIOUS
<1>2. w \in WindowType /\ w.hi \in Nat /\ w.bhi \in Nat
  BY <1>1, WindowFields
<1>3. r \in Nat
  BY <1>1, <1>2, ReadsIs DEF Stops
<1>4. w.hi <= r /\ r <= count
  BY <1>1 DEF Fit, Retains
<1> QED BY <1>1, <1>2, <1>3, <1>4

\* Planning commits nothing.
LEMMA PlannedCommitted ==
  ASSUME Tables, NEW g, NEW known, NEW cap, NEW n, Grown(win, g, known, cap, n),
         NEW vs, KeptRow(g, vs),
         \A k \in 1 .. Len(g) : vs[k].hi = g[k].hi \/ g[k].stage = "open"
  PROVE  SameCommitted(win, vs)
<1>1. PICK m, q : m = Len(win) /\ q = Len(g)
  OBVIOUS
<1>2. m \in Nat /\ q \in Nat /\ m <= q /\ Len(vs) = q
  BY <1>1, LenProperties DEF Tables, Grown, KeptRow
<1>3. ASSUME NEW k \in 1 .. m
      PROVE  /\ Committed(vs[k]) <=> Committed(win[k])
             /\ Committed(win[k]) => vs[k].hi = win[k].hi
  <2>1. k \in 1 .. q
    BY <1>2
  <2>2. g[k] = win[k] /\ Kept(g[k], vs[k]) /\ (vs[k].hi = g[k].hi \/ g[k].stage = "open")
    BY <1>1, <2>1 DEF Grown, KeptRow
  <2> QED BY <2>2 DEF Kept, Committed, Undecided
<1>4. ASSUME NEW k \in 1 .. q, k > m PROVE ~ Committed(vs[k])
  <2>1. g[k].stage = "open"
    BY <1>1, <1>4 DEF Grown, Fresh
  <2>2. Kept(g[k], vs[k])
    BY <1>1 DEF KeptRow
  <2> QED BY <2>1, <2>2 DEF Kept, Committed, Undecided
<1> QED BY <1>1, <1>2, <1>3, <1>4 DEF SameCommitted

\* The tail that is clipped is still waiting.
LEMMA SealKeeps ==
  ASSUME Scalars, Rounds, Tables, OnPlan(win), Seal,
         NEW g, Grown(win, g, next, next, end)
  PROVE  g[Min(TailOf(g))].stage = "open"
<1>1. PICK h : h = Grow(win, next, next, closed, end)
  OBVIOUS
<1>2. Grown(win, h, next, next, end)
  BY <1>1, GrowFacts DEF Scalars, Tables
<1>3. PICK m : m = CeilDiv(next, F)
  OBVIOUS
<1>4. Len(h) = m /\ m >= 1 /\ Min(TailOf(h)) = m
  BY <1>2, <1>3, SealedRow
<1>5. Len(g) = m /\ Min(TailOf(g)) = m
  BY <1>3, SealedRow
<1>6. h[m].stage = "open"
  BY <1>1, <1>4 DEF Seal
<1>7. m \in Nat /\ Len(win) \in Nat
  BY <1>2, <1>4, LenProperties DEF Grown, Tables
<1>8. m \in 1 .. m /\ (m <= Len(win) \/ m > Len(win))
  BY <1>4, <1>7
<1>9. CASE m <= Len(win)
  <2>1. m \in 1 .. Len(win)
    BY <1>7, <1>8, <1>9
  <2>2. g[m] = win[m] /\ h[m] = win[m]
    BY <1>2, <2>1 DEF Grown
  <2> QED BY <1>5, <1>6, <2>2
<1>10. CASE m > Len(win)
  BY <1>5, <1>8, <1>10 DEF Grown, Fresh
<1> QED BY <1>8, <1>9, <1>10

\* A result on its way to the frame commits nothing, nor does an input or a
\* boundary.
LEMMA MovedCommitted ==
  ASSUME Scalars, BoundaryInv, Tables', NEW k \in DOMAIN win,
         Land(k) \/ DecodeFinal(k) \/ SinkStrong(k) \/ Receive(k)
  PROVE  SameCommitted(win, win')
<1>1. /\ win \in Seq(WindowType) /\ Len(win) \in Nat /\ DOMAIN win = 1 .. Len(win)
      /\ k \in 1 .. Len(win) /\ \A j \in 1 .. Len(win) : win[j] \in WindowType
  BY LenProperties, WindowFields DEF BoundaryInv, Tables
<1>2. Len(win') = Len(win) /\ SameRegions(win, win')
  BY WindowStepRow DEF Decoding
<1>3. ASSUME NEW j \in 1 .. Len(win) PROVE Committed(win'[j]) <=> Committed(win[j])
  <2>1. CASE Land(k)
    <3>1. KeptRow(win, win')
      BY <2>1, LandKept DEF BoundaryInv
    <3> QED BY <3>1 DEF KeptRow, Kept, Committed, Undecided
  <2>2. CASE DecodeFinal(k)
    <3>1. win' = [win EXCEPT ![k] = [win[k] EXCEPT !.out = "weak", !.stage = "sinking"]]
          /\ win[k].stage = "landed"
      BY <1>1, <2>2 DEF DecodeFinal, Ship
    <3>2. win'[k].stage = "sinking"
      BY <1>1, <3>1 DEF WindowType
    <3>3. j # k => win'[j] = win[j]
      BY <1>1, <3>1
    <3> QED BY <3>1, <3>2, <3>3 DEF Committed
  <2>3. CASE SinkStrong(k)
    <3>1. win' = [win EXCEPT ![k] = [win[k] EXCEPT !.stage = "resolving"]]
          /\ win[k].stage = "asked"
      BY <1>1, <2>3 DEF SinkStrong
    <3>2. win'[k].stage = "resolving"
      BY <1>1, <3>1 DEF WindowType
    <3>3. j # k => win'[j] = win[j]
      BY <1>1, <3>1
    <3> QED BY <3>1, <3>2, <3>3 DEF Committed
  <2>4. CASE Receive(k)
    <3>1. PICK w, source, us :
            /\ w = win[k + 1] /\ source = win[k]
            /\ us = [win EXCEPT ![k + 1].deps = 0, ![k + 1].inb = win[k].out]
      OBVIOUS
    <3>2. k + 1 \in 1 .. Len(win)
      BY <2>4 DEF Receive, BoundaryInv, Chain
    <3>3. w \in WindowType /\ source \in WindowType
      BY <1>1, <3>1, <3>2
    <3> DEFINE v == [w EXCEPT !.deps = 0, !.inb = source.out]
    <3>4. v \in WindowType /\ v.stage = w.stage
      BY <3>3 DEF WindowType
    <3>5. us = [win EXCEPT ![k + 1] = v]
      BY <1>1, <3>1, <3>2
    <3> HIDE DEF v
    <3>6. Edited(win, us, k + 1, v)
      BY <1>1, <3>2, <3>4, <3>5, EditOne
    <3>7. win' = Check(us, arrived, closed, end, got \ freed) /\ got \ freed \subseteq Nat
      BY <2>4, <3>1 DEF Receive, Settle, Scalars
    <3>8. KeptRow(us, win')
      BY <3>6, <3>7, CheckFacts DEF Edited
    <3>9. us[j].stage = win[j].stage
      BY <3>1, <3>4, <3>6 DEF Edited
    <3>10. Kept(us[j], win'[j])
      BY <3>6, <3>8 DEF KeptRow, Edited
    <3> QED BY <3>9, <3>10 DEF Kept, Committed, Undecided
  <2> QED BY <2>1, <2>2, <2>3, <2>4
<1>4. \A j \in 1 .. Len(win) : win'[j].hi = win[j].hi
  BY <1>2 DEF SameRegions
<1>5. \A j \in 1 .. Len(win') : ~(j > Len(win))
  BY <1>1, <1>2
<1> QED BY <1>1, <1>2, <1>3, <1>4, <1>5 DEF SameCommitted

\* A commit brings the ledger to the end of the committed front.
LEMMA CommitReaches ==
  ASSUME Scalars, Rounds, BoundaryInv, ReadInv, Reached(win, prefix),
         UNCHANGED <<mode, closed, end, got, arrived, freed, next>>,
         OneOnward(win, win'), Tiled(win'), win' \in Seq(WindowType),
         NEW strong, AfterCommit(win', strong)
  PROVE  Reached(win', prefix')
<1>1. PICK vs, upto, limit, p : /\ vs = win' /\ limit = Most(next, Limit)
                                /\ upto = Prefix(Regions(win'), limit) /\ p = prefix
  OBVIOUS
<1>2. /\ limit \in Nat /\ next <= limit /\ next \in Nat /\ arrived \in Nat /\ arrived <= next
      /\ closed \subseteq Nat /\ end \in Nat
  <2>1. next \in Nat /\ arrived \in Nat /\ arrived <= next /\ closed \subseteq Nat /\ end \in Nat
    BY DEF Scalars, Rounds
  <2> QED BY <1>1, <2>1, StreamAssumption DEF Most
<1>3. /\ Fit(vs, closed, end, arrived, got, freed) /\ Len(vs) = Len(win)
      /\ SameRegions(win, vs)
  BY <1>1, OnwardReads DEF BoundaryInv
<1>4. vs \in Seq(WindowType) /\ Tiled(vs) /\ Len(win) \in Nat
  BY <1>1, LenProperties DEF BoundaryInv, Tables
<1>5. ASSUME NEW k \in 1 .. Len(vs), Committed(vs[k])
      PROVE  vs[k].hi <= limit
  <2>1. vs[k].stage # "open"
    BY <1>5 DEF Committed
  <2>2. vs[k].hi <= arrived /\ vs[k].hi \in Nat
    BY <1>2, <1>3, <1>4, <2>1, SubmittedArrived, WindowFields
  <2> QED BY <1>2, <2>2
<1>6. Reached(vs, upto)
  BY <1>1, <1>2, <1>4, <1>5, PrefixReaches
<1>7. \A k \in 1 .. Len(win) : Committed(win[k]) => Committed(vs[k])
  BY <1>1 DEF OneOnward, Onward, Edited
<1>8. Reached(vs, Most(p, upto))
  BY <1>1, <1>3, <1>4, <1>6, <1>7, ReachedMore
<1>9. prefix' = Most(p, upto)
  BY <1>1 DEF AfterCommit
<1> QED BY <1>1, <1>8, <1>9

\* Every step.
LEMMA LedgerStep ==
  ASSUME OneFile, Scalars, Rounds, BoundaryInv, ReleaseInv, QueueInv, ReadInv, [Next]_vars,
         Reached(win, prefix), Tables', ReleaseInv'
  PROVE  Reached(win, prefix)'
<1>1. /\ Tables /\ win \in Seq(WindowType) /\ win' \in Seq(WindowType) /\ Len(win) \in Nat
      /\ OnPlan(win)
  BY LenProperties DEF BoundaryInv, Tables, ReleaseInv
<1>2. PICK vs, p : vs = win' /\ p = prefix'
  OBVIOUS
<1>3. SUFFICES Reached(vs, p)
  BY <1>2 DEF Reached, AllCommitted, Committed
<1>4. CASE prefix' = prefix /\ SameCommitted(win, vs)
  BY <1>1, <1>2, <1>4, ReachedStays
<1>5. CASE UNCHANGED <<win, prefix>>
  BY <1>2, <1>5
<1>6. CASE Begin \/ Start \/ IdleRound \/ ProtectedRound \/ Drop \/ SinkWeak \/ UNCHANGED vars
  <2>1. UNCHANGED <<win, prefix>>
    BY <1>6 DEF Begin, Start, IdleRound, ProtectedRound, Drop, SinkWeak, vars, lateVars
  <2> QED BY <1>5, <2>1
<1>7. CASE BodyRound \/ ProtectedBodyEnds
  <2>1. prefix' = prefix
    BY <1>7 DEF BodyRound, ProtectedBodyEnds, lateVars
  <2>2. CASE win' = win
    BY <1>5, <2>1, <2>2
  <2>3. CASE win' # win
    <3>1. PICK b : b = segEnd[Begun]
      OBVIOUS
    <3>2. CloseBoundary(b) /\ Begun > 0
      BY <1>7, <2>3, <3>1 DEF BodyRound, ProtectedBodyEnds, BodyEnds, Rounds
    <3>3. b \in Nat
      BY <3>1, <3>2, QueueFacts
    <3>4. PICK g : Grown(win, g, b, None, end) /\ KeptRow(g, vs) /\ SameRegions(g, vs)
      BY <1>1, <1>2, <3>2, <3>3, CloseFacts
    <3>5. SameCommitted(win, vs)
      BY <1>1, <3>4, PlannedCommitted DEF SameRegions
    <3> QED BY <1>4, <2>1, <3>5
  <2> QED BY <2>2, <2>3
<1>8. CASE Seal
  <2>1. PICK g : /\ Grown(win, g, next, next, end) /\ KeptRow(g, vs)
                 /\ \A k \in 1 .. Len(g) :
                      vs[k].hi = IF k = Min(TailOf(g)) THEN next ELSE g[k].hi
    BY <1>1, <1>2, <1>8, SealFacts
  <2>2. g[Min(TailOf(g))].stage = "open"
    BY <1>1, <1>8, <2>1, SealKeeps
  <2>3. \A k \in 1 .. Len(g) : vs[k].hi = g[k].hi \/ g[k].stage = "open"
    BY <2>1, <2>2
  <2>4. SameCommitted(win, vs)
    BY <1>1, <2>1, <2>3, PlannedCommitted
  <2>5. prefix' = prefix
    BY <1>8 DEF Seal
  <2> QED BY <1>4, <2>4, <2>5
<1>9. CASE Arrive
  <2>1. PICK x : x = arrived'
    OBVIOUS
  <2>2. PICK g : Grown(win, g, x, None, end) /\ KeptRow(g, vs) /\ SameRegions(g, vs)
    BY <1>1, <1>2, <1>9, <2>1, ArriveFacts
  <2>3. SameCommitted(win, vs)
    BY <1>1, <2>2, PlannedCommitted DEF SameRegions
  <2>4. prefix' = prefix
    BY <1>9 DEF Arrive
  <2> QED BY <1>4, <2>3, <2>4
<1>10. CASE \E k \in DOMAIN win : Land(k) \/ DecodeFinal(k) \/ SinkStrong(k) \/ Receive(k)
  <2>1. prefix' = prefix
    BY <1>10 DEF Land, DecodeFinal, SinkStrong, Receive, lateVars
  <2>2. SameCommitted(win, vs)
    BY <1>2, <1>10, MovedCommitted
  <2> QED BY <1>4, <2>1, <2>2
<1>11. CASE Install \/ \E k \in DOMAIN win : DecodeEscalated(k)
  <2>1. OneOnward(win, win')
    BY <1>1, <1>11, InstalledOnward, DecodedOnward
  <2>2. UNCHANGED <<mode, closed, end, got, arrived, freed, next>>
    BY <1>11 DEF Install, DecodeEscalated, qpuVars, roundVars, planVars
  <2>3. PICK strong : AfterCommit(win', strong)
    BY <1>11 DEF Install, DecodeEscalated
  <2>4. Tiled(win')
    BY DEF ReleaseInv, Tiled
  <2>5. Reached(win', prefix')
    BY <1>1, <2>1, <2>2, <2>3, <2>4, CommitReaches
  <2> QED BY <1>2, <2>5
<1>12. Next \/ UNCHANGED vars
  OBVIOUS
<1> QED
  BY <1>6, <1>7, <1>8, <1>9, <1>10, <1>11, <1>12 DEF Next, Work, Emission, Decoding

-----------------------------------------------------------------------------
(* The stream that is delivered *)

AllFinal(ws) == \A k \in 1 .. Len(ws) : ws[k].stage = "final"

\* A stream is delivered when it has ended and every window is final.
Over == delivered => end # None /\ AllFinal(win)

\* The fields nothing else depends on.
Plain ==
  /\ drops \in Nat /\ delivered \in BOOLEAN /\ complete \in BOOLEAN
  /\ \A a \in sent : a.seg \in Blocking[mode.kind]

\* Nothing is planned any more when the stream has ended.
LEMMA FinalRow ==
  ASSUME Tables, AllFinal(win), NEW n, n # None, NEW g, NEW known, NEW cap,
         Grown(win, g, known, cap, n), NEW vs, KeptRow(g, vs)
  PROVE  AllFinal(vs)
<1>1. PICK m, q : m = Len(win) /\ q = Len(g)
  OBVIOUS
<1>2. m \in Nat /\ q \in Nat /\ m <= q /\ Len(vs) = q
  BY <1>1, LenProperties DEF Tables, Grown, KeptRow
<1>3. ASSUME NEW k \in 1 .. q PROVE vs[k].stage = "final"
  <2>1. k <= m
    BY <1>1, <1>2 DEF Grown
  <2>2. k \in 1 .. m
    BY <1>2, <2>1
  <2>3. g[k].stage = "final"
    BY <1>1, <2>2 DEF Grown, AllFinal
  <2>4. Kept(g[k], vs[k])
    BY <1>1 DEF KeptRow
  <2> QED BY <2>3, <2>4 DEF Kept, Undecided
<1> QED BY <1>2, <1>3 DEF AllFinal

\* A delivered stream stays what it is.
LEMMA OverStep ==
  ASSUME OneFile, Scalars, Rounds, BoundaryInv, ReleaseInv, Over, [Next]_vars, Tables'
  PROVE  Over'
<1>1. /\ Tables /\ win \in Seq(WindowType) /\ win' \in Seq(WindowType) /\ OnPlan(win)
      /\ DOMAIN win' = 1 .. Len(win')
  BY LenProperties DEF BoundaryInv, Tables, ReleaseInv
<1>2. PICK vs : vs = win'
  OBVIOUS
<1>3. CASE delivered' = delivered /\ ~ delivered
  BY <1>3 DEF Over
<1>4. CASE Begin \/ Start \/ IdleRound \/ ProtectedRound \/ Drop \/ SinkWeak \/ UNCHANGED vars
  <2>1. UNCHANGED <<win, end, delivered>>
    BY <1>4 DEF Begin, Start, IdleRound, ProtectedRound, Drop, SinkWeak, vars, lateVars,
                planVars
  <2> QED BY <2>1 DEF Over, AllFinal
<1>5. CASE BodyRound \/ ProtectedBodyEnds
  <2>1. UNCHANGED <<end, delivered>>
    BY <1>5 DEF BodyRound, ProtectedBodyEnds, lateVars
  <2>2. CASE win' = win
    BY <2>1, <2>2 DEF Over, AllFinal
  <2>3. CASE win' # win /\ delivered
    <3>1. PICK b : b = segEnd[Begun]
      OBVIOUS
    <3>2. CloseBoundary(b) /\ Begun > 0
      BY <1>5, <2>3, <3>1 DEF BodyRound, ProtectedBodyEnds, BodyEnds, Rounds
    <3>3. b \in Nat
      BY <3>1, <3>2, QueueFacts
    <3>4. PICK g : Grown(win, g, b, None, end) /\ KeptRow(g, vs)
      BY <1>1, <1>2, <3>2, <3>3, CloseFacts
    <3>5. AllFinal(vs) /\ end # None
      BY <1>1, <2>3, <3>4, FinalRow DEF Over
    <3> QED BY <1>2, <2>1, <3>5 DEF Over, AllFinal
  <2> QED BY <1>3, <2>1, <2>2, <2>3
<1>6. CASE Seal
  <2>1. ~ delivered
    BY <1>1, <1>6, SealedStream DEF Over
  <2>2. delivered' = delivered
    BY <1>6 DEF Seal
  <2> QED BY <1>3, <2>1, <2>2
<1>7. CASE Arrive
  <2>1. delivered' = delivered
    BY <1>7 DEF Arrive
  <2>2. CASE delivered
    <3>1. PICK x, n : x = arrived' /\ n = end'
      OBVIOUS
    <3>2. PICK g : Grown(win, g, x, None, end) /\ KeptRow(g, vs)
      BY <1>1, <1>2, <1>7, <3>1, ArriveFacts
    <3>3. AllFinal(vs)
      BY <1>1, <2>2, <3>2, FinalRow DEF Over
    <3>4. n # None
      BY <1>7, <2>2, <3>1, StreamAssumption DEF Over, Arrive, None
    <3> QED BY <1>2, <3>1, <3>3, <3>4 DEF Over, AllFinal
  <2> QED BY <1>3, <2>1, <2>2
<1>8. CASE Install \/ \E k \in DOMAIN win : Decoding(k)
  <2>1. Len(win') = Len(win) /\ FinalStay(win, win') /\ end' = end
    BY <1>8, WindowStepRow
         DEF Install, Decoding, Land, DecodeFinal, DecodeEscalated, SinkStrong, Receive, planVars
  <2>2. CASE delivered
    <3>1. AllFinal(vs) /\ end # None
      BY <1>2, <2>1, <2>2 DEF Over, AllFinal, FinalStay
    <3> QED BY <1>2, <2>1, <3>1 DEF Over, AllFinal
  <2>3. CASE delivered' # delivered
    <3>1. \E strong : AfterCommit(win', strong)
      BY <1>8, <2>3 DEF Install, Decoding, Land, DecodeFinal, DecodeEscalated, SinkStrong,
                        Receive, lateVars
    <3>2. delivered' = (delivered \/ Finished(win', end))
      BY <3>1 DEF AfterCommit
    <3>3. CASE Finished(win', end)
      BY <1>1, <2>1, <3>3 DEF Finished, Over, AllFinal
    <3>4. CASE ~ Finished(win', end)
      <4>1. delivered' => delivered
        BY <3>2, <3>4
      <4> QED BY <2>2, <4>1 DEF Over
    <3> QED BY <3>3, <3>4
  <2> QED BY <1>3, <2>2, <2>3
<1>9. Next \/ UNCHANGED vars
  OBVIOUS
<1> QED BY <1>4, <1>5, <1>6, <1>7, <1>8, <1>9 DEF Next, Work, Emission

\* Every step.
LEMMA PlainStep ==
  ASSUME Plain, mode' = mode, [Next]_vars
  PROVE  Plain'
<1>1. drops' \in Nat
  <2>1. drops' = drops \/ drops' = drops + 1
    BY DEF Next, Work, Emission, Decoding, Begin, Start, IdleRound, ProtectedRound, BodyRound,
           ProtectedBodyEnds, Seal, Arrive, Drop, SinkWeak, Install, Land, DecodeFinal,
           DecodeEscalated, SinkStrong, Receive, vars, qpuVars
  <2> QED BY <2>1 DEF Plain
<1>2. CASE UNCHANGED <<delivered, complete, sent>>
  BY <1>1, <1>2 DEF Plain
<1>3. CASE Seal \/ Arrive
  <2>1. UNCHANGED <<delivered, sent>>
    BY <1>3 DEF Seal, Arrive
  <2>2. complete' = complete \/ \E n : FinishWorkload(win', n)
    BY <1>3 DEF Seal, Arrive
  <2>3. complete' \in BOOLEAN
    BY <2>2 DEF Plain, FinishWorkload
  <2> QED BY <1>1, <2>1, <2>3 DEF Plain
<1>4. CASE Install \/ \E k \in DOMAIN win : DecodeEscalated(k)
  <2>1. PICK strong : AfterCommit(win', strong)
    BY <1>4 DEF Install, DecodeEscalated
  <2>2. delivered' \in BOOLEAN /\ complete' \in BOOLEAN
    BY <2>1 DEF AfterCommit, FinishWorkload, Plain
  <2>3. sent' = sent \/ \E upto : Release(win', upto)
    BY <2>1 DEF AfterCommit
  <2>4. \A a \in sent' : a \in sent \/ \E s \in Waiting : a = [seg |-> s, result |-> Result(win', s)]
    BY <2>3 DEF Release
  <2>5. \A a \in sent' : a.seg \in Blocking[mode.kind]
    BY <2>4 DEF Plain, Waiting
  <2> QED BY <1>1, <2>2, <2>5 DEF Plain
<1>5. CASE Begin \/ Start \/ IdleRound \/ ProtectedRound \/ Drop \/ SinkWeak \/ UNCHANGED vars
           \/ BodyRound \/ ProtectedBodyEnds
  <2>1. UNCHANGED <<delivered, complete, sent>>
    BY <1>5 DEF Begin, Start, IdleRound, ProtectedRound, Drop, SinkWeak, vars, lateVars,
                BodyRound, ProtectedBodyEnds
  <2> QED BY <1>2, <2>1
<1>6. CASE \E k \in DOMAIN win : Land(k) \/ DecodeFinal(k) \/ SinkStrong(k) \/ Receive(k)
  <2>1. UNCHANGED <<delivered, complete, sent>>
    BY <1>6 DEF Land, DecodeFinal, SinkStrong, Receive, lateVars
  <2> QED BY <1>2, <2>1
<1>7. Next \/ UNCHANGED vars
  OBVIOUS
<1> QED BY <1>3, <1>4, <1>5, <1>6, <1>7 DEF Next, Work, Emission, Decoding

-----------------------------------------------------------------------------
(* Every window is sound *)

WInv == QueueInv /\ ReadInv /\ Reached(win, prefix) /\ Over /\ Plain

\* Initially nothing has been emitted and nothing is planned.
LEMMA ReadInit ==
  ASSUME Init
  PROVE  WInv
<1>1. QueueInv
  <2>1. Len(<<>>) = 0 /\ Begun = 0 /\ Out = 0
    BY DEF Init, Begun, Out
  <2>2. Queue
    BY <2>1 DEF Init, Queue, InOrder
  <2>3. Reserved
    BY <2>1, StreamAssumption DEF Init, Reserved
  <2>4. Shut
    BY DEF Init, Shut
  <2> QED BY <2>2, <2>3, <2>4 DEF QueueInv
<1>2. Fit(win, closed, end, arrived, got, freed) /\ Exact(win, got, freed)
  BY DEF Init, Fit, Exact
<1>3. Cover(win)
  <2>1. CASE Finite
    <3>1. PICK q \in Nat : DOMAIN Plan = 1 .. q /\ \A k \in 1 .. q : Plan[k].lo = (k - 1) * F + 1
      BY PlanEnds DEF EndsAt
    <3>2. ASSUME NEW k \in DOMAIN Plan PROVE ~(Plan[k].lo <= 0)
      <4>1. PICK x : x = (k - 1) * F
        OBVIOUS
      <4>2. k \in Nat /\ k >= 1
        BY <3>1
      <4>3. x \in Nat
        BY <4>1, <4>2, Stride
      <4> QED BY <3>1, <4>1, <4>3
    <3> QED BY <2>1, <3>2 DEF Init, Cover, Covered
  <2>2. CASE ~ Finite
    BY <2>2, StreamAssumption DEF Init, Cover, Covered
  <2> QED BY <2>1, <2>2
<1>4. Reached(win, prefix)
  BY DEF Init, Reached
<1>5. Over /\ Plain
  BY DEF Init, Over, Plain
<1> QED BY <1>1, <1>2, <1>3, <1>4, <1>5 DEF WInv, ReadInv

\* What the ledger answers for is what the specification says of it.
LEMMA ReachedIsMax ==
  ASSUME NEW ws \in Seq(WindowType), \A k \in 1 .. Len(ws) : Contributes(ws[k]),
         NEW p, Reached(ws, p)
  PROVE  p = Max({0} \cup {ws[k].hi : k \in {j \in DOMAIN ws :
                                         \A i \in 1 .. j : ws[i].says # "none"}})
<1> DEFINE K == {j \in DOMAIN ws : \A i \in 1 .. j : ws[i].says # "none"}
           T == {0} \cup {ws[k].hi : k \in K}
<1>1. /\ Len(ws) \in Nat /\ DOMAIN ws = 1 .. Len(ws) /\ p \in Nat
      /\ \A k \in 1 .. Len(ws) : ws[k].hi \in Nat
  BY LenProperties, WindowFields DEF Reached
<1>2. ASSUME NEW k \in 1 .. Len(ws) PROVE k \in K <=> AllCommitted(ws, k)
  <2>1. \A i \in 1 .. k : i \in 1 .. Len(ws)
    BY <1>1
  <2> QED BY <1>1, <2>1 DEF AllCommitted, Contributes
<1>3. K \subseteq 1 .. Len(ws)
  BY <1>1
<1> HIDE DEF K
<1>4. T \subseteq 0 .. p
  <2>1. ASSUME NEW k \in K PROVE ws[k].hi \in 0 .. p
    <3>1. k \in 1 .. Len(ws) /\ AllCommitted(ws, k)
      BY <1>2, <1>3
    <3>2. ws[k].hi \in Nat /\ ws[k].hi <= p
      BY <1>1, <3>1 DEF Reached
    <3> QED BY <1>1, <3>2
  <2> QED BY <1>1, <2>1
<1>5. p \in T
  <2>1. CASE p = 0
    BY <2>1
  <2>2. CASE p # 0
    <3>1. PICK k \in 1 .. Len(ws) : AllCommitted(ws, k) /\ p = ws[k].hi
      BY <2>2 DEF Reached
    <3> QED BY <1>2, <3>1
  <2> QED BY <2>1, <2>2
<1> HIDE DEF T
<1>6. Max(T) \in T /\ \A y \in T : Max(T) >= y
  <2>1. T # {}
    BY <1>5
  <2> QED BY <1>1, <1>4, <2>1, MaxOfBounded
<1>7. p = Max(T)
  <2>1. Max(T) \in 0 .. p /\ Max(T) >= p
    BY <1>4, <1>5, <1>6
  <2> QED BY <1>1, <2>1
<1> QED BY <1>7 DEF T, K

\* A queue of numbers that are positions of a row.
LEMMA QueueOf ==
  ASSUME NEW s \in Seq(Nat), NEW S, \A e \in ToSet(s) : e \in S
  PROVE  s \in Seq(S)
<1>1. Len(s) \in Nat /\ s \in [1 .. Len(s) -> Nat]
  BY LenProperties
<1>2. \A i \in 1 .. Len(s) : s[i] \in S
  BY ToSetOfSeq
<1>3. s \in [1 .. Len(s) -> S]
  BY <1>1, <1>2
<1> QED BY <1>1, <1>3, SeqDef

\* The tail window is still waiting when the stream may be sealed.
LEMMA TailWaits ==
  ASSUME OneFile, SInv, WInv, CanSeal, NEW k \in 1 .. Len(win), win[k].lo <= next,
         next <= win[k].hi
  PROVE  win[k].stage = "open"
<1> SUFFICES ASSUME win[k].stage # "open" PROVE FALSE
  OBVIOUS
<1>1. PICK w, r : w = win[k] /\ r = ReadsTo(win[k], closed, end)
  OBVIOUS
<1>2. /\ win \in Seq(WindowType) /\ closed \subseteq Nat /\ end \in Nat /\ next \in Nat
      /\ arrived \in Nat /\ arrived <= next
  BY DEF SInv, Scalars, Rounds, BoundaryInv, Tables
<1>3. w.hi \in Nat /\ w.bhi \in Nat
  BY <1>1, <1>2, WindowFields
<1>4. Retains(w, closed, end, arrived, got, freed) /\ w.stage # "open"
  BY <1>1 DEF WInv, ReadInv, Fit
<1>5. ~ Finite /\ phase # "sealed"
  BY DEF CanSeal, SInv, Rounds, Finite
<1>6. end = None
  BY <1>5 DEF WInv, ReadInv, Cover
<1>7. r \in Nat /\ w.hi <= r /\ r <= arrived /\ next <= w.hi /\ w.hi < w.bhi
  <2>1. r \in Nat
    BY <1>1, <1>2, <1>3, ReadsIs DEF Stops
  <2> QED BY <1>1, <1>4, <1>5, <1>6, <2>1 DEF Retains
<1>8. r = next /\ r < w.bhi
  BY <1>2, <1>3, <1>7
<1>9. Stops(w, closed, w.bhi, r)
  <2>1. Known(w, end) = w.bhi
    BY <1>5, <1>6 DEF Known
  <2> QED BY <1>1, <1>2, <1>3, <2>1, ReadsIs
<1>10. r \in closed
  BY <1>3, <1>8, <1>9 DEF Stops
<1>11. r < next
  BY <1>10, ClosedBehind DEF SInv, WInv, QueueInv
<1> QED BY <1>2, <1>8, <1>11

\* Nothing of a delivered stream is left or still comes.
LEMMA NothingComes ==
  ASSUME OneFile, SInv, WInv, delivered
  PROVE  transit = <<>> /\ got = freed
<1>1. /\ win \in Seq(WindowType) /\ closed \subseteq Nat /\ end \in Nat /\ next \in Nat
      /\ arrived \in Nat /\ arrived <= next /\ Len(win) \in Nat /\ transit \in Seq(Nat)
  BY LenProperties DEF SInv, Scalars, Rounds, BoundaryInv, Tables
<1>2. end # None /\ AllFinal(win)
  BY DEF WInv, Over
<1>3. got = freed
  <2>1. \A k \in 1 .. Len(win) : Hold(win[k]) = {}
    BY <1>2 DEF AllFinal, Hold
  <2> QED BY <2>1 DEF WInv, ReadInv, Exact
<1>4. /\ win # <<>> /\ win[Len(win)].hi = end
      /\ IF Finite THEN end = Limit ELSE end = next /\ phase = "sealed"
  BY <1>2 DEF WInv, ReadInv, Cover
<1>5. PICK m : m = Len(win)
  OBVIOUS
<1>6. m \in Nat /\ m # 0 /\ m \in 1 .. m
  <2>1. m \in Nat /\ m # 0
    BY <1>1, <1>4, <1>5, LenProperties
  <2> QED BY <2>1
<1>7. win[m].stage # "open"
  BY <1>2, <1>5, <1>6 DEF AllFinal
<1>8. win[m].hi <= arrived
  <2>1. Fit(win, closed, end, arrived, got, freed)
    BY DEF WInv, ReadInv
  <2> QED BY <1>1, <1>5, <1>6, <1>7, <2>1, SubmittedArrived
<1>9. next <= end
  BY <1>1, <1>4 DEF WInv, QueueInv, Reserved, Finite
<1>10. next <= arrived
  BY <1>1, <1>4, <1>5, <1>8, <1>9
<1>11. ASSUME transit # <<>> PROVE FALSE
  <2>1. Len(transit) \in Nat /\ Len(transit) # 0
    BY <1>1, <1>11, LenProperties
  <2>2. 1 \in 1 .. Len(transit)
    BY <2>1
  <2>3. transit[1] \in Nat /\ arrived < transit[1]
    <3>1. transit[1] \in Nat
      BY <1>1, <2>2, LenProperties
    <3> QED BY <2>2, <3>1 DEF WInv, QueueInv, Queue, InOrder
  <2>4. transit[1] \in ToSet(transit)
    BY <1>1, <2>2, ToSetOfSeq
  <2>5. transit[1] <= next
    BY <2>4 DEF SInv, Rounds
  <2> QED BY <1>1, <1>10, <2>3, <2>5
<1> QED BY <1>3, <1>11

\* The invariant says all of it.
LEMMA SoundFollows ==
  ASSUME OneFile, SInv, WInv
  PROVE  WindowsSound
<1>1. /\ win \in Seq(WindowType) /\ closed \subseteq Nat /\ end \in Nat
      /\ DOMAIN win = 1 .. Len(win) /\ Len(win) \in Nat
  BY LenProperties DEF SInv, Scalars, BoundaryInv, Tables
<1>2. TypeOK
  <2>1. mode \in Modes /\ {next, at, arrived, end, prefix, drops} \subseteq Nat
    BY DEF SInv, Scalars, WInv, Reached, Plain
  <2>2. /\ segEnd \in Seq(Nat) /\ transit \in Seq(Nat)
        /\ phase \in {"waiting", "running", "ended", "closing", "sealing", "sealed"}
    BY DEF SInv, Scalars, Rounds
  <2>3. {wdo, writes} \subseteq Seq(DOMAIN win)
    <3>1. \A e \in ToSet(wdo) \cup ToSet(writes) : e \in DOMAIN win
      BY <1>1 DEF SInv, BoundaryInv, Corrections
    <3>2. wdo \in Seq(Nat) /\ writes \in Seq(Nat)
      BY DEF SInv, BoundaryInv, Tables
    <3> QED BY <3>1, <3>2, QueueOf
  <2>4. dd \subseteq DOMAIN win
    BY <1>1 DEF SInv, BoundaryInv, Chain
  <2>5. got \subseteq Nat /\ freed \subseteq got
    BY DEF SInv, Scalars, WInv, ReadInv, Exact
  <2>6. delivered \in BOOLEAN /\ complete \in BOOLEAN
        /\ \A a \in sent : a.seg \in Blocking[mode.kind]
    BY DEF WInv, Plain
  <2> QED BY <1>1, <2>1, <2>2, <2>3, <2>4, <2>5, <2>6 DEF TypeOK
<1>3. InputsRetained
  <2>1. ASSUME NEW k \in DOMAIN win
        PROVE  LET w == win[k]  range == w.lo .. ReadsTo(w, closed, end)
               IN  /\ w.stage = "open" => freed \cap range = {}
                   /\ w.stage # "open" => w.job = got \cap range
    <3>1. PICK w, r : w = win[k] /\ r = ReadsTo(win[k], closed, end)
      OBVIOUS
    <3>2. w \in WindowType /\ w.lo \in Nat /\ w.bhi \in Nat /\ w.rhi \in Nat
      BY <1>1, <3>1, WindowFields DEF WindowType
    <3>3. r \in Nat
      BY <1>1, <3>1, <3>2, ReadsIs DEF Stops
    <3>4. Retains(w, closed, end, arrived, got, freed)
      BY <1>1, <3>1 DEF WInv, ReadInv, Fit
    <3>5. CASE w.stage = "open"
      <4>1. r <= w.rhi /\ freed \cap Hold(w) = {} /\ Hold(w) = w.lo .. w.rhi
        BY <3>1, <3>4, <3>5 DEF Retains, Hold
      <4>2. w.lo .. r \subseteq w.lo .. w.rhi
        BY <3>2, <3>3, <4>1
      <4> QED BY <3>1, <3>5, <4>1, <4>2
    <3>6. CASE w.stage # "open"
      BY <3>1, <3>4, <3>6 DEF Retains
    <3> QED BY <3>5, <3>6
  <2>2. delivered => transit = <<>> /\ got = freed
    BY NothingComes
  <2> QED BY <2>1, <2>2 DEF InputsRetained
<1>4. PlanTiles
  <2>1. \A k \in DOMAIN win : /\ win[k].lo = (IF k = 1 THEN 1 ELSE win[k - 1].hi + 1)
                              /\ win[k].lo <= win[k].hi
    BY <1>1 DEF SInv, ReleaseInv, Tiled
  <2>2. end # None => win # <<>> /\ win[Len(win)].hi = end
    BY DEF WInv, ReadInv, Cover
  <2>3. CanSeal => \A k \in TailOf(win) : win[k].stage = "open"
    BY <1>1, TailWaits DEF TailOf
  <2>4. prefix = Max({0} \cup {win[k].hi : k \in {j \in DOMAIN win :
                                 \A i \in 1 .. j : win[i].says # "none"}})
    <3>1. \A k \in 1 .. Len(win) : Contributes(win[k])
      BY DEF WInv, ReadInv, Fit
    <3> QED BY <1>1, <3>1, ReachedIsMax DEF WInv
  <2> QED BY <2>1, <2>2, <2>3, <2>4 DEF PlanTiles
<1> QED BY <1>2, <1>3, <1>4 DEF WindowsSound

\* The windows of a growing stream cover it and find the rounds they read: a
\* window that is submitted is decoded on every round of its range that has
\* arrived, what a waiting window will read stays in Buffer 0, nothing of a
\* delivered stream is left or still comes (create_dynamic_window,
\* check_window, round_retention); the regions follow each other up to the end,
\* the tail that is clipped has not been submitted (trim_dynamic_window_tail),
\* and the committed prefix is what the ledger can answer for.  True for every
\* code, every kind of stream, every feedback rule and policy, and any number
\* of windows, idle and dropped rounds, when the rounds arrive in one file.
THEOREM WindowsAreSound ==
  ASSUME OneFile
  PROVE  Spec => []WindowsSound
<1>1. Init => SInv /\ WInv
  BY BoundaryInit, ReleaseInit, ReadInit DEF SInv
<1>2. SInv /\ WInv /\ [Next]_vars => (SInv /\ WInv)'
  <2> SUFFICES ASSUME SInv, WInv, [Next]_vars
               PROVE  (SInv /\ WInv)'
    OBVIOUS
  <2>1. /\ Scalars /\ Rounds /\ BoundaryInv /\ ReleaseInv
        /\ QueueInv /\ ReadInv /\ Reached(win, prefix) /\ Over /\ Plain
    BY DEF SInv, WInv
  <2>2. Scalars' /\ Rounds' /\ mode' = mode /\ BoundaryInv' /\ ReleaseInv'
    BY <2>1, RoundsStep, BoundaryStep, ReleaseStep
  <2>3. Tables'
    BY <2>2 DEF BoundaryInv
  <2>4. QueueInv' /\ ReadInv' /\ Reached(win, prefix)' /\ Over' /\ Plain'
    BY <2>1, <2>2, <2>3, QueueStep, ReadStep, LedgerStep, OverStep, PlainStep
  <2> QED BY <2>2, <2>4 DEF SInv, WInv
<1>3. SInv /\ WInv => WindowsSound
  BY SoundFollows
<1> QED BY <1>1, <1>2, <1>3, PTL DEF Spec

=============================================================================

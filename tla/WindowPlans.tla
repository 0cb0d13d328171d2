---------------------------- MODULE WindowPlans ----------------------------
(***************************************************************************)
(* How the rounds of planned operations become windows: the windowing      *)
(* schemes, the dependency graph between the windows of an operation and   *)
(* of its predecessor, the rounds the plan retains for each window, the    *)
(* part of the error model each window reads and commits, and the region   *)
(* a strong window takes.  Windows of a plan are numbered from 1.          *)
(***************************************************************************)
EXTENDS WindowGeometry

-----------------------------------------------------------------------------
(* The schemes.  A plan: its windows, the edges between them, and those    *)
(* with closed temporal boundaries.                                        *)

Chain(windows) ==
  [win |-> windows, edges |-> {<<i, i + 1>> : i \in 1 .. Len(windows) - 1},
   closed |-> {}]

NaivePlan(n) == Chain(<<Geometry(1, 1, n, n)>>)

(* Blocks A commit d rounds and read d more on each side, the first one 2d *)
(* from the start; a block B commits what lies between two of them.  The   *)
(* last A takes a tail of at most d rounds with it.                        *)
MutParallelPlan(n, d) ==
  LET Lo(j) == IF j = 0 THEN 1 ELSE 4 * d * j + d + 1
      Hi(j) == Least(4 * d * j + 2 * d, n)
      last  == Max({0} \cup {j \in 1 .. n : n > 4 * d * j + d})
      tail  == n - Hi(last)
      BlockA(j) == LET hi == IF j = last /\ tail <= d THEN n ELSE Hi(j)
                   IN  Geometry(Most(1, Lo(j) - d), Lo(j), hi, Least(hi + d, n))
      BlockB(j) == LET hi == IF j = last THEN n ELSE Lo(j + 1) - 1
                   IN  Geometry(Hi(j) + 1, Hi(j) + 1, hi, hi)
      count == 2 * last + (IF tail > d THEN 2 ELSE 1)
      blocksB == {i \in 1 .. count : i % 2 = 0}
  IN  [win |-> [i \in 1 .. count |-> IF i % 2 = 1 THEN BlockA(i \div 2) ELSE BlockB((i \div 2) - 1)],
       edges |-> {<<i - 1, i>> : i \in blocksB},
       closed |-> blocksB]
ParallelPlan(n, d) ==
  LET Lo(j) == IF j = 0 THEN 1 ELSE 4 * d * j + d + 1
      Hi(j) == Least(4 * d * j + 2 * d, n)
      last  == Max({0} \cup {j \in 1 .. n : n > 4 * d * j + d})
      tail  == n - Hi(last)
      BlockA(j) == LET hi == IF j = last /\ tail <= d THEN n ELSE Hi(j)
                   IN  Geometry(Most(1, Lo(j) - d), Lo(j), hi, Least(hi + d, n))
      BlockB(j) == LET hi == IF j = last THEN n ELSE Lo(j + 1) - 1
                   IN  Geometry(Hi(j) + 1, Hi(j) + 1, hi, hi)
      count == 2 * last + (IF tail > d THEN 2 ELSE 1)
      blocksB == {i \in 1 .. count : i % 2 = 0}
  IN  [win |-> [i \in 1 .. count |-> IF i % 2 = 1 THEN BlockA(i \div 2) ELSE BlockB((i \div 2) - 1)],
       edges |-> {<<i - 1, i>> : i \in blocksB}
                 \cup {<<i + 1, i>> : i \in blocksB \ {count}},
       closed |-> blocksB]

(* Cores of step s with a buffer b on both sides, one-round seams between. *)
SandwichPlan(n, s, b) ==
  LET cores == Most(1, CeilDiv(n - (s + 2 * b), s) + 1)
      Core(i) == LET lo == 1 + i * s
                 IN  Geometry(lo, IF i = 0 THEN 1 ELSE lo + b,
                              IF i = cores - 1 THEN n ELSE b + s - 1 + i * s,
                              Least(n, lo + s + 2 * b - 1))
      Seam(i) == LET r == b + s + i * s IN Geometry(r, r, r, r)
      seams == {i \in 1 .. 2 * cores - 1 : i % 2 = 0}
  IN  [win |-> [i \in 1 .. 2 * cores - 1 |-> IF i % 2 = 1 THEN Core(i \div 2) ELSE Seam((i \div 2) - 1)],
       edges |-> {<<i - 1, i>> : i \in seams} \cup {<<i + 1, i>> : i \in seams},
       closed |-> seams]

Schemes == {"naive", "flush", "lookahead", "parallel", "sandwich"}

(* What a scheme refuses: buffers below its floor without a justification, *)
(* or a justification that is not needed, and its own geometry rules.      *)
BufferAccepted(scheme, F, B, leading, trailing, justified) ==
  CASE scheme = "naive"    -> TRUE
    [] scheme = "sandwich" -> F >= 2 /\ B >= 1
    [] scheme = "parallel" -> F = B /\ (justified <=> B < Most(leading, trailing))
    [] OTHER               -> justified <=> B < trailing

(* What a switching run refuses: the all-core flush, double windows but on *)
(* one look-ahead chain, and a commit region too short for the declared    *)
(* keep-up ratio keepup[1] / keepup[2].                                    *)
RunAccepted(scheme, mode, operations, F, B, keepup) ==
  /\ mode # "weak" => scheme # "flush"
  /\ mode = "double" => scheme = "lookahead" /\ operations = 1
  /\ mode # "weak" /\ keepup[1] > 0 =>
       /\ scheme = "lookahead"
       /\ keepup[1] * (F + B) <= keepup[2] * F

Plan(scheme, n, F, B) ==
  CASE scheme = "naive"     -> NaivePlan(n)
    [] scheme = "flush"     -> Chain(FlushPlan(n, F, B))
    [] scheme = "lookahead" -> Chain(LookaheadPlan(n, F, B))
    [] scheme = "parallel"  -> ParallelPlan(n, F)
    [] scheme = "sandwich"  -> SandwichPlan(n, F, B)

Sources(plan, i) == {e[1] : e \in {x \in plan.edges : x[2] = i}}
Entries(plan) == {i \in DOMAIN plan.win : Sources(plan, i) = {}}
Exits(plan) == {i \in DOMAIN plan.win : \A e \in plan.edges : e[1] # i}

-----------------------------------------------------------------------------
(* The windows of a chain of operations, by <<operation, window>>.         *)

Keys(plans) == {k \in (DOMAIN plans) \X (1 .. Max({Len(plans[o].win) : o \in DOMAIN plans})) :
                  k[2] \in DOMAIN plans[k[1]].win}

WindowOf(plans, k) == plans[k[1]].win[k[2]]

\* The direct predecessors: inside the operation, and from the exits of the
\* operation before to the entries of this one.
Needs(plans, k) ==
  {<<k[1], i>> : i \in Sources(plans[k[1]], k[2])}
  \cup IF k[1] > 1 /\ k[2] \in Entries(plans[k[1]])
       THEN {<<k[1] - 1, i>> : i \in Exits(plans[k[1] - 1])} ELSE {}

\* The rounds lo..hi of operation o: beyond its end they are the first ones of
\* the operation after it.  counts[o] is the round count of operation o.
ReadKeys(counts, o, lo, hi) ==
  {<<o, r>> : r \in lo .. Least(hi, counts[o])}
  \cup IF o < Len(counts) THEN {<<o + 1, r>> : r \in 1 .. Least(hi - counts[o], counts[o + 1])} ELSE {}

(* The first and last round of the context that the room-side store keeps  *)
(* for a possible strong decode of window w; a double window reaches two   *)
(* buffers further.                                                        *)
MutPotential(w, n, double) == [lo |-> w.lo, hi |-> w.bhi]
Potential(w, n, double) ==
  LET b  == w.bhi - w.hi
      hi == IF double THEN Least(n, w.hi + 2 * b) ELSE w.hi
  IN  [lo |-> Most(1, w.lo - b), hi |-> hi + b]

(* The forward strong region of an escalated window w: its commit region   *)
(* and two buffers behind it, one buffer of context on both faces, and     *)
(* where the restart window behind it begins to read.                      *)
StrongRegion(w, n) ==
  LET b  == w.bhi - w.hi
      hi == Least(w.hi + 2 * b, n)
  IN  [lo |-> w.lo, hi |-> hi, clo |-> Most(1, w.lo - b), chi |-> Least(hi + b, n),
       restartLo |-> Most(w.lo, hi - b + 1)]

\* Rounds a strong decode of w reprocesses.
StrongRedoRounds(w) == (w.hi - w.lo + 1) + 2 * (w.bhi - w.hi)

-----------------------------------------------------------------------------
(* The error model of an operation.  A detector is a pair of its round and *)
(* its position in the round; the catalog is a sequence of faults, each    *)
(* the set of detectors it flips.                                          *)

Round(d) == d[1]
FaultRounds(fault) == {Round(d) : d \in fault}
Odd(S) == Cardinality(S) % 2 = 1

(* What a set of faults flips.                                             *)
Effect(catalog, faults) ==
  {d \in UNION {catalog[i] : i \in faults} : Odd({i \in faults : d \in catalog[i]})}

Touches(fault, lo, hi) == \E r \in FaultRounds(fault) : lo <= r /\ r <= hi

(* The depth of every window in the graph, and all its predecessors.       *)
Depth(plan) ==
  LET depth[i \in DOMAIN plan.win] ==
        IF Sources(plan, i) = {} THEN 0
        ELSE 1 + Max({depth[j] : j \in Sources(plan, i)})
  IN  depth
Ancestors(plan) ==
  LET above[i \in DOMAIN plan.win] ==
        UNION {{j} \cup above[j] : j \in Sources(plan, i)}
  IN  above

(* The windows that may own a fault: of those that commit a round of it,   *)
(* the ones decoded first.                                                 *)
Owners(plan, fault) ==
  LET touched == {i \in DOMAIN plan.win : Touches(fault, plan.win[i].lo, plan.win[i].hi)}
      depth == Depth(plan)
  IN  {i \in touched : \A j \in touched : depth[i] <= depth[j]}

(* The model of a planned window: its rows, the columns no predecessor     *)
(* owns, and the columns it commits.                                       *)
RowsBetween(detectors, lo, hi) == {d \in detectors : lo <= Round(d) /\ Round(d) <= hi}
Columns(catalog, rows, prior) ==
  {i \in DOMAIN catalog \ prior : catalog[i] \cap rows # {}}

PlannedModel(plan, catalog, i) ==
  LET w     == plan.win[i]
      rows  == RowsBetween(UNION {catalog[f] : f \in DOMAIN catalog}, w.blo, w.bhi)
      above == Ancestors(plan)[i]
      prior == {f \in DOMAIN catalog : Owners(plan, catalog[f]) \cap above # {}}
      cols  == Columns(catalog, rows, prior)
  IN  [rows |-> rows, cols |-> cols, owned |-> {f \in cols : i \in Owners(plan, catalog[f])}]

(* The model of a single window, built beside the plan: it reads blo..bhi, *)
(* keeps every column, and commits what touches lo..hi but nothing before. *)
SingleModel(catalog, blo, lo, hi, bhi) ==
  LET rows == RowsBetween(UNION {catalog[f] : f \in DOMAIN catalog}, blo, bhi)
      cols == Columns(catalog, rows, {})
  IN  [rows |-> rows, cols |-> cols,
       owned |-> {f \in cols : /\ Touches(catalog[f], lo, hi)
                               /\ ~Touches(catalog[f], 1, lo - 1)}]

(* A closed window waits for another one and cuts no fault.                *)
ClosedRespected(plan, catalog) ==
  \A i \in plan.closed :
    LET m == PlannedModel(plan, catalog, i)
    IN  Sources(plan, i) # {} /\ \A f \in m.cols : catalog[f] \subseteq m.rows

(* The contract of a sandwich plan: one-round seams, all of them closed,   *)
(* each after exactly its two neighbours.                                  *)
SandwichContract(plan) ==
  LET seams == {i \in DOMAIN plan.win : i % 2 = 0}
  IN  /\ plan.closed = seams
      /\ \A i \in seams : Cardinality({plan.win[i].blo, plan.win[i].lo,
                                       plan.win[i].hi, plan.win[i].bhi}) = 1
      /\ plan.edges = UNION {{<<i - 1, i>>, <<i + 1, i>>} : i \in seams}
=============================================================================

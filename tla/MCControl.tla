----------------------------- MODULE MCControl -----------------------------
(***************************************************************************)
(* Small programs for Control: a feedback measurement inside a protected   *)
(* region, two regions after each other on one patch, a magic state        *)
(* between two patches, and segments of an unprotected stream.             *)
(***************************************************************************)
EXTENDS Control

O(preds, patches, rounds, blockedBy) ==
  [preds |-> preds, patches |-> patches, rounds |-> rounds, blockedBy |-> blockedBy,
   magic |-> FALSE, sched |-> 0, emits |-> TRUE, closes |-> FALSE, stream |-> 0]
Silent(o)      == [o EXCEPT !.emits = FALSE]
Magic(o)       == [o EXCEPT !.magic = TRUE]
At(o, round)   == [o EXCEPT !.sched = round]
On(o, st)      == [o EXCEPT !.stream = st]
Closing(o)     == [o EXCEPT !.closes = TRUE]
R(st, p, a, b) == [stream |-> st, patch |-> p, start |-> a, end |-> b]
P(ops, regions, cq, extend) ==
  [ops |-> ops, regions |-> regions, cq |-> cq, extend |-> extend]

\* Patch 1 is protected while operation 2 is measured and decoded; operation 3
\* waits for the decision and ends the region; patch 2 works beside it.
Feedback(cq, r, m) ==
  P(<<Silent(O({}, {1}, r, 0)), Silent(Closing(O({1}, {1}, m, 0))),
      Silent(O({2}, {1}, 1, 2)), Magic(O({}, {2}, 1, 0)), O({3, 4}, {2}, 1, 0)>>,
    {R(10, 1, 1, 3)}, cq, FALSE)

\* The second region takes the patch at the tick the first one is sealed.
BackToBack(cq, r, m) ==
  P(<<Silent(O({}, {1}, r, 0)), Silent(O({1}, {1}, m, 1)), Silent(O({2}, {1}, r, 0)),
      Silent(At(O({3}, {1}, m, 2), 3)), O({}, {2}, 2, 0)>>,
    {R(10, 1, 1, 2), R(11, 1, 3, 4)}, cq, FALSE)

\* Two regions end with one operation on both patches.  The second opens when
\* its magic state comes only if that falls on a boundary, so it is scheduled.
Joint(cq, r, m) ==
  P(<<Silent(O({}, {1}, r, 0)), Silent(At(O({}, {2}, m, 0), 1)),
      Silent(Magic(O({1, 2}, {1, 2}, m, 1)))>>,
    {R(10, 1, 1, 3), R(11, 2, 2, 3)}, cq, FALSE)

\* Segments of stream 12 on patch 1, a blocked one with a magic state among
\* them; the idle rounds before it extend the stream.
Segments(cq, r, m) ==
  P(<<On(Closing(O({}, {1}, r, 0)), 12), On(Magic(O({1}, {1}, m, 1)), 12),
      At(O({}, {2}, 1, 0), 2), O({2, 3}, {1, 2}, 0, 0)>>,
    {}, cq, TRUE)

MCPrograms ==
  UNION {{Feedback(cq, r, m), BackToBack(cq, r, m), Joint(cq, r, m), Segments(cq, r, m)} :
           cq \in 0..4, r \in 1..2, m \in 1..2}

\* The region's first operation is itself released by a decision.
LatePrograms ==
  {P(<<O({}, {2}, 1, 0), Silent(O({}, {1}, 1, 1)), Silent(O({2}, {1}, 1, 0))>>,
     {R(10, 1, 2, 3)}, 0, FALSE)}
=============================================================================

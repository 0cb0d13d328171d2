---------------------------- MODULE StreamWindows ---------------------------
(***************************************************************************)
(* One live stream: the QPU emits its rounds, the window manager plans     *)
(* windows while they arrive, the windows are decoded in a chain that      *)
(* hands boundaries on and are committed through the Pauli frame, and the  *)
(* committed prefix releases the operations that wait for a segment.  The  *)
(* stream bookkeeping of the controller, the window manager, the courier,  *)
(* the dynamic windows, the ledger and the frame are one module because    *)
(* their handlers call each other inside one event.  The decoder pools     *)
(* (DecoderUnits) are reduced to: an input lands, and a landed window      *)
(* with all its boundaries ends its decode some time.                      *)
(*                                                                         *)
(* mode.kind   "open"      segments emit their own rounds, idle rounds     *)
(*                         extend the stream, sealed with the workload     *)
(*             "protected" a region's cycle emits every round, sealed by   *)
(*                         the operation that ends the region              *)
(*             "finite"    a stream of Limit rounds, sealed by the last    *)
(***************************************************************************)
EXTENDS WindowGeometry, Functions

CONSTANTS Modes,           \* sets of [kind, feedback, policy]
          F, B,            \* commit and buffer rounds of the code
          Body, Blocking,  \* per kind: rounds of its segments; those with a
                           \* successor that waits for their result
          Limit,           \* source round limit of a finite stream
          MaxIdle,         \* bound: rounds beyond the segments' own
          MaxDrops         \* bound: rounds the packing stage drops

ASSUME StreamAssumption ==
  /\ F \in Nat \ {0} /\ B \in Nat \ {0} /\ Limit \in Nat \ {0}
  /\ MaxIdle \in Nat /\ MaxDrops \in Nat
  /\ \A m \in Modes : /\ Body[m.kind] \in Seq(Nat \ {0}) \ {<<>>}
                      /\ Blocking[m.kind] \subseteq DOMAIN Body[m.kind]

None == 0

VARIABLES
  mode,
  next,        \* stream_next_round: the rounds the stream has reserved
  segEnd,      \* _stream_segment_end of the segments that have begun
  phase,       \* of the latest segment: "waiting", "running", "ended",
               \* then "closing", "sealing", "sealed" for the stream
  at,          \* rounds it has emitted itself
  transit,     \* emitted rounds on their way to the window manager
  arrived,     \* rounds_arrived: the highest round that has arrived
  got, freed,  \* rounds Buffer 0 has taken; those it has released again
  drops,
  closed,      \* closed_boundaries
  end,         \* sealed_round_count, None while the stream is open
  win,         \* the windows, in order
  wdo,         \* weak results on their way to the frame
  writes,      \* corrections the frame has accepted and not yet installed
  dd,          \* windows whose boundary is in flight to the next one
  prefix,      \* committed_round_counts
  sent,        \* the answers released: [seg, result]
  delivered,   \* the stream is in _finished_ops
  complete     \* _workload_complete_sent

qpuVars   == <<mode, next, segEnd, phase, at, drops>>
roundVars == <<transit, arrived, got>>
planVars  == <<closed, end>>
lateVars  == <<wdo, writes, dd, prefix, sent, delivered, complete>>
vars == <<qpuVars, roundVars, planVars, win, freed, lateVars>>

Segments == DOMAIN Body[mode.kind]
Begun    == Len(segEnd)
Waiting  == Blocking[mode.kind] \ {a.seg : a \in sent}
Finite   == mode.kind = "finite"
Plan     == IF mode.policy = "baseline" THEN FlushPlan(Limit, F, B)
                                        ELSE LookaheadPlan(Limit, F, B)

-----------------------------------------------------------------------------
(* Windows.  stage: "open", "queued" (submitted), "landed" (input in the   *)
(* decoder's memory), "sinking" (weak result on its way), "asked" (weak    *)
(* result committed, strong one asked for), "resolving" (strong result in  *)
(* the frame), "final".  rhi: last round its hold covers.  job: the rounds *)
(* its decode was given.  deps: boundaries outstanding.  chained: it is    *)
(* among its predecessor's dependents.  inb: boundary_in.  out: the        *)
(* boundary it shipped; held: it keeps one back.  entry: its correction in *)
(* the frame.  says: its contribution in the ledger.                       *)

Committed(w) == w.stage \in {"asked", "resolving", "final"}
Pending(w)   == w.stage \in {"asked", "resolving"}
Hold(w)      == IF w.stage \in {"open", "queued"} THEN w.lo..w.rhi ELSE {}

(* round_count_for_window, cut at a closed boundary inside its buffer *)
Effective(w, shut, n) ==
  LET known == IF n # None THEN n ELSE IF Finite THEN Limit ELSE w.bhi
      inside == {b \in shut : w.hi <= b /\ b < w.bhi}
  IN  IF inside = {} THEN known ELSE Least(known, Min(inside))
ReadsTo(w, shut, n) == Least(w.bhi, Effective(w, shut, n))

(* has_committed: a boundary that is held is not available yet *)
MutAvailable(before) == before # <<>> /\ (Head(before).out # "none" \/ Head(before).held)
Available(before) == before # <<>> /\ Head(before).out # "none"

NewWindow(g, before, shut, n) ==
  LET ready == Available(before)
      w == [lo |-> g.lo, hi |-> g.hi, bhi |-> g.bhi, rhi |-> 0, job |-> {},
            stage |-> "open", chained |-> before # <<>> /\ ~ready,
            deps |-> IF before # <<>> /\ ~ready THEN 1 ELSE 0,
            inb |-> IF ready THEN Head(before).out ELSE "none",
            out |-> "none", held |-> FALSE, entry |-> "none", says |-> "none"]
  IN  [w EXCEPT !.rhi = ReadsTo(w, shut, n)]

(* every window whose commit region has begun by round `known` *)
Grow(ws, known, cap, shut, n) ==
  LET wanted == IF n # None THEN 0
                ELSE IF Finite THEN Cardinality({k \in DOMAIN Plan : Plan[k].lo <= known})
                ELSE CeilDiv(known, F)
      Lay(k) == IF Finite THEN Plan[k]
                ELSE LET hi == IF cap = None THEN k * F ELSE Least(k * F, cap)
                     IN  Geometry((k - 1) * F + 1, (k - 1) * F + 1, hi, hi + B)
      Before(k) == IF k = 1 THEN <<>>
                   ELSE IF k - 1 \in DOMAIN ws THEN <<ws[k - 1]>> ELSE <<[out |-> "none", held |-> FALSE]>>
  IN  ws \o [i \in 1..Most(0, wanted - Len(ws)) |->
               LET k == Len(ws) + i IN NewWindow(Lay(k), Before(k), shut, n)]

(* check_window on every window: what has its data is submitted with the   *)
(* rounds Buffer 0 retains, its boundary outstanding or not                *)
Check(ws, count, shut, n, stored) ==
  [k \in DOMAIN ws |->
     LET w == ws[k]  have == Effective(w, shut, n)
     IN  IF w.stage = "open" /\ DataComplete(w.bhi, count, have, {}, 0, have < w.bhi)
         THEN [w EXCEPT !.stage = "queued", !.job = stored \cap (w.lo..ReadsTo(w, shut, n))]
         ELSE w]

(* the rounds nothing holds any more leave Buffer 0 *)
Released(ws, taken) == {r \in taken : \A k \in DOMAIN ws : r \notin Hold(ws[k])}
Settle(ws, taken) == /\ win' = ws
                     /\ freed' = freed \cup Released(win', taken)

-----------------------------------------------------------------------------
(* Commits *)
Regions(ws) == {[lo |-> ws[k].lo, hi |-> ws[k].hi] :
                  k \in {j \in DOMAIN ws : Committed(ws[j])}}
Overlapping(ws, lo, hi) == {k \in DOMAIN ws : ws[k].lo <= hi /\ ws[k].hi >= lo}
Result(ws, s) == LET offset == segEnd[s] - Body[mode.kind][s]
                 IN  [k \in Overlapping(ws, offset + 1, segEnd[s]) |-> ws[k].says]

(* _segment_waits_for_strong *)
MutWaitsForStrong(ws, s) == FALSE
WaitsForStrong(ws, s) == \E k \in DOMAIN ws : Pending(ws[k]) /\ ws[k].lo <= segEnd[s]

(* release_stream_segments_at_commit *)
Release(ws, upto) ==
  sent' = sent \cup
    {[seg |-> s, result |-> Result(ws, s)] :
       s \in {i \in Waiting \cap (1..Begun) : segEnd[i] <= upto /\ ~WaitsForStrong(ws, i)}}

Finished(ws, n) == n # None /\ \A k \in DOMAIN ws : ws[k].stage = "final"
FinishWorkload(ws, n) == complete' = (complete \/ Finished(ws, n))

(* the end of every commit: committed prefix, segments, operation, workload *)
AfterCommit(ws, strong) ==
  LET upto == Prefix(Regions(ws), Most(next, Limit))
  IN  /\ prefix' = Most(prefix, upto)
      /\ IF strong \/ upto > prefix THEN Release(ws, upto) ELSE UNCHANGED sent
      /\ delivered' = (delivered \/ Finished(ws, end))
      /\ FinishWorkload(ws, end)

(* courier.send: to the dependents the window has now *)
Ship(ws, k, result) == [ws EXCEPT ![k].out = result]
MutDeliveries(ws, k) == IF k + 1 \in DOMAIN ws /\ ws[k].out # "strong" THEN {k} ELSE {}
Deliveries(ws, k) == IF k + 1 \in DOMAIN ws /\ ws[k + 1].chained THEN {k} ELSE {}

Land(k) ==
  /\ win[k].stage = "queued"
  /\ Settle([win EXCEPT ![k].stage = "landed"], got)
  /\ UNCHANGED <<qpuVars, roundVars, planVars, lateVars>>

(* on_decode_done of an accepted result: the boundary leaves at once *)
DecodeFinal(k) ==
  /\ win[k].stage = "landed" /\ win[k].deps = 0
  /\ win' = [Ship(win, k, "weak") EXCEPT ![k].stage = "sinking"]
  /\ dd' = dd \cup Deliveries(win, k)
  /\ wdo' = Append(wdo, k)
  /\ UNCHANGED <<qpuVars, roundVars, planVars, freed, writes, prefix, sent, delivered, complete>>

(* on_decode_done of an escalated one: committed, its boundary held *)
DecodeEscalated(k) ==
  /\ mode.policy = "switching"
  /\ win[k].stage = "landed" /\ win[k].deps = 0
  /\ LET ws == [win EXCEPT ![k].stage = "asked", ![k].says = "weak", ![k].held = TRUE]
     IN  win' = ws /\ AfterCommit(win', FALSE)
  /\ UNCHANGED <<qpuVars, roundVars, planVars, freed, wdo, writes, dd>>

(* commit_weak_correction: the frame takes a window's correction once *)
SinkWeak ==
  /\ wdo # <<>>
  /\ wdo' = Tail(wdo) /\ writes' = Append(writes, Head(wdo))
  /\ UNCHANGED <<qpuVars, roundVars, planVars, win, freed, dd, prefix, sent, delivered, complete>>

SinkStrong(k) ==
  /\ win[k].stage = "asked"
  /\ win' = [win EXCEPT ![k].stage = "resolving"]
  /\ writes' = Append(writes, k)
  /\ UNCHANGED <<qpuVars, roundVars, planVars, freed, wdo, dd, prefix, sent, delivered, complete>>

(* _install_accepted_write and the commit it calls back *)
Install ==
  /\ writes # <<>>
  /\ writes' = Tail(writes)
  /\ LET k == Head(writes)
         strong == win[k].stage = "resolving"
         tier == IF strong THEN "strong" ELSE "weak"
         done == [win EXCEPT ![k].stage = "final", ![k].says = tier, ![k].entry = tier,
                             ![k].held = FALSE]
         ws == IF strong THEN Ship(done, k, "strong") ELSE done
     IN  /\ win' = ws
         /\ dd' = IF strong THEN dd \cup Deliveries(ws, k) ELSE dd
         /\ AfterCommit(win', strong)
  /\ UNCHANGED <<qpuVars, roundVars, planVars, freed, wdo>>

(* _receive_boundary of the current version *)
Receive(k) ==
  /\ k \in dd
  /\ dd' = dd \ {k}
  /\ LET ws == [win EXCEPT ![k + 1].deps = 0, ![k + 1].inb = win[k].out]
     IN  Settle(Check(ws, arrived, closed, end, got \ freed), got)
  /\ UNCHANGED <<qpuVars, roundVars, planVars, wdo, writes, prefix, sent, delivered, complete>>

-----------------------------------------------------------------------------
(* The QPU's side *)
Emitted == transit' = Append(transit, next')
Idles   == next - FoldFunctionOnSet(+, 0, Body[mode.kind], 1..Begun)

(* streams.begin: the segment is bound at the next free round; a segment   *)
(* that emits its own rounds reserves them now and starts at a later cycle *)
Begin ==
  /\ Begun < Len(Body[mode.kind])
  /\ Begun = 0 \/ (phase = "ended" /\ Begun \notin Waiting)
  /\ LET length == Body[mode.kind][Begun + 1]
     IN  /\ segEnd' = Append(segEnd, next + length)
         /\ next' = IF mode.kind = "protected" THEN next ELSE next + length
  /\ at' = 0
  /\ phase' = IF mode.kind = "protected" THEN "running" ELSE "waiting"
  /\ UNCHANGED <<mode, drops, roundVars, planVars, win, freed, lateVars>>

Start ==
  /\ phase = "waiting" /\ Begun > 0
  /\ phase' = "running"
  /\ UNCHANGED <<mode, next, segEnd, at, drops, roundVars, planVars, win, freed, lateVars>>

(* extend_live_stream, at every cycle in which no segment runs; the first  *)
(* segment has ended                                                       *)
IdleRound ==
  /\ mode.kind # "protected"
  /\ phase \in {"waiting", "ended"} /\ Begun >= (IF phase = "ended" THEN 1 ELSE 2)
  /\ IF Finite THEN next < Limit ELSE Idles < MaxIdle
  /\ next' = next + 1 /\ Emitted
  /\ UNCHANGED <<mode, segEnd, phase, at, drops, arrived, got, planVars, win, freed, lateVars>>

(* the protected cycle emits a round; it outlives the segments *)
ProtectedRound ==
  /\ mode.kind = "protected" /\ Begun > 0
  /\ \/ phase = "running" /\ next < segEnd[Begun] - (IF Begun = 1 THEN 1 ELSE 0)
     \/ phase = "ended" /\ Idles < MaxIdle
     \/ phase = "closing"
  /\ next' = next + 1 /\ Emitted
  /\ phase' = IF phase = "closing" THEN "sealing" ELSE phase
  /\ UNCHANGED <<mode, segEnd, at, drops, arrived, got, planVars, win, freed, lateVars>>

(* close_feedback_boundary, when the body ends and a successor still waits *)
CloseBoundary(b) ==
  /\ closed' = closed \cup {b}
  /\ LET shut == closed \cup {b}
         ws == Grow(win, b, None, shut, end)
         fresh == [k \in DOMAIN ws |->
                     IF ws[k].stage # "open" THEN ws[k]
                     ELSE [ws[k] EXCEPT !.rhi = ReadsTo(ws[k], shut, end)]]
     IN  Settle(Check(fresh, arrived, shut, end, got \ freed), got)

BodyEnds ==
  IF mode.feedback = "measurement_closed" /\ Begun \in Waiting
  THEN CloseBoundary(segEnd[Begun]) ELSE UNCHANGED <<closed, win, freed>>

BodyRound ==
  /\ mode.kind # "protected" /\ phase = "running"
  /\ at' = at + 1
  /\ transit' = Append(transit, segEnd[Begun] - Body[mode.kind][Begun] + at + 1)
  /\ IF at' = Body[mode.kind][Begun] THEN phase' = "ended" /\ BodyEnds
     ELSE UNCHANGED <<phase, closed, win, freed>>
  /\ UNCHANGED <<mode, next, segEnd, drops, arrived, got, end, lateVars>>

ProtectedBodyEnds ==
  /\ mode.kind = "protected" /\ phase = "running"
  /\ next = segEnd[Begun] - (IF Begun = 1 THEN 1 ELSE 0)
  /\ phase' = IF Begun = Len(Body[mode.kind]) THEN "closing" ELSE "ended"
  /\ BodyEnds
  /\ UNCHANGED <<mode, next, segEnd, at, drops, roundVars, end, lateVars>>

(* every operation has ended (seal_finished_streams), or the region's last *)
(* round is out (_seal_protected_region).  A release takes time, and the   *)
(* cycle that ends meanwhile emits its idle round before anything starts   *)
(* or ends (_tick).                                                        *)
CanSeal ==
  \/ /\ mode.kind = "open" /\ phase = "ended" /\ Idles > 0
     /\ Begun = Len(Body[mode.kind]) /\ Waiting = {}
  \/ phase = "sealing"
TailOf(ws) == {k \in DOMAIN ws : ws[k].lo <= next /\ next <= ws[k].hi}

(* trim_dynamic_window_tail *)
Clip(w, n) == [w EXCEPT !.hi = n, !.bhi = n + B, !.rhi = n]

(* the tail window is clipped; replace_hold wants its hold alive *)
Seal ==
  /\ CanSeal
  /\ LET ws == Grow(win, next, next, closed, end)
         tail == Min(TailOf(ws))
         clipped == [ws EXCEPT ![tail] = Clip(ws[tail], next)]
     IN  /\ ws[tail].stage = "open"
         /\ LET checked == Check(clipped, arrived, closed, next, got \ freed)
            IN  Settle(checked, got) /\ FinishWorkload(win', next)
  /\ end' = next /\ phase' = "sealed"
  /\ UNCHANGED <<mode, next, segEnd, at, drops, roundVars, closed,
                 wdo, writes, dd, prefix, sent, delivered>>

(* on_syndrome_arrival: count, plan, seal a finite stream, wake, release *)
Arrive ==
  /\ transit # <<>>
  /\ transit' = Tail(transit)
  /\ got' = got \cup {Head(transit)}
  /\ arrived' = Most(arrived, Head(transit))
  /\ LET full == Finite /\ arrived' >= Limit
         n == IF full THEN Limit ELSE end
         ws == Check(Grow(win, arrived', None, closed, end), arrived', closed, n, got' \ freed)
     IN  /\ end' = n
         /\ Settle(ws, got')
         /\ IF full /\ end = None THEN FinishWorkload(win', n) ELSE UNCHANGED complete
  /\ UNCHANGED <<qpuVars, closed, wdo, writes, dd, prefix, sent, delivered>>

(* packing gives a round up; a later one is on its way *)
Drop ==
  /\ Len(transit) > 1 /\ drops < MaxDrops
  /\ transit' = Tail(transit) /\ drops' = drops + 1
  /\ UNCHANGED <<mode, next, segEnd, phase, at, arrived, got, planVars, win, freed, lateVars>>

-----------------------------------------------------------------------------
Init ==
  /\ mode \in Modes
  /\ next = 0 /\ segEnd = <<>> /\ phase = "waiting" /\ at = 0 /\ drops = 0
  /\ transit = <<>> /\ arrived = 0 /\ got = {} /\ freed = {}
  /\ closed = {} /\ end = None /\ win = <<>>
  /\ wdo = <<>> /\ writes = <<>> /\ dd = {} /\ prefix = 0 /\ sent = {}
  /\ delivered = FALSE /\ complete = FALSE

Emission == Begin \/ Start \/ IdleRound \/ ProtectedRound \/ BodyRound
            \/ ProtectedBodyEnds \/ Seal
Decoding(k) == Land(k) \/ DecodeFinal(k) \/ DecodeEscalated(k) \/ SinkStrong(k) \/ Receive(k)
Work == Arrive \/ SinkWeak \/ Install \/ (\E k \in DOMAIN win : Decoding(k)) \/ Emission
Next == Work \/ Drop

(* The engine runs every scheduled event: rounds, transfers and decodes    *)
(* end, the cycle clock keeps emitting, a released operation starts.  No   *)
(* step of Work can be taken for ever (rounds are bounded, windows only    *)
(* advance), so one condition is as strong as one for each of its parts.   *)
Fairness == WF_vars(Work)
Spec == Init /\ [][Next]_vars /\ Fairness
-----------------------------------------------------------------------------
(* Every variable keeps its shape. *)
WindowType == [lo : Nat, hi : Nat, bhi : Nat, rhi : Nat, job : SUBSET Nat,
               stage : {"open", "queued", "landed", "sinking", "asked", "resolving", "final"},
               chained : BOOLEAN, deps : {0, 1}, held : BOOLEAN,
               inb : {"none", "weak", "strong"}, out : {"none", "weak", "strong"},
               entry : {"none", "weak", "strong"}, says : {"none", "weak", "strong"}]
TypeOK ==
  /\ mode \in Modes /\ {next, at, arrived, end, prefix, drops} \subseteq Nat
  /\ segEnd \in Seq(Nat) /\ win \in Seq(WindowType)
  /\ phase \in {"waiting", "running", "ended", "closing", "sealing", "sealed"}
  /\ transit \in Seq(Nat) /\ {wdo, writes} \subseteq Seq(DOMAIN win)
  /\ dd \subseteq DOMAIN win /\ got \subseteq Nat /\ freed \subseteq got
  /\ \A a \in sent : a.seg \in Blocking[mode.kind]
  /\ delivered \in BOOLEAN /\ complete \in BOOLEAN

(* A window planned behind another gets that one's boundary exactly once,  *)
(* whether it was created before the boundary was shipped, while it was    *)
(* held, in flight, or after; and no window is decoded on anything but its *)
(* predecessor's final result (create_dynamic_window, courier).            *)
BoundaryOnce ==
  \A k \in 2..Len(win) :
    LET source == win[k - 1]
    IN  /\ win[k].deps = 1 <=> win[k].chained /\ (source.out = "none" \/ k - 1 \in dd)
        /\ win[k].deps = 0 => win[k].inb = source.out /\ source.out # "none"
        /\ k - 1 \in dd => win[k].deps = 1
        /\ win[k].stage \notin {"open", "queued", "landed"} =>
             /\ source.stage \in {"sinking", "final"}
             /\ source.stage = "final" => win[k].inb = source.entry

(* A submitted window is decoded on every round of its range that the      *)
(* packing stage did not give up; what a waiting window will read has not  *)
(* left Buffer 0; and once the stream is delivered nothing of it is left   *)
(* or still comes (close_operation and _store_payload would raise).        *)
InputsRetained ==
  /\ \A k \in DOMAIN win :
       LET w == win[k]  range == w.lo..ReadsTo(w, closed, end)
       IN  /\ w.stage = "open" => freed \cap range = {}
           /\ w.stage # "open" => w.job = got \cap range
  /\ delivered => transit = <<>> /\ got = freed

(* The plan is one unbroken row of commit regions up to the end of the     *)
(* stream, sealing finds the tail window it has to clip still unsubmitted  *)
(* (trim_dynamic_window_tail), and the committed prefix is what the ledger *)
(* can answer for.                                                         *)
PlanTiles ==
  /\ \A k \in DOMAIN win : /\ win[k].lo = (IF k = 1 THEN 1 ELSE win[k - 1].hi + 1)
                            /\ win[k].lo <= win[k].hi
  /\ end # None => win # <<>> /\ win[Len(win)].hi = end
  /\ CanSeal => \A k \in TailOf(win) : win[k].stage = "open"
  /\ prefix = Max({0} \cup {win[k].hi : k \in {j \in DOMAIN win :
                                \A i \in 1..j : win[i].says # "none"}})

(* The windows of a growing stream cover it and find the rounds they read. *)
WindowsSound == TypeOK /\ InputsRetained /\ PlanTiles

(* What a segment's release was decided on never changes again: no strong  *)
(* result or later window alters a contribution inside it, and the frame   *)
(* agrees with the ledger (release_stream_segments_at_commit).             *)
ReleasedIsFinal ==
  /\ \A a \in sent : /\ a.result = Result(win, a.seg)
                     /\ \A k \in DOMAIN a.result : win[k].entry = a.result[k]
  /\ \A k \in DOMAIN win : win[k].entry # "none" => win[k].says = win[k].entry

(* Every stream is sealed, answered for and delivered: no window waits for *)
(* a boundary, a buffer round or a result that will not come.              *)
StreamSettles == <>(delivered /\ complete /\ Waiting = {})

(* "round r arrived (op now has rounds 1..n)" (_count_arrival): no round   *)
(* up to the arrival counter is still on its way.                          *)
CountedHaveArrived == \A i \in DOMAIN transit : transit[i] > arrived
=============================================================================

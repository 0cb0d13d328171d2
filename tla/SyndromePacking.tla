--------------------------- MODULE SyndromePacking ---------------------------
(***************************************************************************)
(* The controller's packing stage, decsim/controller/syndrome_packing.py:  *)
(* fragments of a round are assembled in a context, the finished round is  *)
(* stored in Buffer 0 and competes for its route, the CWB hop to the       *)
(* window manager or the WBD hop to feedback memory.                       *)
(*                                                                         *)
(* soon holds the zero-delay events in the order they were scheduled; they *)
(* may interleave with anything else due at the same tick.  A call that    *)
(* ends the run (FAIL_STOP, a reassembly timeout) is not a step.  Rounds   *)
(* join their route when complete (ON_COMPLETION, the default).  The two   *)
(* routes do not meet during one arbitration, so which goes first is left  *)
(* out; so is the write to syndrome buffer 1 (module SyndromeBuffer1).     *)
(***************************************************************************)
EXTENDS Subsequences, FiniteSets, SequencesExt

CONSTANTS
  Streams,        \* operations and live streams read by windows
  Memories,       \* idle patches, whose rounds are feedback-memory rounds
  Length,         \* rounds of each
  Slots,          \* fragments of a round
  Contexts,       \* packing_context_capacity, or Unbounded
  BufferSlots,    \* capacity of Buffer 0, or Unbounded
  Unbounded,
  DropRound,      \* DROP_ROUND, else FAIL_STOP
  Priced,         \* the CWB hop is wired and takes time
  PackTime,       \* t_pack > 0
  LetGoCrossing,  \* a round may lose its last reader before it is published
  MaxRefusals     \* bound: how often the window manager may refuse a round

Rounds == UNION {{<<s, k>> : k \in 1 .. Length[s]} : s \in Streams \cup Memories}
IsWindow(r) == r[1] \in Streams
Route(r) == IF IsWindow(r) THEN "window" ELSE "memory"

ASSUME PackingAssumption ==
  /\ Streams \cap Memories = {}
  /\ Length \in [Streams \cup Memories -> Nat \ {0}]
  /\ Slots \in [Streams \cup Memories -> Nat \ {0}]
  /\ \A m \in Memories : Slots[m] = 1
  /\ {DropRound, Priced, PackTime, LetGoCrossing} \subseteq BOOLEAN
  /\ BufferSlots # Unbounded => BufferSlots \in Nat
  /\ MaxRefusals \in Nat

VARIABLES
  got,        \* fragments of a round the controller received
  context,    \* state of a round's context, "none" when it has none
  packing,    \* complete rounds whose t_pack is running
  dropped,    \* _dropped_rounds
  queue,      \* _route_queues
  soon,       \* scheduled zero-delay events: arbitrations and releases
  cwb, wbd,   \* rounds on the two hops, in order
  reserved,   \* contexts with cwb_reserved
  published,  \* rounds with a publication tick
  stored,     \* rounds in Buffer 0
  wanted,     \* window rounds that a consumer holds in Buffer 0
  accepted,   \* rounds the window manager took, in order
  fed,        \* rounds delivered to feedback memory
  refusals

vars == <<got, context, packing, dropped, queue, soon, cwb, wbd, reserved,
          published, stored, wanted, accepted, fed, refusals>>

Arbitrate == <<"arbitrate">>
Release(r) == <<"release", r>>

Init ==
  /\ got = [r \in Rounds |-> {}]
  /\ context = [r \in Rounds |-> "none"]
  /\ packing = {} /\ dropped = {}
  /\ queue = [route \in {"window", "memory"} |-> <<>>]
  /\ soon = <<>> /\ cwb = <<>> /\ wbd = <<>>
  /\ reserved = {} /\ published = {} /\ stored = {}
  /\ wanted = {r \in Rounds : IsWindow(r)}
  /\ accepted = <<>> /\ fed = {}
  /\ refusals = 0

\* _schedule_arbitration: at most one is pending.
MutScheduleArbitration(events) == events
ScheduleArbitration(events) ==
  IF Arbitrate \in ToSet(events) THEN events ELSE Append(events, Arbitrate)

Live == {r \in Rounds : context[r] # "none"}

\* Rounds whose context is to be sent, for the first time or again.
Waiting == {r \in Rounds : context[r] = "wait"}

-----------------------------------------------------------------------------
(* Reassembly *)

Refused == BufferSlots # Unbounded /\ Cardinality(stored) >= BufferSlots

\* _finish_packing of a round whose context is in ctx: stored and queued, or
\* dropped by a full Buffer 0.
FinishPacking(r, ctx) ==
  \/ /\ Refused /\ DropRound
     /\ context' = [ctx EXCEPT ![r] = "none"]
     /\ dropped' = dropped \cup {r}
     /\ UNCHANGED <<queue, soon, stored, published>>
  \/ /\ ~Refused
     /\ context' = [ctx EXCEPT ![r] = "wait"]
     /\ stored' = stored \cup {r}
     /\ published' = IF Priced THEN published ELSE published \cup {r}
     /\ queue' = [queue EXCEPT ![Route(r)] = Append(@, r)]
     /\ soon' = ScheduleArbitration(soon)
     /\ UNCHANGED dropped

\* No free context for a first fragment.
NoContext(r) ==
  context[r] = "none" /\ Contexts # Unbounded /\ Cardinality(Live) >= Contexts

\* _receive_fragment.  The QC hop keeps the order of one patch's readouts.
Receive(r, i) ==
  /\ i \in 1 .. Slots[r[1]] /\ i \notin got[r]
  /\ r[2] > 1 => i \in got[<<r[1], r[2] - 1>>]
  /\ got' = [got EXCEPT ![r] = @ \cup {i}]
  /\ \/ /\ r \in dropped
        /\ UNCHANGED <<context, packing, dropped, queue, soon, stored, published>>
     \/ /\ r \notin dropped /\ NoContext(r) /\ DropRound
        /\ dropped' = dropped \cup {r}
        /\ UNCHANGED <<context, packing, queue, soon, stored, published>>
     \/ /\ r \notin dropped /\ ~NoContext(r)
        /\ LET ctx == [context EXCEPT ![r] = "partial"]
               complete == got'[r] = 1 .. Slots[r[1]]
               waits == complete /\ Slots[r[1]] > 1 /\ PackTime
           IN IF complete /\ ~waits
              THEN FinishPacking(r, ctx) /\ UNCHANGED packing
              ELSE /\ context' = ctx
                   /\ packing' = IF waits THEN packing \cup {r} ELSE packing
                   /\ UNCHANGED <<dropped, queue, soon, stored, published>>
  /\ UNCHANGED <<cwb, wbd, reserved, wanted, accepted, fed, refusals>>

\* t_pack has elapsed; packs of one stream end in the order they began.
PackEnds(r) ==
  /\ r \in packing
  /\ \A q \in packing : q[1] = r[1] => r[2] <= q[2]
  /\ packing' = packing \ {r}
  /\ FinishPacking(r, context)
  /\ UNCHANGED <<got, cwb, wbd, reserved, wanted, accepted, fed, refusals>>

-----------------------------------------------------------------------------
(* Routes *)

\* accept_window_input of the rounds a: a round nobody holds leaves Buffer 0
\* at once.
\* Every unheld round is swept, not only the ones handed over.
MutKeptAfterSweep(a) == stored \ {r \in Rounds : IsWindow(r) /\ r \notin wanted}
KeptAfter(a) == stored \ (ToSet(a) \ wanted)

\* A round that needs no (further) CWB hop is handed over on the spot.
Deliverable == {r \in Rounds : ~Priced \/ r \in reserved}

\* _drain_window_input_queue: every waiting round is sent in order, up to one
\* that the window manager refuses.
Sends(waiting, n) ==
  \/ n = Len(waiting)
  \/ n < Len(waiting) /\ waiting[n + 1] \in Deliverable /\ refusals < MaxRefusals

RunArbitration ==
  LET waiting == Those(queue["window"], Waiting)
      memory == queue["memory"]
      feeds == memory # <<>> /\ context[Head(memory)] = "wait"
  IN /\ soon # <<>> /\ Head(soon) = Arbitrate
     /\ \E n \in 0 .. Len(waiting) :
          LET sent == SubSeq(waiting, 1, n)
              now == Those(sent, Deliverable)
              away == Those(sent, Rounds \ Deliverable)
          IN /\ Sends(waiting, n)
             /\ refusals' = IF n < Len(waiting) THEN refusals + 1 ELSE refusals
             /\ context' = [r \in Rounds |->
                              IF r \in ToSet(sent) \/ (feeds /\ r = Head(memory))
                              THEN "draining" ELSE context[r]]
             /\ cwb' = cwb \o away
             /\ reserved' = reserved \cup ToSet(away)
             /\ accepted' = accepted \o now
             /\ stored' = KeptAfter(now)
             /\ soon' = Tail(soon) \o [i \in DOMAIN now |-> Release(now[i])]
     /\ wbd' = IF feeds THEN Append(wbd, Head(memory)) ELSE wbd
     /\ UNCHANGED <<got, packing, dropped, queue, published, wanted, fed>>

\* _refused_round_ahead_of
MutRefusedAhead(r) == FALSE
RefusedAhead(r) ==
  \E i, j \in DOMAIN queue["window"] :
    /\ i < j /\ queue["window"][j] = r
    /\ context[queue["window"][i]] = "wait"

\* _deliver_window_input_round at the end of the CWB hop.
Deliver ==
  /\ cwb # <<>>
  /\ LET r == Head(cwb)
     IN /\ r \in stored
        /\ published' = published \cup {r}
        /\ \/ /\ RefusedAhead(r) \/ refusals < MaxRefusals
              /\ context' = [context EXCEPT ![r] = "wait"]
              /\ refusals' = IF RefusedAhead(r) THEN refusals ELSE refusals + 1
              /\ UNCHANGED <<accepted, stored, soon>>
           \/ /\ ~RefusedAhead(r)
              /\ accepted' = Append(accepted, r)
              /\ stored' = KeptAfter(<<r>>)
              /\ soon' = Append(soon, Release(r))
              /\ UNCHANGED <<context, refusals>>
  /\ cwb' = Tail(cwb)
  /\ UNCHANGED <<got, packing, dropped, queue, wbd, reserved, wanted, fed>>

\* _release_context
Retire(r, events) ==
  /\ queue[Route(r)] # <<>> /\ Head(queue[Route(r)]) = r
  /\ queue' = [queue EXCEPT ![Route(r)] = Tail(@)]
  /\ context' = [context EXCEPT ![r] = "none"]
  /\ soon' = IF \A route \in DOMAIN queue' : queue'[route] = <<>>
             THEN events ELSE ScheduleArbitration(events)

RunRelease ==
  /\ soon # <<>> /\ Head(soon) # Arbitrate
  /\ Retire(Head(soon)[2], Tail(soon))
  /\ UNCHANGED <<got, packing, dropped, cwb, wbd, reserved, published, stored,
                 wanted, accepted, fed, refusals>>

\* _deliver_feedback_memory_round
DeliverMemory ==
  /\ wbd # <<>>
  /\ Head(wbd) \in stored
  /\ fed' = fed \cup {Head(wbd)}
  /\ stored' = stored \ {Head(wbd)}
  /\ wbd' = Tail(wbd)
  /\ Retire(Head(wbd), soon)
  /\ UNCHANGED <<got, packing, dropped, cwb, reserved, published, wanted,
                 accepted, refusals>>

\* notify_window_input_ready: a receiver that refused has room again.
NotifyReady ==
  /\ Waiting \cap Deliverable # {}
  /\ Arbitrate \notin ToSet(soon)
  /\ soon' = ScheduleArbitration(soon)
  /\ UNCHANGED <<got, context, packing, dropped, queue, cwb, wbd, reserved,
                 published, stored, wanted, accepted, fed, refusals>>

\* The last consumer lets go of a round: it was read, or the windows that
\* would have read it were absorbed.
LetGo(r) ==
  /\ r \in wanted
  /\ r \in ToSet(accepted) \/ r \notin stored \/ LetGoCrossing
  /\ wanted' = wanted \ {r}
  /\ stored' = stored \ {r}
  /\ UNCHANGED <<got, context, packing, dropped, queue, soon, cwb, wbd,
                 reserved, published, accepted, fed, refusals>>

Next ==
  \/ \E r \in Rounds : \/ \E i \in 1 .. Slots[r[1]] : Receive(r, i)
                       \/ PackEnds(r)
                       \/ LetGo(r)
  \/ RunArbitration
  \/ RunRelease
  \/ Deliver
  \/ DeliverMemory
  \/ NotifyReady

\* The device emits every fragment, hops and packs end, scheduled events run,
\* and a receiver that refused a round says when it has room again.
Fairness ==
  /\ \A r \in Rounds : /\ \A i \in 1 .. Slots[r[1]] : WF_vars(Receive(r, i))
                       /\ WF_vars(PackEnds(r))
  /\ WF_vars(RunArbitration) /\ WF_vars(RunRelease)
  /\ WF_vars(Deliver) /\ WF_vars(DeliverMemory) /\ WF_vars(NotifyReady)

Spec == Init /\ [][Next]_vars /\ Fairness

-----------------------------------------------------------------------------
(* Type *)

\* The shape of the stage's tables.
TypeOK ==
  /\ \A r \in Rounds : got[r] \subseteq 1 .. Slots[r[1]]
  /\ context \in [Rounds -> {"none", "partial", "wait", "draining"}]
  /\ UNION {packing, dropped, reserved, published, stored, wanted, fed}
       \subseteq Rounds
  /\ \A route \in DOMAIN queue : \A r \in ToSet(queue[route]) : Route(r) = route
  /\ UNION {ToSet(cwb), ToSet(wbd), ToSet(accepted)} \subseteq Rounds
  /\ BufferSlots # Unbounded => Cardinality(stored) <= BufferSlots

(* Safety *)

\* The rounds waiting for their release are, in order, the front of the window
\* route: _release_context never finds another round at the head, whatever is
\* in flight, refused or retried behind it.
ReleasesInOrder ==
  LET events == Those(soon, {Release(r) : r \in Rounds})
  IN IsPrefix([i \in DOMAIN events |-> events[i][2]], queue["window"])

\* A round is handed to the window manager once, and the rounds of a stream in
\* order, a dropped one left out: the arrival counter of the manager is the
\* highest index seen.
AcceptedInOrder ==
  /\ \A i, j \in DOMAIN accepted :
       i < j /\ accepted[i][1] = accepted[j][1] => accepted[i][2] < accepted[j][2]
  /\ \A r \in ToSet(accepted) : \A k \in 1 .. (r[2] - 1) :
       <<r[1], k>> \in ToSet(accepted) \cup dropped

\* A window round on its way to the window manager is retained in Buffer 0:
\* mark_publication_tick and the manager's check of the retained slot find it.
CrossingIsRetained ==
  \A r \in Rounds :
    r \notin ToSet(accepted) /\ context[r] \in {"wait", "draining"} /\ IsWindow(r)
      => r \in stored

\* Buffer 0 keeps nothing that neither a context nor a consumer answers for.
StoredIsOwned == \A r \in stored : context[r] # "none" \/ r \in wanted

\* Buffer 0 keeps exactly what still has to be handed over or read.
RetentionSound == TypeOK /\ CrossingIsRetained /\ StoredIsOwned

\* Rounds leave and are accepted in their order, refusals and drops included.
HandoverInOrder == ReleasesInOrder /\ AcceptedInOrder

(* Liveness *)

\* Every round of the workload is handed on or dropped, and its context ends:
\* check_work_settled finds nothing.
EveryRoundSettles ==
  \A r \in Rounds : <>[](/\ r \in ToSet(accepted) \cup fed \cup dropped
                         /\ context[r] = "none")

=============================================================================

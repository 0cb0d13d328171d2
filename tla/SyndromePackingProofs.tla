------------------------ MODULE SyndromePackingProofs ------------------------
(***************************************************************************)
(* Proofs about SyndromePacking, for any workload, capacities and timing.  *)
(***************************************************************************)
EXTENDS SyndromePacking, SequenceFacts

Stages   == {"none", "partial", "wait", "draining"}
Routes   == {"window", "memory"}
Releases == {Release(r) : r \in Rounds}
Events   == {Arbitrate} \cup Releases

\* A round whose packing has not ended.
Complete(r)   == got[r] = 1 .. Slots[r[1]]
Unfinished(r) == ~Complete(r) \/ context[r] = "partial"

\* The release events of a sequence of rounds, as RunArbitration appends them.
AsEvents(s) == [i \in DOMAIN s |-> Release(s[i])]

-----------------------------------------------------------------------------
(* The inductive invariant: shape and retention *)

Shape ==
  /\ got \in [Rounds -> SUBSET Nat]
  /\ \A r \in Rounds : got[r] \subseteq 1 .. Slots[r[1]]
  /\ context \in [Rounds -> Stages]
  /\ packing \subseteq Rounds /\ dropped \subseteq Rounds
  /\ reserved \subseteq Rounds /\ published \subseteq Rounds
  /\ stored \subseteq Rounds /\ wanted \subseteq Rounds /\ fed \subseteq Rounds
  /\ queue \in [Routes -> Seq(Rounds)]
  /\ \A route \in Routes : \A r \in ToSet(queue[route]) : Route(r) = route
  /\ soon \in Seq(Events)
  /\ cwb \in Seq(Rounds) /\ wbd \in Seq(Rounds) /\ accepted \in Seq(Rounds)

\* Buffer 0 is never over its capacity.
Room ==
  /\ IsFiniteSet(stored)
  /\ BufferSlots # Unbounded => Cardinality(stored) <= BufferSlots

\* A round that is still being assembled is nowhere else yet.
Assembly ==
  /\ \A r \in Rounds : Unfinished(r) =>
       /\ context[r] \in {"none", "partial"}
       /\ r \notin stored /\ r \notin ToSet(accepted) /\ r \notin reserved
  /\ \A r \in packing :
       context[r] = "partial" /\ Complete(r) /\ PackTime /\ Slots[r[1]] > 1

\* What is on a hop or scheduled belongs to its route.
Hops ==
  /\ \A r \in ToSet(wbd) : ~IsWindow(r)
  /\ \A r \in ToSet(cwb) : IsWindow(r)
  /\ \A r \in ToSet(accepted) : IsWindow(r)
  /\ \A r \in Rounds : Release(r) \in ToSet(soon) => r \in ToSet(accepted)

\* What Buffer 0 keeps, and for whom.
Retained ==
  /\ \A r \in ToSet(accepted) : r \in stored => r \in wanted
  /\ CrossingIsRetained
  /\ StoredIsOwned

BInv == Shape /\ Room /\ Assembly /\ Hops
RInv == BInv /\ Retained

-----------------------------------------------------------------------------
(* The operators *)

\* A round is a source and an index, and so are the ones before it.
LEMMA RoundPairs ==
  \A r \in Rounds :
    /\ r = <<r[1], r[2]>> /\ r[1] \in Streams \cup Memories
    /\ r[2] \in Nat /\ r[2] >= 1 /\ Slots[r[1]] \in Nat /\ Slots[r[1]] >= 1
    /\ \A k \in 1 .. r[2] : <<r[1], k>> \in Rounds
BY PackingAssumption DEF Rounds

\* The two kinds of events, and what a release carries.
LEMMA EventKinds ==
  /\ \A r : Release(r) # Arbitrate /\ Release(r)[2] = r
  /\ \A r, q : Release(r) = Release(q) => r = q
  /\ Arbitrate \notin Releases
  /\ \A r \in Rounds : Release(r) \in Events
<1>1. \A r : Release(r)[1] = "release" /\ Release(r)[2] = r
  BY DEF Release
<1>2. Arbitrate[1] = "arbitrate"
  BY DEF Arbitrate
<1>3. \A r : Release(r) # Arbitrate
  BY <1>1, <1>2
<1> QED BY <1>1, <1>3 DEF Releases, Events

\* A round takes the window route or the memory route.
LEMMA RouteOf ==
  \A r : /\ Route(r) \in Routes
         /\ Route(r) = "window" <=> IsWindow(r)
         /\ Route(r) = "memory" <=> ~IsWindow(r)
BY DEF Route, Routes

\* Scheduling an arbitration adds nothing else.
LEMMA Scheduled ==
  ASSUME NEW s \in Seq(Events)
  PROVE  /\ ScheduleArbitration(s) \in Seq(Events)
         /\ \A r : Release(r) \in ToSet(ScheduleArbitration(s))
                     <=> Release(r) \in ToSet(s)
<1>1. Arbitrate \in Events
  BY DEF Events
<1>2. Append(s, Arbitrate) \in Seq(Events)
      /\ ToSet(Append(s, Arbitrate)) = ToSet(s) \cup {Arbitrate}
  BY <1>1, AppendElements
<1> QED BY <1>2, EventKinds DEF ScheduleArbitration

\* The release events of rounds.
LEMMA AsEventsElements ==
  ASSUME NEW s \in Seq(Rounds)
  PROVE  /\ AsEvents(s) \in Seq(Events)
         /\ ToSet(AsEvents(s)) = {Release(r) : r \in ToSet(s)}
<1>1. Len(s) \in Nat /\ DOMAIN s = 1 .. Len(s)
  BY LenProperties
<1>2. \A i \in 1 .. Len(s) : Release(s[i]) \in Events
  BY ElementOfSeq, EventKinds
<1>3. AsEvents(s) = [i \in 1 .. Len(s) |-> Release(s[i])]
  BY <1>1 DEF AsEvents
<1>4. AsEvents(s) \in Seq(Events)
  BY <1>1, <1>2, <1>3, IsASeq
<1> QED BY <1>1, <1>3, <1>4 DEF ToSet

-----------------------------------------------------------------------------
(* Reassembly *)

Untouched == UNCHANGED <<cwb, wbd, reserved, wanted, accepted, fed, refusals>>

\* It is r's turn: its last fragment has arrived and needs no pack time, or
\* its pack time has elapsed, the first of its source to do so.
LastFragment(r, i) ==
  /\ i \in 1 .. Slots[r[1]] /\ i \notin got[r]
  /\ r[2] > 1 => i \in got[<<r[1], r[2] - 1>>]
  /\ got[r] \cup {i} = 1 .. Slots[r[1]]
  /\ ~(Slots[r[1]] > 1 /\ PackTime)
Turn(r) ==
  \/ \E i \in 1 .. Slots[r[1]] : LastFragment(r, i)
  \/ r \in packing /\ \A q \in packing : q[1] = r[1] => r[2] <= q[2]

\* The packing of r ends.
Finishing(r) ==
  /\ Unfinished(r)
  /\ Turn(r)
  /\ got' = [got EXCEPT ![r] = 1 .. Slots[r[1]]]
  /\ packing' = packing \ {r}
  /\ FinishPacking(r, context)
  /\ Untouched

\* A fragment of r arrives that does not end its packing.
Assembling(r, i) ==
  /\ i \in 1 .. Slots[r[1]] /\ i \notin got[r]
  /\ r[2] > 1 => i \in got[<<r[1], r[2] - 1>>]
  /\ got' = [got EXCEPT ![r] = @ \cup {i}]
  /\ \/ /\ dropped' = dropped \cup {r}
        /\ UNCHANGED <<context, packing>>
     \/ /\ context' = [context EXCEPT ![r] = "partial"]
        /\ \/ /\ packing' = packing
              /\ got'[r] # 1 .. Slots[r[1]]
           \/ /\ packing' = packing \cup {r}
              /\ got'[r] = 1 .. Slots[r[1]] /\ PackTime /\ Slots[r[1]] > 1
        /\ UNCHANGED dropped
  /\ UNCHANGED <<queue, soon, stored, published>>
  /\ Untouched

\* The two kinds of a fragment's arrival.
LEMMA ReceiveKinds ==
  ASSUME Shape, Assembly, NEW r \in Rounds, NEW i, Receive(r, i)
  PROVE  Assembling(r, i) \/ Finishing(r)
<1> DEFINE ctx == [context EXCEPT ![r] = "partial"]
           complete == got'[r] = 1 .. Slots[r[1]]
           waits == complete /\ Slots[r[1]] > 1 /\ PackTime
<1>1. /\ i \in 1 .. Slots[r[1]] /\ i \notin got[r]
      /\ r[2] > 1 => i \in got[<<r[1], r[2] - 1>>]
      /\ got' = [got EXCEPT ![r] = @ \cup {i}]
      /\ Untouched
  BY DEF Receive, Untouched
<1>2. got \in [Rounds -> SUBSET Nat] /\ context \in [Rounds -> Stages]
  BY DEF Shape
<1>3. ~Complete(r) /\ Unfinished(r)
  BY <1>1 DEF Complete, Unfinished
<1>4. r \notin packing
  BY <1>3 DEF Assembly
<1>5. CASE /\ r \in dropped
           /\ UNCHANGED <<context, packing, dropped, queue, soon, stored, published>>
  BY <1>1, <1>5 DEF Assembling
<1>6. CASE /\ dropped' = dropped \cup {r}
           /\ UNCHANGED <<context, packing, queue, soon, stored, published>>
  BY <1>1, <1>6 DEF Assembling
<1>7. CASE complete /\ ~waits /\ FinishPacking(r, ctx) /\ UNCHANGED packing
  <2>1. [ctx EXCEPT ![r] = "none"] = [context EXCEPT ![r] = "none"]
        /\ [ctx EXCEPT ![r] = "wait"] = [context EXCEPT ![r] = "wait"]
    BY <1>2
  <2>2. FinishPacking(r, context)
    BY <1>7, <2>1 DEF FinishPacking
  <2>3. got' = [got EXCEPT ![r] = 1 .. Slots[r[1]]]
    BY <1>1, <1>2, <1>7
  <2>4. packing' = packing \ {r}
    BY <1>4, <1>7
  <2>5. LastFragment(r, i)
    BY <1>1, <1>2, <1>7 DEF LastFragment
  <2>6. Turn(r)
    BY <1>1, <2>5 DEF Turn
  <2> QED BY <1>1, <1>3, <2>2, <2>3, <2>4, <2>6 DEF Finishing
<1>8. CASE /\ ~(complete /\ ~waits) /\ context' = ctx
           /\ packing' = IF waits THEN packing \cup {r} ELSE packing
           /\ UNCHANGED <<dropped, queue, soon, stored, published>>
  BY <1>1, <1>8 DEF Assembling
<1> QED BY <1>5, <1>6, <1>7, <1>8 DEF Receive

\* The end of a pack time is one of them.
LEMMA PackEndsKind ==
  ASSUME Shape, Assembly, NEW r \in Rounds, PackEnds(r)
  PROVE  Finishing(r)
<1>1. r \in packing /\ Complete(r) /\ Unfinished(r)
  BY DEF PackEnds, Assembly, Unfinished
<1>2. got' = [got EXCEPT ![r] = 1 .. Slots[r[1]]]
  BY <1>1 DEF PackEnds, Complete, Shape
<1>3. Turn(r)
  BY DEF PackEnds, Turn
<1> QED BY <1>1, <1>2, <1>3 DEF PackEnds, Finishing, Untouched

\* A fragment that does not end a packing.
LEMMA AssemblingRetains ==
  ASSUME BInv, NEW r \in Rounds, NEW i, Assembling(r, i)
  PROVE  BInv' /\ (Retained => Retained')
<1>1. UNCHANGED <<queue, soon, stored, published, cwb, wbd, reserved, wanted,
                  accepted, fed>>
  BY DEF Assembling, Untouched
<1>2. /\ got \in [Rounds -> SUBSET Nat] /\ context \in [Rounds -> Stages]
      /\ got[r] \subseteq 1 .. Slots[r[1]] /\ i \in 1 .. Slots[r[1]]
      /\ got' = [got EXCEPT ![r] = got[r] \cup {i}]
  BY DEF Assembling, Shape, BInv
<1>3. /\ got'[r] = got[r] \cup {i}
      /\ \A q \in Rounds : q # r => got'[q] = got[q]
  BY <1>2
<1>4. /\ context[r] \in {"none", "partial"} /\ r \notin stored
      /\ r \notin ToSet(accepted) /\ r \notin reserved /\ r \notin packing
  <2>1. ~Complete(r) /\ Unfinished(r)
    BY DEF Assembling, Complete, Unfinished
  <2> QED BY <2>1 DEF BInv, Assembly
<1>5. /\ context' \in [Rounds -> Stages]
      /\ context'[r] \in {"none", "partial"}
      /\ \A q \in Rounds : q # r => context'[q] = context[q]
      /\ context[r] = "partial" => context'[r] = "partial"
  BY <1>2, <1>4 DEF Assembling, Stages
<1>6. Shape'
  <2>1. got' \in [Rounds -> SUBSET Nat]
        /\ \A q \in Rounds : got'[q] \subseteq 1 .. Slots[q[1]]
    <3>1. got[r] \cup {i} \subseteq 1 .. Slots[r[1]] /\ Slots[r[1]] \in Nat
      BY <1>2, RoundPairs
    <3> QED BY <1>2, <1>3, <3>1 DEF Shape, BInv
  <2>2. packing' \subseteq Rounds /\ dropped' \subseteq Rounds
    BY DEF Assembling, Shape, BInv
  <2> QED BY <1>1, <1>5, <2>1, <2>2 DEF Shape, BInv
<1>7. Room'
  BY <1>1 DEF BInv, Room
<1>8. Assembly'
  <2>1. \A q \in Rounds : q # r => (Unfinished(q)' <=> Unfinished(q))
    BY <1>3, <1>5 DEF Unfinished, Complete
  <2>2. \A q \in Rounds : Unfinished(q)' =>
          /\ context'[q] \in {"none", "partial"}
          /\ q \notin stored /\ q \notin ToSet(accepted) /\ q \notin reserved
    BY <1>4, <1>5, <2>1 DEF BInv, Assembly
  <2>3. \A q \in packing' :
          context'[q] = "partial" /\ Complete(q)' /\ PackTime /\ Slots[q[1]] > 1
    <3>1. CASE packing' = packing
      BY <1>3, <1>4, <1>5, <3>1 DEF BInv, Assembly, Complete, Shape
    <3>2. CASE /\ packing' = packing \cup {r} /\ got'[r] = 1 .. Slots[r[1]]
               /\ PackTime /\ Slots[r[1]] > 1
               /\ context' = [context EXCEPT ![r] = "partial"]
      BY <1>2, <1>3, <1>5, <3>2 DEF BInv, Assembly, Complete, Shape
    <3> QED BY <3>1, <3>2 DEF Assembling
  <2> QED BY <1>1, <2>2, <2>3 DEF Assembly
<1>9. Hops'
  BY <1>1 DEF BInv, Hops
<1>10. ASSUME Retained PROVE Retained'
  <2>1. CrossingIsRetained'
    BY <1>10, <1>1, <1>4, <1>5 DEF BInv, Retained, CrossingIsRetained
  <2>2. StoredIsOwned'
    BY <1>10, <1>1, <1>4, <1>5 DEF BInv, Retained, StoredIsOwned, Shape
  <2> QED BY <1>10, <1>1, <2>1, <2>2 DEF BInv, Retained
<1> QED BY <1>6, <1>7, <1>8, <1>9, <1>10 DEF BInv

\* One round more in Buffer 0.
LEMMA RoomForOne ==
  ASSUME Room, ~Refused, NEW r
  PROVE  /\ IsFiniteSet(stored \cup {r})
         /\ BufferSlots # Unbounded =>
              Cardinality(stored \cup {r}) <= BufferSlots
<1>1. IsFiniteSet(stored) /\ Cardinality(stored) \in Nat
  BY FS_CardinalityType DEF Room
<1>2. CASE r \in stored
  <2>1. stored \cup {r} = stored
    BY <1>2
  <2> QED BY <2>1 DEF Room
<1>3. CASE r \notin stored
  <2>1. IsFiniteSet(stored \cup {r})
        /\ Cardinality(stored \cup {r}) = Cardinality(stored) + 1
    BY <1>1, <1>3, FS_AddElement
  <2>2. BufferSlots # Unbounded => Cardinality(stored) + 1 <= BufferSlots
    BY <1>1, PackingAssumption DEF Refused
  <2> QED BY <2>1, <2>2
<1> QED BY <1>2, <1>3

\* The end of a packing: the round is stored and queued, or dropped.
LEMMA FinishingRetains ==
  ASSUME BInv, NEW r \in Rounds, Finishing(r)
  PROVE  BInv' /\ (Retained => Retained')
<1>1. UNCHANGED <<cwb, wbd, reserved, wanted, accepted, fed>>
  BY DEF Finishing, Untouched
<1>2. /\ got \in [Rounds -> SUBSET Nat] /\ context \in [Rounds -> Stages]
      /\ queue \in [Routes -> Seq(Rounds)] /\ soon \in Seq(Events)
      /\ stored \subseteq Rounds /\ packing \subseteq Rounds
  BY DEF Shape, BInv
<1>3. /\ got'[r] = 1 .. Slots[r[1]] /\ Slots[r[1]] \in Nat
      /\ \A q \in Rounds : q # r => got'[q] = got[q]
      /\ got' \in [Rounds -> SUBSET Nat]
      /\ packing' = packing \ {r}
  BY <1>2, RoundPairs DEF Finishing
<1>4. /\ context[r] \in {"none", "partial"} /\ r \notin stored
      /\ r \notin ToSet(accepted) /\ r \notin reserved
  BY DEF Finishing, BInv, Assembly
<1>5. /\ context' \in [Rounds -> Stages] /\ context'[r] \in {"none", "wait"}
      /\ \A q \in Rounds : q # r => context'[q] = context[q]
  <2>1. context' = [context EXCEPT ![r] = "none"]
        \/ context' = [context EXCEPT ![r] = "wait"]
    BY DEF Finishing, FinishPacking
  <2> QED BY <1>2, <2>1 DEF Stages
<1>6. \/ stored' = stored /\ context'[r] = "none"
      \/ /\ stored' = stored \cup {r} /\ context'[r] = "wait"
         /\ ~Refused
  BY <1>2 DEF Finishing, FinishPacking
<1>7. /\ queue' \in [Routes -> Seq(Rounds)]
      /\ \A route \in Routes : ToSet(queue'[route]) \subseteq
           ToSet(queue[route]) \cup {q \in {r} : Route(q) = route}
  <2>1. CASE queue' = queue
    BY <1>2, <2>1
  <2>2. CASE queue' = [queue EXCEPT ![Route(r)] = Append(@, r)]
    <3>1. Route(r) \in Routes /\ queue[Route(r)] \in Seq(Rounds)
      BY <1>2, RouteOf
    <3>2. Append(queue[Route(r)], r) \in Seq(Rounds)
          /\ ToSet(Append(queue[Route(r)], r)) = ToSet(queue[Route(r)]) \cup {r}
      BY <3>1, AppendElements
    <3> QED BY <1>2, <2>2, <3>1, <3>2
  <2> QED BY <2>1, <2>2 DEF Finishing, FinishPacking
<1>8. /\ soon' \in Seq(Events)
      /\ \A q : Release(q) \in ToSet(soon') <=> Release(q) \in ToSet(soon)
  BY <1>2, Scheduled DEF Finishing, FinishPacking
<1>9. Shape'
  <2>1. dropped' \subseteq Rounds /\ published' \subseteq Rounds
    BY DEF Finishing, FinishPacking, BInv, Shape
  <2>2. \A q \in Rounds : got'[q] \subseteq 1 .. Slots[q[1]]
    BY <1>3 DEF BInv, Shape
  <2>3. \A route \in Routes : \A q \in ToSet(queue'[route]) : Route(q) = route
    BY <1>7 DEF BInv, Shape
  <2> QED BY <1>1, <1>2, <1>3, <1>5, <1>6, <1>7, <1>8, <2>1, <2>2, <2>3
          DEF BInv, Shape
<1>10. Room'
  <2>1. CASE stored' = stored
    BY <2>1 DEF BInv, Room
  <2>2. CASE stored' = stored \cup {r} /\ ~Refused
    BY <2>2, RoomForOne DEF BInv, Room
  <2> QED BY <1>6, <2>1, <2>2
<1>11. Assembly'
  <2>1. \A q \in Rounds : q # r => (Unfinished(q)' <=> Unfinished(q))
    BY <1>3, <1>5 DEF Unfinished, Complete
  <2>2. ~Unfinished(r)'
    BY <1>3, <1>5 DEF Unfinished, Complete
  <2>3. \A q \in Rounds : Unfinished(q)' =>
          /\ context'[q] \in {"none", "partial"}
          /\ q \notin stored' /\ q \notin ToSet(accepted) /\ q \notin reserved
    BY <1>5, <1>6, <2>1, <2>2 DEF BInv, Assembly
  <2>4. \A q \in packing' :
          context'[q] = "partial" /\ Complete(q)' /\ PackTime /\ Slots[q[1]] > 1
    BY <1>2, <1>3, <1>5 DEF BInv, Assembly, Complete
  <2> QED BY <1>1, <2>3, <2>4 DEF Assembly
<1>12. Hops'
  BY <1>1, <1>8 DEF BInv, Hops
<1>13. ASSUME Retained PROVE Retained'
  <2>1. CrossingIsRetained'
    BY <1>13, <1>1, <1>5, <1>6 DEF BInv, Retained, CrossingIsRetained
  <2>2. StoredIsOwned'
    BY <1>13, <1>1, <1>2, <1>4, <1>5, <1>6 DEF BInv, Retained, StoredIsOwned
  <2> QED BY <1>13, <1>1, <1>4, <1>6, <2>1, <2>2 DEF BInv, Retained
<1> QED BY <1>9, <1>10, <1>11, <1>12, <1>13 DEF BInv

-----------------------------------------------------------------------------
(* Routes *)

\* One arbitration by its cut: the first n waiting rounds are sent.
InLine  == Those(queue["window"], Waiting)
Sent(n) == SubSeq(InLine, 1, n)
Now(n)  == Those(Sent(n), Deliverable)
Away(n) == Those(Sent(n), Rounds \ Deliverable)
Feeds   == queue["memory"] # <<>> /\ context[Head(queue["memory"])] = "wait"

Arbitrated(n) ==
  /\ Sends(InLine, n)
  /\ context' = [r \in Rounds |->
                   IF r \in ToSet(Sent(n)) \/ (Feeds /\ r = Head(queue["memory"]))
                   THEN "draining" ELSE context[r]]
  /\ cwb' = cwb \o Away(n)
  /\ reserved' = reserved \cup ToSet(Away(n))
  /\ accepted' = accepted \o Now(n)
  /\ stored' = KeptAfter(Now(n))
  /\ soon' = Tail(soon) \o AsEvents(Now(n))

\* An arbitration cuts the window queue in two: what it sends and what stays.
LEMMA ArbitrationCut ==
  ASSUME RunArbitration
  PROVE  /\ soon # <<>> /\ Head(soon) = Arbitrate
         /\ \E n \in 0 .. Len(InLine) : Arbitrated(n)
         /\ wbd' = IF Feeds THEN Append(wbd, Head(queue["memory"])) ELSE wbd
         /\ UNCHANGED <<got, packing, dropped, queue, published, wanted, fed>>
BY DEF RunArbitration, Arbitrated, InLine, Sent, Now, Away, Feeds, AsEvents

\* What is sent was waiting on the window route.
LEMMA SentRounds ==
  ASSUME Shape, NEW n \in 0 .. Len(InLine)
  PROVE  /\ InLine \in Seq(Rounds) /\ Sent(n) \in Seq(Rounds)
         /\ Now(n) \in Seq(Rounds) /\ Away(n) \in Seq(Rounds)
         /\ \A r \in ToSet(Sent(n)) : r \in Rounds /\ context[r] = "wait" /\ IsWindow(r)
         /\ ToSet(Now(n)) = ToSet(Sent(n)) \cap Deliverable
         /\ ToSet(Away(n)) = ToSet(Sent(n)) \ Deliverable
<1>1. queue["window"] \in Seq(Rounds)
      /\ \A r \in ToSet(queue["window"]) : IsWindow(r)
  BY RouteOf DEF Shape, Routes
<1>2. InLine \in Seq(Rounds) /\ ToSet(InLine) = ToSet(queue["window"]) \cap Waiting
  BY <1>1, ThoseElements DEF InLine
<1>3. Sent(n) \in Seq(Rounds) /\ ToSet(Sent(n)) \subseteq ToSet(InLine)
  BY <1>2, CutElements DEF Sent
<1>4. Now(n) \in Seq(Rounds) /\ ToSet(Now(n)) = ToSet(Sent(n)) \cap Deliverable
  BY <1>3, ThoseElements DEF Now
<1>5. Away(n) \in Seq(Rounds)
      /\ ToSet(Away(n)) = ToSet(Sent(n)) \cap (Rounds \ Deliverable)
  BY <1>3, ThoseElements DEF Away
<1>6. ToSet(Sent(n)) \subseteq Rounds
  BY <1>3, ToSetOfSeq
<1> QED BY <1>1, <1>2, <1>3, <1>4, <1>5, <1>6 DEF Waiting

\* The memory round that goes on its hop.
LEMMA FedRound ==
  ASSUME Shape, Feeds
  PROVE  /\ Head(queue["memory"]) \in Rounds
         /\ ~IsWindow(Head(queue["memory"]))
         /\ context[Head(queue["memory"])] = "wait"
<1>1. queue["memory"] \in Seq(Rounds) /\ queue["memory"] # <<>>
  BY DEF Shape, Routes, Feeds
<1>2. Head(queue["memory"]) \in ToSet(queue["memory"])
  BY <1>1, HeadAndTail
<1>3. Route(Head(queue["memory"])) = "memory"
  BY <1>2 DEF Shape, Routes
<1> QED BY <1>1, <1>3, RouteOf, HeadAndTail DEF Feeds

\* What Buffer 0 keeps can only become less.
LEMMA RoomForLess ==
  ASSUME Room, NEW S, S \subseteq stored
  PROVE  /\ IsFiniteSet(S)
         /\ BufferSlots # Unbounded => Cardinality(S) <= BufferSlots
<1>1. IsFiniteSet(S) /\ Cardinality(S) \in Nat /\ Cardinality(stored) \in Nat
      /\ Cardinality(S) <= Cardinality(stored)
  BY PartOfFinite DEF Room
<1> QED BY <1>1, PackingAssumption DEF Room

\* An arbitration.
LEMMA ArbitrationRetains ==
  ASSUME BInv, RunArbitration
  PROVE  BInv' /\ (Retained => Retained')
<1>1. PICK n \in 0 .. Len(InLine) : Arbitrated(n)
  BY ArbitrationCut
<1>2. /\ soon # <<>> /\ Head(soon) = Arbitrate
      /\ wbd' = IF Feeds THEN Append(wbd, Head(queue["memory"])) ELSE wbd
      /\ UNCHANGED <<got, packing, dropped, queue, published, wanted, fed>>
  BY ArbitrationCut
<1> DEFINE sent == ToSet(Sent(n))
           now == Now(n)
           away == Away(n)
<1>3. /\ now \in Seq(Rounds) /\ away \in Seq(Rounds)
      /\ \A r \in sent : r \in Rounds /\ context[r] = "wait" /\ IsWindow(r)
      /\ ToSet(now) = sent \cap Deliverable /\ ToSet(away) = sent \ Deliverable
  BY SentRounds DEF BInv
<1>4. /\ context' = [r \in Rounds |->
                   IF r \in sent \/ (Feeds /\ r = Head(queue["memory"]))
                   THEN "draining" ELSE context[r]]
      /\ cwb' = cwb \o away
      /\ reserved' = reserved \cup ToSet(away)
      /\ accepted' = accepted \o now
      /\ stored' = stored \ (ToSet(now) \ wanted)
      /\ soon' = Tail(soon) \o AsEvents(now)
  BY <1>1 DEF Arbitrated, KeptAfter
<1> HIDE DEF sent, now, away
<1>5. /\ context \in [Rounds -> Stages] /\ soon \in Seq(Events)
      /\ cwb \in Seq(Rounds) /\ wbd \in Seq(Rounds) /\ accepted \in Seq(Rounds)
      /\ stored \subseteq Rounds /\ reserved \subseteq Rounds
  BY DEF BInv, Shape
<1>6. /\ context' \in [Rounds -> Stages]
      /\ \A r \in Rounds : \/ context'[r] = context[r] /\ r \notin sent
                           \/ context'[r] = "draining" /\ context[r] = "wait"
  <2>1. Feeds => context[Head(queue["memory"])] = "wait"
    BY DEF Feeds
  <2> QED BY <1>3, <1>4, <1>5, <2>1 DEF Stages
<1>7. /\ accepted' \in Seq(Rounds)
      /\ ToSet(accepted') = ToSet(accepted) \cup ToSet(now)
      /\ cwb' \in Seq(Rounds) /\ ToSet(cwb') = ToSet(cwb) \cup ToSet(away)
  BY <1>3, <1>4, <1>5, ConcatElements
<1>8. /\ soon' \in Seq(Events)
      /\ \A r \in Rounds : Release(r) \in ToSet(soon') =>
           Release(r) \in ToSet(soon) \/ r \in ToSet(now)
  <2>1. Tail(soon) \in Seq(Events) /\ ToSet(Tail(soon)) \subseteq ToSet(soon)
    BY <1>2, <1>5, HeadAndTail
  <2>2. AsEvents(now) \in Seq(Events)
        /\ ToSet(AsEvents(now)) = {Release(r) : r \in ToSet(now)}
    BY <1>3, AsEventsElements
  <2>3. soon' \in Seq(Events)
        /\ ToSet(soon') = ToSet(Tail(soon)) \cup ToSet(AsEvents(now))
    <3> DEFINE rest == Tail(soon)  evs == AsEvents(now)
    <3>1. rest \in Seq(Events) /\ evs \in Seq(Events) /\ soon' = rest \o evs
      BY <1>4, <2>1, <2>2
    <3> HIDE DEF rest, evs
    <3>2. rest \o evs \in Seq(Events)
          /\ ToSet(rest \o evs) = ToSet(rest) \cup ToSet(evs)
      BY <3>1, ConcatElements
    <3> QED BY <3>1, <3>2 DEF rest, evs
  <2> QED BY <2>1, <2>2, <2>3, EventKinds
<1>9. /\ wbd' \in Seq(Rounds)
      /\ \A r \in ToSet(wbd') : r \in ToSet(wbd) \/ ~IsWindow(r)
  <2>1. CASE Feeds
    <3>1. Head(queue["memory"]) \in Rounds /\ ~IsWindow(Head(queue["memory"]))
      BY <2>1, FedRound DEF BInv
    <3>2. Append(wbd, Head(queue["memory"])) \in Seq(Rounds)
          /\ ToSet(Append(wbd, Head(queue["memory"])))
               = ToSet(wbd) \cup {Head(queue["memory"])}
      BY <1>5, <3>1, AppendElements
    <3> QED BY <1>2, <2>1, <3>1, <3>2
  <2>2. CASE ~Feeds
    BY <1>2, <1>5, <2>2
  <2> QED BY <2>1, <2>2
<1>10. Shape'
  <2>1. ToSet(away) \subseteq Rounds
    BY <1>3
  <2>2. \A r : Route(r)' = Route(r)
    OBVIOUS
  <2> QED BY <1>2, <1>4, <1>5, <1>6, <1>7, <1>8, <1>9, <2>1 DEF BInv, Shape
<1>11. Room'
  <2>1. stored' \subseteq stored
    BY <1>4
  <2> QED BY <2>1, RoomForLess DEF BInv, Room
<1>12. Assembly'
  <2>1. \A r \in Rounds : Unfinished(r)' <=> Unfinished(r)
    BY <1>2, <1>6 DEF Unfinished, Complete
  <2>2. \A r \in sent : ~Unfinished(r)
    BY <1>3 DEF BInv, Assembly
  <2>3. \A r \in Rounds : Unfinished(r)' =>
          /\ context'[r] \in {"none", "partial"}
          /\ r \notin stored' /\ r \notin ToSet(accepted') /\ r \notin reserved'
    BY <1>3, <1>4, <1>6, <1>7, <2>1, <2>2 DEF BInv, Assembly
  <2>4. \A r \in packing : context'[r] = "partial"
    <3>1. \A r \in packing : r \in Rounds /\ context[r] = "partial"
      BY DEF BInv, Shape, Assembly
    <3> QED BY <1>6, <3>1
  <2> QED BY <1>2, <2>3, <2>4 DEF BInv, Assembly, Complete
<1>13. Hops'
  BY <1>3, <1>7, <1>8, <1>9 DEF BInv, Hops
<1>14. ASSUME Retained PROVE Retained'
  <2>1. \A r \in ToSet(accepted') : r \in stored' => r \in wanted'
    BY <1>14, <1>2, <1>4, <1>7 DEF BInv, Retained
  <2>2. CrossingIsRetained'
    BY <1>14, <1>4, <1>6, <1>7 DEF BInv, Retained, CrossingIsRetained
  <2>3. StoredIsOwned'
    BY <1>14, <1>2, <1>4, <1>5, <1>6 DEF BInv, Retained, StoredIsOwned
  <2> QED BY <2>1, <2>2, <2>3 DEF Retained
<1> QED BY <1>10, <1>11, <1>12, <1>13, <1>14 DEF BInv

\* A context at the head of its route is released: the route moves up.
LEMMA Retired ==
  ASSUME Shape, NEW r \in Rounds, NEW s \in Seq(Events), Retire(r, s)
  PROVE  /\ queue' \in [Routes -> Seq(Rounds)]
         /\ \A route \in Routes : ToSet(queue'[route]) \subseteq ToSet(queue[route])
         /\ context' \in [Rounds -> Stages] /\ context'[r] = "none"
         /\ \A q \in Rounds : q # r => context'[q] = context[q]
         /\ soon' \in Seq(Events)
         /\ \A q : Release(q) \in ToSet(soon') <=> Release(q) \in ToSet(s)
<1>1. Route(r) \in Routes /\ queue \in [Routes -> Seq(Rounds)]
      /\ context \in [Rounds -> Stages]
  BY RouteOf DEF Shape
<1>2. /\ queue[Route(r)] # <<>> /\ queue[Route(r)] \in Seq(Rounds)
      /\ queue' = [queue EXCEPT ![Route(r)] = Tail(@)]
      /\ context' = [context EXCEPT ![r] = "none"]
      /\ soon' = s \/ soon' = ScheduleArbitration(s)
  BY <1>1 DEF Retire
<1>3. Tail(queue[Route(r)]) \in Seq(Rounds)
      /\ ToSet(Tail(queue[Route(r)])) \subseteq ToSet(queue[Route(r)])
  BY <1>2, HeadAndTail
<1>4. /\ queue' \in [Routes -> Seq(Rounds)]
      /\ \A route \in Routes : ToSet(queue'[route]) \subseteq ToSet(queue[route])
  BY <1>1, <1>2, <1>3
<1>5. /\ context' \in [Rounds -> Stages] /\ context'[r] = "none"
      /\ \A q \in Rounds : q # r => context'[q] = context[q]
  BY <1>1, <1>2 DEF Stages
<1> QED BY <1>2, <1>4, <1>5, Scheduled

\* A scheduled release runs.
LEMMA ReleaseRetains ==
  ASSUME BInv, RunRelease
  PROVE  BInv' /\ (Retained => Retained')
<1> DEFINE r == Head(soon)[2]
<1>1. /\ soon # <<>> /\ Head(soon) # Arbitrate
      /\ Retire(r, Tail(soon))
      /\ UNCHANGED <<got, packing, dropped, cwb, wbd, reserved, published,
                     stored, wanted, accepted, fed>>
  BY DEF RunRelease
<1>2. soon \in Seq(Events) /\ context \in [Rounds -> Stages]
      /\ queue \in [Routes -> Seq(Rounds)]
  BY DEF BInv, Shape
<1>3. /\ Head(soon) \in Events /\ Tail(soon) \in Seq(Events)
      /\ ToSet(soon) = {Head(soon)} \cup ToSet(Tail(soon))
  BY <1>1, <1>2, HeadAndTail
<1>4. r \in Rounds /\ Head(soon) = Release(r) /\ r \in ToSet(accepted)
  <2>1. PICK q \in Rounds : Head(soon) = Release(q)
    BY <1>1, <1>3 DEF Events, Releases
  <2>2. r = q
    BY <2>1, EventKinds
  <2>3. q \in ToSet(accepted)
    BY <1>3, <2>1 DEF BInv, Hops
  <2> QED BY <2>1, <2>2, <2>3
<1> HIDE DEF r
<1>5. /\ queue' \in [Routes -> Seq(Rounds)]
      /\ \A route \in Routes : ToSet(queue'[route]) \subseteq ToSet(queue[route])
      /\ context' \in [Rounds -> Stages] /\ context'[r] = "none"
      /\ \A q \in Rounds : q # r => context'[q] = context[q]
      /\ soon' \in Seq(Events)
      /\ \A q : Release(q) \in ToSet(soon') <=> Release(q) \in ToSet(Tail(soon))
  BY <1>1, <1>3, <1>4, Retired DEF BInv
<1>6. Complete(r) /\ context[r] # "partial"
  BY <1>4 DEF BInv, Assembly, Unfinished
<1>7. Shape'
  <2>1. \A route \in Routes : \A q \in ToSet(queue'[route]) : Route(q) = route
    BY <1>5 DEF BInv, Shape
  <2> QED BY <1>1, <1>5, <2>1 DEF BInv, Shape
<1>8. Room' /\ Hops'
  BY <1>1, <1>3, <1>5 DEF BInv, Room, Hops
<1>9. Assembly'
  <2>1. \A q \in Rounds : Unfinished(q)' => Unfinished(q) /\ q # r
    BY <1>1, <1>5, <1>6 DEF Unfinished, Complete
  <2>2. \A q \in packing : q \in Rounds /\ q # r
    BY <1>6 DEF BInv, Assembly, Shape
  <2> QED BY <1>1, <1>5, <2>1, <2>2 DEF BInv, Assembly, Complete
<1>10. ASSUME Retained PROVE Retained'
  <2>1. CrossingIsRetained'
    BY <1>10, <1>1, <1>5 DEF BInv, Retained, CrossingIsRetained
  <2>2. StoredIsOwned'
    <3>1. stored \subseteq Rounds
      BY DEF BInv, Shape
    <3> QED BY <1>10, <1>1, <1>4, <1>5, <3>1 DEF BInv, Retained, StoredIsOwned
  <2> QED BY <1>10, <1>1, <2>1, <2>2 DEF BInv, Retained
<1> QED BY <1>7, <1>8, <1>9, <1>10 DEF BInv

\* The end of the CWB hop: the round is handed over, or waits once more.
LEMMA DeliverRetains ==
  ASSUME BInv, Deliver
  PROVE  BInv' /\ (Retained => Retained')
<1> DEFINE r == Head(cwb)
<1>1. /\ cwb # <<>> /\ r \in stored
      /\ published' = published \cup {r}
      /\ cwb' = Tail(cwb)
      /\ UNCHANGED <<got, packing, dropped, queue, wbd, reserved, wanted, fed>>
  BY DEF Deliver
<1>2. /\ context \in [Rounds -> Stages] /\ cwb \in Seq(Rounds)
      /\ soon \in Seq(Events) /\ accepted \in Seq(Rounds) /\ stored \subseteq Rounds
  BY DEF BInv, Shape
<1>3. /\ r \in Rounds /\ Tail(cwb) \in Seq(Rounds)
      /\ ToSet(cwb) = {r} \cup ToSet(Tail(cwb))
  BY <1>1, <1>2, HeadAndTail
<1>4. \/ /\ context' = [context EXCEPT ![r] = "wait"]
         /\ UNCHANGED <<accepted, stored, soon>>
      \/ /\ accepted' = Append(accepted, r)
         /\ stored' = stored \ (ToSet(<<r>>) \ wanted)
         /\ soon' = Append(soon, Release(r))
         /\ UNCHANGED context
  BY DEF Deliver, KeptAfter
<1> HIDE DEF r
<1>5. IsWindow(r) /\ ~Unfinished(r)
  BY <1>1, <1>3 DEF BInv, Hops, Assembly
<1>6. ToSet(<<r>>) = {r}
  BY DEF ToSet
<1>7. CASE /\ context' = [context EXCEPT ![r] = "wait"]
           /\ UNCHANGED <<accepted, stored, soon>>
  <2>1. /\ context' \in [Rounds -> Stages] /\ context'[r] = "wait"
        /\ \A q \in Rounds : q # r => context'[q] = context[q]
    BY <1>2, <1>3, <1>7 DEF Stages
  <2>2. Shape'
    BY <1>1, <1>3, <1>7, <2>1 DEF BInv, Shape
  <2>3. Room' /\ Hops'
    BY <1>1, <1>3, <1>7 DEF BInv, Room, Hops
  <2>4. Assembly'
    <3>1. \A q \in Rounds : Unfinished(q)' => Unfinished(q) /\ q # r
      BY <1>1, <1>5, <2>1 DEF Unfinished, Complete
    <3>2. \A q \in packing : q \in Rounds /\ q # r
      BY <1>5 DEF BInv, Assembly, Shape, Unfinished
    <3> QED BY <1>1, <1>7, <2>1, <3>1, <3>2 DEF BInv, Assembly, Complete
  <2>5. ASSUME Retained PROVE Retained'
    <3>1. CrossingIsRetained'
      BY <2>5, <1>1, <1>7, <2>1 DEF BInv, Retained, CrossingIsRetained
    <3>2. StoredIsOwned'
      BY <2>5, <1>1, <1>2, <1>7, <2>1 DEF BInv, Retained, StoredIsOwned
    <3> QED BY <2>5, <1>1, <1>7, <3>1, <3>2 DEF BInv, Retained
  <2> QED BY <2>2, <2>3, <2>4, <2>5 DEF BInv
<1>8. CASE /\ accepted' = Append(accepted, r)
           /\ stored' = stored \ (ToSet(<<r>>) \ wanted)
           /\ soon' = Append(soon, Release(r))
           /\ UNCHANGED context
  <2>1. /\ accepted' \in Seq(Rounds)
        /\ ToSet(accepted') = ToSet(accepted) \cup {r}
    BY <1>2, <1>3, <1>8, AppendElements
  <2>2. /\ soon' \in Seq(Events)
        /\ ToSet(soon') = ToSet(soon) \cup {Release(r)}
    BY <1>2, <1>3, <1>8, EventKinds, AppendElements
  <2>3. stored' = stored \ ({r} \ wanted)
    BY <1>6, <1>8
  <2>4. Shape'
    BY <1>1, <1>3, <1>8, <2>1, <2>2, <2>3 DEF BInv, Shape
  <2>5. Room'
    BY <2>3, RoomForLess DEF BInv, Room
  <2>6. Hops'
    <3>1. \A q \in Rounds : Release(q) \in ToSet(soon') =>
            Release(q) \in ToSet(soon) \/ q = r
      BY <2>2, EventKinds
    <3> QED BY <1>1, <1>3, <1>5, <2>1, <3>1 DEF BInv, Hops
  <2>7. Assembly'
    <3>1. \A q \in Rounds : Unfinished(q)' <=> Unfinished(q)
      BY <1>1, <1>8 DEF Unfinished, Complete
    <3> QED BY <1>1, <1>5, <1>8, <2>1, <2>3, <3>1 DEF BInv, Assembly, Complete
  <2>8. ASSUME Retained PROVE Retained'
    <3>1. CrossingIsRetained'
      BY <2>8, <1>8, <2>1, <2>3 DEF BInv, Retained, CrossingIsRetained
    <3>2. StoredIsOwned'
      BY <2>8, <1>1, <1>8, <2>3 DEF BInv, Retained, StoredIsOwned
    <3> QED BY <2>8, <1>1, <2>1, <2>3, <3>1, <3>2 DEF BInv, Retained
  <2> QED BY <2>4, <2>5, <2>6, <2>7, <2>8 DEF BInv
<1> QED BY <1>4, <1>7, <1>8

\* The end of the WBD hop.
LEMMA DeliverMemoryRetains ==
  ASSUME BInv, DeliverMemory
  PROVE  BInv' /\ (Retained => Retained')
<1> DEFINE r == Head(wbd)
<1>1. /\ wbd # <<>> /\ r \in stored
      /\ fed' = fed \cup {r} /\ stored' = stored \ {r} /\ wbd' = Tail(wbd)
      /\ Retire(r, soon)
      /\ UNCHANGED <<got, packing, dropped, cwb, reserved, published, wanted,
                     accepted>>
  BY DEF DeliverMemory
<1>2. soon \in Seq(Events) /\ context \in [Rounds -> Stages]
      /\ wbd \in Seq(Rounds) /\ stored \subseteq Rounds
  BY DEF BInv, Shape
<1>3. /\ r \in Rounds /\ Tail(wbd) \in Seq(Rounds)
      /\ ToSet(wbd) = {r} \cup ToSet(Tail(wbd))
  BY <1>1, <1>2, HeadAndTail
<1> HIDE DEF r
<1>4. /\ queue' \in [Routes -> Seq(Rounds)]
      /\ \A route \in Routes : ToSet(queue'[route]) \subseteq ToSet(queue[route])
      /\ context' \in [Rounds -> Stages] /\ context'[r] = "none"
      /\ \A q \in Rounds : q # r => context'[q] = context[q]
      /\ soon' \in Seq(Events)
      /\ \A q : Release(q) \in ToSet(soon') <=> Release(q) \in ToSet(soon)
  BY <1>1, <1>2, <1>3, Retired DEF BInv
<1>5. ~IsWindow(r) /\ ~Unfinished(r)
  BY <1>1, <1>3 DEF BInv, Hops, Assembly
<1>6. Shape'
  <2>1. \A route \in Routes : \A q \in ToSet(queue'[route]) : Route(q) = route
    BY <1>4 DEF BInv, Shape
  <2> QED BY <1>1, <1>3, <1>4, <2>1 DEF BInv, Shape
<1>7. Room'
  BY <1>1, RoomForLess DEF BInv, Room
<1>8. Hops'
  BY <1>1, <1>3, <1>4 DEF BInv, Hops
<1>9. Assembly'
  <2>1. \A q \in Rounds : Unfinished(q)' => Unfinished(q) /\ q # r
    BY <1>1, <1>4, <1>5 DEF Unfinished, Complete
  <2>2. \A q \in packing : q \in Rounds /\ q # r
    BY <1>5 DEF BInv, Assembly, Shape, Unfinished
  <2> QED BY <1>1, <1>4, <2>1, <2>2 DEF BInv, Assembly, Complete
<1>10. ASSUME Retained PROVE Retained'
  <2>1. CrossingIsRetained'
    BY <1>10, <1>1, <1>4, <1>5 DEF BInv, Retained, CrossingIsRetained
  <2>2. StoredIsOwned'
    BY <1>10, <1>1, <1>2, <1>4 DEF BInv, Retained, StoredIsOwned
  <2> QED BY <1>10, <1>1, <2>1, <2>2 DEF BInv, Retained
<1> QED BY <1>6, <1>7, <1>8, <1>9, <1>10 DEF BInv

\* A consumer lets go of a round that is not on its way.
LEMMA LetGoRetains ==
  ASSUME BInv, NEW r \in Rounds, LetGo(r)
  PROVE  BInv' /\ (~LetGoCrossing /\ Retained => Retained')
<1>1. /\ r \in ToSet(accepted) \/ r \notin stored \/ LetGoCrossing
      /\ wanted' = wanted \ {r} /\ stored' = stored \ {r}
      /\ UNCHANGED <<got, context, packing, dropped, queue, soon, cwb, wbd,
                     reserved, published, accepted, fed>>
  BY DEF LetGo
<1>2. Shape'
  BY <1>1 DEF BInv, Shape
<1>3. Room'
  BY <1>1, RoomForLess DEF BInv, Room
<1>4. Assembly' /\ Hops'
  BY <1>1 DEF BInv, Assembly, Hops, Unfinished, Complete
<1>5. ASSUME ~LetGoCrossing, Retained PROVE Retained'
  BY <1>5, <1>1 DEF BInv, Retained, CrossingIsRetained, StoredIsOwned
<1> QED BY <1>2, <1>3, <1>4, <1>5 DEF BInv

\* A receiver says it is ready.
LEMMA NotifyRetains ==
  ASSUME BInv, NotifyReady
  PROVE  BInv' /\ (Retained => Retained')
<1>1. /\ soon' = ScheduleArbitration(soon)
      /\ UNCHANGED <<got, context, packing, dropped, queue, cwb, wbd, reserved,
                     published, stored, wanted, accepted, fed>>
  BY DEF NotifyReady
<1>2. /\ soon' \in Seq(Events)
      /\ \A q : Release(q) \in ToSet(soon') <=> Release(q) \in ToSet(soon)
  BY <1>1, Scheduled DEF BInv, Shape
<1>3. Shape' /\ Room' /\ Assembly' /\ Hops'
  BY <1>1, <1>2 DEF BInv, Shape, Room, Assembly, Hops, Unfinished, Complete
<1>4. ASSUME Retained PROVE Retained'
  BY <1>4, <1>1 DEF BInv, Retained, CrossingIsRetained, StoredIsOwned
<1> QED BY <1>3, <1>4 DEF BInv

-----------------------------------------------------------------------------
(* Retention *)

\* Buffer 0 and both queues are empty at the start.
LEMMA InitRetains == Init => RInv
<1> SUFFICES ASSUME Init PROVE RInv
  OBVIOUS
<1>1. ToSet(<<>>) = {}
  BY DEF ToSet
<1>2. Shape
  BY <1>1, EmptySeq DEF Init, Shape, Stages, Routes
<1>3. Room
  BY FS_EmptySet, PackingAssumption DEF Init, Room
<1>4. Assembly /\ Hops /\ Retained
  BY <1>1 DEF Init, Assembly, Hops, Retained, CrossingIsRetained, StoredIsOwned
<1> QED BY <1>2, <1>3, <1>4 DEF RInv, BInv

\* Every step keeps the invariant; for what Buffer 0 retains, as long as a
\* round that is on its way to the window manager keeps a reader.
LEMMA NextRetains ==
  ASSUME BInv, [Next]_vars
  PROVE  BInv' /\ (~LetGoCrossing /\ Retained => Retained')
<1> DEFINE Keeps == BInv' /\ (~LetGoCrossing /\ Retained => Retained')
<1>1. ASSUME NEW r \in Rounds, NEW i, Receive(r, i) PROVE Keeps
  BY <1>1, ReceiveKinds, AssemblingRetains, FinishingRetains DEF BInv
<1>2. ASSUME NEW r \in Rounds, PackEnds(r) PROVE Keeps
  BY <1>2, PackEndsKind, FinishingRetains DEF BInv
<1>3. ASSUME NEW r \in Rounds, LetGo(r) PROVE Keeps
  BY <1>3, LetGoRetains
<1>4. CASE RunArbitration
  BY <1>4, ArbitrationRetains
<1>5. CASE RunRelease
  BY <1>5, ReleaseRetains
<1>6. CASE Deliver
  BY <1>6, DeliverRetains
<1>7. CASE DeliverMemory
  BY <1>7, DeliverMemoryRetains
<1>8. CASE NotifyReady
  BY <1>8, NotifyRetains
<1>9. CASE UNCHANGED vars
  BY <1>9 DEF vars, BInv, Shape, Room, Assembly, Hops, Retained, Unfinished,
              Complete, CrossingIsRetained, StoredIsOwned
<1> QED BY <1>1, <1>2, <1>3, <1>4, <1>5, <1>6, <1>7, <1>8, <1>9 DEF Next

\* The invariant gives the property the run checks.
LEMMA RetainedIsSound == RInv => RetentionSound
<1> SUFFICES ASSUME RInv PROVE RetentionSound
  OBVIOUS
<1>1. TypeOK
  <2>1. DOMAIN queue = Routes
    BY DEF RInv, BInv, Shape
  <2>2. ToSet(cwb) \subseteq Rounds /\ ToSet(wbd) \subseteq Rounds
        /\ ToSet(accepted) \subseteq Rounds
    BY ToSetOfSeq DEF RInv, BInv, Shape
  <2>3. UNION {packing, dropped, reserved, published, stored, wanted, fed}
          \subseteq Rounds
    BY DEF RInv, BInv, Shape
  <2>4. UNION {ToSet(cwb), ToSet(wbd), ToSet(accepted)} \subseteq Rounds
    BY <2>2
  <2> QED BY <2>1, <2>3, <2>4 DEF RInv, BInv, Shape, Room, TypeOK, Stages
<1> QED BY <1>1 DEF RInv, Retained, RetentionSound

\* RetentionSound: Buffer 0 keeps, within its capacity, exactly what still has
\* to be handed over or read: a window round on its way to the window manager
\* is in it, and nothing is left in it that neither a context nor a consumer
\* answers for, provided that no round loses its last reader on the way.
THEOREM RetentionIsSound ==
  ASSUME ~LetGoCrossing
  PROVE  Spec => []RetentionSound
<1>1. Init => RInv
  BY InitRetains
<1>2. RInv /\ [Next]_vars => RInv'
  BY NextRetains DEF RInv
<1>3. RInv => RetentionSound
  BY RetainedIsSound
<1> QED BY <1>1, <1>2, <1>3, PTL DEF Spec

-----------------------------------------------------------------------------
(* The inductive invariant: order *)

\* Fragments arrive in the order of their source's rounds.
FragmentsInOrder ==
  \A r \in Rounds : \A k \in 1 .. (r[2] - 1) : got[r] \subseteq got[<<r[1], k>>]

\* The rounds of a route in the order they joined it: those of a source in
\* order, the ones before each of them there too or dropped.
Ordered(w) ==
  /\ \A i, j \in DOMAIN w : i < j /\ w[i][1] = w[j][1] => w[i][2] < w[j][2]
  /\ \A r \in ToSet(w) : IsWindow(r) /\ Complete(r)
  /\ \A r \in ToSet(w) : \A k \in 1 .. (r[2] - 1) :
       <<r[1], k>> \in ToSet(w) \cup dropped

\* Where a complete round is, and that none overtakes it during its pack time.
Accounted(w) ==
  /\ \A r \in Rounds :
       IsWindow(r) /\ Complete(r) => r \in packing \cup ToSet(w) \cup dropped
  /\ \A p \in packing : \A r \in ToSet(w) : r[1] = p[1] => r[2] < p[2]

\* The window route is, from its head: rounds whose release is scheduled,
\* rounds the window manager refused, rounds on the CWB hop, fresh rounds.
Stations(rel, ref, fresh) ==
  /\ \A r \in ToSet(rel) : context[r] = "draining"
  /\ \A r \in ToSet(ref) : context[r] = "wait" /\ r \in Deliverable
  /\ \A r \in ToSet(cwb) : Priced /\ context[r] = "draining" /\ r \in reserved
  /\ \A r \in ToSet(fresh) : context[r] = "wait" /\ r \notin Deliverable

\* Every round that joined the route: handed over, then still to be.
Pending(ref, fresh) == ref \o (cwb \o fresh)
Joined(ref, fresh)  == accepted \o Pending(ref, fresh)

Line(old, rel, ref, fresh) ==
  /\ accepted = old \o rel
  /\ queue["window"] = rel \o Pending(ref, fresh)
  /\ Those(soon, Releases) = AsEvents(rel)
  /\ Stations(rel, ref, fresh)
  /\ Ordered(Joined(ref, fresh))
  /\ Accounted(Joined(ref, fresh))

LineInv ==
  /\ FragmentsInOrder
  /\ \E old, rel, ref, fresh \in Seq(Rounds) : Line(old, rel, ref, fresh)

-----------------------------------------------------------------------------
(* Facts about the line *)

\* Scheduling an arbitration leaves the releases alone.
LEMMA ThoseScheduled ==
  ASSUME NEW s \in Seq(Events)
  PROVE  Those(ScheduleArbitration(s), Releases) = Those(s, Releases)
<1>1. Arbitrate \in Events /\ Arbitrate \notin Releases
  BY EventKinds DEF Events
<1>2. Those(Append(s, Arbitrate), Releases) = Those(s, Releases)
  BY <1>1, ThoseAppend
<1> QED BY <1>2 DEF ScheduleArbitration

\* The parts of the line, and what they hold.
LEMMA LineParts ==
  ASSUME Shape, NEW ref \in Seq(Rounds), NEW fresh \in Seq(Rounds)
  PROVE  /\ cwb \o fresh \in Seq(Rounds)
         /\ Pending(ref, fresh) \in Seq(Rounds)
         /\ Joined(ref, fresh) \in Seq(Rounds)
         /\ ToSet(Pending(ref, fresh)) = ToSet(ref) \cup ToSet(cwb) \cup ToSet(fresh)
         /\ ToSet(Joined(ref, fresh)) =
              ToSet(accepted) \cup ToSet(ref) \cup ToSet(cwb) \cup ToSet(fresh)
<1>1. cwb \in Seq(Rounds) /\ accepted \in Seq(Rounds)
  BY DEF Shape
<1>2. cwb \o fresh \in Seq(Rounds)
      /\ ToSet(cwb \o fresh) = ToSet(cwb) \cup ToSet(fresh)
  BY <1>1, ConcatElements
<1>3. Pending(ref, fresh) \in Seq(Rounds)
      /\ ToSet(Pending(ref, fresh)) = ToSet(ref) \cup ToSet(cwb \o fresh)
  <2> DEFINE behind == cwb \o fresh
  <2>1. behind \in Seq(Rounds) /\ Pending(ref, fresh) = ref \o behind
    BY <1>2 DEF Pending
  <2> HIDE DEF behind
  <2>2. ref \o behind \in Seq(Rounds)
        /\ ToSet(ref \o behind) = ToSet(ref) \cup ToSet(behind)
    BY <2>1, ConcatElements
  <2> QED BY <2>1, <2>2 DEF behind
<1>4. Joined(ref, fresh) \in Seq(Rounds)
      /\ ToSet(Joined(ref, fresh)) = ToSet(accepted) \cup ToSet(Pending(ref, fresh))
  BY <1>1, <1>3, ConcatElements DEF Joined
<1> QED BY <1>2, <1>3, <1>4

\* Rounds in order are free of repetitions.
LEMMA OrderedIsInjective ==
  ASSUME NEW w \in Seq(Rounds), Ordered(w)
  PROVE  IsInjective(w)
<1>1. DOMAIN w = 1 .. Len(w) /\ Len(w) \in Nat
  BY LenProperties
<1>2. \A i \in 1 .. Len(w) : w[i] \in Rounds /\ w[i][2] \in Nat
  BY ElementOfSeq, RoundPairs
<1> SUFFICES ASSUME NEW i \in DOMAIN w, NEW j \in DOMAIN w, w[i] = w[j], i # j
             PROVE  FALSE
  BY DEF IsInjective
<1>3. i < j \/ j < i
  BY <1>1
<1>4. w[i][2] < w[j][2] \/ w[j][2] < w[i][2]
  BY <1>3 DEF Ordered
<1> QED BY <1>1, <1>2, <1>4

\* The two parts of a sequence free of repetitions share no element.
LEMMA InjectiveParts ==
  ASSUME NEW S, NEW s \in Seq(S), NEW t \in Seq(S), IsInjective(s \o t)
  PROVE  IsInjective(s) /\ IsInjective(t) /\ ToSet(s) \cap ToSet(t) = {}
<1> DEFINE u == s \o t
<1>1. /\ u \in Seq(S) /\ Len(u) = Len(s) + Len(t)
      /\ \A i \in 1 .. Len(s) + Len(t) :
           u[i] = IF i <= Len(s) THEN s[i] ELSE t[i - Len(s)]
  BY ConcatProperties
<1>2. /\ Len(s) \in Nat /\ Len(t) \in Nat
      /\ DOMAIN s = 1 .. Len(s) /\ DOMAIN t = 1 .. Len(t)
      /\ DOMAIN u = 1 .. Len(s) + Len(t)
  BY <1>1, LenProperties
<1>3. IsInjective(u)
  OBVIOUS
<1> HIDE DEF u
<1>4. \A i \in DOMAIN s : i \in DOMAIN u /\ u[i] = s[i] /\ i <= Len(s)
  BY <1>1, <1>2
<1>5. \A i \in DOMAIN t : /\ Len(s) + i \in DOMAIN u /\ u[Len(s) + i] = t[i]
                          /\ Len(s) + i > Len(s)
  <2> TAKE i \in DOMAIN t
  <2>1. i \in Nat /\ i > 0 /\ Len(s) + i \in 1 .. Len(s) + Len(t)
        /\ (Len(s) + i) - Len(s) = i /\ ~(Len(s) + i <= Len(s))
    BY <1>2
  <2> QED BY <1>1, <1>2, <2>1
<1>6. \A i, j \in DOMAIN u : u[i] = u[j] => i = j
  BY <1>3 DEF IsInjective
<1>7. IsInjective(t)
  <2> SUFFICES ASSUME NEW i \in DOMAIN t, NEW j \in DOMAIN t, t[i] = t[j]
               PROVE  i = j
    BY DEF IsInjective
  <2>1. Len(s) + i = Len(s) + j
    BY <1>5, <1>6
  <2> QED BY <1>2, <2>1
<1>8. ASSUME NEW i \in DOMAIN s, NEW j \in DOMAIN t, s[i] = t[j] PROVE FALSE
  <2>1. i = Len(s) + j
    BY <1>4, <1>5, <1>6, <1>8
  <2> QED BY <1>2, <1>4, <1>5, <2>1
<1>9. IsInjective(s)
  BY <1>4, <1>6 DEF IsInjective
<1> QED BY <1>7, <1>8, <1>9 DEF ToSet

\* On the line a round is in one place only.
LEMMA LineInjective ==
  ASSUME Shape, NEW old \in Seq(Rounds), NEW rel \in Seq(Rounds),
         NEW ref \in Seq(Rounds), NEW fresh \in Seq(Rounds),
         Line(old, rel, ref, fresh)
  PROVE  /\ IsInjective(queue["window"])
         /\ ToSet(queue["window"]) =
              ToSet(rel) \cup ToSet(ref) \cup ToSet(cwb) \cup ToSet(fresh)
         /\ ToSet(accepted) = ToSet(old) \cup ToSet(rel)
         /\ IsInjective(Joined(ref, fresh))
<1> DEFINE pending == Pending(ref, fresh)
<1>1. pending \in Seq(Rounds) /\ Joined(ref, fresh) \in Seq(Rounds)
      /\ ToSet(pending) = ToSet(ref) \cup ToSet(cwb) \cup ToSet(fresh)
  BY LineParts
<1> HIDE DEF pending
<1>2. /\ accepted = old \o rel /\ queue["window"] = rel \o pending
      /\ Joined(ref, fresh) = (old \o rel) \o pending
      /\ Ordered(Joined(ref, fresh))
  BY DEF Line, Joined, pending
<1>3. IsInjective(Joined(ref, fresh))
  BY <1>1, <1>2, OrderedIsInjective
<1>4. Joined(ref, fresh) = old \o queue["window"]
  BY SMTT(30), <1>1, <1>2, ConcatAssociative
<1>5. /\ queue["window"] \in Seq(Rounds)
      /\ ToSet(queue["window"]) = ToSet(rel) \cup ToSet(pending)
      /\ ToSet(accepted) = ToSet(old) \cup ToSet(rel)
  BY <1>1, <1>2, ConcatElements
<1>6. IsInjective(queue["window"])
  BY <1>3, <1>4, <1>5, InjectiveParts
<1> QED BY <1>1, <1>3, <1>5, <1>6

\* The rounds before a round are all the ones of its source below it.
LEMMA SameSource ==
  \A r, q \in Rounds :
    /\ q[1] = r[1] /\ q[2] = r[2] => q = r
    /\ q[1] = r[1] /\ q[2] < r[2] =>
         q[2] \in 1 .. (r[2] - 1) /\ q = <<r[1], q[2]>>
    /\ q[1] = r[1] => q[2] < r[2] \/ r[2] < q[2] \/ q[2] = r[2]
BY RoundPairs

\* A fragment that comes in order keeps them in order.
LEMMA FragmentsStayInOrder ==
  ASSUME FragmentsInOrder, NEW r \in Rounds, NEW i,
         got \in [Rounds -> SUBSET Nat],
         r[2] > 1 => i \in got[<<r[1], r[2] - 1>>],
         got' = [got EXCEPT ![r] = got[r] \cup {i}]
  PROVE  FragmentsInOrder'
<1>1. /\ got'[r] = got[r] \cup {i}
      /\ \A q \in Rounds : got[q] \subseteq got'[q]
      /\ \A q \in Rounds : q # r => got'[q] = got[q]
  OBVIOUS
<1>2. \A k \in 1 .. (r[2] - 1) : i \in got[<<r[1], k>>]
  <2> TAKE k \in 1 .. (r[2] - 1)
  <2> DEFINE p == <<r[1], r[2] - 1>>
  <2>1. /\ r[2] > 1 /\ r[2] - 1 \in 1 .. r[2] /\ p \in Rounds /\ i \in got[p]
        /\ p[1] = r[1] /\ p[2] = r[2] - 1
    BY RoundPairs
  <2>2. CASE k = r[2] - 1
    BY <2>1, <2>2
  <2>3. CASE k # r[2] - 1
    <3>1. k \in 1 .. (p[2] - 1)
      BY <2>1, <2>3, RoundPairs
    <3>2. got[p] \subseteq got[<<p[1], k>>]
      BY <2>1, <3>1 DEF FragmentsInOrder
    <3> QED BY <2>1, <3>2
  <2> QED BY <2>2, <2>3
<1> SUFFICES ASSUME NEW q \in Rounds, NEW k \in 1 .. (q[2] - 1)
             PROVE  got'[q] \subseteq got'[<<q[1], k>>]
  BY DEF FragmentsInOrder
<1>3. <<q[1], k>> \in Rounds /\ got[q] \subseteq got[<<q[1], k>>]
  <2>1. k \in 1 .. q[2]
    BY RoundPairs
  <2> QED BY <2>1, RoundPairs DEF FragmentsInOrder
<1>4. CASE q = r
  BY <1>1, <1>2, <1>3, <1>4
<1>5. CASE q # r
  BY <1>1, <1>3, <1>5
<1> QED BY <1>4, <1>5

\* When a round is not complete, no later one of its source is.
LEMMA LaterIncomplete ==
  ASSUME Shape, FragmentsInOrder, NEW r \in Rounds, NEW q \in Rounds,
         q[1] = r[1], Complete(q), r[2] < q[2]
  PROVE  Complete(r)
<1>1. r[2] \in 1 .. (q[2] - 1) /\ r = <<q[1], r[2]>>
  BY SameSource
<1>2. got[q] \subseteq got[r]
  BY <1>1 DEF FragmentsInOrder
<1> QED BY <1>2 DEF Complete, Shape

\* A round still being assembled has not joined the line, and the rounds of
\* its source that have are before it.
LEMMA NotJoined ==
  ASSUME Shape, Hops, Assembly, FragmentsInOrder,
         NEW ref \in Seq(Rounds), NEW fresh \in Seq(Rounds),
         Ordered(Joined(ref, fresh)), Accounted(Joined(ref, fresh)),
         NEW r \in Rounds, ~Complete(r) \/ r \in packing
  PROVE  /\ r \notin ToSet(Joined(ref, fresh))
         /\ \A q \in ToSet(Joined(ref, fresh)) : q[1] = r[1] => q[2] < r[2]
<1> DEFINE w == Joined(ref, fresh)
<1>1. ToSet(w) \subseteq Rounds
  BY LineParts, ToSetOfSeq
<1> HIDE DEF w
<1>2. CASE ~Complete(r)
  <2>1. r \notin ToSet(w)
    BY <1>2 DEF Ordered, w
  <2>2. ASSUME NEW q \in ToSet(w), q[1] = r[1] PROVE q[2] < r[2]
    <3>1. Complete(q) /\ q \in Rounds
      BY <1>1 DEF Ordered, w
    <3>2. q # r
      BY <2>1
    <3> QED BY <1>2, <2>2, <3>1, <3>2, LaterIncomplete, SameSource
  <2> QED BY <2>1, <2>2 DEF w
<1>3. CASE r \in packing
  <2>1. \A q \in ToSet(w) : r[1] = q[1] => q[2] < r[2]
    BY <1>3 DEF Accounted, w
  <2>2. r[2] \in Nat
    BY RoundPairs
  <2> QED BY <2>1, <2>2 DEF w
<1> QED BY <1>2, <1>3

-----------------------------------------------------------------------------
(* Each step keeps the line *)

\* A fragment that does not end a packing.
LEMMA AssemblingInLine ==
  ASSUME BInv, LineInv, NEW r \in Rounds, NEW i, Assembling(r, i)
  PROVE  LineInv'
<1>1. PICK old \in Seq(Rounds), rel \in Seq(Rounds), ref \in Seq(Rounds),
           fresh \in Seq(Rounds) : Line(old, rel, ref, fresh)
  BY DEF LineInv
<1>2. Shape /\ Assembly /\ Hops /\ FragmentsInOrder
  BY DEF BInv, LineInv
<1>3. /\ got \in [Rounds -> SUBSET Nat] /\ context \in [Rounds -> Stages]
      /\ i \in 1 .. Slots[r[1]] /\ i \notin got[r]
      /\ r[2] > 1 => i \in got[<<r[1], r[2] - 1>>]
      /\ got' = [got EXCEPT ![r] = got[r] \cup {i}]
      /\ UNCHANGED <<queue, soon, cwb, reserved, accepted>>
  BY <1>2 DEF Assembling, Untouched, Shape
<1>4. FragmentsInOrder'
  BY <1>2, <1>3, FragmentsStayInOrder
<1>5. ~Complete(r) /\ r \notin packing
  BY <1>2, <1>3 DEF Complete, Assembly
<1> DEFINE w == Joined(ref, fresh)
<1>6. w \in Seq(Rounds) /\ ToSet(w) \subseteq Rounds
      /\ ToSet(rel) \cup ToSet(ref) \cup ToSet(cwb) \cup ToSet(fresh) \subseteq ToSet(w)
  BY <1>1, <1>2, LineParts, LineInjective, ToSetOfSeq
<1>7. /\ r \notin ToSet(w)
      /\ \A q \in ToSet(w) : q[1] = r[1] => q[2] < r[2]
  BY <1>1, <1>2, <1>5, NotJoined DEF Line
<1>8. w' = w
  BY <1>3 DEF Joined, Pending
<1> HIDE DEF w
<1>9. \A q \in Rounds : q # r => context'[q] = context[q] /\ got'[q] = got[q]
  <2>1. context' = context \/ context' = [context EXCEPT ![r] = "partial"]
    BY DEF Assembling
  <2> QED BY <1>3, <2>1
<1>10. dropped \subseteq dropped' /\ packing \subseteq packing'
       /\ packing' \subseteq packing \cup {r}
  BY DEF Assembling
<1>11. Stations(rel, ref, fresh)'
  <2>1. Stations(rel, ref, fresh)
    BY <1>1 DEF Line
  <2>2. \A q \in ToSet(rel) \cup ToSet(ref) \cup ToSet(cwb) \cup ToSet(fresh) :
          q \in Rounds /\ context'[q] = context[q]
    BY <1>6, <1>7, <1>9
  <2>3. Deliverable' = Deliverable
    BY <1>3 DEF Deliverable
  <2> QED BY <1>3, <2>1, <2>2, <2>3 DEF Stations
<1>12. Ordered(w)'
  <2>1. Ordered(w)
    BY <1>1 DEF Line, w
  <2>2. \A q \in ToSet(w) : Complete(q)'
    BY <1>6, <1>7, <1>9, <2>1 DEF Ordered, Complete
  <2> QED BY <1>8, <1>10, <2>1, <2>2 DEF Ordered
<1>13. Accounted(w)'
  <2>1. Accounted(w)
    BY <1>1 DEF Line, w
  <2>2. \A q \in Rounds : IsWindow(q) /\ Complete(q)' =>
          q \in packing' \cup ToSet(w) \cup dropped'
    <3> TAKE q \in Rounds
    <3>1. CASE q = r
      <4>1. Complete(r)' => r \in packing' \cup dropped'
        BY DEF Assembling, Complete
      <4> QED BY <3>1, <4>1
    <3>2. CASE q # r
      <4>1. Complete(q)' <=> Complete(q)
        BY <1>9, <3>2 DEF Complete
      <4> QED BY <1>10, <2>1, <4>1 DEF Accounted
    <3> QED BY <3>1, <3>2
  <2>3. \A p \in packing' : \A q \in ToSet(w) : q[1] = p[1] => q[2] < p[2]
    BY <1>7, <1>10, <2>1 DEF Accounted
  <2> QED BY <1>8, <2>2, <2>3 DEF Accounted
<1>14. Line(old, rel, ref, fresh)'
  BY <1>1, <1>3, <1>8, <1>11, <1>12, <1>13 DEF Line, Pending, w
<1> QED BY <1>4, <1>14 DEF LineInv

\* When it is a round's turn, the rounds of its source before it have joined
\* the line or are dropped, and none behind it has been packed.
LEMMA TurnComes ==
  ASSUME BInv, FragmentsInOrder,
         NEW ref \in Seq(Rounds), NEW fresh \in Seq(Rounds),
         Ordered(Joined(ref, fresh)), Accounted(Joined(ref, fresh)),
         NEW r \in Rounds, Turn(r)
  PROVE  /\ ~Complete(r) \/ r \in packing
         /\ IsWindow(r) => \A k \in 1 .. (r[2] - 1) :
              <<r[1], k>> \in ToSet(Joined(ref, fresh)) \cup dropped
         /\ \A q \in packing : q # r /\ q[1] = r[1] => r[2] < q[2]
         /\ [got EXCEPT ![r] = 1 .. Slots[r[1]]] = got'
              => FragmentsInOrder'
<1> DEFINE w == Joined(ref, fresh)
<1>1. Shape /\ Assembly /\ Hops
  BY DEF BInv
<1>2. got \in [Rounds -> SUBSET Nat] /\ packing \subseteq Rounds
  BY <1>1 DEF Shape
<1>3. Accounted(w)
  OBVIOUS
<1> HIDE DEF w
<1>4. ASSUME NEW k \in 1 .. (r[2] - 1), IsWindow(r)
      PROVE  /\ <<r[1], k>> \in Rounds /\ IsWindow(<<r[1], k>>)
             /\ got[r] \subseteq got[<<r[1], k>>]
             /\ k < r[2] /\ k \in Nat
  BY <1>4, RoundPairs DEF FragmentsInOrder, IsWindow
<1>5. CASE \E i \in 1 .. Slots[r[1]] : LastFragment(r, i)
  <2>1. PICK i \in 1 .. Slots[r[1]] : LastFragment(r, i)
    BY <1>5
  <2>2. ~Complete(r)
    BY <2>1 DEF LastFragment, Complete
  <2>3. \A q \in packing : q[1] # r[1]
    BY <1>1, <1>2, <2>1 DEF LastFragment, Assembly
  <2>4. [got EXCEPT ![r] = 1 .. Slots[r[1]]] = got' => FragmentsInOrder'
    <3>1. ASSUME [got EXCEPT ![r] = 1 .. Slots[r[1]]] = got'
          PROVE  got' = [got EXCEPT ![r] = got[r] \cup {i}]
      BY <2>1, <3>1 DEF LastFragment
    <3> QED BY <1>2, <2>1, <3>1, FragmentsStayInOrder DEF LastFragment
  <2>5. ASSUME IsWindow(r), NEW k \in 1 .. (r[2] - 1)
        PROVE  <<r[1], k>> \in ToSet(w) \cup dropped
    <3> DEFINE q == <<r[1], k>>
    <3>1. q \in Rounds /\ IsWindow(q) /\ got[r] \subseteq got[q] /\ q[1] = r[1]
      BY <1>4, <2>5
    <3>2. i \in got[q]
      <4> DEFINE g == [got EXCEPT ![r] = got[r] \cup {i}]
      <4>1. r[2] > 1 /\ i \in got[<<r[1], r[2] - 1>>]
        BY <2>1, RoundPairs DEF LastFragment
      <4> DEFINE p == <<r[1], r[2] - 1>>
      <4>2. p \in Rounds /\ p[1] = r[1] /\ p[2] = r[2] - 1 /\ r[2] \in Nat
        <5>1. r[2] - 1 \in 1 .. r[2]
          BY <4>1, RoundPairs
        <5> QED BY <5>1, RoundPairs
      <4>3. CASE k = r[2] - 1
        BY <4>1, <4>3
      <4>4. CASE k # r[2] - 1
        <5>1. k \in 1 .. (p[2] - 1)
          BY SMTT(30), <4>2, <4>4
        <5>2. got[p] \subseteq got[<<p[1], k>>]
          BY <4>2, <5>1 DEF FragmentsInOrder
        <5> QED BY <4>1, <4>2, <5>2
      <4> QED BY <4>3, <4>4
    <3>3. Complete(q)
      BY <1>1, <2>1, <3>1, <3>2 DEF LastFragment, Complete, Shape
    <3>4. q \notin packing
      BY <2>3, <3>1
    <3> QED BY <1>3, <3>1, <3>3, <3>4 DEF Accounted
  <2> QED BY <2>2, <2>3, <2>4, <2>5 DEF w
<1>6. CASE r \in packing /\ \A q \in packing : q[1] = r[1] => r[2] <= q[2]
  <2>1. Complete(r)
    BY <1>1, <1>6 DEF Assembly
  <2>2. \A q \in packing : q # r /\ q[1] = r[1] => r[2] < q[2]
    <3> SUFFICES ASSUME NEW q \in packing, q # r, q[1] = r[1] PROVE r[2] < q[2]
      OBVIOUS
    <3>1. r[2] <= q[2] /\ q \in Rounds /\ r[2] \in Nat /\ q[2] \in Nat
      BY <1>2, <1>6, RoundPairs
    <3>2. r[2] # q[2]
      BY <3>1, SameSource
    <3> QED BY <3>1, <3>2
  <2>3. [got EXCEPT ![r] = 1 .. Slots[r[1]]] = got' => FragmentsInOrder'
    BY <1>2, <2>1 DEF Complete, FragmentsInOrder
  <2>4. ASSUME IsWindow(r), NEW k \in 1 .. (r[2] - 1)
        PROVE  <<r[1], k>> \in ToSet(w) \cup dropped
    <3> DEFINE q == <<r[1], k>>
    <3>1. q \in Rounds /\ IsWindow(q) /\ got[r] \subseteq got[q] /\ q[1] = r[1]
          /\ q[2] = k /\ k < r[2] /\ k \in Nat /\ r[2] \in Nat
      BY <1>4, <2>4, RoundPairs
    <3>2. Complete(q)
      BY <1>1, <2>1, <3>1 DEF Complete, Shape
    <3>3. q \notin packing
      <4> SUFFICES ASSUME q \in packing PROVE FALSE
        OBVIOUS
      <4>1. r[2] <= q[2]
        BY <1>6, <3>1
      <4> QED BY <3>1, <4>1
    <3> QED BY <1>3, <3>1, <3>2, <3>3 DEF Accounted
  <2> QED BY <1>6, <2>2, <2>3, <2>4 DEF w
<1> QED BY <1>5, <1>6 DEF Turn

\* The next round of a source joins at the end.
LEMMA OrderedAppend ==
  ASSUME NEW w \in Seq(Rounds), NEW r \in Rounds, Ordered(w), Ordered(w)',
         \A q \in ToSet(w) : q[1] = r[1] => q[2] < r[2],
         \A k \in 1 .. (r[2] - 1) : <<r[1], k>> \in ToSet(w) \cup dropped',
         IsWindow(r), Complete(r)'
  PROVE  Ordered(Append(w, r))'
<1> DEFINE v == Append(w, r)
<1>1. /\ v \in Seq(Rounds) /\ Len(v) = Len(w) + 1 /\ v[Len(w) + 1] = r
      /\ \A i \in 1 .. Len(w) : v[i] = w[i]
      /\ ToSet(v) = ToSet(w) \cup {r}
  BY AppendProperties, AppendElements
<1>2. /\ Len(w) \in Nat /\ DOMAIN w = 1 .. Len(w)
      /\ DOMAIN v = 1 .. Len(w) + 1
  BY <1>1, LenProperties
<1> HIDE DEF v
<1>3. ASSUME NEW i \in DOMAIN v, NEW j \in DOMAIN v, i < j, v[i][1] = v[j][1]
      PROVE  v[i][2] < v[j][2]
  <2>1. i \in DOMAIN w /\ v[i] = w[i]
    BY <1>1, <1>2, <1>3
  <2>2. CASE j \in DOMAIN w
    BY <1>1, <1>2, <1>3, <2>1, <2>2 DEF Ordered
  <2>3. CASE j \notin DOMAIN w
    <3>1. v[j] = r
      BY <1>1, <1>2, <2>3
    <3>2. w[i] \in ToSet(w)
      BY <2>1 DEF ToSet
    <3> QED BY <1>3, <2>1, <3>1, <3>2
  <2> QED BY <2>2, <2>3
<1>4. \A q \in ToSet(v) : IsWindow(q) /\ Complete(q)'
  BY <1>1 DEF Ordered
<1>5. \A q \in ToSet(v) : \A k \in 1 .. (q[2] - 1) :
        <<q[1], k>> \in ToSet(v) \cup dropped'
  BY <1>1 DEF Ordered
<1>6. Ordered(v)'
  BY <1>3, <1>4, <1>5 DEF Ordered
<1> QED BY <1>6 DEF v

\* The end of a packing: the round joins the line at its end, or is dropped.
LEMMA FinishingInLine ==
  ASSUME BInv, LineInv, NEW r \in Rounds, Finishing(r)
  PROVE  LineInv'
<1>1. PICK old \in Seq(Rounds), rel \in Seq(Rounds), ref \in Seq(Rounds),
           fresh \in Seq(Rounds) : Line(old, rel, ref, fresh)
  BY DEF LineInv
<1>2. Shape /\ Assembly /\ Hops /\ FragmentsInOrder
  BY DEF BInv, LineInv
<1>3. /\ got \in [Rounds -> SUBSET Nat] /\ context \in [Rounds -> Stages]
      /\ queue \in [Routes -> Seq(Rounds)] /\ soon \in Seq(Events)
      /\ packing \subseteq Rounds /\ cwb \in Seq(Rounds) /\ accepted \in Seq(Rounds)
      /\ got' = [got EXCEPT ![r] = 1 .. Slots[r[1]]]
      /\ packing' = packing \ {r}
      /\ UNCHANGED <<cwb, reserved, accepted>>
      /\ Unfinished(r) /\ Turn(r)
  BY <1>2 DEF Finishing, Untouched, Shape
<1>w. PICK w \in Seq(Rounds) : w = Joined(ref, fresh)
  BY <1>2, LineParts
<1>4. Stations(rel, ref, fresh) /\ Ordered(w) /\ Accounted(w)
  BY <1>1, <1>w DEF Line
<1>5. /\ ~Complete(r) \/ r \in packing
      /\ IsWindow(r) => \A k \in 1 .. (r[2] - 1) :
              <<r[1], k>> \in ToSet(w) \cup dropped
      /\ \A q \in packing : q # r /\ q[1] = r[1] => r[2] < q[2]
      /\ FragmentsInOrder'
  BY <1>2, <1>3, <1>4, <1>w, TurnComes
<1>6. w \in Seq(Rounds) /\ ToSet(w) \subseteq Rounds
      /\ ToSet(rel) \cup ToSet(ref) \cup ToSet(cwb) \cup ToSet(fresh) \subseteq ToSet(w)
  BY <1>1, <1>2, <1>w, LineParts, LineInjective, ToSetOfSeq
<1>7. /\ r \notin ToSet(w)
      /\ \A q \in ToSet(w) : q[1] = r[1] => q[2] < r[2]
  BY <1>2, <1>4, <1>5, <1>w, NotJoined
<1>8. Joined(ref, fresh)' = w
  BY <1>3, <1>w DEF Joined, Pending
<1>9. /\ \A q \in Rounds : q # r => context'[q] = context[q] /\ got'[q] = got[q]
      /\ Complete(r)'
  <2>1. context' = [context EXCEPT ![r] = "none"]
        \/ context' = [context EXCEPT ![r] = "wait"]
    BY DEF Finishing, FinishPacking
  <2> QED BY <1>3, <2>1 DEF Complete
<1>10. dropped \subseteq dropped' /\ dropped' \subseteq dropped \cup {r}
  BY DEF Finishing, FinishPacking
<1>11. Stations(rel, ref, fresh)'
  <2>1. \A q \in ToSet(rel) \cup ToSet(ref) \cup ToSet(cwb) \cup ToSet(fresh) :
          q \in Rounds /\ context'[q] = context[q]
    BY <1>6, <1>7, <1>9
  <2>2. Deliverable' = Deliverable
    BY <1>3 DEF Deliverable
  <2> QED BY <1>3, <1>4, <2>1, <2>2 DEF Stations
<1>12. Ordered(w)'
  <2>1. \A q \in ToSet(w) : Complete(q)'
    BY <1>4, <1>6, <1>7, <1>9 DEF Ordered, Complete
  <2> QED BY <1>4, <1>10, <2>1 DEF Ordered
<1>13. \A q \in Rounds : IsWindow(q) /\ Complete(q)' /\ q # r =>
         q \in packing' \cup ToSet(w) \cup dropped'
  <2> SUFFICES ASSUME NEW q \in Rounds, IsWindow(q), Complete(q)', q # r
               PROVE  q \in packing' \cup ToSet(w) \cup dropped'
    OBVIOUS
  <2>1. Complete(q)
    BY <1>9 DEF Complete
  <2> QED BY <1>3, <1>4, <1>10, <2>1 DEF Accounted
<1>14. \A p \in packing' : \A q \in ToSet(w) : q[1] = p[1] => q[2] < p[2]
  BY <1>3, <1>4 DEF Accounted
<1>15. Those(soon', Releases) = AsEvents(rel)
  BY <1>1, <1>3, ThoseScheduled DEF Finishing, FinishPacking, Line
<1>16. CASE queue'["window"] = queue["window"] /\ (IsWindow(r) => r \in dropped')
  <2>1. Accounted(w)'
    BY <1>13, <1>14, <1>16 DEF Accounted
  <2>2. Line(old, rel, ref, fresh)'
    BY <1>1, <1>3, <1>8, <1>11, <1>12, <1>15, <1>16, <2>1 DEF Line, Pending, Ordered, Accounted
  <2> QED BY <1>5, <2>2 DEF LineInv
<1>17. CASE /\ queue'["window"] = Append(queue["window"], r) /\ IsWindow(r)
            /\ context' = [context EXCEPT ![r] = "wait"]
  <2> DEFINE v == Append(w, r)
  <2>1. Ordered(v)'
    <3>1. \A k \in 1 .. (r[2] - 1) : <<r[1], k>> \in ToSet(w) \cup dropped'
      BY <1>5, <1>10, <1>17
    <3> QED BY <1>4, <1>6, <1>7, <1>9, <1>12, <1>17, <3>1, OrderedAppend
  <2>2. v \in Seq(Rounds) /\ ToSet(v) = ToSet(w) \cup {r}
    BY <1>6, AppendElements
  <2>3. \A p \in packing' : \A q \in ToSet(v) : q[1] = p[1] => q[2] < p[2]
    BY <1>3, <1>5, <1>14, <2>2
  <2> HIDE DEF v
  <2>5. Accounted(v)'
    BY <1>13, <2>2, <2>3 DEF Accounted
  <2>6. context'[r] = "wait" /\ context[r] # "draining" /\ r \notin reserved
    BY <1>2, <1>3, <1>17 DEF Assembly, Stages
  <2>7. rel \o Pending(ref, fresh) = queue["window"]
    BY <1>1 DEF Line
  <2>8. CASE Priced
    <3> DEFINE more == Append(fresh, r)
    <3>1. more \in Seq(Rounds) /\ ToSet(more) = ToSet(fresh) \cup {r}
      BY AppendElements
    <3>2. /\ Pending(ref, more) = Append(Pending(ref, fresh), r)
          /\ Joined(ref, more) = v
          /\ rel \o Pending(ref, more) = queue'["window"]
      <4>1. cwb \o fresh \in Seq(Rounds) /\ Pending(ref, fresh) \in Seq(Rounds)
        BY <1>2, LineParts
      <4>2. cwb \o more = Append(cwb \o fresh, r)
        BY SMTT(30), <1>3, AppendOfConcat
      <4>3. ref \o Append(cwb \o fresh, r) = Append(ref \o (cwb \o fresh), r)
        BY SMTT(30), <4>1, AppendOfConcat
      <4>4. Pending(ref, more) = Append(Pending(ref, fresh), r)
        BY <4>2, <4>3 DEF Pending
      <4>5. accepted \o Append(Pending(ref, fresh), r)
              = Append(accepted \o Pending(ref, fresh), r)
        BY SMTT(30), <1>3, <4>1, AppendOfConcat
      <4>6. rel \o Append(Pending(ref, fresh), r)
              = Append(rel \o Pending(ref, fresh), r)
        BY <4>1, AppendOfConcat
      <4> QED BY <1>w, <1>17, <2>7, <4>4, <4>5, <4>6 DEF Joined, v
    <3>3. Pending(ref, more)' = Pending(ref, more)
          /\ Joined(ref, more)' = Joined(ref, more)
      BY <1>3 DEF Pending, Joined
    <3>4. Stations(rel, ref, more)'
      BY <1>3, <1>11, <2>6, <2>8, <3>1 DEF Stations, Deliverable
    <3> HIDE DEF more
    <3>5. Line(old, rel, ref, more)'
      BY <1>1, <1>3, <1>15, <2>1, <2>5, <3>2, <3>3, <3>4 DEF Line, Ordered, Accounted
    <3> QED BY <1>5, <3>1, <3>5 DEF LineInv
  <2>9. CASE ~Priced
    <3> DEFINE more == Append(ref, r)
    <3>1. more \in Seq(Rounds) /\ ToSet(more) = ToSet(ref) \cup {r}
      BY AppendElements
    <3>2. cwb = <<>> /\ fresh = <<>>
      <4>1. ToSet(cwb) = {}
        BY <1>4, <2>9 DEF Stations
      <4>2. ToSet(fresh) = {}
        BY <1>4, <1>6, <2>9 DEF Stations, Deliverable
      <4>3. \A s \in Seq(Rounds) : ToSet(s) = {} => s = <<>>
        <5> SUFFICES ASSUME NEW s \in Seq(Rounds), s # <<>> PROVE ToSet(s) # {}
          OBVIOUS
        <5>1. ToSet(s) = {Head(s)} \cup ToSet(Tail(s))
          BY HeadAndTail
        <5>2. Head(s) \in ToSet(s)
          BY <5>1
        <5> QED BY <5>2
      <4> QED BY <1>3, <4>1, <4>2, <4>3
    <3>3. \A s \in Seq(Rounds) : Pending(s, fresh) = s
      BY <3>2, ConcatEmptySeq DEF Pending
    <3>4. /\ Joined(more, fresh) = v
          /\ rel \o Pending(more, fresh) = queue'["window"]
      <4>1. accepted \o more = Append(accepted \o ref, r)
        BY <1>3, AppendOfConcat
      <4>3. rel \o more = Append(rel \o ref, r)
        BY AppendOfConcat
      <4>2. Pending(more, fresh) = more /\ Pending(ref, fresh) = ref
        BY <3>1, <3>3
      <4> QED BY <1>w, <1>17, <2>7, <4>1, <4>2, <4>3 DEF Joined, v
    <3>5. Pending(more, fresh)' = Pending(more, fresh)
          /\ Joined(more, fresh)' = Joined(more, fresh)
      BY <1>3 DEF Pending, Joined
    <3>6. Stations(rel, more, fresh)'
      BY <1>3, <1>11, <2>6, <2>9, <3>1 DEF Stations, Deliverable
    <3> HIDE DEF more
    <3>7. Line(old, rel, more, fresh)'
      BY <1>1, <1>3, <1>15, <2>1, <2>5, <3>4, <3>5, <3>6 DEF Line, Ordered, Accounted
    <3> QED BY <1>5, <3>1, <3>7 DEF LineInv
  <2> QED BY <2>8, <2>9
<1>18. \/ queue'["window"] = queue["window"] /\ (IsWindow(r) => r \in dropped')
       \/ /\ queue'["window"] = Append(queue["window"], r) /\ IsWindow(r)
          /\ context' = [context EXCEPT ![r] = "wait"]
  <2>1. CASE dropped' = dropped \cup {r} /\ queue' = queue
    BY <2>1
  <2>2. CASE /\ queue' = [queue EXCEPT ![Route(r)] = Append(@, r)]
             /\ context' = [context EXCEPT ![r] = "wait"]
    <3>1. CASE IsWindow(r)
      BY <1>3, <2>2, <3>1 DEF Route, Routes
    <3>2. CASE ~IsWindow(r)
      BY <1>3, <2>2, <3>2 DEF Route, Routes
    <3> QED BY <3>1, <3>2
  <2> QED BY <2>1, <2>2 DEF Finishing, FinishPacking
<1> QED BY <1>16, <1>17, <1>18

\* A step that leaves reassembly alone only moves rounds along the line.
Moving == UNCHANGED <<got, packing, dropped>>

\* The line after such a step, w being what joined it.
LEMMA LineMoves ==
  ASSUME FragmentsInOrder, Moving, NEW w \in Seq(Rounds), Ordered(w), Accounted(w),
         NEW old \in Seq(Rounds), NEW rel \in Seq(Rounds),
         NEW ref \in Seq(Rounds), NEW fresh \in Seq(Rounds),
         Joined(ref, fresh)' = w,
         accepted' = old \o rel,
         queue'["window"] = rel \o Pending(ref, fresh)',
         Those(soon', Releases) = AsEvents(rel),
         Stations(rel, ref, fresh)'
  PROVE  LineInv'
<1>1. FragmentsInOrder'
  BY DEF Moving, FragmentsInOrder
<1>2. Ordered(w)' /\ Accounted(w)'
  BY DEF Moving, Ordered, Accounted, Complete
<1>3. Ordered(Joined(ref, fresh))' /\ Accounted(Joined(ref, fresh))'
  BY <1>2 DEF Ordered, Accounted
<1>4. Line(old, rel, ref, fresh)'
  BY <1>3 DEF Line
<1> QED BY <1>1, <1>4 DEF LineInv

\* The line where it stands still but for what is scheduled.
LEMMA LineStands ==
  ASSUME BInv, LineInv, Moving, UNCHANGED <<cwb, reserved, accepted>>,
         queue'["window"] = queue["window"],
         Those(soon', Releases) = Those(soon, Releases),
         \A r \in ToSet(queue["window"]) : context'[r] = context[r]
  PROVE  LineInv'
<1>1. PICK old \in Seq(Rounds), rel \in Seq(Rounds), ref \in Seq(Rounds),
           fresh \in Seq(Rounds) : Line(old, rel, ref, fresh)
  BY DEF LineInv
<1>2. PICK w \in Seq(Rounds) : w = Joined(ref, fresh)
  BY LineParts DEF BInv
<1>3. Pending(ref, fresh)' = Pending(ref, fresh) /\ Joined(ref, fresh)' = w
  BY <1>2 DEF Pending, Joined
<1>4. ToSet(queue["window"]) =
        ToSet(rel) \cup ToSet(ref) \cup ToSet(cwb) \cup ToSet(fresh)
  BY <1>1, LineInjective DEF BInv
<1>5. Deliverable' = Deliverable
  BY DEF Deliverable
<1>6. Stations(rel, ref, fresh)'
  BY <1>1, <1>4, <1>5 DEF Line, Stations
<1>7. Ordered(w) /\ Accounted(w)
  BY <1>1, <1>2 DEF Line
<1> QED BY <1>1, <1>3, <1>6, <1>7, LineMoves DEF Line, LineInv

\* A receiver says it is ready.
LEMMA NotifyInLine ==
  ASSUME BInv, LineInv, NotifyReady
  PROVE  LineInv'
<1>1. /\ Moving /\ UNCHANGED <<cwb, reserved, accepted, queue, context>>
      /\ soon' = ScheduleArbitration(soon)
  BY DEF NotifyReady, Moving
<1>2. Those(soon', Releases) = Those(soon, Releases)
  BY <1>1, ThoseScheduled DEF BInv, Shape
<1> QED BY <1>1, <1>2, LineStands

\* A consumer lets go of a round.
LEMMA LetGoInLine ==
  ASSUME BInv, LineInv, NEW r \in Rounds, LetGo(r)
  PROVE  LineInv'
<1>1. Moving /\ UNCHANGED <<cwb, reserved, accepted, queue, context, soon>>
  BY DEF LetGo, Moving
<1> QED BY <1>1, LineStands

\* A memory round leaves; no window round does.
LEMMA DeliverMemoryInLine ==
  ASSUME BInv, LineInv, DeliverMemory
  PROVE  LineInv'
<1> DEFINE r == Head(wbd)
<1>1. /\ wbd # <<>> /\ Moving /\ UNCHANGED <<cwb, reserved, accepted>>
      /\ Retire(r, soon)
  BY DEF DeliverMemory, Moving
<1>2. /\ wbd \in Seq(Rounds) /\ soon \in Seq(Events)
      /\ queue \in [Routes -> Seq(Rounds)] /\ context \in [Rounds -> Stages]
      /\ \A q \in ToSet(queue["window"]) : IsWindow(q) /\ q \in Rounds
  <2>1. queue["window"] \in Seq(Rounds)
    BY DEF BInv, Shape, Routes
  <2>2. ToSet(queue["window"]) \subseteq Rounds
    BY <2>1, ToSetOfSeq
  <2> QED BY <2>2, RouteOf DEF BInv, Shape, Routes
<1>3. r \in ToSet(wbd) /\ r \in Rounds
  <2>1. r \in Rounds /\ ToSet(wbd) = {r} \cup ToSet(Tail(wbd))
    BY <1>1, <1>2, HeadAndTail
  <2> QED BY <2>1
<1>4. ~IsWindow(r)
  BY <1>3 DEF BInv, Hops
<1> HIDE DEF r
<1>5. Route(r) = "memory"
  BY <1>4, RouteOf
<1>6. queue'["window"] = queue["window"]
  BY <1>1, <1>2, <1>5 DEF Retire, Routes
<1>7. \A q \in ToSet(queue["window"]) : context'[q] = context[q]
  BY <1>1, <1>2, <1>4 DEF Retire
<1>8. Those(soon', Releases) = Those(soon, Releases)
  BY <1>1, <1>2, ThoseScheduled DEF Retire
<1> QED BY <1>1, <1>6, <1>7, <1>8, LineStands

\* The releases of two sequences of rounds behind each other.
LEMMA AsEventsConcat ==
  ASSUME NEW s \in Seq(Rounds), NEW t \in Seq(Rounds)
  PROVE  AsEvents(s \o t) = AsEvents(s) \o AsEvents(t)
<1> DEFINE u == s \o t
           a == AsEvents(s)
           b == AsEvents(t)
           c == AsEvents(u)
<1>1. /\ u \in Seq(Rounds) /\ Len(u) = Len(s) + Len(t)
      /\ \A i \in 1 .. Len(s) + Len(t) :
           u[i] = IF i <= Len(s) THEN s[i] ELSE t[i - Len(s)]
  BY ConcatProperties
<1> HIDE DEF u
<1>2. /\ Len(s) \in Nat /\ Len(t) \in Nat
      /\ DOMAIN s = 1 .. Len(s) /\ DOMAIN t = 1 .. Len(t)
      /\ DOMAIN u = 1 .. Len(s) + Len(t)
  BY <1>1, LenProperties
<1>3. /\ a \in Seq(Events) /\ b \in Seq(Events) /\ c \in Seq(Events)
  BY <1>1, AsEventsElements
<1>4. /\ a = [i \in 1 .. Len(s) |-> Release(s[i])]
      /\ b = [i \in 1 .. Len(t) |-> Release(t[i])]
      /\ c = [i \in 1 .. Len(s) + Len(t) |-> Release(u[i])]
  BY <1>2 DEF AsEvents
<1> HIDE DEF a, b, c
<1>5. DOMAIN a = 1 .. Len(a) /\ DOMAIN b = 1 .. Len(b) /\ DOMAIN c = 1 .. Len(c)
      /\ Len(a) \in Nat /\ Len(b) \in Nat /\ Len(c) \in Nat
  BY <1>3, LenProperties
<1>6. Len(a) = Len(s) /\ Len(b) = Len(t) /\ Len(c) = Len(s) + Len(t)
  BY <1>2, <1>4, <1>5
<1>7. /\ a \o b \in Seq(Events) /\ Len(a \o b) = Len(s) + Len(t)
      /\ \A i \in 1 .. Len(s) + Len(t) :
           (a \o b)[i] = IF i <= Len(s) THEN a[i] ELSE b[i - Len(s)]
  <2>1. /\ a \o b \in Seq(Events) /\ Len(a \o b) = Len(a) + Len(b)
        /\ \A i \in 1 .. Len(a) + Len(b) :
             (a \o b)[i] = IF i <= Len(a) THEN a[i] ELSE b[i - Len(a)]
    BY <1>3, ConcatProperties
  <2> QED BY <1>6, <2>1
<1>8. ASSUME NEW i \in 1 .. Len(s) + Len(t) PROVE c[i] = (a \o b)[i]
  <2>1. CASE i <= Len(s)
    <3>1. i \in 1 .. Len(s)
      BY <1>2, <2>1
    <3> QED BY <1>1, <1>4, <1>7, <2>1, <3>1
  <2>2. CASE ~(i <= Len(s))
    <3>1. i - Len(s) \in 1 .. Len(t)
      BY <1>2, <2>2
    <3> QED BY <1>1, <1>4, <1>7, <2>2, <3>1
  <2> QED BY <2>1, <2>2
<1>9. c = a \o b
  BY <1>3, <1>6, <1>7, <1>8, SeqEqual
<1> QED BY <1>9 DEF a, b, c, u

\* The release of one round.
LEMMA AsEventsOne ==
  ASSUME NEW r \in Rounds
  PROVE  AsEvents(<<r>>) = <<Release(r)>> /\ AsEvents(<<>>) = <<>>
BY DEF AsEvents

\* A scheduled release runs: the first round of the line leaves.
LEMMA ReleaseInLine ==
  ASSUME BInv, LineInv, RunRelease
  PROVE  LineInv'
<1>1. PICK old \in Seq(Rounds), rel \in Seq(Rounds), ref \in Seq(Rounds),
           fresh \in Seq(Rounds) : Line(old, rel, ref, fresh)
  BY DEF LineInv
<1>2. PICK w : w \in Seq(Rounds) /\ w = Joined(ref, fresh)
  BY LineParts DEF BInv
<1>3. PICK pending : pending \in Seq(Rounds) /\ pending = Pending(ref, fresh)
  BY LineParts DEF BInv
<1>4. PICK rest \in Seq(Events), r \in Rounds :
        /\ soon = <<Release(r)>> \o rest
        /\ Retire(r, rest) /\ r \in ToSet(accepted)
  <2> DEFINE h == Head(soon)
  <2>1. soon \in Seq(Events) /\ soon # <<>> /\ h # Arbitrate
    BY DEF RunRelease, BInv, Shape
  <2>2. /\ h \in Events /\ Tail(soon) \in Seq(Events)
        /\ soon = <<h>> \o Tail(soon)
        /\ ToSet(soon) = {h} \cup ToSet(Tail(soon))
    BY <2>1, HeadAndTail
  <2>3. PICK q \in Rounds : h = Release(q)
    BY <2>1, <2>2 DEF Events, Releases
  <2>4. h[2] = q
    BY <2>3, EventKinds
  <2>5. q \in ToSet(accepted)
    BY <2>2, <2>3 DEF BInv, Hops
  <2>6. Retire(q, Tail(soon))
    BY <2>4 DEF RunRelease
  <2> QED BY <2>2, <2>3, <2>5, <2>6
<1>5. /\ Moving /\ UNCHANGED <<cwb, reserved, accepted>>
  BY DEF RunRelease, Moving
<1>6. /\ queue \in [Routes -> Seq(Rounds)] /\ queue["window"] \in Seq(Rounds)
      /\ context \in [Rounds -> Stages] /\ accepted \in Seq(Rounds)
  BY DEF BInv, Shape, Routes
<1>7. /\ accepted = old \o rel /\ queue["window"] = rel \o pending
      /\ Those(soon, Releases) = AsEvents(rel)
      /\ Stations(rel, ref, fresh) /\ Ordered(w) /\ Accounted(w)
  BY <1>1, <1>2, <1>3 DEF Line
\* The scheduled release is that of the first round of the line.
<1>8. AsEvents(rel) = <<Release(r)>> \o Those(rest, Releases)
  <2> DEFINE e == Release(r)
             one == <<e>>
  <2>1. e \in Events /\ e \in Releases
    BY EventKinds DEF Releases
  <2>2. one \in Seq(Events) /\ ToSet(one) = {e} /\ soon = one \o rest
    BY <1>4, <2>1, InFront
  <2> HIDE DEF e, one
  <2>3. Those(one \o rest, Releases) = Those(one, Releases) \o Those(rest, Releases)
    BY <2>2, ThoseConcat
  <2>4. Those(one, Releases) = one
    BY <2>1, <2>2, ThoseAll
  <2> QED BY <1>7, <2>2, <2>3, <2>4 DEF e, one
<1>9. rel # <<>>
  <2>1. Those(rest, Releases) \in Seq(Events) /\ Release(r) \in Events
    BY ThoseElements, EventKinds
  <2>2. <<Release(r)>> \o Those(rest, Releases) # <<>>
    BY <2>1, InFront
  <2> QED BY <1>8, <2>2, AsEventsOne
<1>10. PICK more \in Seq(Rounds) :
         rel = <<r>> \o more /\ Those(rest, Releases) = AsEvents(more)
  <2> DEFINE h == Head(rel)
             t == Tail(rel)
             one == <<h>>
  <2>1. h \in Rounds /\ t \in Seq(Rounds) /\ rel = one \o t
    BY <1>9, HeadAndTail
  <2>2. one \in Seq(Rounds) /\ AsEvents(one) = <<Release(h)>>
    BY <2>1, InFront, AsEventsOne
  <2> HIDE DEF h, t, one
  <2>3. AsEvents(one \o t) = AsEvents(one) \o AsEvents(t)
    BY <2>1, <2>2, AsEventsConcat
  <2>4. <<Release(h)>> \o AsEvents(t) = <<Release(r)>> \o Those(rest, Releases)
    BY <1>8, <2>1, <2>2, <2>3
  <2>5. /\ AsEvents(t) \in Seq(Events) /\ Those(rest, Releases) \in Seq(Events)
        /\ Release(h) \in Events /\ Release(r) \in Events
    BY <2>1, AsEventsElements, ThoseElements, EventKinds
  <2>6. Release(h) = Release(r) /\ AsEvents(t) = Those(rest, Releases)
    BY <2>4, <2>5, SameFront
  <2>7. h = r
    BY <2>6, EventKinds
  <2> QED BY <2>1, <2>6, <2>7 DEF one
<1>11. <<r>> \in Seq(Rounds) /\ more \o pending \in Seq(Rounds)
       /\ ToSet(rel) = {r} \cup ToSet(more)
  BY <1>3, <1>10, InFront, ConcatElements
<1>12. queue["window"] = <<r>> \o (more \o pending)
  BY SMTT(30), <1>3, <1>7, <1>10, <1>11, ConcatAssociative
<1>13. /\ Head(queue["window"]) = r /\ Tail(queue["window"]) = more \o pending
       /\ queue["window"] # <<>>
  BY SMTT(30), <1>11, <1>12, InFront
<1>14. r \notin ToSet(more \o pending)
  <2>1. IsInjective(queue["window"])
    BY <1>1, LineInjective DEF BInv
  <2>2. Head(queue["window"]) \notin ToSet(Tail(queue["window"]))
    BY <1>6, <1>13, <2>1, HeadAndTail
  <2> QED BY <1>13, <2>2
<1>15. r \notin ToSet(more) \cup ToSet(ref) \cup ToSet(cwb) \cup ToSet(fresh)
  <2>1. ToSet(more \o pending) = ToSet(more) \cup ToSet(pending)
    BY <1>3, ConcatElements
  <2>2. ToSet(pending) = ToSet(ref) \cup ToSet(cwb) \cup ToSet(fresh)
    BY <1>3, LineParts DEF BInv
  <2> QED BY <1>14, <2>1, <2>2
<1>16. /\ queue'["window"] = more \o pending
       /\ \A q \in Rounds : q # r => context'[q] = context[q]
       /\ Those(soon', Releases) = Those(rest, Releases)
  <2>1. Route(r) = "window"
    BY <1>4, RouteOf DEF BInv, Hops
  <2>2. queue'["window"] = Tail(queue["window"])
    BY <1>4, <1>6, <2>1 DEF Retire, Routes
  <2>3. Those(soon', Releases) = Those(rest, Releases)
    BY <1>4, ThoseScheduled DEF Retire
  <2> QED BY <1>4, <1>6, <1>13, <2>2, <2>3 DEF Retire
<1>17. /\ Pending(ref, fresh)' = pending /\ Joined(ref, fresh)' = w
       /\ Deliverable' = Deliverable
  BY <1>2, <1>3, <1>5 DEF Pending, Joined, Deliverable
<1>18. Stations(more, ref, fresh)'
  <2>1. \A q \in ToSet(more) \cup ToSet(ref) \cup ToSet(cwb) \cup ToSet(fresh) :
          q \in Rounds /\ context'[q] = context[q]
    <3>1. ToSet(more) \cup ToSet(ref) \cup ToSet(cwb) \cup ToSet(fresh)
            \subseteq Rounds
      BY ToSetOfSeq DEF BInv, Shape
    <3> QED BY <1>15, <1>16, <3>1
  <2> QED BY <1>5, <1>7, <1>11, <1>17, <2>1 DEF Stations
<1>19. accepted' = (old \o <<r>>) \o more /\ old \o <<r>> \in Seq(Rounds)
  <2>1. Around(Rounds, old, r, more)
    BY DEF Around
  <2>2. /\ old \o <<r>> \in Seq(Rounds)
        /\ old \o (<<r>> \o more) = (old \o <<r>>) \o more
    BY SMTT(30), <2>1, InBetween
  <2> QED BY <1>5, <1>7, <1>10, <2>2
<1> QED BY <1>2, <1>5, <1>7, <1>10, <1>16, <1>17, <1>18, <1>19, LineMoves DEF LineInv

\* The round at the end of the CWB hop, and the line behind it.
LEMMA HeadOfHop ==
  ASSUME Shape, cwb # <<>>, NEW ref \in Seq(Rounds), NEW fresh \in Seq(Rounds)
  PROVE  /\ Head(cwb) \in Rounds /\ Tail(cwb) \in Seq(Rounds)
         /\ Tail(cwb) \o fresh \in Seq(Rounds)
         /\ ToSet(cwb) = {Head(cwb)} \cup ToSet(Tail(cwb))
         /\ ToSet(Tail(cwb) \o fresh) = ToSet(Tail(cwb)) \cup ToSet(fresh)
         /\ Pending(ref, fresh) = ref \o (<<Head(cwb)>> \o (Tail(cwb) \o fresh))
<1>1. PICK r, t : r = Head(cwb) /\ t = Tail(cwb)
  OBVIOUS
<1>2. /\ r \in Rounds /\ t \in Seq(Rounds) /\ cwb = <<r>> \o t
      /\ ToSet(cwb) = {r} \cup ToSet(t)
  BY <1>1, HeadAndTail DEF Shape
<1>3. <<r>> \in Seq(Rounds)
  BY <1>2, InFront
<1>4. cwb \o fresh = <<r>> \o (t \o fresh)
  BY <1>2, <1>3, ConcatAssociative
<1>5. t \o fresh \in Seq(Rounds) /\ ToSet(t \o fresh) = ToSet(t) \cup ToSet(fresh)
  BY <1>2, ConcatElements
<1> QED BY <1>1, <1>2, <1>4, <1>5 DEF Pending

\* A refused round is found ahead of one on the hop.
LEMMA FoundAhead ==
  ASSUME NEW rel \in Seq(Rounds), NEW ref \in Seq(Rounds), NEW r \in Rounds,
         NEW behind \in Seq(Rounds), ref # <<>>,
         queue["window"] = rel \o (ref \o (<<r>> \o behind)),
         \A q \in ToSet(ref) : context[q] = "wait"
  PROVE  RefusedAhead(r)
<1>1. PICK u : u = <<r>> \o behind
  OBVIOUS
<1>2. u \in Seq(Rounds) /\ u # <<>> /\ Head(u) = r
  BY <1>1, InFront
<1>3. u[1] = r /\ Len(u) \in Nat /\ Len(u) >= 1
  BY <1>2, HeadAndTail, EmptySeq
<1>4. ref[1] \in ToSet(ref) /\ Len(ref) \in Nat /\ Len(ref) >= 1 /\ Len(rel) \in Nat
  <2>1. Len(ref) \in Nat /\ Len(ref) >= 1 /\ DOMAIN ref = 1 .. Len(ref)
    BY EmptySeq, LenProperties
  <2>2. Len(rel) \in Nat
    BY LenProperties
  <2>3. 1 \in DOMAIN ref
    BY <2>1
  <2>4. ref[1] \in ToSet(ref)
    BY <2>3 DEF ToSet
  <2> QED BY <2>1, <2>2, <2>4
<1>5. PICK x : x = ref \o u
  OBVIOUS
<1>6. x \in Seq(Rounds) /\ x[1] = ref[1] /\ x[Len(ref) + 1] = r
      /\ Len(x) = Len(ref) + Len(u)
  <2>1. /\ x \in Seq(Rounds) /\ Len(x) = Len(ref) + Len(u)
        /\ \A i \in 1 .. Len(ref) + Len(u) :
             x[i] = IF i <= Len(ref) THEN ref[i] ELSE u[i - Len(ref)]
    BY <1>2, <1>5, ConcatProperties
  <2>2. /\ 1 \in 1 .. Len(ref) + Len(u) /\ 1 <= Len(ref)
        /\ Len(ref) + 1 \in 1 .. Len(ref) + Len(u) /\ ~(Len(ref) + 1 <= Len(ref))
        /\ (Len(ref) + 1) - Len(ref) = 1
    BY <1>3, <1>4
  <2> QED BY <1>3, <2>1, <2>2
<1> DEFINE i == Len(rel) + 1
           j == Len(rel) + (Len(ref) + 1)
<1>7. queue["window"] = rel \o x
  BY <1>1, <1>5
<1>8. /\ i \in DOMAIN queue["window"] /\ j \in DOMAIN queue["window"] /\ i < j
      /\ queue["window"][i] = ref[1] /\ queue["window"][j] = r
  <2>1. /\ rel \o x \in Seq(Rounds) /\ Len(rel \o x) = Len(rel) + Len(x)
        /\ \A k \in 1 .. Len(rel) + Len(x) :
             (rel \o x)[k] = IF k <= Len(rel) THEN rel[k] ELSE x[k - Len(rel)]
    <3>1. Both(Rounds, rel, x)
      BY <1>6 DEF Both
    <3> QED BY <3>1, Concatenated
  <2>2. DOMAIN queue["window"] = 1 .. Len(rel) + Len(x)
    BY <1>7, <2>1, LenProperties
  <2>3. /\ i \in 1 .. Len(rel) + Len(x) /\ j \in 1 .. Len(rel) + Len(x) /\ i < j
        /\ ~(i <= Len(rel)) /\ ~(j <= Len(rel))
        /\ i - Len(rel) = 1 /\ j - Len(rel) = Len(ref) + 1
    BY <1>3, <1>4, <1>6
  <2> QED BY <1>6, <1>7, <2>1, <2>2, <2>3
<1> HIDE DEF i, j
<1> QED BY <1>4, <1>8 DEF RefusedAhead

\* The end of the CWB hop: the round waits once more, behind the refused ones,
\* or none is ahead of it and it is handed over.
LEMMA DeliverInLine ==
  ASSUME BInv, LineInv, Deliver
  PROVE  LineInv'
<1>1. PICK old \in Seq(Rounds), rel \in Seq(Rounds), ref \in Seq(Rounds),
           fresh \in Seq(Rounds) : Line(old, rel, ref, fresh)
  BY DEF LineInv
<1>2. PICK w : w \in Seq(Rounds) /\ w = Joined(ref, fresh)
  BY LineParts DEF BInv
<1>3. PICK r, behind : r = Head(cwb) /\ behind = Tail(cwb) \o fresh
  OBVIOUS
<1>4. /\ r \in Rounds /\ behind \in Seq(Rounds) /\ Tail(cwb) \in Seq(Rounds)
      /\ ToSet(cwb) = {r} \cup ToSet(Tail(cwb))
      /\ ToSet(behind) = ToSet(Tail(cwb)) \cup ToSet(fresh)
      /\ Pending(ref, fresh) = ref \o (<<r>> \o behind)
  BY <1>3, HeadOfHop DEF BInv, Deliver
<1>5. /\ Moving /\ UNCHANGED <<queue, reserved>> /\ cwb' = Tail(cwb)
  BY DEF Deliver, Moving
<1>6. /\ context \in [Rounds -> Stages] /\ soon \in Seq(Events)
      /\ accepted \in Seq(Rounds)
  BY DEF BInv, Shape
<1>7. /\ accepted = old \o rel
      /\ queue["window"] = rel \o (ref \o (<<r>> \o behind))
      /\ w = accepted \o (ref \o (<<r>> \o behind))
      /\ Those(soon, Releases) = AsEvents(rel)
      /\ Stations(rel, ref, fresh) /\ Ordered(w) /\ Accounted(w)
  BY <1>1, <1>2, <1>4 DEF Line, Joined
<1>8. /\ context[r] = "draining" /\ r \in reserved /\ r \notin ToSet(ref)
      /\ r \notin ToSet(fresh)
  BY <1>4, <1>7 DEF Stations
<1>9. Deliverable' = Deliverable
  BY <1>5 DEF Deliverable
<1>10. CASE context' = [context EXCEPT ![r] = "wait"] /\ UNCHANGED <<accepted, soon>>
  <2>1. r \notin ToSet(rel) \cup ToSet(Tail(cwb))
    <3>1. PICK u, v : u = <<r>> \o behind /\ v = ref \o u
      OBVIOUS
    <3>2. u \in Seq(Rounds) /\ u # <<>> /\ Head(u) = r /\ Tail(u) = behind
          /\ ToSet(u) = {r} \cup ToSet(behind)
      BY SMTT(30), <1>4, <3>1, InFront
    <3>3. v \in Seq(Rounds) /\ ToSet(v) = ToSet(ref) \cup ToSet(u)
      <4>1. Both(Rounds, ref, u)
        BY <3>2 DEF Both
      <4>2. ref \o u \in Seq(Rounds) /\ ToSet(ref \o u) = ToSet(ref) \cup ToSet(u)
        BY <4>1, Concatenated
      <4>3. v = ref \o u
        BY <3>1
      <4> QED BY <4>2, <4>3
    <3>4. IsInjective(rel \o v)
      BY <1>1, <1>7, <3>1, LineInjective DEF BInv
    <3>5. IsInjective(v) /\ ToSet(rel) \cap ToSet(v) = {}
      BY <3>3, <3>4, InjectiveParts
    <3>6. IsInjective(u)
      BY <3>1, <3>2, <3>5, InjectiveParts
    <3>7. r \notin ToSet(behind)
      BY <3>2, <3>6, HeadAndTail
    <3> QED BY <1>4, <3>2, <3>3, <3>5, <3>7
  <2>2. PICK more : more = ref \o <<r>>
    OBVIOUS
  <2>3. /\ more \in Seq(Rounds) /\ ToSet(more) = ToSet(ref) \cup {r}
        /\ ref \o (<<r>> \o behind) = more \o behind
    <3>1. Around(Rounds, ref, r, behind)
      BY <1>4 DEF Around
    <3>2. /\ more = Append(ref, r)
          /\ ref \o (<<r>> \o behind) = more \o behind
      BY <2>2, <3>1, InBetween
    <3> QED BY SMTT(30), <1>4, <3>2, AppendElements
  <2>4. Pending(more, fresh)' = more \o behind /\ Joined(more, fresh)' = w
    BY <1>3, <1>5, <1>7, <1>10, <2>3 DEF Pending, Joined
  <2>5. Stations(rel, more, fresh)'
    <3>1. \A q \in ToSet(rel) \cup ToSet(ref) \cup ToSet(Tail(cwb)) \cup ToSet(fresh) :
            q \in Rounds /\ q # r
      <4>1. ToSet(rel) \cup ToSet(ref) \cup ToSet(Tail(cwb)) \cup ToSet(fresh)
              \subseteq Rounds
        BY <1>4, ToSetOfSeq
      <4> QED BY <1>8, <2>1, <4>1
    <3>2. \A q \in ToSet(rel) \cup ToSet(ref) \cup ToSet(Tail(cwb)) \cup ToSet(fresh) :
            context'[q] = context[q]
      BY <1>6, <1>10, <3>1
    <3>3. context'[r] = "wait" /\ r \in Deliverable
      BY <1>4, <1>6, <1>8, <1>10 DEF Deliverable
    <3> QED BY <1>4, <1>5, <1>7, <1>9, <2>3, <3>2, <3>3 DEF Stations
  <2> QED BY <1>2, <1>5, <1>7, <1>10, <2>3, <2>4, <2>5, LineMoves DEF LineInv
<1>11. CASE /\ ~RefusedAhead(r) /\ accepted' = Append(accepted, r)
            /\ soon' = Append(soon, Release(r)) /\ UNCHANGED context
  <2>1. ref = <<>>
    BY <1>4, <1>7, <1>11, FoundAhead DEF Stations
  <2>2. PICK more : more = rel \o <<r>>
    OBVIOUS
  <2>3. /\ more \in Seq(Rounds) /\ more = Append(rel, r)
        /\ ToSet(more) = ToSet(rel) \cup {r}
        /\ rel \o (<<r>> \o behind) = more \o behind
    <3>1. Around(Rounds, rel, r, behind)
      BY <1>4 DEF Around
    <3>2. /\ more = Append(rel, r)
          /\ rel \o (<<r>> \o behind) = more \o behind
      BY <2>2, <3>1, InBetween
    <3> QED BY SMTT(30), <1>4, <3>2, AppendElements
  <2>4. ref \o (<<r>> \o behind) = <<r>> \o behind /\ ref \o behind = behind
    BY <1>4, <2>1, InFront, ConcatEmptySeq
  <2>5. queue'["window"] = more \o behind /\ Pending(ref, fresh)' = behind
    BY <1>3, <1>5, <1>7, <2>3, <2>4 DEF Pending
  <2>6. accepted' = old \o more
    <3>1. old \o Append(rel, r) = Append(old \o rel, r)
      BY <1>4, AppendOfConcat
    <3> QED BY <1>7, <1>11, <2>3, <3>1
  <2>7. Joined(ref, fresh)' = w
    <3>1. Around(Rounds, accepted, r, behind)
      BY <1>4, <1>6 DEF Around
    <3>2. /\ accepted \o <<r>> = Append(accepted, r)
          /\ accepted \o (<<r>> \o behind) = (accepted \o <<r>>) \o behind
      BY <3>1, InBetween
    <3> QED BY <1>7, <1>11, <2>4, <2>5, <3>2 DEF Joined
  <2>8. Those(soon', Releases) = AsEvents(more)
    <3>1. Release(r) \in Events /\ Release(r) \in Releases
      BY <1>4, EventKinds DEF Releases
    <3>2. Those(soon', Releases) = Append(AsEvents(rel), Release(r))
      BY <1>6, <1>7, <1>11, <3>1, ThoseAppend
    <3>3. <<r>> \in Seq(Rounds) /\ AsEvents(<<r>>) = <<Release(r)>>
      BY <1>4, InFront, AsEventsOne
    <3>4. AsEvents(more) = AsEvents(rel) \o <<Release(r)>>
      BY <2>2, <3>3, AsEventsConcat
    <3>5. AsEvents(rel) \in Seq(Events)
      BY AsEventsElements
    <3> QED BY <3>1, <3>2, <3>4, <3>5, AppendIsConcat
  <2>9. Stations(more, ref, fresh)'
    BY <1>4, <1>5, <1>7, <1>8, <1>9, <1>11, <2>3 DEF Stations
  <2> QED BY <1>2, <1>5, <1>7, <2>3, <2>5, <2>6, <2>7, <2>8, <2>9, LineMoves
          DEF LineInv
<1> QED BY <1>3, <1>10, <1>11 DEF Deliver

\* What waits on the line: the refused rounds, then the fresh ones.
LEMMA WaitingOnLine ==
  ASSUME Shape, NEW rel \in Seq(Rounds), NEW ref \in Seq(Rounds),
         NEW fresh \in Seq(Rounds), Stations(rel, ref, fresh),
         queue["window"] = rel \o Pending(ref, fresh)
  PROVE  InLine = ref \o fresh
<1>1. PICK S : S = Waiting
  OBVIOUS
<1>2. cwb \in Seq(Rounds)
  BY DEF Shape
<1>3. /\ ToSet(rel) \cap S = {} /\ ToSet(ref) \subseteq S
      /\ ToSet(cwb) \cap S = {} /\ ToSet(fresh) \subseteq S
  <2>1. ToSet(ref) \subseteq Rounds /\ ToSet(fresh) \subseteq Rounds
    BY ToSetOfSeq
  <2> QED BY <1>1, <2>1 DEF Stations, Waiting
<1>4. /\ Those(rel, S) = <<>> /\ Those(ref, S) = ref
      /\ Those(cwb, S) = <<>> /\ Those(fresh, S) = fresh
  BY <1>2, <1>3, ThoseAll
<1>5. PICK c : c = cwb \o fresh
  OBVIOUS
<1>6. c \in Seq(Rounds) /\ Those(c, S) = fresh
  <2>1. c \in Seq(Rounds)
    BY <1>2, <1>5, ConcatProperties
  <2>2. Those(cwb \o fresh, S) = Those(cwb, S) \o Those(fresh, S)
    BY <1>2, ThoseConcat
  <2> QED BY <1>4, <1>5, <2>1, <2>2, ConcatEmptySeq
<1>7. PICK p : p = ref \o c
  OBVIOUS
<1>8. p \in Seq(Rounds) /\ Those(p, S) = ref \o fresh
  <2>1. p \in Seq(Rounds)
    BY <1>6, <1>7, ConcatProperties
  <2>2. Those(ref \o c, S) = Those(ref, S) \o Those(c, S)
    BY <1>6, ThoseConcat
  <2> QED BY <1>4, <1>6, <1>7, <2>1, <2>2
<1>9. Those(rel \o p, S) = ref \o fresh
  <2>1. Those(rel \o p, S) = Those(rel, S) \o Those(p, S)
    BY <1>8, ThoseConcat
  <2>2. ref \o fresh \in Seq(Rounds)
    BY ConcatProperties
  <2> QED BY <1>4, <1>8, <2>1, <2>2, ConcatEmptySeq
<1> QED BY <1>1, <1>5, <1>7, <1>9 DEF InLine, Pending

\* An arbitration cuts the refused and the fresh rounds in two each: refused
\* ones are handed over, fresh ones go on their hop.
Cut(n, ref, fresh, hand, more, gone, stay) ==
  /\ ref = hand \o more /\ fresh = gone \o stay
  /\ Now(n) = hand /\ Away(n) = gone
  /\ ToSet(Sent(n)) = ToSet(hand) \cup ToSet(gone)
  /\ ToSet(hand) \cap ToSet(more) = {} /\ ToSet(gone) \cap ToSet(stay) = {}

\* It ends at a refused round, or not at all.
LEMMA CutOfLine ==
  ASSUME NEW ref \in Seq(Rounds), NEW fresh \in Seq(Rounds), IsInjective(ref),
         InLine = ref \o fresh,
         \A r \in ToSet(ref) : r \in Deliverable,
         \A r \in ToSet(fresh) : r \notin Deliverable,
         NEW n \in 0 .. Len(InLine), Sends(InLine, n)
  PROVE  \E hand, more, gone, stay \in Seq(Rounds) :
           Cut(n, ref, fresh, hand, more, gone, stay)
<1>1. PICK x : x = InLine
  OBVIOUS
<1>2. /\ x \in Seq(Rounds) /\ Len(x) = Len(ref) + Len(fresh)
      /\ \A i \in 1 .. Len(ref) + Len(fresh) :
           x[i] = IF i <= Len(ref) THEN ref[i] ELSE fresh[i - Len(ref)]
      /\ ToSet(x) = ToSet(ref) \cup ToSet(fresh)
  <2>1. Both(Rounds, ref, fresh)
    BY DEF Both
  <2> QED BY <1>1, <2>1, Concatenated
<1>3. /\ Len(ref) \in Nat /\ Len(fresh) \in Nat /\ n \in Nat
      /\ DOMAIN fresh = 1 .. Len(fresh)
  BY <1>1, <1>2, LenProperties
<1>4. <<>> \in Seq(Rounds) /\ ToSet(<<>>) = {}
  BY EmptySeq DEF ToSet
<1>5. ToSet(ref) \subseteq Rounds /\ ToSet(fresh) \subseteq Rounds
  BY ToSetOfSeq
<1>6. CASE n = Len(x)
  <2>1. Sent(n) = x
    BY <1>1, <1>2, <1>6, SubSeqFull DEF Sent
  <2>2. Those(ref \o fresh, Deliverable) = ref
    <3>1. Those(ref \o fresh, Deliverable)
            = Those(ref, Deliverable) \o Those(fresh, Deliverable)
      BY ThoseConcat
    <3>2. Those(ref, Deliverable) = ref /\ Those(fresh, Deliverable) = <<>>
      <4>1. ToSet(ref) \subseteq Deliverable /\ ToSet(fresh) \cap Deliverable = {}
        OBVIOUS
      <4> QED BY <4>1, ThoseAll
    <3> QED BY <3>1, <3>2, ConcatEmptySeq
  <2>3. Those(ref \o fresh, Rounds \ Deliverable) = fresh
    <3>1. Those(ref \o fresh, Rounds \ Deliverable)
            = Those(ref, Rounds \ Deliverable) \o Those(fresh, Rounds \ Deliverable)
      BY ThoseConcat
    <3>2. Those(ref, Rounds \ Deliverable) = <<>>
          /\ Those(fresh, Rounds \ Deliverable) = fresh
      <4>1. /\ ToSet(ref) \cap (Rounds \ Deliverable) = {}
            /\ ToSet(fresh) \subseteq Rounds \ Deliverable
        BY <1>5
      <4> QED BY <4>1, ThoseAll
    <3> QED BY <3>1, <3>2, ConcatEmptySeq
  <2>4. ref \o <<>> = ref /\ fresh \o <<>> = fresh
    BY ConcatEmptySeq
  <2>5. Cut(n, ref, fresh, ref, <<>>, fresh, <<>>)
    BY <1>1, <1>2, <1>4, <2>1, <2>2, <2>3, <2>4 DEF Cut, Now, Away
  <2> QED BY <1>4, <2>5
<1>7. CASE n < Len(x) /\ x[n + 1] \in Deliverable
  <2>1. n < Len(ref)
    <3> SUFFICES ASSUME ~(n < Len(ref)) PROVE FALSE
      OBVIOUS
    <3>1. /\ n + 1 \in 1 .. Len(ref) + Len(fresh) /\ ~(n + 1 <= Len(ref))
          /\ (n + 1) - Len(ref) \in 1 .. Len(fresh)
      BY <1>2, <1>3, <1>7
    <3>2. x[n + 1] \in ToSet(fresh)
      BY <1>2, <1>3, <3>1 DEF ToSet
    <3> QED BY <1>7, <3>2
  <2>2. PICK hand, more :
          hand = SubSeq(ref, 1, n) /\ more = SubSeq(ref, n + 1, Len(ref))
    OBVIOUS
  <2>3. /\ hand \in Seq(Rounds) /\ more \in Seq(Rounds)
        /\ ToSet(hand) \cap ToSet(more) = {} /\ ToSet(hand) \subseteq ToSet(ref)
    <3>1. n \in 0 .. Len(ref)
      BY <1>3, <2>1
    <3> QED BY <2>2, <3>1, CutElements
  <2>4. ref = hand \o more
    <3>1. 1 \in 1 .. Len(ref) + 1 /\ n \in 1 - 1 .. Len(ref) /\ Len(ref) \in n .. Len(ref)
      BY <1>3, <2>1
    <3>2. SubSeq(ref, 1, n) \o SubSeq(ref, n + 1, Len(ref)) = SubSeq(ref, 1, Len(ref))
      BY <3>1, ConcatAdjacentSubSeq
    <3> QED BY <2>2, <3>2, SubSeqFull
  <2>5. Sent(n) = hand
    <3>1. CASE n = 0
      <4>1. SubSeq(x, 1, n) = <<>> /\ SubSeq(ref, 1, n) = <<>>
        BY <3>1, SubSeqEmpty
      <4> QED BY <1>1, <2>2, <4>1 DEF Sent
    <3>2. CASE n # 0
      <4>1. 1 \in 1 .. Len(ref) /\ n \in 1 .. Len(ref)
        BY <1>3, <2>1, <3>2
      <4>2. SubSeq(ref \o fresh, 1, n) = SubSeq(ref, 1, n)
        BY <4>1, SubSeqOfConcat1
      <4> QED BY <1>1, <2>2, <4>2 DEF Sent
    <3> QED BY <3>1, <3>2
  <2>6. Now(n) = hand /\ Away(n) = <<>>
    <3>1. ToSet(hand) \subseteq Deliverable
          /\ ToSet(hand) \cap (Rounds \ Deliverable) = {}
      BY <2>3
    <3> QED BY <2>3, <2>5, <3>1, ThoseAll DEF Now, Away
  <2>7. <<>> \o fresh = fresh
    BY ConcatEmptySeq
  <2>8. Cut(n, ref, fresh, hand, more, <<>>, fresh)
    BY <1>4, <2>3, <2>4, <2>5, <2>6, <2>7 DEF Cut
  <2> QED BY <1>4, <2>3, <2>8
<1> QED BY <1>1, <1>6, <1>7 DEF Sends

\* What is cut from two sequences joins their fronts.
LEMMA Recut ==
  ASSUME NEW a, a \in Seq(Rounds), NEW b, b \in Seq(Rounds), NEW c, c \in Seq(Rounds)
  PROVE  /\ a \o (b \o c) = (a \o b) \o c
         /\ a \o b \in Seq(Rounds) /\ b \o c \in Seq(Rounds)
BY ConcatAssociative, ConcatProperties

\* Three sequences of rounds.
Three(a, b, c) == a \in Seq(Rounds) /\ b \in Seq(Rounds) /\ c \in Seq(Rounds)

\* Two of them in brackets, or the other two.
LEMMA Brackets ==
  ASSUME NEW a, NEW b, NEW c, Three(a, b, c)
  PROVE  /\ a \o (b \o c) = (a \o b) \o c
         /\ a \o b \in Seq(Rounds) /\ b \o c \in Seq(Rounds)
BY Recut DEF Three

\* A line around a cut, before and after its front has moved.
Cutting(a, hop, hand, more, gone, stay) ==
  Three(a, hand, more) /\ Three(hop, gone, stay)
Before(a, hop, hand, more, gone, stay) ==
  a \o ((hand \o more) \o (hop \o (gone \o stay)))
After(a, hop, hand, more, gone, stay) ==
  (a \o hand) \o (more \o ((hop \o gone) \o stay))

\* What a cut moves stays in its place on the line.
LEMMA CutJoins ==
  ASSUME NEW a, NEW hop, NEW hand, NEW more, NEW gone, NEW stay,
         Cutting(a, hop, hand, more, gone, stay)
  PROVE  After(a, hop, hand, more, gone, stay)
           = Before(a, hop, hand, more, gone, stay)
<1>0. Three(a, hand, more) /\ Three(hop, gone, stay)
  BY DEF Cutting
<1>1. /\ a \in Seq(Rounds) /\ hand \in Seq(Rounds) /\ more \in Seq(Rounds)
      /\ a \o hand \in Seq(Rounds)
  BY <1>0, Brackets DEF Three
<1>2. PICK c : c = hop \o (gone \o stay)
  OBVIOUS
<1>3. c = (hop \o gone) \o stay /\ hop \o gone \in Seq(Rounds) /\ c \in Seq(Rounds)
  <2>1. c = (hop \o gone) \o stay /\ hop \o gone \in Seq(Rounds)
    BY SMTT(30), <1>0, <1>2, Brackets
  <2>2. gone \o stay \in Seq(Rounds) /\ hop \in Seq(Rounds)
    BY <1>0, Brackets DEF Three
  <2> QED BY <1>2, <2>1, <2>2, ConcatProperties
<1>4. PICK d : d = more \o c
  OBVIOUS
<1>5. d \in Seq(Rounds) /\ (hand \o more) \o c = hand \o d
  <2>1. Three(hand, more, c)
    BY <1>1, <1>3 DEF Three
  <2> QED BY <1>4, <2>1, Brackets
<1>6. a \o (hand \o d) = (a \o hand) \o d
  <2>1. Three(a, hand, d)
    BY <1>1, <1>5 DEF Three
  <2> QED BY <2>1, Brackets
<1> QED BY <1>1, <1>2, <1>3, <1>4, <1>5, <1>6 DEF After, Before

\* On the line the refused rounds are free of repetitions, too.
LEMMA RefusedInjective ==
  ASSUME Shape, NEW old \in Seq(Rounds), NEW rel \in Seq(Rounds),
         NEW ref \in Seq(Rounds), NEW fresh \in Seq(Rounds),
         Line(old, rel, ref, fresh)
  PROVE  IsInjective(ref)
<1>1. PICK c, p : c = cwb \o fresh /\ p = ref \o c
  OBVIOUS
<1>2. c \in Seq(Rounds) /\ p \in Seq(Rounds)
  BY <1>1, LineParts DEF Pending
<1>3. IsInjective(rel \o p)
  BY <1>1, LineInjective DEF Line, Pending
<1>4. IsInjective(p)
  BY <1>2, <1>3, InjectiveParts
<1> QED BY <1>1, <1>2, <1>4, InjectiveParts

\* An arbitration: refused rounds are handed over and fresh ones go on their
\* hop, up to a round that is refused.
LEMMA ArbitrationInLine ==
  ASSUME BInv, LineInv, RunArbitration
  PROVE  LineInv'
<1>1. PICK old \in Seq(Rounds), rel \in Seq(Rounds), ref \in Seq(Rounds),
           fresh \in Seq(Rounds) : Line(old, rel, ref, fresh)
  BY DEF LineInv
<1>2. PICK n \in 0 .. Len(InLine) : Arbitrated(n)
  BY ArbitrationCut
<1>3. PICK w : w \in Seq(Rounds) /\ w = Joined(ref, fresh)
  BY LineParts DEF BInv
<1>4. /\ accepted = old \o rel /\ queue["window"] = rel \o Pending(ref, fresh)
      /\ Those(soon, Releases) = AsEvents(rel)
      /\ Stations(rel, ref, fresh) /\ Ordered(w) /\ Accounted(w)
  BY <1>1, <1>3 DEF Line
<1>5. PICK hand, more, gone, stay :
        /\ Three(hand, more, stay) /\ gone \in Seq(Rounds)
        /\ Cut(n, ref, fresh, hand, more, gone, stay)
  <2>1. InLine = ref \o fresh /\ IsInjective(ref)
    BY <1>1, <1>4, WaitingOnLine, RefusedInjective DEF BInv
  <2>2. \E hand, more, gone, stay \in Seq(Rounds) :
          Cut(n, ref, fresh, hand, more, gone, stay)
    BY <1>2, <1>4, <2>1, CutOfLine DEF Stations, Arbitrated
  <2> QED BY <2>2 DEF Three
<1>6. /\ hand \in Seq(Rounds) /\ more \in Seq(Rounds) /\ stay \in Seq(Rounds)
      /\ gone \in Seq(Rounds) /\ ref = hand \o more /\ fresh = gone \o stay
      /\ ToSet(hand) \cap ToSet(more) = {} /\ ToSet(gone) \cap ToSet(stay) = {}
  BY <1>5 DEF Three, Cut
<1>7. /\ context' = [r \in Rounds |->
            IF r \in ToSet(hand) \cup ToSet(gone)
               \/ (Feeds /\ r = Head(queue["memory"])) THEN "draining"
            ELSE context[r]]
      /\ cwb' = cwb \o gone /\ reserved' = reserved \cup ToSet(gone)
      /\ accepted' = accepted \o hand
      /\ soon' = Tail(soon) \o AsEvents(hand)
  BY <1>2, <1>5 DEF Arbitrated, Cut
<1>8. Moving /\ UNCHANGED queue /\ soon # <<>> /\ Head(soon) = Arbitrate
  BY DEF RunArbitration, Moving
<1>9. /\ soon \in Seq(Events) /\ cwb \in Seq(Rounds) /\ accepted \in Seq(Rounds)
      /\ context \in [Rounds -> Stages]
  BY DEF BInv, Shape
<1>10. /\ ToSet(ref) = ToSet(hand) \cup ToSet(more)
       /\ ToSet(fresh) = ToSet(gone) \cup ToSet(stay)
       /\ ToSet(cwb') = ToSet(cwb) \cup ToSet(gone)
       /\ ToSet(rel \o hand) = ToSet(rel) \cup ToSet(hand)
       /\ rel \o hand \in Seq(Rounds)
  <2>1. Both(Rounds, hand, more) /\ Both(Rounds, gone, stay)
        /\ Both(Rounds, cwb, gone) /\ Both(Rounds, rel, hand)
    BY <1>6, <1>9 DEF Both
  <2>2. ToSet(hand \o more) = ToSet(hand) \cup ToSet(more)
    BY <2>1, Concatenated
  <2>3. ToSet(gone \o stay) = ToSet(gone) \cup ToSet(stay)
    BY <2>1, Concatenated
  <2>4. ToSet(cwb \o gone) = ToSet(cwb) \cup ToSet(gone)
    BY <2>1, Concatenated
  <2>5. ToSet(rel \o hand) = ToSet(rel) \cup ToSet(hand)
        /\ rel \o hand \in Seq(Rounds)
    BY <2>1, Concatenated
  <2> QED BY <1>6, <1>7, <2>2, <2>3, <2>4, <2>5
\* The refused rounds can be handed over, the fresh ones cannot.
<1>11. /\ ToSet(hand) \cap ToSet(stay) = {}
       /\ ToSet(more) \cap ToSet(gone) = {}
       /\ ToSet(gone) \cap reserved = {}
       /\ ToSet(stay) \cap reserved = {}
       /\ \A r \in ToSet(fresh) : Priced
  BY <1>4, <1>6, <1>10, ToSetOfSeq DEF Stations, Deliverable
<1>12. /\ ToSet(rel) \cup ToSet(ref) \cup ToSet(cwb) \cup ToSet(fresh) \subseteq Rounds
       /\ \A r \in ToSet(rel) \cup ToSet(ref) \cup ToSet(cwb) \cup ToSet(fresh) :
            ~(Feeds /\ r = Head(queue["memory"]))
  <2>1. ToSet(rel) \cup ToSet(ref) \cup ToSet(cwb) \cup ToSet(fresh)
          = ToSet(queue["window"])
    BY <1>1, LineInjective DEF BInv
  <2>2. /\ queue["window"] \in Seq(Rounds)
        /\ \A r \in ToSet(queue["window"]) : IsWindow(r)
    BY RouteOf DEF BInv, Shape, Routes
  <2>3. ToSet(queue["window"]) \subseteq Rounds
    BY <2>2, ToSetOfSeq
  <2>4. Feeds => ~IsWindow(Head(queue["memory"]))
    BY FedRound DEF BInv
  <2> QED BY <2>1, <2>2, <2>3, <2>4
<1>13. Stations(rel \o hand, more, stay)'
  <2>1. \A r \in ToSet(rel) \cup ToSet(cwb) \cup ToSet(hand) \cup ToSet(gone) :
          context'[r] = "draining"
    BY <1>4, <1>7, <1>10, <1>12 DEF Stations
  <2>2. \A r \in ToSet(more) : context'[r] = "wait" /\ r \in Deliverable'
    <3>1. \A r \in ToSet(more) : context'[r] = context[r]
      BY <1>6, <1>7, <1>10, <1>11, <1>12
    <3> QED BY <1>4, <1>7, <1>10, <3>1 DEF Stations, Deliverable
  <2>3. \A r \in ToSet(stay) : context'[r] = "wait" /\ r \notin Deliverable'
    <3>1. \A r \in ToSet(stay) : context'[r] = context[r] /\ r \notin ToSet(gone)
      BY <1>6, <1>7, <1>10, <1>11, <1>12
    <3> QED BY <1>4, <1>7, <1>10, <1>11, <3>1 DEF Stations, Deliverable
  <2>4. \A r \in ToSet(cwb') : Priced /\ r \in reserved'
    BY <1>4, <1>7, <1>10, <1>11 DEF Stations
  <2> QED BY <1>10, <2>1, <2>2, <2>3, <2>4 DEF Stations
<1>14. /\ queue'["window"] = (rel \o hand) \o Pending(more, stay)'
       /\ Joined(more, stay)' = w
  <2>1. /\ Cutting(rel, cwb, hand, more, gone, stay)
        /\ Cutting(accepted, cwb, hand, more, gone, stay)
    BY <1>6, <1>9 DEF Cutting, Three
  <2>2. After(rel, cwb, hand, more, gone, stay)
          = Before(rel, cwb, hand, more, gone, stay)
    BY <2>1, CutJoins
  <2>3. After(accepted, cwb, hand, more, gone, stay)
          = Before(accepted, cwb, hand, more, gone, stay)
    BY <2>1, CutJoins
  <2>4. /\ queue["window"] = Before(rel, cwb, hand, more, gone, stay)
        /\ w = Before(accepted, cwb, hand, more, gone, stay)
    BY <1>3, <1>4, <1>6 DEF Pending, Joined, Before
  <2>5. /\ (rel \o hand) \o Pending(more, stay)'
              = After(rel, cwb, hand, more, gone, stay)
        /\ Joined(more, stay)' = After(accepted, cwb, hand, more, gone, stay)
    BY <1>7 DEF Pending, Joined, After
  <2> QED BY <1>8, <2>2, <2>3, <2>4, <2>5
<1>15. accepted' = old \o (rel \o hand)
  <2>1. Three(old, rel, hand)
    BY <1>6 DEF Three
  <2>2. old \o (rel \o hand) = (old \o rel) \o hand
    BY <2>1, Brackets
  <2> QED BY <1>4, <1>7, <2>2
<1>16. Those(soon', Releases) = AsEvents(rel \o hand)
  <2>1. PICK rest, events : rest = Tail(soon) /\ events = AsEvents(hand)
    OBVIOUS
  <2>2. /\ rest \in Seq(Events) /\ soon = <<Arbitrate>> \o rest
        /\ Arbitrate \in Events /\ Arbitrate \notin Releases
    BY <1>8, <1>9, <2>1, HeadAndTail, EventKinds DEF Events
  <2>3. events \in Seq(Events) /\ ToSet(events) \subseteq Releases
    <3>1. events \in Seq(Events) /\ ToSet(events) = {Release(r) : r \in ToSet(hand)}
      BY <1>6, <2>1, AsEventsElements
    <3>2. ToSet(hand) \subseteq Rounds
      BY <1>6, ToSetOfSeq
    <3> QED BY <3>1, <3>2 DEF Releases
  <2>4. Those(rest, Releases) = AsEvents(rel)
    <3>1. PICK one : one = <<Arbitrate>>
      OBVIOUS
    <3>2. one \in Seq(Events) /\ ToSet(one) = {Arbitrate} /\ soon = one \o rest
      BY <2>2, <3>1, InFront
    <3>3. Those(one \o rest, Releases) = Those(one, Releases) \o Those(rest, Releases)
      BY <2>2, <3>2, ThoseConcat
    <3>4. Those(one, Releases) = <<>>
      BY <2>2, <3>2, ThoseAll
    <3>5. Those(rest, Releases) \in Seq(Events)
      BY <2>2, ThoseElements
    <3> QED BY <1>4, <3>2, <3>3, <3>4, <3>5, ConcatEmptySeq
  <2>5. Those(rest \o events, Releases) = AsEvents(rel) \o events
    <3>1. Those(rest \o events, Releases)
            = Those(rest, Releases) \o Those(events, Releases)
      BY SMTT(30), <2>2, <2>3, ThoseConcat
    <3>2. Those(events, Releases) = events
      BY <2>3, ThoseAll
    <3> QED BY <2>4, <3>1, <3>2
  <2>6. AsEvents(rel \o hand) = AsEvents(rel) \o AsEvents(hand)
    BY <1>6, AsEventsConcat
  <2> QED BY <1>7, <2>1, <2>5, <2>6
<1> QED BY <1>3, <1>4, <1>6, <1>8, <1>10, <1>13, <1>14, <1>15, <1>16, LineMoves
        DEF LineInv

-----------------------------------------------------------------------------
(* Order *)

\* Before the first fragment the line is empty.
LEMMA InitInLine == Init => LineInv
<1> SUFFICES ASSUME Init PROVE LineInv
  OBVIOUS
<1>1. ToSet(<<>>) = {} /\ DOMAIN <<>> = {} /\ <<>> \in Seq(Rounds)
      /\ <<>> \o <<>> = <<>>
  BY EmptySeq DEF ToSet
<1>2. got = [r \in Rounds |-> {}] /\ packing = {} /\ soon = <<>> /\ cwb = <<>>
      /\ accepted = <<>> /\ queue["window"] = <<>>
  BY DEF Init
<1>3. \A r \in Rounds : ~Complete(r)
  <2> TAKE r \in Rounds
  <2>1. 1 \in 1 .. Slots[r[1]] /\ got[r] = {}
    BY <1>2, RoundPairs
  <2> QED BY <2>1 DEF Complete
<1>4. FragmentsInOrder
  BY <1>2 DEF FragmentsInOrder
<1>5. Joined(<<>>, <<>>) = <<>> /\ Pending(<<>>, <<>>) = <<>>
  BY <1>1, <1>2 DEF Joined, Pending
<1>6. Ordered(<<>>)
  BY <1>1 DEF Ordered
<1>7. Accounted(<<>>)
  BY <1>1, <1>2, <1>3 DEF Accounted
<1>8. Stations(<<>>, <<>>, <<>>)
  BY <1>1, <1>2 DEF Stations
<1>9. Those(soon, Releases) = AsEvents(<<>>)
  BY <1>2, ThoseEmpty DEF AsEvents
<1>10. Line(<<>>, <<>>, <<>>, <<>>)
  BY <1>1, <1>2, <1>5, <1>6, <1>7, <1>8, <1>9 DEF Line
<1> QED BY <1>1, <1>4, <1>10 DEF LineInv

\* Every step keeps the line, also when a round loses its last reader early.
LEMMA NextInLine ==
  ASSUME BInv, LineInv, [Next]_vars
  PROVE  LineInv'
<1>1. ASSUME NEW r \in Rounds, NEW i, Receive(r, i) PROVE LineInv'
  BY <1>1, ReceiveKinds, AssemblingInLine, FinishingInLine DEF BInv
<1>2. ASSUME NEW r \in Rounds, PackEnds(r) PROVE LineInv'
  BY <1>2, PackEndsKind, FinishingInLine DEF BInv
<1>3. ASSUME NEW r \in Rounds, LetGo(r) PROVE LineInv'
  BY <1>3, LetGoInLine
<1>4. CASE RunArbitration
  BY <1>4, ArbitrationInLine
<1>5. CASE RunRelease
  BY <1>5, ReleaseInLine
<1>6. CASE Deliver
  BY <1>6, DeliverInLine
<1>7. CASE DeliverMemory
  BY <1>7, DeliverMemoryInLine
<1>8. CASE NotifyReady
  BY <1>8, NotifyInLine
<1>9. CASE UNCHANGED vars
  <2>1. Moving /\ UNCHANGED <<cwb, reserved, accepted, queue, context, soon>>
    BY <1>9 DEF vars, Moving
  <2> QED BY <2>1, LineStands
<1> QED BY <1>1, <1>2, <1>3, <1>4, <1>5, <1>6, <1>7, <1>8, <1>9 DEF Next

\* The rounds of release events.
LEMMA RoundsOfEvents ==
  ASSUME NEW s \in Seq(Rounds)
  PROVE  [i \in DOMAIN AsEvents(s) |-> AsEvents(s)[i][2]] = s
<1>1. DOMAIN AsEvents(s) = DOMAIN s
      /\ \A i \in DOMAIN s : AsEvents(s)[i] = Release(s[i])
  BY DEF AsEvents
<1>2. \A i \in DOMAIN s : AsEvents(s)[i][2] = s[i]
  BY <1>1, EventKinds
<1>3. s = [i \in DOMAIN s |-> s[i]]
  BY LenProperties
<1> QED BY <1>1, <1>2, <1>3

\* What is ordered is ordered at its front, and nothing behind the front was
\* to come earlier.
LEMMA OrderedFront ==
  ASSUME NEW s \in Seq(Rounds), NEW t \in Seq(Rounds), Ordered(s \o t)
  PROVE  /\ \A i, j \in DOMAIN s :
              i < j /\ s[i][1] = s[j][1] => s[i][2] < s[j][2]
         /\ \A r \in ToSet(s) : \A k \in 1 .. (r[2] - 1) :
              <<r[1], k>> \in ToSet(s) \cup dropped
<1>1. PICK u : u = s \o t
  OBVIOUS
<1>2. /\ u \in Seq(Rounds) /\ Len(u) = Len(s) + Len(t)
      /\ \A i \in 1 .. Len(s) + Len(t) :
           u[i] = IF i <= Len(s) THEN s[i] ELSE t[i - Len(s)]
      /\ ToSet(u) = ToSet(s) \cup ToSet(t)
  <2>1. Both(Rounds, s, t)
    BY DEF Both
  <2> QED BY <1>1, <2>1, Concatenated
<1>3. /\ Len(s) \in Nat /\ Len(t) \in Nat
      /\ DOMAIN s = 1 .. Len(s) /\ DOMAIN t = 1 .. Len(t)
      /\ DOMAIN u = 1 .. Len(s) + Len(t)
  BY <1>2, LenProperties
<1>4. \A i \in DOMAIN s : i \in DOMAIN u /\ u[i] = s[i] /\ i <= Len(s)
  BY <1>2, <1>3
<1>5. \A i \in DOMAIN t : /\ Len(s) + i \in DOMAIN u /\ u[Len(s) + i] = t[i]
                          /\ Len(s) + i > Len(s)
  <2> TAKE i \in DOMAIN t
  <2>1. i \in Nat /\ i > 0 /\ Len(s) + i \in 1 .. Len(s) + Len(t)
        /\ (Len(s) + i) - Len(s) = i /\ ~(Len(s) + i <= Len(s))
    BY <1>3
  <2> QED BY <1>2, <1>3, <2>1
<1>6. Ordered(u)
  BY <1>1
<1>7. \A i, j \in DOMAIN u : i < j /\ u[i][1] = u[j][1] => u[i][2] < u[j][2]
  BY <1>6 DEF Ordered
<1>8. \A i, j \in DOMAIN s : i < j /\ s[i][1] = s[j][1] => s[i][2] < s[j][2]
  BY <1>4, <1>7
<1>9. ASSUME NEW r \in ToSet(s), NEW k \in 1 .. (r[2] - 1),
             <<r[1], k>> \notin ToSet(s), <<r[1], k>> \notin dropped
      PROVE  FALSE
  <2>1. PICK q : q = <<r[1], k>>
    OBVIOUS
  <2>2. q \in ToSet(t)
    BY <1>2, <1>6, <1>9, <2>1 DEF Ordered
  <2>3. PICK i \in DOMAIN s : s[i] = r
    BY DEF ToSet
  <2>4. PICK j \in DOMAIN t : t[j] = q
    BY <2>2 DEF ToSet
  <2>5. u[i][1] = u[Len(s) + j][1] /\ i < Len(s) + j
    BY <1>3, <1>4, <1>5, <2>1, <2>3, <2>4
  <2>6. r[2] < k
    BY <1>4, <1>5, <1>7, <2>1, <2>3, <2>4, <2>5
  <2>7. r \in Rounds
    BY ToSetOfSeq
  <2> QED BY <2>6, <2>7, RoundPairs
<1> QED BY <1>8, <1>9

\* The line is in order.
LEMMA LineIsOrdered ==
  ASSUME BInv, LineInv
  PROVE  HandoverInOrder
<1>1. PICK old \in Seq(Rounds), rel \in Seq(Rounds), ref \in Seq(Rounds),
           fresh \in Seq(Rounds) : Line(old, rel, ref, fresh)
  BY DEF LineInv
<1>2. PICK p : p = Pending(ref, fresh)
  OBVIOUS
<1>3. p \in Seq(Rounds) /\ accepted \in Seq(Rounds)
  BY <1>2, LineParts DEF BInv, Shape
<1>4. queue["window"] = rel \o p /\ Those(soon, Releases) = AsEvents(rel)
      /\ Ordered(accepted \o p)
  BY <1>1, <1>2 DEF Line, Joined
<1>5. AcceptedInOrder
  BY <1>3, <1>4, OrderedFront DEF AcceptedInOrder
<1>6. IsPrefix(rel, queue["window"])
  BY <1>3, <1>4, FrontIsPrefix
<1>7. ReleasesInOrder
  <2>1. PICK events : events = Those(soon, {Release(r) : r \in Rounds})
    OBVIOUS
  <2>2. events = AsEvents(rel)
    BY <1>4, <2>1 DEF Releases
  <2>3. [i \in DOMAIN events |-> events[i][2]] = rel
    BY <2>2, RoundsOfEvents
  <2> QED BY <1>6, <2>1, <2>3 DEF ReleasesInOrder
<1> QED BY <1>5, <1>7 DEF HandoverInOrder

\* HandoverInOrder: whatever is refused, retried or dropped, the rounds of a
\* stream are handed to the window manager once and in their order, and every
\* scheduled release finds its round at the head of the window route.
THEOREM RoundsHandedOverInOrder == Spec => []HandoverInOrder
<1>1. Init => BInv /\ LineInv
  BY InitRetains, InitInLine DEF RInv
<1>2. BInv /\ LineInv /\ [Next]_vars => (BInv /\ LineInv)'
  BY NextRetains, NextInLine
<1>3. BInv /\ LineInv => HandoverInOrder
  BY LineIsOrdered
<1> QED BY <1>1, <1>2, <1>3, PTL DEF Spec

=============================================================================

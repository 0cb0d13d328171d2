--------------------------- MODULE SyndromeBuffer ---------------------------
(***************************************************************************)
(* The round store of decsim/syndrome_buffer/syndrome_buffer.py, class     *)
(* SyndromeBuffer.  A finished syndrome round gets a slot, consumer holds  *)
(* keep it alive, and the slot is freed with the last hold.  Two stores of *)
(* this class exist at run time: Buffer 0 upstream of the weak decoders    *)
(* and syndrome buffer 1 on the room side.                                 *)
(*                                                                         *)
(* A call that the code answers with an exception stops the simulation, so *)
(* here it is simply not a step: an operation's guard is the conjunction   *)
(* of the conditions under which the method returns.  A refused write      *)
(* (store full) and a release of an already released token return without  *)
(* touching the store and are therefore stuttering.                        *)
(***************************************************************************)
EXTENDS Integers, FiniteSets

CONSTANTS
  Ops,            \* operation identities
  Rounds,         \* round identities (operation id, round index)
  OpOf,           \* operation of each round identity
  Holders,        \* consumer hold tokens
  GuardOps,       \* operations a token references besides those of its rounds
                  \* (a RephaseGuard names its request's operation)
  Capacity,       \* number of packet slots, or Unbounded
  Unbounded,      \* capacity=None
  NoSlot,         \* a round with no entry in _rounds
  MaxFaults       \* bound: how many times the memory model may raise in store()

ASSUME StoreAssumption ==
  /\ IsFiniteSet(Rounds)
  /\ OpOf \in [Rounds -> Ops]
  /\ GuardOps \in [Holders -> SUBSET Ops]
  /\ Capacity # Unbounded => Capacity \in Nat
  /\ NoSlot \notin Nat
  /\ MaxFaults \in Nat

VARIABLES
  slotOf,         \* _rounds: the slot index of a stored round
  slotCount,      \* len(_slots)
  freeSlots,      \* _free_slot_indices
  published,      \* _publication_ticks: stored rounds whose tick is stamped
  openOps,        \* _open_operations
  closedOps,      \* _closed_operations
  tombstones,     \* _tombstones: released rounds of operations still open
  phase,          \* a token is fresh, in _live_holds or in _released_holds
  holdRounds,     \* round_identities of a token's hold record
  holdOps,        \* referenced_operation_ids of a token's hold record
  holdersOf,      \* _holders_by_round ({} when the key is absent)
  allocations,    \* _allocations_total
  released        \* _released_rounds

slotVars == <<slotOf, slotCount, freeSlots, published>>
opVars   == <<openOps, closedOps>>
holdVars == <<phase, holdRounds, holdOps, holdersOf>>
vars     == <<slotOf, slotCount, freeSlots, published, openOps, closedOps,
              tombstones, phase, holdRounds, holdOps, holdersOf,
              allocations, released>>

Stored == {r \in Rounds : slotOf[r] # NoSlot}

Live(h) == phase[h] = "live"

Init ==
  /\ slotOf = [r \in Rounds |-> NoSlot]
  /\ slotCount = IF Capacity = Unbounded THEN 0 ELSE Capacity
  /\ freeSlots = 0 .. (slotCount - 1)
  /\ published = {}
  /\ openOps = {}
  /\ closedOps = {}
  /\ tombstones = {}
  /\ phase = [h \in Holders |-> "fresh"]
  /\ holdRounds = [h \in Holders |-> {}]
  /\ holdOps = [h \in Holders |-> {}]
  /\ holdersOf = [r \in Rounds |-> {}]
  /\ allocations = 0
  /\ released = 0

-----------------------------------------------------------------------------
(* Operation scope *)

OpenOperation(op) ==
  /\ op \notin closedOps
  /\ openOps' = openOps \cup {op}
  /\ UNCHANGED <<slotVars, closedOps, tombstones, holdVars, allocations,
                 released>>

HasLiveReference(op) == \E h \in Holders : Live(h) /\ op \in holdOps[h]

\* Released tokens whose references are all closed are forgotten.
Stale(h, open) == phase[h] = "released" /\ holdOps[h] \cap open = {}

CloseOperation(op) ==
  /\ \A r \in Stored : OpOf[r] # op
  /\ ~HasLiveReference(op)
  /\ openOps' = openOps \ {op}
  /\ closedOps' = closedOps \cup {op}
  /\ tombstones' = {r \in tombstones : OpOf[r] # op}
  /\ phase' = [h \in Holders |->
                 IF Stale(h, openOps') THEN "fresh" ELSE phase[h]]
  /\ UNCHANGED <<slotVars, holdRounds, holdOps, holdersOf, allocations,
                 released>>

-----------------------------------------------------------------------------
(* Intake *)

MutMayAcceptClosed(r) == r \notin tombstones \cup Stored
MayAccept(r) ==
  /\ OpOf[r] \in openOps
  /\ r \notin tombstones
  /\ r \notin Stored

\* The answer refused=True: the write leaves no trace.
Full == Capacity # Unbounded /\ freeSlots = {}

\* The lowest free slot, else a new one at the end of the slot list.
NextSlot(s) ==
  IF freeSlots # {}
  THEN s \in freeSlots /\ \A t \in freeSlots : s <= t
  ELSE s = slotCount

Accept(r, stamped) ==
  /\ MayAccept(r)
  /\ ~Full
  /\ \E s \in freeSlots \cup {slotCount} :
       /\ NextSlot(s)
       /\ slotOf' = [slotOf EXCEPT ![r] = s]
       /\ freeSlots' = freeSlots \ {s}
       /\ slotCount' = IF s = slotCount THEN slotCount + 1 ELSE slotCount
  /\ published' = IF stamped THEN published \cup {r} ELSE published
  /\ allocations' = allocations + 1
  /\ UNCHANGED <<opVars, tombstones, holdVars, released>>

\* Allocations that were rolled back.
Faults == allocations - released - Cardinality(Stored)

\* The memory model raised while the fragments were stored: the slot and the
\* round entry are taken back, the counter is not.
AcceptFaulted(r) ==
  /\ Faults < MaxFaults
  /\ MayAccept(r)
  /\ ~Full
  /\ \E s \in freeSlots \cup {slotCount} :
       /\ NextSlot(s)
       /\ freeSlots' = freeSlots \cup {s}
       /\ slotCount' = IF s = slotCount THEN slotCount + 1 ELSE slotCount
  /\ allocations' = allocations + 1
  /\ UNCHANGED <<slotOf, published, opVars, tombstones, holdVars, released>>

MarkPublished(r) ==
  /\ r \in Stored \ published
  /\ published' = published \cup {r}
  /\ UNCHANGED <<slotOf, slotCount, freeSlots, opVars, tombstones, holdVars,
                 allocations, released>>

-----------------------------------------------------------------------------
(* Consumer holds *)

References(h, R) == {OpOf[r] : r \in R} \cup GuardOps[h]

MayReference(h, R) ==
  /\ References(h, R) \subseteq openOps
  /\ R \cap tombstones = {}

\* _free_round for each round of F.
FreeRounds(F) ==
  /\ slotOf' = [r \in Rounds |-> IF r \in F THEN NoSlot ELSE slotOf[r]]
  /\ freeSlots' = freeSlots \cup {slotOf[r] : r \in F}
  /\ published' = published \ F
  /\ tombstones' = tombstones \cup F
  /\ released' = released + Cardinality(F)
  /\ UNCHANGED slotCount

MutLastHeldBy(h, D) == D \cap Stored
\* Detaching h from the rounds D frees those it was the last holder of.
LastHeldBy(h, D) == {r \in D \cap Stored : holdersOf[r] \subseteq {h}}

MutReindex(h, R) ==
  holdersOf' = [r \in Rounds |->
                  IF r \in R THEN holdersOf[r] \cup {h} ELSE holdersOf[r]]
Reindex(h, R) ==
  holdersOf' = [r \in Rounds |->
                  IF r \in R THEN holdersOf[r] \cup {h}
                             ELSE holdersOf[r] \ {h}]

RegisterHold(h, R) ==
  /\ phase[h] = "fresh"
  /\ MayReference(h, R)
  /\ phase' = [phase EXCEPT ![h] = "live"]
  /\ holdRounds' = [holdRounds EXCEPT ![h] = R]
  /\ holdOps' = [holdOps EXCEPT ![h] = References(h, R)]
  /\ Reindex(h, R)
  /\ UNCHANGED <<slotVars, opVars, tombstones, allocations, released>>

ReplaceHold(h, R) ==
  /\ Live(h)
  /\ MayReference(h, R)
  /\ holdRounds' = [holdRounds EXCEPT ![h] = R]
  /\ holdOps' = [holdOps EXCEPT ![h] = References(h, R)]
  /\ Reindex(h, R)
  /\ FreeRounds(LastHeldBy(h, holdRounds[h] \ R))
  /\ UNCHANGED <<opVars, phase, allocations>>

TransferHold(old, new) ==
  /\ phase[new] = "fresh"
  /\ Live(old)
  /\ phase' = [phase EXCEPT ![old] = "released", ![new] = "live"]
  /\ holdRounds' = [holdRounds EXCEPT ![new] = holdRounds[old], ![old] = {}]
  /\ holdOps' = [holdOps EXCEPT ![new] = holdOps[old]]
  /\ holdersOf' = [r \in Rounds |->
                     IF r \in holdRounds[old]
                     THEN (holdersOf[r] \ {old}) \cup {new}
                     ELSE holdersOf[r]]
  /\ UNCHANGED <<slotVars, opVars, tombstones, allocations, released>>

ReleaseHold(h) ==
  /\ Live(h)
  /\ phase' = [phase EXCEPT ![h] = "released"]
  /\ holdersOf' = [r \in Rounds |-> holdersOf[r] \ {h}]
  /\ holdRounds' = [holdRounds EXCEPT ![h] = {}]
  /\ FreeRounds(LastHeldBy(h, holdRounds[h]))
  /\ UNCHANGED <<opVars, holdOps, allocations>>

\* release_round and release_round_if_unheld: the first raises where the
\* second answers False.
ReleaseUnheld(r) ==
  /\ r \in Stored
  /\ holdersOf[r] = {}
  /\ FreeRounds({r})
  /\ UNCHANGED <<opVars, holdVars, allocations>>

-----------------------------------------------------------------------------
Next ==
  \/ \E op \in Ops : OpenOperation(op) \/ CloseOperation(op)
  \/ \E r \in Rounds :
       \/ \E stamped \in BOOLEAN : Accept(r, stamped)
       \/ AcceptFaulted(r)
       \/ MarkPublished(r)
       \/ ReleaseUnheld(r)
  \/ \E h \in Holders :
       \/ \E R \in SUBSET Rounds : RegisterHold(h, R) \/ ReplaceHold(h, R)
       \/ \E new \in Holders : TransferHold(h, new)
       \/ ReleaseHold(h)

Spec == Init /\ [][Next]_vars

-----------------------------------------------------------------------------
(* Type *)

\* The shape of the store's fields.
TypeOK ==
  /\ slotOf \in [Rounds -> Nat \cup {NoSlot}]
  /\ slotCount \in Nat
  /\ freeSlots \in SUBSET Nat
  /\ published \in SUBSET Rounds
  /\ openOps \in SUBSET Ops
  /\ closedOps \in SUBSET Ops
  /\ tombstones \in SUBSET Rounds
  /\ phase \in [Holders -> {"fresh", "live", "released"}]
  /\ holdRounds \in [Holders -> SUBSET Rounds]
  /\ holdOps \in [Holders -> SUBSET Ops]
  /\ holdersOf \in [Rounds -> SUBSET Holders]
  /\ allocations \in Nat
  /\ released \in Nat

(* Safety *)

\* The two hold tables agree: _holders_by_round lists exactly the live tokens
\* whose record names the round.  Freeing decides on the first table, the
\* references of an operation on the second; register, replace, transfer and
\* release each update both by hand.
HoldIndexExact ==
  \A r \in Rounds :
    holdersOf[r] = {h \in Holders : Live(h) /\ r \in holdRounds[h]}

\* No live hold points at a freed round or at a closed operation: a consumer
\* that owns a token can still read what it was promised.
NoHoldOnReleasedRound ==
  \A h \in Holders : Live(h) =>
    /\ holdRounds[h] \cap tombstones = {}
    /\ {OpOf[r] : r \in holdRounds[h]} \subseteq holdOps[h]
    /\ holdOps[h] \subseteq openOps

\* The free list is exactly the complement of the occupied slots and no two
\* rounds share a slot, so a bounded store never holds more than Capacity.
SlotsExact ==
  /\ freeSlots \cup {slotOf[r] : r \in Stored} = 0 .. (slotCount - 1)
  /\ \A r \in Stored : slotOf[r] \notin freeSlots
  /\ \A r, q \in Stored : slotOf[r] = slotOf[q] => r = q
  /\ Capacity # Unbounded => slotCount = Capacity

\* A stored round belongs to an open operation and is not tombstoned.
StoredIsAlive ==
  /\ \A r \in Stored : OpOf[r] \in openOps /\ r \notin tombstones
  /\ \A r \in tombstones : OpOf[r] \in openOps
  /\ published \subseteq Stored
  /\ openOps \cap closedOps = {}

\* metrics(): one allocation per round, and every allocation is either still
\* live or was released.
CountersReconcile == allocations = released + Cardinality(Stored)

\* The store answers for its rounds: types, slots and both hold tables agree
\* and no hold outlives the round it names.
StoreSound == TypeOK /\ HoldIndexExact /\ NoHoldOnReleasedRound /\ SlotsExact

(* Action properties *)

\* A round leaves the store only when no token holds it afterwards, and a
\* round whose last token goes leaves the store in the same step (nothing
\* held is lost, nothing unheld by a release lingers).
FreedWithLastHold ==
  [][\A r \in Stored :
       /\ slotOf'[r] = NoSlot => holdersOf'[r] = {}
       /\ holdersOf[r] # {} /\ holdersOf'[r] = {} => slotOf'[r] = NoSlot]_vars

Gone(r) == r \in tombstones \/ OpOf[r] \in closedOps

\* A freed round never comes back, even after close_operation has thrown its
\* tombstone away: a late duplicate write can only be refused.
ReleasedForever ==
  [][\A r \in Rounds :
       /\ Gone(r) => Gone(r)' /\ slotOf'[r] = NoSlot
       /\ r \in Stored /\ slotOf'[r] = NoSlot => Gone(r)']_vars

\* release_hold stays idempotent, and a token stays unusable, for as long as
\* an operation it referenced is open.
TokenReusedOnlyAfterClose ==
  [][\A h \in Holders :
       phase[h] = "released" /\ phase'[h] # "released"
         => holdOps[h] \cap openOps' = {}]_vars

(* Refinement *)

Status(r) ==
  IF r \in Stored THEN "kept" ELSE IF Gone(r) THEN "gone" ELSE "absent"

Retention == INSTANCE RoundRetention
  WITH status <- [r \in Rounds |-> Status(r)], claims <- holdersOf

\* The store implements the retention promise: every call is a take-in, a
\* change of claims, a drop of an unclaimed round, the retirement of rounds
\* that never came, or invisible to a consumer.
ImplementsRetention == Retention!Spec

=============================================================================

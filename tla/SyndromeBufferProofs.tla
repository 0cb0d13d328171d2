------------------------ MODULE SyndromeBufferProofs ------------------------
(***************************************************************************)
(* Proofs about the round store, for every set of operations, rounds and   *)
(* tokens and every capacity.  The five table invariants of SyndromeBuffer *)
(* are only inductive together: a round is freed on the word of holdersOf, *)
(* so that no live hold names a freed round needs HoldIndexExact, and the  *)
(* slot law needs to know which rounds are stored.                         *)
(***************************************************************************)
EXTENDS SyndromeBuffer, FiniteSetTheorems, TLAPS

IInv ==
  /\ TypeOK
  /\ HoldIndexExact
  /\ NoHoldOnReleasedRound
  /\ SlotsExact
  /\ StoredIsAlive

-----------------------------------------------------------------------------
(* Type correctness *)

\* Freeing a set of rounds keeps the shape of the slot fields.
LEMMA FreeRoundsType ==
  ASSUME TypeOK, NEW F \in SUBSET Rounds, \A r \in F : slotOf[r] # NoSlot,
         FreeRounds(F)
  PROVE  /\ slotOf' \in [Rounds -> Nat \cup {NoSlot}]
         /\ slotCount' \in Nat
         /\ freeSlots' \in SUBSET Nat
         /\ published' \in SUBSET Rounds
         /\ tombstones' \in SUBSET Rounds
         /\ released' \in Nat
<1>1. IsFiniteSet(F)
  BY StoreAssumption, FS_Subset
<1>2. Cardinality(F) \in Nat
  BY <1>1, FS_CardinalityType
<1>3. released' \in Nat
  BY <1>2 DEF FreeRounds, TypeOK
<1> QED
  BY <1>3 DEF FreeRounds, TypeOK

\* The operations a hold refers to are operations.
LEMMA ReferencesType ==
  ASSUME NEW h \in Holders, NEW R \in SUBSET Rounds
  PROVE  References(h, R) \in SUBSET Ops
BY StoreAssumption DEF References

\* What a hold is the last to keep is stored.
LEMMA LastHeldByType ==
  ASSUME NEW h, NEW D
  PROVE  /\ LastHeldBy(h, D) \in SUBSET Rounds
         /\ \A r \in LastHeldBy(h, D) : slotOf[r] # NoSlot
BY DEF LastHeldBy, Stored

\* The fields keep their shape through every call.
LEMMA TypeStep == TypeOK /\ [Next]_vars => TypeOK'
<1> SUFFICES ASSUME TypeOK, [Next]_vars PROVE TypeOK'
  OBVIOUS
<1> USE DEF TypeOK
<1>1. ASSUME NEW op \in Ops, OpenOperation(op) PROVE TypeOK'
  BY <1>1 DEF OpenOperation, slotVars, holdVars
<1>2. ASSUME NEW op \in Ops, CloseOperation(op) PROVE TypeOK'
  BY <1>2 DEF CloseOperation, slotVars
<1>3. ASSUME NEW r \in Rounds, NEW stamped \in BOOLEAN, Accept(r, stamped)
      PROVE TypeOK'
  <2> PICK s \in freeSlots \cup {slotCount} :
        /\ slotOf' = [slotOf EXCEPT ![r] = s]
        /\ freeSlots' = freeSlots \ {s}
        /\ slotCount' = IF s = slotCount THEN slotCount + 1 ELSE slotCount
    BY <1>3 DEF Accept
  <2> QED BY <1>3 DEF Accept, opVars, holdVars
<1>4. ASSUME NEW r \in Rounds, AcceptFaulted(r) PROVE TypeOK'
  <2> PICK s \in freeSlots \cup {slotCount} :
        /\ freeSlots' = freeSlots \cup {s}
        /\ slotCount' = IF s = slotCount THEN slotCount + 1 ELSE slotCount
    BY <1>4 DEF AcceptFaulted
  <2> QED BY <1>4 DEF AcceptFaulted, opVars, holdVars
<1>5. ASSUME NEW r \in Rounds, MarkPublished(r) PROVE TypeOK'
  BY <1>5 DEF MarkPublished, opVars, holdVars
<1>6. ASSUME NEW r \in Rounds, ReleaseUnheld(r) PROVE TypeOK'
  <2>1. FreeRounds({r}) /\ slotOf[r] # NoSlot
    BY <1>6 DEF ReleaseUnheld, Stored
  <2>2. UNCHANGED <<opVars, holdVars, allocations>>
    BY <1>6 DEF ReleaseUnheld
  <2> QED BY <2>1, <2>2, FreeRoundsType DEF opVars, holdVars
<1>7. ASSUME NEW h \in Holders, NEW R \in SUBSET Rounds, RegisterHold(h, R)
      PROVE TypeOK'
  BY <1>7, ReferencesType DEF RegisterHold, Reindex, slotVars, opVars
<1>8. ASSUME NEW h \in Holders, NEW R \in SUBSET Rounds, ReplaceHold(h, R)
      PROVE TypeOK'
  <2>1. FreeRounds(LastHeldBy(h, holdRounds[h] \ R))
    BY <1>8 DEF ReplaceHold
  <2>2. /\ holdRounds' \in [Holders -> SUBSET Rounds]
        /\ holdOps' \in [Holders -> SUBSET Ops]
        /\ holdersOf' \in [Rounds -> SUBSET Holders]
        /\ UNCHANGED <<opVars, phase, allocations>>
    BY <1>8, ReferencesType DEF ReplaceHold, Reindex
  <2> QED BY <2>1, <2>2, LastHeldByType, FreeRoundsType DEF opVars
<1>9. ASSUME NEW h \in Holders, NEW new \in Holders, TransferHold(h, new)
      PROVE TypeOK'
  BY <1>9 DEF TransferHold, slotVars, opVars
<1>10. ASSUME NEW h \in Holders, ReleaseHold(h) PROVE TypeOK'
  <2>1. FreeRounds(LastHeldBy(h, holdRounds[h]))
    BY <1>10 DEF ReleaseHold
  <2>2. /\ holdRounds' \in [Holders -> SUBSET Rounds]
        /\ phase' \in [Holders -> {"fresh", "live", "released"}]
        /\ holdersOf' \in [Rounds -> SUBSET Holders]
        /\ UNCHANGED <<opVars, holdOps, allocations>>
    BY <1>10 DEF ReleaseHold
  <2> QED BY <2>1, <2>2, LastHeldByType, FreeRoundsType DEF opVars
<1>11. CASE UNCHANGED vars
  BY <1>11 DEF vars
<1> QED
  BY <1>1, <1>2, <1>3, <1>4, <1>5, <1>6, <1>7, <1>8, <1>9, <1>10, <1>11
  DEF Next

\* The tables are empty at the start.
LEMMA InitType == Init => TypeOK
BY StoreAssumption DEF Init, TypeOK

\* The store's fields have their types in every reachable state.
THEOREM TypeCorrect == Spec => []TypeOK
<1>1. Init => TypeOK
  BY InitType
<1>2. TypeOK /\ [Next]_vars => TypeOK'
  BY TypeStep
<1> QED BY <1>1, <1>2, PTL DEF Spec

-----------------------------------------------------------------------------
(* The two hold tables *)

\* Every call leaves _holders_by_round the inverse of the live records.
LEMMA IndexStep == TypeOK /\ HoldIndexExact /\ [Next]_vars => HoldIndexExact'
<1> SUFFICES ASSUME TypeOK, HoldIndexExact, [Next]_vars
             PROVE  HoldIndexExact'
  OBVIOUS
<1> USE DEF TypeOK, HoldIndexExact, Live
<1>1. CASE UNCHANGED holdVars
  BY <1>1 DEF holdVars
<1>2. ASSUME NEW op \in Ops, CloseOperation(op) PROVE HoldIndexExact'
  <2>1. \A h \in Holders : phase'[h] = "live" <=> phase[h] = "live"
    BY <1>2 DEF CloseOperation, Stale
  <2> QED BY <1>2, <2>1 DEF CloseOperation
<1>3. ASSUME NEW h \in Holders, NEW R \in SUBSET Rounds, RegisterHold(h, R)
      PROVE HoldIndexExact'
  BY <1>3 DEF RegisterHold, Reindex
<1>4. ASSUME NEW h \in Holders, NEW R \in SUBSET Rounds, ReplaceHold(h, R)
      PROVE HoldIndexExact'
  BY <1>4 DEF ReplaceHold, Reindex
<1>5. ASSUME NEW h \in Holders, NEW new \in Holders, TransferHold(h, new)
      PROVE HoldIndexExact'
  <2>1. h # new
    BY <1>5 DEF TransferHold
  <2> SUFFICES ASSUME NEW r \in Rounds
               PROVE  holdersOf'[r] = {k \in Holders :
                                        Live(k)' /\ r \in holdRounds'[k]}
    OBVIOUS
  <2>2. holdersOf'[r] = IF r \in holdRounds[h]
                        THEN (holdersOf[r] \ {h}) \cup {new}
                        ELSE holdersOf[r]
    BY <1>5 DEF TransferHold
  <2>3. \A k \in Holders : (Live(k)' /\ r \in holdRounds'[k]) <=>
          \/ k = new /\ r \in holdRounds[h]
          \/ k # new /\ k # h /\ Live(k) /\ r \in holdRounds[k]
    BY <1>5, <2>1 DEF TransferHold
  <2>4. \A k \in Holders : k \in holdersOf[r] <=> Live(k) /\ r \in holdRounds[k]
    OBVIOUS
  <2>5. ~Live(new) /\ Live(h)
    BY <1>5 DEF TransferHold
  <2> QED BY <2>1, <2>2, <2>3, <2>4, <2>5
<1>6. ASSUME NEW h \in Holders, ReleaseHold(h) PROVE HoldIndexExact'
  BY <1>6 DEF ReleaseHold
<1>7. CASE UNCHANGED vars
  BY <1>7 DEF vars
<1> QED
  BY <1>1, <1>2, <1>3, <1>4, <1>5, <1>6, <1>7
  DEF Next, OpenOperation, Accept, AcceptFaulted, MarkPublished, ReleaseUnheld

-----------------------------------------------------------------------------
(* Slots *)

\* Freeing rounds returns exactly their slots.
LEMMA FreeRoundsSlots ==
  ASSUME TypeOK, SlotsExact, NEW F \in SUBSET Rounds,
         \A r \in F : slotOf[r] # NoSlot, FreeRounds(F)
  PROVE  SlotsExact'
<1> USE DEF TypeOK, Stored
<1>1. /\ slotOf' = [r \in Rounds |-> IF r \in F THEN NoSlot ELSE slotOf[r]]
      /\ freeSlots' = freeSlots \cup {slotOf[r] : r \in F}
      /\ slotCount' = slotCount
  BY DEF FreeRounds
<1>2. Stored' = Stored \ F
  BY <1>1
<1>3. {slotOf'[r] : r \in Stored'} = {slotOf[r] : r \in Stored \ F}
  BY <1>1, <1>2
<1>4. freeSlots' \cup {slotOf'[r] : r \in Stored'} = 0 .. (slotCount' - 1)
  BY <1>1, <1>3 DEF SlotsExact
<1>5. \A r \in Stored' : slotOf'[r] \notin freeSlots'
  BY <1>1, <1>2 DEF SlotsExact
<1>6. \A r, q \in Stored' : slotOf'[r] = slotOf'[q] => r = q
  BY <1>1, <1>2 DEF SlotsExact
<1> QED BY <1>1, <1>4, <1>5, <1>6 DEF SlotsExact

\* A call that touches no slot keeps the slot law.
LEMMA SlotsFrame ==
  ASSUME SlotsExact, slotOf' = slotOf, slotCount' = slotCount,
         freeSlots' = freeSlots
  PROVE  SlotsExact'
BY DEF SlotsExact, Stored

\* The slot an intake takes lies in the slot list or just past its end, and
\* a store of fixed size never grows.
LEMMA NextSlotRange ==
  ASSUME TypeOK, SlotsExact, ~Full, NEW s \in freeSlots \cup {slotCount},
         NextSlot(s)
  PROVE  /\ s \in freeSlots => s \in 0 .. (slotCount - 1)
         /\ s \notin freeSlots => s = slotCount /\ freeSlots = {}
         /\ Capacity # Unbounded => s \in freeSlots
BY DEF TypeOK, SlotsExact, Full, NextSlot

\* Every call keeps free and occupied slots complementary.
LEMMA SlotsStep == TypeOK /\ SlotsExact /\ [Next]_vars => SlotsExact'
<1> SUFFICES ASSUME TypeOK, SlotsExact, [Next]_vars PROVE SlotsExact'
  OBVIOUS
<1>1. CASE UNCHANGED slotVars
  BY <1>1, SlotsFrame DEF slotVars
<1>2. ASSUME NEW r \in Rounds, NEW stamped \in BOOLEAN, Accept(r, stamped)
      PROVE SlotsExact'
  <2> USE DEF TypeOK, Stored
  <2>1. PICK s \in freeSlots \cup {slotCount} :
          /\ NextSlot(s)
          /\ slotOf' = [slotOf EXCEPT ![r] = s]
          /\ freeSlots' = freeSlots \ {s}
          /\ slotCount' = IF s = slotCount THEN slotCount + 1 ELSE slotCount
    BY <1>2 DEF Accept
  <2>2. /\ s \in freeSlots => s \in 0 .. (slotCount - 1)
        /\ s \notin freeSlots => s = slotCount /\ freeSlots = {}
        /\ Capacity # Unbounded => s \in freeSlots
    BY <1>2, <2>1, NextSlotRange DEF Accept
  <2>3. s \in Nat /\ s # NoSlot /\ slotOf[r] = NoSlot
    BY <1>2, StoreAssumption DEF Accept, MayAccept
  <2>4. Stored' = Stored \cup {r} /\ \A q \in Stored : slotOf'[q] = slotOf[q]
    BY <2>1, <2>3
  <2>5. {slotOf'[q] : q \in Stored'} = {slotOf[q] : q \in Stored} \cup {s}
    BY <2>1, <2>3, <2>4
  <2>6. \A q \in Stored : slotOf[q] \in 0 .. (slotCount - 1) /\ slotOf[q] # s
    BY <2>2 DEF SlotsExact
  <2>7. freeSlots' \cup {slotOf'[q] : q \in Stored'} = 0 .. (slotCount' - 1)
    <3>0. freeSlots' \cup {slotOf'[q] : q \in Stored'}
            = (freeSlots \cup {slotOf[q] : q \in Stored}) \cup {s}
      BY <2>1, <2>5, <2>6
    <3>1. @ = (0 .. (slotCount - 1)) \cup {s}
      BY DEF SlotsExact
    <3>2. CASE s \in freeSlots
      <4>1. slotCount' = slotCount
        BY <2>1, <2>2, <3>2
      <4> QED BY <2>2, <3>0, <3>1, <3>2, <4>1
    <3>3. CASE s \notin freeSlots
      <4>1. s = slotCount /\ slotCount' = slotCount + 1
        BY <2>1, <2>2, <3>3
      <4>2. (0 .. (slotCount - 1)) \cup {slotCount} = 0 .. slotCount
        OBVIOUS
      <4> QED BY <3>0, <3>1, <4>1, <4>2
    <3> QED BY <3>2, <3>3
  <2>8. \A q \in Stored' : slotOf'[q] \notin freeSlots'
    BY <2>1, <2>3, <2>4, <2>6 DEF SlotsExact
  <2>9. \A p, q \in Stored' : slotOf'[p] = slotOf'[q] => p = q
    BY <2>1, <2>3, <2>4, <2>6 DEF SlotsExact
  <2>10. Capacity # Unbounded => slotCount' = Capacity
    BY <2>1, <2>2 DEF SlotsExact
  <2> QED BY <2>7, <2>8, <2>9, <2>10 DEF SlotsExact
<1>3. ASSUME NEW r \in Rounds, AcceptFaulted(r) PROVE SlotsExact'
  <2> USE DEF TypeOK, Stored
  <2>1. PICK s \in freeSlots \cup {slotCount} :
          /\ NextSlot(s)
          /\ freeSlots' = freeSlots \cup {s}
          /\ slotCount' = IF s = slotCount THEN slotCount + 1 ELSE slotCount
    BY <1>3 DEF AcceptFaulted
  <2>2. /\ s \in freeSlots => s \in 0 .. (slotCount - 1)
        /\ s \notin freeSlots => s = slotCount /\ freeSlots = {}
        /\ Capacity # Unbounded => s \in freeSlots
    BY <1>3, <2>1, NextSlotRange DEF AcceptFaulted
  <2>3. slotOf' = slotOf
    BY <1>3 DEF AcceptFaulted
  <2>4. CASE s \in freeSlots
    BY <2>1, <2>2, <2>3, <2>4, SlotsFrame
  <2>5. CASE s \notin freeSlots
    <3>1. slotCount' = slotCount + 1 /\ freeSlots' = {slotCount}
      BY <2>1, <2>2, <2>5
    <3>2. {slotOf[q] : q \in Stored} = 0 .. (slotCount - 1)
      BY <2>2, <2>5 DEF SlotsExact
    <3>3. freeSlots' \cup {slotOf'[q] : q \in Stored'} = 0 .. (slotCount' - 1)
      BY <2>3, <3>1, <3>2
    <3>4. \A q \in Stored' : slotOf'[q] \notin freeSlots'
      BY <2>3, <3>1, <3>2
    <3> QED BY <2>2, <2>3, <2>5, <3>3, <3>4 DEF SlotsExact
  <2> QED BY <2>4, <2>5
<1>4. ASSUME NEW r \in Rounds, MarkPublished(r) PROVE SlotsExact'
  BY <1>4, SlotsFrame DEF MarkPublished
<1>5. ASSUME NEW r \in Rounds, ReleaseUnheld(r) PROVE SlotsExact'
  BY <1>5, FreeRoundsSlots DEF ReleaseUnheld, Stored
<1>6. ASSUME NEW h \in Holders, NEW R \in SUBSET Rounds, ReplaceHold(h, R)
      PROVE SlotsExact'
  BY <1>6, LastHeldByType, FreeRoundsSlots DEF ReplaceHold
<1>7. ASSUME NEW h \in Holders, ReleaseHold(h) PROVE SlotsExact'
  BY <1>7, LastHeldByType, FreeRoundsSlots DEF ReleaseHold
<1>8. CASE UNCHANGED vars
  BY <1>8, SlotsFrame DEF vars
<1> QED
  BY <1>1, <1>2, <1>3, <1>4, <1>5, <1>6, <1>7, <1>8
  DEF Next, OpenOperation, CloseOperation, RegisterHold, TransferHold

-----------------------------------------------------------------------------
(* What is freed, and what is still held *)

\* A step in which a set of rounds is freed: after it nobody holds them.
LEMMA FreedUnheld ==
  ASSUME TypeOK, HoldIndexExact, [Next]_vars
  PROVE  \/ UNCHANGED <<slotOf, tombstones, published>>
         \/ /\ UNCHANGED <<slotOf, published>>
            /\ \E op \in Ops : CloseOperation(op)
         \/ /\ UNCHANGED <<slotOf, tombstones>>
            /\ \E r \in Rounds : MarkPublished(r)
         \/ \E r \in Rounds, stamped \in BOOLEAN : Accept(r, stamped)
         \/ \E F \in SUBSET Stored :
              /\ FreeRounds(F)
              /\ \A r \in F : holdersOf'[r] = {}
              /\ UNCHANGED <<opVars, allocations>>
<1> USE DEF TypeOK
<1>1. ASSUME NEW r \in Rounds, ReleaseUnheld(r)
      PROVE  \E F \in SUBSET Stored :
               /\ FreeRounds(F)
               /\ \A q \in F : holdersOf'[q] = {}
               /\ UNCHANGED <<opVars, allocations>>
  BY <1>1 DEF ReleaseUnheld, holdVars
<1>2. ASSUME NEW h \in Holders, NEW R \in SUBSET Rounds, ReplaceHold(h, R)
      PROVE  \E F \in SUBSET Stored :
               /\ FreeRounds(F)
               /\ \A q \in F : holdersOf'[q] = {}
               /\ UNCHANGED <<opVars, allocations>>
  <2> DEFINE F == LastHeldBy(h, holdRounds[h] \ R)
  <2>1. F \in SUBSET Stored
    BY DEF LastHeldBy
  <2>2. \A q \in F : holdersOf'[q] = {}
    BY <1>2 DEF ReplaceHold, Reindex, LastHeldBy, Stored
  <2> QED BY <1>2, <2>1, <2>2 DEF ReplaceHold
<1>3. ASSUME NEW h \in Holders, ReleaseHold(h)
      PROVE  \E F \in SUBSET Stored :
               /\ FreeRounds(F)
               /\ \A q \in F : holdersOf'[q] = {}
               /\ UNCHANGED <<opVars, allocations>>
  <2> DEFINE F == LastHeldBy(h, holdRounds[h])
  <2>1. F \in SUBSET Stored
    BY DEF LastHeldBy
  <2>2. \A q \in F : holdersOf'[q] = {}
    BY <1>3 DEF ReleaseHold, LastHeldBy, Stored
  <2> QED BY <1>3, <2>1, <2>2 DEF ReleaseHold
<1>4. ASSUME NEW r \in Rounds, MarkPublished(r)
      PROVE  UNCHANGED <<slotOf, tombstones>>
  BY <1>4 DEF MarkPublished
<1>5. ASSUME NEW op \in Ops, CloseOperation(op)
      PROVE  UNCHANGED <<slotOf, published>>
  BY <1>5 DEF CloseOperation, slotVars
<1> QED
  BY <1>1, <1>2, <1>3, <1>4, <1>5
  DEF Next, vars, OpenOperation, AcceptFaulted, RegisterHold, TransferHold,
      slotVars

\* Every call keeps live holds on rounds that may still be read.
LEMMA HoldsStep == IInv /\ [Next]_vars => NoHoldOnReleasedRound'
<1> SUFFICES ASSUME IInv, [Next]_vars PROVE NoHoldOnReleasedRound'
  OBVIOUS
<1> USE DEF TypeOK
<1>0. TypeOK /\ HoldIndexExact /\ NoHoldOnReleasedRound
      /\ HoldIndexExact' /\ TypeOK'
  BY IndexStep, TypeStep DEF IInv
<1>1. ASSUME NEW op \in Ops, OpenOperation(op) PROVE NoHoldOnReleasedRound'
  BY <1>0, <1>1 DEF OpenOperation, holdVars, NoHoldOnReleasedRound, Live
<1>2. ASSUME NEW op \in Ops, CloseOperation(op) PROVE NoHoldOnReleasedRound'
  <2>1. \A h \in Holders : Live(h)' => Live(h) /\ op \notin holdOps[h]
    BY <1>2 DEF CloseOperation, Stale, HasLiveReference, Live
  <2> QED BY <1>0, <1>2, <2>1 DEF CloseOperation, NoHoldOnReleasedRound
<1>3. ASSUME NEW h \in Holders, NEW R \in SUBSET Rounds, RegisterHold(h, R)
      PROVE NoHoldOnReleasedRound'
  BY <1>0, <1>3
  DEF RegisterHold, MayReference, References, NoHoldOnReleasedRound, Live,
      opVars
<1>4. ASSUME NEW h \in Holders, NEW new \in Holders, TransferHold(h, new)
      PROVE NoHoldOnReleasedRound'
  BY <1>0, <1>4 DEF TransferHold, NoHoldOnReleasedRound, Live, opVars
<1>5. ASSUME NEW F \in SUBSET Stored, FreeRounds(F),
             \A r \in F : holdersOf'[r] = {}
      PROVE  \A h \in Holders : Live(h)' => holdRounds'[h] \cap F = {}
  BY <1>0, <1>5 DEF HoldIndexExact
<1>6. ASSUME NEW h \in Holders, NEW R \in SUBSET Rounds, ReplaceHold(h, R)
      PROVE NoHoldOnReleasedRound'
  <2> DEFINE F == LastHeldBy(h, holdRounds[h] \ R)
  <2>1. \A k \in Holders : Live(k)' => holdRounds'[k] \cap F = {}
    <3>1. \A q \in F : holdersOf'[q] = {}
      BY <1>6 DEF ReplaceHold, Reindex, LastHeldBy, Stored
    <3> QED BY <1>5, <1>6, <3>1 DEF ReplaceHold, LastHeldBy
  <2>2. tombstones' = tombstones \cup F
    BY <1>6 DEF ReplaceHold, FreeRounds
  <2> HIDE DEF F
  <2> QED
    BY <1>0, <1>6, <2>1, <2>2
    DEF ReplaceHold, MayReference, References, NoHoldOnReleasedRound, Live,
        opVars
<1>7. ASSUME NEW h \in Holders, ReleaseHold(h) PROVE NoHoldOnReleasedRound'
  <2> DEFINE F == LastHeldBy(h, holdRounds[h])
  <2>1. \A k \in Holders : Live(k)' => holdRounds'[k] \cap F = {}
    <3>1. \A q \in F : holdersOf'[q] = {}
      BY <1>7 DEF ReleaseHold, LastHeldBy, Stored
    <3> QED BY <1>5, <1>7, <3>1 DEF ReleaseHold, LastHeldBy
  <2>2. tombstones' = tombstones \cup F
    BY <1>7 DEF ReleaseHold, FreeRounds
  <2> HIDE DEF F
  <2> QED
    BY <1>0, <1>7, <2>1, <2>2
    DEF ReleaseHold, NoHoldOnReleasedRound, Live, opVars
<1>8. ASSUME NEW r \in Rounds, ReleaseUnheld(r) PROVE NoHoldOnReleasedRound'
  <2>1. \A k \in Holders : Live(k) => r \notin holdRounds[k]
    BY <1>0, <1>8 DEF ReleaseUnheld, HoldIndexExact
  <2>2. tombstones' = tombstones \cup {r}
    BY <1>8 DEF ReleaseUnheld, FreeRounds
  <2> QED
    BY <1>0, <1>8, <2>1, <2>2
    DEF ReleaseUnheld, NoHoldOnReleasedRound, Live, opVars, holdVars
<1>9. CASE UNCHANGED <<holdVars, tombstones, openOps>>
  BY <1>0, <1>9 DEF NoHoldOnReleasedRound, holdVars, Live
<1>10. CASE UNCHANGED vars
  BY <1>0, <1>10 DEF NoHoldOnReleasedRound, vars, Live
<1> QED
  BY <1>1, <1>2, <1>3, <1>4, <1>6, <1>7, <1>8, <1>9, <1>10
  DEF Next, Accept, AcceptFaulted, MarkPublished, opVars

\* Every call keeps stored rounds in open operations and off the tombstones.
LEMMA AliveStep == IInv /\ [Next]_vars => StoredIsAlive'
<1> SUFFICES ASSUME IInv, [Next]_vars PROVE StoredIsAlive'
  OBVIOUS
<1> USE DEF TypeOK, Stored
<1>0. TypeOK /\ HoldIndexExact /\ StoredIsAlive
  BY DEF IInv
<1>1. ASSUME NEW op \in Ops, OpenOperation(op) PROVE StoredIsAlive'
  BY <1>0, <1>1 DEF OpenOperation, slotVars, StoredIsAlive
<1>2. ASSUME NEW op \in Ops, CloseOperation(op) PROVE StoredIsAlive'
  BY <1>0, <1>2 DEF CloseOperation, slotVars, StoredIsAlive
<1>3. ASSUME NEW r \in Rounds, NEW stamped \in BOOLEAN, Accept(r, stamped)
      PROVE StoredIsAlive'
  <2>1. PICK s \in freeSlots \cup {slotCount} :
          slotOf' = [slotOf EXCEPT ![r] = s]
    BY <1>3 DEF Accept
  <2>2. s # NoSlot
    BY <1>0, StoreAssumption
  <2> QED
    BY <1>0, <1>3, <2>1, <2>2 DEF Accept, MayAccept, opVars, StoredIsAlive
<1>4. ASSUME NEW r \in Rounds, MarkPublished(r) PROVE StoredIsAlive'
  BY <1>0, <1>4 DEF MarkPublished, opVars, StoredIsAlive
<1>5. ASSUME NEW F \in SUBSET Stored, FreeRounds(F), UNCHANGED opVars
      PROVE StoredIsAlive'
  BY <1>0, <1>5 DEF FreeRounds, opVars, StoredIsAlive
<1>6. CASE UNCHANGED <<slotOf, tombstones, published, opVars>>
  BY <1>0, <1>6 DEF opVars, StoredIsAlive
<1>7. CASE UNCHANGED <<slotOf, tombstones, published>>
  <2>1. \/ \E op \in Ops : OpenOperation(op) \/ CloseOperation(op)
        \/ UNCHANGED opVars
    BY DEF Next, vars, opVars, Accept, AcceptFaulted, MarkPublished,
           ReleaseUnheld, RegisterHold, ReplaceHold, TransferHold, ReleaseHold
  <2> QED BY <1>1, <1>2, <1>6, <1>7, <2>1
<1> QED
  BY <1>0, <1>2, <1>3, <1>4, <1>5, <1>7, FreedUnheld

-----------------------------------------------------------------------------
(* The invariants *)

\* Empty tables agree.
LEMMA InitInv == Init => IInv
<1> SUFFICES ASSUME Init PROVE IInv
  OBVIOUS
<1>1. TypeOK
  BY InitType
<1>2. Stored = {}
  BY DEF Init, Stored
<1>3. HoldIndexExact /\ NoHoldOnReleasedRound
  BY DEF Init, HoldIndexExact, NoHoldOnReleasedRound, Live
<1>4. SlotsExact
  BY <1>2 DEF Init, SlotsExact
<1>5. StoredIsAlive
  BY <1>2 DEF Init, StoredIsAlive
<1> QED BY <1>1, <1>3, <1>4, <1>5 DEF IInv

\* Every call keeps the invariant.
LEMMA InvStep == IInv /\ [Next]_vars => IInv'
BY TypeStep, IndexStep, SlotsStep, HoldsStep, AliveStep DEF IInv

\* The invariant holds in every reachable state.
LEMMA Invariance == Spec => []IInv
BY InitInv, InvStep, PTL DEF Spec

\* The table laws the runs check together, for every set of operations, rounds
\* and hold owners and every capacity.
THEOREM StoreStaysSound == Spec => []StoreSound
<1>1. IInv => StoreSound
  BY DEF IInv, StoreSound
<1> QED BY <1>1, Invariance, PTL

\* A consumer that owns a live token can still read its rounds: no live hold
\* names a released round or a closed operation, whatever the order of calls.
THEOREM NoUseAfterRelease == Spec => []NoHoldOnReleasedRound
<1>1. IInv => NoHoldOnReleasedRound
  BY DEF IInv
<1> QED BY <1>1, Invariance, PTL

\* Free and occupied slots stay complementary and unshared, so a store never
\* exceeds its capacity.
THEOREM SlotLaw == Spec => []SlotsExact
<1>1. IInv => SlotsExact
  BY DEF IInv
<1> QED BY <1>1, Invariance, PTL

\* The table that freeing consults is the inverse of the hold records.
THEOREM HoldTablesAgree == Spec => []HoldIndexExact
<1>1. IInv => HoldIndexExact
  BY DEF IInv
<1> QED BY <1>1, Invariance, PTL

\* Stored rounds belong to open operations and are never tombstoned.
THEOREM StoredStaysAlive == Spec => []StoredIsAlive
<1>1. IInv => StoredIsAlive
  BY DEF IInv
<1> QED BY <1>1, Invariance, PTL

-----------------------------------------------------------------------------
(* Steps *)

FreedWithLastHoldStep ==
  \A r \in Stored :
    /\ slotOf'[r] = NoSlot => holdersOf'[r] = {}
    /\ holdersOf[r] # {} /\ holdersOf'[r] = {} => slotOf'[r] = NoSlot

\* The same for one step from a state of the invariant.
LEMMA FreedStep == IInv /\ [Next]_vars => FreedWithLastHoldStep
<1> SUFFICES ASSUME IInv, [Next]_vars, NEW r \in Stored
             PROVE  /\ slotOf'[r] = NoSlot => holdersOf'[r] = {}
                    /\ holdersOf[r] # {} /\ holdersOf'[r] = {}
                         => slotOf'[r] = NoSlot
  BY DEF FreedWithLastHoldStep
<1> USE DEF TypeOK
<1>0. TypeOK /\ HoldIndexExact
  BY DEF IInv
<1>1. slotOf'[r] = NoSlot => holdersOf'[r] = {}
  <2>1. ASSUME NEW q \in Rounds, NEW stamped \in BOOLEAN, Accept(q, stamped)
        PROVE slotOf'[r] # NoSlot
    <3>1. PICK s \in freeSlots \cup {slotCount} :
            slotOf' = [slotOf EXCEPT ![q] = s]
      BY <2>1 DEF Accept
    <3> QED BY <1>0, <3>1, StoreAssumption DEF Stored
  <2>2. ASSUME NEW F \in SUBSET Stored, FreeRounds(F), r \notin F
        PROVE slotOf'[r] # NoSlot
    BY <2>2 DEF FreeRounds, Stored
  <2> QED BY <1>0, <2>1, <2>2, FreedUnheld DEF Stored
<1>2. holdersOf[r] # {} /\ holdersOf'[r] = {} => slotOf'[r] = NoSlot
  <2> SUFFICES ASSUME holdersOf[r] # {}, holdersOf'[r] = {}
               PROVE  slotOf'[r] = NoSlot
    OBVIOUS
  <2>0. r \in Rounds
    BY DEF Stored
  <2>1. ASSUME NEW h \in Holders, NEW R \in SUBSET Rounds, RegisterHold(h, R)
        PROVE FALSE
    BY <1>0, <2>0, <2>1 DEF RegisterHold, Reindex, HoldIndexExact, Live
  <2>2. ASSUME NEW h \in Holders, NEW R \in SUBSET Rounds, ReplaceHold(h, R)
        PROVE slotOf'[r] = NoSlot
    <3>1. r \notin R /\ holdersOf[r] \subseteq {h} /\ r \in holdRounds[h]
      BY <1>0, <2>0, <2>2 DEF ReplaceHold, Reindex, HoldIndexExact
    <3> QED BY <2>0, <2>2, <3>1 DEF ReplaceHold, FreeRounds, LastHeldBy
  <2>3. ASSUME NEW h \in Holders, NEW new \in Holders, TransferHold(h, new)
        PROVE FALSE
    BY <1>0, <2>0, <2>3 DEF TransferHold, HoldIndexExact
  <2>4. ASSUME NEW h \in Holders, ReleaseHold(h)
        PROVE slotOf'[r] = NoSlot
    <3>1. holdersOf[r] \subseteq {h} /\ r \in holdRounds[h]
      BY <1>0, <2>0, <2>4 DEF ReleaseHold, HoldIndexExact
    <3> QED BY <2>0, <2>4, <3>1 DEF ReleaseHold, FreeRounds, LastHeldBy
  <2>5. CASE holdersOf' = holdersOf
    BY <2>5
  <2> QED
    BY <2>1, <2>2, <2>3, <2>4, <2>5
    DEF Next, vars, OpenOperation, CloseOperation, Accept, AcceptFaulted,
        MarkPublished, ReleaseUnheld, holdVars
<1> QED BY <1>1, <1>2

\* A stored round goes only when nobody holds it, and goes with its last hold.
THEOREM FreedExactlyWithLastHold == Spec => FreedWithLastHold
<1>1. IInv /\ [Next]_vars => [FreedWithLastHoldStep]_vars
  BY FreedStep
<1> QED
  BY <1>1, Invariance, PTL DEF Spec, FreedWithLastHold, FreedWithLastHoldStep

ReleasedForeverStep ==
  \A r \in Rounds :
    /\ Gone(r) => Gone(r)' /\ slotOf'[r] = NoSlot
    /\ r \in Stored /\ slotOf'[r] = NoSlot => Gone(r)'

\* The same for one step from a state of the invariant.
LEMMA GoneStep == IInv /\ [Next]_vars => ReleasedForeverStep
<1> SUFFICES ASSUME IInv, [Next]_vars, NEW r \in Rounds
             PROVE  /\ Gone(r) => Gone(r)' /\ slotOf'[r] = NoSlot
                    /\ r \in Stored /\ slotOf'[r] = NoSlot => Gone(r)'
  BY DEF ReleasedForeverStep
<1> USE DEF TypeOK, Gone
<1>0. TypeOK /\ HoldIndexExact /\ StoredIsAlive
  BY DEF IInv
<1>1. Gone(r) => r \notin Stored
  BY <1>0 DEF StoredIsAlive
<1>2. ASSUME NEW q \in Rounds, NEW stamped \in BOOLEAN, Accept(q, stamped)
      PROVE  /\ Gone(r) => Gone(r)' /\ slotOf'[r] = NoSlot
             /\ r \in Stored /\ slotOf'[r] = NoSlot => Gone(r)'
  <2>1. PICK s \in freeSlots \cup {slotCount} :
          slotOf' = [slotOf EXCEPT ![q] = s]
    BY <1>2 DEF Accept
  <2>2. s # NoSlot
    BY <1>0, StoreAssumption
  <2>3. Gone(r) => r # q
    BY <1>0, <1>2 DEF Accept, MayAccept, StoredIsAlive
  <2> QED
    BY <1>0, <1>1, <1>2, <2>1, <2>2, <2>3 DEF Accept, opVars, Stored
<1>3. ASSUME NEW F \in SUBSET Stored, FreeRounds(F), UNCHANGED opVars
      PROVE  /\ Gone(r) => Gone(r)' /\ slotOf'[r] = NoSlot
             /\ r \in Stored /\ slotOf'[r] = NoSlot => Gone(r)'
  BY <1>1, <1>3 DEF FreeRounds, opVars, Stored
<1>4. ASSUME UNCHANGED slotOf, Gone(r) => Gone(r)'
      PROVE  /\ Gone(r) => Gone(r)' /\ slotOf'[r] = NoSlot
             /\ r \in Stored /\ slotOf'[r] = NoSlot => Gone(r)'
  BY <1>1, <1>4 DEF Stored
<1>5. ASSUME NEW op \in Ops, OpenOperation(op) \/ CloseOperation(op)
      PROVE  UNCHANGED slotOf /\ (Gone(r) => Gone(r)')
  BY <1>5 DEF OpenOperation, CloseOperation, slotVars
<1>6. CASE UNCHANGED <<slotOf, tombstones, opVars>>
  BY <1>4, <1>6 DEF opVars
<1>7. \/ \E op \in Ops : OpenOperation(op) \/ CloseOperation(op)
      \/ UNCHANGED opVars
  BY DEF Next, vars, opVars, Accept, AcceptFaulted, MarkPublished,
         ReleaseUnheld, RegisterHold, ReplaceHold, TransferHold, ReleaseHold
<1> QED
  BY <1>0, <1>2, <1>3, <1>4, <1>5, <1>6, <1>7, FreedUnheld

\* A released round never returns, not even once its tombstone is gone.
THEOREM NeverReadmitted == Spec => ReleasedForever
<1>1. IInv /\ [Next]_vars => [ReleasedForeverStep]_vars
  BY GoneStep
<1> QED
  BY <1>1, Invariance, PTL DEF Spec, ReleasedForever, ReleasedForeverStep

-----------------------------------------------------------------------------
(* The store implements the retention promise *)

AStatus == [r \in Rounds |-> Status(r)]

\* Nobody claims a gone round, and a gone round is not stored.
LEMMA GoneUnclaimed ==
  ASSUME IInv, NEW r \in Rounds, Gone(r)
  PROVE  holdersOf[r] = {} /\ r \notin Stored
BY DEF IInv, TypeOK, HoldIndexExact, NoHoldOnReleasedRound, StoredIsAlive, Gone

\* A step that only moves claims, and frees what lost its last claim, is the
\* abstract Reclaim.
LEMMA ReclaimStep ==
  ASSUME IInv, IInv', FreedWithLastHoldStep, ReleasedForeverStep,
         Stored' \subseteq Stored, closedOps' = closedOps,
         tombstones' = tombstones \cup (Stored \ Stored'),
         \A r \in Stored \ Stored' : holdersOf[r] # {}
  PROVE  Retention!Reclaim
<1>1. holdersOf' \in [Rounds -> SUBSET Holders]
  BY DEF IInv, TypeOK
<1>2. \A r \in Rounds : Status(r) = "gone" => holdersOf'[r] = {}
  <2> SUFFICES ASSUME NEW r \in Rounds, Status(r) = "gone"
               PROVE  holdersOf'[r] = {}
    OBVIOUS
  <2>1. Gone(r)'
    BY DEF Status, ReleasedForeverStep
  <2> QED
    BY <2>1 DEF IInv, TypeOK, HoldIndexExact, NoHoldOnReleasedRound,
       StoredIsAlive, Gone
<1>3. ASSUME NEW r \in Rounds
      PROVE  Status(r)' = IF Status(r) = "kept" /\ holdersOf[r] # {}
                             /\ holdersOf'[r] = {}
                          THEN "gone" ELSE Status(r)
  <2>1. r \in Stored => Status(r) = "kept"
    BY DEF Status
  <2>2. r \notin Stored => Status(r) # "kept" /\ r \notin Stored'
    BY DEF Status
  <2>3. CASE r \notin Stored
    <3>1. Gone(r)' <=> Gone(r)
      BY <2>3 DEF Gone
    <3> QED BY <2>2, <2>3, <3>1 DEF Status
  <2>4. CASE r \in Stored /\ r \in Stored'
    BY <2>1, <2>4 DEF Status, FreedWithLastHoldStep, Stored
  <2>5. CASE r \in Stored /\ r \notin Stored'
    <3>1. holdersOf[r] # {} /\ holdersOf'[r] = {} /\ Gone(r)'
      BY <2>5 DEF FreedWithLastHoldStep, Stored, Gone
    <3> QED BY <2>1, <2>5, <3>1 DEF Status
  <2> QED BY <2>3, <2>4, <2>5
<1>4. AStatus' = [r \in Rounds |-> IF AStatus[r] = "kept" /\ holdersOf[r] # {}
                                      /\ holdersOf'[r] = {}
                                   THEN "gone" ELSE AStatus[r]]
  BY <1>3 DEF AStatus
<1> QED
  BY <1>1, <1>2, <1>4 DEF Retention!Reclaim, AStatus

\* A hold call that frees the set F of rounds which lost their last holder.
LEMMA HoldCallReclaims ==
  ASSUME IInv, IInv', FreedWithLastHoldStep, ReleasedForeverStep,
         NEW F \in SUBSET Stored, FreeRounds(F), UNCHANGED opVars,
         \A r \in F : holdersOf[r] # {}
  PROVE  Retention!Reclaim
<1>1. Stored' = Stored \ F
  BY DEF FreeRounds, Stored
<1> QED
  BY <1>1, ReclaimStep DEF FreeRounds, opVars

\* Every call is a step of the abstract store, or invisible to its clients.
LEMMA RetentionStep ==
  IInv /\ [Next]_vars => [Retention!Next]_<<AStatus, holdersOf>>
<1> SUFFICES ASSUME IInv, [Next]_vars
             PROVE  [Retention!Next]_<<AStatus, holdersOf>>
  OBVIOUS
<1> USE DEF TypeOK
<1>0. /\ IInv' /\ FreedWithLastHoldStep /\ ReleasedForeverStep
      /\ TypeOK /\ HoldIndexExact /\ NoHoldOnReleasedRound /\ StoredIsAlive
  BY InvStep, FreedStep, GoneStep DEF IInv
<1>1. ASSUME UNCHANGED <<slotOf, tombstones, closedOps, holdersOf>>
      PROVE  UNCHANGED <<AStatus, holdersOf>>
  BY <1>1 DEF AStatus, Status, Gone, Stored
<1>2. ASSUME NEW op \in Ops, CloseOperation(op) PROVE Retention!Next
  <2> DEFINE S == {r \in Rounds : OpOf[r] = op}
  <2>1. \A r \in S : r \notin Stored /\ holdersOf[r] = {}
    <3>1. \A r \in S, h \in Holders :
            Live(h) /\ r \in holdRounds[h] => op \in holdOps[h]
      BY <1>0 DEF NoHoldOnReleasedRound
    <3> QED BY <1>0, <1>2, <3>1 DEF CloseOperation, HasLiveReference,
               HoldIndexExact
  <2>2. UNCHANGED <<slotOf, holdersOf>>
    BY <1>2 DEF CloseOperation, slotVars
  <2>3. AStatus' = [r \in Rounds |-> IF r \in S THEN "gone" ELSE AStatus[r]]
    <3>1. \A r \in Rounds \ S : Gone(r)' <=> Gone(r)
      BY <1>2 DEF CloseOperation, Gone
    <3>2. \A r \in S : Gone(r)'
      BY <1>2 DEF CloseOperation, Gone
    <3> QED BY <2>1, <2>2, <3>1, <3>2 DEF AStatus, Status, Stored
  <2>4. \A r \in S : AStatus[r] # "kept" /\ holdersOf[r] = {}
    BY <2>1 DEF AStatus, Status
  <2>5. Retention!Retire(S)
    BY <2>2, <2>3, <2>4 DEF Retention!Retire, AStatus
  <2> QED BY <2>5 DEF Retention!Next
<1>3. ASSUME NEW r \in Rounds, NEW stamped \in BOOLEAN, Accept(r, stamped)
      PROVE  Retention!Next
  <2>1. PICK s \in freeSlots \cup {slotCount} :
          slotOf' = [slotOf EXCEPT ![r] = s]
    BY <1>3 DEF Accept
  <2>2. s # NoSlot
    BY <1>0, StoreAssumption
  <2>3. Status(r) = "absent"
    BY <1>0, <1>3 DEF Accept, MayAccept, Status, Gone, StoredIsAlive
  <2>4. AStatus' = [AStatus EXCEPT ![r] = "kept"]
    BY <1>0, <1>3, <2>1, <2>2
    DEF Accept, opVars, AStatus, Status, Gone, Stored
  <2>5. Retention!Store(r)
    BY <1>3, <2>3, <2>4 DEF Retention!Store, AStatus, Accept, holdVars
  <2> QED BY <2>5 DEF Retention!Next
<1>4. ASSUME NEW r \in Rounds, ReleaseUnheld(r) PROVE Retention!Next
  <2>1. AStatus[r] = "kept"
    BY <1>4 DEF ReleaseUnheld, AStatus, Status
  <2>2. AStatus' = [AStatus EXCEPT ![r] = "gone"]
    BY <1>4
    DEF ReleaseUnheld, FreeRounds, opVars, AStatus, Status, Gone, Stored
  <2>3. Retention!Discard(r)
    BY <1>4, <2>1, <2>2 DEF Retention!Discard, AStatus, ReleaseUnheld, holdVars
  <2> QED BY <2>3 DEF Retention!Next
<1>5. ASSUME UNCHANGED <<slotVars, tombstones, opVars>> PROVE Retention!Next
  BY <1>0, <1>5, ReclaimStep DEF slotVars, opVars, Stored, Retention!Next
<1>6. ASSUME NEW h \in Holders, NEW R \in SUBSET Rounds, ReplaceHold(h, R)
      PROVE  Retention!Next
  <2> DEFINE F == LastHeldBy(h, holdRounds[h] \ R)
  <2>1. F \in SUBSET Stored
    BY DEF LastHeldBy
  <2>2. \A r \in F : holdersOf[r] # {}
    BY <1>0, <1>6 DEF ReplaceHold, LastHeldBy, HoldIndexExact, Stored
  <2>3. Retention!Reclaim
    BY <1>0, <1>6, <2>1, <2>2, HoldCallReclaims DEF ReplaceHold
  <2> QED BY <2>3 DEF Retention!Next
<1>7. ASSUME NEW h \in Holders, ReleaseHold(h) PROVE Retention!Next
  <2> DEFINE F == LastHeldBy(h, holdRounds[h])
  <2>1. F \in SUBSET Stored
    BY DEF LastHeldBy
  <2>2. \A r \in F : holdersOf[r] # {}
    BY <1>0, <1>7 DEF ReleaseHold, LastHeldBy, HoldIndexExact, Stored
  <2>3. Retention!Reclaim
    BY <1>0, <1>7, <2>1, <2>2, HoldCallReclaims DEF ReleaseHold
  <2> QED BY <2>3 DEF Retention!Next
<1> QED
  BY <1>1, <1>2, <1>3, <1>4, <1>5, <1>6, <1>7
  DEF Next, vars, OpenOperation, AcceptFaulted, MarkPublished, RegisterHold,
      TransferHold, slotVars, holdVars, opVars

\* Slots, tombstones and the two hold tables together implement the promise
\* consumers rely on: absent, then kept, then gone for good, never under a
\* claim and always with the last one.
THEOREM StoreImplementsRetention == Spec => ImplementsRetention
<1>1. Init => Retention!Init
  BY StoreAssumption
  DEF Init, Retention!Init, Status, Stored, Gone
<1>2. IInv /\ [Next]_vars => [Retention!Next]_<<AStatus, holdersOf>>
  BY RetentionStep
<1> QED
  BY <1>1, <1>2, Invariance, PTL
  DEF Spec, ImplementsRetention, Retention!Spec, AStatus

-----------------------------------------------------------------------------
(* Counters *)

\* With a memory model that never raises, every allocation is still live or
\* was released once.
LEMMA CountersStep ==
  ASSUME MaxFaults = 0, IInv, CountersReconcile, [Next]_vars
  PROVE  CountersReconcile'
<1> USE DEF TypeOK
<1>0. TypeOK /\ HoldIndexExact
  BY DEF IInv
<1>1. IsFiniteSet(Stored) /\ Cardinality(Stored) \in Nat
  BY StoreAssumption, FS_Subset, FS_CardinalityType DEF Stored
<1>2. ASSUME NEW r \in Rounds, NEW stamped \in BOOLEAN, Accept(r, stamped)
      PROVE  CountersReconcile'
  <2>1. PICK s \in freeSlots \cup {slotCount} :
          slotOf' = [slotOf EXCEPT ![r] = s]
    BY <1>2 DEF Accept
  <2>2. Stored' = Stored \cup {r} /\ r \notin Stored
    BY <1>0, <1>2, <2>1, StoreAssumption DEF Accept, MayAccept, Stored
  <2>3. Cardinality(Stored') = Cardinality(Stored) + 1
    BY <1>1, <2>2, FS_AddElement
  <2> QED
    BY <1>0, <1>1, <1>2, <2>3 DEF Accept, CountersReconcile
<1>3. ASSUME NEW F \in SUBSET Stored, FreeRounds(F), UNCHANGED allocations
      PROVE  CountersReconcile'
  <2>1. Stored' = Stored \ F
    BY <1>3 DEF FreeRounds, Stored
  <2>2. IsFiniteSet(F)
    BY <1>1, FS_Subset
  <2>3. Cardinality(F) \in Nat
    BY <2>2, FS_CardinalityType
  <2>4. Cardinality(Stored \ F) = Cardinality(Stored) - Cardinality(Stored \cap F)
    BY <1>1, FS_Difference
  <2>5. Stored \cap F = F
    OBVIOUS
  <2>6. Cardinality(Stored') = Cardinality(Stored) - Cardinality(F)
    BY <2>1, <2>4, <2>5
  <2> QED
    BY <1>0, <1>1, <1>3, <2>3, <2>6 DEF FreeRounds, CountersReconcile
<1>4. ASSUME UNCHANGED <<slotOf, allocations, released>>
      PROVE  CountersReconcile'
  BY <1>4 DEF CountersReconcile, Stored
<1>5. ASSUME NEW r \in Rounds PROVE ~AcceptFaulted(r)
  BY <1>0, <1>1 DEF AcceptFaulted, Faults, CountersReconcile
<1>6. ASSUME NEW h \in Holders, NEW R \in SUBSET Rounds, ReplaceHold(h, R)
      PROVE  CountersReconcile'
  BY <1>3, <1>6 DEF ReplaceHold, LastHeldBy
<1>7. ASSUME NEW h \in Holders, ReleaseHold(h) PROVE CountersReconcile'
  BY <1>3, <1>7 DEF ReleaseHold, LastHeldBy
<1>8. ASSUME NEW r \in Rounds, ReleaseUnheld(r) PROVE CountersReconcile'
  BY <1>3, <1>8 DEF ReleaseUnheld
<1> QED
  BY <1>2, <1>4, <1>5, <1>6, <1>7, <1>8
  DEF Next, vars, OpenOperation, CloseOperation, MarkPublished, RegisterHold,
      TransferHold, slotVars

\* metrics() adds up: allocations = live + released, unless an intake had to
\* be rolled back.
THEOREM CountersAddUp ==
  ASSUME MaxFaults = 0
  PROVE  Spec => []CountersReconcile
<1>1. Init => CountersReconcile
  <2>1. Init => Stored = {}
    BY DEF Init, Stored
  <2>2. Cardinality({}) = 0
    BY FS_EmptySet
  <2>3. Init => Cardinality(Stored) = 0
    BY <2>1, <2>2
  <2> QED BY <2>3 DEF Init, CountersReconcile
<1>2. IInv /\ CountersReconcile /\ [Next]_vars => CountersReconcile'
  BY CountersStep
<1> QED BY <1>1, <1>2, Invariance, PTL DEF Spec

\* A released token stays unusable while an operation it named is open.
THEOREM TokensNotReused == Spec => TokenReusedOnlyAfterClose
<1>1. TypeOK /\ [Next]_vars =>
        [\A h \in Holders : phase[h] = "released" /\ phase'[h] # "released"
                               => holdOps[h] \cap openOps' = {}]_vars
  BY DEF TypeOK, Next, vars, OpenOperation, CloseOperation, Stale, Accept,
         AcceptFaulted, MarkPublished, ReleaseUnheld, RegisterHold,
         ReplaceHold, TransferHold, ReleaseHold, Live, holdVars
<1> QED
  BY <1>1, TypeCorrect, PTL DEF Spec, TokenReusedOnlyAfterClose

=============================================================================

-------------------------- MODULE DecoderUnitsProofs --------------------------
(***************************************************************************)
(* The inductive invariant of DecoderUnits and the theorems about it.      *)
(***************************************************************************)
EXTENDS DecoderUnits, SequenceFacts, FunctionTheorems

-----------------------------------------------------------------------------
(* The inductive invariant *)

PoolNames == ToSet(Pools)

\* A job in a unit's input slot.
InSlot == {"moving", "landed", "parked", "serving"}

\* What a handler may still have to do.
Tasks ==
  ({"dispatch"} \X PoolNames) \cup ({"land"} \X Jobs)
    \cup ({"conclude", "finish", "withdraw"} \X Windows)
    \cup ({"submit", "cancel"} \X Strongs) \cup ({"absorb"} \X DOMAIN Chain)

Typed ==
  /\ mode \in Modes
  /\ stage \in [Jobs -> Stages]
  /\ queue \in [PoolNames -> Seq(Jobs)]
  /\ residents \in [Units -> Seq(Jobs)]
  /\ computing \in [Units -> Jobs \cup {None}]
  /\ freeUnits \in [PoolNames -> Seq(Units)]
  /\ \A p \in PoolNames : ToSet(freeUnits[p]) \subseteq UnitsOf(p)
  /\ stored \in [Units -> SUBSET Jobs]
  /\ holds \subseteq Jobs
  /\ owed \in [Windows -> SUBSET Windows]
  /\ awaiting \subseteq {w \in Windows : StrongOf[w] \in Strongs}
  /\ absorbed \subseteq Windows
  /\ flights \in [Units -> Seq(Jobs)]
  /\ intakeBusy \in [Units -> Jobs \cup {None}]
  /\ stalled \in [Units -> Jobs \cup {None}]
  /\ agenda \in Seq(Tasks)

\* A job is in a queue or in a slot exactly while its stage says so, in one
\* place and once.
Placed ==
  /\ \A p \in PoolNames :
       /\ IsInjective(queue[p])
       /\ ToSet(queue[p]) = {j \in Jobs : stage[j] = "queued" /\ PoolOf[j] = p}
  /\ \A u \in Units :
       /\ IsInjective(residents[u])
       /\ \A j \in ToSet(residents[u]) :
            stage[j] \in InSlot /\ PoolOf[j] = PoolOfUnit(u)
  /\ \A u, v \in Units :
       u # v => ToSet(residents[u]) \cap ToSet(residents[v]) = {}
  /\ \A j \in Jobs : stage[j] \in InSlot => \E u \in Units : j \in ToSet(residents[u])
  /\ \A u \in Units : Len(residents[u]) <= SlotCapacity(u)

\* Which jobs reach which stages, and what their boundaries say of them.
Gated ==
  /\ \A j \in Jobs :
       /\ stage[j] \in {"parked", "concluding", "withdrawn"} => j \in Windows
       /\ stage[j] \in {"stopped", "cancelled"} => j \in Strongs
  /\ \A w \in Windows :
       /\ stage[w] = "parked" => owed[w] # {}
       /\ Begun(w) => owed[w] = {}
       /\ owed[w] \subseteq Deps[w]
       /\ owed[w] \cap absorbed = {}
       /\ \A d \in Deps[w] \ owed[w] : stage[d] = "done" \/ d \in absorbed
  /\ \A w \in absorbed : stage[w] \in {"idle", "withdrawn"}

\* In a double-window stream everything in front of a window that has begun
\* has begun itself or is absorbed.
InLine ==
  mode = "double" =>
    \A i, k \in DOMAIN Chain :
      i < k /\ (Begun(Chain[k]) \/ Chain[k] \in absorbed)
        => Begun(Chain[i]) \/ Chain[i] \in absorbed

\* A strong window covers the stream up to position k behind that of w; the
\* windows in V are still to be withdrawn.
Covers(w, k, V) ==
  /\ mode = "double"
  /\ \E n \in DOMAIN Chain :
       /\ Chain[n] = w /\ n < k
       /\ \A i \in n + 1 .. k :
            stage[Chain[i]] \in {"idle", "withdrawn"} \/ <<"withdraw", Chain[i]>> \in ToSet(V)
  /\ k < Len(Chain) => stage[Chain[k + 1]] = "idle"

\* The end of a deferral, once the covered windows are withdrawn.
Absorbing(w, k) == <<<<"absorb", k>>, <<"finish", w>>>>

\* The agendas on which the decode of w is being concluded.
Closing(w, S) ==
  \/ S = <<<<"conclude", w>>>>
  \/ S = <<<<"finish", w>>>>
  \/ \E s \in Strongs : \E t \in {"submit", "cancel"} : S = <<<<t, s>>, <<"finish", w>>>>
  \/ \E V \in Seq({"withdraw"} \X Windows), k \in DOMAIN Chain :
       S = V \o Absorbing(w, k) /\ Covers(w, k, V)

Concluding == {j \in Jobs : stage[j] = "concluding"}

\* What is left of a handler when its dispatches are done: it concludes at
\* most one decode.
Rest(S) ==
  \/ S = <<>> /\ Concluding = {}
  \/ \E s \in Strongs : S = <<<<"submit", s>>>> /\ Concluding = {}
  \/ \E w \in Windows : Closing(w, S) /\ Concluding = {w}

Dispatches == Seq({"dispatch"} \X PoolNames)

\* The agenda: a transfer that takes no time, then dispatches, then the rest of
\* the handler.
Handling ==
  \E X \in Dispatches, S \in Seq(Tasks) :
    /\ Rest(S)
    /\ \/ agenda = X \o S
       \/ \E j \in Instant \cap Jobs :
            agenda = <<<<"land", j>>>> \o (X \o S) /\ stage[j] = "moving"

\* Unit memory holds the inputs of its residents that have landed, and the
\* input of the decode that is being concluded.
Stored ==
  \A u \in Units :
    /\ \A j \in ToSet(residents[u]) : stage[j] = "moving" <=> j \notin stored[u]
    /\ \A j \in stored[u] : PoolOf[j] = PoolOfUnit(u)
         /\ (j \in ToSet(residents[u]) \/ stage[j] = "concluding")

UnitsInv == Typed /\ Placed /\ Gated /\ InLine /\ Handling /\ Stored

\* A decode that left its unit.
Over == {"concluding", "done", "stopped", "cancelled"}

\* The compute of a unit: who claims it, and what the pipeline says of the claim.
ClaimedAt(u) ==
  /\ IsFree(u) <=> computing[u] = None
  /\ \A j \in ToSet(residents[u]) :
       /\ stage[j] = "serving" => computing[u] = j
       /\ stage[j] = "landed" => computing[u] # None
  /\ computing[u] # None =>
       \/ computing[u] \in ToSet(residents[u]) /\ stage[computing[u]] \in {"moving", "serving"}
       \/ intakeBusy[u] = computing[u] /\ stage[computing[u]] \in Over
  /\ intakeBusy[u] # None =>
       /\ Pipelined(u) /\ intakeBusy[u] = computing[u] /\ stalled[u] = None
       /\ stage[computing[u]] \in {"serving"} \cup Over
  /\ stalled[u] # None =>
       Pipelined(u) /\ stalled[u] = computing[u] /\ stage[computing[u]] = "serving"
  /\ flights[u] = IF Pipelined(u) /\ computing[u] # None /\ stage[computing[u]] = "serving"
                  THEN <<computing[u]>> ELSE <<>>

\* No unit is listed twice, and every unit's claim is as it should be.
ListedOnce(fr) == \A p \in PoolNames : IsInjective(fr[p])
Claimed == ListedOnce(freeUnits) /\ \A u \in Units : ClaimedAt(u)

\* At most one decode is in flight in a unit.
Shallow == \A p \in PoolNames : Depth[p] <= 1

-----------------------------------------------------------------------------
(* Units, slots and queues *)

\* A unit belongs to the pool it is named after.
LEMMA UnitFacts ==
  /\ \A u \in Units : PoolOfUnit(u) \in PoolNames /\ u \in UnitsOf(PoolOfUnit(u))
  /\ \A p \in PoolNames : \A u \in UnitsOf(p) : u \in Units /\ PoolOfUnit(u) = p
BY DEF Units, UnitsOf, PoolOfUnit, PoolNames

\* A staged job has one unit, and it is of the job's pool.
LEMMA UnitOfStaged ==
  ASSUME Typed, Placed, NEW j \in Jobs, stage[j] \in InSlot
  PROVE  /\ UnitOf(j) \in Units
         /\ j \in ToSet(residents[UnitOf(j)])
         /\ PoolOfUnit(UnitOf(j)) = PoolOf[j]
         /\ \A v \in Units : j \in ToSet(residents[v]) => v = UnitOf(j)
<1>1. \E u \in Units : j \in ToSet(residents[u])
  BY DEF Placed
<1>2. UnitOf(j) \in Units /\ j \in ToSet(residents[UnitOf(j)])
  BY <1>1 DEF UnitOf
<1>3. PoolOfUnit(UnitOf(j)) = PoolOf[j]
  BY <1>2 DEF Placed
<1>4. \A v \in Units : j \in ToSet(residents[v]) => v = UnitOf(j)
  BY <1>2 DEF Placed
<1> QED BY <1>2, <1>3, <1>4

\* Nobody's name is missing from the tables.
LEMMA NoneIsNoJob == None \notin Jobs /\ PoolOf \in [Jobs -> PoolNames]
BY UnitsAssumption DEF PoolNames

\* A window, a strong and an external job are three things.
LEMMA KindsOfJobs ==
  /\ Windows \subseteq Jobs /\ Strongs \subseteq Jobs /\ Externals \subseteq Jobs
  /\ Windows \cap Strongs = {} /\ Externals \cap Windows = {} /\ Externals \cap Strongs = {}
BY UnitsAssumption DEF Jobs

-----------------------------------------------------------------------------
(* Compute on offer *)

\* The stages after an offer: a landed resident whose boundary is in may have
\* begun, one that owes a boundary may have parked, nobody else has moved.
Settled(st, rs) ==
  /\ stage' \in [Jobs -> Stages]
  /\ \A j \in Jobs :
       \/ stage'[j] = st[j]
       \/ /\ j \in ToSet(rs) /\ st[j] = "landed"
          /\ stage'[j] = IF Startable(j) THEN "serving" ELSE "parked"

LEMMA OfferSettles ==
  ASSUME NEW u \in Units, NEW st \in [Jobs -> Stages], NEW rs \in Seq(Jobs),
         NEW fl, NEW busy, NEW fr, OfferCompute(u, st, rs, fl, busy, fr)
  PROVE  Settled(st, rs)
<1> DEFINE go == StartableLanded(st, rs)
           next == IF go # {} THEN rs[Min(go)]
                   ELSE IF Reservable(st, rs) # {} THEN rs[Min(Reservable(st, rs))]
                   ELSE None
<1>1. stage' = [j \in Jobs |-> IF go # {} /\ j = next THEN "serving"
                               ELSE IF j \in Parks(st, rs) THEN "parked" ELSE st[j]]
  BY DEF OfferCompute
<1>2. DOMAIN rs = 1 .. Len(rs) /\ \A i \in DOMAIN rs : rs[i] \in Jobs /\ rs[i] \in ToSet(rs)
  BY LenProperties, ElementOfSeq DEF ToSet
<1>3. go # {} => /\ next \in ToSet(rs) /\ st[next] = "landed" /\ Startable(next)
  <2>1. go \subseteq Nat
    BY <1>2, LenProperties DEF StartableLanded
  <2>2. go # {} => Min(go) \in go
    BY <2>1, LeastOfNat DEF Min
  <2> QED BY <1>2, <2>2 DEF StartableLanded
<1>4. \A j \in Parks(st, rs) : j \in ToSet(rs) /\ st[j] = "landed" /\ ~Startable(j)
  <2> SUFFICES ASSUME NEW i \in DOMAIN rs, st[rs[i]] = "landed",
                      \A k \in 1 .. i : st[rs[k]] = "landed" => ~Startable(rs[k])
               PROVE  rs[i] \in ToSet(rs) /\ ~Startable(rs[i])
    BY DEF Parks
  <2>1. i \in 1 .. i
    BY <1>2, LenProperties
  <2> QED BY <1>2, <2>1
<1> HIDE DEF go, next
<1>5. stage' \in [Jobs -> Stages]
  BY <1>1 DEF Stages
<1>6. ASSUME NEW j \in Jobs
      PROVE  \/ stage'[j] = st[j]
             \/ /\ j \in ToSet(rs) /\ st[j] = "landed"
                /\ stage'[j] = IF Startable(j) THEN "serving" ELSE "parked"
  BY <1>1, <1>3, <1>4
<1> QED BY <1>5, <1>6 DEF Settled

\* The dispatches a park asks for are dispatches.
LEMMA DispatchesAre ==
  /\ TryDispatch \in Dispatches /\ <<>> \in Dispatches
  /\ \A p \in PoolNames : <<"dispatch", p>> \in ToSet(TryDispatch)
  /\ \A st, rs : AfterParks(st, rs) \in Dispatches
<1>1. Pools \in Seq(PoolNames)
  BY UnitsAssumption DEF PoolNames
<1>2. DOMAIN Pools = 1 .. Len(Pools) /\ Len(Pools) \in Nat
      /\ \A i \in 1 .. Len(Pools) : Pools[i] \in PoolNames
  BY <1>1, LenProperties, ElementOfSeq
<1>3. TryDispatch \in [1 .. Len(Pools) -> {"dispatch"} \X PoolNames]
  BY <1>2 DEF TryDispatch
<1>4. TryDispatch \in Dispatches
  BY <1>2, <1>3, SeqDef DEF Dispatches
<1>5. <<>> \in Dispatches
  BY EmptySeq DEF Dispatches
<1>6. ASSUME NEW p \in PoolNames PROVE <<"dispatch", p>> \in ToSet(TryDispatch)
  <2>1. PICK i \in DOMAIN Pools : Pools[i] = p
    BY DEF PoolNames, ToSet
  <2>2. i \in DOMAIN TryDispatch /\ TryDispatch[i] = <<"dispatch", p>>
    BY <1>2, <2>1 DEF TryDispatch
  <2> QED BY <2>2 DEF ToSet
<1> QED BY <1>4, <1>5, <1>6 DEF AfterParks

-----------------------------------------------------------------------------
(* How a job moves in a step *)

\* A window may begin: its boundaries have come.
Ready(j) ==
  j \in Windows => owed'[j] = {} /\ \A d \in Deps[j] : stage[d] = "done" \/ d \in absorbed

\* The ways a job moves in a step of the pools.
Moved(j) ==
  \/ stage'[j] = stage[j]
  \/ stage[j] = "idle" /\ stage'[j] = "queued" /\ (j \in Windows => Quiet /\ j \notin absorbed)
  \/ stage[j] = "queued" /\ stage'[j] = "moving"
  \/ stage[j] = "moving" /\ stage'[j] = "landed"
  \/ /\ stage[j] \in {"moving", "landed"} /\ stage'[j] = "parked"
     /\ j \in Windows /\ owed'[j] # {}
  \/ stage[j] \in {"moving", "landed", "parked"} /\ stage'[j] = "serving" /\ Ready(j)
  \/ stage[j] = "parked" /\ stage'[j] = "landed" /\ Ready(j)
  \/ stage[j] = "serving" /\ stage'[j] = "concluding" /\ j \in Windows
  \/ stage[j] = "serving" /\ stage'[j] = "done" /\ j \notin Windows
  \/ stage[j] = "concluding" /\ stage'[j] = "done"
  \/ stage[j] \in InSlot \cup {"queued"} /\ stage'[j] = "withdrawn"
       /\ stage[j] # "serving" /\ j \in Windows
  \/ stage[j] \in InSlot \cup {"queued"} /\ stage'[j] \in {"stopped", "cancelled"} /\ j \in Strongs
  \/ stage[j] = "stopped" /\ stage'[j] = "cancelled"

\* The boundaries of a startable job were delivered by decodes that are over.
LEMMA StartableIsReady ==
  ASSUME Typed, Gated, NEW j \in Jobs, UNCHANGED owed
  PROVE  /\ Startable(j) => Ready(j)
         /\ ~Startable(j) => j \in Windows /\ owed'[j] # {}
BY DEF Gated, Startable, Ready

\* The jobs an offer starts or parks move as they may.
LEMMA SettledMoves ==
  ASSUME Typed, Gated, UNCHANGED owed, NEW st, NEW rs, Settled(st, rs),
         NEW i \in Jobs, st[i] = stage[i]
  PROVE  /\ Moved(i)
         /\ stage'[i] # stage[i] =>
              i \in ToSet(rs) /\ stage[i] = "landed" /\ stage'[i] \in {"serving", "parked"}
<1>1. CASE stage'[i] = stage[i]
  BY <1>1 DEF Moved
<1>2. CASE /\ i \in ToSet(rs) /\ stage[i] = "landed"
           /\ stage'[i] = IF Startable(i) THEN "serving" ELSE "parked"
  BY <1>2, StartableIsReady DEF Moved
<1> QED BY <1>1, <1>2 DEF Settled

-----------------------------------------------------------------------------
(* The parts of the handlers *)

\* What an arrival does, whatever becomes of the job.
Arrived(j, after, nested) ==
  /\ stage' \in [Jobs -> Stages]
  /\ \A i \in Jobs : Moved(i)
  /\ stage'[j] \in {"landed", "parked", "serving"}
  /\ \A i \in Jobs \ {j} :
       \/ stage'[i] = stage[i]
       \/ stage[i] = "landed" /\ stage'[i] \in {"serving", "parked"}
  /\ stored' = [stored EXCEPT ![UnitOf(j)] = @ \cup {j}]
  /\ holds' = holds \ {j}
  /\ agenda' = after \/ agenda' = nested \o after
  /\ UNCHANGED <<mode, queue, residents, owed, awaiting, absorbed, stalled>>

LEMMA ArriveMoves ==
  ASSUME Typed, Placed, Gated, NEW j \in Jobs, stage[j] = "moving",
         NEW after, NEW nested, Arrive(j, after, nested)
  PROVE  Arrived(j, after, nested)
<1> DEFINE u == UnitOf(j)
           mine == computing[u] = j
           vacant == computing[u] = None /\ IsFree(u)
           fr == IF vacant THEN ClaimUnit(freeUnits, u) ELSE freeUnits
           st == [stage EXCEPT ![j] = "parked"]
<1>1. u \in Units /\ residents[u] \in Seq(Jobs)
  BY UnitOfStaged DEF InSlot, Typed
<1>2. /\ stored' = [stored EXCEPT ![UnitOf(j)] = @ \cup {j}]
      /\ holds' = holds \ {j}
      /\ UNCHANGED <<mode, queue, residents, owed, awaiting, absorbed, stalled>>
  BY DEF Arrive, LetGo
<1>3. CASE (mine \/ vacant) /\ Startable(j)
  <2>1. stage' = [stage EXCEPT ![j] = "serving"] /\ agenda' = after
    BY <1>3 DEF Arrive
  <2>2. Ready(j)
    BY <1>2, <1>3, StartableIsReady
  <2>3. \A i \in Jobs : Moved(i)
    BY <2>1, <2>2 DEF Moved, Typed
  <2> QED BY <1>2, <2>1, <2>3 DEF Arrived, Typed, Stages
<1>4. CASE (mine \/ vacant) /\ ~Startable(j)
  <2>1. /\ OfferCompute(u, st, residents[u], flights[u], intakeBusy[u], fr)
        /\ agenda' = nested \o after
    BY <1>4 DEF Arrive
  <2>2. st \in [Jobs -> Stages]
    BY DEF Typed, Stages
  <2>3. Settled(st, residents[u])
    BY <1>1, <2>1, <2>2, OfferSettles
  <2>4. stage' \in [Jobs -> Stages] /\ stage'[j] = "parked" /\ Moved(j)
    BY <1>2, <1>4, <2>3, StartableIsReady DEF Settled, Moved, Typed
  <2>5. ASSUME NEW i \in Jobs \ {j}
        PROVE  /\ Moved(i)
               /\ \/ stage'[i] = stage[i]
                  \/ stage[i] = "landed" /\ stage'[i] \in {"serving", "parked"}
    <3>1. st[i] = stage[i]
      BY DEF Typed
    <3> QED BY <1>2, <2>3, <3>1, SettledMoves
  <2> QED BY <1>2, <2>1, <2>4, <2>5 DEF Arrived
<1>5. CASE ~(mine \/ vacant)
  <2>1. stage' = [stage EXCEPT ![j] = "landed"] /\ agenda' = after
    BY <1>5 DEF Arrive
  <2>2. \A i \in Jobs : Moved(i)
    BY <2>1 DEF Moved, Typed
  <2> QED BY <1>2, <2>1, <2>2 DEF Arrived, Typed, Stages
<1> QED BY <1>3, <1>4, <1>5

\* j takes stage s, and the jobs an offer on u starts or parks move.
Yields(j, u, s) ==
  /\ stage' \in [Jobs -> Stages]
  /\ stage'[j] = s
  /\ \A i \in Jobs \ {j} :
       /\ Moved(i)
       /\ \/ stage'[i] = stage[i]
          \/ /\ i \in ToSet(residents[u]) /\ stage[i] = "landed"
             /\ stage'[i] \in {"serving", "parked"}

\* What a unit's slot, memory and handler look like when j has left it in stage s.
Left(j, u, s, after) ==
  /\ Yields(j, u, s)
  /\ residents' = [residents EXCEPT ![u] = RemoveFirst(@, j)]
  /\ \E X \in Dispatches : agenda' = X \o after

\* Removing a resident leaves the others.
LEMMA ResidentsWithout ==
  ASSUME Typed, Placed, NEW u \in Units, NEW j \in Jobs
  PROVE  /\ RemoveFirst(residents[u], j) \in Seq(Jobs)
         /\ ToSet(RemoveFirst(residents[u], j)) = ToSet(residents[u]) \ {j}
         /\ IsInjective(RemoveFirst(residents[u], j))
<1>1. residents[u] \in Seq(Jobs) /\ IsInjective(residents[u])
  BY DEF Typed, Placed
<1> QED BY <1>1, RemoveFirstElements

LEMMA EmptyBefore ==
  ASSUME NEW after \in Seq(Tasks)
  PROVE  <<>> \o after = after /\ <<>> \in Dispatches
BY ConcatEmptySeq, DispatchesAre

\* The settling of an offer after j has been given stage s.
LEMMA SettledLeaves ==
  ASSUME Typed, Placed, Gated, UNCHANGED owed, NEW u \in Units, NEW j \in Jobs,
         NEW s \in Stages \ {"landed"},
         Settled([stage EXCEPT ![j] = s], RemoveFirst(residents[u], j))
  PROVE  Yields(j, u, s)
<1> DEFINE st == [stage EXCEPT ![j] = s]
           rs == RemoveFirst(residents[u], j)
<1>1. st[j] = s /\ \A i \in Jobs \ {j} : st[i] = stage[i]
  BY DEF Typed
<1>2. ToSet(rs) = ToSet(residents[u]) \ {j}
  BY ResidentsWithout
<1> HIDE DEF st, rs
<1>3. Settled(st, rs)
  BY DEF st, rs
<1>4. stage' \in [Jobs -> Stages] /\ stage'[j] = s
  BY <1>1, <1>3 DEF Settled
<1>5. ASSUME NEW i \in Jobs \ {j}
      PROVE  /\ Moved(i)
             /\ \/ stage'[i] = stage[i]
                \/ /\ i \in ToSet(residents[u]) /\ stage[i] = "landed"
                   /\ stage'[i] \in {"serving", "parked"}
  BY <1>1, <1>2, <1>3, SettledMoves
<1> QED BY <1>4, <1>5 DEF Yields

LEMMA FreeUnitLeaves ==
  ASSUME Typed, Placed, Gated, UNCHANGED owed, NEW u \in Units, NEW j \in Jobs,
         NEW s \in Stages \ {"landed"}, NEW after \in Seq(Tasks),
         FreeUnit(u, j, s, after)
  PROVE  Left(j, u, s, after)
<1> DEFINE fl == RemoveFirst(flights[u], j)
           rs == RemoveFirst(residents[u], j)
           st == [stage EXCEPT ![j] = s]
<1>1. residents' = [residents EXCEPT ![u] = RemoveFirst(@, j)]
  BY DEF FreeUnit
<1>2. st \in [Jobs -> Stages] /\ rs \in Seq(Jobs)
  BY ResidentsWithout DEF Typed
<1>3. CASE FreedClaim(u, j, fl) = None
  <2>1. /\ OfferCompute(u, st, rs, fl, intakeBusy[u], freeUnits)
        /\ agenda' = AfterParks(st, rs) \o after
    BY <1>3 DEF FreeUnit
  <2>2. Settled(st, rs)
    BY <1>2, <2>1, OfferSettles
  <2>3. AfterParks(st, rs) \in Dispatches
    BY DispatchesAre
  <2>4. Yields(j, u, s)
    BY <2>2, SettledLeaves
  <2> QED BY <1>1, <2>1, <2>3, <2>4 DEF Left
<1>4. CASE FreedClaim(u, j, fl) # None
  <2>1. stage' = st /\ agenda' = after
    BY <1>4 DEF FreeUnit
  <2>2. Settled(st, rs)
    BY <1>2, <2>1 DEF Settled
  <2>3. agenda' = <<>> \o after /\ <<>> \in Dispatches
    BY <2>1, EmptyBefore
  <2>4. Yields(j, u, s)
    BY <2>2, SettledLeaves
  <2> QED BY <1>1, <2>3, <2>4 DEF Left
<1> QED BY <1>3, <1>4

\* Dispatches one behind the other are dispatches.
LEMMA DispatchesJoin ==
  ASSUME NEW X \in Dispatches, NEW Y \in Dispatches, NEW after \in Seq(Tasks)
  PROVE  X \o Y \in Dispatches /\ (X \o Y) \o after = X \o (Y \o after)
         /\ X \in Seq(Tasks) /\ X \o after \in Seq(Tasks)
<1>1. X \in Seq(Tasks) /\ Y \in Seq(Tasks)
  <2>1. {"dispatch"} \X PoolNames \subseteq Tasks
    BY DEF Tasks
  <2> QED BY <2>1, ElementOfSeq, SeqDef DEF Dispatches
<1> QED BY <1>1, ConcatAssociative, ConcatProperties DEF Dispatches

LEMMA UnstageLeaves ==
  ASSUME Typed, Placed, Gated, NEW j \in Jobs, stage[j] \in InSlot,
         NEW s \in Stages \ {"landed"}, NEW after \in Seq(Tasks),
         Unstage(j, s, after)
  PROVE  /\ Left(j, UnitOf(j), s, after)
         /\ stored' = [v \in Units |-> stored[v] \ {j}] /\ holds' = holds \ {j}
         /\ UNCHANGED <<queue, owed, mode, awaiting, absorbed, stalled>>
<1> DEFINE u == UnitOf(j)
           rs == RemoveFirst(residents[u], j)
           st == [stage EXCEPT ![j] = s]
<1>1. u \in Units
  BY UnitOfStaged
<1>2. /\ residents' = [residents EXCEPT ![u] = RemoveFirst(@, j)]
      /\ stored' = [v \in Units |-> stored[v] \ {j}] /\ holds' = holds \ {j}
      /\ UNCHANGED <<queue, owed, mode, awaiting, absorbed, stalled>>
  BY DEF Unstage, TakeInput, LetGo
<1>3. st \in [Jobs -> Stages] /\ rs \in Seq(Jobs)
  BY <1>1, ResidentsWithout DEF Typed
<1> HIDE DEF u, rs, st
<1>6. /\ AfterParks(st, rs) \in Dispatches /\ TryDispatch \in Dispatches
      /\ AfterParks(st, rs) \o TryDispatch \in Dispatches
  BY DispatchesAre, DispatchesJoin
<1> USE DEF u, rs, st
<1>4. CASE computing[u] = j
  <2>1. /\ OfferCompute(u, st, rs, flights[u], intakeBusy[u], freeUnits)
        /\ agenda' = AfterParks(st, rs) \o TryDispatch \o after
    BY <1>4 DEF Unstage
  <2>2. Settled(st, rs)
    BY <1>1, <1>3, <2>1, OfferSettles
  <2>3. \E X \in Dispatches : agenda' = X \o after
    BY <1>6, <2>1
  <2>4. Yields(j, u, s)
    BY <1>1, <1>2, <2>2, SettledLeaves
  <2> QED BY <1>2, <2>3, <2>4 DEF Left
<1>5. CASE computing[u] # j
  <2>1. stage' = st /\ agenda' = TryDispatch \o after
    BY <1>5 DEF Unstage
  <2>2. Settled(st, rs)
    BY <1>3, <2>1 DEF Settled
  <2>3. \E X \in Dispatches : agenda' = X \o after
    BY <1>6, <2>1
  <2>4. Yields(j, u, s)
    BY <1>1, <1>2, <2>2, SettledLeaves
  <2> QED BY <1>2, <2>3, <2>4 DEF Left
<1> QED BY <1>4, <1>5

-----------------------------------------------------------------------------
(* The agenda *)

\* The front of two sequences is that of the first, if it has one.
LEMMA FrontOfConcat ==
  ASSUME NEW A, NEW s, NEW t, Both(A, s, t), s # <<>>
  PROVE  /\ s \o t # <<>> /\ s \o t \in Seq(A)
         /\ Head(s \o t) = Head(s) /\ Head(s) \in A
         /\ Tail(s \o t) = Tail(s) \o t /\ Tail(s) \in Seq(A)
<1> s \in Seq(A) /\ t \in Seq(A)
  BY DEF Both
<1>1. s = <<Head(s)>> \o Tail(s) /\ Head(s) \in A /\ Tail(s) \in Seq(A)
  BY HeadAndTail
<1>2. <<Head(s)>> \in Seq(A)
  BY <1>1, InFront
<1>3. s \o t = <<Head(s)>> \o (Tail(s) \o t) /\ Tail(s) \o t \in Seq(A)
  BY <1>1, <1>2, ConcatAssociative, ConcatProperties
<1> QED BY <1>1, <1>3, InFront

\* Nothing in front of a sequence changes nothing.
LEMMA NothingInFront ==
  ASSUME NEW A, NEW s, NEW t, Both(A, s, t), s = <<>>
  PROVE  s \o t = t
BY ConcatEmptySeq DEF Both

LEMMA DispatchTasks ==
  /\ Dispatches \subseteq Seq(Tasks)
  /\ \A X \in Dispatches : X # <<>> => \E p \in PoolNames : Head(X) = <<"dispatch", p>>
  /\ \A X \in Dispatches : X # <<>> => Tail(X) \in Dispatches
<1>1. {"dispatch"} \X PoolNames \subseteq Tasks
  BY DEF Tasks
<1>2. Dispatches \subseteq Seq(Tasks)
  BY <1>1, ElementOfSeq, SeqDef DEF Dispatches
<1> QED BY <1>2, HeadAndTail DEF Dispatches

Withdrawals == Seq({"withdraw"} \X Windows)

\* Pairs of tasks as sequences.
LEMMA TwoTasks ==
  ASSUME NEW A, NEW a \in A, NEW b \in A
  PROVE  <<a, b>> \in Seq(A) /\ <<a>> \o <<b>> = <<a, b>> /\ <<b>> \in Seq(A)
         /\ <<a, b>> # <<>> /\ Head(<<a, b>>) = a /\ Tail(<<a, b>>) = <<b>>
         /\ <<b>> # <<>> /\ Head(<<b>>) = b /\ Tail(<<b>>) = <<>>
<1>1. <<a, b>> \in Seq(A) /\ <<b>> \in Seq(A)
  OBVIOUS
<1>2. <<a, b>> # <<>> /\ <<b>> # <<>> /\ Head(<<a, b>>) = a /\ Head(<<b>>) = b
  OBVIOUS
<1>3. Tail(<<b>>) = <<>>
  OBVIOUS
<1>4. Tail(<<a, b>>) = <<b>>
  OBVIOUS
<1>5. <<a>> \o <<b>> = <<a, b>>
  BY <1>1, <1>2, <1>4, HeadAndTail
<1> QED BY <1>1, <1>2, <1>3, <1>4, <1>5

\* The covering agenda, from its front.
LEMMA CoverFront ==
  ASSUME NEW w \in Windows, NEW k \in DOMAIN Chain, NEW V \in Withdrawals, V # <<>>
  PROVE  /\ V \o Absorbing(w, k) # <<>>
         /\ \E v \in Windows : \E W \in Withdrawals :
              /\ V = <<<<"withdraw", v>>>> \o W
              /\ Head(V \o Absorbing(w, k)) = <<"withdraw", v>>
              /\ Tail(V \o Absorbing(w, k)) = W \o Absorbing(w, k)
<1>1. <<"absorb", k>> \in Tasks /\ <<"finish", w>> \in Tasks
  BY DEF Tasks
<1>2. Absorbing(w, k) \in Seq(Tasks)
  BY <1>1, TwoTasks DEF Absorbing
<1>3. Both(Tasks, V, Absorbing(w, k))
  <2>1. {"withdraw"} \X Windows \subseteq Tasks
    BY DEF Tasks
  <2>2. V \in Seq(Tasks)
    BY <2>1, ElementOfSeq, SeqDef DEF Withdrawals
  <2> QED BY <1>2, <2>2 DEF Both
<1>4. /\ V \o Absorbing(w, k) # <<>>
      /\ Head(V \o Absorbing(w, k)) = Head(V)
      /\ Tail(V \o Absorbing(w, k)) = Tail(V) \o Absorbing(w, k)
  BY <1>3, FrontOfConcat
<1>5. V = <<Head(V)>> \o Tail(V) /\ Head(V) \in {"withdraw"} \X Windows
      /\ Tail(V) \in Withdrawals
  BY HeadAndTail DEF Withdrawals
<1>6. PICK v \in Windows : Head(V) = <<"withdraw", v>>
  BY <1>5
<1> QED BY <1>4, <1>5, <1>6

\* What follows when no withdrawal is left.
LEMMA AbsorbFront ==
  ASSUME NEW w \in Windows, NEW k \in DOMAIN Chain, NEW V \in Withdrawals, V = <<>>
  PROVE  /\ V \o Absorbing(w, k) = Absorbing(w, k)
         /\ Head(Absorbing(w, k)) = <<"absorb", k>>
         /\ Tail(Absorbing(w, k)) = <<<<"finish", w>>>>
<1>1. <<"absorb", k>> \in Tasks /\ <<"finish", w>> \in Tasks
  BY DEF Tasks
<1>2. /\ Absorbing(w, k) \in Seq(Tasks) /\ Head(Absorbing(w, k)) = <<"absorb", k>>
      /\ Tail(Absorbing(w, k)) = <<<<"finish", w>>>>
  BY <1>1, TwoTasks DEF Absorbing
<1> QED BY <1>2, ConcatEmptySeq

\* What the rest of a handler begins with, and what follows.
Fronts(S) ==
  \/ \E s \in Strongs :
       Head(S) = <<"submit", s>> /\ Tail(S) = <<>> /\ Concluding = {}
  \/ \E w \in Windows, t \in {"conclude", "finish"} :
       Head(S) = <<t, w>> /\ Tail(S) = <<>> /\ Concluding = {w}
  \/ \E w \in Windows, s \in Strongs, t \in {"submit", "cancel"} :
       Head(S) = <<t, s>> /\ Tail(S) = <<<<"finish", w>>>> /\ Concluding = {w}
  \/ \E w \in Windows, k \in DOMAIN Chain :
       /\ Head(S) = <<"absorb", k>> /\ Tail(S) = <<<<"finish", w>>>>
       /\ Concluding = {w} /\ Covers(w, k, <<>>)
  \/ \E w, v \in Windows, k \in DOMAIN Chain, W \in Withdrawals :
       /\ Head(S) = <<"withdraw", v>>
       /\ Tail(S) = W \o Absorbing(w, k)
       /\ Concluding = {w} /\ Covers(w, k, <<<<"withdraw", v>>>> \o W)

LEMMA RestFront ==
  ASSUME NEW S \in Seq(Tasks), Rest(S), S # <<>>
  PROVE  Fronts(S)
<1>1. ASSUME NEW s \in Strongs, S = <<<<"submit", s>>>>, Concluding = {} PROVE Fronts(S)
  BY <1>1 DEF Fronts
<1>2. ASSUME NEW w \in Windows, Closing(w, S), Concluding = {w} PROVE Fronts(S)
  <2>1. ASSUME NEW t \in {"conclude", "finish"}, S = <<<<t, w>>>>
        PROVE  Fronts(S)
    <3>1. Head(S) = <<t, w>> /\ Tail(S) = <<>>
      BY <2>1
    <3> QED BY <1>2, <3>1 DEF Fronts
  <2>2. ASSUME NEW s \in Strongs, NEW t \in {"submit", "cancel"},
               S = <<<<t, s>>, <<"finish", w>>>>
        PROVE  Fronts(S)
    <3>1. Head(S) = <<t, s>> /\ Tail(S) = <<<<"finish", w>>>>
      BY <2>2
    <3> QED BY <1>2, <3>1 DEF Fronts
  <2>3. ASSUME NEW V \in Withdrawals, NEW k \in DOMAIN Chain,
               S = V \o Absorbing(w, k), Covers(w, k, V)
        PROVE  Fronts(S)
    <3>1. CASE V = <<>>
      <4>1. Head(S) = <<"absorb", k>> /\ Tail(S) = <<<<"finish", w>>>>
        BY <2>3, <3>1, AbsorbFront
      <4> QED BY <1>2, <2>3, <3>1, <4>1 DEF Fronts
    <3>2. CASE V # <<>>
      <4>1. PICK v \in Windows, W \in Withdrawals :
              /\ V = <<<<"withdraw", v>>>> \o W
              /\ Head(V \o Absorbing(w, k)) = <<"withdraw", v>>
              /\ Tail(V \o Absorbing(w, k)) = W \o Absorbing(w, k)
        BY <3>2, CoverFront
      <4>2. /\ Head(S) = <<"withdraw", v>> /\ Tail(S) = W \o Absorbing(w, k)
            /\ Covers(w, k, <<<<"withdraw", v>>>> \o W)
        BY <2>3, <4>1
      <4> QED BY <1>2, <4>2 DEF Fronts
    <3> QED BY <3>1, <3>2
  <2> QED BY <1>2, <2>1, <2>2, <2>3 DEF Closing, Withdrawals
<1> QED BY <1>1, <1>2 DEF Rest

\* A rest does not begin with a dispatch or a transfer.
LEMMA FrontIsNoDispatch ==
  ASSUME NEW S, Fronts(S), NEW t \in {"dispatch", "land"}, NEW x
  PROVE  Head(S) # <<t, x>>
<1>1. ASSUME NEW y, NEW r \in {"submit", "conclude", "finish", "cancel", "absorb", "withdraw"},
             Head(S) = <<r, y>>
      PROVE  Head(S) # <<t, x>>
  BY <1>1
<1>2. ASSUME NEW s \in Strongs, Head(S) = <<"submit", s>>
      PROVE  Head(S) # <<t, x>>
  BY <1>1, <1>2
<1>3. ASSUME NEW w \in Windows, NEW r \in {"conclude", "finish"}, Head(S) = <<r, w>>
      PROVE  Head(S) # <<t, x>>
  BY <1>1, <1>3
<1>4. ASSUME NEW s \in Strongs, NEW r \in {"submit", "cancel"}, Head(S) = <<r, s>>
      PROVE  Head(S) # <<t, x>>
  BY <1>1, <1>4
<1>5. ASSUME NEW k \in DOMAIN Chain, Head(S) = <<"absorb", k>>
      PROVE  Head(S) # <<t, x>>
  BY <1>1, <1>5
<1>6. ASSUME NEW v \in Windows, Head(S) = <<"withdraw", v>>
      PROVE  Head(S) # <<t, x>>
  BY <1>1, <1>6
<1> QED BY <1>2, <1>3, <1>4, <1>5, <1>6, Zenon DEF Fronts

\* A handler that dispatches has a dispatch in front of its rest.
LEMMA AtDispatch ==
  ASSUME Typed, Handling, NEW p, Doing("dispatch", p)
  PROVE  \E X \in Dispatches, S \in Seq(Tasks) :
           Rest(S) /\ X # <<>> /\ agenda = X \o S /\ Tail(agenda) = Tail(X) \o S
<1>1. PICK X \in Dispatches, S \in Seq(Tasks) :
        /\ Rest(S)
        /\ \/ agenda = X \o S
           \/ \E j \in Instant \cap Jobs : agenda = <<<<"land", j>>>> \o (X \o S)
  BY DEF Handling
<1>2. Both(Tasks, X, S) /\ X \o S \in Seq(Tasks)
  BY DispatchTasks, ConcatProperties DEF Both
<1>3. ASSUME NEW j \in Instant \cap Jobs, agenda = <<<<"land", j>>>> \o (X \o S)
      PROVE  FALSE
  <2>1. <<"land", j>> \in Tasks
    BY DEF Tasks
  <2>2. Head(agenda) = <<"land", j>>
    BY <1>2, <1>3, <2>1, InFront
  <2> QED BY <2>2 DEF Doing
<1>4. X # <<>>
  <2> SUFFICES ASSUME X = <<>> PROVE FALSE
    OBVIOUS
  <2>1. agenda = S /\ S # <<>>
    BY <1>1, <1>2, <1>3, NothingInFront DEF Doing, Quiet
  <2>2. Fronts(S)
    BY <1>1, <2>1, RestFront
  <2>3. Head(S) = <<"dispatch", p>>
    BY <2>1 DEF Doing
  <2> QED BY <2>2, <2>3, FrontIsNoDispatch
<1>5. agenda = X \o S
  BY <1>1, <1>3
<1>6. Tail(agenda) = Tail(X) \o S
  BY <1>2, <1>4, <1>5, FrontOfConcat
<1> QED BY <1>1, <1>4, <1>5, <1>6

\* What a handler is about to do, when it neither dispatches nor takes in an
\* input, is the front of its rest.
LEMMA AtRest ==
  ASSUME Typed, Handling, NEW t, NEW x, Doing(t, x), t \notin {"dispatch", "land"}
  PROVE  Fronts(agenda) /\ Head(agenda) = <<t, x>>
<1>1. PICK X \in Dispatches, S \in Seq(Tasks) :
        /\ Rest(S)
        /\ \/ agenda = X \o S
           \/ \E j \in Instant \cap Jobs : agenda = <<<<"land", j>>>> \o (X \o S)
  BY DEF Handling
<1>2. Both(Tasks, X, S) /\ X \o S \in Seq(Tasks)
  BY DispatchTasks, ConcatProperties DEF Both
<1>3. Head(agenda) = <<t, x>> /\ agenda # <<>>
  BY DEF Doing, Quiet
<1>4. ASSUME NEW j \in Instant \cap Jobs, agenda = <<<<"land", j>>>> \o (X \o S)
      PROVE  FALSE
  <2>1. <<"land", j>> \in Tasks
    BY DEF Tasks
  <2>2. Head(agenda) = <<"land", j>>
    BY <1>2, <1>4, <2>1, InFront
  <2> QED BY <1>3, <2>2
<1>5. X = <<>>
  <2> SUFFICES ASSUME X # <<>> PROVE FALSE
    OBVIOUS
  <2>1. agenda = X \o S
    BY <1>1, <1>4
  <2>2. Head(agenda) = Head(X)
    BY <1>2, <2>1, FrontOfConcat
  <2>3. \E p \in PoolNames : Head(X) = <<"dispatch", p>>
    BY DispatchTasks
  <2> QED BY <1>3, <2>2, <2>3
<1>6. agenda = S
  <2>1. agenda = X \o S
    BY <1>1, <1>4
  <2> QED BY <1>2, <1>5, <2>1, NothingInFront
<1> QED BY <1>1, <1>3, <1>6, RestFront

\* Two tasks are the same only if they are of one kind.
LEMMA SameTask ==
  ASSUME NEW a, NEW b, NEW x, NEW y, <<a, x>> = <<b, y>>
  PROVE  a = b /\ x = y
OBVIOUS

\* The decision on the decode of w is the last task of its handler.
LEMMA AtConclusion ==
  ASSUME Typed, Handling, NEW t \in {"conclude", "finish"}, NEW w \in Windows, Doing(t, w)
  PROVE  Tail(agenda) = <<>> /\ Concluding = {w}
<1>1. Fronts(agenda) /\ Head(agenda) = <<t, w>>
  BY AtRest
<1>2. ASSUME NEW r, NEW y, Head(agenda) = <<r, y>>
      PROVE  r = t /\ y = w
  BY <1>1, <1>2, SameTask
<1>3. ASSUME NEW v \in Windows, NEW r \in {"conclude", "finish"}, Head(agenda) = <<r, v>>,
             Tail(agenda) = <<>>, Concluding = {v}
      PROVE  Tail(agenda) = <<>> /\ Concluding = {w}
  BY <1>2, <1>3
<1>4. ASSUME NEW y, NEW r \in {"submit", "cancel", "absorb", "withdraw"}, Head(agenda) = <<r, y>>
      PROVE  FALSE
  BY <1>2, <1>4
<1> QED BY <1>1, <1>3, <1>4, Zenon DEF Fronts

\* A strong decode is submitted behind a weak one, or while a weak one is
\* concluded; it is cancelled only then.
LEMMA AtStrong ==
  ASSUME Typed, Handling, NEW t \in {"submit", "cancel"}, NEW s \in Strongs, Doing(t, s)
  PROVE  \/ t = "submit" /\ Tail(agenda) = <<>> /\ Concluding = {}
         \/ \E w \in Windows : Tail(agenda) = <<<<"finish", w>>>> /\ Concluding = {w}
<1> DEFINE Goal == \/ t = "submit" /\ Tail(agenda) = <<>> /\ Concluding = {}
                   \/ \E w \in Windows : Tail(agenda) = <<<<"finish", w>>>> /\ Concluding = {w}
<1>1. Fronts(agenda) /\ Head(agenda) = <<t, s>>
  BY AtRest
<1>2. ASSUME NEW r, NEW y, Head(agenda) = <<r, y>>
      PROVE  r = t /\ y = s
  BY <1>1, <1>2, SameTask
<1>3. ASSUME NEW v \in Strongs, Head(agenda) = <<"submit", v>>,
             Tail(agenda) = <<>>, Concluding = {}
      PROVE  Goal
  BY <1>2, <1>3
<1>4. ASSUME NEW w \in Windows, Tail(agenda) = <<<<"finish", w>>>>, Concluding = {w}
      PROVE  Goal
  BY <1>4
<1>5. ASSUME NEW y, NEW r \in {"conclude", "finish", "absorb", "withdraw"}, Head(agenda) = <<r, y>>
      PROVE  FALSE
  BY <1>2, <1>5
<1> HIDE DEF Goal
<1>6. Goal
  BY <1>1, <1>3, <1>4, <1>5, Zenon DEF Fronts
<1> QED BY <1>6 DEF Goal

\* What is left when a covered window is withdrawn.
LEMMA AtWithdrawal ==
  ASSUME Typed, Handling, NEW v \in Windows, Doing("withdraw", v)
  PROVE  \E w \in Windows, k \in DOMAIN Chain, W \in Withdrawals :
           /\ Tail(agenda) = W \o Absorbing(w, k)
           /\ Concluding = {w} /\ Covers(w, k, <<<<"withdraw", v>>>> \o W)
<1> DEFINE Goal == \E w \in Windows, k \in DOMAIN Chain, W \in Withdrawals :
                     /\ Tail(agenda) = W \o Absorbing(w, k)
                     /\ Concluding = {w} /\ Covers(w, k, <<<<"withdraw", v>>>> \o W)
<1>1. Fronts(agenda) /\ Head(agenda) = <<"withdraw", v>>
  BY AtRest
<1>2. ASSUME NEW r, NEW y, Head(agenda) = <<r, y>>
      PROVE  r = "withdraw" /\ y = v
  BY <1>1, <1>2, SameTask
<1>3. ASSUME NEW y, NEW r \in {"submit", "cancel", "conclude", "finish", "absorb"},
             Head(agenda) = <<r, y>>
      PROVE  FALSE
  BY <1>2, <1>3
<1>4. ASSUME NEW w \in Windows, NEW x \in Windows, NEW k \in DOMAIN Chain, NEW W \in Withdrawals,
             Head(agenda) = <<"withdraw", x>>, Tail(agenda) = W \o Absorbing(w, k),
             Concluding = {w}, Covers(w, k, <<<<"withdraw", x>>>> \o W)
      PROVE  Goal
  <2>1. x = v
    BY <1>2, <1>4
  <2> QED BY <1>4, <2>1
<1> HIDE DEF Goal
<1>5. Goal
  BY <1>1, <1>3, <1>4, Zenon DEF Fronts
<1> QED BY <1>5 DEF Goal

\* The covered windows are absorbed when all of them are withdrawn.
LEMMA AtAbsorption ==
  ASSUME Typed, Handling, NEW k \in DOMAIN Chain, Doing("absorb", k)
  PROVE  \E w \in Windows :
           Tail(agenda) = <<<<"finish", w>>>> /\ Concluding = {w} /\ Covers(w, k, <<>>)
<1> DEFINE Goal == \E w \in Windows :
                     Tail(agenda) = <<<<"finish", w>>>> /\ Concluding = {w} /\ Covers(w, k, <<>>)
<1>1. Fronts(agenda) /\ Head(agenda) = <<"absorb", k>>
  BY AtRest
<1>2. ASSUME NEW r, NEW y, Head(agenda) = <<r, y>>
      PROVE  r = "absorb" /\ y = k
  BY <1>1, <1>2, SameTask
<1>3. ASSUME NEW y, NEW r \in {"submit", "cancel", "conclude", "finish", "withdraw"},
             Head(agenda) = <<r, y>>
      PROVE  FALSE
  BY <1>2, <1>3
<1>4. ASSUME NEW w \in Windows, NEW n \in DOMAIN Chain, Head(agenda) = <<"absorb", n>>,
             Tail(agenda) = <<<<"finish", w>>>>, Concluding = {w}, Covers(w, n, <<>>)
      PROVE  Goal
  <2>1. n = k
    BY <1>2, <1>4
  <2> QED BY <1>4, <2>1
<1> HIDE DEF Goal
<1>5. Goal
  BY <1>1, <1>3, <1>4, Zenon DEF Fronts
<1> QED BY <1>5 DEF Goal

\* A handler that concludes a decode is not done.
LEMMA ClosingGoesOn ==
  ASSUME NEW w \in Windows, NEW S \in Seq(Tasks), Closing(w, S)
  PROVE  S # <<>>
<1>1. ASSUME NEW V \in Withdrawals, NEW k \in DOMAIN Chain, S = V \o Absorbing(w, k)
      PROVE  S # <<>>
  <2>1. Absorbing(w, k) # <<>>
    BY DEF Absorbing
  <2> QED BY <1>1, <2>1, CoverFront, AbsorbFront
<1>2. ASSUME NEW t, S = <<<<t, w>>>> PROVE S # <<>>
  BY <1>2
<1>3. ASSUME NEW t, NEW s, S = <<<<t, s>>, <<"finish", w>>>> PROVE S # <<>>
  BY <1>3
<1> QED BY <1>1, <1>2, <1>3, Zenon DEF Closing, Withdrawals

\* Between events no decode is being concluded.
LEMMA AtQuiet ==
  ASSUME Typed, Handling, Quiet
  PROVE  Concluding = {}
<1>1. PICK X \in Dispatches, S \in Seq(Tasks) :
        /\ Rest(S)
        /\ \/ agenda = X \o S
           \/ \E j \in Instant \cap Jobs : agenda = <<<<"land", j>>>> \o (X \o S)
  BY DEF Handling
<1>2. Both(Tasks, X, S) /\ X \o S \in Seq(Tasks)
  BY DispatchTasks, ConcatProperties DEF Both
<1>3. ASSUME NEW j \in Instant \cap Jobs, agenda = <<<<"land", j>>>> \o (X \o S)
      PROVE  FALSE
  <2>1. <<"land", j>> \in Tasks
    BY DEF Tasks
  <2> QED BY <1>2, <1>3, <2>1, InFront DEF Quiet
<1>4. X \o S = <<>>
  BY <1>1, <1>3 DEF Quiet
<1>5. X = <<>>
  BY <1>2, <1>4, FrontOfConcat
<1>6. S = <<>>
  BY <1>2, <1>4, <1>5, NothingInFront
<1>7. ASSUME NEW w \in Windows, Closing(w, S) PROVE FALSE
  BY <1>6, <1>7, ClosingGoesOn
<1>8. ASSUME NEW s, S = <<<<"submit", s>>>> PROVE FALSE
  BY <1>6, <1>8
<1> QED BY <1>1, <1>7, <1>8 DEF Rest

\* An input that lands at once was placed by the running dispatch.
LEMMA AtLanding ==
  ASSUME Typed, Handling, NEW j, Doing("land", j)
  PROVE  /\ j \in Jobs /\ j \in Instant /\ stage[j] = "moving"
         /\ \E X \in Dispatches, S \in Seq(Tasks) : Rest(S) /\ Tail(agenda) = X \o S
<1>1. PICK X \in Dispatches, S \in Seq(Tasks) :
        /\ Rest(S)
        /\ \/ agenda = X \o S
           \/ \E i \in Instant \cap Jobs :
                agenda = <<<<"land", i>>>> \o (X \o S) /\ stage[i] = "moving"
  BY DEF Handling
<1>2. Both(Tasks, X, S) /\ X \o S \in Seq(Tasks)
  BY DispatchTasks, ConcatProperties DEF Both
<1>3. Head(agenda) = <<"land", j>> /\ agenda # <<>>
  BY DEF Doing, Quiet
<1>4. ASSUME agenda = X \o S PROVE FALSE
  <2>1. CASE X # <<>>
    <3>1. Head(agenda) = Head(X)
      BY <1>2, <1>4, <2>1, FrontOfConcat
    <3>2. \E p \in PoolNames : Head(X) = <<"dispatch", p>>
      BY <2>1, DispatchTasks
    <3> QED BY <1>3, <3>1, <3>2
  <2>2. CASE X = <<>>
    <3>1. agenda = S
      BY <1>2, <1>4, <2>2, NothingInFront
    <3>2. Fronts(S)
      BY <1>1, <1>3, <3>1, RestFront
    <3> QED BY <1>3, <3>1, <3>2, FrontIsNoDispatch
  <2> QED BY <2>1, <2>2
<1>5. PICK i \in Instant \cap Jobs : agenda = <<<<"land", i>>>> \o (X \o S) /\ stage[i] = "moving"
  BY <1>1, <1>4
<1>6. Head(agenda) = <<"land", i>> /\ Tail(agenda) = X \o S
  <2>1. <<"land", i>> \in Tasks
    BY DEF Tasks
  <2> QED BY <1>2, <1>5, <2>1, InFront
<1>7. i = j
  BY <1>3, <1>6, SameTask
<1> QED BY <1>1, <1>5, <1>6, <1>7

\* What a handler still has to do after its dispatches.
LEMMA HandlingOf ==
  ASSUME NEW X \in Dispatches, NEW S \in Seq(Tasks), Rest(S)', agenda' = X \o S
  PROVE  Handling'
BY DEF Handling

\* Until the agenda is empty no window is submitted, so what a strong window
\* covers stays as it is.
LEMMA CoversStays ==
  ASSUME Typed, ~Quiet, \A i \in Jobs : Moved(i), UNCHANGED mode,
         NEW w \in Windows, NEW k \in DOMAIN Chain, NEW V, Covers(w, k, V)
  PROVE  Covers(w, k, V)'
<1>1. ASSUME NEW i \in DOMAIN Chain
      PROVE  /\ stage[Chain[i]] = "idle" => stage'[Chain[i]] = "idle"
             /\ stage[Chain[i]] = "withdrawn" => stage'[Chain[i]] = "withdrawn"
  <2>1. Chain[i] \in Windows /\ Chain[i] \in Jobs
    BY UnitsAssumption, ElementOfSeq, LenProperties DEF Jobs
  <2>2. Moved(Chain[i])
    BY <2>1
  <2> QED BY <2>1, <2>2 DEF Moved, Quiet, InSlot
<1>2. DOMAIN Chain = 1 .. Len(Chain) /\ Len(Chain) \in Nat
  BY UnitsAssumption, LenProperties
<1>3. PICK n \in DOMAIN Chain :
        /\ Chain[n] = w /\ n < k
        /\ \A i \in n + 1 .. k :
             stage[Chain[i]] \in {"idle", "withdrawn"} \/ <<"withdraw", Chain[i]>> \in ToSet(V)
  BY DEF Covers
<1>4. \A i \in n + 1 .. k :
        stage'[Chain[i]] \in {"idle", "withdrawn"} \/ <<"withdraw", Chain[i]>> \in ToSet(V)
  <2> SUFFICES ASSUME NEW i \in n + 1 .. k
               PROVE  \/ stage'[Chain[i]] \in {"idle", "withdrawn"}
                      \/ <<"withdraw", Chain[i]>> \in ToSet(V)
    OBVIOUS
  <2>1. i \in DOMAIN Chain
    BY <1>2
  <2> QED BY <1>1, <1>3, <2>1
<1>5. k < Len(Chain) => stage'[Chain[k + 1]] = "idle"
  <2>1. k < Len(Chain) => k + 1 \in DOMAIN Chain
    BY <1>2
  <2> QED BY <1>1, <2>1 DEF Covers
<1> QED BY <1>3, <1>4, <1>5 DEF Covers

LEMMA RestStays ==
  ASSUME Typed, ~Quiet, \A i \in Jobs : Moved(i), UNCHANGED mode, Concluding' = Concluding,
         NEW S \in Seq(Tasks), Rest(S)
  PROVE  Rest(S)'
<1>1. ASSUME NEW w \in Windows, Closing(w, S)
      PROVE  Closing(w, S)'
  BY <1>1, CoversStays DEF Closing
<1> QED BY <1>1 DEF Rest

-----------------------------------------------------------------------------
(* Queues and slots in a step *)

\* A job stays where it is: in its queue, in its slot, or in neither.
Stays(i) ==
  /\ stage'[i] = "queued" <=> stage[i] = "queued"
  /\ stage'[i] \in InSlot <=> stage[i] \in InSlot

LEMMA PlacedSame ==
  ASSUME Typed, Placed, UNCHANGED <<queue, residents>>, \A i \in Jobs : Stays(i)
  PROVE  Placed'
<1>1. \A p \in PoolNames :
        {j \in Jobs : stage'[j] = "queued" /\ PoolOf[j] = p}
          = {j \in Jobs : stage[j] = "queued" /\ PoolOf[j] = p}
  BY DEF Stays
<1>2. \A u \in Units : \A j \in ToSet(residents[u]) :
        stage'[j] \in InSlot /\ PoolOf[j] = PoolOfUnit(u)
  <2> SUFFICES ASSUME NEW u \in Units, NEW j \in ToSet(residents[u])
               PROVE  stage'[j] \in InSlot /\ PoolOf[j] = PoolOfUnit(u)
    OBVIOUS
  <2>1. j \in Jobs /\ stage[j] \in InSlot /\ PoolOf[j] = PoolOfUnit(u)
    BY ToSetOfSeq DEF Placed, Typed
  <2> QED BY <2>1 DEF Stays
<1>3. \A j \in Jobs : stage'[j] \in InSlot => \E u \in Units : j \in ToSet(residents[u])
  BY DEF Stays, Placed
<1> QED BY <1>1, <1>2, <1>3 DEF Placed

\* j joins the queue of its pool.
LEMMA PlacedEnters ==
  ASSUME Typed, Placed, NEW j \in Jobs, stage[j] \notin InSlot \cup {"queued"},
         stage'[j] = "queued", \A i \in Jobs \ {j} : Stays(i),
         queue' = [queue EXCEPT ![PoolOf[j]] = Append(@, j)], UNCHANGED residents
  PROVE  Placed' /\ queue' \in [PoolNames -> Seq(Jobs)]
<1>1. PoolOf[j] \in PoolNames /\ queue[PoolOf[j]] \in Seq(Jobs) /\ IsInjective(queue[PoolOf[j]])
  BY NoneIsNoJob DEF Typed, Placed
<1>2. j \notin ToSet(queue[PoolOf[j]])
  BY <1>1 DEF Placed
<1>3. /\ Append(queue[PoolOf[j]], j) \in Seq(Jobs)
      /\ ToSet(Append(queue[PoolOf[j]], j)) = ToSet(queue[PoolOf[j]]) \cup {j}
      /\ IsInjective(Append(queue[PoolOf[j]], j))
  BY <1>1, <1>2, AppendElements
<1>4. queue' \in [PoolNames -> Seq(Jobs)]
  BY <1>3 DEF Typed
<1>5. ASSUME NEW p \in PoolNames
      PROVE  /\ IsInjective(queue'[p])
             /\ ToSet(queue'[p]) = {i \in Jobs : stage'[i] = "queued" /\ PoolOf[i] = p}
  <2>1. /\ IsInjective(queue[p])
        /\ ToSet(queue[p]) = {i \in Jobs : stage[i] = "queued" /\ PoolOf[i] = p}
    BY DEF Placed
  <2>2. CASE p = PoolOf[j]
    <3>1. queue'[p] = Append(queue[PoolOf[j]], j)
      BY <1>1, <2>2 DEF Typed
    <3>2. {i \in Jobs : stage'[i] = "queued" /\ PoolOf[i] = p} = ToSet(queue[p]) \cup {j}
      BY <2>1, <2>2 DEF Stays
    <3> QED BY <1>3, <2>2, <3>1, <3>2
  <2>3. CASE p # PoolOf[j]
    <3>1. queue'[p] = queue[p]
      BY <2>3 DEF Typed
    <3>2. {i \in Jobs : stage'[i] = "queued" /\ PoolOf[i] = p} = ToSet(queue[p])
      BY <2>1, <2>3 DEF Stays
    <3> QED BY <2>1, <3>1, <3>2
  <2> QED BY <2>2, <2>3
<1>6. \A u \in Units : \A i \in ToSet(residents[u]) :
        stage'[i] \in InSlot /\ PoolOf[i] = PoolOfUnit(u)
  <2> SUFFICES ASSUME NEW u \in Units, NEW i \in ToSet(residents[u])
               PROVE  stage'[i] \in InSlot /\ PoolOf[i] = PoolOfUnit(u)
    OBVIOUS
  <2>1. i \in Jobs /\ stage[i] \in InSlot /\ PoolOf[i] = PoolOfUnit(u)
    BY ToSetOfSeq DEF Placed, Typed
  <2> QED BY <2>1 DEF Stays
<1>7. \A i \in Jobs : stage'[i] \in InSlot => \E u \in Units : i \in ToSet(residents[u])
  BY DEF Stays, Placed, InSlot
<1> QED BY <1>4, <1>5, <1>6, <1>7 DEF Placed

\* The queues without j.
LEMMA QueueWithout ==
  ASSUME Typed, Placed, NEW j \in Jobs, stage[j] = "queued",
         stage'[j] # "queued", \A i \in Jobs \ {j} : Stays(i),
         queue' = [queue EXCEPT ![PoolOf[j]] = RemoveFirst(@, j)]
  PROVE  /\ queue' \in [PoolNames -> Seq(Jobs)]
         /\ \A p \in PoolNames :
              /\ IsInjective(queue'[p])
              /\ ToSet(queue'[p]) = {i \in Jobs : stage'[i] = "queued" /\ PoolOf[i] = p}
<1>1. PoolOf[j] \in PoolNames /\ queue[PoolOf[j]] \in Seq(Jobs) /\ IsInjective(queue[PoolOf[j]])
  BY NoneIsNoJob DEF Typed, Placed
<1>2. /\ RemoveFirst(queue[PoolOf[j]], j) \in Seq(Jobs)
      /\ ToSet(RemoveFirst(queue[PoolOf[j]], j)) = ToSet(queue[PoolOf[j]]) \ {j}
      /\ IsInjective(RemoveFirst(queue[PoolOf[j]], j))
  BY <1>1, RemoveFirstElements
<1>3. queue' \in [PoolNames -> Seq(Jobs)]
  BY <1>2 DEF Typed
<1>4. ASSUME NEW p \in PoolNames
      PROVE  /\ IsInjective(queue'[p])
             /\ ToSet(queue'[p]) = {i \in Jobs : stage'[i] = "queued" /\ PoolOf[i] = p}
  <2>1. /\ IsInjective(queue[p])
        /\ ToSet(queue[p]) = {i \in Jobs : stage[i] = "queued" /\ PoolOf[i] = p}
    BY DEF Placed
  <2>2. CASE p = PoolOf[j]
    <3>1. queue'[p] = RemoveFirst(queue[PoolOf[j]], j)
      BY <1>1, <2>2 DEF Typed
    <3>2. {i \in Jobs : stage'[i] = "queued" /\ PoolOf[i] = p} = ToSet(queue[p]) \ {j}
      BY <2>1, <2>2 DEF Stays
    <3> QED BY <1>2, <2>2, <3>1, <3>2
  <2>3. CASE p # PoolOf[j]
    <3>1. queue'[p] = queue[p]
      BY <2>3 DEF Typed
    <3>2. {i \in Jobs : stage'[i] = "queued" /\ PoolOf[i] = p} = ToSet(queue[p])
      BY <2>1, <2>3 DEF Stays
    <3> QED BY <2>1, <3>1, <3>2
  <2> QED BY <2>2, <2>3
<1> QED BY <1>3, <1>4

\* j leaves its queue and the pools.
LEMMA PlacedUnqueued ==
  ASSUME Typed, Placed, NEW j \in Jobs, stage[j] = "queued",
         stage'[j] \notin InSlot \cup {"queued"}, \A i \in Jobs \ {j} : Stays(i),
         queue' = [queue EXCEPT ![PoolOf[j]] = RemoveFirst(@, j)], UNCHANGED residents
  PROVE  Placed' /\ queue' \in [PoolNames -> Seq(Jobs)]
<1>1. /\ queue' \in [PoolNames -> Seq(Jobs)]
      /\ \A p \in PoolNames :
           /\ IsInjective(queue'[p])
           /\ ToSet(queue'[p]) = {i \in Jobs : stage'[i] = "queued" /\ PoolOf[i] = p}
  BY QueueWithout
<1>2. \A u \in Units : \A i \in ToSet(residents[u]) :
        stage'[i] \in InSlot /\ PoolOf[i] = PoolOfUnit(u)
  <2> SUFFICES ASSUME NEW u \in Units, NEW i \in ToSet(residents[u])
               PROVE  stage'[i] \in InSlot /\ PoolOf[i] = PoolOfUnit(u)
    OBVIOUS
  <2>1. i \in Jobs /\ stage[i] \in InSlot /\ PoolOf[i] = PoolOfUnit(u)
    BY ToSetOfSeq DEF Placed, Typed
  <2> QED BY <2>1 DEF Stays, InSlot
<1>3. \A i \in Jobs : stage'[i] \in InSlot => \E u \in Units : i \in ToSet(residents[u])
  BY DEF Stays, Placed
<1> QED BY <1>1, <1>2, <1>3 DEF Placed

\* Slots are counted.
LEMMA SlotsCounted ==
  ASSUME Typed, NEW u \in Units
  PROVE  SlotCapacity(u) \in Nat /\ Len(residents[u]) \in Nat
<1>1. PoolOfUnit(u) \in PoolNames
  BY UnitFacts
<1>2. Depth[PoolOfUnit(u)] \in Nat
  BY <1>1, UnitsAssumption DEF PoolNames
<1>3. residents[u] \in Seq(Jobs)
  BY DEF Typed
<1> QED BY <1>2, <1>3, LenProperties DEF SlotCapacity

\* j leaves the slot it is in and the pools.
LEMMA PlacedLeft ==
  ASSUME Typed, Placed, NEW j \in Jobs, stage[j] \in InSlot, NEW u \in Units,
         j \in ToSet(residents[u]),
         stage'[j] \notin InSlot \cup {"queued"}, \A i \in Jobs \ {j} : Stays(i),
         residents' = [residents EXCEPT ![u] = RemoveFirst(@, j)], UNCHANGED queue
  PROVE  Placed' /\ residents' \in [Units -> Seq(Jobs)]
<1>1. /\ RemoveFirst(residents[u], j) \in Seq(Jobs)
      /\ ToSet(RemoveFirst(residents[u], j)) = ToSet(residents[u]) \ {j}
      /\ IsInjective(RemoveFirst(residents[u], j))
  BY ResidentsWithout
<1>2. residents' \in [Units -> Seq(Jobs)]
  BY <1>1 DEF Typed
<1>3. ASSUME NEW v \in Units
      PROVE  /\ IsInjective(residents'[v]) /\ ToSet(residents'[v]) = ToSet(residents[v]) \ {j}
             /\ Len(residents'[v]) <= SlotCapacity(v)
  <2>1. CASE v = u
    <3>1. residents'[v] = RemoveFirst(residents[u], j)
      BY <2>1 DEF Typed
    <3>2. Cardinality(ToSet(residents[u]) \ {j}) = Cardinality(ToSet(residents[u])) - 1
      <4>1. IsFiniteSet(ToSet(residents[u]))
        BY ElementsFinite DEF Typed
      <4> QED BY <4>1, FS_RemoveElement
    <3>3. /\ Cardinality(ToSet(residents[u])) = Len(residents[u])
          /\ Cardinality(ToSet(residents[u]) \ {j}) = Len(RemoveFirst(residents[u], j))
      BY <1>1, ElementsCounted DEF Typed, Placed
    <3>4. Len(residents[u]) <= SlotCapacity(u)
      BY DEF Placed
    <3>5. SlotCapacity(u) \in Nat /\ Len(residents[u]) \in Nat
      BY SlotsCounted
    <3> HIDE DEF SlotCapacity
    <3>6. Len(residents'[v]) <= SlotCapacity(v)
      BY <2>1, <3>1, <3>2, <3>3, <3>4, <3>5
    <3> QED BY <1>1, <2>1, <3>1, <3>6
  <2>2. CASE v # u
    <3>1. residents'[v] = residents[v]
      BY <2>2 DEF Typed
    <3>2. j \notin ToSet(residents[v])
      BY <2>2 DEF Placed
    <3> QED BY <3>1, <3>2 DEF Placed
  <2> QED BY <2>1, <2>2
<1>4. \A p \in PoolNames :
        {i \in Jobs : stage'[i] = "queued" /\ PoolOf[i] = p}
          = {i \in Jobs : stage[i] = "queued" /\ PoolOf[i] = p}
  BY DEF Stays, InSlot
<1>5. \A v \in Units : \A i \in ToSet(residents'[v]) :
        stage'[i] \in InSlot /\ PoolOf[i] = PoolOfUnit(v)
  <2> SUFFICES ASSUME NEW v \in Units, NEW i \in ToSet(residents'[v])
               PROVE  stage'[i] \in InSlot /\ PoolOf[i] = PoolOfUnit(v)
    OBVIOUS
  <2>1. i \in Jobs \ {j} /\ stage[i] \in InSlot /\ PoolOf[i] = PoolOfUnit(v)
    BY <1>3, ToSetOfSeq DEF Placed, Typed
  <2> QED BY <2>1 DEF Stays
<1>6. \A i \in Jobs : stage'[i] \in InSlot => \E v \in Units : i \in ToSet(residents'[v])
  <2> SUFFICES ASSUME NEW i \in Jobs, stage'[i] \in InSlot
               PROVE  \E v \in Units : i \in ToSet(residents'[v])
    OBVIOUS
  <2>1. i # j /\ stage[i] \in InSlot
    BY DEF Stays
  <2>2. PICK v \in Units : i \in ToSet(residents[v])
    BY <2>1 DEF Placed
  <2> QED BY <1>3, <2>1, <2>2
<1>7. \A v, x \in Units : v # x => ToSet(residents'[v]) \cap ToSet(residents'[x]) = {}
  BY <1>3 DEF Placed
<1> QED BY <1>2, <1>3, <1>4, <1>5, <1>6, <1>7 DEF Placed

\* j goes from its queue into a slot of a unit of its pool that has room.
LEMMA PlacedStaged ==
  ASSUME Typed, Placed, NEW j \in Jobs, stage[j] = "queued", NEW u \in Units,
         PoolOfUnit(u) = PoolOf[j], Len(residents[u]) < SlotCapacity(u),
         stage'[j] \in InSlot, \A i \in Jobs \ {j} : Stays(i),
         queue' = [queue EXCEPT ![PoolOf[j]] = RemoveFirst(@, j)],
         residents' = [residents EXCEPT ![u] = Append(@, j)]
  PROVE  /\ Placed' /\ queue' \in [PoolNames -> Seq(Jobs)]
         /\ residents' \in [Units -> Seq(Jobs)]
         /\ ToSet(residents'[u]) = ToSet(residents[u]) \cup {j}
         /\ \A v \in Units \ {u} : residents'[v] = residents[v]
<1>1. /\ queue' \in [PoolNames -> Seq(Jobs)]
      /\ \A p \in PoolNames :
           /\ IsInjective(queue'[p])
           /\ ToSet(queue'[p]) = {i \in Jobs : stage'[i] = "queued" /\ PoolOf[i] = p}
  BY QueueWithout DEF InSlot
<1>2. \A v \in Units : j \notin ToSet(residents[v])
  BY DEF Placed, InSlot
<1>3. /\ Append(residents[u], j) \in Seq(Jobs)
      /\ ToSet(Append(residents[u], j)) = ToSet(residents[u]) \cup {j}
      /\ IsInjective(Append(residents[u], j))
      /\ Len(Append(residents[u], j)) = Len(residents[u]) + 1
  <2>1. residents[u] \in Seq(Jobs) /\ IsInjective(residents[u])
    BY DEF Typed, Placed
  <2> QED BY <1>2, <2>1, AppendElements, AppendProperties
<1>4. residents' \in [Units -> Seq(Jobs)] /\ residents'[u] = Append(residents[u], j)
      /\ \A v \in Units \ {u} : residents'[v] = residents[v]
  BY <1>3 DEF Typed
<1>5. Len(residents'[u]) <= SlotCapacity(u)
  <2>1. SlotCapacity(u) \in Nat /\ Len(residents[u]) \in Nat
    BY SlotsCounted
  <2> QED BY <1>3, <1>4, <2>1
<1>6. \A v \in Units : \A i \in ToSet(residents'[v]) :
        stage'[i] \in InSlot /\ PoolOf[i] = PoolOfUnit(v)
  <2> SUFFICES ASSUME NEW v \in Units, NEW i \in ToSet(residents'[v])
               PROVE  stage'[i] \in InSlot /\ PoolOf[i] = PoolOfUnit(v)
    OBVIOUS
  <2>1. CASE i = j
    BY <1>2, <1>4, <2>1
  <2>2. CASE i # j
    <3>1. i \in ToSet(residents[v])
      BY <1>3, <1>4, <2>2
    <3>2. i \in Jobs /\ stage[i] \in InSlot /\ PoolOf[i] = PoolOfUnit(v)
      BY <3>1, ToSetOfSeq DEF Placed, Typed
    <3> QED BY <2>2, <3>2 DEF Stays
  <2> QED BY <2>1, <2>2
<1>7. \A i \in Jobs : stage'[i] \in InSlot => \E v \in Units : i \in ToSet(residents'[v])
  <2> SUFFICES ASSUME NEW i \in Jobs, stage'[i] \in InSlot
               PROVE  \E v \in Units : i \in ToSet(residents'[v])
    OBVIOUS
  <2>1. CASE i = j
    BY <1>3, <1>4, <2>1
  <2>2. CASE i # j
    <3>1. PICK v \in Units : i \in ToSet(residents[v])
      BY <2>2 DEF Placed, Stays
    <3> QED BY <1>3, <1>4, <3>1
  <2> QED BY <2>1, <2>2
<1>8. \A v, x \in Units : v # x => ToSet(residents'[v]) \cap ToSet(residents'[x]) = {}
  BY <1>2, <1>3, <1>4 DEF Placed
<1> QED BY <1>1, <1>3, <1>4, <1>5, <1>6, <1>7, <1>8 DEF Placed

-----------------------------------------------------------------------------
(* Boundaries in a step *)

\* A boundary is only crossed off when its decode is over, a parked window
\* wakes with its last one, and what is absorbed stays so.
BoundariesMove ==
  /\ stage' \in [Jobs -> Stages] /\ owed' \in [Windows -> SUBSET Windows]
  /\ \A i \in Jobs : Moved(i)
  /\ \A w \in Windows :
       /\ owed'[w] \subseteq owed[w]
       /\ \A d \in owed[w] \ owed'[w] : stage[d] = "done"
       /\ stage[w] = "parked" /\ stage'[w] = "parked" => owed'[w] # {}
  /\ UNCHANGED <<mode, absorbed>>

LEMMA GatedStep ==
  ASSUME Typed, Gated, BoundariesMove
  PROVE  Gated'
<1>1. ASSUME NEW j \in Jobs
      PROVE  /\ stage'[j] \in {"parked", "concluding", "withdrawn"} => j \in Windows
             /\ stage'[j] \in {"stopped", "cancelled"} => j \in Strongs
  <2>1. Moved(j) /\ stage[j] \in Stages
    BY DEF BoundariesMove, Typed
  <2>2. /\ stage[j] \in {"parked", "concluding", "withdrawn"} => j \in Windows
        /\ stage[j] \in {"stopped", "cancelled"} => j \in Strongs
    BY DEF Gated
  <2> QED BY <2>1, <2>2 DEF Moved
<1>2. ASSUME NEW w \in Windows
      PROVE  /\ stage'[w] = "parked" => owed'[w] # {}
             /\ Begun(w)' => owed'[w] = {}
             /\ owed'[w] \subseteq Deps[w]
             /\ owed'[w] \cap absorbed' = {}
             /\ \A d \in Deps[w] \ owed'[w] : stage'[d] = "done" \/ d \in absorbed'
             /\ w \in absorbed' => stage'[w] \in {"idle", "withdrawn"}
  <2>1. Moved(w) /\ w \in Jobs /\ w \notin Strongs
    BY KindsOfJobs DEF BoundariesMove
  <2>2. /\ owed'[w] \subseteq owed[w] /\ absorbed' = absorbed
        /\ \A d \in owed[w] \ owed'[w] : stage[d] = "done"
        /\ stage[w] = "parked" /\ stage'[w] = "parked" => owed'[w] # {}
    BY DEF BoundariesMove
  <2>3. /\ stage[w] = "parked" => owed[w] # {}
        /\ Begun(w) => owed[w] = {}
        /\ owed[w] \subseteq Deps[w]
        /\ owed[w] \cap absorbed = {}
        /\ \A d \in Deps[w] \ owed[w] : stage[d] = "done" \/ d \in absorbed
        /\ w \in absorbed => stage[w] \in {"idle", "withdrawn"}
    BY DEF Gated
  <2>4. stage'[w] = "parked" => owed'[w] # {}
    BY <2>1, <2>2 DEF Moved
  <2>5. Begun(w)' => owed'[w] = {}
    BY <2>1, <2>2, <2>3 DEF Moved, Ready, Begun, InSlot
  <2>6. \A d \in Deps[w] \ owed'[w] : stage'[d] = "done" \/ d \in absorbed'
    <3> SUFFICES ASSUME NEW d \in Deps[w] \ owed'[w]
                 PROVE  stage'[d] = "done" \/ d \in absorbed'
      OBVIOUS
    <3>1. stage[d] = "done" \/ d \in absorbed
      BY <2>2, <2>3
    <3>2. d \in Jobs
      BY UnitsAssumption DEF Jobs
    <3>3. Moved(d)
      BY <3>2 DEF BoundariesMove
    <3> QED BY <2>2, <3>1, <3>3 DEF Moved, InSlot
  <2>7. w \in absorbed' => stage'[w] \in {"idle", "withdrawn"}
    BY <2>1, <2>2, <2>3 DEF Moved, InSlot
  <2> QED BY <2>2, <2>3, <2>4, <2>5, <2>6, <2>7
<1>3. absorbed' \subseteq Windows
  BY DEF Typed, BoundariesMove
<1> QED BY <1>1, <1>2, <1>3 DEF Gated

\* The stream begins in order: the window before one that begins is over.
LEMMA InLineStep ==
  ASSUME Typed, InLine, BoundariesMove
  PROVE  InLine'
<1> SUFFICES ASSUME mode = "double", NEW i \in DOMAIN Chain, NEW k \in DOMAIN Chain, i < k,
                    Begun(Chain[k])' \/ Chain[k] \in absorbed'
             PROVE  Begun(Chain[i])' \/ Chain[i] \in absorbed'
  BY DEF InLine, BoundariesMove
<1>1. /\ DOMAIN Chain = 1 .. Len(Chain) /\ Len(Chain) \in Nat
      /\ \A n \in DOMAIN Chain : Chain[n] \in Windows /\ Chain[n] \in Jobs
  BY UnitsAssumption, LenProperties, ElementOfSeq DEF Jobs
<1>2. absorbed' = absorbed /\ \A n \in DOMAIN Chain : Moved(Chain[n])
  BY <1>1 DEF BoundariesMove
<1>3. \A n \in DOMAIN Chain : Begun(Chain[n]) => Begun(Chain[n])'
  BY <1>1, <1>2, KindsOfJobs DEF Moved, Begun, InSlot
<1>4. CASE Begun(Chain[k]) \/ Chain[k] \in absorbed
  BY <1>2, <1>3, <1>4 DEF InLine
<1>5. CASE ~Begun(Chain[k]) /\ Chain[k] \notin absorbed
  <2>1. Begun(Chain[k])'
    BY <1>2, <1>5
  <2>2. Ready(Chain[k])
    BY <1>1, <1>2, <1>5, <2>1, KindsOfJobs DEF Moved, Begun, InSlot
  <2>3. k - 1 \in DOMAIN Chain /\ Deps[Chain[k]] = {Chain[k - 1]}
    <3>1. "double" \in Modes
      BY DEF Typed
    <3>2. k # 1 /\ k - 1 \in DOMAIN Chain
      BY <1>1
    <3> QED BY <3>1, <3>2, ChainAssumption
  <2>4. stage[Chain[k - 1]] = "done" \/ Chain[k - 1] \in absorbed
    BY <1>1, <2>2, <2>3 DEF Ready
  <2>5. Begun(Chain[k - 1]) \/ Chain[k - 1] \in absorbed
    BY <2>4 DEF Begun
  <2>6. CASE i = k - 1
    BY <1>2, <1>3, <2>3, <2>5, <2>6
  <2>7. CASE i < k - 1
    <3>1. Begun(Chain[i]) \/ Chain[i] \in absorbed
      BY <2>3, <2>5, <2>7 DEF InLine
    <3> QED BY <1>2, <1>3, <3>1
  <2> QED BY <1>1, <2>6, <2>7
<1> QED BY <1>4, <1>5

-----------------------------------------------------------------------------
(* Inputs in unit memory in a step *)

\* Only the input of j comes or goes.
LEMMA StoredStep ==
  ASSUME Typed, Stored, NEW j \in Jobs,
         residents' \in [Units -> Seq(Jobs)], stored' \in [Units -> SUBSET Jobs],
         \A u \in Units : \A i \in Jobs \ {j} :
           /\ i \in ToSet(residents'[u]) <=> i \in ToSet(residents[u])
           /\ i \in stored'[u] <=> i \in stored[u],
         \A i \in Jobs \ {j} :
           /\ stage'[i] = "moving" <=> stage[i] = "moving"
           /\ stage[i] = "concluding" => stage'[i] = "concluding",
         \A u \in Units :
           /\ j \in ToSet(residents'[u]) => (stage'[j] = "moving" <=> j \notin stored'[u])
           /\ j \in stored'[u] => /\ PoolOf[j] = PoolOfUnit(u)
                                  /\ j \in ToSet(residents'[u]) \/ stage'[j] = "concluding"
  PROVE  Stored'
<1> SUFFICES ASSUME NEW u \in Units
             PROVE  /\ \A i \in ToSet(residents'[u]) : stage'[i] = "moving" <=> i \notin stored'[u]
                    /\ \A i \in stored'[u] : PoolOf[i] = PoolOfUnit(u)
                         /\ (i \in ToSet(residents'[u]) \/ stage'[i] = "concluding")
  BY DEF Stored
<1>1. ASSUME NEW i \in ToSet(residents'[u])
      PROVE  stage'[i] = "moving" <=> i \notin stored'[u]
  <2>1. i \in Jobs
    BY ToSetOfSeq
  <2> QED BY <2>1 DEF Stored
<1>2. ASSUME NEW i \in stored'[u]
      PROVE  PoolOf[i] = PoolOfUnit(u) /\ (i \in ToSet(residents'[u]) \/ stage'[i] = "concluding")
  <2>1. i \in Jobs
    OBVIOUS
  <2> QED BY <2>1 DEF Stored
<1> QED BY <1>1, <1>2

\* No slot, no input: a job in no unit whose decode is not being concluded has
\* no input in unit memory.
LEMMA NoInput ==
  ASSUME Typed, Placed, Stored, NEW j \in Jobs, stage[j] \notin InSlot \cup {"concluding"}
  PROVE  \A u \in Units : j \notin ToSet(residents[u]) /\ j \notin stored[u]
BY DEF Placed, Stored

-----------------------------------------------------------------------------
(* The compute tables keep their shape *)

FreeShape(fr) == fr \in [PoolNames -> Seq(Units)]
                   /\ \A p \in PoolNames : ToSet(fr[p]) \subseteq UnitsOf(p)

ComputeShape ==
  /\ computing \in [Units -> Jobs \cup {None}]
  /\ FreeShape(freeUnits)
  /\ flights \in [Units -> Seq(Jobs)]
  /\ intakeBusy \in [Units -> Jobs \cup {None}]

LEMMA ShapeOfTyped == ASSUME Typed PROVE ComputeShape
BY DEF Typed, ComputeShape, FreeShape

LEMMA ClaimShape ==
  ASSUME NEW fr, FreeShape(fr), NEW u \in Units
  PROVE  FreeShape(ClaimUnit(fr, u))
<1> DEFINE p == PoolOfUnit(u)
<1>1. p \in PoolNames
  BY UnitFacts
<1>2. RemoveFirst(fr[p], u) \in Seq(Units) /\ ToSet(RemoveFirst(fr[p], u)) \subseteq ToSet(fr[p])
  BY <1>1, RemoveFirstWithin DEF FreeShape
<1>3. ClaimUnit(fr, u) = [fr EXCEPT ![p] = RemoveFirst(fr[p], u)]
  BY DEF ClaimUnit
<1> HIDE DEF p
<1> QED BY <1>1, <1>2, <1>3 DEF FreeShape

LEMMA FlightShape ==
  ASSUME Typed, NEW u \in Units, NEW j \in Jobs \cup {None}, NEW fl \in Seq(Jobs),
         NEW busy \in Jobs \cup {None}, StartFlight(u, j, fl, busy)
  PROVE  flights' \in [Units -> Seq(Jobs)] /\ intakeBusy' \in [Units -> Jobs \cup {None}]
<1>1. j # None => Append(fl, j) \in Seq(Jobs)
  BY AppendProperties
<1>2. flights \in [Units -> Seq(Jobs)] /\ intakeBusy \in [Units -> Jobs \cup {None}]
  BY DEF Typed
<1> QED BY <1>1, <1>2 DEF StartFlight

LEMMA OfferShape ==
  ASSUME Typed, NEW u \in Units, NEW st \in [Jobs -> Stages], NEW rs \in Seq(Jobs),
         NEW fl \in Seq(Jobs), NEW busy \in Jobs \cup {None}, NEW fr, FreeShape(fr),
         OfferCompute(u, st, rs, fl, busy, fr)
  PROVE  ComputeShape'
<1> DEFINE go == StartableLanded(st, rs)
           wait == Reservable(st, rs)
           next == IF go # {} THEN rs[Min(go)]
                   ELSE IF wait # {} THEN rs[Min(wait)] ELSE None
<1>1. /\ computing' = [computing EXCEPT ![u] = next]
      /\ freeUnits' = IF next = None THEN [fr EXCEPT ![PoolOfUnit(u)] = Append(@, u)] ELSE fr
      /\ StartFlight(u, IF go # {} THEN next ELSE None, fl, busy)
  BY DEF OfferCompute
<1>2. DOMAIN rs = 1 .. Len(rs) /\ Len(rs) \in Nat /\ \A i \in DOMAIN rs : rs[i] \in Jobs
  BY LenProperties, ElementOfSeq
<1>3. go \subseteq DOMAIN rs /\ wait \subseteq DOMAIN rs
  BY DEF StartableLanded, Reservable
<1>4. next \in Jobs \cup {None}
  <2>1. go # {} => Min(go) \in go
    BY <1>2, <1>3, LeastOfNat DEF Min
  <2>2. wait # {} => Min(wait) \in wait
    BY <1>2, <1>3, LeastOfNat DEF Min
  <2> HIDE DEF go, wait
  <2> QED BY <1>2, <1>3, <2>1, <2>2
<1> HIDE DEF next, go
<1>5. computing' \in [Units -> Jobs \cup {None}]
  BY <1>1, <1>4 DEF Typed
<1>6. flights' \in [Units -> Seq(Jobs)] /\ intakeBusy' \in [Units -> Jobs \cup {None}]
  BY <1>1, <1>4, FlightShape
<1>7. FreeShape(freeUnits')
  <2>1. PoolOfUnit(u) \in PoolNames /\ u \in UnitsOf(PoolOfUnit(u))
    BY UnitFacts
  <2>2. /\ Append(fr[PoolOfUnit(u)], u) \in Seq(Units)
        /\ ToSet(Append(fr[PoolOfUnit(u)], u)) = ToSet(fr[PoolOfUnit(u)]) \cup {u}
    BY <2>1, AppendElements DEF FreeShape
  <2> QED BY <1>1, <2>1, <2>2 DEF FreeShape
<1> QED BY <1>5, <1>6, <1>7 DEF ComputeShape, FreeShape

\* A decode that starts on u, whether or not its claim takes u off the list.
LEMMA StartShape ==
  ASSUME Typed, NEW u \in Units, NEW j \in Jobs,
         computing' = [computing EXCEPT ![u] = j],
         freeUnits' \in {freeUnits, ClaimUnit(freeUnits, u)},
         StartFlight(u, j, flights[u], intakeBusy[u])
  PROVE  ComputeShape'
<1>1. FreeShape(freeUnits')
  BY ShapeOfTyped, ClaimShape DEF ComputeShape
<1>2. flights' \in [Units -> Seq(Jobs)] /\ intakeBusy' \in [Units -> Jobs \cup {None}]
  <2>1. flights[u] \in Seq(Jobs) /\ intakeBusy[u] \in Jobs \cup {None}
    BY DEF Typed
  <2> QED BY <2>1, FlightShape
<1>3. computing' \in [Units -> Jobs \cup {None}]
  BY DEF Typed
<1> QED BY <1>1, <1>2, <1>3 DEF ComputeShape, FreeShape

LEMMA SameShape ==
  ASSUME Typed, UNCHANGED <<computing, freeUnits, flights, intakeBusy>>
  PROVE  ComputeShape'
BY ShapeOfTyped DEF ComputeShape, FreeShape

LEMMA ArriveShape ==
  ASSUME Typed, Placed, NEW j \in Jobs, stage[j] = "moving",
         NEW after, NEW nested, Arrive(j, after, nested)
  PROVE  ComputeShape'
<1> DEFINE u == UnitOf(j)
           mine == computing[u] = j
           vacant == computing[u] = None /\ IsFree(u)
           fr == IF vacant THEN ClaimUnit(freeUnits, u) ELSE freeUnits
           st == [stage EXCEPT ![j] = "parked"]
<1>1. u \in Units /\ residents[u] \in Seq(Jobs)
      /\ flights[u] \in Seq(Jobs) /\ intakeBusy[u] \in Jobs \cup {None}
  BY UnitOfStaged DEF InSlot, Typed
<1>2. fr \in {freeUnits, ClaimUnit(freeUnits, u)} /\ FreeShape(fr)
  BY <1>1, ShapeOfTyped, ClaimShape DEF ComputeShape
<1>3. CASE (mine \/ vacant) /\ Startable(j)
  <2>1. /\ computing' = [computing EXCEPT ![u] = j] /\ freeUnits' = fr
        /\ StartFlight(u, j, flights[u], intakeBusy[u])
    BY <1>3 DEF Arrive
  <2> HIDE DEF fr, u
  <2> QED BY <1>1, <1>2, <2>1, StartShape
<1>4. CASE (mine \/ vacant) /\ ~Startable(j)
  <2>1. OfferCompute(u, st, residents[u], flights[u], intakeBusy[u], fr)
    BY <1>4 DEF Arrive
  <2>2. st \in [Jobs -> Stages]
    BY DEF Typed, Stages
  <2> HIDE DEF fr, u, st
  <2> QED BY <1>1, <1>2, <2>1, <2>2, OfferShape
<1>5. CASE ~(mine \/ vacant)
  BY <1>5, SameShape DEF Arrive
<1> QED BY <1>3, <1>4, <1>5

LEMMA FreeUnitShape ==
  ASSUME Typed, Placed, NEW u \in Units, NEW j \in Jobs, NEW s \in Stages,
         NEW after, FreeUnit(u, j, s, after)
  PROVE  ComputeShape' /\ stalled' \in [Units -> Jobs \cup {None}]
<1> DEFINE fl == RemoveFirst(flights[u], j)
           rs == RemoveFirst(residents[u], j)
           st == [stage EXCEPT ![j] = s]
<1>1. stalled' \in [Units -> Jobs \cup {None}]
  BY DEF FreeUnit, Typed
<1>2. rs \in Seq(Jobs) /\ fl \in Seq(Jobs) /\ intakeBusy[u] \in Jobs \cup {None}
      /\ st \in [Jobs -> Stages] /\ FreeShape(freeUnits)
  BY ResidentsWithout, RemoveFirstWithin, ShapeOfTyped DEF Typed, ComputeShape
<1>3. CASE FreedClaim(u, j, fl) = None
  <2>1. OfferCompute(u, st, rs, fl, intakeBusy[u], freeUnits)
    BY <1>3 DEF FreeUnit
  <2> HIDE DEF fl, rs, st
  <2> QED BY <1>1, <1>2, <2>1, OfferShape
<1>4. CASE FreedClaim(u, j, fl) # None
  <2>1. /\ computing' = [computing EXCEPT ![u] = FreedClaim(u, j, fl)]
        /\ flights' = [flights EXCEPT ![u] = fl] /\ UNCHANGED <<freeUnits, intakeBusy>>
    BY <1>4 DEF FreeUnit
  <2>2. FreedClaim(u, j, fl) \in Jobs \cup {None}
    BY DEF FreedClaim, Typed
  <2> HIDE DEF fl
  <2>3. /\ computing' \in [Units -> Jobs \cup {None}] /\ flights' \in [Units -> Seq(Jobs)]
        /\ intakeBusy' \in [Units -> Jobs \cup {None}] /\ FreeShape(freeUnits')
    BY <1>2, <2>1, <2>2 DEF Typed
  <2> QED BY <1>1, <2>3 DEF ComputeShape, FreeShape
<1> QED BY <1>3, <1>4

LEMMA UnstageShape ==
  ASSUME Typed, Placed, NEW j \in Jobs, stage[j] \in InSlot,
         NEW s \in Stages, NEW after, Unstage(j, s, after)
  PROVE  ComputeShape'
<1> DEFINE u == UnitOf(j)
           rs == RemoveFirst(residents[u], j)
           st == [stage EXCEPT ![j] = s]
<1>1. u \in Units
  BY UnitOfStaged
<1>2. rs \in Seq(Jobs) /\ flights[u] \in Seq(Jobs) /\ intakeBusy[u] \in Jobs \cup {None}
      /\ st \in [Jobs -> Stages] /\ FreeShape(freeUnits)
  BY <1>1, ResidentsWithout, ShapeOfTyped DEF Typed, ComputeShape
<1>3. CASE computing[u] = j
  <2>1. OfferCompute(u, st, rs, flights[u], intakeBusy[u], freeUnits)
    BY <1>3 DEF Unstage
  <2> HIDE DEF u, rs, st
  <2> QED BY <1>1, <1>2, <2>1, OfferShape
<1>4. CASE computing[u] # j
  BY <1>4, SameShape DEF Unstage
<1> QED BY <1>3, <1>4

-----------------------------------------------------------------------------
(* Where work is placed *)

\* A placement takes a queued job of the pool, and a unit of the pool that the
\* job fits.
LEMMA Placement ==
  ASSUME Typed, Placed, NEW p \in PoolNames, Candidates(p) # {}
  PROVE  LET j == queue[p][Min(Candidates(p))]
             u == EligibleUnit(p, j)
         IN  /\ j \in Jobs /\ stage[j] = "queued" /\ PoolOf[j] = p
             /\ u \in Units /\ PoolOfUnit(u) = p /\ Fits(u, j)
<1> DEFINE n == Min(Candidates(p))
           j == queue[p][n]
           u == EligibleUnit(p, j)
<1>1. DOMAIN queue[p] = 1 .. Len(queue[p]) /\ Len(queue[p]) \in Nat /\ queue[p] \in Seq(Jobs)
  BY LenProperties DEF Typed
<1>2. Candidates(p) \subseteq {i \in DOMAIN queue[p] : Eligible(p, queue[p][i])}
  BY DEF Candidates
<1>3. n \in DOMAIN queue[p] /\ Eligible(p, j)
  <2>1. Candidates(p) \subseteq Nat
    BY <1>1, <1>2
  <2>2. n \in Candidates(p)
    BY <2>1, LeastOfNat DEF Min
  <2> QED BY <1>2, <2>2
<1> HIDE DEF n
<1>4. j \in ToSet(queue[p])
  BY <1>3 DEF ToSet
<1>5. j \in Jobs /\ stage[j] = "queued" /\ PoolOf[j] = p
  BY <1>4 DEF Placed
<1> HIDE DEF j
<1>6. u \in UnitsOf(p) /\ Fits(u, j)
  <2>1. CASE FreeFits(p, j) # <<>>
    <3>1. freeUnits[p] \in Seq(Units)
      BY DEF Typed
    <3>2. FreeFits(p, j) \in Seq(Units)
          /\ ToSet(FreeFits(p, j)) = ToSet(freeUnits[p]) \cap {v \in UnitsOf(p) : Fits(v, j)}
      BY <3>1, ThoseElements DEF FreeFits
    <3>3. Head(FreeFits(p, j)) \in ToSet(FreeFits(p, j))
      <4>1. ToSet(FreeFits(p, j)) = {Head(FreeFits(p, j))} \cup ToSet(Tail(FreeFits(p, j)))
        BY <2>1, <3>2, HeadAndTail
      <4> QED BY <4>1
    <3>4. u = Head(FreeFits(p, j))
      BY <2>1 DEF EligibleUnit
    <3> QED BY <3>2, <3>3, <3>4
  <2>2. CASE FreeFits(p, j) = <<>>
    <3>1. BusyFits(p, j) # {}
      BY <1>3, <2>2 DEF Eligible
    <3>2. {v[2] : v \in BusyFits(p, j)} \subseteq Nat
      <4>1. UnitCount[p] \in Nat
        BY UnitsAssumption DEF PoolNames
      <4> QED BY <4>1 DEF BusyFits, UnitsOf
    <3>3. PICK m \in {v[2] : v \in BusyFits(p, j)} : \A y \in {v[2] : v \in BusyFits(p, j)} : m <= y
      BY <3>1, <3>2, LeastOfNat
    <3>4. \E v \in BusyFits(p, j) : \A x \in BusyFits(p, j) : v[2] <= x[2]
      BY <3>3
    <3>5. u \in BusyFits(p, j)
      BY <2>2, <3>4 DEF EligibleUnit
    <3> QED BY <3>5 DEF BusyFits
  <2> QED BY <2>1, <2>2
<1>7. u \in Units /\ PoolOfUnit(u) = p
  BY <1>6, UnitFacts
<1> QED BY <1>5, <1>6, <1>7 DEF j, n

-----------------------------------------------------------------------------
(* What every step has in common *)

\* A step that leaves the boundaries alone.
LEMMA BoundariesStill ==
  ASSUME Typed, Gated, InLine, stage' \in [Jobs -> Stages], \A i \in Jobs : Moved(i),
         UNCHANGED <<mode, owed, absorbed>>
  PROVE  Gated' /\ InLine'
<1>1. BoundariesMove
  BY DEF BoundariesMove, Typed, Gated
<1> QED BY <1>1, GatedStep, InLineStep

LEMMA AgendaShape ==
  ASSUME Handling'
  PROVE  agenda' \in Seq(Tasks)
<1>1. PICK X \in Dispatches, S \in Seq(Tasks) :
        \/ agenda' = X \o S
        \/ \E j \in Instant \cap Jobs : agenda' = <<<<"land", j>>>> \o (X \o S)
  BY DEF Handling
<1>2. X \o S \in Seq(Tasks)
  BY DispatchTasks, ConcatProperties
<1>3. ASSUME NEW j \in Instant \cap Jobs, agenda' = <<<<"land", j>>>> \o (X \o S)
      PROVE  agenda' \in Seq(Tasks)
  <2>1. <<"land", j>> \in Tasks
    BY DEF Tasks
  <2> QED BY <1>2, <1>3, <2>1, InFront
<1> QED BY <1>1, <1>2, <1>3

\* The shape of the tables, put together.
LEMMA ShapeKept ==
  ASSUME Typed, ComputeShape', Handling', UNCHANGED mode,
         stage' \in [Jobs -> Stages], queue' \in [PoolNames -> Seq(Jobs)],
         residents' \in [Units -> Seq(Jobs)], stored' \in [Units -> SUBSET Jobs],
         holds' \subseteq Jobs, owed' \in [Windows -> SUBSET Windows],
         awaiting' \subseteq {w \in Windows : StrongOf[w] \in Strongs},
         absorbed' \subseteq Windows,
         stalled' \in [Units -> Jobs \cup {None}]
  PROVE  Typed'
BY AgendaShape DEF Typed, ComputeShape, FreeShape

-----------------------------------------------------------------------------
(* Placement keeps the invariant *)

LEMMA PlaceKeeps ==
  ASSUME UnitsInv, NEW p \in PoolNames, Place(p)
  PROVE  UnitsInv' /\ (HoldsExact => HoldsExact')
<1> DEFINE j == queue[p][Min(Candidates(p))]
           u == EligibleUnit(p, j)
<1> USE DEF UnitsInv
<1>1. /\ j \in Jobs /\ stage[j] = "queued" /\ PoolOf[j] = p
      /\ u \in Units /\ PoolOfUnit(u) = p /\ Fits(u, j)
  BY Placement DEF Place
<1>2. /\ queue' = [queue EXCEPT ![p] = RemoveFirst(@, j)]
      /\ stage' = [stage EXCEPT ![j] = "moving"]
      /\ residents' = [residents EXCEPT ![u] = Append(@, j)]
      /\ UNCHANGED <<stored, holds, owed, mode, awaiting, absorbed, flights, intakeBusy, stalled>>
      /\ agenda' = IF j \in Instant THEN <<<<"land", j>>>> \o agenda ELSE agenda
  BY DEF Place, pipeVars
<1>3. \/ UNCHANGED <<computing, freeUnits>>
      \/ computing' = [computing EXCEPT ![u] = j] /\ freeUnits' = ClaimUnit(freeUnits, u)
  BY DEF Place
<1>4. Doing("dispatch", p)
  BY DEF Place
<1> HIDE DEF j, u
<1>5. stage' \in [Jobs -> Stages] /\ stage'[j] = "moving" /\ \A i \in Jobs \ {j} : stage'[i] = stage[i]
  BY <1>1, <1>2 DEF Typed, Stages
<1>6. \A i \in Jobs : Moved(i)
  BY <1>1, <1>5 DEF Moved
<1>7. Gated' /\ InLine'
  BY <1>2, <1>5, <1>6, BoundariesStill
<1>8. /\ Placed' /\ queue' \in [PoolNames -> Seq(Jobs)]
      /\ residents' \in [Units -> Seq(Jobs)]
      /\ ToSet(residents'[u]) = ToSet(residents[u]) \cup {j}
      /\ \A v \in Units \ {u} : residents'[v] = residents[v]
  <2>1. \A i \in Jobs \ {j} : Stays(i)
    BY <1>5 DEF Stays
  <2>2. stage'[j] \in InSlot /\ Len(residents[u]) < SlotCapacity(u)
    BY <1>1, <1>5 DEF InSlot, Fits
  <2> QED BY <1>1, <1>2, <2>1, <2>2, PlacedStaged
<1>9. Stored'
  <2>1. \A v \in Units : j \notin ToSet(residents[v]) /\ j \notin stored[v]
    BY <1>1, NoInput DEF InSlot
  <2>2. stored' \in [Units -> SUBSET Jobs] /\ stored' = stored
    BY <1>2 DEF Typed
  <2> QED BY <1>1, <1>5, <1>8, <2>1, <2>2, StoredStep
<1>10. Handling'
  <2>1. PICK X \in Dispatches, S \in Seq(Tasks) : Rest(S) /\ agenda = X \o S
    BY <1>4, AtDispatch
  <2>2. Concluding' = Concluding
    BY <1>1, <1>5 DEF Concluding
  <2>3. Rest(S)'
    BY <1>2, <1>4, <1>6, <2>1, <2>2, RestStays DEF Doing
  <2>4. CASE j \notin Instant
    BY <1>2, <2>1, <2>3, <2>4, HandlingOf
  <2>5. CASE j \in Instant
    <3>1. agenda' = <<<<"land", j>>>> \o (X \o S)
      BY <1>2, <2>1, <2>5
    <3> QED BY <1>1, <1>5, <2>3, <2>5, <3>1 DEF Handling
  <2> QED BY <2>4, <2>5
<1>11. ComputeShape'
  <2>1. FreeShape(freeUnits')
    BY <1>1, <1>3, ShapeOfTyped, ClaimShape DEF ComputeShape
  <2>2. computing' \in [Units -> Jobs \cup {None}]
    BY <1>1, <1>3 DEF Typed
  <2> QED BY <1>2, <2>1, <2>2, ShapeOfTyped DEF ComputeShape, FreeShape
<1>12. Typed'
  BY <1>2, <1>5, <1>8, <1>10, <1>11, ShapeKept DEF Typed
<1>13. HoldsExact => HoldsExact'
  BY <1>1, <1>2, <1>5, KindsOfJobs DEF HoldsExact, Upstream
<1> QED BY <1>7, <1>8, <1>9, <1>10, <1>12, <1>13

LEMMA DispatchEndsKeeps ==
  ASSUME UnitsInv, NEW p \in PoolNames, DispatchEnds(p)
  PROVE  UnitsInv' /\ (HoldsExact => HoldsExact')
<1> USE DEF UnitsInv
<1>1. /\ UNCHANGED <<stage, queue, residents, computing, freeUnits, stored, holds, owed, mode,
                     awaiting, absorbed, flights, intakeBusy, stalled>>
      /\ agenda' = Tail(agenda) /\ Doing("dispatch", p)
  BY DEF DispatchEnds, pipeVars
<1>2. stage' \in [Jobs -> Stages] /\ \A i \in Jobs : Moved(i) /\ Stays(i)
  BY <1>1 DEF Moved, Stays, Typed
<1>3. Gated' /\ InLine' /\ Placed'
  BY <1>1, <1>2, BoundariesStill, PlacedSame
<1>4. Stored'
  BY <1>1 DEF Stored
<1>5. Handling'
  <2>1. PICK X \in Dispatches, S \in Seq(Tasks) :
          Rest(S) /\ X # <<>> /\ agenda = X \o S /\ Tail(agenda) = Tail(X) \o S
    BY <1>1, AtDispatch
  <2>2. Tail(X) \in Dispatches
    BY <2>1, DispatchTasks
  <2>3. Concluding' = Concluding
    BY <1>1 DEF Concluding
  <2>4. Rest(S)'
    BY <1>1, <1>2, <2>1, <2>3, RestStays DEF Doing
  <2> QED BY <1>1, <2>1, <2>2, <2>4, HandlingOf
<1>6. Typed'
  BY <1>1, <1>2, <1>5, SameShape, ShapeKept DEF Typed
<1> QED BY <1>1, <1>3, <1>4, <1>5, <1>6 DEF HoldsExact, Upstream

-----------------------------------------------------------------------------
(* Landing and admission keep the invariant *)

LEMMA ArrivedKeeps ==
  ASSUME UnitsInv, NEW j \in Jobs, stage[j] = "moving", NEW after, NEW nested,
         Arrived(j, after, nested), ComputeShape', Handling'
  PROVE  UnitsInv' /\ (HoldsExact => HoldsExact')
<1> USE DEF UnitsInv
<1>1. /\ stage' \in [Jobs -> Stages] /\ \A i \in Jobs : Moved(i)
      /\ stage'[j] \in {"landed", "parked", "serving"}
      /\ \A i \in Jobs \ {j} :
           \/ stage'[i] = stage[i]
           \/ stage[i] = "landed" /\ stage'[i] \in {"serving", "parked"}
      /\ stored' = [stored EXCEPT ![UnitOf(j)] = @ \cup {j}]
      /\ holds' = holds \ {j}
      /\ UNCHANGED <<mode, queue, residents, owed, awaiting, absorbed, stalled>>
  BY DEF Arrived
<1>2. \A i \in Jobs : Stays(i)
  BY <1>1 DEF Stays, InSlot
<1>3. Gated' /\ InLine' /\ Placed'
  BY <1>1, <1>2, BoundariesStill, PlacedSame
<1>4. /\ UnitOf(j) \in Units /\ j \in ToSet(residents[UnitOf(j)])
      /\ PoolOfUnit(UnitOf(j)) = PoolOf[j]
      /\ \A v \in Units : j \in ToSet(residents[v]) => v = UnitOf(j)
  BY UnitOfStaged DEF InSlot
<1>5. stored' \in [Units -> SUBSET Jobs] /\ residents' \in [Units -> Seq(Jobs)]
      /\ stored'[UnitOf(j)] = stored[UnitOf(j)] \cup {j}
      /\ \A v \in Units \ {UnitOf(j)} : stored'[v] = stored[v]
  BY <1>1, <1>4 DEF Typed
<1>6. \A v \in Units \ {UnitOf(j)} : j \notin stored[v]
  BY <1>4 DEF Stored
<1>7. Stored'
  <2>1. \A u \in Units : \A i \in Jobs \ {j} :
          /\ i \in ToSet(residents'[u]) <=> i \in ToSet(residents[u])
          /\ i \in stored'[u] <=> i \in stored[u]
    BY <1>1, <1>5
  <2>2. \A i \in Jobs \ {j} : /\ stage'[i] = "moving" <=> stage[i] = "moving"
                              /\ stage[i] = "concluding" => stage'[i] = "concluding"
    BY <1>1
  <2>3. \A u \in Units :
           /\ j \in ToSet(residents'[u]) => (stage'[j] = "moving" <=> j \notin stored'[u])
           /\ j \in stored'[u] => /\ PoolOf[j] = PoolOfUnit(u)
                                  /\ j \in ToSet(residents'[u]) \/ stage'[j] = "concluding"
    BY <1>1, <1>4, <1>5, <1>6
  <2> QED BY <1>5, <2>1, <2>2, <2>3, StoredStep
<1>8. Typed'
  BY <1>1, <1>5, ShapeKept DEF Typed
<1>9. HoldsExact => HoldsExact'
  BY <1>1, KindsOfJobs DEF HoldsExact, Upstream
<1> QED BY <1>3, <1>7, <1>8, <1>9

LEMMA LandKeeps ==
  ASSUME UnitsInv, NEW j \in Jobs, Land(j)
  PROVE  UnitsInv' /\ (HoldsExact => HoldsExact')
<1> USE DEF UnitsInv
<1>1. CASE Quiet /\ stage[j] = "moving" /\ Arrive(j, <<>>, TryDispatch)
  <2>1. Arrived(j, <<>>, TryDispatch) /\ ComputeShape'
    BY <1>1, ArriveMoves, ArriveShape
  <2>2. Handling'
    <3>1. Rest(<<>>)'
      <4>1. Concluding = {}
        BY <1>1, AtQuiet
      <4>2. Concluding' = {}
        BY <2>1, <4>1 DEF Arrived, Concluding
      <4> QED BY <4>2 DEF Rest
    <3>2. <<>> \in Seq(Tasks) /\ <<>> \in Dispatches /\ TryDispatch \in Dispatches
      BY DispatchesAre, EmptySeq
    <3>3. <<>> \o <<>> = <<>>
      BY <3>2, ConcatEmptySeq
    <3>4. agenda' = <<>> \o <<>> \/ agenda' = TryDispatch \o <<>>
      BY <2>1, <3>3 DEF Arrived
    <3> QED BY <3>1, <3>2, <3>4, HandlingOf
  <2> QED BY <1>1, <2>1, <2>2, ArrivedKeeps
<1>2. CASE Doing("land", j) /\ Arrive(j, Tail(agenda), <<>>)
  <2>1. /\ j \in Jobs /\ stage[j] = "moving"
        /\ \E X \in Dispatches, S \in Seq(Tasks) : Rest(S) /\ Tail(agenda) = X \o S
    BY <1>2, AtLanding
  <2>2. Arrived(j, Tail(agenda), <<>>) /\ ComputeShape'
    BY <1>2, <2>1, ArriveMoves, ArriveShape
  <2>3. Handling'
    <3>1. PICK X \in Dispatches, S \in Seq(Tasks) : Rest(S) /\ Tail(agenda) = X \o S
      BY <2>1
    <3>2. X \o S \in Seq(Tasks)
      BY DispatchTasks, ConcatProperties
    <3>3. agenda' = X \o S
      BY <2>2, <3>1, <3>2, ConcatEmptySeq DEF Arrived
    <3>4. Rest(S)'
      <4>1. Concluding' = Concluding
        BY <2>1, <2>2 DEF Arrived, Concluding
      <4> QED BY <1>2, <2>2, <3>1, <4>1, RestStays DEF Arrived, Doing
    <3> QED BY <3>3, <3>4, HandlingOf
  <2> QED BY <2>1, <2>2, <2>3, ArrivedKeeps
<1> QED BY <1>1, <1>2 DEF Land

LEMMA EnqueueKeeps ==
  ASSUME UnitsInv, NEW j \in Jobs, j \in Windows => Quiet /\ j \notin absorbed,
         NEW S \in Seq(Tasks), Enqueue(j, S), Concluding' = Concluding => Rest(S)'
  PROVE  UnitsInv' /\ (HoldsExact => HoldsExact')
<1> USE DEF UnitsInv
<1>1. /\ stage[j] = "idle" /\ stage' = [stage EXCEPT ![j] = "queued"]
      /\ queue' = [queue EXCEPT ![PoolOf[j]] = Append(@, j)]
      /\ holds' = IF j \in Externals THEN holds ELSE holds \cup {j}
      /\ agenda' = TryDispatch \o S
      /\ UNCHANGED <<residents, computing, freeUnits, stored, owed, mode, awaiting,
                     absorbed, flights, intakeBusy, stalled>>
  BY DEF Enqueue, pipeVars
<1>2. stage' \in [Jobs -> Stages] /\ stage'[j] = "queued" /\ \A i \in Jobs \ {j} : stage'[i] = stage[i]
  BY <1>1 DEF Typed, Stages
<1>3. \A i \in Jobs : Moved(i)
  BY <1>1, <1>2 DEF Moved
<1>4. Gated' /\ InLine'
  BY <1>1, <1>2, <1>3, BoundariesStill
<1>5. Placed' /\ queue' \in [PoolNames -> Seq(Jobs)]
  <2>1. \A i \in Jobs \ {j} : Stays(i)
    BY <1>2 DEF Stays
  <2> QED BY <1>1, <1>2, <2>1, PlacedEnters DEF InSlot
<1>6. Handling'
  <2>1. Concluding' = Concluding
    BY <1>1, <1>2 DEF Concluding
  <2>2. TryDispatch \in Dispatches
    BY DispatchesAre
  <2>3. \E X \in Dispatches : agenda' = X \o S
    BY <1>1, <2>2
  <2> QED BY <2>1, <2>3, HandlingOf
<1>7. Stored'
  <2>1. \A v \in Units : j \notin ToSet(residents[v]) /\ j \notin stored[v]
    BY <1>1, NoInput DEF InSlot
  <2> QED BY <1>1, <1>2, <2>1, StoredStep DEF Typed
<1>8. Typed'
  <2>1. holds' \subseteq Jobs
    BY <1>1 DEF Typed
  <2> QED BY <1>1, <1>2, <1>5, <1>6, <2>1, SameShape, ShapeKept DEF Typed
<1>9. HoldsExact => HoldsExact'
  BY <1>1, <1>2, KindsOfJobs DEF HoldsExact, Upstream, Jobs
<1> QED BY <1>4, <1>5, <1>6, <1>7, <1>8, <1>9

LEMMA SubmitKeeps ==
  ASSUME UnitsInv, NEW j \in Windows \cup Externals, Submit(j)
  PROVE  UnitsInv' /\ (HoldsExact => HoldsExact')
<1> USE DEF UnitsInv
<1>1. Quiet /\ (j \in Windows => j \notin absorbed) /\ Concluding = {} /\ j \in Jobs
  BY AtQuiet, KindsOfJobs DEF Submit
<1>2. CASE mode = "parallel" /\ j \in Windows /\ StrongOf[j] # None
  <2>1. Enqueue(j, <<<<"submit", StrongOf[j]>>>>)
    BY <1>2 DEF Submit
  <2>2. StrongOf[j] \in Strongs
    BY <1>2, UnitsAssumption
  <2>3. PICK s \in Strongs : s = StrongOf[j]
    BY <2>2
  <2>4. <<<<"submit", s>>>> \in Seq(Tasks)
    <3>1. <<"submit", s>> \in Tasks
      BY DEF Tasks
    <3> QED BY <3>1, TwoTasks
  <2>5. Concluding' = Concluding => Rest(<<<<"submit", s>>>>)'
    BY <1>1 DEF Rest
  <2>6. Enqueue(j, <<<<"submit", s>>>>)
    BY <2>1, <2>3
  <2> QED BY <1>1, <2>4, <2>5, <2>6, EnqueueKeeps
<1>3. CASE ~(mode = "parallel" /\ j \in Windows /\ StrongOf[j] # None)
  <2>1. Enqueue(j, <<>>)
    BY <1>3 DEF Submit
  <2>2. Concluding' = Concluding => Rest(<<>>)'
    BY <1>1 DEF Rest
  <2>3. <<>> \in Seq(Tasks)
    BY EmptySeq
  <2> QED BY <1>1, <2>1, <2>2, <2>3, EnqueueKeeps
<1> QED BY <1>2, <1>3

LEMMA SubmitDeferredKeeps ==
  ASSUME UnitsInv, NEW w \in Windows, SubmitDeferred(w)
  PROVE  UnitsInv' /\ (HoldsExact => HoldsExact')
<1> USE DEF UnitsInv
<1>1. Enqueue(StrongOf[w], <<>>) /\ Concluding = {}
  BY AtQuiet DEF SubmitDeferred
<1>2. Concluding' = Concluding => Rest(<<>>)'
  BY <1>1 DEF Rest
<1>3. <<>> \in Seq(Tasks) /\ StrongOf[w] \in Jobs /\ StrongOf[w] \notin Windows
  BY EmptySeq, KindsOfJobs DEF SubmitDeferred, Typed
<1> QED BY <1>1, <1>2, <1>3, EnqueueKeeps

\* Handing a strong decode over goes on with what concludes the weak one.
LEMMA SubmitNextKeeps ==
  ASSUME UnitsInv, NEW s \in Strongs, SubmitNext(s)
  PROVE  UnitsInv' /\ (HoldsExact => HoldsExact')
<1> USE DEF UnitsInv
<1>1. Doing("submit", s) /\ Enqueue(s, Tail(agenda)) /\ s \in Jobs /\ s \notin Windows
  BY KindsOfJobs DEF SubmitNext
<1>2. CASE Tail(agenda) = <<>> /\ Concluding = {}
  <2>1. Concluding' = Concluding => Rest(<<>>)'
    BY <1>2 DEF Rest
  <2>2. Enqueue(s, <<>>) /\ <<>> \in Seq(Tasks)
    BY <1>1, <1>2, EmptySeq
  <2> QED BY <1>1, <2>1, <2>2, EnqueueKeeps
<1>3. ASSUME NEW w \in Windows, Tail(agenda) = <<<<"finish", w>>>>, Concluding = {w}
      PROVE  UnitsInv' /\ (HoldsExact => HoldsExact')
  <2>1. <<<<"finish", w>>>> \in Seq(Tasks)
    <3>1. <<"finish", w>> \in Tasks
      BY DEF Tasks
    <3> QED BY <3>1, TwoTasks
  <2>2. Concluding' = Concluding => Rest(<<<<"finish", w>>>>)'
    BY <1>3 DEF Rest, Closing
  <2>3. Enqueue(s, <<<<"finish", w>>>>)
    BY <1>1, <1>3
  <2> QED BY <1>1, <2>1, <2>2, <2>3, EnqueueKeeps
<1> QED BY <1>1, <1>2, <1>3, AtStrong

-----------------------------------------------------------------------------
(* Completion keeps the invariant *)

\* While no hold is given, attempts upstream stay there and none joins them, the
\* holds stay exact: nothing comes back from a withdrawal.
LEMMA HoldsSame ==
  ASSUME HoldsExact, UNCHANGED <<mode, holds>>,
         \A i \in Windows \cup Strongs :
           /\ stage'[i] \in {"queued", "moving"} <=> stage[i] \in {"queued", "moving"}
           /\ stage[i] = "withdrawn" => stage'[i] = "withdrawn"
  PROVE  HoldsExact'
BY DEF HoldsExact, Upstream

\* A job that leaves its unit with its input, or goes on to be concluded.
LEMMA LeftKeeps ==
  ASSUME UnitsInv, NEW j \in Jobs, stage[j] \in InSlot, NEW s \in Stages \ InSlot,
         s # "queued", NEW after \in Seq(Tasks), Left(j, UnitOf(j), s, after), Moved(j),
         ComputeShape', stalled' \in [Units -> Jobs \cup {None}],
         \/ s = "concluding" /\ UNCHANGED stored
         \/ stored' = [v \in Units |-> stored[v] \ {j}],
         UNCHANGED <<mode, queue, owed, awaiting, absorbed>>,
         holds' \in {holds, holds \ {j}}, Rest(after)'
  PROVE  UnitsInv'
         /\ (HoldsExact /\ (stage[j] = "moving" => holds' = holds \ {j}) => HoldsExact')
<1> USE DEF UnitsInv
<1> DEFINE u == UnitOf(j)
<1>1. /\ u \in Units /\ j \in ToSet(residents[u]) /\ PoolOfUnit(u) = PoolOf[j]
      /\ \A v \in Units : j \in ToSet(residents[v]) => v = u
  BY UnitOfStaged
<1> HIDE DEF u
<1>2. /\ stage' \in [Jobs -> Stages] /\ stage'[j] = s
      /\ \A i \in Jobs \ {j} :
           /\ Moved(i)
           /\ \/ stage'[i] = stage[i]
              \/ stage[i] = "landed" /\ stage'[i] \in {"serving", "parked"}
      /\ residents' = [residents EXCEPT ![u] = RemoveFirst(@, j)]
      /\ \E X \in Dispatches : agenda' = X \o after
  BY DEF Left, Yields, u
<1>3. Gated' /\ InLine'
  BY <1>2, BoundariesStill
<1>4. Placed' /\ residents' \in [Units -> Seq(Jobs)]
  <2>1. \A i \in Jobs \ {j} : Stays(i)
    BY <1>2 DEF Stays, InSlot
  <2> QED BY <1>1, <1>2, <2>1, PlacedLeft
<1>5. Handling'
  BY <1>2, HandlingOf
<1>6. stored' \in [Units -> SUBSET Jobs]
  BY DEF Typed
<1>7. Stored'
  <2>1. /\ ToSet(residents'[u]) = ToSet(residents[u]) \ {j}
        /\ \A v \in Units \ {u} : residents'[v] = residents[v]
    BY <1>1, <1>2, ResidentsWithout DEF Typed
  <2>2. \A v \in Units : j \notin ToSet(residents'[v])
    BY <1>1, <2>1
  <2>3. \A v \in Units : \A i \in Jobs \ {j} :
          /\ i \in ToSet(residents'[v]) <=> i \in ToSet(residents[v])
          /\ i \in stored'[v] <=> i \in stored[v]
    BY <2>1
  <2>4. \A i \in Jobs \ {j} : /\ stage'[i] = "moving" <=> stage[i] = "moving"
                              /\ stage[i] = "concluding" => stage'[i] = "concluding"
    BY <1>2
  <2>5. \A v \in Units : j \in stored'[v] => PoolOf[j] = PoolOfUnit(v) /\ stage'[j] = "concluding"
    BY <1>2 DEF Stored
  <2> QED BY <1>4, <1>6, <2>2, <2>3, <2>4, <2>5, StoredStep
<1>8. Typed'
  BY <1>2, <1>4, <1>5, <1>6, ShapeKept DEF Typed
<1>9. HoldsExact /\ (stage[j] = "moving" => holds' = holds \ {j}) => HoldsExact'
  <2>1. \A i \in Jobs \ {j} : stage'[i] \in {"queued", "moving"} <=> stage[i] \in {"queued", "moving"}
    BY <1>2
  <2>2. stage[j] # "queued" /\ stage'[j] \notin {"queued", "moving"}
    BY <1>2 DEF InSlot
  <2>3. stage[j] # "withdrawn" /\ \A i \in Jobs \ {j} : stage[i] = "withdrawn" => stage'[i] = "withdrawn"
    BY <1>2 DEF InSlot
  <2>4. ASSUME HoldsExact, stage[j] = "moving" => holds' = holds \ {j}
        PROVE  Upstream' = Upstream \ {j} /\ holds' = holds \ {j}
    BY <2>1, <2>2, <2>3, <2>4, KindsOfJobs DEF HoldsExact, Upstream
  <2> QED BY <2>3, <2>4, KindsOfJobs DEF HoldsExact
<1> QED BY <1>3, <1>4, <1>5, <1>7, <1>8, <1>9

LEMMA DecodeDoneKeeps ==
  ASSUME UnitsInv, NEW j \in Jobs, DecodeDone(j)
  PROVE  UnitsInv' /\ (HoldsExact => HoldsExact')
<1> USE DEF UnitsInv
<1>1. /\ stage[j] = "serving" /\ stage[j] \in InSlot /\ Concluding = {}
      /\ UNCHANGED <<queue, holds, owed, mode, awaiting, absorbed>>
  BY AtQuiet DEF DecodeDone, InSlot
<1>2. UnitOf(j) \in Units
  BY <1>1, UnitOfStaged
<1>3. CASE j \in Windows
  <2>1. FreeUnit(UnitOf(j), j, "concluding", <<<<"conclude", j>>>>) /\ UNCHANGED stored
    BY <1>3 DEF DecodeDone
  <2>2. <<<<"conclude", j>>>> \in Seq(Tasks)
    <3>1. <<"conclude", j>> \in Tasks
      BY <1>3 DEF Tasks
    <3> QED BY <3>1, TwoTasks
  <2>3. PICK after \in Seq(Tasks) : after = <<<<"conclude", j>>>>
    BY <2>2
  <2>4. "concluding" \in Stages \ InSlot
    BY DEF Stages, InSlot
  <2>5. Left(j, UnitOf(j), "concluding", after)
        /\ ComputeShape' /\ stalled' \in [Units -> Jobs \cup {None}]
    BY <1>1, <1>2, <2>1, <2>3, <2>4, FreeUnitLeaves, FreeUnitShape DEF InSlot
  <2>6. stage'[j] = "concluding" /\ Moved(j)
    BY <1>1, <1>3, <2>5 DEF Left, Yields, Moved
  <2>7. Concluding' = {j}
    BY <1>1, <2>5, <2>6 DEF Left, Yields, Concluding
  <2>8. Rest(after)'
    BY <1>3, <2>3, <2>7 DEF Rest, Closing
  <2> QED BY <1>1, <2>1, <2>4, <2>5, <2>6, <2>8, LeftKeeps
<1>4. CASE j \notin Windows
  <2>1. FreeUnit(UnitOf(j), j, "done", TryDispatch) /\ stored' = [v \in Units |-> stored[v] \ {j}]
    BY <1>4 DEF DecodeDone, TakeInput
  <2>2. "done" \in Stages \ InSlot
    BY DEF Stages, InSlot
  <2>3. TryDispatch \in Seq(Tasks) /\ TryDispatch \in Dispatches /\ <<>> \in Seq(Tasks)
    BY DispatchesAre, DispatchTasks, EmptySeq
  <2>4. Left(j, UnitOf(j), "done", TryDispatch)
        /\ ComputeShape' /\ stalled' \in [Units -> Jobs \cup {None}]
    BY <1>1, <1>2, <2>1, <2>2, <2>3, FreeUnitLeaves, FreeUnitShape DEF InSlot
  <2>5. Left(j, UnitOf(j), "done", <<>>)
    <3>1. PICK X \in Dispatches : agenda' = X \o TryDispatch
      BY <2>4 DEF Left
    <3>2. X \o TryDispatch \in Dispatches /\ (X \o TryDispatch) \o <<>> = X \o TryDispatch
      <4>1. X \o TryDispatch \in Dispatches
        BY <2>3, DispatchesJoin
      <4> QED BY <4>1, DispatchTasks, ConcatEmptySeq
    <3>3. \E Y \in Dispatches : agenda' = Y \o <<>>
      BY <3>1, <3>2
    <3> QED BY <2>4, <3>3 DEF Left
  <2>6. stage'[j] = "done" /\ Moved(j)
    BY <1>1, <1>4, <2>4 DEF Left, Yields, Moved
  <2>7. Concluding' = {}
    BY <1>1, <2>4, <2>6 DEF Left, Yields, Concluding
  <2>8. Rest(<<>>)'
    BY <2>7 DEF Rest
  <2> QED BY <1>1, <2>1, <2>2, <2>3, <2>4, <2>5, <2>6, <2>8, LeftKeeps
<1> QED BY <1>3, <1>4

\* A step in which only a job outside the queues and slots moves, and stays
\* outside; the input of one that is concluded goes with it.
LEMMA OutsideKeeps ==
  ASSUME UnitsInv, NEW j \in Jobs, stage[j] \notin InSlot \cup {"queued"},
         NEW s \in Stages \ (InSlot \cup {"queued"}), stage' = [stage EXCEPT ![j] = s], Moved(j),
         UNCHANGED <<mode, queue, residents, computing, freeUnits, holds, owed, absorbed,
                     flights, intakeBusy, stalled>>,
         awaiting' \subseteq {w \in Windows : StrongOf[w] \in Strongs}, Handling',
         \/ UNCHANGED stored /\ (stage[j] = "concluding" => s = "concluding")
         \/ stored' = [v \in Units |-> stored[v] \ {j}]
  PROVE  UnitsInv' /\ (HoldsExact => HoldsExact')
<1> USE DEF UnitsInv
<1>1. stage' \in [Jobs -> Stages] /\ stage'[j] = s /\ \A i \in Jobs \ {j} : stage'[i] = stage[i]
  BY DEF Typed
<1>2. \A i \in Jobs : Moved(i) /\ Stays(i)
  BY <1>1 DEF Moved, Stays
<1>3. Gated' /\ InLine' /\ Placed'
  BY <1>1, <1>2, BoundariesStill, PlacedSame
<1>4. stored' \in [Units -> SUBSET Jobs] /\ residents' \in [Units -> Seq(Jobs)]
  BY DEF Typed
<1>5. Stored'
  <2>1. \A v \in Units : j \notin ToSet(residents[v])
    BY DEF Placed
  <2>2. \A v \in Units : j \in stored'[v] => PoolOf[j] = PoolOfUnit(v) /\ stage'[j] = "concluding"
    BY <1>1, <2>1 DEF Stored
  <2>3. \A v \in Units : \A i \in Jobs \ {j} :
          /\ i \in ToSet(residents'[v]) <=> i \in ToSet(residents[v])
          /\ i \in stored'[v] <=> i \in stored[v]
    OBVIOUS
  <2> QED BY <1>1, <1>4, <2>1, <2>2, <2>3, StoredStep
<1>6. Typed'
  BY <1>1, <1>4, SameShape, ShapeKept DEF Typed
<1>7. HoldsExact => HoldsExact'
  <2>1. \A i \in Jobs : stage[i] = "withdrawn" => stage'[i] = "withdrawn"
    BY <1>2 DEF Moved, InSlot
  <2> QED BY <1>1, <2>1, KindsOfJobs, HoldsSame DEF InSlot
<1> QED BY <1>3, <1>5, <1>6, <1>7

LEMMA LateDecodeDoneKeeps ==
  ASSUME UnitsInv, NEW j \in Jobs, LateDecodeDone(j)
  PROVE  UnitsInv' /\ (HoldsExact => HoldsExact')
<1> USE DEF UnitsInv
<1>1. /\ stage[j] = "stopped" /\ stage' = [stage EXCEPT ![j] = "cancelled"]
      /\ agenda' = TryDispatch /\ Concluding = {}
      /\ UNCHANGED <<queue, residents, computing, freeUnits, stored, holds, owed, mode,
                     awaiting, absorbed, flights, intakeBusy, stalled>>
  BY AtQuiet DEF LateDecodeDone, pipeVars
<1>2. "cancelled" \in Stages \ (InSlot \cup {"queued"}) /\ stage[j] \notin InSlot \cup {"queued"}
  BY <1>1 DEF Stages, InSlot
<1>3. stage'[j] = "cancelled" /\ \A i \in Jobs \ {j} : stage'[i] = stage[i]
  BY <1>1 DEF Typed
<1>4. Moved(j)
  BY <1>1, <1>3 DEF Moved
<1>5. Handling'
  <2>1. Rest(<<>>)'
    BY <1>1, <1>3 DEF Rest, Concluding
  <2>2. TryDispatch \in Dispatches /\ TryDispatch \o <<>> = TryDispatch /\ <<>> \in Seq(Tasks)
    BY DispatchesAre, DispatchTasks, ConcatEmptySeq, EmptySeq
  <2> QED BY <1>1, <2>1, <2>2, HandlingOf
<1> QED BY <1>1, <1>2, <1>4, <1>5, OutsideKeeps DEF Typed

LEMMA FinishKeeps ==
  ASSUME UnitsInv, NEW j \in Windows, Finish(j)
  PROVE  UnitsInv' /\ (HoldsExact => HoldsExact')
<1> USE DEF UnitsInv
<1>1. /\ stage' = [stage EXCEPT ![j] = "done"] /\ stored' = [v \in Units |-> stored[v] \ {j}]
      /\ agenda' = TryDispatch \o Tail(agenda) /\ Doing("finish", j)
      /\ UNCHANGED <<queue, residents, computing, freeUnits, holds, owed, mode,
                     awaiting, absorbed, flights, intakeBusy, stalled>>
  BY DEF Finish, TakeInput, pipeVars
<1>2. Tail(agenda) = <<>> /\ Concluding = {j} /\ j \in Jobs
  BY <1>1, AtConclusion, KindsOfJobs
<1>3. stage[j] = "concluding"
  BY <1>2 DEF Concluding
<1>4. "done" \in Stages \ (InSlot \cup {"queued"}) /\ stage[j] \notin InSlot \cup {"queued"}
  BY <1>3 DEF Stages, InSlot
<1>5. stage'[j] = "done" /\ \A i \in Jobs \ {j} : stage'[i] = stage[i]
  BY <1>1, <1>2 DEF Typed
<1>6. Moved(j)
  BY <1>3, <1>5 DEF Moved
<1>7. Handling'
  <2>1. Rest(<<>>)'
    BY <1>2, <1>5 DEF Rest, Concluding
  <2>2. TryDispatch \in Dispatches /\ <<>> \in Seq(Tasks)
    BY DispatchesAre, EmptySeq
  <2> QED BY <1>1, <1>2, <2>1, <2>2, HandlingOf
<1> QED BY <1>1, <1>2, <1>4, <1>6, <1>7, OutsideKeeps DEF Typed

LEMMA ConcludeKeeps ==
  ASSUME UnitsInv, NEW j \in Windows, Conclude(j)
  PROVE  UnitsInv' /\ (HoldsExact => HoldsExact')
<1> USE DEF UnitsInv
<1>1. /\ Doing("conclude", j)
      /\ UNCHANGED <<mode, stage, queue, residents, computing, freeUnits, stored, holds, owed,
                     absorbed, flights, intakeBusy, stalled>>
  BY DEF Conclude, pipeVars
<1>2. Tail(agenda) = <<>> /\ Concluding = {j} /\ j \in Jobs
  BY <1>1, AtConclusion, KindsOfJobs
<1>3. stage[j] = "concluding"
  BY <1>2 DEF Concluding
<1>4. <<<<"finish", j>>>> \o Tail(agenda) = <<<<"finish", j>>>> /\ <<"finish", j>> \in Tasks
  <2>1. <<"finish", j>> \in Tasks
    BY DEF Tasks
  <2> QED BY <1>2, <2>1, TwoTasks, ConcatEmptySeq
<1>5. StrongOf[j] # None => StrongOf[j] \in Strongs
  BY UnitsAssumption
<1>6. \/ agenda' = <<<<"finish", j>>>>
      \/ StrongOf[j] # None /\ agenda' = <<<<"cancel", StrongOf[j]>>>> \o <<<<"finish", j>>>>
      \/ StrongOf[j] # None /\ agenda' = <<<<"submit", StrongOf[j]>>>> \o <<<<"finish", j>>>>
  BY <1>4 DEF Conclude
<1>7. awaiting' \subseteq {w \in Windows : StrongOf[w] \in Strongs}
  BY <1>5 DEF Conclude, Typed
<1>8. \E S \in Seq(Tasks) : agenda' = S /\ Closing(j, S)'
  <2>1. CASE agenda' = <<<<"finish", j>>>>
    BY <1>4, <2>1, TwoTasks DEF Closing
  <2>2. ASSUME NEW s \in Strongs, NEW t \in {"submit", "cancel"},
               agenda' = <<<<t, s>>>> \o <<<<"finish", j>>>>
        PROVE  \E S \in Seq(Tasks) : agenda' = S /\ Closing(j, S)'
    <3>1. <<t, s>> \in Tasks
      BY DEF Tasks
    <3>2. agenda' = <<<<t, s>>, <<"finish", j>>>> /\ <<<<t, s>>, <<"finish", j>>>> \in Seq(Tasks)
      BY <1>4, <2>2, <3>1, TwoTasks
    <3>3. PICK S \in Seq(Tasks) : S = <<<<t, s>>, <<"finish", j>>>>
      BY <3>2
    <3>4. Closing(j, S)'
      BY <3>3 DEF Closing
    <3> QED BY <3>2, <3>3, <3>4
  <2> QED BY <1>5, <1>6, <2>1, <2>2
<1>9. Handling'
  <2>1. PICK S \in Seq(Tasks) : agenda' = S /\ Closing(j, S)'
    BY <1>8
  <2>2. Rest(S)'
    BY <1>1, <1>2, <2>1 DEF Rest, Concluding
  <2>3. <<>> \in Dispatches /\ agenda' = <<>> \o S
    BY <2>1, EmptyBefore
  <2> QED BY <2>2, <2>3, HandlingOf
<1>10. stage' = [stage EXCEPT ![j] = "concluding"] /\ Moved(j)
  BY <1>1, <1>2, <1>3 DEF Typed, Moved
<1>11. "concluding" \in Stages \ (InSlot \cup {"queued"})
  BY DEF Stages, InSlot
<1> QED BY <1>1, <1>2, <1>3, <1>7, <1>9, <1>10, <1>11, OutsideKeeps

-----------------------------------------------------------------------------
(* Boundaries and intervals keep the invariant *)

\* A step in which inputs that have landed wake, park or begin, and nothing
\* else moves.
LEMMA WakingKeeps ==
  ASSUME UnitsInv, BoundariesMove,
         \A i \in Jobs : \/ stage'[i] = stage[i]
                         \/ /\ stage[i] \in {"landed", "parked", "serving"}
                            /\ stage'[i] \in {"landed", "parked", "serving"},
         UNCHANGED <<queue, residents, stored, holds, awaiting>>,
         ComputeShape', stalled' \in [Units -> Jobs \cup {None}], Handling'
  PROVE  UnitsInv' /\ (HoldsExact => HoldsExact')
<1> USE DEF UnitsInv
<1>1. Gated' /\ InLine'
  BY GatedStep, InLineStep
<1>2. \A i \in Jobs : Stays(i)
  BY DEF Stays, InSlot
<1>3. Placed'
  BY <1>2, PlacedSame
<1>4. Stored'
  <2>1. \A i \in Jobs : /\ stage'[i] = "moving" <=> stage[i] = "moving"
                        /\ stage[i] = "concluding" => stage'[i] = "concluding"
    OBVIOUS
  <2>2. \A u \in Units : \A i \in ToSet(residents[u]) \cup stored[u] : i \in Jobs
    BY ToSetOfSeq DEF Typed
  <2> QED BY <2>1, <2>2 DEF Stored
<1>5. Typed'
  BY ShapeKept DEF Typed, BoundariesMove
<1>6. HoldsExact => HoldsExact'
  <2>1. \A i \in Jobs : /\ stage'[i] \in {"queued", "moving"} <=> stage[i] \in {"queued", "moving"}
                        /\ stage[i] = "withdrawn" => stage'[i] = "withdrawn"
    OBVIOUS
  <2> QED BY <2>1, KindsOfJobs, HoldsSame DEF BoundariesMove
<1> QED BY <1>1, <1>3, <1>4, <1>5, <1>6

\* Between events a handler that only dispatches leaves nothing else to do.
LEMMA DispatchOnly ==
  ASSUME Typed, Handling, Quiet, Concluding' = Concluding,
         NEW X \in Dispatches, agenda' = X
  PROVE  Handling'
<1>1. Rest(<<>>)'
  BY AtQuiet DEF Rest
<1>2. X \o <<>> = X /\ <<>> \in Seq(Tasks)
  BY DispatchTasks, ConcatEmptySeq, EmptySeq
<1> QED BY <1>1, <1>2, HandlingOf

LEMMA BoundaryArrivesKeeps ==
  ASSUME UnitsInv, NEW w \in Windows, NEW d \in Windows, BoundaryArrives(w, d)
  PROVE  UnitsInv' /\ (HoldsExact => HoldsExact')
<1> USE DEF UnitsInv
<1> DEFINE u == UnitOf(w)
           vacant == computing[u] = None /\ IsFree(u)
<1>1. /\ Quiet /\ d \in owed[w] /\ stage[d] = "done" /\ w \in Jobs
      /\ owed' = [owed EXCEPT ![w] = @ \ {d}]
      /\ agenda' = TryDispatch
      /\ UNCHANGED <<queue, residents, stored, holds, mode, awaiting, absorbed, stalled>>
  BY KindsOfJobs DEF BoundaryArrives, Shipped
<1>2. \/ /\ stage[w] = "parked" /\ owed'[w] = {}
         /\ stage' = [stage EXCEPT ![w] = "serving"]
         /\ computing' = [computing EXCEPT ![u] = w]
         /\ freeUnits' = IF vacant THEN ClaimUnit(freeUnits, u) ELSE freeUnits
         /\ StartFlight(u, w, flights[u], intakeBusy[u])
      \/ /\ stage[w] = "parked" /\ owed'[w] = {}
         /\ stage' = [stage EXCEPT ![w] = "landed"]
         /\ UNCHANGED <<computing, freeUnits, flights, intakeBusy>>
      \/ /\ ~(stage[w] = "parked" /\ owed'[w] = {})
         /\ UNCHANGED <<stage, computing, freeUnits, flights, intakeBusy>>
  BY DEF BoundaryArrives
<1>3. owed'[w] = owed[w] \ {d} /\ owed' \in [Windows -> SUBSET Windows]
      /\ \A v \in Windows \ {w} : owed'[v] = owed[v]
  BY <1>1 DEF Typed
<1>4. stage[w] = "parked" => u \in Units
  BY <1>1, UnitOfStaged DEF InSlot
<1> HIDE DEF u
<1>5. owed'[w] = {} => Ready(w)
  <2> SUFFICES ASSUME owed'[w] = {} PROVE \A x \in Deps[w] : stage[x] = "done" \/ x \in absorbed
    BY DEF Ready
  <2>1. owed[w] = {d}
    BY <1>1, <1>3
  <2> QED BY <1>1, <2>1 DEF Gated
<1>6. /\ \A i \in Jobs \ {w} : stage'[i] = stage[i]
      /\ \/ stage'[w] = stage[w] /\ ~(stage[w] = "parked" /\ owed'[w] = {})
         \/ stage[w] = "parked" /\ stage'[w] \in {"serving", "landed"} /\ Ready(w)
      /\ stage' \in [Jobs -> Stages]
  BY <1>1, <1>2, <1>5 DEF Typed, Stages
<1>7. \A i \in Jobs : Moved(i)
  BY <1>6 DEF Moved
<1>8. BoundariesMove
  <2>1. \A v \in Windows :
          /\ owed'[v] \subseteq owed[v]
          /\ \A x \in owed[v] \ owed'[v] : stage[x] = "done"
    BY <1>1, <1>3
  <2>2. \A v \in Windows : stage[v] = "parked" /\ stage'[v] = "parked" => owed'[v] # {}
    BY <1>3, <1>6 DEF Gated
  <2> QED BY <1>1, <1>3, <1>6, <1>7, <2>1, <2>2 DEF BoundariesMove
<1>9. ComputeShape'
  <2>1. ASSUME stage[w] = "parked", computing' = [computing EXCEPT ![u] = w],
               freeUnits' = IF vacant THEN ClaimUnit(freeUnits, u) ELSE freeUnits,
               StartFlight(u, w, flights[u], intakeBusy[u])
        PROVE  ComputeShape'
    <3>1. freeUnits' \in {freeUnits, ClaimUnit(freeUnits, u)}
      BY <2>1
    <3> QED BY <1>1, <1>4, <2>1, <3>1, StartShape
  <2> QED BY <1>2, <2>1, SameShape
<1>10. Handling'
  <2>1. Concluding' = Concluding
    BY <1>6 DEF Concluding
  <2> QED BY <1>1, <2>1, DispatchesAre, DispatchOnly
<1>11. \A i \in Jobs : \/ stage'[i] = stage[i]
                       \/ /\ stage[i] \in {"landed", "parked", "serving"}
                          /\ stage'[i] \in {"landed", "parked", "serving"}
  BY <1>6
<1> QED BY <1>1, <1>8, <1>9, <1>10, <1>11, WakingKeeps DEF Typed

LEMMA InitiationCompleteKeeps ==
  ASSUME UnitsInv, NEW u \in Units, InitiationComplete(u)
  PROVE  UnitsInv' /\ (HoldsExact => HoldsExact')
<1> USE DEF UnitsInv
<1>1. /\ Quiet /\ intakeBusy[u] \in Jobs
      /\ UNCHANGED <<queue, residents, stored, holds, owed, mode, awaiting, absorbed>>
  BY DEF InitiationComplete, Typed
<1>2. /\ Settled(stage, residents[u]) /\ ComputeShape' /\ Handling'
      /\ stalled' \in [Units -> Jobs \cup {None}]
  <2>1. CASE computing[u] = intakeBusy[u] /\ ~PipelineFull(u, intakeBusy[u])
    <3>1. /\ OfferCompute(u, stage, residents[u], flights[u], None, freeUnits)
          /\ agenda' = AfterParks(stage, residents[u]) \o TryDispatch
          /\ UNCHANGED stalled
      BY <2>1 DEF InitiationComplete
    <3>2. /\ stage \in [Jobs -> Stages] /\ residents[u] \in Seq(Jobs)
          /\ flights[u] \in Seq(Jobs) /\ FreeShape(freeUnits)
      BY ShapeOfTyped DEF Typed, ComputeShape
    <3>3. Settled(stage, residents[u]) /\ ComputeShape'
      BY <3>1, <3>2, OfferSettles, OfferShape
    <3>4. Handling'
      <4>1. Concluding' = Concluding
        BY <3>3 DEF Settled, Concluding
      <4>2. AfterParks(stage, residents[u]) \o TryDispatch \in Dispatches
        <5>1. AfterParks(stage, residents[u]) \in Dispatches /\ TryDispatch \in Dispatches
          BY DispatchesAre
        <5> QED BY <5>1, EmptySeq, DispatchesJoin
      <4> QED BY <1>1, <3>1, <4>1, <4>2, DispatchOnly
    <3> QED BY <3>1, <3>3, <3>4 DEF Typed
  <2>2. CASE ~(computing[u] = intakeBusy[u] /\ ~PipelineFull(u, intakeBusy[u]))
    <3>1. /\ intakeBusy' = [intakeBusy EXCEPT ![u] = None]
          /\ stalled' = IF computing[u] = intakeBusy[u]
                        THEN [stalled EXCEPT ![u] = intakeBusy[u]] ELSE stalled
          /\ UNCHANGED <<stage, computing, freeUnits, flights, agenda>>
      BY <2>2 DEF InitiationComplete
    <3>2. Settled(stage, residents[u])
      BY <3>1 DEF Settled, Typed
    <3>3. intakeBusy' \in [Units -> Jobs \cup {None}] /\ stalled' \in [Units -> Jobs \cup {None}]
      BY <1>1, <3>1 DEF Typed
    <3>4. ComputeShape'
      BY <3>1, <3>3, ShapeOfTyped DEF ComputeShape, FreeShape
    <3>5. Handling'
      <4>1. Concluding' = Concluding /\ agenda' = <<>>
        BY <1>1, <3>1 DEF Concluding, Quiet
      <4> QED BY <1>1, <4>1, DispatchesAre, DispatchOnly
    <3> QED BY <3>2, <3>3, <3>4, <3>5
  <2> QED BY <2>1, <2>2
<1>3. \A i \in Jobs :
        /\ Moved(i)
        /\ \/ stage'[i] = stage[i]
           \/ stage[i] = "landed" /\ stage'[i] \in {"serving", "parked"}
  BY <1>1, <1>2, SettledMoves DEF Settled
<1>4. BoundariesMove
  BY <1>1, <1>2, <1>3 DEF BoundariesMove, Settled, Typed, Gated
<1>5. \A i \in Jobs : \/ stage'[i] = stage[i]
                      \/ /\ stage[i] \in {"landed", "parked", "serving"}
                         /\ stage'[i] \in {"landed", "parked", "serving"}
  BY <1>3
<1> QED BY <1>1, <1>2, <1>4, <1>5, WakingKeeps

-----------------------------------------------------------------------------
(* Taking jobs back keeps the invariant *)

\* The job's hold goes with it, unless a double-window run withdraws a window.
HoldReturned(j, s) ==
  \/ holds' = holds \ {j}
  \/ mode = "double" /\ s = "withdrawn" /\ j \in Windows

\* A job that leaves its queue for good.
LEMMA UnqueuedKeeps ==
  ASSUME UnitsInv, NEW j \in Jobs, stage[j] = "queued",
         NEW s \in {"withdrawn", "cancelled"}, stage' = [stage EXCEPT ![j] = s], Moved(j),
         queue' = [queue EXCEPT ![PoolOf[j]] = RemoveFirst(@, j)],
         holds' \in {holds, holds \ {j}},
         NEW after \in Seq(Tasks), agenda' = TryDispatch \o after, Rest(after)',
         UNCHANGED <<mode, residents, computing, freeUnits, stored, owed, awaiting, absorbed,
                     flights, intakeBusy, stalled>>
  PROVE  UnitsInv' /\ (HoldsExact /\ HoldReturned(j, s) => HoldsExact')
<1> USE DEF UnitsInv
<1>1. stage' \in [Jobs -> Stages] /\ stage'[j] = s /\ \A i \in Jobs \ {j} : stage'[i] = stage[i]
  BY DEF Typed, Stages
<1>2. \A i \in Jobs : Moved(i)
  BY <1>1 DEF Moved
<1>3. Gated' /\ InLine'
  BY <1>1, <1>2, BoundariesStill
<1>4. Placed' /\ queue' \in [PoolNames -> Seq(Jobs)]
  <2>1. \A i \in Jobs \ {j} : Stays(i)
    BY <1>1 DEF Stays
  <2>2. stage'[j] \notin InSlot \cup {"queued"}
    BY <1>1 DEF InSlot
  <2> QED BY <2>1, <2>2, PlacedUnqueued
<1>5. Stored'
  <2>1. \A v \in Units : j \notin ToSet(residents[v]) /\ j \notin stored[v]
    BY NoInput DEF InSlot
  <2> QED BY <1>1, <2>1, StoredStep DEF Typed
<1>6. Handling'
  BY DispatchesAre, HandlingOf
<1>7. Typed'
  BY <1>1, <1>4, <1>6, SameShape, ShapeKept DEF Typed
<1>8. HoldsExact /\ HoldReturned(j, s) => HoldsExact'
  BY <1>1, KindsOfJobs DEF HoldsExact, Upstream, HoldReturned
<1> QED BY <1>3, <1>4, <1>5, <1>6, <1>7, <1>8

\* The dispatches of a job that leaves its unit join those of the offer.
LEMMA LeftJoin ==
  ASSUME NEW j, NEW u, NEW s, NEW after \in Seq(Tasks), Left(j, u, s, TryDispatch \o after)
  PROVE  Left(j, u, s, after)
<1>1. PICK X \in Dispatches : agenda' = X \o (TryDispatch \o after)
  BY DEF Left
<1>2. TryDispatch \in Dispatches
  BY DispatchesAre
<1>3. X \o TryDispatch \in Dispatches /\ (X \o TryDispatch) \o after = X \o (TryDispatch \o after)
  BY <1>2, DispatchesJoin
<1>4. \E Y \in Dispatches : agenda' = Y \o after
  BY <1>1, <1>3
<1> QED BY <1>4 DEF Left

\* The windows to be withdrawn, from the first one.
LEMMA WithdrawalsFrom ==
  ASSUME NEW v \in Windows, NEW W \in Withdrawals
  PROVE  ToSet(<<<<"withdraw", v>>>> \o W) = {<<"withdraw", v>>} \cup ToSet(W)
<1>1. PICK e, A : e = <<"withdraw", v>> /\ A = {"withdraw"} \X Windows
  OBVIOUS
<1>2. e \in A
  BY <1>1
<1>3. W \in Seq(A)
  BY <1>1 DEF Withdrawals
<1>4. ToSet(<<e>> \o W) = {e} \cup ToSet(W)
  BY <1>2, <1>3, InFront
<1> QED BY <1>1, <1>4

\* One withdrawal less.
LEMMA CoversLess ==
  ASSUME NEW w \in Windows, NEW k \in DOMAIN Chain, NEW v \in Windows, NEW W \in Withdrawals,
         Covers(w, k, <<<<"withdraw", v>>>> \o W)', stage'[v] = "withdrawn"
  PROVE  Covers(w, k, W)'
<1>1. ToSet(<<<<"withdraw", v>>>> \o W) = {<<"withdraw", v>>} \cup ToSet(W)
  BY WithdrawalsFrom
<1>2. \A i : <<"withdraw", Chain[i]>> \in ToSet(<<<<"withdraw", v>>>> \o W) =>
        stage'[Chain[i]] = "withdrawn" \/ <<"withdraw", Chain[i]>> \in ToSet(W)
  <2> SUFFICES ASSUME NEW i, <<"withdraw", Chain[i]>> = <<"withdraw", v>>
               PROVE  stage'[Chain[i]] = "withdrawn"
    BY <1>1
  <2>1. Chain[i] = v
    BY SameTask
  <2> QED BY <2>1
<1>3. PICK n \in DOMAIN Chain :
        /\ Chain[n] = w /\ n < k
        /\ \A i \in n + 1 .. k :
             \/ stage'[Chain[i]] \in {"idle", "withdrawn"}
             \/ <<"withdraw", Chain[i]>> \in ToSet(<<<<"withdraw", v>>>> \o W)
  BY DEF Covers
<1>4. \A i \in n + 1 .. k :
        stage'[Chain[i]] \in {"idle", "withdrawn"} \/ <<"withdraw", Chain[i]>> \in ToSet(W)
  BY <1>2, <1>3
<1>5. mode' = "double" /\ (k < Len(Chain) => stage'[Chain[k + 1]] = "idle")
  BY DEF Covers
<1> QED BY <1>3, <1>4, <1>5 DEF Covers

LEMMA WithdrawKeeps ==
  ASSUME UnitsInv, NEW v \in Windows, Withdraw(v)
  PROVE  UnitsInv' /\ (HoldsExact => HoldsExact')
<1> USE DEF UnitsInv
<1>1. Doing("withdraw", v) /\ v \in Jobs /\ ~Quiet
  BY KindsOfJobs DEF Withdraw, Doing
<1>2. PICK w \in Windows, k \in DOMAIN Chain, W \in Withdrawals :
        /\ Tail(agenda) = W \o Absorbing(w, k)
        /\ Concluding = {w} /\ Covers(w, k, <<<<"withdraw", v>>>> \o W)
  BY <1>1, AtWithdrawal
<1>3. PICK S \in Seq(Tasks) : S = W \o Absorbing(w, k)
  <2>1. Absorbing(w, k) \in Seq(Tasks)
    <3>1. <<"absorb", k>> \in Tasks /\ <<"finish", w>> \in Tasks
      BY DEF Tasks
    <3> QED BY <3>1, TwoTasks DEF Absorbing
  <2>2. W \in Seq(Tasks)
    <3>1. {"withdraw"} \X Windows \subseteq Tasks
      BY DEF Tasks
    <3> QED BY <3>1, ElementOfSeq, SeqDef DEF Withdrawals
  <2> QED BY <2>1, <2>2, ConcatProperties
<1>4. mode = "double" /\ "double" \in Modes
  BY <1>2 DEF Covers, Typed
<1>5. ASSUME \A i \in Jobs : Moved(i), mode' = mode, Concluding' = Concluding,
             stage'[v] = "withdrawn"
      PROVE  Rest(S)'
  <2>1. Covers(w, k, <<<<"withdraw", v>>>> \o W)'
    <3>1. PICK V : V = <<<<"withdraw", v>>>> \o W
      OBVIOUS
    <3>2. Covers(w, k, V)
      BY <1>2, <3>1
    <3>3. Covers(w, k, V)'
      BY <1>1, <1>5, <3>2, CoversStays
    <3> QED BY <3>1, <3>3
  <2>2. Covers(w, k, W)'
    BY <1>5, <2>1, CoversLess
  <2>3. Closing(w, S)'
    BY <1>3, <2>2 DEF Closing, Withdrawals
  <2> QED BY <1>2, <1>5, <2>3 DEF Rest
<1>6. CASE stage[v] = "queued"
  <2>1. /\ stage' = [stage EXCEPT ![v] = "withdrawn"]
        /\ queue' = [queue EXCEPT ![PoolOf[v]] = RemoveFirst(@, v)]
        /\ agenda' = TryDispatch \o S
        /\ UNCHANGED <<residents, computing, freeUnits, stored, holds, owed, mode, awaiting,
                       absorbed, flights, intakeBusy, stalled>>
    BY <1>2, <1>3, <1>6 DEF Withdraw, pipeVars
  <2>2. stage'[v] = "withdrawn" /\ \A i \in Jobs \ {v} : stage'[i] = stage[i]
    BY <1>1, <2>1 DEF Typed
  <2>3. \A i \in Jobs : Moved(i)
    BY <1>6, <2>2 DEF Moved
  <2>4. Concluding' = Concluding
    BY <1>6, <2>2 DEF Concluding
  <2>5. Rest(S)'
    BY <1>5, <2>1, <2>2, <2>3, <2>4
  <2>6. HoldReturned(v, "withdrawn")
    BY <1>4 DEF HoldReturned
  <2> QED BY <1>1, <1>6, <2>1, <2>3, <2>5, <2>6, UnqueuedKeeps
<1>7. CASE stage[v] \in {"moving", "landed", "parked"}
  <2>1. Unstage(v, "withdrawn", S)
    BY <1>2, <1>3, <1>7 DEF Withdraw
  <2>2. stage[v] \in InSlot /\ stage[v] # "serving" /\ "withdrawn" \in Stages \ {"landed"}
    BY <1>7 DEF InSlot, Stages
  <2>3. /\ stored' = [u \in Units |-> stored[u] \ {v}] /\ holds' = holds \ {v}
        /\ UNCHANGED <<queue, owed, mode, awaiting, absorbed, stalled>>
        /\ ComputeShape' /\ Left(v, UnitOf(v), "withdrawn", S)
    BY <1>1, <2>1, <2>2, UnstageLeaves, UnstageShape
  <2>4. stage'[v] = "withdrawn" /\ Moved(v) /\ \A i \in Jobs : Moved(i)
    BY <1>7, <2>2, <2>3 DEF Left, Yields, Moved
  <2>5. Concluding' = Concluding
    BY <1>7, <2>3, <2>4 DEF Left, Yields, Concluding
  <2>6. Rest(S)'
    BY <1>5, <2>3, <2>4, <2>5
  <2>7. "withdrawn" \in Stages \ InSlot /\ stalled' \in [Units -> Jobs \cup {None}]
    BY <2>3 DEF InSlot, Stages, Typed
  <2> QED BY <1>1, <2>2, <2>3, <2>4, <2>6, <2>7, LeftKeeps
<1> QED BY <1>6, <1>7 DEF Withdraw

LEMMA CancelKeeps ==
  ASSUME UnitsInv, NEW s \in Strongs, Cancel(s)
  PROVE  UnitsInv' /\ (HoldsExact => HoldsExact')
<1> USE DEF UnitsInv
<1>1. /\ Doing("cancel", s) /\ s \in Jobs /\ s \notin Windows /\ ~Quiet
      /\ UNCHANGED <<owed, mode, awaiting, absorbed>>
  BY KindsOfJobs DEF Cancel, Doing
<1>2. PICK w \in Windows : Tail(agenda) = <<<<"finish", w>>>> /\ Concluding = {w}
  BY <1>1, AtStrong
<1>3. PICK S \in Seq(Tasks) : S = <<<<"finish", w>>>>
  <2>1. <<"finish", w>> \in Tasks
    BY DEF Tasks
  <2> QED BY <2>1, TwoTasks
<1>4. ASSUME Concluding' = Concluding PROVE Rest(S)'
  BY <1>2, <1>3, <1>4 DEF Rest, Closing
<1>5. CASE stage[s] = "done" /\ agenda' = Tail(agenda)
           /\ UNCHANGED <<stage, queue, residents, computing, freeUnits, stored, holds, stalled,
                          flights, intakeBusy>>
  <2>1. stage' = [stage EXCEPT ![s] = "done"] /\ Moved(s)
    BY <1>1, <1>5 DEF Typed, Moved
  <2>2. "done" \in Stages \ (InSlot \cup {"queued"}) /\ stage[s] \notin InSlot \cup {"queued"}
    BY <1>5 DEF Stages, InSlot
  <2>3. Handling'
    <3>1. Rest(S)'
      BY <1>4, <1>5 DEF Concluding
    <3>2. agenda' = <<>> \o S /\ <<>> \in Dispatches
      BY <1>2, <1>3, <1>5, EmptyBefore
    <3> QED BY <3>1, <3>2, HandlingOf
  <2> QED BY <1>1, <1>5, <2>1, <2>2, <2>3, OutsideKeeps DEF Typed
<1>6. CASE stage[s] = "queued"
  <2>1. /\ stage' = [stage EXCEPT ![s] = "cancelled"]
        /\ queue' = [queue EXCEPT ![PoolOf[s]] = RemoveFirst(@, s)]
        /\ holds' = holds \ {s} /\ agenda' = TryDispatch \o S
        /\ UNCHANGED <<residents, computing, freeUnits, stored, flights, intakeBusy, stalled>>
    BY <1>2, <1>3, <1>6 DEF Cancel, LetGo, pipeVars
  <2>2. stage'[s] = "cancelled" /\ \A i \in Jobs \ {s} : stage'[i] = stage[i]
    BY <1>1, <2>1 DEF Typed
  <2>3. Moved(s)
    BY <1>6, <2>2 DEF Moved
  <2>4. Rest(S)'
    BY <1>4, <1>6, <2>2 DEF Concluding
  <2>5. HoldReturned(s, "cancelled")
    BY <2>1 DEF HoldReturned
  <2> QED BY <1>1, <1>6, <2>1, <2>3, <2>4, <2>5, UnqueuedKeeps
<1>7. CASE stage[s] \in {"moving", "landed"}
  <2>1. Unstage(s, "cancelled", S)
    BY <1>2, <1>3, <1>7 DEF Cancel
  <2>2. stage[s] \in InSlot /\ "cancelled" \in Stages \ {"landed"} /\ "cancelled" \in Stages \ InSlot
    BY <1>7 DEF InSlot, Stages
  <2>3. /\ stored' = [u \in Units |-> stored[u] \ {s}] /\ holds' = holds \ {s}
        /\ UNCHANGED <<queue, stalled>>
        /\ ComputeShape' /\ Left(s, UnitOf(s), "cancelled", S)
    BY <1>1, <2>1, <2>2, UnstageLeaves, UnstageShape
  <2>4. stage'[s] = "cancelled" /\ Moved(s)
    BY <2>2, <2>3 DEF Left, Yields, Moved
  <2>5. Rest(S)'
    BY <1>4, <1>7, <2>3, <2>4 DEF Left, Yields, Concluding
  <2>6. stalled' \in [Units -> Jobs \cup {None}]
    BY <2>3 DEF Typed
  <2> QED BY <1>1, <2>2, <2>3, <2>4, <2>5, <2>6, LeftKeeps
<1>8. CASE stage[s] = "serving"
  <2>1. /\ stored' = [u \in Units |-> stored[u] \ {s}] /\ UNCHANGED <<queue, holds>>
        /\ FreeUnit(UnitOf(s), s, "stopped", TryDispatch \o S)
    BY <1>2, <1>3, <1>8 DEF Cancel, TakeInput
  <2>2. stage[s] \in InSlot /\ "stopped" \in Stages \ {"landed"} /\ "stopped" \in Stages \ InSlot
    BY <1>8 DEF InSlot, Stages
  <2>3. UnitOf(s) \in Units
    BY <1>1, <2>2, UnitOfStaged
  <2>4. TryDispatch \o S \in Seq(Tasks)
    BY DispatchesAre, DispatchTasks, ConcatProperties
  <2>5. /\ Left(s, UnitOf(s), "stopped", TryDispatch \o S)
        /\ ComputeShape' /\ stalled' \in [Units -> Jobs \cup {None}]
    BY <1>1, <2>1, <2>2, <2>3, <2>4, FreeUnitLeaves, FreeUnitShape
  <2>6. Left(s, UnitOf(s), "stopped", S)
    BY <2>5, LeftJoin
  <2>7. stage'[s] = "stopped" /\ Moved(s)
    BY <2>2, <2>6 DEF Left, Yields, Moved
  <2>8. Rest(S)'
    BY <1>4, <1>8, <2>6, <2>7 DEF Left, Yields, Concluding
  <2> QED BY <1>1, <1>8, <2>1, <2>2, <2>5, <2>6, <2>7, <2>8, LeftKeeps
<1> QED BY <1>5, <1>6, <1>7, <1>8 DEF Cancel

\* The agenda of a deferral covers the stream up to k.
LEMMA DeferKeeps ==
  ASSUME UnitsInv, NEW j \in Windows, NEW k \in DOMAIN Chain, Defer(j, k)
  PROVE  UnitsInv' /\ (HoldsExact => HoldsExact')
<1> USE DEF UnitsInv
<1> DEFINE n == CHOOSE i \in DOMAIN Chain : Chain[i] = j
           part == SubSeq(Chain, n + 1, k)
           early == Those(part, {w \in Windows : stage[w] # "idle"})
           V == [i \in DOMAIN early |-> <<"withdraw", early[i]>>]
<1>1. /\ Doing("conclude", j) /\ mode = "double"
      /\ StrongOf[j] # None /\ j \in ToSet(Chain) /\ k \in n + 1 .. Len(Chain)
      /\ k < Len(Chain) => stage[Chain[k + 1]] = "idle"
      /\ awaiting' = awaiting \cup {j}
      /\ UNCHANGED <<mode, stage, queue, residents, computing, freeUnits, stored, holds, owed,
                     absorbed, flights, intakeBusy, stalled>>
  BY DEF Defer, pipeVars
<1>2. agenda' = V \o <<<<"absorb", k>>, <<"finish", j>>>> \o Tail(agenda)
  BY DEF Defer
<1>3. Tail(agenda) = <<>> /\ Concluding = {j} /\ j \in Jobs
  BY <1>1, AtConclusion, KindsOfJobs
<1>4. n \in DOMAIN Chain /\ Chain[n] = j
  BY <1>1 DEF ToSet
<1>5. /\ DOMAIN Chain = 1 .. Len(Chain) /\ Len(Chain) \in Nat /\ Chain \in Seq(Windows)
      /\ \A i \in DOMAIN Chain : Chain[i] \in Windows
  BY UnitsAssumption, LenProperties, ElementOfSeq
<1> HIDE DEF n
<1>6. /\ part \in Seq(Windows) /\ Len(part) = k - n
      /\ \A i \in 1 .. k - n : part[i] = Chain[n + i]
  <2>1. n + 1 \in 1 .. Len(Chain) + 1 /\ k \in n .. Len(Chain) /\ n \in Nat /\ k \in Nat
    BY <1>1, <1>4, <1>5
  <2> QED BY <1>5, <2>1, SubSeqProperties
<1> HIDE DEF part
<1>7. \A i \in n + 1 .. k : Chain[i] \in ToSet(part)
  <2> SUFFICES ASSUME NEW i \in n + 1 .. k PROVE Chain[i] \in ToSet(part)
    OBVIOUS
  <2>1. i - n \in 1 .. k - n /\ n + (i - n) = i
    BY <1>1, <1>4, <1>5
  <2>2. part[i - n] = Chain[i] /\ i - n \in DOMAIN part
    BY <1>6, <2>1, LenProperties
  <2> QED BY <2>2 DEF ToSet
<1>8. early \in Seq(Windows) /\ ToSet(early) = ToSet(part) \cap {w \in Windows : stage[w] # "idle"}
  BY <1>6, ThoseElements
<1> HIDE DEF early
<1>9. V \in Withdrawals /\ \A w \in ToSet(early) : <<"withdraw", w>> \in ToSet(V)
  <2>1. DOMAIN early = 1 .. Len(early) /\ Len(early) \in Nat
        /\ \A i \in 1 .. Len(early) : early[i] \in Windows
    BY <1>8, LenProperties, ElementOfSeq
  <2>2. V \in [1 .. Len(early) -> {"withdraw"} \X Windows]
    BY <2>1
  <2>3. V \in Withdrawals
    BY <2>1, <2>2, SeqDef DEF Withdrawals
  <2>4. ASSUME NEW w \in ToSet(early) PROVE <<"withdraw", w>> \in ToSet(V)
    <3>1. PICK i \in DOMAIN early : early[i] = w
      BY DEF ToSet
    <3>2. i \in DOMAIN V /\ V[i] = <<"withdraw", w>>
      BY <3>1
    <3> QED BY <3>2 DEF ToSet
  <2> QED BY <2>3, <2>4
<1> HIDE DEF V
<1>10. Covers(j, k, V)
  <2>1. n < k
    BY <1>1, <1>4, <1>5
  <2>2. \A i \in n + 1 .. k :
          stage[Chain[i]] \in {"idle", "withdrawn"} \/ <<"withdraw", Chain[i]>> \in ToSet(V)
    <3> SUFFICES ASSUME NEW i \in n + 1 .. k, stage[Chain[i]] # "idle"
                 PROVE  <<"withdraw", Chain[i]>> \in ToSet(V)
      OBVIOUS
    <3>1. Chain[i] \in Windows
      BY <1>1, <1>4, <1>5
    <3> QED BY <1>7, <1>8, <1>9, <3>1
  <2> QED BY <1>1, <1>4, <2>1, <2>2 DEF Covers
<1>11. PICK W \in Withdrawals : W = V
  BY <1>9
<1>12. Covers(j, k, W)'
  <2>1. Covers(j, k, W)
    BY <1>10, <1>11
  <2>2. \A i \in Jobs : Moved(i)
    BY <1>1 DEF Moved
  <2>3. ~Quiet
    BY <1>1 DEF Doing
  <2> QED BY <1>1, <2>1, <2>2, <2>3, CoversStays
<1>13. PICK S \in Seq(Tasks) : S = W \o Absorbing(j, k)
  <2>1. Absorbing(j, k) \in Seq(Tasks)
    <3>1. <<"absorb", k>> \in Tasks /\ <<"finish", j>> \in Tasks
      BY DEF Tasks
    <3> QED BY <3>1, TwoTasks DEF Absorbing
  <2>2. W \in Seq(Tasks)
    <3>1. {"withdraw"} \X Windows \subseteq Tasks
      BY DEF Tasks
    <3> QED BY <3>1, ElementOfSeq, SeqDef DEF Withdrawals
  <2> QED BY <2>1, <2>2, ConcatProperties
<1>14. Handling'
  <2>1. agenda' = S \o <<>>
    BY <1>2, <1>3, <1>11, <1>13 DEF Absorbing
  <2>2. agenda' = <<>> \o S /\ <<>> \in Dispatches
    BY <2>1, ConcatEmptySeq, EmptyBefore
  <2>3. Closing(j, S)'
    BY <1>12, <1>13 DEF Closing, Withdrawals
  <2>4. Rest(S)'
    BY <1>1, <1>3, <2>3 DEF Rest, Concluding
  <2> QED BY <2>2, <2>4, HandlingOf
<1>15. awaiting' \subseteq {w \in Windows : StrongOf[w] \in Strongs}
  BY <1>1, UnitsAssumption DEF Typed
<1>16. stage[j] = "concluding" /\ stage' = [stage EXCEPT ![j] = "concluding"] /\ Moved(j)
  BY <1>1, <1>3 DEF Typed, Moved, Concluding
<1>17. "concluding" \in Stages \ (InSlot \cup {"queued"})
  BY DEF Stages, InSlot
<1> QED BY <1>1, <1>3, <1>14, <1>15, <1>16, <1>17, OutsideKeeps

LEMMA AbsorbKeeps ==
  ASSUME UnitsInv, NEW k \in DOMAIN Chain, Absorb(k)
  PROVE  UnitsInv' /\ (HoldsExact => HoldsExact')
<1> USE DEF UnitsInv
<1> DEFINE new == {w \in {Chain[i] : i \in 1 .. k} : stage[w] \in {"idle", "withdrawn"}}
<1>1. /\ Doing("absorb", k)
      /\ absorbed' = absorbed \cup new
      /\ owed' = [w \in Windows |-> owed[w] \ absorbed']
      /\ agenda' = Tail(agenda)
      /\ UNCHANGED <<stage, queue, residents, computing, freeUnits, stored, holds, mode,
                     awaiting, flights, intakeBusy, stalled>>
  BY DEF Absorb, pipeVars
<1>2. PICK w \in Windows :
        Tail(agenda) = <<<<"finish", w>>>> /\ Concluding = {w} /\ Covers(w, k, <<>>)
  BY <1>1, AtAbsorption
<1>3. /\ DOMAIN Chain = 1 .. Len(Chain) /\ Len(Chain) \in Nat
      /\ \A i \in DOMAIN Chain : Chain[i] \in Windows
      /\ \A i \in 1 .. k : i \in DOMAIN Chain
  BY UnitsAssumption, LenProperties, ElementOfSeq
<1>4. PICK n \in DOMAIN Chain :
        /\ Chain[n] = w /\ n < k
        /\ \A i \in n + 1 .. k : stage[Chain[i]] \in {"idle", "withdrawn"}
  <2>1. ToSet(<<>>) = {}
    BY DEF ToSet
  <2> QED BY <1>2, <2>1 DEF Covers
<1>5. mode = "double" /\ "double" \in Modes /\ (k < Len(Chain) => stage[Chain[k + 1]] = "idle")
  BY <1>2 DEF Covers, Typed
<1>6. stage[w] = "concluding" /\ Begun(Chain[n])
  BY <1>2, <1>4 DEF Concluding, Begun
<1>7. ASSUME NEW i \in 1 .. k
      PROVE  Begun(Chain[i]) \/ Chain[i] \in absorbed \/ Chain[i] \in new
  <2>1. CASE i < n
    BY <1>3, <1>5, <1>6, <2>1 DEF InLine
  <2>2. CASE i = n
    BY <1>6, <2>2
  <2>3. CASE i > n
    BY <1>3, <1>4, <2>3
  <2> QED BY <1>3, <2>1, <2>2, <2>3
<1>8. new \subseteq Windows /\ new \subseteq ToSet(Chain)
      /\ \A x \in new : stage[x] \in {"idle", "withdrawn"} /\ \E i \in 1 .. k : x = Chain[i]
  BY <1>3 DEF ToSet
<1> HIDE DEF new
<1>9. absorbed' \subseteq Windows /\ owed' \in [Windows -> SUBSET Windows]
      /\ \A v \in Windows : owed'[v] = owed[v] \ absorbed'
  BY <1>1, <1>8 DEF Typed
<1>10. ASSUME NEW v \in Windows, stage[v] = "parked"
       PROVE  owed'[v] # {}
  <2>1. PICK d : d \in owed[v] /\ d \in Deps[v] /\ d \notin absorbed
    BY <1>10 DEF Gated
  <2>2. d \notin new
    <3> SUFFICES ASSUME d \in new PROVE FALSE
      OBVIOUS
    <3>1. PICK i \in 1 .. k : d = Chain[i]
      BY <1>8
    <3>2. v \in ToSet(Chain)
      <4>1. Deps[v] \cap ToSet(Chain) # {}
        BY <1>8, <2>1
      <4> QED BY <1>5, <4>1, ChainAssumption
    <3>3. PICK m \in DOMAIN Chain : Chain[m] = v
      BY <3>2 DEF ToSet
    <3>4. m # 1 /\ d = Chain[m - 1] /\ m - 1 \in DOMAIN Chain
      <4>1. Deps[v] = IF m = 1 THEN {} ELSE {Chain[m - 1]}
        BY <1>5, <3>3, ChainAssumption
      <4> QED BY <1>3, <2>1, <4>1
    <3>5. m - 1 = i
      <4>1. IsInjective(Chain)
        BY <1>5, ChainAssumption
      <4> QED BY <1>3, <3>1, <3>4, <4>1 DEF IsInjective
    <3>6. CASE m <= k
      <4>1. Begun(Chain[m]) \/ Chain[m] \in absorbed \/ Chain[m] \in new
        BY <1>3, <1>7, <3>6
      <4> QED BY <1>8, <1>10, <3>3, <4>1 DEF Begun, Gated
    <3>7. CASE m > k
      <4>1. m = k + 1 /\ k < Len(Chain)
        BY <1>3, <3>5, <3>7
      <4> QED BY <1>5, <1>10, <3>3, <4>1
    <3> QED BY <1>3, <3>6, <3>7
  <2> QED BY <1>1, <1>9, <2>1, <2>2
<1>11. Gated'
  <2>1. \A v \in Windows :
          /\ Begun(v)' => owed'[v] = {}
          /\ owed'[v] \subseteq Deps[v]
          /\ owed'[v] \cap absorbed' = {}
          /\ \A d \in Deps[v] \ owed'[v] : stage'[d] = "done" \/ d \in absorbed'
    BY <1>1, <1>9 DEF Gated, Begun
  <2>2. \A v \in absorbed' : stage'[v] \in {"idle", "withdrawn"}
    BY <1>1, <1>8 DEF Gated
  <2>3. \A v \in Windows : stage'[v] = "parked" => owed'[v] # {}
    BY <1>1, <1>10
  <2> QED BY <1>1, <2>1, <2>2, <2>3 DEF Gated
<1>12. InLine'
  <2> SUFFICES ASSUME NEW i \in DOMAIN Chain, NEW m \in DOMAIN Chain, i < m,
                      Begun(Chain[m])' \/ Chain[m] \in absorbed'
               PROVE  Begun(Chain[i])' \/ Chain[i] \in absorbed'
    BY DEF InLine
  <2>1. Begun(Chain[i])' = Begun(Chain[i]) /\ Begun(Chain[m])' = Begun(Chain[m])
    BY <1>1 DEF Begun
  <2>2. CASE Begun(Chain[m]) \/ Chain[m] \in absorbed
    <3>1. Begun(Chain[i]) \/ Chain[i] \in absorbed
      BY <1>5, <2>2 DEF InLine
    <3> QED BY <1>1, <2>1, <3>1
  <2>3. CASE Chain[m] \in new
    <3>1. PICK x \in 1 .. k : Chain[m] = Chain[x]
      BY <1>8, <2>3
    <3>2. m = x
      <4>1. IsInjective(Chain)
        BY <1>5, ChainAssumption
      <4> QED BY <1>3, <3>1, <4>1 DEF IsInjective
    <3>3. Begun(Chain[i]) \/ Chain[i] \in absorbed \/ Chain[i] \in new
      BY <1>3, <1>7, <3>2
    <3> QED BY <1>1, <2>1, <3>3
  <2> QED BY <1>1, <2>1, <2>2, <2>3
<1>13. Placed' /\ Stored'
  <2>1. \A i \in Jobs : Stays(i)
    BY <1>1 DEF Stays
  <2> QED BY <1>1, <2>1, PlacedSame DEF Stored
<1>14. Handling'
  <2>1. PICK S \in Seq(Tasks) : S = <<<<"finish", w>>>>
    <3>1. <<"finish", w>> \in Tasks
      BY DEF Tasks
    <3> QED BY <3>1, TwoTasks
  <2>2. Rest(S)'
    BY <1>1, <1>2, <2>1 DEF Rest, Closing, Concluding
  <2>3. agenda' = <<>> \o S /\ <<>> \in Dispatches
    BY <1>1, <1>2, <2>1, EmptyBefore
  <2> QED BY <2>2, <2>3, HandlingOf
<1>15. Typed'
  BY <1>1, <1>9, <1>14, SameShape, ShapeKept DEF Typed
<1>16. HoldsExact => HoldsExact'
  BY <1>1 DEF HoldsExact, Upstream
<1> QED BY <1>11, <1>12, <1>13, <1>14, <1>15, <1>16

-----------------------------------------------------------------------------
(* The invariant of the specification *)

\* The units of a pool as its free list holds them at the start: all of them,
\* each once.
LEMMA UnitsListed ==
  ASSUME NEW p \in PoolNames
  PROVE  LET list == [i \in 1 .. UnitCount[p] |-> <<p, i - 1>>]
         IN  list \in Seq(Units) /\ ToSet(list) = UnitsOf(p) /\ IsInjective(list)
<1> DEFINE list == [i \in 1 .. UnitCount[p] |-> <<p, i - 1>>]
<1>1. UnitCount[p] \in Nat
  BY UnitsAssumption DEF PoolNames
<1>2. \A i \in 1 .. UnitCount[p] : <<p, i - 1>> \in UnitsOf(p)
  BY <1>1 DEF UnitsOf
<1>3. \A u \in UnitsOf(p) : \E i \in 1 .. UnitCount[p] : u = <<p, i - 1>>
  <2> SUFFICES ASSUME NEW m \in 0 .. UnitCount[p] - 1
               PROVE  \E i \in 1 .. UnitCount[p] : <<p, m>> = <<p, i - 1>>
    BY DEF UnitsOf
  <2>1. m + 1 \in 1 .. UnitCount[p] /\ m = (m + 1) - 1
    BY <1>1
  <2> QED BY <2>1
<1>4. list \in [1 .. UnitCount[p] -> Units]
  BY <1>2, UnitFacts
<1>5. list \in Seq(Units)
  BY <1>1, <1>4, SeqDef
<1>6. ToSet(list) = UnitsOf(p)
  <2>1. ToSet(list) = {list[i] : i \in 1 .. UnitCount[p]}
    BY DEF ToSet
  <2> QED BY <1>2, <1>3, <2>1
<1>7. IsInjective(list)
  <2>1. \A i, k \in 1 .. UnitCount[p] : <<p, i - 1>> = <<p, k - 1>> => i = k
    <3> SUFFICES ASSUME NEW i \in 1 .. UnitCount[p], NEW k \in 1 .. UnitCount[p],
                        <<p, i - 1>> = <<p, k - 1>>
                 PROVE  i = k
      OBVIOUS
    <3>1. i - 1 = k - 1
      BY SameTask
    <3> QED BY <1>1, <3>1
  <2> QED BY <2>1 DEF IsInjective
<1> QED BY <1>5, <1>6, <1>7

LEMMA UnitsInit ==
  ASSUME Init
  PROVE  UnitsInv /\ HoldsExact
<1> USE DEF Init
<1>1. \A j \in Jobs : stage[j] = "idle"
  OBVIOUS
<1>2. ToSet(<<>>) = {} /\ IsInjective(<<>>) /\ <<>> \in Seq(Jobs) /\ <<>> \in Seq(Tasks)
      /\ Len(<<>>) = 0
  BY EmptySeq DEF ToSet, IsInjective
<1>3. FreeShape(freeUnits)
  <2>1. \A p \in PoolNames : freeUnits[p] \in Seq(Units) /\ ToSet(freeUnits[p]) \subseteq UnitsOf(p)
    BY UnitsListed DEF PoolNames
  <2>2. freeUnits = [p \in PoolNames |-> freeUnits[p]]
    BY DEF PoolNames
  <2> QED BY <2>1, <2>2 DEF FreeShape
<1>4. Typed
  <2>1. /\ stage \in [Jobs -> Stages] /\ queue \in [PoolNames -> Seq(Jobs)]
        /\ residents \in [Units -> Seq(Jobs)] /\ computing \in [Units -> Jobs \cup {None}]
        /\ stored \in [Units -> SUBSET Jobs] /\ flights \in [Units -> Seq(Jobs)]
        /\ intakeBusy \in [Units -> Jobs \cup {None}]
        /\ stalled \in [Units -> Jobs \cup {None}]
    BY <1>2 DEF Stages, PoolNames
  <2>2. owed \in [Windows -> SUBSET Windows]
    BY UnitsAssumption
  <2> QED BY <1>2, <1>3, <2>1, <2>2 DEF Typed, FreeShape
<1>5. Placed
  <2>1. \A u \in Units : Len(residents[u]) <= SlotCapacity(u)
    BY <1>2, <1>4, SlotsCounted
  <2> QED BY <1>1, <1>2, <2>1 DEF Placed, InSlot, PoolNames
<1>6. Gated
  BY <1>1, KindsOfJobs DEF Gated, Begun
<1>7. InLine
  <2>1. \A i \in DOMAIN Chain : Chain[i] \in Jobs
    BY UnitsAssumption, LenProperties, ElementOfSeq DEF Jobs
  <2> QED BY <1>1, <2>1 DEF InLine, Begun
<1>8. Handling
  <2>1. Rest(<<>>)
    BY <1>1 DEF Rest, Concluding
  <2>2. agenda = <<>> \o <<>> /\ <<>> \in Dispatches
    BY <1>2, EmptyBefore
  <2> QED BY <1>2, <2>1, <2>2 DEF Handling
<1>9. Stored
  BY <1>2 DEF Stored
<1>10. HoldsExact
  BY <1>1, KindsOfJobs DEF HoldsExact, Upstream
<1> QED BY <1>4, <1>5, <1>6, <1>7, <1>8, <1>9, <1>10 DEF UnitsInv

LEMMA NothingMoves ==
  ASSUME UnitsInv, UNCHANGED vars
  PROVE  UnitsInv'
<1> USE DEF UnitsInv, vars, pipeVars
<1>1. Typed' /\ Placed' /\ Gated' /\ Stored'
  BY DEF Typed, Placed, Gated, Stored, Begun
<1>2. InLine'
  BY DEF InLine, Begun
<1>3. Handling'
  <2>1. PICK X \in Dispatches, S \in Seq(Tasks) :
          /\ Rest(S)
          /\ \/ agenda = X \o S
             \/ \E j \in Instant \cap Jobs :
                  agenda = <<<<"land", j>>>> \o (X \o S) /\ stage[j] = "moving"
    BY DEF Handling
  <2>2. ASSUME NEW w, NEW k, NEW V, Covers(w, k, V) PROVE Covers(w, k, V)'
    BY <2>2 DEF Covers
  <2>3. ASSUME NEW w, Closing(w, S) PROVE Closing(w, S)'
    BY <2>2, <2>3 DEF Closing
  <2>4. Concluding' = Concluding
    BY DEF Concluding
  <2>5. Rest(S)'
    BY <2>1, <2>3, <2>4 DEF Rest
  <2> QED BY <2>1, <2>5 DEF Handling
<1> QED BY <1>1, <1>2, <1>3

LEMMA UnitsStep ==
  ASSUME UnitsInv, [Next]_vars
  PROVE  UnitsInv' /\ (HoldsExact => HoldsExact')
<1> DEFINE Goal == UnitsInv' /\ (HoldsExact => HoldsExact')
<1>1. ASSUME UNCHANGED vars PROVE Goal
  BY <1>1, NothingMoves DEF HoldsExact, Upstream, vars
<1>2. ASSUME NEW p \in ToSet(Pools), Place(p) \/ DispatchEnds(p) PROVE Goal
  BY <1>2, PlaceKeeps, DispatchEndsKeeps DEF PoolNames
<1>3. ASSUME NEW j \in Jobs, Land(j) \/ DecodeDone(j) \/ LateDecodeDone(j) PROVE Goal
  BY <1>3, LandKeeps, DecodeDoneKeeps, LateDecodeDoneKeeps
<1>4. ASSUME NEW j \in Windows, Conclude(j) \/ Finish(j) \/ Withdraw(j) PROVE Goal
  BY <1>4, ConcludeKeeps, FinishKeeps, WithdrawKeeps
<1>5. ASSUME NEW j \in Strongs, SubmitNext(j) \/ Cancel(j) PROVE Goal
  BY <1>5, SubmitNextKeeps, CancelKeeps
<1>6. ASSUME NEW j \in Windows, NEW k \in DOMAIN Chain, Defer(j, k) PROVE Goal
  BY <1>6, DeferKeeps
<1>7. ASSUME NEW k \in DOMAIN Chain, Absorb(k) PROVE Goal
  BY <1>7, AbsorbKeeps
<1>8. ASSUME NEW j \in Windows \cup Externals, Submit(j) PROVE Goal
  BY <1>8, SubmitKeeps
<1>9. ASSUME NEW w \in Windows, SubmitDeferred(w) PROVE Goal
  BY <1>9, SubmitDeferredKeeps
<1>10. ASSUME NEW w \in Windows, NEW d \in Windows, BoundaryArrives(w, d) PROVE Goal
  BY <1>10, BoundaryArrivesKeeps
<1>11. ASSUME NEW u \in Units, InitiationComplete(u) PROVE Goal
  BY <1>11, InitiationCompleteKeeps
<1> HIDE DEF Goal
<1>12. Goal
  BY <1>1, <1>2, <1>3, <1>4, <1>5, <1>6, <1>7, <1>8, <1>9, <1>10, <1>11, Zenon DEF Next, Continue
<1> QED BY <1>12 DEF Goal

\* The invariant of the pools: jobs, queues, slots, boundaries, agenda and
\* unit memory agree, whatever the order of events.
THEOREM InvariantHolds == Spec => []UnitsInv
<1>1. Init => UnitsInv
  BY UnitsInit
<1>2. UnitsInv /\ [Next]_vars => UnitsInv'
  BY UnitsStep
<1> QED BY <1>1, <1>2, PTL DEF Spec

\* No decode of a window begins while it owes a boundary, and a parked window
\* owes one, for any number of units, any depth of pipeline and any policy
\* (begin_service_gate, release_parked, _absorb_window).
THEOREM GateIsRespected == Spec => []GateRespected
<1>1. UnitsInv => GateRespected
  BY DEF UnitsInv, Gated, GateRespected
<1> QED BY <1>1, InvariantHolds, PTL

\* Upstream buffers hold the rounds of exactly the attempts that are queued or
\* in transfer, and beside them only what a double-window run withdrew from a
\* queue, in whichever of the stages an attempt lands, is withdrawn or is
\* cancelled (withdraw_window, cancel_strong), for any number of units, slots
\* and pipeline depths.
THEOREM HoldsAreExact == Spec => []HoldsExact
<1>1. Init => UnitsInv /\ HoldsExact
  BY UnitsInit
<1>2. UnitsInv /\ HoldsExact /\ [Next]_vars => UnitsInv' /\ HoldsExact'
  BY UnitsStep
<1> QED BY <1>1, <1>2, PTL DEF Spec

-----------------------------------------------------------------------------
(* The claims on the units *)

\* u is on the list fr of its pool.
Listed(fr, u) == u \in ToSet(fr[PoolOfUnit(u)])

LEMMA ClaimTakesOff ==
  ASSUME NEW fr, FreeShape(fr), ListedOnce(fr), NEW u \in Units
  PROVE  /\ ListedOnce(ClaimUnit(fr, u)) /\ ~Listed(ClaimUnit(fr, u), u)
         /\ \A v \in Units \ {u} : Listed(ClaimUnit(fr, u), v) <=> Listed(fr, v)
<1> DEFINE p == PoolOfUnit(u)
           after == ClaimUnit(fr, u)
<1>1. \A v \in Units : PoolOfUnit(v) \in PoolNames
  BY UnitFacts
<1>2. fr[p] \in Seq(Units) /\ IsInjective(fr[p])
  BY <1>1 DEF FreeShape, ListedOnce
<1>3. /\ ToSet(RemoveFirst(fr[p], u)) = ToSet(fr[p]) \ {u}
      /\ IsInjective(RemoveFirst(fr[p], u))
  BY <1>2, RemoveFirstElements
<1>4. after[p] = RemoveFirst(fr[p], u) /\ \A q \in PoolNames \ {p} : after[q] = fr[q]
  BY <1>1 DEF ClaimUnit, FreeShape
<1> HIDE DEF after, p
<1>5. ListedOnce(after)
  BY <1>3, <1>4 DEF ListedOnce
<1>6. ~Listed(after, u)
  BY <1>3, <1>4 DEF Listed, p
<1>7. \A v \in Units \ {u} : Listed(after, v) <=> Listed(fr, v)
  BY <1>1, <1>3, <1>4 DEF Listed
<1> QED BY <1>5, <1>6, <1>7 DEF after

LEMMA ReturnPutsOn ==
  ASSUME NEW fr, FreeShape(fr), ListedOnce(fr), NEW u \in Units, ~Listed(fr, u),
         NEW after, after = [fr EXCEPT ![PoolOfUnit(u)] = Append(@, u)]
  PROVE  /\ ListedOnce(after) /\ Listed(after, u)
         /\ \A v \in Units \ {u} : Listed(after, v) <=> Listed(fr, v)
<1> DEFINE p == PoolOfUnit(u)
<1>1. \A v \in Units : PoolOfUnit(v) \in PoolNames
  BY UnitFacts
<1>2. fr[p] \in Seq(Units) /\ IsInjective(fr[p]) /\ u \notin ToSet(fr[p])
  BY <1>1 DEF FreeShape, ListedOnce, Listed
<1>3. ToSet(Append(fr[p], u)) = ToSet(fr[p]) \cup {u} /\ IsInjective(Append(fr[p], u))
  BY <1>2, AppendElements
<1>4. after[p] = Append(fr[p], u) /\ \A q \in PoolNames \ {p} : after[q] = fr[q]
  BY <1>1 DEF FreeShape
<1> HIDE DEF p
<1>5. ListedOnce(after)
  BY <1>3, <1>4 DEF ListedOnce
<1>6. Listed(after, u)
  BY <1>3, <1>4 DEF Listed, p
<1>7. \A v \in Units \ {u} : Listed(after, v) <=> Listed(fr, v)
  BY <1>1, <1>3, <1>4 DEF Listed
<1> QED BY <1>5, <1>6, <1>7

\* What happens elsewhere leaves the claim on v as it is.
LEMMA ElsewhereClaimed ==
  ASSUME Typed, NEW v \in Units, ClaimedAt(v),
         residents'[v] = residents[v], computing'[v] = computing[v],
         flights'[v] = flights[v], intakeBusy'[v] = intakeBusy[v], stalled'[v] = stalled[v],
         Listed(freeUnits', v) <=> Listed(freeUnits, v),
         \A i \in ToSet(residents[v]) : stage'[i] = stage[i],
         \A i \in Jobs : stage[i] \in Over => stage'[i] \in Over
  PROVE  ClaimedAt(v)'
<1>1. computing[v] \in Jobs \cup {None}
  BY DEF Typed
<1>2. IsFree(v)' <=> IsFree(v)
  BY DEF Listed, IsFree
<1>3. \A j \in ToSet(residents'[v]) :
        /\ stage'[j] = "serving" => computing'[v] = j
        /\ stage'[j] = "landed" => computing'[v] # None
  BY DEF ClaimedAt
<1>4. computing[v] # None =>
        \/ computing[v] \in ToSet(residents[v]) /\ stage[computing[v]] \in {"moving", "serving"}
           /\ stage'[computing[v]] = stage[computing[v]]
        \/ intakeBusy[v] = computing[v] /\ stage[computing[v]] \in Over
           /\ stage'[computing[v]] \in Over
  BY <1>1 DEF ClaimedAt
<1>5. computing[v] # None => (stage'[computing[v]] = "serving" <=> stage[computing[v]] = "serving")
  BY <1>4 DEF Over
<1>6. computing'[v] # None =>
        \/ computing'[v] \in ToSet(residents'[v]) /\ stage'[computing'[v]] \in {"moving", "serving"}
        \/ intakeBusy'[v] = computing'[v] /\ stage'[computing'[v]] \in Over
  BY <1>4
<1>7. intakeBusy'[v] # None =>
        /\ Pipelined(v) /\ intakeBusy'[v] = computing'[v] /\ stalled'[v] = None
        /\ stage'[computing'[v]] \in {"serving"} \cup Over
  BY <1>4, <1>5 DEF ClaimedAt, Over
<1>8. stalled'[v] # None =>
        Pipelined(v) /\ stalled'[v] = computing'[v] /\ stage'[computing'[v]] = "serving"
  <2>1. CASE computing[v] = None
    BY <1>1, <2>1 DEF ClaimedAt
  <2>2. CASE computing[v] # None
    BY <1>5, <2>2 DEF ClaimedAt
  <2> QED BY <2>1, <2>2
<1>9. flights'[v] = IF Pipelined(v) /\ computing'[v] # None /\ stage'[computing'[v]] = "serving"
                    THEN <<computing'[v]>> ELSE <<>>
  BY <1>5 DEF ClaimedAt
<1>10. IsFree(v)' <=> computing'[v] = None
  BY <1>2 DEF ClaimedAt
<1> QED BY <1>3, <1>6, <1>7, <1>8, <1>9, <1>10 DEF ClaimedAt

\* A step that leaves the compute tables and the slots alone.
LEMMA UnclaimedStep ==
  ASSUME Typed, Claimed,
         UNCHANGED <<residents, computing, freeUnits, flights, intakeBusy, stalled>>,
         \A u \in Units : \A i \in ToSet(residents[u]) : stage'[i] = stage[i],
         \A i \in Jobs : stage[i] \in Over => stage'[i] \in Over
  PROVE  Claimed'
<1>1. \A v \in Units : Listed(freeUnits', v) <=> Listed(freeUnits, v)
  OBVIOUS
<1>2. \A v \in Units : ClaimedAt(v)'
  BY <1>1, ElsewhereClaimed DEF Claimed
<1> QED BY <1>2 DEF Claimed, ListedOnce

\* What a step on u leaves of the other units.
AwayFrom(u, fr) ==
  /\ ListedOnce(freeUnits')
  /\ \A v \in Units \ {u} :
       /\ Listed(freeUnits', v) <=> Listed(fr, v)
       /\ computing'[v] = computing[v]
       /\ flights'[v] = flights[v] /\ intakeBusy'[v] = intakeBusy[v]

\* An offer on a unit that nobody claims, whose intake is free and whose
\* pipeline is empty, gives the unit to one job or back to its pool.
LEMMA OfferClaims ==
  ASSUME Typed, NEW u \in Units, NEW st \in [Jobs -> Stages], NEW rs \in Seq(Jobs),
         \A i \in DOMAIN rs : st[rs[i]] # "serving",
         NEW fr, FreeShape(fr), ListedOnce(fr), ~Listed(fr, u),
         residents'[u] = rs, stalled'[u] = None,
         OfferCompute(u, st, rs, <<>>, None, fr)
  PROVE  ClaimedAt(u)' /\ AwayFrom(u, fr)
<1> DEFINE go == StartableLanded(st, rs)
           wait == Reservable(st, rs)
           next == IF go # {} THEN rs[Min(go)]
                   ELSE IF wait # {} THEN rs[Min(wait)] ELSE None
           begun == IF go # {} THEN next ELSE None
<1>1. /\ stage' = [j \in Jobs |-> IF go # {} /\ j = next THEN "serving"
                                  ELSE IF j \in Parks(st, rs) THEN "parked" ELSE st[j]]
      /\ computing' = [computing EXCEPT ![u] = next]
      /\ freeUnits' = IF next = None THEN [fr EXCEPT ![PoolOfUnit(u)] = Append(@, u)] ELSE fr
      /\ StartFlight(u, begun, <<>>, None)
  BY DEF OfferCompute
<1>2. DOMAIN rs = 1 .. Len(rs) /\ Len(rs) \in Nat
      /\ \A i \in DOMAIN rs : rs[i] \in Jobs /\ rs[i] \in ToSet(rs)
  BY LenProperties, ElementOfSeq DEF ToSet
<1>3. go # {} => /\ next \in ToSet(rs) /\ next \in Jobs /\ st[next] = "landed"
  <2>1. go \subseteq Nat
    BY <1>2 DEF StartableLanded
  <2>2. go # {} => Min(go) \in go
    BY <2>1, LeastOfNat DEF Min
  <2> QED BY <1>2, <2>2 DEF StartableLanded
<1>4. go = {} /\ next # None => next \in ToSet(rs) /\ next \in Jobs /\ st[next] = "moving"
  <2>1. wait \subseteq Nat
    BY <1>2 DEF Reservable
  <2>2. wait # {} => Min(wait) \in wait
    BY <2>1, LeastOfNat DEF Min
  <2> QED BY <1>2, <2>2 DEF Reservable
<1>5. \A j \in Parks(st, rs) : j \in ToSet(rs) /\ st[j] = "landed"
  BY <1>2 DEF Parks
<1>6. go = {} => \A j \in ToSet(rs) : st[j] = "landed" => j \in Parks(st, rs)
  <2> SUFFICES ASSUME go = {}, NEW i \in DOMAIN rs, st[rs[i]] = "landed"
               PROVE  rs[i] \in Parks(st, rs)
    BY DEF ToSet
  <2>1. \A k \in 1 .. i : k \in DOMAIN rs
    BY <1>2
  <2>2. \A k \in 1 .. i : st[rs[k]] = "landed" => ~Startable(rs[k])
    BY <2>1 DEF StartableLanded
  <2> QED BY <2>2 DEF Parks
<1>7. begun \in Jobs \cup {None} /\ None \notin Jobs /\ next \in Jobs \cup {None}
  BY <1>3, <1>4, NoneIsNoJob
<1> HIDE DEF go, wait, next, begun
<1>8. /\ computing'[u] = next /\ \A v \in Units \ {u} : computing'[v] = computing[v]
  BY <1>1 DEF Typed
<1>9. /\ flights'[u] = IF Pipelined(u) /\ begun # None THEN <<begun>> ELSE <<>>
      /\ intakeBusy'[u] = IF Pipelined(u) /\ begun # None THEN begun ELSE None
      /\ \A v \in Units \ {u} : flights'[v] = flights[v] /\ intakeBusy'[v] = intakeBusy[v]
  <2>1. \A e : Append(<<>>, e) = <<e>>
    OBVIOUS
  <2> QED BY <1>1, <2>1 DEF Typed, StartFlight
<1>10. /\ ListedOnce(freeUnits') /\ (Listed(freeUnits', u) <=> next = None)
       /\ \A v \in Units \ {u} : Listed(freeUnits', v) <=> Listed(fr, v)
  <2>1. CASE next = None
    <3>1. PICK after : after = [fr EXCEPT ![PoolOfUnit(u)] = Append(@, u)]
      OBVIOUS
    <3>2. /\ ListedOnce(after) /\ Listed(after, u)
          /\ \A v \in Units \ {u} : Listed(after, v) <=> Listed(fr, v)
      BY <3>1, ReturnPutsOn
    <3> QED BY <1>1, <2>1, <3>1, <3>2 DEF ListedOnce, Listed
  <2>2. CASE next # None
    BY <1>1, <2>2 DEF ListedOnce, Listed
  <2> QED BY <2>1, <2>2
<1>11. /\ \A j \in Jobs : stage'[j] = IF go # {} /\ j = next THEN "serving"
                                      ELSE IF j \in Parks(st, rs) THEN "parked" ELSE st[j]
  BY <1>1
<1>12. \A j \in ToSet(rs) : j \in Jobs /\ st[j] # "serving"
  BY <1>2 DEF ToSet
<1>13. \A j \in ToSet(rs) : /\ stage'[j] = "serving" => next = j
                            /\ stage'[j] = "landed" => next # None
  BY <1>3, <1>6, <1>7, <1>11, <1>12
<1>14. next # None => /\ next \in ToSet(rs)
                      /\ stage'[next] = IF go # {} THEN "serving" ELSE "moving"
  BY <1>3, <1>4, <1>5, <1>11
<1>15. begun # None <=> (next # None /\ go # {})
  BY <1>3, <1>7 DEF begun
<1>16. begun # None => begun = next
  BY DEF begun
<1>17. IsFree(u)' <=> computing'[u] = None
  BY <1>8, <1>10 DEF IsFree, Listed
<1>18. ClaimedAt(u)'
  BY <1>8, <1>9, <1>13, <1>14, <1>15, <1>16, <1>17 DEF ClaimedAt, Over
<1>19. AwayFrom(u, fr)
  BY <1>8, <1>9, <1>10 DEF AwayFrom
<1> QED BY <1>18, <1>19

\* A decode that starts on a unit whose compute was vacant or only reserved.
LEMMA StartClaims ==
  ASSUME Typed, NEW u \in Units, NEW j \in Jobs, j \in ToSet(residents'[u]),
         stage'[j] = "serving",
         \A i \in ToSet(residents'[u]) \ {j} : stage'[i] # "serving",
         NEW fr, ListedOnce(fr), ~Listed(fr, u), freeUnits' = fr,
         stalled'[u] = None, computing' = [computing EXCEPT ![u] = j],
         StartFlight(u, j, <<>>, None)
  PROVE  ClaimedAt(u)' /\ AwayFrom(u, fr)
<1>1. None \notin Jobs
  BY NoneIsNoJob
<1>2. computing'[u] = j /\ \A v \in Units \ {u} : computing'[v] = computing[v]
  BY DEF Typed
<1>3. /\ flights'[u] = IF Pipelined(u) THEN <<j>> ELSE <<>>
      /\ intakeBusy'[u] = IF Pipelined(u) THEN j ELSE None
      /\ \A v \in Units \ {u} : flights'[v] = flights[v] /\ intakeBusy'[v] = intakeBusy[v]
  <2>1. \A e : Append(<<>>, e) = <<e>>
    OBVIOUS
  <2> QED BY <1>1, <2>1 DEF Typed, StartFlight
<1>4. IsFree(u)' <=> computing'[u] = None
  BY <1>1, <1>2 DEF IsFree, Listed
<1>5. ClaimedAt(u)'
  BY <1>1, <1>2, <1>3, <1>4 DEF ClaimedAt, Over
<1>6. AwayFrom(u, fr)
  BY <1>2, <1>3 DEF AwayFrom
<1> QED BY <1>5, <1>6

\* A unit that is vacant or only reserved runs nothing.
LEMMA VacantUnit ==
  ASSUME Typed, NEW u \in Units, ClaimedAt(u),
         computing[u] = None \/ stage[computing[u]] = "moving"
  PROVE  /\ flights[u] = <<>> /\ intakeBusy[u] = None /\ stalled[u] = None
         /\ \A i \in ToSet(residents[u]) : stage[i] # "serving"
<1>1. \A i \in ToSet(residents[u]) : i \in Jobs
  BY ToSetOfSeq DEF Typed
<1>2. None \notin Jobs /\ intakeBusy[u] \in Jobs \cup {None} /\ stalled[u] \in Jobs \cup {None}
  BY NoneIsNoJob DEF Typed
<1>3. flights[u] = <<>>
  BY DEF ClaimedAt
<1>4. intakeBusy[u] = None /\ stalled[u] = None
  BY <1>2 DEF ClaimedAt, Over
<1>5. \A i \in ToSet(residents[u]) : stage[i] # "serving"
  BY <1>1, <1>2 DEF ClaimedAt
<1> QED BY <1>3, <1>4, <1>5

\* A busy intake stays busy with the same decode.
IntakeKept == \A v \in Units : intakeBusy[v] # None => intakeBusy'[v] = intakeBusy[v]

\* A step on u.
LEMMA ClaimedFrom ==
  ASSUME Typed, Placed, Claimed, NEW u \in Units, NEW fr, ClaimedAt(u)', AwayFrom(u, fr),
         \A v \in Units \ {u} : Listed(fr, v) <=> Listed(freeUnits, v),
         \A v \in Units \ {u} : residents'[v] = residents[v] /\ stalled'[v] = stalled[v],
         \A v \in Units \ {u} : \A i \in ToSet(residents[v]) : stage'[i] = stage[i],
         \A i \in Jobs : stage[i] \in Over => stage'[i] \in Over
  PROVE  Claimed'
<1>1. ASSUME NEW v \in Units \ {u} PROVE ClaimedAt(v)'
  BY ElsewhereClaimed DEF AwayFrom, Claimed
<1> QED BY <1>1 DEF Claimed, AwayFrom

\* The unit of a resident, and where the others are not.
LEMMA HomeUnit ==
  ASSUME Typed, Placed, NEW j \in Jobs, stage[j] \in InSlot, NEW u, u = UnitOf(j)
  PROVE  /\ u \in Units /\ j \in ToSet(residents[u]) /\ residents[u] \in Seq(Jobs)
         /\ \A v \in Units : \A i \in ToSet(residents[v]) : i \in Jobs
         /\ \A v \in Units \ {u} : \A i \in ToSet(residents[v]) :
              i # j /\ i \notin ToSet(residents[u])
<1>1. /\ u \in Units /\ j \in ToSet(residents[u])
      /\ \A v \in Units : j \in ToSet(residents[v]) => v = u
  BY UnitOfStaged
<1>2. \A v \in Units : residents[v] \in Seq(Jobs)
  BY DEF Typed
<1>3. \A v \in Units : \A i \in ToSet(residents[v]) : i \in Jobs
  BY <1>2, ToSetOfSeq
<1>4. \A v \in Units \ {u} : \A i \in ToSet(residents[v]) : i \notin ToSet(residents[u])
  BY <1>1 DEF Placed
<1> QED BY <1>1, <1>2, <1>3, <1>4

\* An arriving job starts or parks its unit's compute if it reserved it or
\* nobody had it, and waits in its slot if not.
LEMMA ArriveClaims ==
  ASSUME Typed, Placed, Gated, Claimed, NEW j \in Jobs, stage[j] = "moving",
         NEW after, NEW nested, Arrive(j, after, nested)
  PROVE  Claimed' /\ IntakeKept
<1> DEFINE Mine(u) == computing[u] = j
           Vacant(u) == computing[u] = None /\ IsFree(u)
<1>1. PICK u : u = UnitOf(j)
  OBVIOUS
<1>2. PICK fr : fr = IF Vacant(u) THEN ClaimUnit(freeUnits, u) ELSE freeUnits
  OBVIOUS
<1>3. PICK st : st = [stage EXCEPT ![j] = "parked"]
  OBVIOUS
<1>4. /\ u \in Units /\ j \in ToSet(residents[u]) /\ residents[u] \in Seq(Jobs)
      /\ \A v \in Units : \A i \in ToSet(residents[v]) : i \in Jobs
      /\ \A v \in Units \ {u} : \A i \in ToSet(residents[v]) :
           i # j /\ i \notin ToSet(residents[u])
  BY <1>1, HomeUnit DEF InSlot
<1>5. /\ (Mine(u) \/ Vacant(u)) /\ Startable(j) =>
           /\ stage' = [stage EXCEPT ![j] = "serving"]
           /\ computing' = [computing EXCEPT ![u] = j] /\ freeUnits' = fr
           /\ StartFlight(u, j, flights[u], intakeBusy[u])
      /\ (Mine(u) \/ Vacant(u)) /\ ~Startable(j) =>
           OfferCompute(u, st, residents[u], flights[u], intakeBusy[u], fr)
      /\ ~(Mine(u) \/ Vacant(u)) =>
           /\ stage' = [stage EXCEPT ![j] = "landed"]
           /\ UNCHANGED <<computing, freeUnits, flights, intakeBusy>>
  BY <1>1, <1>2, <1>3 DEF Arrive
<1>6. ClaimedAt(u) /\ None \notin Jobs
  BY <1>4, NoneIsNoJob DEF Claimed
<1>7. FreeShape(freeUnits) /\ ListedOnce(freeUnits)
  BY ShapeOfTyped DEF ComputeShape, Claimed
<1>8. /\ FreeShape(fr) /\ ListedOnce(fr)
      /\ \A v \in Units \ {u} : Listed(fr, v) <=> Listed(freeUnits, v)
      /\ Mine(u) \/ Vacant(u) => ~Listed(fr, u)
  <2>1. CASE Vacant(u)
    BY <1>2, <1>4, <1>7, <2>1, ClaimShape, ClaimTakesOff
  <2>2. CASE ~Vacant(u)
    <3>1. Mine(u) => ~Listed(freeUnits, u)
      BY <1>6 DEF ClaimedAt, IsFree, Listed
    <3> QED BY <1>2, <1>7, <2>2, <3>1
  <2> QED BY <2>1, <2>2
<1>9. Mine(u) \/ Vacant(u) =>
        /\ flights[u] = <<>> /\ intakeBusy[u] = None /\ stalled[u] = None
        /\ \A i \in ToSet(residents[u]) : stage[i] # "serving"
  BY <1>4, <1>6, VacantUnit
<1>10. Arrived(j, after, nested)
  BY ArriveMoves
<1>11. /\ \A v \in Units : residents'[v] = residents[v] /\ stalled'[v] = stalled[v]
       /\ \A i \in Jobs : stage[i] \in Over => stage'[i] \in Over
  BY <1>10 DEF Arrived, Over
<1> HIDE DEF Mine, Vacant
<1>12. CASE (Mine(u) \/ Vacant(u)) /\ Startable(j)
  <2>1. stage'[j] = "serving" /\ \A i \in Jobs \ {j} : stage'[i] = stage[i]
    BY <1>5, <1>12 DEF Typed
  <2>2. StartFlight(u, j, <<>>, None)
    BY <1>5, <1>9, <1>12
  <2>3. j \in ToSet(residents'[u]) /\ stalled'[u] = None
    BY <1>4, <1>9, <1>11, <1>12
  <2>4. \A i \in ToSet(residents'[u]) \ {j} : stage'[i] # "serving"
    BY <1>4, <1>9, <1>11, <1>12, <2>1
  <2>5. computing' = [computing EXCEPT ![u] = j] /\ freeUnits' = fr /\ ~Listed(fr, u)
    BY <1>5, <1>8, <1>12
  <2>6. ClaimedAt(u)' /\ AwayFrom(u, fr)
    BY <1>4, <1>8, <2>1, <2>2, <2>3, <2>4, <2>5, StartClaims
  <2>7. \A v \in Units \ {u} : \A i \in ToSet(residents[v]) : stage'[i] = stage[i]
    BY <1>4, <2>1
  <2>8. IntakeKept
    BY <1>9, <1>12, <2>6 DEF IntakeKept, AwayFrom
  <2> QED BY <1>4, <1>8, <1>11, <2>6, <2>7, <2>8, ClaimedFrom
<1>13. CASE (Mine(u) \/ Vacant(u)) /\ ~Startable(j)
  <2>1. OfferCompute(u, st, residents[u], <<>>, None, fr)
    BY <1>5, <1>9, <1>13
  <2>2. st \in [Jobs -> Stages] /\ st[j] = "parked" /\ \A i \in Jobs \ {j} : st[i] = stage[i]
    BY <1>3 DEF Typed, Stages
  <2>3. \A i \in DOMAIN residents[u] : st[residents[u][i]] # "serving"
    <3> SUFFICES ASSUME NEW i \in DOMAIN residents[u] PROVE st[residents[u][i]] # "serving"
      OBVIOUS
    <3>1. residents[u][i] \in ToSet(residents[u]) /\ residents[u][i] \in Jobs
      BY <1>4, LenProperties, ElementOfSeq DEF ToSet
    <3> QED BY <1>9, <1>13, <2>2, <3>1
  <2>4. residents'[u] = residents[u] /\ stalled'[u] = None /\ ~Listed(fr, u)
    BY <1>4, <1>8, <1>9, <1>11, <1>13
  <2>5. ClaimedAt(u)' /\ AwayFrom(u, fr)
    BY <1>4, <1>8, <2>1, <2>2, <2>3, <2>4, OfferClaims
  <2>6. Settled(st, residents[u])
    BY <1>4, <2>1, <2>2, OfferSettles
  <2>7. \A v \in Units \ {u} : \A i \in ToSet(residents[v]) : stage'[i] = stage[i]
    BY <1>4, <2>2, <2>6 DEF Settled
  <2>8. IntakeKept
    BY <1>9, <1>13, <2>5 DEF IntakeKept, AwayFrom
  <2> QED BY <1>4, <1>8, <1>11, <2>5, <2>7, <2>8, ClaimedFrom
<1>14. CASE ~(Mine(u) \/ Vacant(u))
  <2>1. stage'[j] = "landed" /\ \A i \in Jobs \ {j} : stage'[i] = stage[i]
    BY <1>5, <1>14 DEF Typed
  <2>2. UNCHANGED <<computing, freeUnits, flights, intakeBusy>>
    BY <1>5, <1>14
  <2>3. computing[u] # None /\ computing[u] # j /\ computing[u] \in Jobs
    BY <1>4, <1>6, <1>14 DEF ClaimedAt, Mine, Vacant, Typed
  <2>4. stage'[computing[u]] = stage[computing[u]]
    BY <2>1, <2>3
  <2>5. \A i \in ToSet(residents[u]) : stage'[i] = "serving" => computing[u] = i
    BY <1>4, <1>6, <2>1 DEF ClaimedAt
  <2>6. IsFree(u)' <=> IsFree(u)
    BY <2>2 DEF IsFree
  <2>7. residents'[u] = residents[u] /\ stalled'[u] = stalled[u]
    BY <1>4, <1>11
  <2>8. ClaimedAt(u)'
    BY <1>6, <2>2, <2>3, <2>4, <2>5, <2>6, <2>7 DEF ClaimedAt
  <2>9. AwayFrom(u, freeUnits)
    BY <1>7, <2>2 DEF AwayFrom, ListedOnce, Listed
  <2>10. \A v \in Units \ {u} : \A i \in ToSet(residents[v]) : stage'[i] = stage[i]
    BY <1>4, <2>1
  <2>11. \A v \in Units \ {u} : Listed(freeUnits, v) <=> Listed(freeUnits, v)
    OBVIOUS
  <2>12. IntakeKept
    BY <2>2 DEF IntakeKept
  <2> QED BY <1>4, <1>11, <2>8, <2>9, <2>10, <2>11, <2>12, ClaimedFrom
<1> QED BY <1>12, <1>13, <1>14

\* The slots after one more job is placed in u.
LEMMA SlotTaken ==
  ASSUME Typed, NEW u \in Units, NEW j \in Jobs,
         residents' = [residents EXCEPT ![u] = Append(@, j)]
  PROVE  /\ ToSet(residents'[u]) = ToSet(residents[u]) \cup {j}
         /\ \A v \in Units \ {u} : residents'[v] = residents[v]
<1>1. residents[u] \in Seq(Jobs)
  BY DEF Typed
<1> QED BY <1>1, AppendElements DEF Typed

\* A job that is placed reserves the compute of a unit that nobody claims, if
\* it is startable.
LEMMA PlaceClaims ==
  ASSUME UnitsInv, Claimed, NEW p \in PoolNames, Place(p)
  PROVE  Claimed' /\ IntakeKept
<1> USE DEF UnitsInv
<1>1. PICK j : j = queue[p][Min(Candidates(p))]
  OBVIOUS
<1>2. PICK u : u = EligibleUnit(p, j)
  OBVIOUS
<1>3. /\ j \in Jobs /\ stage[j] = "queued" /\ u \in Units
  BY <1>1, <1>2, Placement DEF Place
<1>4. /\ stage' = [stage EXCEPT ![j] = "moving"]
      /\ residents' = [residents EXCEPT ![u] = Append(@, j)]
      /\ UNCHANGED <<flights, intakeBusy, stalled>>
      /\ \/ UNCHANGED <<computing, freeUnits>>
         \/ /\ IsFree(u)
            /\ computing' = [computing EXCEPT ![u] = j] /\ freeUnits' = ClaimUnit(freeUnits, u)
  BY <1>1, <1>2 DEF Place, pipeVars, Claims
<1>5. stage'[j] = "moving" /\ \A i \in Jobs \ {j} : stage'[i] = stage[i]
  BY <1>3, <1>4 DEF Typed
<1>6. /\ ToSet(residents'[u]) = ToSet(residents[u]) \cup {j}
      /\ \A v \in Units \ {u} : residents'[v] = residents[v]
  BY <1>3, <1>4, SlotTaken
<1>7. \A v \in Units : \A i \in ToSet(residents[v]) : i \in Jobs /\ i # j
  BY <1>3, NoInput, ToSetOfSeq DEF Typed, InSlot
<1>8. ClaimedAt(u) /\ None \notin Jobs /\ computing[u] \in Jobs \cup {None}
  BY <1>3, NoneIsNoJob DEF Claimed, Typed
<1>9. FreeShape(freeUnits) /\ ListedOnce(freeUnits)
  BY ShapeOfTyped DEF ComputeShape, Claimed
<1>10. \A i \in Jobs : stage[i] \in Over => stage'[i] \in Over
  BY <1>3, <1>5 DEF Over
<1>11. \A v \in Units : \A i \in ToSet(residents[v]) : stage'[i] = stage[i]
  BY <1>5, <1>7
<1>12. CASE UNCHANGED <<computing, freeUnits>>
  <2>1. computing[u] # None => computing[u] # j
    BY <1>3, <1>7, <1>8 DEF ClaimedAt, Over
  <2>2. computing[u] # None => stage'[computing[u]] = stage[computing[u]]
    BY <1>5, <1>8, <2>1
  <2>3. IsFree(u)' <=> IsFree(u)
    BY <1>12 DEF IsFree
  <2>4. \A i \in ToSet(residents'[u]) :
          /\ stage'[i] = "serving" => computing[u] = i
          /\ stage'[i] = "landed" => computing[u] # None
    <3>1. /\ u \in Units /\ stage'[j] = "moving"
          /\ \A i \in ToSet(residents'[u]) : i = j \/ i \in ToSet(residents[u])
      BY <1>3, <1>5, <1>6
    <3>2. \A i \in ToSet(residents[u]) : stage'[i] = stage[i]
      BY <1>11, <3>1
    <3> QED BY <1>8, <3>1, <3>2 DEF ClaimedAt
  <2>5. ClaimedAt(u)'
    BY <1>4, <1>6, <1>8, <1>12, <2>2, <2>3, <2>4 DEF ClaimedAt
  <2>6. AwayFrom(u, freeUnits)
    BY <1>4, <1>9, <1>12 DEF AwayFrom, ListedOnce, Listed
  <2>7. \A v \in Units \ {u} : Listed(freeUnits, v) <=> Listed(freeUnits, v)
    OBVIOUS
  <2> QED BY <1>3, <1>4, <1>6, <1>10, <1>11, <2>5, <2>6, <2>7, ClaimedFrom DEF IntakeKept
<1>13. CASE /\ IsFree(u)
            /\ computing' = [computing EXCEPT ![u] = j] /\ freeUnits' = ClaimUnit(freeUnits, u)
  <2>1. PICK fr : fr = ClaimUnit(freeUnits, u)
    OBVIOUS
  <2>2. /\ ListedOnce(fr) /\ ~Listed(fr, u)
        /\ \A v \in Units \ {u} : Listed(fr, v) <=> Listed(freeUnits, v)
    BY <1>3, <1>9, <2>1, ClaimTakesOff
  <2>3. computing'[u] = j /\ \A v \in Units \ {u} : computing'[v] = computing[v]
    BY <1>3, <1>13 DEF Typed
  <2>4. computing[u] = None
    BY <1>8, <1>13 DEF ClaimedAt
  <2>5. /\ flights[u] = <<>> /\ intakeBusy[u] = None /\ stalled[u] = None
        /\ \A i \in ToSet(residents[u]) : stage[i] # "serving"
    BY <1>3, <1>8, <2>4, VacantUnit
  <2>6. freeUnits' = fr /\ ~IsFree(u)'
    BY <1>13, <2>1, <2>2 DEF IsFree, Listed
  <2>7. ClaimedAt(u)'
    BY <1>3, <1>4, <1>5, <1>6, <1>8, <1>11, <2>3, <2>5, <2>6 DEF ClaimedAt
  <2>8. AwayFrom(u, fr)
    BY <1>4, <2>2, <2>3, <2>6 DEF AwayFrom, ListedOnce, Listed
  <2> QED BY <1>3, <1>4, <1>6, <1>10, <1>11, <2>2, <2>7, <2>8, ClaimedFrom DEF IntakeKept
<1> QED BY <1>4, <1>12, <1>13

-----------------------------------------------------------------------------
(* The claim when a decode ends or an input leaves *)

\* A pipeline of one decode is empty when that decode has left it.
LEMMA LastOut ==
  ASSUME NEW j \in Jobs, NEW fl, fl \in {<<j>>, <<>>}
  PROVE  RemoveFirst(fl, j) = <<>>
<1>1. fl \in Seq(Jobs) /\ IsInjective(fl) /\ ToSet(fl) \subseteq {j}
  <2>1. CASE fl = <<j>>
    BY <2>1, ToSetOfSeq DEF IsInjective, ToSet
  <2>2. CASE fl = <<>>
    BY <2>2 DEF IsInjective, ToSet
  <2> QED BY <2>1, <2>2
<1>2. PICK rest : rest = RemoveFirst(fl, j)
  OBVIOUS
<1>3. rest \in Seq(Jobs) /\ ToSet(rest) = {}
  BY <1>1, <1>2, RemoveFirstElements
<1>4. DOMAIN rest = 1 .. Len(rest) /\ Len(rest) \in Nat
  BY <1>3, LenProperties
<1>5. Len(rest) = 0
  <2> SUFFICES ASSUME Len(rest) # 0 PROVE FALSE
    OBVIOUS
  <2>1. 1 \in DOMAIN rest
    BY <1>4
  <2>2. rest[1] \in ToSet(rest)
    BY <2>1 DEF ToSet
  <2> QED BY <1>3, <2>2
<1> QED BY <1>2, <1>3, <1>5, EmptySeq

\* A decode that ends gives its unit to the next one, unless its input is still
\* on its way through the unit's intake.
LEMMA FreeUnitClaims ==
  ASSUME Typed, Placed, Claimed, NEW j \in Jobs, stage[j] = "serving", NEW u, u = UnitOf(j),
         NEW s \in Stages, s \in Over, NEW after, FreeUnit(u, j, s, after)
  PROVE  Claimed' /\ IntakeKept
<1>1. /\ u \in Units /\ j \in ToSet(residents[u]) /\ residents[u] \in Seq(Jobs)
      /\ \A v \in Units : \A i \in ToSet(residents[v]) : i \in Jobs
      /\ \A v \in Units \ {u} : \A i \in ToSet(residents[v]) :
           i # j /\ i \notin ToSet(residents[u])
  BY HomeUnit DEF InSlot
<1>2. PICK fl : fl = RemoveFirst(flights[u], j)
  OBVIOUS
<1>3. PICK rs : rs = RemoveFirst(residents[u], j)
  OBVIOUS
<1>4. PICK st : st = [stage EXCEPT ![j] = s]
  OBVIOUS
<1>5. /\ residents' = [residents EXCEPT ![u] = rs]
      /\ stalled' = IF Unstalled(u, j, fl) THEN [stalled EXCEPT ![u] = None] ELSE stalled
      /\ FreedClaim(u, j, fl) = None => OfferCompute(u, st, rs, fl, intakeBusy[u], freeUnits)
      /\ FreedClaim(u, j, fl) # None =>
           /\ stage' = st /\ computing' = [computing EXCEPT ![u] = FreedClaim(u, j, fl)]
           /\ flights' = [flights EXCEPT ![u] = fl] /\ UNCHANGED <<freeUnits, intakeBusy>>
  BY <1>2, <1>3, <1>4 DEF FreeUnit
<1>6. ClaimedAt(u) /\ None \notin Jobs /\ ListedOnce(freeUnits) /\ FreeShape(freeUnits)
  BY <1>1, NoneIsNoJob, ShapeOfTyped DEF Claimed, ComputeShape
<1>7. /\ computing[u] = j /\ ~IsFree(u)
      /\ \A i \in ToSet(residents[u]) \ {j} : stage[i] # "serving"
  BY <1>1, <1>6 DEF ClaimedAt
<1>8. fl = <<>>
  <2>1. flights[u] \in {<<j>>, <<>>}
    BY <1>6, <1>7, Zenon DEF ClaimedAt
  <2> QED BY <1>2, <2>1, LastOut
<1>9. stalled[u] # None => Unstalled(u, j, fl)
  <2> SUFFICES ASSUME stalled[u] # None PROVE Unstalled(u, j, fl)
    OBVIOUS
  <2>1. flights[u] = <<j>> /\ Pipelined(u)
    BY <1>6, <1>7 DEF ClaimedAt
  <2>2. j \in ToSet(flights[u])
    BY <2>1 DEF ToSet
  <2>3. Len(fl) = 0
    BY <1>8
  <2> QED BY <2>1, <2>2, <2>3 DEF Unstalled, Pipelined
<1>10. stalled'[u] = None /\ \A v \in Units \ {u} : stalled'[v] = stalled[v]
  <2>1. CASE stalled[u] # None
    BY <1>1, <1>5, <1>9, <2>1 DEF Typed
  <2>2. CASE stalled[u] = None
    <3>1. ~Unstalled(u, j, fl)
      BY <2>2 DEF Unstalled
    <3> QED BY <1>5, <2>2, <3>1
  <2> QED BY <2>1, <2>2
<1>11. /\ residents'[u] = rs /\ rs \in Seq(Jobs) /\ ToSet(rs) = ToSet(residents[u]) \ {j}
       /\ \A v \in Units \ {u} : residents'[v] = residents[v]
  BY <1>1, <1>3, <1>5, ResidentsWithout DEF Typed
<1>12. st \in [Jobs -> Stages] /\ st[j] = s /\ \A i \in Jobs \ {j} : st[i] = stage[i]
  BY <1>4 DEF Typed
<1>13. \A v \in Units \ {u} : Listed(freeUnits, v) <=> Listed(freeUnits, v)
  OBVIOUS
<1>14. CASE intakeBusy[u] = None
  <2>1. FreedClaim(u, j, fl) = None
    BY <1>6, <1>7, <1>14 DEF FreedClaim
  <2>2. OfferCompute(u, st, rs, <<>>, None, freeUnits)
    BY <1>5, <1>8, <1>14, <2>1
  <2>3. \A i \in DOMAIN rs : st[rs[i]] # "serving"
    <3> SUFFICES ASSUME NEW i \in DOMAIN rs PROVE st[rs[i]] # "serving"
      OBVIOUS
    <3>1. rs[i] \in ToSet(rs)
      BY DEF ToSet
    <3> QED BY <1>1, <1>7, <1>11, <1>12, <3>1
  <2>4. ~Listed(freeUnits, u)
    BY <1>7 DEF IsFree, Listed
  <2>5. ClaimedAt(u)' /\ AwayFrom(u, freeUnits)
    BY <1>1, <1>6, <1>10, <1>11, <1>12, <2>2, <2>3, <2>4, OfferClaims
  <2>6. Settled(st, rs)
    BY <1>1, <1>11, <1>12, <2>2, OfferSettles
  <2>7. \A v \in Units \ {u} : \A i \in ToSet(residents[v]) : stage'[i] = stage[i]
    BY <1>1, <1>11, <1>12, <2>6 DEF Settled
  <2>8. \A i \in Jobs : stage[i] \in Over => stage'[i] \in Over
    BY <1>12, <2>6 DEF Settled, Over
  <2>9. IntakeKept
    BY <1>14, <2>5 DEF IntakeKept, AwayFrom
  <2> QED BY <1>1, <1>10, <1>11, <1>13, <2>5, <2>7, <2>8, <2>9, ClaimedFrom
<1>15. CASE intakeBusy[u] # None
  <2>1. intakeBusy[u] = j /\ Pipelined(u) /\ stalled[u] = None
    BY <1>6, <1>7, <1>15 DEF ClaimedAt
  <2>2. FreedClaim(u, j, fl) = j /\ j # None
    BY <1>6, <1>7, <2>1 DEF FreedClaim, Unstalled
  <2>3. /\ stage' = st /\ computing' = [computing EXCEPT ![u] = j]
        /\ flights' = [flights EXCEPT ![u] = fl] /\ UNCHANGED <<freeUnits, intakeBusy>>
    BY <1>5, <2>2
  <2>4. /\ computing'[u] = j /\ flights'[u] = <<>> /\ intakeBusy'[u] = j
        /\ \A v \in Units \ {u} : computing'[v] = computing[v] /\ flights'[v] = flights[v]
    BY <1>1, <1>8, <2>1, <2>3 DEF Typed
  <2>5. ~IsFree(u)'
    BY <1>7, <2>3 DEF IsFree
  <2>6. \A i \in ToSet(residents'[u]) : stage'[i] # "serving"
    BY <1>1, <1>7, <1>11, <1>12, <2>3
  <2>7. stage'[j] \in Over /\ stage'[j] # "serving"
    BY <1>12, <2>3 DEF Over
  <2>8. ClaimedAt(u)'
    BY <1>10, <2>1, <2>2, <2>4, <2>5, <2>6, <2>7 DEF ClaimedAt
  <2>9. AwayFrom(u, freeUnits)
    BY <1>6, <2>3, <2>4 DEF AwayFrom, ListedOnce, Listed
  <2>10. \A v \in Units \ {u} : \A i \in ToSet(residents[v]) : stage'[i] = stage[i]
    BY <1>1, <1>12, <2>3
  <2>11. \A i \in Jobs : stage[i] \in Over => stage'[i] \in Over
    BY <1>12, <2>3, <2>7
  <2>12. IntakeKept
    BY <2>3 DEF IntakeKept
  <2> QED BY <1>1, <1>10, <1>11, <1>13, <2>8, <2>9, <2>10, <2>11, <2>12, ClaimedFrom
<1> QED BY <1>14, <1>15

\* An input that leaves its slot before its decode begins gives up the compute
\* it reserved.
LEMMA UnstageClaims ==
  ASSUME Typed, Placed, Claimed, NEW j \in Jobs, stage[j] \in {"moving", "landed", "parked"},
         NEW s \in {"withdrawn", "cancelled"}, NEW after, Unstage(j, s, after)
  PROVE  Claimed' /\ IntakeKept
<1>1. PICK u : u = UnitOf(j)
  OBVIOUS
<1>2. /\ u \in Units /\ j \in ToSet(residents[u]) /\ residents[u] \in Seq(Jobs)
      /\ \A v \in Units : \A i \in ToSet(residents[v]) : i \in Jobs
      /\ \A v \in Units \ {u} : \A i \in ToSet(residents[v]) :
           i # j /\ i \notin ToSet(residents[u])
  BY <1>1, HomeUnit DEF InSlot
<1>3. PICK rs : rs = RemoveFirst(residents[u], j)
  OBVIOUS
<1>4. PICK st : st = [stage EXCEPT ![j] = s]
  OBVIOUS
<1>5. /\ residents' = [residents EXCEPT ![u] = rs] /\ UNCHANGED stalled
      /\ computing[u] = j =>
           OfferCompute(u, st, rs, flights[u], intakeBusy[u], freeUnits)
      /\ computing[u] # j =>
           stage' = st /\ UNCHANGED <<computing, freeUnits, flights, intakeBusy>>
  BY <1>1, <1>3, <1>4 DEF Unstage
<1>6. ClaimedAt(u) /\ None \notin Jobs /\ ListedOnce(freeUnits) /\ FreeShape(freeUnits)
  BY <1>2, NoneIsNoJob, ShapeOfTyped DEF Claimed, ComputeShape
<1>7. /\ residents'[u] = rs /\ rs \in Seq(Jobs) /\ ToSet(rs) = ToSet(residents[u]) \ {j}
      /\ \A v \in Units \ {u} : residents'[v] = residents[v] /\ stalled'[v] = stalled[v]
  BY <1>2, <1>3, <1>5, ResidentsWithout DEF Typed
<1>8. st \in [Jobs -> Stages] /\ st[j] = s /\ \A i \in Jobs \ {j} : st[i] = stage[i]
  BY <1>4 DEF Typed, Stages
<1>9. \A v \in Units \ {u} : Listed(freeUnits, v) <=> Listed(freeUnits, v)
  OBVIOUS
<1>10. CASE computing[u] = j
  <2>1. /\ flights[u] = <<>> /\ intakeBusy[u] = None /\ stalled[u] = None
        /\ \A i \in ToSet(residents[u]) : stage[i] # "serving"
    <3>1. stage[computing[u]] = "moving"
      BY <1>6, <1>10 DEF ClaimedAt, Over
    <3> QED BY <1>2, <1>6, <3>1, VacantUnit
  <2>2. OfferCompute(u, st, rs, <<>>, None, freeUnits)
    BY <1>5, <1>10, <2>1
  <2>3. \A i \in DOMAIN rs : st[rs[i]] # "serving"
    <3> SUFFICES ASSUME NEW i \in DOMAIN rs PROVE st[rs[i]] # "serving"
      OBVIOUS
    <3>1. rs[i] \in ToSet(rs)
      BY DEF ToSet
    <3> QED BY <1>2, <1>7, <1>8, <2>1, <3>1
  <2>4. ~Listed(freeUnits, u)
    BY <1>6, <1>10 DEF ClaimedAt, IsFree, Listed
  <2>5. stalled'[u] = None
    BY <1>5, <2>1
  <2>6. ClaimedAt(u)' /\ AwayFrom(u, freeUnits)
    BY <1>2, <1>6, <1>7, <1>8, <2>2, <2>3, <2>4, <2>5, OfferClaims
  <2>7. Settled(st, rs)
    BY <1>2, <1>7, <1>8, <2>2, OfferSettles
  <2>8. \A v \in Units \ {u} : \A i \in ToSet(residents[v]) : stage'[i] = stage[i]
    BY <1>2, <1>7, <1>8, <2>7 DEF Settled
  <2>9. \A i \in Jobs : stage[i] \in Over => stage'[i] \in Over
    BY <1>8, <2>7 DEF Settled, Over
  <2>10. IntakeKept
    BY <2>1, <2>6 DEF IntakeKept, AwayFrom
  <2> QED BY <1>2, <1>7, <1>9, <2>6, <2>8, <2>9, <2>10, ClaimedFrom
<1>11. CASE computing[u] # j
  <2>1. stage' = st /\ UNCHANGED <<computing, freeUnits, flights, intakeBusy>>
    BY <1>5, <1>11
  <2>2. computing[u] # None => computing[u] \in Jobs /\ stage'[computing[u]] = stage[computing[u]]
    BY <1>2, <1>8, <1>11, <2>1 DEF Typed
  <2>3. IsFree(u)' <=> IsFree(u)
    BY <2>1 DEF IsFree
  <2>4. \A i \in ToSet(residents'[u]) :
          i \in ToSet(residents[u]) /\ stage'[i] = stage[i]
    BY <1>2, <1>7, <1>8, <2>1
  <2>5. computing[u] \in ToSet(residents[u]) => computing[u] \in ToSet(residents'[u])
    BY <1>7, <1>11
  <2>6. ClaimedAt(u)'
    BY <1>5, <1>6, <2>1, <2>2, <2>3, <2>4, <2>5 DEF ClaimedAt
  <2>7. AwayFrom(u, freeUnits)
    BY <1>6, <2>1 DEF AwayFrom, ListedOnce, Listed
  <2>8. \A v \in Units \ {u} : \A i \in ToSet(residents[v]) : stage'[i] = stage[i]
    BY <1>2, <1>8, <2>1
  <2>9. \A i \in Jobs : stage[i] \in Over => stage'[i] \in Over
    BY <1>8, <2>1 DEF Over
  <2>10. IntakeKept
    BY <2>1 DEF IntakeKept
  <2> QED BY <1>2, <1>7, <1>9, <2>6, <2>7, <2>8, <2>9, <2>10, ClaimedFrom
<1> QED BY <1>10, <1>11

-----------------------------------------------------------------------------
(* The claim when a boundary arrives or an interval elapses *)

\* A window whose last boundary arrives takes the compute nobody runs on.
LEMMA BoundaryClaims ==
  ASSUME UnitsInv, Claimed, NEW w \in Windows, NEW d \in Windows, BoundaryArrives(w, d)
  PROVE  Claimed' /\ IntakeKept
<1> USE DEF UnitsInv
<1> DEFINE Vacant(u) == computing[u] = None /\ IsFree(u)
<1>1. w \in Jobs /\ UNCHANGED <<residents, stalled>>
  BY KindsOfJobs DEF BoundaryArrives
<1>2. ListedOnce(freeUnits) /\ FreeShape(freeUnits) /\ None \notin Jobs
  BY NoneIsNoJob, ShapeOfTyped DEF Claimed, ComputeShape
<1>3. CASE ~(stage[w] = "parked" /\ owed'[w] = {})
  <2>1. UNCHANGED <<stage, computing, freeUnits, flights, intakeBusy>>
    BY <1>3 DEF BoundaryArrives
  <2> QED BY <1>1, <2>1, UnclaimedStep DEF IntakeKept
<1>4. CASE stage[w] = "parked" /\ owed'[w] = {}
  <2>1. PICK u : u = UnitOf(w)
    OBVIOUS
  <2>2. PICK fr : fr = IF Vacant(u) THEN ClaimUnit(freeUnits, u) ELSE freeUnits
    OBVIOUS
  <2>3. /\ Vacant(u) \/ Stealable(u) =>
             /\ stage' = [stage EXCEPT ![w] = "serving"]
             /\ computing' = [computing EXCEPT ![u] = w] /\ freeUnits' = fr
             /\ StartFlight(u, w, flights[u], intakeBusy[u])
        /\ ~(Vacant(u) \/ Stealable(u)) =>
             /\ stage' = [stage EXCEPT ![w] = "landed"]
             /\ UNCHANGED <<computing, freeUnits, flights, intakeBusy>>
    BY <1>4, <2>1, <2>2 DEF BoundaryArrives
  <2>4. /\ u \in Units /\ w \in ToSet(residents[u])
        /\ \A v \in Units : \A i \in ToSet(residents[v]) : i \in Jobs
        /\ \A v \in Units \ {u} : \A i \in ToSet(residents[v]) : i # w
    BY <1>1, <1>4, <2>1, HomeUnit DEF InSlot
  <2>5. ClaimedAt(u)
    BY <2>4 DEF Claimed
  <2>6. \A i \in Jobs \ {w} : stage'[i] = stage[i]
    BY <2>3 DEF Typed
  <2>7. /\ \A i \in Jobs : stage[i] \in Over => stage'[i] \in Over
        /\ \A v \in Units \ {u} : \A i \in ToSet(residents[v]) : stage'[i] = stage[i]
        /\ \A v \in Units \ {u} : residents'[v] = residents[v] /\ stalled'[v] = stalled[v]
    BY <1>1, <1>4, <2>4, <2>6 DEF Over
  <2>8. /\ ListedOnce(fr)
        /\ \A v \in Units \ {u} : Listed(fr, v) <=> Listed(freeUnits, v)
        /\ Vacant(u) \/ Stealable(u) => ~Listed(fr, u)
    <3>1. CASE Vacant(u)
      BY <1>2, <2>2, <2>4, <3>1, ClaimTakesOff
    <3>2. CASE ~Vacant(u)
      BY <1>2, <2>2, <2>5, <3>2 DEF ClaimedAt, Stealable, IsFree, Listed
    <3> QED BY <3>1, <3>2
  <2>9. CASE Vacant(u) \/ Stealable(u)
    <3>1. /\ flights[u] = <<>> /\ intakeBusy[u] = None /\ stalled[u] = None
          /\ \A i \in ToSet(residents[u]) : stage[i] # "serving"
      BY <2>4, <2>5, <2>9, VacantUnit DEF Stealable
    <3>2. stage'[w] = "serving"
      BY <1>1, <2>3, <2>9 DEF Typed
    <3>3. w \in ToSet(residents'[u]) /\ stalled'[u] = None
      BY <1>1, <2>4, <3>1
    <3>4. \A i \in ToSet(residents'[u]) \ {w} : stage'[i] # "serving"
      BY <1>1, <2>4, <2>6, <3>1
    <3>5. /\ computing' = [computing EXCEPT ![u] = w] /\ freeUnits' = fr
          /\ StartFlight(u, w, <<>>, None) /\ ~Listed(fr, u)
      BY <2>3, <2>8, <2>9, <3>1
    <3>6. ClaimedAt(u)' /\ AwayFrom(u, fr)
      BY <1>1, <2>4, <2>8, <3>2, <3>3, <3>4, <3>5, StartClaims
    <3>7. IntakeKept
      BY <3>1, <3>6 DEF IntakeKept, AwayFrom
    <3> QED BY <2>4, <2>7, <2>8, <3>6, <3>7, ClaimedFrom
  <2>10. CASE ~(Vacant(u) \/ Stealable(u))
    <3>1. stage'[w] = "landed" /\ UNCHANGED <<computing, freeUnits, flights, intakeBusy>>
      BY <1>1, <2>3, <2>10 DEF Typed
    <3>2. computing[u] # None /\ computing[u] # w /\ computing[u] \in Jobs
      BY <1>4, <2>4, <2>5, <2>10 DEF ClaimedAt, Over, Typed
    <3>3. stage'[computing[u]] = stage[computing[u]]
      BY <2>6, <3>2
    <3>4. IsFree(u)' <=> IsFree(u)
      BY <3>1 DEF IsFree
    <3>5. \A i \in ToSet(residents[u]) : stage'[i] = "serving" => computing[u] = i
      BY <2>4, <2>5, <2>6, <3>1 DEF ClaimedAt
    <3>6. ClaimedAt(u)'
      BY <1>1, <2>5, <3>1, <3>2, <3>3, <3>4, <3>5 DEF ClaimedAt
    <3>7. AwayFrom(u, freeUnits)
      BY <1>2, <3>1 DEF AwayFrom, ListedOnce, Listed
    <3>8. \A v \in Units \ {u} : Listed(freeUnits, v) <=> Listed(freeUnits, v)
      OBVIOUS
    <3>9. IntakeKept
      BY <3>1 DEF IntakeKept
    <3> QED BY <2>4, <2>7, <3>6, <3>7, <3>8, <3>9, ClaimedFrom
  <2> QED BY <2>9, <2>10
<1> QED BY <1>3, <1>4

\* The claim outlives the interval of a decode that still fills the pipeline.
LEMMA InitiationClaims ==
  ASSUME UnitsInv, Claimed, Shallow, NEW u \in Units, InitiationComplete(u)
  PROVE  /\ Claimed'
         /\ \A v \in Units \ {u} : intakeBusy'[v] = intakeBusy[v]
<1> USE DEF UnitsInv
<1>1. PICK j : j = intakeBusy[u]
  OBVIOUS
<1>2. /\ j # None /\ UNCHANGED residents
      /\ computing[u] = j /\ ~PipelineFull(u, j) =>
           /\ OfferCompute(u, stage, residents[u], flights[u], None, freeUnits)
           /\ UNCHANGED stalled
      /\ computing[u] = j /\ PipelineFull(u, j) =>
           /\ intakeBusy' = [intakeBusy EXCEPT ![u] = None]
           /\ stalled' = [stalled EXCEPT ![u] = j]
           /\ UNCHANGED <<stage, computing, freeUnits, flights>>
  BY <1>1 DEF InitiationComplete
<1>3. ClaimedAt(u) /\ None \notin Jobs /\ ListedOnce(freeUnits) /\ FreeShape(freeUnits)
  BY NoneIsNoJob, ShapeOfTyped DEF Claimed, ComputeShape
<1>4. /\ computing[u] = j /\ Pipelined(u) /\ stalled[u] = None
      /\ stage[j] \in {"serving"} \cup Over
  BY <1>1, <1>2, <1>3 DEF ClaimedAt
<1>5. Depth[PoolOfUnit(u)] = 1
  <2>1. PoolOfUnit(u) \in PoolNames
    BY UnitFacts
  <2>2. Depth[PoolOfUnit(u)] \in Nat
    BY <2>1, UnitsAssumption DEF PoolNames
  <2> QED BY <1>4, <2>1, <2>2 DEF Shallow, Pipelined
<1>6. PipelineFull(u, j) <=> stage[j] = "serving"
  <2>1. stage[j] = "serving" => Len(flights[u]) = 1
    BY <1>2, <1>3, <1>4 DEF ClaimedAt
  <2> QED BY <1>5, <2>1 DEF PipelineFull
<1>7. \A v \in Units : \A i \in ToSet(residents[v]) : i \in Jobs
  BY ToSetOfSeq DEF Typed
<1>8. \A v \in Units \ {u} : Listed(freeUnits, v) <=> Listed(freeUnits, v)
  OBVIOUS
<1>9. CASE ~PipelineFull(u, j)
  <2>1. stage[j] # "serving" /\ flights[u] = <<>>
    BY <1>3, <1>4, <1>6, <1>9 DEF ClaimedAt
  <2>2. OfferCompute(u, stage, residents[u], <<>>, None, freeUnits) /\ UNCHANGED stalled
    BY <1>2, <1>4, <1>9, <2>1
  <2>3. \A i \in DOMAIN residents[u] : stage[residents[u][i]] # "serving"
    <3> SUFFICES ASSUME NEW i \in DOMAIN residents[u] PROVE stage[residents[u][i]] # "serving"
      OBVIOUS
    <3>1. residents[u][i] \in ToSet(residents[u])
      BY DEF ToSet
    <3> QED BY <1>3, <1>4, <2>1, <3>1 DEF ClaimedAt
  <2>4. ~Listed(freeUnits, u)
    BY <1>2, <1>3, <1>4 DEF ClaimedAt, IsFree, Listed
  <2>5. residents[u] \in Seq(Jobs) /\ stage \in [Jobs -> Stages]
    BY DEF Typed
  <2>6. residents'[u] = residents[u] /\ stalled'[u] = None
    BY <1>2, <1>4, <2>2
  <2>7. ClaimedAt(u)' /\ AwayFrom(u, freeUnits)
    BY <1>3, <2>2, <2>3, <2>4, <2>5, <2>6, OfferClaims
  <2>8. Settled(stage, residents[u])
    BY <2>2, <2>5, OfferSettles
  <2>9. \A v \in Units \ {u} : \A i \in ToSet(residents[v]) : i \notin ToSet(residents[u])
    BY DEF Placed
  <2>10. \A v \in Units \ {u} : \A i \in ToSet(residents[v]) : stage'[i] = stage[i]
    BY <1>7, <2>8, <2>9 DEF Settled
  <2>11. \A i \in Jobs : stage[i] \in Over => stage'[i] \in Over
    BY <2>8 DEF Settled, Over
  <2>12. \A v \in Units \ {u} : residents'[v] = residents[v] /\ stalled'[v] = stalled[v]
    BY <1>2, <2>2
  <2>13. Claimed'
    BY <1>8, <2>7, <2>10, <2>11, <2>12, ClaimedFrom
  <2> QED BY <2>7, <2>13 DEF AwayFrom
<1>10. CASE PipelineFull(u, j)
  <2>1. /\ intakeBusy' = [intakeBusy EXCEPT ![u] = None]
        /\ stalled' = [stalled EXCEPT ![u] = j]
        /\ UNCHANGED <<stage, computing, freeUnits, flights>> /\ stage[j] = "serving"
    BY <1>2, <1>4, <1>6, <1>10
  <2>2. /\ intakeBusy'[u] = None /\ stalled'[u] = j
        /\ \A v \in Units \ {u} : intakeBusy'[v] = intakeBusy[v] /\ stalled'[v] = stalled[v]
    BY <2>1 DEF Typed
  <2>3. IsFree(u)' <=> IsFree(u)
    BY <2>1 DEF IsFree
  <2>4. computing[u] \in ToSet(residents[u])
    BY <1>2, <1>3, <1>4, <2>1 DEF ClaimedAt, Over
  <2>5. ClaimedAt(u)'
    BY <1>2, <1>3, <1>4, <2>1, <2>2, <2>3, <2>4 DEF ClaimedAt
  <2>6. AwayFrom(u, freeUnits)
    BY <1>3, <2>1, <2>2 DEF AwayFrom, ListedOnce, Listed
  <2>7. /\ \A v \in Units \ {u} : residents'[v] = residents[v] /\ stalled'[v] = stalled[v]
        /\ \A v \in Units \ {u} : \A i \in ToSet(residents[v]) : stage'[i] = stage[i]
        /\ \A i \in Jobs : stage[i] \in Over => stage'[i] \in Over
    BY <1>2, <2>1, <2>2
  <2>8. Claimed'
    BY <1>8, <2>5, <2>6, <2>7, ClaimedFrom
  <2> QED BY <2>2, <2>8
<1> QED BY <1>9, <1>10

-----------------------------------------------------------------------------
(* The claims and the event order *)

\* A job outside the slots moves, and the compute tables stay.
LEMMA OutsideClaims ==
  ASSUME UnitsInv, Claimed, NEW j \in Jobs, stage[j] \notin InSlot, NEW s,
         stage[j] \in Over => s \in Over, stage' = [stage EXCEPT ![j] = s],
         UNCHANGED <<residents, computing, freeUnits, flights, intakeBusy, stalled>>
  PROVE  Claimed' /\ IntakeKept
<1> USE DEF UnitsInv
<1>1. stage'[j] = s /\ \A i \in Jobs \ {j} : stage'[i] = stage[i]
  BY DEF Typed
<1>2. \A v \in Units : \A i \in ToSet(residents[v]) : i \in Jobs /\ i # j
  BY ToSetOfSeq DEF Typed, Placed
<1>3. Claimed'
  BY <1>1, <1>2, UnclaimedStep
<1> QED BY <1>3 DEF IntakeKept

\* A step that moves no job.
LEMMA StillClaims ==
  ASSUME UnitsInv, Claimed,
         UNCHANGED <<stage, residents, computing, freeUnits, flights, intakeBusy, stalled>>
  PROVE  Claimed' /\ IntakeKept
BY UnclaimedStep DEF UnitsInv, IntakeKept

LEMMA LandClaims ==
  ASSUME UnitsInv, Claimed, NEW j \in Jobs, Land(j)
  PROVE  Claimed' /\ IntakeKept
<1> USE DEF UnitsInv
<1>1. CASE Quiet /\ stage[j] = "moving" /\ Arrive(j, <<>>, TryDispatch)
  BY <1>1, ArriveClaims
<1>2. CASE Doing("land", j) /\ Arrive(j, Tail(agenda), <<>>)
  BY <1>2, AtLanding, ArriveClaims
<1> QED BY <1>1, <1>2 DEF Land

LEMMA DecodeDoneClaims ==
  ASSUME UnitsInv, Claimed, NEW j \in Jobs, DecodeDone(j)
  PROVE  Claimed' /\ IntakeKept
<1> USE DEF UnitsInv
<1>1. PICK u : u = UnitOf(j)
  OBVIOUS
<1>2. stage[j] = "serving"
  BY DEF DecodeDone
<1>3. PICK s \in {"concluding", "done"} : \E after : FreeUnit(u, j, s, after)
  BY <1>1 DEF DecodeDone
<1>4. PICK after : FreeUnit(u, j, s, after)
  BY <1>3
<1> QED BY <1>1, <1>2, <1>4, FreeUnitClaims DEF Stages, Over

LEMMA WithdrawClaims ==
  ASSUME UnitsInv, Claimed, NEW w \in Windows, Withdraw(w)
  PROVE  Claimed' /\ IntakeKept
<1> USE DEF UnitsInv
<1>1. w \in Jobs
  BY KindsOfJobs
<1>2. CASE stage[w] = "queued" /\ stage' = [stage EXCEPT ![w] = "withdrawn"]
           /\ UNCHANGED <<residents, computing, freeUnits, pipeVars>>
  BY <1>1, <1>2, OutsideClaims DEF pipeVars, InSlot, Over
<1>3. CASE stage[w] \in {"moving", "landed", "parked"}
           /\ Unstage(w, "withdrawn", Tail(agenda))
  BY <1>1, <1>3, UnstageClaims
<1> QED BY <1>2, <1>3 DEF Withdraw

LEMMA CancelClaims ==
  ASSUME UnitsInv, Claimed, NEW s \in Strongs, Cancel(s)
  PROVE  Claimed' /\ IntakeKept
<1> USE DEF UnitsInv
<1>1. s \in Jobs
  BY KindsOfJobs
<1>2. CASE UNCHANGED <<stage, residents, computing, freeUnits, stalled, flights, intakeBusy>>
  BY <1>2, StillClaims
<1>3. CASE stage[s] = "queued" /\ stage' = [stage EXCEPT ![s] = "cancelled"]
           /\ UNCHANGED <<residents, computing, freeUnits, pipeVars>>
  <2>1. stage[s] \notin InSlot /\ stage[s] \notin Over
    BY <1>3 DEF InSlot, Over
  <2> QED BY <1>1, <1>3, <2>1, OutsideClaims DEF pipeVars
<1>4. CASE stage[s] \in {"moving", "landed"} /\ Unstage(s, "cancelled", Tail(agenda))
  BY <1>1, <1>4, UnstageClaims
<1>5. CASE stage[s] = "serving"
           /\ FreeUnit(UnitOf(s), s, "stopped", TryDispatch \o Tail(agenda))
  <2>1. PICK u : u = UnitOf(s)
    OBVIOUS
  <2>2. PICK after : FreeUnit(u, s, "stopped", after)
    BY <1>5, <2>1
  <2> QED BY <1>1, <1>5, <2>1, <2>2, FreeUnitClaims DEF Stages, Over
<1> QED BY <1>2, <1>3, <1>4, <1>5 DEF Cancel

LEMMA EnqueueClaims ==
  ASSUME UnitsInv, Claimed, NEW j \in Jobs, NEW after, Enqueue(j, after)
  PROVE  Claimed' /\ IntakeKept
BY OutsideClaims DEF Enqueue, pipeVars, InSlot, Over

\* A busy intake stays with its decode until the interval has elapsed.
IntakeHeld ==
  \A u \in Units : intakeBusy[u] # None /\ ~InitiationComplete(u) =>
                     intakeBusy'[u] = intakeBusy[u]

LEMMA ClaimedStep ==
  ASSUME UnitsInv, Claimed, Shallow, [Next]_vars
  PROVE  Claimed' /\ IntakeHeld
<1> DEFINE Goal == Claimed' /\ IntakeHeld
<1>1. Claimed' /\ IntakeKept => Goal
  BY DEF IntakeKept, IntakeHeld
<1>2. ASSUME UNCHANGED vars PROVE Goal
  BY <1>1, <1>2, StillClaims DEF vars, pipeVars
<1>3. ASSUME NEW p \in ToSet(Pools), Place(p) PROVE Goal
  BY <1>1, <1>3, PlaceClaims DEF PoolNames
<1>4. ASSUME NEW p \in ToSet(Pools), DispatchEnds(p) PROVE Goal
  BY <1>1, <1>4, StillClaims DEF DispatchEnds, pipeVars
<1>5. ASSUME NEW j \in Jobs, Land(j) \/ DecodeDone(j) PROVE Goal
  BY <1>1, <1>5, LandClaims, DecodeDoneClaims
<1>6. ASSUME NEW j \in Jobs, LateDecodeDone(j) PROVE Goal
  BY <1>1, <1>6, OutsideClaims DEF LateDecodeDone, pipeVars, InSlot, Over
<1>7. ASSUME NEW j \in Windows, Conclude(j) PROVE Goal
  BY <1>1, <1>7, StillClaims DEF Conclude, pipeVars
<1>8. ASSUME NEW j \in Windows, Finish(j) PROVE Goal
  <2>1. j \in Jobs /\ stage[j] = "concluding"
    <3>1. Concluding = {j}
      BY <1>8, AtConclusion DEF Finish, UnitsInv
    <3> QED BY <3>1 DEF Concluding
  <2> QED BY <1>1, <1>8, <2>1, OutsideClaims DEF Finish, pipeVars, InSlot, Over
<1>9. ASSUME NEW j \in Windows, Withdraw(j) PROVE Goal
  BY <1>1, <1>9, WithdrawClaims
<1>10. ASSUME NEW j \in Strongs, SubmitNext(j) PROVE Goal
  BY <1>1, <1>10, EnqueueClaims, KindsOfJobs DEF SubmitNext
<1>11. ASSUME NEW j \in Strongs, Cancel(j) PROVE Goal
  BY <1>1, <1>11, CancelClaims
<1>12. ASSUME NEW j \in Windows, NEW k \in DOMAIN Chain, Defer(j, k) PROVE Goal
  BY <1>1, <1>12, StillClaims DEF Defer, pipeVars
<1>13. ASSUME NEW k \in DOMAIN Chain, Absorb(k) PROVE Goal
  BY <1>1, <1>13, StillClaims DEF Absorb, pipeVars
<1>14. ASSUME NEW j \in Windows \cup Externals, Submit(j) PROVE Goal
  <2>1. PICK after : Enqueue(j, after)
    BY <1>14 DEF Submit
  <2> QED BY <1>1, <2>1, EnqueueClaims, KindsOfJobs
<1>15. ASSUME NEW w \in Windows, SubmitDeferred(w) PROVE Goal
  <2>1. StrongOf[w] \in Jobs
    BY <1>15, KindsOfJobs DEF SubmitDeferred, UnitsInv, Typed
  <2> QED BY <1>1, <1>15, <2>1, EnqueueClaims DEF SubmitDeferred
<1>16. ASSUME NEW w \in Windows, NEW d \in Windows, BoundaryArrives(w, d) PROVE Goal
  BY <1>1, <1>16, BoundaryClaims
<1>17. ASSUME NEW u \in Units, InitiationComplete(u) PROVE Goal
  BY <1>17, InitiationClaims DEF IntakeHeld
<1> HIDE DEF Goal
<1>18. Goal
  BY <1>2, <1>3, <1>4, <1>5, <1>6, <1>7, <1>8, <1>9, <1>10, <1>11, <1>12, <1>13, <1>14,
     <1>15, <1>16, <1>17, Zenon DEF Next, Continue
<1> QED BY <1>18 DEF Goal

-----------------------------------------------------------------------------
(* The rounds of a set of jobs *)

\* The rounds of s by way of those of the rest, as g has them.
Chosen(s) == CHOOSE x \in s : TRUE
Counted(g, s) == IF s = {} THEN 0 ELSE Demand[Chosen(s)] + g[s \ {Chosen(s)}]

LEMMA SmallSets ==
  /\ IsFiniteSet(Jobs) /\ Cardinality(Jobs) \in Nat
  /\ \A j \in Jobs : Demand[j] \in Nat
  /\ \A s \in SUBSET Jobs : IsFiniteSet(s) /\ Cardinality(s) \in Nat
  /\ \A s \in SUBSET Jobs : Cardinality(s) <= Cardinality(Jobs)
  /\ \A s \in SUBSET Jobs : s # {} => Chosen(s) \in s
BY UnitsAssumption, PartOfFinite DEF Chosen

\* There is a function that counts the rounds of every set of jobs.
LEMMA CountsExist ==
  \E g \in [SUBSET Jobs -> Nat] : \A s \in SUBSET Jobs : g[s] = Counted(g, s)
<1> DEFINE Upto == {n \in Nat : \E g \in [SUBSET Jobs -> Nat] :
                      \A s \in SUBSET Jobs : Cardinality(s) <= n => g[s] = Counted(g, s)}
<1>1. 0 \in Upto
  <2>1. PICK g : g = [s \in SUBSET Jobs |-> 0]
    OBVIOUS
  <2>2. \A s \in SUBSET Jobs : Cardinality(s) <= 0 => s = {}
    BY SmallSets, FS_EmptySet
  <2>3. g \in [SUBSET Jobs -> Nat]
        /\ \A s \in SUBSET Jobs : Cardinality(s) <= 0 => g[s] = Counted(g, s)
    BY <2>1, <2>2 DEF Counted
  <2> QED BY <2>3
<1>2. ASSUME NEW n \in Nat, n \in Upto PROVE n + 1 \in Upto
  <2>1. PICK g \in [SUBSET Jobs -> Nat] :
          \A s \in SUBSET Jobs : Cardinality(s) <= n => g[s] = Counted(g, s)
    BY <1>2
  <2>2. PICK h : h = [s \in SUBSET Jobs |-> Counted(g, s)]
    OBVIOUS
  <2>3. ASSUME NEW s \in SUBSET Jobs
        PROVE  /\ h[s] = Counted(g, s) /\ h[s] \in Nat
               /\ Cardinality(s) <= n + 1 => h[s] = Counted(h, s)
    <3>1. CASE s = {}
      BY <2>2, <3>1 DEF Counted
    <3>2. CASE s # {}
      <4>1. PICK r : r = s \ {Chosen(s)}
        OBVIOUS
      <4>2. r \in SUBSET Jobs /\ Chosen(s) \in Jobs /\ Cardinality(r) = Cardinality(s) - 1
        BY <3>2, <4>1, SmallSets, FS_RemoveElement
      <4>3. h[s] = Demand[Chosen(s)] + g[r] /\ g[r] \in Nat /\ Demand[Chosen(s)] \in Nat
        BY <2>1, <2>2, <3>2, <4>1, <4>2, SmallSets DEF Counted
      <4>4. h[r] = Counted(g, r)
        BY <2>2, <4>2
      <4>5. Cardinality(s) <= n + 1 => g[r] = Counted(g, r)
        BY <2>1, <4>2, SmallSets
      <4>6. Counted(h, s) = Demand[Chosen(s)] + h[r]
        BY <3>2, <4>1 DEF Counted
      <4> QED BY <2>2, <4>3, <4>4, <4>5, <4>6
    <3> QED BY <3>1, <3>2
  <2>4. h \in [SUBSET Jobs -> Nat]
    BY <2>2, <2>3
  <2> QED BY <2>3, <2>4
<1> HIDE DEF Upto
<1>3. Cardinality(Jobs) \in Upto
  BY <1>1, <1>2, SmallSets, NatSetInduction
<1> QED BY <1>3, SmallSets DEF Upto

\* Two counts of the same sets agree.
LEMMA CountsAgree ==
  ASSUME NEW S \in SUBSET Jobs, NEW g, NEW h,
         \A s \in SUBSET S : g[s] = Counted(g, s) /\ h[s] = Counted(h, s)
  PROVE  \A s \in SUBSET S : g[s] = h[s]
<1> DEFINE Good == {s \in SUBSET S : g[s] = h[s]}
<1>1. ASSUME NEW s \in SUBSET S, \A r \in SUBSET s : r # s => r \in Good
      PROVE  s \in Good
  <2>1. CASE s = {}
    BY <2>1 DEF Counted
  <2>2. CASE s # {}
    <3>1. Chosen(s) \in s
      BY <2>2, SmallSets
    <3>2. g[s \ {Chosen(s)}] = h[s \ {Chosen(s)}]
      BY <1>1, <3>1
    <3> QED BY <2>2, <3>2 DEF Counted
  <2> QED BY <2>1, <2>2
<1>2. IsFiniteSet(S)
  BY SmallSets
<1> HIDE DEF Good
<1>3. SUBSET S \subseteq Good
  BY <1>1, <1>2, SubsetInduction
<1> QED BY <1>3 DEF Good

\* Rounds is that count.
LEMMA RoundsCount ==
  ASSUME NEW g \in [SUBSET Jobs -> Nat], \A s \in SUBSET Jobs : g[s] = Counted(g, s),
         NEW S \in SUBSET Jobs
  PROVE  Rounds(S) = g[S]
<1> DEFINE Solves(f) == f = [s \in SUBSET S |->
                          IF s = {} THEN 0 ELSE LET x == CHOOSE x \in s : TRUE
                                                IN  Demand[x] + f[s \ {x}]]
<1>1. Rounds(S) = (CHOOSE iter : Solves(iter))[S]
  BY DEF Rounds, MapThenSumSet, MapThenFoldSet
<1>2. ASSUME NEW f, Solves(f) PROVE \A s \in SUBSET S : f[s] = Counted(f, s)
  BY <1>2 DEF Counted, Chosen
<1>3. \E f : Solves(f)
  <2>1. PICK f : f = [s \in SUBSET S |-> g[s]]
    OBVIOUS
  <2>2. \A s \in SUBSET S : f[s] = Counted(f, s)
    <3> SUFFICES ASSUME NEW s \in SUBSET S PROVE f[s] = Counted(f, s)
      OBVIOUS
    <3>1. f[s] = Counted(g, s)
      BY <2>1
    <3>2. s # {} => f[s \ {Chosen(s)}] = g[s \ {Chosen(s)}]
      BY <2>1
    <3> QED BY <3>1, <3>2 DEF Counted
  <2>3. Solves(f)
    BY <2>1, <2>2 DEF Counted, Chosen
  <2> QED BY <2>3
<1> HIDE DEF Solves
<1>4. PICK f : f = CHOOSE iter : Solves(iter)
  OBVIOUS
<1>5. Solves(f)
  BY <1>3, <1>4
<1>6. \A s \in SUBSET S : f[s] = Counted(f, s) /\ g[s] = Counted(g, s)
  BY <1>2, <1>5
<1>7. f[S] = g[S]
  BY <1>6, CountsAgree
<1> QED BY <1>1, <1>4, <1>7

\* The rounds of a set are those of one of its jobs and those of the rest.
LEMMA RoundsWithout ==
  /\ \A S \in SUBSET Jobs : Rounds(S) \in Nat
  /\ \A S \in SUBSET Jobs : \A y \in S : Rounds(S) = Demand[y] + Rounds(S \ {y})
<1>1. PICK g \in [SUBSET Jobs -> Nat] : \A s \in SUBSET Jobs : g[s] = Counted(g, s)
  BY CountsExist
<1>2. \A S \in SUBSET Jobs : Rounds(S) = g[S]
  BY <1>1, RoundsCount
<1> DEFINE Good == {s \in SUBSET Jobs : \A y \in s : g[s] = Demand[y] + g[s \ {y}]}
<1>3. ASSUME NEW s \in SUBSET Jobs, \A r \in SUBSET s : r # s => r \in Good
      PROVE  s \in Good
  <2> SUFFICES ASSUME NEW y \in s PROVE g[s] = Demand[y] + g[s \ {y}]
    OBVIOUS
  <2>1. PICK x \in s : x = Chosen(s)
    BY SmallSets
  <2>2. g[s] = Demand[x] + g[s \ {x}]
    BY <1>1, <2>1 DEF Counted
  <2>3. CASE x = y
    BY <2>2, <2>3
  <2>4. CASE x # y
    <3>1. s \ {x} \in Good /\ s \ {y} \in Good
      BY <1>3
    <3>2. /\ g[s \ {x}] = Demand[y] + g[(s \ {x}) \ {y}]
          /\ g[s \ {y}] = Demand[x] + g[(s \ {y}) \ {x}]
      BY <2>4, <3>1
    <3>3. PICK r : r = s \ {x, y}
      OBVIOUS
    <3>4. (s \ {x}) \ {y} = r /\ (s \ {y}) \ {x} = r
      BY <3>3
    <3>5. r \in SUBSET Jobs /\ g[r] \in Nat /\ Demand[x] \in Nat /\ Demand[y] \in Nat
      BY <1>1, <3>3, SmallSets
    <3>6. g[s \ {x}] = Demand[y] + g[r] /\ g[s \ {y}] = Demand[x] + g[r]
      BY <3>2, <3>4
    <3> QED BY <2>2, <3>5, <3>6
  <2> QED BY <2>3, <2>4
<1> HIDE DEF Good
<1>4. SUBSET Jobs \subseteq Good
  BY <1>3, SmallSets, SubsetInduction
<1> QED BY <1>1, <1>2, <1>4 DEF Good

\* Fewer jobs never count more rounds.
LEMMA RoundsGrow ==
  ASSUME NEW T \in SUBSET Jobs, NEW S \in SUBSET T
  PROVE  /\ Rounds(S) \in Nat /\ Rounds(T) \in Nat
         /\ Rounds(S) <= Rounds(T)
<1> DEFINE Good == {t \in SUBSET Jobs : S \subseteq t => Rounds(S) <= Rounds(t)}
<1>1. \A t \in SUBSET Jobs : Rounds(t) \in Nat
  BY RoundsWithout
<1>2. ASSUME NEW t \in SUBSET Jobs, \A r \in SUBSET t : r # t => r \in Good
      PROVE  t \in Good
  <2> SUFFICES ASSUME S \subseteq t PROVE Rounds(S) <= Rounds(t)
    OBVIOUS
  <2>1. CASE t = S
    BY <1>1, <2>1
  <2>2. CASE t # S
    <3>1. PICK y \in t : y \notin S
      BY <2>2
    <3>2. PICK r : r = t \ {y}
      OBVIOUS
    <3>3. r \in Good /\ S \subseteq r /\ r \in SUBSET Jobs
      BY <1>2, <3>1, <3>2
    <3>4. Rounds(t) = Demand[y] + Rounds(r)
      BY <3>1, <3>2, RoundsWithout
    <3>5. Rounds(S) <= Rounds(r) /\ Demand[y] \in Nat /\ y \in Jobs
      BY <3>1, <3>3, SmallSets
    <3> QED BY <1>1, <3>3, <3>4, <3>5
  <2> QED BY <2>1, <2>2
<1> HIDE DEF Good
<1>3. SUBSET Jobs \subseteq Good
  BY <1>2, SmallSets, SubsetInduction
<1> QED BY <1>1, <1>3 DEF Good

-----------------------------------------------------------------------------
(* Unit memory *)

\* A set of inputs that a unit's memory takes: one alone is always taken.
Taken(u, S) ==
  \/ Capacity[PoolOfUnit(u)] = Unbounded
  \/ Cardinality(S) <= 1
  \/ Rounds(S) <= Capacity[PoolOfUnit(u)]

\* What the residents of a unit would store fits, and so does what is stored.
Room == \A u \in Units : Taken(u, ToSet(residents[u]))

\* Jobs that land within the dispatch are served apart from windows, or by
\* units without a bound.
InstantApart ==
  \A j \in Instant \cap Jobs :
    Capacity[PoolOf[j]] = Unbounded \/ \A w \in Windows : PoolOf[w] # PoolOf[j]

\* Fewer inputs fit where more did.
LEMMA TakenLess ==
  ASSUME NEW u \in Units, NEW T \in SUBSET Jobs, NEW S \in SUBSET T, Taken(u, T)
  PROVE  Taken(u, S)
<1>1. CASE Capacity[PoolOfUnit(u)] = Unbounded
  BY <1>1 DEF Taken
<1>2. CASE Cardinality(T) <= 1
  <2>1. Cardinality(S) <= Cardinality(T) /\ Cardinality(S) \in Nat /\ Cardinality(T) \in Nat
    BY SmallSets, PartOfFinite
  <2> QED BY <1>2, <2>1 DEF Taken
<1>3. CASE Capacity[PoolOfUnit(u)] # Unbounded /\ Rounds(T) <= Capacity[PoolOfUnit(u)]
  <2>1. Rounds(S) \in Nat /\ Rounds(T) \in Nat /\ Rounds(S) <= Rounds(T)
    BY RoundsGrow
  <2>2. Capacity[PoolOfUnit(u)] \in Nat
    BY <1>3, UnitFacts, UnitsAssumption DEF PoolNames
  <2> QED BY <1>3, <2>1, <2>2 DEF Taken
<1> QED BY <1>1, <1>2, <1>3 DEF Taken

\* Unit memory takes what it holds, and would take the inputs of its residents.
Memory == Room /\ \A u \in Units : Taken(u, stored[u])

\* A step that only takes jobs out of slots and inputs out of memory.
LEMMA MemoryShrinks ==
  ASSUME Typed, Memory,
         \A u \in Units : ToSet(residents'[u]) \subseteq ToSet(residents[u])
                            /\ stored'[u] \subseteq stored[u]
  PROVE  Memory'
<1>1. \A u \in Units : ToSet(residents[u]) \in SUBSET Jobs /\ stored[u] \in SUBSET Jobs
  BY ToSetOfSeq DEF Typed
<1>2. ASSUME NEW u \in Units PROVE Taken(u, ToSet(residents'[u])) /\ Taken(u, stored'[u])
  BY <1>1, TakenLess DEF Memory, Room
<1>3. \A u \in Units : Taken(u, ToSet(residents'[u])) /\ Taken(u, stored'[u])
  BY <1>2
<1> QED BY <1>3 DEF Memory, Room, Taken

\* j leaves the slots of u, and its input may leave memory.
LEMMA MemoryLeft ==
  ASSUME UnitsInv, Memory, NEW j \in Jobs, NEW u \in Units,
         residents' = [residents EXCEPT ![u] = RemoveFirst(@, j)],
         stored' = stored \/ stored' = TakeInput(j)
  PROVE  Memory'
<1>1. \A v \in Units : ToSet(residents'[v]) \subseteq ToSet(residents[v])
  <2>1. \A v \in Units \ {u} : residents'[v] = residents[v]
    BY DEF UnitsInv, Typed
  <2>2. residents'[u] = RemoveFirst(residents[u], j)
    BY DEF UnitsInv, Typed
  <2> QED BY <2>1, <2>2, ResidentsWithout DEF UnitsInv
<1>2. \A v \in Units : stored'[v] \subseteq stored[v]
  BY DEF TakeInput
<1> QED BY <1>1, <1>2, MemoryShrinks DEF UnitsInv

LEMMA MemoryStill ==
  ASSUME UnitsInv, Memory, UNCHANGED residents, NEW j,
         stored' = stored \/ stored' = TakeInput(j)
  PROVE  Memory'
<1>1. \A v \in Units : stored'[v] \subseteq stored[v]
  BY DEF TakeInput
<1> QED BY <1>1, MemoryShrinks DEF UnitsInv

LEMMA MemoryPlaced ==
  ASSUME UnitsInv, Memory, NEW p \in PoolNames, Place(p)
  PROVE  Memory'
<1> USE DEF UnitsInv
<1>1. PICK j : j = queue[p][Min(Candidates(p))]
  OBVIOUS
<1>2. PICK u : u = EligibleUnit(p, j)
  OBVIOUS
<1>3. /\ j \in Jobs /\ u \in Units /\ SlotMemoryOk(u, j)
  BY <1>1, <1>2, Placement DEF Place, Fits
<1>4. residents' = [residents EXCEPT ![u] = Append(@, j)] /\ UNCHANGED stored
  BY <1>1, <1>2 DEF Place
<1>5. /\ ToSet(residents'[u]) = ToSet(residents[u]) \cup {j}
      /\ \A v \in Units \ {u} : residents'[v] = residents[v]
  BY <1>3, <1>4, SlotTaken
<1>6. Taken(u, ToSet(residents[u]) \cup {j})
  <2>1. CASE residents[u] = <<>>
    <3>1. ToSet(residents[u]) \cup {j} = {j}
      BY <2>1 DEF ToSet
    <3>2. Cardinality({j}) = 1
      BY FS_Singleton
    <3> QED BY <3>1, <3>2 DEF Taken
  <2>2. CASE residents[u] # <<>>
    BY <1>3, <2>2 DEF SlotMemoryOk, Taken
  <2> QED BY <2>1, <2>2
<1>7. \A v \in Units : Taken(v, ToSet(residents'[v]))
  BY <1>5, <1>6 DEF Memory, Room
<1> QED BY <1>4, <1>7 DEF Memory, Room, Taken

\* Between events, and where an instant job lands, memory holds the inputs of
\* residents only.
LEMMA MemoryLands ==
  ASSUME UnitsInv, Memory, InstantApart, NEW j \in Jobs, Land(j)
  PROVE  Memory'
<1> USE DEF UnitsInv
<1>1. stage[j] = "moving" /\ (Quiet \/ j \in Instant)
  BY AtLanding DEF Land
<1>2. PICK u : u = UnitOf(j)
  OBVIOUS
<1>3. /\ u \in Units /\ j \in ToSet(residents[u])
      /\ \A v \in Units : \A i \in ToSet(residents[v]) : i \in Jobs
      /\ PoolOfUnit(u) = PoolOf[j]
  BY <1>1, <1>2, HomeUnit, UnitOfStaged DEF InSlot
<1>4. UNCHANGED residents /\ stored' = [stored EXCEPT ![u] = @ \cup {j}]
  BY <1>2 DEF Land, Arrive
<1>5. stored'[u] = stored[u] \cup {j} /\ \A v \in Units \ {u} : stored'[v] = stored[v]
  BY <1>3, <1>4 DEF Typed
<1>6. Capacity[PoolOfUnit(u)] = Unbounded \/ stored[u] \subseteq ToSet(residents[u])
  <2>1. CASE Quiet
    <3>1. Concluding = {} /\ \A i \in stored[u] : i \in Jobs
      BY <1>3, <2>1, AtQuiet DEF Typed
    <3> QED BY <1>3, <3>1 DEF Stored, Concluding
  <2>2. CASE j \in Instant /\ \A w \in Windows : PoolOf[w] # PoolOf[j]
    <3>1. stored[u] \subseteq Jobs
      BY <1>3 DEF Typed
    <3>2. \A i \in stored[u] : PoolOf[i] = PoolOf[j]
      BY <1>3 DEF Stored
    <3>3. \A i \in stored[u] : i \in Jobs /\ i \notin Windows
      BY <2>2, <3>1, <3>2, Zenon
    <3> QED BY <1>3, <3>3 DEF Stored, Gated
  <2>3. CASE j \in Instant /\ Capacity[PoolOf[j]] = Unbounded
    BY <1>3, <2>3
  <2> QED BY <1>1, <2>1, <2>2, <2>3 DEF InstantApart
<1>7. Taken(u, stored'[u])
  <2>1. CASE Capacity[PoolOfUnit(u)] = Unbounded
    BY <2>1 DEF Taken
  <2>2. CASE stored[u] \subseteq ToSet(residents[u])
    <3>1. stored'[u] \in SUBSET ToSet(residents[u]) /\ ToSet(residents[u]) \in SUBSET Jobs
      BY <1>3, <1>5, <2>2
    <3> QED BY <1>3, <3>1, TakenLess DEF Memory, Room
  <2> QED BY <1>6, <2>1, <2>2
<1>8. \A v \in Units : Taken(v, stored'[v])
  BY <1>5, <1>7 DEF Memory
<1> QED BY <1>4, <1>8 DEF Memory, Room, Taken

LEMMA MemoryStep ==
  ASSUME UnitsInv, Memory, InstantApart, [Next]_vars
  PROVE  Memory'
<1>1. ASSUME UNCHANGED vars PROVE Memory'
  BY <1>1, MemoryStill DEF vars
<1>2. ASSUME NEW p \in ToSet(Pools), Place(p) PROVE Memory'
  BY <1>2, MemoryPlaced DEF PoolNames
<1>3. ASSUME NEW p \in ToSet(Pools), DispatchEnds(p) PROVE Memory'
  BY <1>3, MemoryStill DEF DispatchEnds
<1>4. ASSUME NEW j \in Jobs, Land(j) PROVE Memory'
  BY <1>4, MemoryLands
<1>5. ASSUME NEW j \in Jobs, DecodeDone(j) PROVE Memory'
  <2>1. UnitOf(j) \in Units
    BY <1>5, UnitOfStaged DEF DecodeDone, UnitsInv, InSlot
  <2>2. residents' = [residents EXCEPT ![UnitOf(j)] = RemoveFirst(@, j)]
    BY <1>5 DEF DecodeDone, FreeUnit
  <2>3. stored' = stored \/ stored' = TakeInput(j)
    BY <1>5 DEF DecodeDone
  <2> QED BY <2>1, <2>2, <2>3, MemoryLeft
<1>6. ASSUME NEW j \in Jobs, LateDecodeDone(j) PROVE Memory'
  BY <1>6, MemoryStill DEF LateDecodeDone
<1>7. ASSUME NEW j \in Windows, Conclude(j) PROVE Memory'
  BY <1>7, MemoryStill DEF Conclude
<1>8. ASSUME NEW j \in Windows, Finish(j) PROVE Memory'
  BY <1>8, MemoryStill DEF Finish
<1>9. ASSUME NEW j \in Windows, Withdraw(j) PROVE Memory'
  <2>1. CASE UNCHANGED <<residents, stored>>
    BY <2>1, MemoryStill
  <2>2. CASE stage[j] \in InSlot /\ Unstage(j, "withdrawn", Tail(agenda))
    <3>1. j \in Jobs /\ UnitOf(j) \in Units
      BY <2>2, KindsOfJobs, UnitOfStaged DEF UnitsInv
    <3> QED BY <2>2, <3>1, MemoryLeft DEF Unstage
  <2> QED BY <1>9, <2>1, <2>2 DEF Withdraw, InSlot
<1>10. ASSUME NEW j \in Strongs, SubmitNext(j) PROVE Memory'
  BY <1>10, MemoryStill DEF SubmitNext, Enqueue
<1>11. ASSUME NEW j \in Strongs, Cancel(j) PROVE Memory'
  <2>1. CASE UNCHANGED <<residents, stored>>
    BY <2>1, MemoryStill
  <2>2. CASE stage[j] \in InSlot /\ Unstage(j, "cancelled", Tail(agenda))
    <3>1. j \in Jobs /\ UnitOf(j) \in Units
      BY <2>2, KindsOfJobs, UnitOfStaged DEF UnitsInv
    <3> QED BY <2>2, <3>1, MemoryLeft DEF Unstage
  <2>3. CASE stage[j] \in InSlot /\ stored' = TakeInput(j)
             /\ FreeUnit(UnitOf(j), j, "stopped", TryDispatch \o Tail(agenda))
    <3>1. j \in Jobs /\ UnitOf(j) \in Units
      BY <2>3, KindsOfJobs, UnitOfStaged DEF UnitsInv
    <3> QED BY <2>3, <3>1, MemoryLeft DEF FreeUnit
  <2> QED BY <1>11, <2>1, <2>2, <2>3 DEF Cancel, InSlot
<1>12. ASSUME NEW j \in Windows, NEW k \in DOMAIN Chain, Defer(j, k) PROVE Memory'
  BY <1>12, MemoryStill DEF Defer
<1>13. ASSUME NEW k \in DOMAIN Chain, Absorb(k) PROVE Memory'
  BY <1>13, MemoryStill DEF Absorb
<1>14. ASSUME NEW j \in Windows \cup Externals, Submit(j) PROVE Memory'
  BY <1>14, MemoryStill DEF Submit, Enqueue
<1>15. ASSUME NEW w \in Windows, SubmitDeferred(w) PROVE Memory'
  BY <1>15, MemoryStill DEF SubmitDeferred, Enqueue
<1>16. ASSUME NEW w \in Windows, NEW d \in Windows, BoundaryArrives(w, d) PROVE Memory'
  BY <1>16, MemoryStill DEF BoundaryArrives
<1>17. ASSUME NEW u \in Units, InitiationComplete(u) PROVE Memory'
  BY <1>17, MemoryStill DEF InitiationComplete
<1> QED
  BY <1>1, <1>2, <1>3, <1>4, <1>5, <1>6, <1>7, <1>8, <1>9, <1>10, <1>11, <1>12, <1>13, <1>14,
     <1>15, <1>16, <1>17, Zenon DEF Next, Continue

-----------------------------------------------------------------------------
(* The tables agree *)

LEMMA ClaimedInit ==
  ASSUME Init
  PROVE  Claimed
<1> USE DEF Init
<1>1. ToSet(<<>>) = {}
  BY DEF ToSet
<1>2. \A p \in PoolNames : IsInjective(freeUnits[p]) /\ ToSet(freeUnits[p]) = UnitsOf(p)
  BY UnitsListed DEF PoolNames
<1>3. \A u \in Units : IsFree(u)
  BY <1>2, UnitFacts DEF IsFree
<1>4. \A u \in Units : ClaimedAt(u)
  BY <1>1, <1>3 DEF ClaimedAt
<1> QED BY <1>2, <1>4 DEF Claimed, ListedOnce

LEMMA MemoryInit ==
  ASSUME Init
  PROVE  Memory
<1> USE DEF Init
<1>1. \A u \in Units : ToSet(residents[u]) = {} /\ stored[u] = {}
  BY DEF ToSet
<1>2. Cardinality({}) <= 1
  BY FS_EmptySet
<1> QED BY <1>1, <1>2 DEF Memory, Room, Taken

\* While at most one decode is in flight in a unit, the compute of every unit
\* is on one free list or claimed by one job, whatever paths jobs take.
THEOREM ClaimsHold ==
  ASSUME Shallow
  PROVE  Spec => [](UnitsInv /\ Claimed)
<1>1. Init => UnitsInv /\ Claimed
  BY UnitsInit, ClaimedInit
<1>2. UnitsInv /\ Claimed /\ [Next]_vars => (UnitsInv /\ Claimed)'
  BY UnitsStep, ClaimedStep
<1> QED BY <1>1, <1>2, PTL DEF Spec

\* The deposit at the end of a transfer finds room in unit memory, for any
\* demands and capacities: what is stored was counted when it was placed.
THEOREM MemoryHolds ==
  ASSUME InstantApart
  PROVE  Spec => []MemoryFits
<1>1. Init => UnitsInv /\ Memory
  BY UnitsInit, MemoryInit
<1>2. UnitsInv /\ Memory /\ [Next]_vars => (UnitsInv /\ Memory)'
  BY UnitsStep, MemoryStep
<1>3. Memory => MemoryFits
  BY DEF Memory, Taken, MemoryFits
<1> QED BY <1>1, <1>2, <1>3, PTL DEF Spec

LEMMA ClaimsAgree ==
  ASSUME UnitsInv, Claimed
  PROVE  TypeOK /\ ClaimsExact /\ ClaimHolderRuns /\ StoredIsLive
<1> USE DEF UnitsInv
<1>1. \A u \in Units : \A i \in ToSet(residents[u]) : i \in Jobs
  BY ToSetOfSeq DEF Typed
<1>2. TypeOK
  <2>1. \A p \in PoolNames : ToSet(queue[p]) \subseteq Jobs
    BY DEF Placed
  <2> QED BY <1>1, <2>1 DEF TypeOK, Typed, Placed, PoolNames
<1>3. ClaimsExact
  BY DEF Claimed, ListedOnce, ClaimedAt, ClaimsExact, PoolNames
<1>4. ClaimHolderRuns
  BY DEF Claimed, ClaimedAt, ClaimHolderRuns
<1>5. StoredIsLive
  <2> SUFFICES ASSUME Quiet, NEW u \in Units
               PROVE  stored[u] = {j \in ToSet(residents[u]) : stage[j] # "moving"}
    BY DEF StoredIsLive
  <2>1. Concluding = {} /\ \A j \in stored[u] : j \in Jobs
    BY AtQuiet DEF Typed
  <2> QED BY <2>1 DEF Stored, Concluding
<1> QED BY <1>2, <1>3, <1>4, <1>5

\* Free lists, compute claims, slots and unit memory tell one story.
THEOREM TablesAlwaysAgree ==
  ASSUME Shallow, InstantApart
  PROVE  Spec => []TablesAgree
<1>1. UnitsInv /\ Claimed /\ MemoryFits => TablesAgree
  BY ClaimsAgree DEF TablesAgree
<1> QED BY <1>1, ClaimsHold, MemoryHolds, PTL

\* A pipelined unit begins no decode while its intake is busy.
THEOREM IntakesAreExclusive ==
  ASSUME Shallow
  PROVE  Spec => IntakeExclusive
<1>1. UnitsInv /\ Claimed /\ [Next]_vars =>
        [\A u \in Units : intakeBusy[u] # None /\ ~InitiationComplete(u) =>
           intakeBusy'[u] = intakeBusy[u]]_vars
  BY ClaimedStep DEF IntakeHeld
<1> QED BY <1>1, ClaimsHold, PTL DEF Spec, IntakeExclusive

-----------------------------------------------------------------------------
(* The decode service *)

\* The jobs go through their stages one at a time; windows are absorbed where
\* no job moves.
Advances ==
  /\ \A i \in Jobs : Moved(i)
  /\ absorbed \subseteq absorbed'
  /\ absorbed' = absorbed \/ stage' = stage

\* One job moves, the others stay.
LEMMA OneAdvances ==
  ASSUME Typed, NEW j \in Jobs, NEW s, stage' = [stage EXCEPT ![j] = s], UNCHANGED absorbed,
         stage'[j] = s => Moved(j)
  PROVE  Advances
<1>1. stage'[j] = s /\ \A i \in Jobs \ {j} : stage'[i] = stage[i]
  BY DEF Typed
<1>2. \A i \in Jobs : Moved(i)
  BY <1>1 DEF Moved
<1> QED BY <1>2 DEF Advances

\* A job leaves its unit, others begin or park.
LEMMA LeftAdvances ==
  ASSUME NEW j \in Jobs, NEW u, NEW s, Yields(j, u, s), UNCHANGED absorbed,
         stage'[j] = s => Moved(j)
  PROVE  Advances
BY DEF Yields, Advances

LEMMA StillAdvances ==
  ASSUME UNCHANGED stage, absorbed \subseteq absorbed'
  PROVE  Advances
BY DEF Moved, Advances

LEMMA PlaceAdvances ==
  ASSUME UnitsInv, NEW p \in PoolNames, Place(p)
  PROVE  Advances
<1> USE DEF UnitsInv
<1>1. PICK j : j = queue[p][Min(Candidates(p))]
  OBVIOUS
<1>2. j \in Jobs /\ stage[j] = "queued"
  BY <1>1, Placement DEF Place
<1>3. stage' = [stage EXCEPT ![j] = "moving"] /\ UNCHANGED absorbed
  BY <1>1 DEF Place
<1>4. stage'[j] = "moving" => Moved(j)
  BY <1>2 DEF Moved
<1> QED BY <1>2, <1>3, <1>4, OneAdvances

LEMMA LandAdvances ==
  ASSUME UnitsInv, NEW j \in Jobs, Land(j)
  PROVE  Advances
<1> USE DEF UnitsInv
<1>1. PICK after, nested : Arrive(j, after, nested)
  BY DEF Land
<1>2. stage[j] = "moving"
  BY AtLanding DEF Land
<1>3. Arrived(j, after, nested)
  BY <1>1, <1>2, ArriveMoves
<1> QED BY <1>3 DEF Arrived, Advances

LEMMA DecodeDoneAdvances ==
  ASSUME UnitsInv, NEW j \in Jobs, DecodeDone(j)
  PROVE  Advances
<1> USE DEF UnitsInv
<1>1. PICK u : u = UnitOf(j)
  OBVIOUS
<1>2. stage[j] = "serving" /\ UNCHANGED <<owed, absorbed>>
  BY DEF DecodeDone
<1>3. u \in Units
  BY <1>1, <1>2, UnitOfStaged DEF InSlot
<1>4. CASE j \in Windows
  <2>1. <<"conclude", j>> \in Tasks
    BY <1>4 DEF Tasks
  <2>2. PICK after \in Seq(Tasks) : after = <<<<"conclude", j>>>>
    BY <2>1, TwoTasks
  <2>3. FreeUnit(u, j, "concluding", after)
    BY <1>1, <1>4, <2>2 DEF DecodeDone
  <2>4. Yields(j, u, "concluding")
    BY <1>2, <1>3, <2>3, FreeUnitLeaves DEF Stages, Left
  <2>5. stage'[j] = "concluding" => Moved(j)
    BY <1>2, <1>4 DEF Moved
  <2> QED BY <1>2, <2>4, <2>5, LeftAdvances
<1>5. CASE j \notin Windows
  <2>1. TryDispatch \in Seq(Tasks)
    BY DispatchesAre, DispatchTasks
  <2>2. FreeUnit(u, j, "done", TryDispatch)
    BY <1>1, <1>5 DEF DecodeDone
  <2>3. Yields(j, u, "done")
    BY <1>2, <1>3, <2>1, <2>2, FreeUnitLeaves DEF Stages, Left
  <2>4. stage'[j] = "done" => Moved(j)
    BY <1>2, <1>5 DEF Moved
  <2> QED BY <1>2, <2>3, <2>4, LeftAdvances
<1> QED BY <1>4, <1>5

\* What is left of a running handler is a sequence of calls.
LEMMA RestOfHandler ==
  ASSUME Typed, NEW t, NEW x, Doing(t, x)
  PROVE  Tail(agenda) \in Seq(Tasks)
<1>1. agenda \in Seq(Tasks) /\ agenda # <<>>
  BY DEF Typed, Doing, Quiet
<1> QED BY <1>1, HeadTailProperties

LEMMA WithdrawAdvances ==
  ASSUME UnitsInv, NEW w \in Windows, Withdraw(w)
  PROVE  Advances
<1> USE DEF UnitsInv
<1>1. w \in Jobs /\ Doing("withdraw", w)
  BY KindsOfJobs DEF Withdraw
<1>2. PICK after \in Seq(Tasks) : after = Tail(agenda)
  BY <1>1, RestOfHandler
<1>3. CASE stage[w] = "queued" /\ stage' = [stage EXCEPT ![w] = "withdrawn"] /\ UNCHANGED absorbed
  <2>1. stage'[w] = "withdrawn" => Moved(w)
    BY <1>3 DEF Moved
  <2> QED BY <1>1, <1>3, <2>1, OneAdvances
<1>4. CASE stage[w] \in {"moving", "landed", "parked"} /\ Unstage(w, "withdrawn", after)
  <2>1. stage[w] \in InSlot /\ "withdrawn" \in Stages \ {"landed"}
    BY <1>4 DEF InSlot, Stages
  <2>2. Yields(w, UnitOf(w), "withdrawn") /\ UNCHANGED absorbed
    BY <1>1, <1>4, <2>1, UnstageLeaves DEF Left
  <2>3. stage'[w] = "withdrawn" => Moved(w)
    BY <1>4, <2>1 DEF Moved
  <2> QED BY <1>1, <2>2, <2>3, LeftAdvances
<1> QED BY <1>2, <1>3, <1>4 DEF Withdraw

LEMMA CancelAdvances ==
  ASSUME UnitsInv, NEW s \in Strongs, Cancel(s)
  PROVE  Advances
<1> USE DEF UnitsInv
<1>1. s \in Jobs /\ Doing("cancel", s) /\ UNCHANGED <<owed, absorbed>>
  BY KindsOfJobs DEF Cancel
<1>2. PICK after \in Seq(Tasks) : after = Tail(agenda)
  BY <1>1, RestOfHandler
<1>3. CASE UNCHANGED stage
  BY <1>1, <1>3, StillAdvances
<1>4. CASE stage[s] = "queued" /\ stage' = [stage EXCEPT ![s] = "cancelled"]
  <2>1. stage'[s] = "cancelled" => Moved(s)
    BY <1>4 DEF Moved
  <2> QED BY <1>1, <1>4, <2>1, OneAdvances
<1>5. CASE stage[s] \in {"moving", "landed"} /\ Unstage(s, "cancelled", after)
  <2>1. stage[s] \in InSlot /\ "cancelled" \in Stages \ {"landed"}
    BY <1>5 DEF InSlot, Stages
  <2>2. Yields(s, UnitOf(s), "cancelled")
    BY <1>1, <1>5, <2>1, UnstageLeaves DEF Left
  <2>3. stage'[s] = "cancelled" => Moved(s)
    BY <2>1 DEF Moved
  <2> QED BY <1>1, <2>2, <2>3, LeftAdvances
<1>6. CASE stage[s] = "serving" /\ FreeUnit(UnitOf(s), s, "stopped", TryDispatch \o after)
  <2>1. stage[s] \in InSlot /\ "stopped" \in Stages \ {"landed"}
    BY <1>6 DEF InSlot, Stages
  <2>2. UnitOf(s) \in Units
    BY <1>1, <2>1, UnitOfStaged
  <2>3. TryDispatch \o after \in Seq(Tasks)
    BY DispatchesAre, DispatchTasks, ConcatProperties
  <2>4. Yields(s, UnitOf(s), "stopped")
    BY <1>1, <1>6, <2>1, <2>2, <2>3, FreeUnitLeaves DEF Left
  <2>5. stage'[s] = "stopped" => Moved(s)
    BY <2>1 DEF Moved
  <2> QED BY <1>1, <2>4, <2>5, LeftAdvances
<1> QED BY <1>2, <1>3, <1>4, <1>5, <1>6 DEF Cancel

LEMMA BoundaryAdvances ==
  ASSUME UnitsInv, NEW w \in Windows, NEW d \in Windows, BoundaryArrives(w, d)
  PROVE  Advances
<1> USE DEF UnitsInv
<1>1. /\ stage[d] = "done" /\ w \in Jobs
      /\ owed' = [owed EXCEPT ![w] = @ \ {d}] /\ UNCHANGED absorbed
  BY KindsOfJobs DEF BoundaryArrives, Shipped
<1>2. owed'[w] = owed[w] \ {d}
  BY <1>1 DEF Typed
<1>3. owed'[w] = {} => Ready(w)
  BY <1>1, <1>2 DEF Ready, Gated
<1>4. CASE UNCHANGED stage
  BY <1>1, <1>4, StillAdvances
<1>5. ASSUME NEW s \in {"serving", "landed"}, stage[w] = "parked", owed'[w] = {},
             stage' = [stage EXCEPT ![w] = s]
      PROVE  Advances
  <2>1. stage'[w] = s => Moved(w)
    BY <1>3, <1>5 DEF Moved
  <2> QED BY <1>1, <1>5, <2>1, OneAdvances
<1> QED BY <1>4, <1>5 DEF BoundaryArrives

LEMMA InitiationAdvances ==
  ASSUME UnitsInv, NEW u \in Units, InitiationComplete(u)
  PROVE  Advances
<1> USE DEF UnitsInv
<1>1. UNCHANGED <<owed, absorbed>>
  BY DEF InitiationComplete
<1>2. CASE UNCHANGED stage
  BY <1>1, <1>2, StillAdvances
<1>3. CASE OfferCompute(u, stage, residents[u], flights[u], None, freeUnits)
  <2>1. Settled(stage, residents[u])
    BY <1>3, OfferSettles DEF Typed
  <2>2. \A i \in Jobs : Moved(i)
    BY <1>1, <2>1, SettledMoves
  <2> QED BY <1>1, <2>2 DEF Advances
<1> QED BY <1>2, <1>3 DEF InitiationComplete

LEMMA EnqueueAdvances ==
  ASSUME UnitsInv, NEW j \in Jobs, NEW after, Enqueue(j, after),
         j \in Windows => Quiet /\ j \notin absorbed
  PROVE  Advances
<1>1. stage[j] = "idle" /\ stage' = [stage EXCEPT ![j] = "queued"] /\ UNCHANGED absorbed
  BY DEF Enqueue
<1>2. stage'[j] = "queued" => Moved(j)
  BY <1>1 DEF Moved
<1> QED BY <1>1, <1>2, OneAdvances DEF UnitsInv

LEMMA AdvanceStep ==
  ASSUME UnitsInv, [Next]_vars
  PROVE  Advances
<1> DEFINE Goal == Advances
<1> USE DEF UnitsInv
<1>1. ASSUME UNCHANGED vars PROVE Goal
  BY <1>1, StillAdvances DEF vars
<1>2. ASSUME NEW p \in ToSet(Pools), Place(p) PROVE Goal
  BY <1>2, PlaceAdvances DEF PoolNames
<1>3. ASSUME NEW p \in ToSet(Pools), DispatchEnds(p) PROVE Goal
  BY <1>3, StillAdvances DEF DispatchEnds
<1>4. ASSUME NEW j \in Jobs, Land(j) \/ DecodeDone(j) PROVE Goal
  BY <1>4, LandAdvances, DecodeDoneAdvances
<1>5. ASSUME NEW j \in Jobs, LateDecodeDone(j) PROVE Goal
  <2>1. stage[j] = "stopped" /\ stage' = [stage EXCEPT ![j] = "cancelled"] /\ UNCHANGED absorbed
    BY <1>5 DEF LateDecodeDone
  <2>2. stage'[j] = "cancelled" => Moved(j)
    BY <2>1 DEF Moved
  <2> QED BY <2>1, <2>2, OneAdvances
<1>6. ASSUME NEW j \in Windows, Conclude(j) PROVE Goal
  BY <1>6, StillAdvances DEF Conclude
<1>7. ASSUME NEW j \in Windows, Finish(j) PROVE Goal
  <2>1. stage' = [stage EXCEPT ![j] = "done"] /\ UNCHANGED absorbed
    BY <1>7 DEF Finish
  <2>2. j \in Jobs /\ stage[j] = "concluding"
    <3>1. Concluding = {j}
      BY <1>7, AtConclusion DEF Finish
    <3> QED BY <3>1 DEF Concluding
  <2>3. stage'[j] = "done" => Moved(j)
    BY <2>2 DEF Moved
  <2> QED BY <2>1, <2>2, <2>3, OneAdvances
<1>8. ASSUME NEW j \in Windows, Withdraw(j) PROVE Goal
  BY <1>8, WithdrawAdvances
<1>9. ASSUME NEW j \in Strongs, SubmitNext(j) PROVE Goal
  BY <1>9, EnqueueAdvances, KindsOfJobs DEF SubmitNext
<1>10. ASSUME NEW j \in Strongs, Cancel(j) PROVE Goal
  BY <1>10, CancelAdvances
<1>11. ASSUME NEW j \in Windows, NEW k \in DOMAIN Chain, Defer(j, k) PROVE Goal
  BY <1>11, StillAdvances DEF Defer
<1>12. ASSUME NEW k \in DOMAIN Chain, Absorb(k) PROVE Goal
  <2>1. UNCHANGED stage /\ absorbed \subseteq absorbed'
    BY <1>12 DEF Absorb
  <2> QED BY <2>1, StillAdvances
<1>13. ASSUME NEW j \in Windows \cup Externals, Submit(j) PROVE Goal
  <2>1. PICK after : Enqueue(j, after)
    BY <1>13 DEF Submit
  <2>2. Quiet /\ (j \in Windows => j \notin absorbed)
    BY <1>13, KindsOfJobs DEF Submit
  <2> QED BY <2>1, <2>2, EnqueueAdvances, KindsOfJobs
<1>14. ASSUME NEW w \in Windows, SubmitDeferred(w) PROVE Goal
  <2>1. StrongOf[w] \in Jobs /\ StrongOf[w] \notin Windows
    BY <1>14, KindsOfJobs DEF SubmitDeferred, Typed
  <2> QED BY <1>14, <2>1, EnqueueAdvances DEF SubmitDeferred
<1>15. ASSUME NEW w \in Windows, NEW d \in Windows, BoundaryArrives(w, d) PROVE Goal
  BY <1>15, BoundaryAdvances
<1>16. ASSUME NEW u \in Units, InitiationComplete(u) PROVE Goal
  BY <1>16, InitiationAdvances
<1> HIDE DEF Goal
<1>17. Goal
  BY <1>1, <1>2, <1>3, <1>4, <1>5, <1>6, <1>7, <1>8, <1>9, <1>10, <1>11, <1>12, <1>13, <1>14,
     <1>15, <1>16, Zenon DEF Next, Continue
<1> QED BY <1>17 DEF Goal

\* A job's status is that of its stage, unless a strong window absorbed it.
StatusOf(s) ==
  CASE s = "idle" -> "none"
    [] s \in {"queued", "moving", "landed", "parked"} -> "waiting"
    [] s = "serving" -> "running"
    [] s \in {"concluding", "done"} -> "decoded"
    [] OTHER -> "dropped"

LEMMA StatusStages ==
  /\ StatusOf("idle") = "none"
  /\ \A s \in {"queued", "moving", "landed", "parked"} : StatusOf(s) = "waiting"
  /\ StatusOf("serving") = "running"
  /\ \A s \in {"concluding", "done"} : StatusOf(s) = "decoded"
  /\ \A s \in {"withdrawn", "cancelled", "stopped"} : StatusOf(s) = "dropped"
BY DEF StatusOf

LEMMA StatusIs ==
  ASSUME NEW j \in Jobs
  PROVE  /\ Status(j) = IF j \in absorbed THEN "dropped" ELSE StatusOf(stage[j])
         /\ Status(j)' = IF j \in absorbed' THEN "dropped" ELSE StatusOf(stage'[j])
BY DEF Status, StatusOf

\* What the client of the service sees of a job in one step.
LEMMA StatusMoves ==
  ASSUME UnitsInv, UnitsInv', Advances, NEW j \in Jobs
  PROVE  \/ Status(j)' = Status(j)
         \/ Status(j) = "none" /\ Status(j)' \in {"waiting", "dropped"}
         \/ Status(j) = "waiting" /\ Status(j)' \in {"running", "dropped"}
         \/ Status(j) = "running" /\ Status(j)' \in {"decoded", "dropped"}
<1> DEFINE Goal == \/ Status(j)' = Status(j)
                   \/ Status(j) = "none" /\ Status(j)' \in {"waiting", "dropped"}
                   \/ Status(j) = "waiting" /\ Status(j)' \in {"running", "dropped"}
                   \/ Status(j) = "running" /\ Status(j)' \in {"decoded", "dropped"}
<1>1. /\ j \in absorbed => stage[j] \in {"idle", "withdrawn"}
      /\ j \in absorbed' => stage'[j] \in {"idle", "withdrawn"}
      /\ absorbed \subseteq absorbed' /\ (absorbed' = absorbed \/ stage'[j] = stage[j])
      /\ Moved(j) /\ stage[j] \in Stages /\ (j \in absorbed => j \in Windows)
  BY DEF UnitsInv, Gated, Typed, Advances
<1>2. CASE j \in absorbed
  BY <1>1, <1>2, StatusIs
<1>3. CASE j \notin absorbed /\ j \in absorbed'
  BY <1>1, <1>3, StatusIs, StatusStages
<1>4. CASE j \notin absorbed'
  <2>1. Status(j) = StatusOf(stage[j]) /\ Status(j)' = StatusOf(stage'[j])
    BY <1>1, <1>4, StatusIs
  <2> QED BY <1>1, <2>1, StatusStages DEF Moved, InSlot
<1> QED BY <1>2, <1>3, <1>4

\* A pool has as many units as it was given.
LEMMA PoolWidth ==
  ASSUME NEW p \in PoolNames
  PROVE  IsFiniteSet(UnitsOf(p)) /\ Cardinality(UnitsOf(p)) = UnitCount[p]
<1>1. PICK n \in Nat \ {0} : n = UnitCount[p]
  BY UnitsAssumption DEF PoolNames
<1>2. PICK N : N = 0 .. n - 1
  OBVIOUS
<1>3. IsFiniteSet(N) /\ Cardinality(N) = n
  <2>1. PICK a \in Int, b \in Int : a = 0 /\ b = n - 1
    BY <1>1
  <2>2. IsFiniteSet(a .. b) /\ Cardinality(a .. b) = IF a > b THEN 0 ELSE b - a + 1
    BY FS_Interval
  <2>3. N = a .. b /\ ~(a > b) /\ b - a + 1 = n
    BY <1>1, <1>2, <2>1
  <2> QED BY <2>2, <2>3
<1>4. UnitsOf(p) = {p} \X N
  BY <1>1, <1>2 DEF UnitsOf
<1>5. PICK f : f = [i \in N |-> <<p, i>>]
  OBVIOUS
<1>6. f \in Bijection(N, UnitsOf(p))
  <2>1. f \in [N -> UnitsOf(p)]
    BY <1>4, <1>5
  <2>2. \A i, k \in N : f[i] = f[k] => i = k
    BY <1>5
  <2>3. \A u \in UnitsOf(p) : \E i \in N : f[i] = u
    BY <1>4, <1>5
  <2> QED BY <2>1, <2>2, <2>3, Fun_IsBij
<1> QED BY <1>1, <1>3, <1>6, FS_Bijection DEF ExistsBijection

\* Jobs that claim a unit of the pool each are no more than its units.
LEMMA ClaimsWithin ==
  ASSUME NEW p \in PoolNames, NEW c, NEW S, \A k \in S : \E u \in UnitsOf(p) : c[u] = k
  PROVE  Cardinality(S) <= UnitCount[p]
<1>1. PICK f : f = [k \in S |-> CHOOSE u \in UnitsOf(p) : c[u] = k]
  OBVIOUS
<1>2. \A k \in S : f[k] \in UnitsOf(p) /\ c[f[k]] = k
  BY <1>1
<1>3. f \in Injection(S, UnitsOf(p))
  <2>1. f \in [S -> UnitsOf(p)]
    BY <1>1, <1>2
  <2>2. \A i, k \in S : f[i] = f[k] => i = k
    BY <1>2
  <2> QED BY <2>1, <2>2, Fun_IsInj
<1> QED BY <1>3, PoolWidth, FS_Injection

\* One step of the pools is a turn of the service, or invisible.
LEMMA ServiceTurns ==
  ASSUME UnitsInv, UnitsInv', Claimed', Shallow, [Next]_vars
  PROVE  Service!Turn
<1> DEFINE old == [j \in Jobs |-> Status(j)]
           new == [j \in Jobs |-> Status(j)']
           Needs(j) == IF j \in Windows THEN Deps[j] ELSE {}
<1>1. Advances
  BY AdvanceStep
<1>2. ASSUME NEW j \in Jobs
      PROVE  Status(j)' \in {"none", "waiting", "running", "decoded", "dropped"}
  BY StatusIs DEF StatusOf
<1>3. ASSUME NEW j \in Jobs, Status(j)' # Status(j)
      PROVE  <<Status(j), Status(j)'>> \in Service!Moves
  <2>1. ASSUME NEW a, NEW b, a = Status(j), b = Status(j)'
        PROVE  <<a, b>> \in Service!Moves
    <3>1. \/ a = "none" /\ b \in {"waiting", "dropped"}
          \/ a = "waiting" /\ b \in {"running", "dropped"}
          \/ a = "running" /\ b \in {"decoded", "dropped"}
      BY <1>1, <1>3, <2>1, StatusMoves
    <3> QED BY <3>1 DEF Service!Moves
  <2> QED BY <2>1
<1>4. ASSUME NEW j \in Jobs, Status(j) = "waiting", Status(j)' = "running", NEW k \in Needs(j)
      PROVE  k \in Jobs /\ Status(k) \in {"decoded", "dropped"}
  <2>1. j \in Windows /\ k \in Deps[j] /\ k \in Windows /\ k \in Jobs
    BY <1>4, KindsOfJobs, UnitsAssumption
  <2>2. /\ stage[j] \in {"queued", "moving", "landed", "parked"} /\ stage'[j] = "serving"
    <3>1. stage[j] \in Stages /\ stage'[j] \in Stages
      BY DEF UnitsInv, Typed
    <3>2. StatusOf(stage[j]) = "waiting" /\ StatusOf(stage'[j]) = "running"
      BY <1>4, StatusIs
    <3> QED BY <3>1, <3>2, StatusStages DEF Stages
  <2>3. Ready(j)
    BY <1>1, <2>2 DEF Advances, Moved
  <2>4. stage[k] = "done" \/ k \in absorbed
    BY <2>1, <2>3 DEF Ready
  <2> QED BY <2>1, <2>4, StatusIs, StatusStages
<1>5. ASSUME NEW p \in PoolNames
      PROVE  Cardinality({k \in Jobs : PoolOf[k] = p /\ Status(k)' = "running"}) <= UnitCount[p]
  <2>1. PICK S : S = {k \in Jobs : PoolOf[k] = p /\ Status(k)' = "running"}
    OBVIOUS
  <2>2. ASSUME NEW k \in Jobs, Status(k)' = "running" PROVE stage'[k] = "serving"
    <3>1. stage'[k] \in Stages /\ StatusOf(stage'[k]) = "running"
      BY <2>2, StatusIs DEF UnitsInv, Typed
    <3> QED BY <3>1, StatusStages DEF Stages
  <2>3. ASSUME NEW k \in S PROVE \E u \in UnitsOf(p) : computing'[u] = k
    <3>1. k \in Jobs /\ PoolOf[k] = p /\ stage'[k] = "serving"
      BY <2>1, <2>2
    <3>2. PICK u \in Units : k \in ToSet(residents'[u]) /\ PoolOfUnit(u) = p
      BY <3>1 DEF UnitsInv, Placed, InSlot
    <3>3. computing'[u] = k
      BY <3>1, <3>2 DEF Claimed, ClaimedAt
    <3> QED BY <3>2, <3>3, UnitFacts
  <2>4. Cardinality(S) <= UnitCount[p]
    BY <2>3, ClaimsWithin
  <2> QED BY <2>1, <2>4
<1>6. ASSUME NEW p \in PoolNames
      PROVE  UnitCount[p] * (IF Depth[p] > 0 THEN Depth[p] ELSE 1) = UnitCount[p]
  <2>1. UnitCount[p] \in Nat /\ Depth[p] \in Nat /\ Depth[p] <= 1
    BY UnitsAssumption DEF Shallow, PoolNames
  <2> QED BY <2>1
<1>7. ASSUME NEW j \in Jobs PROVE PoolOf[j] \in PoolNames
  BY NoneIsNoJob
<1>8. \A S : Service!Cardinality(S) = Cardinality(S)
  BY DEF Service!Cardinality, Cardinality
<1>9. new \in [Jobs -> {"none", "waiting", "running", "decoded", "dropped"}]
  BY <1>2
<1>10. \A j \in Jobs : new[j] # old[j] => <<old[j], new[j]>> \in Service!Moves
  BY <1>3
<1>11. \A j \in Jobs : old[j] = "waiting" /\ new[j] = "running" =>
         \A k \in [i \in Jobs |-> Needs(i)][j] : old[k] \in {"decoded", "dropped"}
  BY <1>4
<1>12. ASSUME NEW j \in Jobs
       PROVE  Service!Cardinality({k \in Jobs : PoolOf[k] = PoolOf[j] /\ new[k] = "running"})
                <= [p \in ToSet(Pools) |->
                      UnitCount[p] * (IF Depth[p] > 0 THEN Depth[p] ELSE 1)][PoolOf[j]]
  <2>1. PICK p \in PoolNames : p = PoolOf[j]
    BY <1>7
  <2>2. PICK S : S = {k \in Jobs : PoolOf[k] = p /\ Status(k)' = "running"}
    OBVIOUS
  <2>3. S = {k \in Jobs : PoolOf[k] = PoolOf[j] /\ new[k] = "running"}
    BY <2>1, <2>2
  <2>4. Cardinality(S) <= UnitCount[p]
    BY <1>5, <2>2
  <2>5. [q \in ToSet(Pools) |-> UnitCount[q] * (IF Depth[q] > 0 THEN Depth[q] ELSE 1)][p]
          = UnitCount[p]
    BY <1>6 DEF PoolNames
  <2> QED BY <1>8, <2>1, <2>3, <2>4, <2>5
<1>13. new = [j \in Jobs |-> Status(j)]'
  OBVIOUS
<1> QED BY <1>9, <1>10, <1>11, <1>12, <1>13 DEF Service!Turn

\* The pools implement the decode service: whatever slots, reservations,
\* steals, parks and withdrawals do, a submitted decode runs at most once, after
\* the decodes it depends on, and beside no more than its pool has units for.
THEOREM PoolsImplementService ==
  ASSUME Shallow
  PROVE  Spec => ImplementsService
<1>1. Init => Service!Init
  BY StatusStages, StatusIs DEF Init, Service!Init
<1>2. UnitsInv /\ UnitsInv' /\ Claimed' /\ [Next]_vars => Service!Turn
  BY ServiceTurns
<1> QED BY <1>1, <1>2, ClaimsHold, PTL DEF Spec, ImplementsService, Service!Spec

-----------------------------------------------------------------------------
(* Nothing waits in a slot beside an idle unit *)

\* A unit nobody claims is on its pool's free list, and no input that has
\* landed waits in its slots: whoever met an owed boundary has parked.
MannedAt(u) ==
  computing[u] = None =>
    IsFree(u) /\ \A j \in ToSet(residents[u]) : stage[j] # "landed"
Manned == \A u \in Units : MannedAt(u)

\* What a step on u leaves of the other units: their claims, and their places
\* on the list.
Spares(u, fr) ==
  \A v \in Units \ {u} : /\ computing'[v] = computing[v]
                         /\ Listed(fr, v) => Listed(freeUnits', v)

\* A claim takes nobody else off the list.
LEMMA ClaimSpares ==
  ASSUME NEW fr, FreeShape(fr), NEW u \in Units
  PROVE  \A v \in Units \ {u} : Listed(fr, v) => Listed(ClaimUnit(fr, u), v)
<1> DEFINE p == PoolOfUnit(u)
           after == ClaimUnit(fr, u)
<1>1. \A v \in Units : PoolOfUnit(v) \in PoolNames
  BY UnitFacts
<1>2. fr[p] \in Seq(Units)
  BY <1>1 DEF FreeShape
<1>3. ToSet(fr[p]) \ {u} \subseteq ToSet(RemoveFirst(fr[p], u))
  BY <1>2, RemoveFirstWithin
<1>4. after[p] = RemoveFirst(fr[p], u) /\ \A q \in PoolNames \ {p} : after[q] = fr[q]
  BY <1>1 DEF ClaimUnit, FreeShape
<1> HIDE DEF after, p
<1>5. \A v \in Units \ {u} : Listed(fr, v) => Listed(after, v)
  BY <1>1, <1>3, <1>4 DEF Listed
<1> QED BY <1>5 DEF after

\* A unit that is returned is on the list, and so is everybody who was.
Returned(fr, u) == [fr EXCEPT ![PoolOfUnit(u)] = Append(@, u)]

LEMMA ReturnLists ==
  ASSUME NEW fr, FreeShape(fr), NEW u \in Units
  PROVE  /\ Listed(Returned(fr, u), u)
         /\ \A v \in Units : Listed(fr, v) => Listed(Returned(fr, u), v)
<1> DEFINE p == PoolOfUnit(u)
           after == Returned(fr, u)
<1>1. \A v \in Units : PoolOfUnit(v) \in PoolNames
  BY UnitFacts
<1>2. fr[p] \in Seq(Units)
  BY <1>1 DEF FreeShape
<1>3. ToSet(Append(fr[p], u)) = ToSet(fr[p]) \cup {u}
  BY <1>2, AppendElements
<1>4. after[p] = Append(fr[p], u) /\ \A q \in PoolNames \ {p} : after[q] = fr[q]
  BY <1>1 DEF FreeShape, Returned
<1> HIDE DEF p, after
<1>5. Listed(after, u)
  BY <1>3, <1>4 DEF Listed, p
<1>6. \A v \in Units : Listed(fr, v) => Listed(after, v)
  BY <1>1, <1>3, <1>4 DEF Listed
<1> QED BY <1>5, <1>6 DEF after

\* An offer leaves the unit to somebody, or free with nothing landed in it.
LEMMA OfferMans ==
  ASSUME Typed, NEW u \in Units, NEW st \in [Jobs -> Stages], NEW rs \in Seq(Jobs),
         NEW fl, NEW busy, NEW fr, FreeShape(fr),
         residents'[u] = rs, OfferCompute(u, st, rs, fl, busy, fr)
  PROVE  MannedAt(u)' /\ Spares(u, fr)
<1> DEFINE go == StartableLanded(st, rs)
           wait == Reservable(st, rs)
           next == IF go # {} THEN rs[Min(go)]
                   ELSE IF wait # {} THEN rs[Min(wait)] ELSE None
<1>1. /\ stage' = [j \in Jobs |-> IF go # {} /\ j = next THEN "serving"
                                  ELSE IF j \in Parks(st, rs) THEN "parked" ELSE st[j]]
      /\ computing' = [computing EXCEPT ![u] = next]
      /\ freeUnits' = IF next = None THEN [fr EXCEPT ![PoolOfUnit(u)] = Append(@, u)] ELSE fr
  BY DEF OfferCompute
<1>2. DOMAIN rs = 1 .. Len(rs) /\ Len(rs) \in Nat
      /\ \A i \in DOMAIN rs : rs[i] \in Jobs /\ rs[i] \in ToSet(rs)
  BY LenProperties, ElementOfSeq DEF ToSet
<1>3. go # {} => next \in Jobs
  <2>1. go \subseteq Nat
    BY <1>2 DEF StartableLanded
  <2>2. go # {} => Min(go) \in go
    BY <2>1, LeastOfNat DEF Min
  <2> QED BY <1>2, <2>2 DEF StartableLanded
<1>4. go = {} => \A j \in ToSet(rs) : st[j] = "landed" => j \in Parks(st, rs)
  <2> SUFFICES ASSUME go = {}, NEW i \in DOMAIN rs, st[rs[i]] = "landed"
               PROVE  rs[i] \in Parks(st, rs)
    BY DEF ToSet
  <2>1. \A k \in 1 .. i : k \in DOMAIN rs
    BY <1>2
  <2>2. \A k \in 1 .. i : st[rs[k]] = "landed" => ~Startable(rs[k])
    BY <2>1 DEF StartableLanded
  <2> QED BY <2>2 DEF Parks
<1>5. \A j \in ToSet(rs) : j \in Jobs
  BY <1>2 DEF ToSet
<1>6. None \notin Jobs
  BY NoneIsNoJob
<1> HIDE DEF go, wait, next
<1>7. computing'[u] = next /\ \A v \in Units \ {u} : computing'[v] = computing[v]
  BY <1>1 DEF Typed
<1>8. CASE next = None
  <2>1. PICK after : after = Returned(fr, u)
    OBVIOUS
  <2>2. freeUnits' = after
    BY <1>1, <1>8, <2>1 DEF Returned
  <2>3. Listed(after, u) /\ \A v \in Units : Listed(fr, v) => Listed(after, v)
    BY <2>1, ReturnLists
  <2>4. go = {}
    BY <1>3, <1>6, <1>8
  <2>5. \A j \in ToSet(rs) : stage'[j] # "landed"
    BY <1>1, <1>4, <1>5, <2>4
  <2>6. MannedAt(u)'
    BY <2>2, <2>3, <2>5 DEF MannedAt, IsFree, Listed
  <2>7. \A v \in Units \ {u} : Listed(fr, v) => Listed(freeUnits', v)
    BY <2>2, <2>3 DEF Listed
  <2> QED BY <1>7, <2>6, <2>7 DEF Spares
<1>9. CASE next # None
  <2>1. freeUnits' = fr
    BY <1>1, <1>9
  <2>2. \A v \in Units \ {u} : Listed(fr, v) => Listed(freeUnits', v)
    BY <2>1 DEF Listed
  <2>3. MannedAt(u)'
    BY <1>7, <1>9 DEF MannedAt
  <2> QED BY <1>7, <2>2, <2>3 DEF Spares
<1> QED BY <1>8, <1>9

\* The other units after a step on u.
LEMMA MannedFrom ==
  ASSUME Manned, NEW u \in Units, NEW fr, MannedAt(u)', Spares(u, fr),
         \A v \in Units \ {u} : Listed(freeUnits, v) => Listed(fr, v),
         \A v \in Units \ {u} : residents'[v] = residents[v],
         \A v \in Units \ {u} : \A i \in ToSet(residents[v]) :
           stage'[i] = "landed" => stage[i] = "landed"
  PROVE  Manned'
<1>1. ASSUME NEW v \in Units \ {u} PROVE MannedAt(v)'
  <2>1. /\ computing'[v] = computing[v] /\ residents'[v] = residents[v] /\ MannedAt(v)
        /\ Listed(freeUnits, v) => Listed(freeUnits', v)
        /\ \A i \in ToSet(residents[v]) : stage'[i] = "landed" => stage[i] = "landed"
    BY DEF Manned, Spares
  <2>2. IsFree(v) => IsFree(v)'
    BY <2>1 DEF IsFree, Listed
  <2> QED BY <2>1, <2>2 DEF MannedAt
<1> QED BY <1>1 DEF Manned

\* A step that leaves the claims alone and lands nothing beside an idle unit.
LEMMA MannedStill ==
  ASSUME Manned, UNCHANGED <<computing, freeUnits>>,
         \A v \in Units : computing[v] = None =>
           \A i \in ToSet(residents'[v]) :
             stage'[i] = "landed" => i \in ToSet(residents[v]) /\ stage[i] = "landed"
  PROVE  Manned'
<1>1. ASSUME NEW v \in Units PROVE MannedAt(v)'
  <2>1. IsFree(v)' <=> IsFree(v)
    BY DEF IsFree
  <2> QED BY <2>1 DEF Manned, MannedAt
<1> QED BY <1>1 DEF Manned

\* A unit that is claimed is manned.
LEMMA MannedByClaim ==
  ASSUME Typed, NEW u \in Units, NEW j \in Jobs, computing' = [computing EXCEPT ![u] = j],
         NEW fr, freeUnits' = fr
  PROVE  MannedAt(u)' /\ Spares(u, fr)
<1>1. j # None /\ computing'[u] = j /\ \A v \in Units \ {u} : computing'[v] = computing[v]
  BY NoneIsNoJob DEF Typed
<1> QED BY <1>1 DEF MannedAt, Spares, Listed

LEMMA ArriveMans ==
  ASSUME Typed, Placed, Gated, Manned, NEW j \in Jobs, stage[j] = "moving",
         NEW after, NEW nested, Arrive(j, after, nested)
  PROVE  Manned'
<1> DEFINE Mine(u) == computing[u] = j
           Vacant(u) == computing[u] = None /\ IsFree(u)
<1>1. PICK u : u = UnitOf(j)
  OBVIOUS
<1>2. PICK fr : fr = IF Vacant(u) THEN ClaimUnit(freeUnits, u) ELSE freeUnits
  OBVIOUS
<1>3. PICK st : st = [stage EXCEPT ![j] = "parked"]
  OBVIOUS
<1>4. /\ u \in Units /\ residents[u] \in Seq(Jobs)
      /\ \A v \in Units : \A i \in ToSet(residents[v]) : i \in Jobs
      /\ \A v \in Units \ {u} : \A i \in ToSet(residents[v]) : i # j
  BY <1>1, HomeUnit DEF InSlot
<1>5. /\ (Mine(u) \/ Vacant(u)) /\ Startable(j) =>
           computing' = [computing EXCEPT ![u] = j] /\ freeUnits' = fr
      /\ (Mine(u) \/ Vacant(u)) /\ ~Startable(j) =>
           OfferCompute(u, st, residents[u], flights[u], intakeBusy[u], fr)
      /\ ~(Mine(u) \/ Vacant(u)) => UNCHANGED <<computing, freeUnits>>
  BY <1>1, <1>2, <1>3 DEF Arrive
<1>6. FreeShape(freeUnits) /\ FreeShape(fr)
      /\ \A v \in Units \ {u} : Listed(freeUnits, v) => Listed(fr, v)
  BY <1>2, <1>4, ShapeOfTyped, ClaimShape, ClaimSpares DEF ComputeShape
<1>7. Arrived(j, after, nested)
  BY ArriveMoves
<1>8. /\ UNCHANGED residents
      /\ \A i \in Jobs \ {j} : stage'[i] = "landed" => stage[i] = "landed"
  BY <1>7 DEF Arrived
<1>9. \A v \in Units \ {u} : \A i \in ToSet(residents[v]) :
        stage'[i] = "landed" => stage[i] = "landed"
  BY <1>4, <1>8
<1> HIDE DEF Mine, Vacant
<1>10. CASE (Mine(u) \/ Vacant(u)) /\ Startable(j)
  <2>1. MannedAt(u)' /\ Spares(u, fr)
    BY <1>4, <1>5, <1>10, MannedByClaim
  <2> QED BY <1>4, <1>6, <1>8, <1>9, <2>1, MannedFrom
<1>11. CASE (Mine(u) \/ Vacant(u)) /\ ~Startable(j)
  <2>1. st \in [Jobs -> Stages]
    BY <1>3 DEF Typed, Stages
  <2>2. MannedAt(u)' /\ Spares(u, fr)
    BY <1>4, <1>5, <1>6, <1>8, <1>11, <2>1, OfferMans
  <2> QED BY <1>4, <1>6, <1>8, <1>9, <2>2, MannedFrom
<1>12. CASE ~(Mine(u) \/ Vacant(u))
  <2>1. UNCHANGED <<computing, freeUnits>>
    BY <1>5, <1>12
  <2>2. computing[u] # None
    BY <1>4, <1>12 DEF Manned, MannedAt, Mine, Vacant
  <2> QED BY <1>4, <1>8, <1>9, <2>1, <2>2, MannedStill
<1> QED BY <1>10, <1>11, <1>12

LEMMA PlaceMans ==
  ASSUME UnitsInv, Manned, NEW p \in PoolNames, Place(p)
  PROVE  Manned'
<1> USE DEF UnitsInv
<1>1. PICK j : j = queue[p][Min(Candidates(p))]
  OBVIOUS
<1>2. PICK u : u = EligibleUnit(p, j)
  OBVIOUS
<1>3. /\ j \in Jobs /\ stage[j] = "queued" /\ u \in Units
  BY <1>1, <1>2, Placement DEF Place
<1>4. /\ stage' = [stage EXCEPT ![j] = "moving"]
      /\ residents' = [residents EXCEPT ![u] = Append(@, j)]
      /\ \/ UNCHANGED <<computing, freeUnits>>
         \/ computing' = [computing EXCEPT ![u] = j] /\ freeUnits' = ClaimUnit(freeUnits, u)
  BY <1>1, <1>2 DEF Place, Claims
<1>5. stage'[j] = "moving" /\ \A i \in Jobs \ {j} : stage'[i] = stage[i]
  BY <1>3, <1>4 DEF Typed
<1>6. /\ ToSet(residents'[u]) = ToSet(residents[u]) \cup {j}
      /\ \A v \in Units \ {u} : residents'[v] = residents[v]
  BY <1>3, <1>4, SlotTaken
<1>7. \A v \in Units : \A i \in ToSet(residents[v]) : i \in Jobs /\ stage'[i] = stage[i]
  BY <1>3, <1>5, ToSetOfSeq, NoInput DEF Typed, InSlot
<1>8. \A v \in Units : \A i \in ToSet(residents'[v]) :
        stage'[i] = "landed" => i \in ToSet(residents[v]) /\ stage[i] = "landed"
  <2> SUFFICES ASSUME NEW v \in Units, NEW i \in ToSet(residents'[v]), stage'[i] = "landed"
               PROVE  i \in ToSet(residents[v]) /\ stage[i] = "landed"
    OBVIOUS
  <2>1. i # j
    BY <1>5
  <2>2. i \in ToSet(residents[v])
    BY <1>6, <2>1
  <2> QED BY <1>7, <2>2
<1>9. CASE UNCHANGED <<computing, freeUnits>>
  BY <1>8, <1>9, MannedStill
<1>10. CASE computing' = [computing EXCEPT ![u] = j] /\ freeUnits' = ClaimUnit(freeUnits, u)
  <2>1. PICK fr : fr = ClaimUnit(freeUnits, u)
    OBVIOUS
  <2>2. MannedAt(u)' /\ Spares(u, fr)
    BY <1>3, <1>10, <2>1, MannedByClaim
  <2>3. \A v \in Units \ {u} : Listed(freeUnits, v) => Listed(fr, v)
    BY <1>3, <2>1, ShapeOfTyped, ClaimSpares DEF ComputeShape
  <2>4. \A v \in Units \ {u} : \A i \in ToSet(residents[v]) :
          stage'[i] = "landed" => stage[i] = "landed"
    BY <1>7
  <2> QED BY <1>3, <1>6, <2>2, <2>3, <2>4, MannedFrom
<1> QED BY <1>4, <1>9, <1>10

\* A resident leaves, and the unit is offered or stays with its claim.
LEMMA LeaverMans ==
  ASSUME Typed, Placed, Manned, NEW j \in Jobs, stage[j] \in InSlot, NEW u, u = UnitOf(j),
         NEW s, Yields(j, u, s), s # "landed", NEW rs, rs = RemoveFirst(residents[u], j),
         residents' = [residents EXCEPT ![u] = rs], NEW st, st = [stage EXCEPT ![j] = s],
         s \in Stages,
         \/ \E fl, busy : OfferCompute(u, st, rs, fl, busy, freeUnits)
         \/ UNCHANGED freeUnits /\ UNCHANGED computing
         \/ /\ UNCHANGED freeUnits
            /\ \E c : c # None /\ computing' = [computing EXCEPT ![u] = c]
  PROVE  Manned'
<1>1. /\ u \in Units /\ residents[u] \in Seq(Jobs)
      /\ \A v \in Units : \A i \in ToSet(residents[v]) : i \in Jobs
      /\ \A v \in Units \ {u} : \A i \in ToSet(residents[v]) : i # j
  BY HomeUnit
<1>2. \A i \in Jobs \ {j} : stage'[i] = "landed" => stage[i] = "landed"
  BY DEF Yields
<1>3. /\ rs \in Seq(Jobs) /\ ToSet(rs) = ToSet(residents[u]) \ {j} /\ residents'[u] = rs
      /\ \A v \in Units \ {u} : residents'[v] = residents[v]
  BY <1>1, ResidentsWithout DEF Typed
<1>4. \A v \in Units \ {u} : \A i \in ToSet(residents[v]) :
        stage'[i] = "landed" => stage[i] = "landed"
  BY <1>1, <1>2
<1>5. \A v \in Units \ {u} : Listed(freeUnits, v) => Listed(freeUnits, v)
  OBVIOUS
<1>6. CASE \E fl, busy : OfferCompute(u, st, rs, fl, busy, freeUnits)
  <2>1. st \in [Jobs -> Stages] /\ FreeShape(freeUnits)
    BY ShapeOfTyped DEF Typed, ComputeShape
  <2>2. MannedAt(u)' /\ Spares(u, freeUnits)
    BY <1>1, <1>3, <1>6, <2>1, OfferMans
  <2> QED BY <1>1, <1>3, <1>4, <1>5, <2>2, MannedFrom
<1>7. CASE UNCHANGED freeUnits /\ UNCHANGED computing
  <2>1. \A v \in Units : \A i \in ToSet(residents'[v]) :
          stage'[i] = "landed" => i \in ToSet(residents[v]) /\ stage[i] = "landed"
    BY <1>1, <1>2, <1>3
  <2> QED BY <1>7, <2>1, MannedStill
<1>8. CASE UNCHANGED freeUnits /\ \E c : c # None /\ computing' = [computing EXCEPT ![u] = c]
  <2>1. PICK c : c # None /\ computing' = [computing EXCEPT ![u] = c]
    BY <1>8
  <2>2. computing'[u] = c /\ \A v \in Units \ {u} : computing'[v] = computing[v]
    BY <1>1, <2>1 DEF Typed
  <2>3. MannedAt(u)' /\ Spares(u, freeUnits)
    BY <1>8, <2>1, <2>2 DEF MannedAt, Spares, Listed
  <2> QED BY <1>1, <1>3, <1>4, <1>5, <2>3, MannedFrom
<1> QED BY <1>6, <1>7, <1>8

LEMMA FreeUnitMans ==
  ASSUME Typed, Placed, Gated, Manned, UNCHANGED owed,
         NEW j \in Jobs, stage[j] = "serving", NEW u, u = UnitOf(j),
         NEW s \in Stages \ {"landed"}, NEW after \in Seq(Tasks), FreeUnit(u, j, s, after)
  PROVE  Manned'
<1>1. PICK fl : fl = RemoveFirst(flights[u], j)
  OBVIOUS
<1>2. PICK rs : rs = RemoveFirst(residents[u], j)
  OBVIOUS
<1>3. PICK st : st = [stage EXCEPT ![j] = s]
  OBVIOUS
<1>4. /\ residents' = [residents EXCEPT ![u] = rs]
      /\ FreedClaim(u, j, fl) = None => OfferCompute(u, st, rs, fl, intakeBusy[u], freeUnits)
      /\ FreedClaim(u, j, fl) # None =>
           /\ computing' = [computing EXCEPT ![u] = FreedClaim(u, j, fl)]
           /\ UNCHANGED freeUnits
  BY <1>1, <1>2, <1>3 DEF FreeUnit
<1>5. u \in Units
  BY HomeUnit DEF InSlot
<1>6. Yields(j, u, s)
  BY <1>5, FreeUnitLeaves DEF Left
<1> QED BY <1>2, <1>3, <1>4, <1>6, LeaverMans DEF InSlot

LEMMA UnstageMans ==
  ASSUME Typed, Placed, Gated, Manned, NEW j \in Jobs,
         stage[j] \in {"moving", "landed", "parked"},
         NEW s \in {"withdrawn", "cancelled"}, NEW after \in Seq(Tasks), Unstage(j, s, after)
  PROVE  Manned'
<1>1. PICK u : u = UnitOf(j)
  OBVIOUS
<1>2. PICK rs : rs = RemoveFirst(residents[u], j)
  OBVIOUS
<1>3. PICK st : st = [stage EXCEPT ![j] = s]
  OBVIOUS
<1>4. /\ residents' = [residents EXCEPT ![u] = rs]
      /\ computing[u] = j => OfferCompute(u, st, rs, flights[u], intakeBusy[u], freeUnits)
      /\ computing[u] # j => UNCHANGED freeUnits /\ UNCHANGED computing
  BY <1>1, <1>2, <1>3 DEF Unstage
<1>5. stage[j] \in InSlot /\ s \in Stages \ {"landed"}
  BY DEF InSlot, Stages
<1>6. Yields(j, u, s)
  BY <1>1, <1>5, UnstageLeaves DEF Left
<1> QED BY <1>1, <1>2, <1>3, <1>4, <1>5, <1>6, LeaverMans

LEMMA BoundaryMans ==
  ASSUME UnitsInv, Manned, NEW w \in Windows, NEW d \in Windows, BoundaryArrives(w, d)
  PROVE  Manned'
<1> USE DEF UnitsInv
<1> DEFINE Vacant(u) == computing[u] = None /\ IsFree(u)
<1>1. w \in Jobs /\ UNCHANGED residents
  BY KindsOfJobs DEF BoundaryArrives
<1>2. CASE ~(stage[w] = "parked" /\ owed'[w] = {})
  <2>1. UNCHANGED <<stage, computing, freeUnits>>
    BY <1>2 DEF BoundaryArrives
  <2> QED BY <1>1, <2>1, MannedStill
<1>3. CASE stage[w] = "parked" /\ owed'[w] = {}
  <2>1. PICK u : u = UnitOf(w)
    OBVIOUS
  <2>2. PICK fr : fr = IF Vacant(u) THEN ClaimUnit(freeUnits, u) ELSE freeUnits
    OBVIOUS
  <2>3. /\ Vacant(u) \/ Stealable(u) =>
             /\ stage' = [stage EXCEPT ![w] = "serving"]
             /\ computing' = [computing EXCEPT ![u] = w] /\ freeUnits' = fr
        /\ ~(Vacant(u) \/ Stealable(u)) =>
             /\ stage' = [stage EXCEPT ![w] = "landed"]
             /\ UNCHANGED <<computing, freeUnits>>
    BY <1>3, <2>1, <2>2 DEF BoundaryArrives
  <2>4. /\ u \in Units
        /\ \A v \in Units : \A i \in ToSet(residents[v]) : i \in Jobs
        /\ \A v \in Units \ {u} : \A i \in ToSet(residents[v]) : i # w
    BY <1>1, <1>3, <2>1, HomeUnit DEF InSlot
  <2>5. \A v \in Units \ {u} : \A i \in ToSet(residents[v]) :
          stage'[i] = "landed" => stage[i] = "landed"
    BY <2>3, <2>4 DEF Typed
  <2>6. CASE Vacant(u) \/ Stealable(u)
    <3>1. \A v \in Units \ {u} : Listed(freeUnits, v) => Listed(fr, v)
      BY <2>2, <2>4, ShapeOfTyped, ClaimSpares DEF ComputeShape
    <3>2. MannedAt(u)' /\ Spares(u, fr)
      BY <1>1, <2>3, <2>4, <2>6, MannedByClaim
    <3> QED BY <1>1, <2>4, <2>5, <3>1, <3>2, MannedFrom
  <2>7. CASE ~(Vacant(u) \/ Stealable(u))
    <3>1. computing[u] # None
      BY <2>4, <2>7 DEF Manned, MannedAt
    <3>2. UNCHANGED <<computing, freeUnits>>
      BY <2>3, <2>7
    <3> QED BY <1>1, <2>5, <3>1, <3>2, MannedStill
  <2> QED BY <2>6, <2>7
<1> QED BY <1>2, <1>3

LEMMA InitiationMans ==
  ASSUME UnitsInv, Manned, NEW u \in Units, InitiationComplete(u)
  PROVE  Manned'
<1> USE DEF UnitsInv
<1>1. PICK j : j = intakeBusy[u]
  OBVIOUS
<1>2. /\ UNCHANGED residents
      /\ \/ OfferCompute(u, stage, residents[u], flights[u], None, freeUnits)
         \/ UNCHANGED <<stage, computing, freeUnits>>
  BY <1>1 DEF InitiationComplete
<1>3. CASE OfferCompute(u, stage, residents[u], flights[u], None, freeUnits)
  <2>1. /\ stage \in [Jobs -> Stages] /\ residents[u] \in Seq(Jobs) /\ FreeShape(freeUnits)
        /\ \A v \in Units : \A i \in ToSet(residents[v]) : i \in Jobs
    BY ShapeOfTyped, ToSetOfSeq DEF Typed, ComputeShape
  <2>2. MannedAt(u)' /\ Spares(u, freeUnits)
    BY <1>2, <1>3, <2>1, OfferMans
  <2>3. Settled(stage, residents[u])
    BY <1>3, <2>1, OfferSettles
  <2>4. \A v \in Units \ {u} : \A i \in ToSet(residents[v]) :
          stage'[i] = "landed" => stage[i] = "landed"
    BY <2>1, <2>3 DEF Settled
  <2>5. \A v \in Units \ {u} : Listed(freeUnits, v) => Listed(freeUnits, v)
    OBVIOUS
  <2> QED BY <1>2, <2>2, <2>4, <2>5, MannedFrom
<1>4. CASE UNCHANGED <<stage, computing, freeUnits>>
  BY <1>2, <1>4, MannedStill
<1> QED BY <1>2, <1>3, <1>4

\* A job outside the slots moves, and not into one.
LEMMA OutsideMans ==
  ASSUME UnitsInv, Manned, NEW j \in Jobs, NEW s, s # "landed",
         stage' = [stage EXCEPT ![j] = s], UNCHANGED <<residents, computing, freeUnits>>
  PROVE  Manned'
<1>1. \A v \in Units : \A i \in ToSet(residents[v]) : i \in Jobs
  BY ToSetOfSeq DEF UnitsInv, Typed
<1>2. \A i \in Jobs : stage'[i] = "landed" => stage[i] = "landed"
  BY DEF UnitsInv, Typed
<1> QED BY <1>1, <1>2, MannedStill

LEMMA StillMans ==
  ASSUME Manned, UNCHANGED <<stage, residents, computing, freeUnits>>
  PROVE  Manned'
BY MannedStill

LEMMA MannedStep ==
  ASSUME UnitsInv, Manned, [Next]_vars
  PROVE  Manned'
<1> DEFINE Goal == Manned'
<1>1. ASSUME UNCHANGED vars PROVE Goal
  BY <1>1, StillMans DEF vars
<1>2. ASSUME NEW p \in ToSet(Pools), Place(p) PROVE Goal
  BY <1>2, PlaceMans DEF PoolNames
<1>3. ASSUME NEW p \in ToSet(Pools), DispatchEnds(p) PROVE Goal
  BY <1>3, StillMans DEF DispatchEnds
<1>4. ASSUME NEW j \in Jobs, Land(j) PROVE Goal
  <2>1. CASE Quiet /\ stage[j] = "moving" /\ Arrive(j, <<>>, TryDispatch)
    BY <2>1, ArriveMans DEF UnitsInv
  <2>2. CASE Doing("land", j) /\ Arrive(j, Tail(agenda), <<>>)
    BY <2>2, AtLanding, ArriveMans DEF UnitsInv
  <2> QED BY <1>4, <2>1, <2>2 DEF Land
<1>5. ASSUME NEW j \in Jobs, DecodeDone(j) PROVE Goal
  <2>1. stage[j] = "serving" /\ UNCHANGED owed
    BY <1>5 DEF DecodeDone
  <2>2. j \in Windows => <<<<"conclude", j>>>> \in Seq(Tasks)
    BY DEF Tasks
  <2>3. TryDispatch \in Seq(Tasks)
    BY DispatchesAre, DispatchTasks
  <2>4. CASE j \in Windows /\ FreeUnit(UnitOf(j), j, "concluding", <<<<"conclude", j>>>>)
    BY <2>1, <2>2, <2>4, FreeUnitMans DEF UnitsInv, Stages
  <2>5. CASE FreeUnit(UnitOf(j), j, "done", TryDispatch)
    BY <2>1, <2>3, <2>5, FreeUnitMans DEF UnitsInv, Stages
  <2> QED BY <1>5, <2>4, <2>5 DEF DecodeDone
<1>6. ASSUME NEW j \in Jobs, LateDecodeDone(j) PROVE Goal
  BY <1>6, OutsideMans DEF LateDecodeDone
<1>7. ASSUME NEW j \in Windows, Conclude(j) PROVE Goal
  BY <1>7, StillMans DEF Conclude
<1>8. ASSUME NEW j \in Windows, Finish(j) PROVE Goal
  BY <1>8, OutsideMans, KindsOfJobs DEF Finish
<1>9. ASSUME NEW j \in Windows, Withdraw(j) PROVE Goal
  <2>1. j \in Jobs /\ Tail(agenda) \in Seq(Tasks)
    BY <1>9, KindsOfJobs, RestOfHandler DEF Withdraw, UnitsInv
  <2>2. CASE stage' = [stage EXCEPT ![j] = "withdrawn"]
             /\ UNCHANGED <<residents, computing, freeUnits>>
    BY <2>1, <2>2, OutsideMans
  <2>3. CASE stage[j] \in {"moving", "landed", "parked"}
             /\ Unstage(j, "withdrawn", Tail(agenda))
    BY <2>1, <2>3, UnstageMans DEF UnitsInv
  <2> QED BY <1>9, <2>2, <2>3 DEF Withdraw
<1>10. ASSUME NEW s \in Strongs, Cancel(s) PROVE Goal
  <2>1. s \in Jobs /\ Tail(agenda) \in Seq(Tasks)
    BY <1>10, KindsOfJobs, RestOfHandler DEF Cancel, UnitsInv
  <2>2. CASE UNCHANGED <<stage, residents, computing, freeUnits>>
    BY <2>2, StillMans
  <2>3. CASE stage' = [stage EXCEPT ![s] = "cancelled"]
             /\ UNCHANGED <<residents, computing, freeUnits>>
    BY <2>1, <2>3, OutsideMans
  <2>4. CASE stage[s] \in {"moving", "landed"} /\ Unstage(s, "cancelled", Tail(agenda))
    BY <2>1, <2>4, UnstageMans DEF UnitsInv
  <2>5. CASE stage[s] = "serving" /\ UNCHANGED owed
             /\ FreeUnit(UnitOf(s), s, "stopped", TryDispatch \o Tail(agenda))
    <3>1. TryDispatch \o Tail(agenda) \in Seq(Tasks)
      BY <2>1, DispatchesAre, DispatchTasks, ConcatProperties
    <3> QED BY <2>1, <2>5, <3>1, FreeUnitMans DEF UnitsInv, Stages
  <2> QED BY <1>10, <2>2, <2>3, <2>4, <2>5 DEF Cancel
<1>11. ASSUME NEW j \in Jobs, NEW after, Enqueue(j, after) PROVE Goal
  BY <1>11, OutsideMans DEF Enqueue
<1>12. ASSUME NEW s \in Strongs, SubmitNext(s) PROVE Goal
  BY <1>11, <1>12, KindsOfJobs DEF SubmitNext
<1>13. ASSUME NEW j \in Windows, NEW k \in DOMAIN Chain, Defer(j, k) PROVE Goal
  BY <1>13, StillMans DEF Defer
<1>14. ASSUME NEW k \in DOMAIN Chain, Absorb(k) PROVE Goal
  BY <1>14, StillMans DEF Absorb
<1>15. ASSUME NEW j \in Windows \cup Externals, Submit(j) PROVE Goal
  <2>1. PICK after : Enqueue(j, after)
    BY <1>15 DEF Submit
  <2> QED BY <1>11, <2>1, KindsOfJobs
<1>16. ASSUME NEW w \in Windows, SubmitDeferred(w) PROVE Goal
  <2>1. StrongOf[w] \in Jobs
    BY <1>16, KindsOfJobs DEF SubmitDeferred, UnitsInv, Typed
  <2> QED BY <1>11, <1>16, <2>1 DEF SubmitDeferred
<1>17. ASSUME NEW w \in Windows, NEW d \in Windows, BoundaryArrives(w, d) PROVE Goal
  BY <1>17, BoundaryMans
<1>18. ASSUME NEW u \in Units, InitiationComplete(u) PROVE Goal
  BY <1>18, InitiationMans
<1> HIDE DEF Goal
<1>19. Goal
  BY <1>1, <1>2, <1>3, <1>4, <1>5, <1>6, <1>7, <1>8, <1>9, <1>10, <1>12, <1>13, <1>14,
     <1>15, <1>16, <1>17, <1>18, Zenon DEF Next, Continue
<1> QED BY <1>19 DEF Goal

\* NoStrandedInput: whichever of the six paths clears a claim, with any number
\* of decodes in flight, no input that could be decoded is left in a slot of an
\* idle unit.
THEOREM NoInputIsStranded == Spec => []NoStrandedInput
<1>1. Init => UnitsInv /\ Manned
  <2>1. Claimed => Manned
    BY DEF Claimed, ClaimedAt, Manned, MannedAt
  <2> QED BY <2>1, UnitsInit, ClaimedInit
<1>2. UnitsInv /\ Manned /\ [Next]_vars => UnitsInv' /\ Manned'
  BY UnitsStep, MannedStep
<1>3. Manned => NoStrandedInput
  BY DEF Manned, MannedAt, NoStrandedInput
<1> QED BY <1>1, <1>2, <1>3, PTL DEF Spec

-----------------------------------------------------------------------------
(* No request that fits is left in a queue *)

\* The windows decode in one pool.
OneLane == \A v, w \in Windows : PoolOf[v] = PoolOf[w]

\* A queue with something to place meets a dispatch of its pool: one that is
\* due, or the one at the end of the conclusion under way.
AttendedAt(p) ==
  \/ Candidates(p) = {}
  \/ <<"dispatch", p>> \in ToSet(agenda)
  \/ Concluding # {}
Attended == \A p \in PoolNames : AttendedAt(p)

\* Whether a unit of p can take a job does not depend on the order in which
\* the free ones and the others are tried.
LEMMA FreeOrBusy ==
  ASSUME NEW fr \in Seq(Units), NEW U, ToSet(fr) \subseteq U, NEW S, S \subseteq U
  PROVE  (Those(fr, S) # <<>> \/ {u \in U : u \notin ToSet(fr) /\ u \in S} # {})
           <=> S # {}
<1>1. Those(fr, S) \in Seq(Units) /\ ToSet(Those(fr, S)) = ToSet(fr) \cap S
  BY ThoseElements
<1>2. Those(fr, S) # <<>> <=> ToSet(fr) \cap S # {}
  <2>1. ASSUME Those(fr, S) # <<>> PROVE ToSet(fr) \cap S # {}
    <3>1. PICK t : t = Those(fr, S)
      OBVIOUS
    <3>2. Head(t) \in ToSet(t)
      BY <1>1, <2>1, <3>1, HeadAndTail
    <3> QED BY <1>1, <3>1, <3>2
  <2>2. ASSUME Those(fr, S) = <<>> PROVE ToSet(fr) \cap S = {}
    <3>1. ToSet(Those(fr, S)) = {}
      BY <2>2 DEF ToSet
    <3> QED BY <1>1, <3>1
  <2> QED BY <2>1, <2>2
<1> QED BY <1>2

\* The units of p that can take j, in the slots rs.
Takes(rs, p, j) ==
  {u \in UnitsOf(p) :
     /\ Len(rs[u]) < SlotCapacity(u)
     /\ \/ rs[u] = <<>>
        \/ Capacity[PoolOfUnit(u)] = Unbounded
        \/ Rounds(ToSet(rs[u]) \cup {j}) <= Capacity[PoolOfUnit(u)]}

LEMMA EligibleIs ==
  ASSUME FreeShape(freeUnits), NEW p \in PoolNames, NEW j
  PROVE  Eligible(p, j) <=> StageAdmission(j) /\ Takes(residents, p, j) # {}
<1>1. PICK S : S = Takes(residents, p, j)
  OBVIOUS
<1>2. PICK fr : fr = freeUnits
  OBVIOUS
<1>3. S \subseteq UnitsOf(p) /\ \A u \in UnitsOf(p) : Fits(u, j) <=> u \in S
  BY <1>1 DEF Takes, Fits, SlotMemoryOk
<1>4. FreeFits(p, j) = Those(fr[p], S)
  <2>1. {u \in UnitsOf(p) : Fits(u, j)} = S
    BY <1>3
  <2> QED BY <1>2, <2>1 DEF FreeFits
<1>5. \A u \in UnitsOf(p) : IsFree(u) <=> u \in ToSet(fr[p])
  BY <1>2, UnitFacts DEF IsFree
<1>6. BusyFits(p, j) = {u \in UnitsOf(p) : u \notin ToSet(fr[p]) /\ u \in S}
  BY <1>3, <1>5 DEF BusyFits
<1>7. fr[p] \in Seq(Units) /\ ToSet(fr[p]) \subseteq UnitsOf(p)
  BY <1>2 DEF FreeShape
<1>8. (FreeFits(p, j) # <<>> \/ BusyFits(p, j) # {}) <=> S # {}
  BY <1>3, <1>4, <1>6, <1>7, FreeOrBusy
<1> QED BY <1>1, <1>8 DEF Eligible

\* The same of the next state.
LEMMA EligibleNext ==
  ASSUME FreeShape(freeUnits'), NEW p \in PoolNames, NEW j
  PROVE  Eligible(p, j)' <=> StageAdmission(j)' /\ Takes(residents', p, j) # {}
<1>1. PICK S : S = Takes(residents', p, j)
  OBVIOUS
<1>2. PICK fr : fr = freeUnits'
  OBVIOUS
<1>3. S \subseteq UnitsOf(p) /\ \A u \in UnitsOf(p) : Fits(u, j)' <=> u \in S
  BY <1>1 DEF Takes, Fits, SlotMemoryOk
<1>4. FreeFits(p, j)' = Those(fr[p], S)
  <2>1. {u \in UnitsOf(p) : Fits(u, j)'} = S
    BY <1>3
  <2> QED BY <1>2, <2>1 DEF FreeFits
<1>5. \A u \in UnitsOf(p) : IsFree(u)' <=> u \in ToSet(fr[p])
  BY <1>2, UnitFacts DEF IsFree
<1>6. BusyFits(p, j)' = {u \in UnitsOf(p) : u \notin ToSet(fr[p]) /\ u \in S}
  BY <1>3, <1>5 DEF BusyFits
<1>7. fr[p] \in Seq(Units) /\ ToSet(fr[p]) \subseteq UnitsOf(p)
  BY <1>2 DEF FreeShape
<1>8. (FreeFits(p, j)' # <<>> \/ BusyFits(p, j)' # {}) <=> S # {}
  BY <1>3, <1>4, <1>6, <1>7, FreeOrBusy
<1> QED BY <1>1, <1>8 DEF Eligible

\* A pool has candidates when something in its queue is admitted and fits.
LEMMA NoCandidates ==
  ASSUME NEW p \in PoolNames
  PROVE  Candidates(p) = {} <=> \A i \in DOMAIN queue[p] : ~Eligible(p, queue[p][i])
BY DEF Candidates

\* Where the queue and the slots of a pool stay and nothing in the queue comes
\* to be admitted, no candidate comes up.
LEMMA NobodyNew ==
  ASSUME FreeShape(freeUnits), FreeShape(freeUnits'), NEW p \in PoolNames,
         queue'[p] = queue[p], \A u \in UnitsOf(p) : residents'[u] = residents[u],
         \A i \in DOMAIN queue[p] : StageAdmission(queue[p][i])' => StageAdmission(queue[p][i]),
         Candidates(p) = {}
  PROVE  Candidates(p)' = {}
<1>1. \A j : Takes(residents', p, j) = Takes(residents, p, j)
  BY DEF Takes
<1>2. ASSUME NEW i \in DOMAIN queue'[p] PROVE ~Eligible(p, queue[p][i])'
  <2>1. PICK j : j = queue[p][i]
    OBVIOUS
  <2>2. ~(StageAdmission(j) /\ Takes(residents, p, j) # {})
    BY <2>1, NoCandidates, EligibleIs
  <2>3. StageAdmission(j)' => StageAdmission(j)
    BY <2>1
  <2>4. Eligible(p, j)' <=> StageAdmission(j)' /\ Takes(residents', p, j) # {}
    BY EligibleNext
  <2> QED BY <1>1, <2>1, <2>2, <2>3, <2>4
<1> QED BY <1>2 DEF Candidates

\* What the recursion of _resolving_without_new_slots says of r.
Sure(w) == w \in absorbed \/ Begun(w)
Hopes(w) == stage[w] \in {"moving", "landed", "parked"}
Resolves(r) == r = [w \in Windows |-> Sure(w) \/ (Hopes(w) /\ \A d \in Deps[w] : r[d])]

\* A window that begins resolved before, because the windows it reads had.
LEMMA ResolvesSame ==
  ASSUME \A w \in Windows :
           \/ (Sure(w)' <=> Sure(w)) /\ (Hopes(w)' <=> Hopes(w))
           \/ Hopes(w) /\ Sure(w)' /\ \A d \in Deps[w] : Sure(d) /\ Sure(d)'
  PROVE  Resolving' = Resolving
<1> DEFINE Now(r, w) == Sure(w) \/ (Hopes(w) /\ \A d \in Deps[w] : r[d])
           Then(r, w) == Sure(w)' \/ (Hopes(w)' /\ \A d \in Deps[w] : r[d])
<1>1. \A w \in Windows : Deps[w] \subseteq Windows
  BY UnitsAssumption
<1>2. ASSUME NEW r, \A w \in Windows : r[w] <=> Now(r, w), NEW w \in Windows
      PROVE  Now(r, w) <=> Then(r, w)
  <2>1. CASE (Sure(w)' <=> Sure(w)) /\ (Hopes(w)' <=> Hopes(w))
    BY <2>1
  <2>2. CASE Hopes(w) /\ Sure(w)' /\ \A d \in Deps[w] : Sure(d)
    <3>1. \A d \in Deps[w] : r[d]
      BY <1>1, <1>2, <2>2
    <3> QED BY <2>2, <3>1
  <2> QED BY <2>1, <2>2
<1>3. ASSUME NEW r, \A w \in Windows : r[w] <=> Then(r, w), NEW w \in Windows
      PROVE  Now(r, w) <=> Then(r, w)
  <2>1. CASE (Sure(w)' <=> Sure(w)) /\ (Hopes(w)' <=> Hopes(w))
    BY <2>1
  <2>2. CASE Hopes(w) /\ Sure(w)' /\ \A d \in Deps[w] : Sure(d)'
    <3>1. \A d \in Deps[w] : r[d]
      BY <1>1, <1>3, <2>2
    <3> QED BY <2>2, <3>1
  <2> QED BY <2>1, <2>2
<1> HIDE DEF Now, Then
<1>4. ASSUME NEW r PROVE (r = [w \in Windows |-> Now(r, w)]) <=> (r = [w \in Windows |-> Then(r, w)])
  <2>1. ASSUME r = [w \in Windows |-> Now(r, w)] PROVE r = [w \in Windows |-> Then(r, w)]
    <3>1. \A w \in Windows : r[w] <=> Now(r, w)
      BY <2>1
    <3>2. \A w \in Windows : Now(r, w) = Then(r, w)
      BY <1>2, <3>1 DEF Now, Then
    <3> QED BY <2>1, <3>2
  <2>2. ASSUME r = [w \in Windows |-> Then(r, w)] PROVE r = [w \in Windows |-> Now(r, w)]
    <3>1. \A w \in Windows : r[w] <=> Then(r, w)
      BY <2>2
    <3>2. \A w \in Windows : Now(r, w) = Then(r, w)
      BY <1>3, <3>1 DEF Now, Then
    <3> QED BY <2>2, <3>2
  <2> QED BY <2>1, <2>2
<1>5. \A r : Resolves(r) <=> Resolves(r)'
  BY <1>4 DEF Resolves, Now, Then
<1>6. Resolving = CHOOSE r : Resolves(r)
  BY DEF Resolving, Resolves, Sure, Hopes
<1>7. Resolving' = CHOOSE r : Resolves(r)'
  BY DEF Resolving, Resolves, Sure, Hopes
<1> QED BY <1>5, <1>6, <1>7

\* A step that brings no candidate and takes no due dispatch off the agenda.
LEMMA AttendedStill ==
  ASSUME FreeShape(freeUnits), FreeShape(freeUnits'), NEW p \in PoolNames, AttendedAt(p),
         queue'[p] = queue[p], \A u \in UnitsOf(p) : residents'[u] = residents[u],
         \A i \in DOMAIN queue[p] : StageAdmission(queue[p][i])' => StageAdmission(queue[p][i]),
         Concluding # {} => Concluding' # {},
         <<"dispatch", p>> \in ToSet(agenda) /\ Candidates(p) # {} =>
           <<"dispatch", p>> \in ToSet(agenda')
  PROVE  AttendedAt(p)'
<1>1. CASE Candidates(p) = {}
  BY <1>1, NobodyNew DEF AttendedAt
<1>2. CASE Candidates(p) # {}
  BY <1>2 DEF AttendedAt
<1> QED BY <1>1, <1>2

\* Nothing about admission changes.
LEMMA AdmissionSame ==
  ASSUME UNCHANGED owed, Resolving' = Resolving
  PROVE  \A j : StageAdmission(j)' <=> StageAdmission(j)
BY DEF StageAdmission, Startable

\* A task that is not the first one is still due when the first is done.
LEMMA StillDue ==
  ASSUME agenda \in Seq(Tasks), NEW t, NEW x, Doing(t, x),
         NEW r, NEW y, <<r, y>> \in ToSet(agenda), r # t \/ y # x
  PROVE  <<r, y>> \in ToSet(Tail(agenda))
<1>1. agenda # <<>> /\ Head(agenda) = <<t, x>>
  BY DEF Doing, Quiet
<1>2. ToSet(agenda) = {Head(agenda)} \cup ToSet(Tail(agenda))
  BY <1>1, HeadAndTail
<1>3. <<r, y>> # <<t, x>>
  BY SameTask
<1> QED BY <1>1, <1>2, <1>3

\* After a round of dispatches everybody is attended.
LEMMA DispatchesAttend ==
  ASSUME NEW X \in Dispatches, NEW after \in Seq(Tasks),
         \/ agenda' = TryDispatch
         \/ agenda' = TryDispatch \o after
         \/ agenda' = X \o TryDispatch
         \/ agenda' = X \o (TryDispatch \o after)
  PROVE  Attended'
<1>1. TryDispatch \in Seq(Tasks) /\ X \in Seq(Tasks)
  BY DispatchesAre, DispatchTasks
<1>2. TryDispatch \o after \in Seq(Tasks)
      /\ ToSet(TryDispatch \o after) = ToSet(TryDispatch) \cup ToSet(after)
  BY <1>1, ConcatElements
<1>3. ToSet(X \o TryDispatch) = ToSet(X) \cup ToSet(TryDispatch)
  BY <1>1, ConcatElements
<1>4. ToSet(X \o (TryDispatch \o after)) = ToSet(X) \cup ToSet(TryDispatch \o after)
  <2>1. \A t \in Seq(Tasks) : ToSet(X \o t) = ToSet(X) \cup ToSet(t)
    BY <1>1, ConcatElements
  <2> QED BY <1>2, <2>1
<1>5. ToSet(TryDispatch) \subseteq ToSet(agenda')
  BY <1>2, <1>3, <1>4
<1>6. \A p \in PoolNames : <<"dispatch", p>> \in ToSet(agenda')
  BY <1>5, DispatchesAre
<1> QED BY <1>6 DEF Attended, AttendedAt

\* While a decode is being concluded a dispatch is to come.
LEMMA ConclusionAttends == ASSUME Concluding' # {} PROVE Attended'
BY DEF Attended, AttendedAt

LEMMA PlaceAttends ==
  ASSUME UnitsInv, UnitsInv', OneLane, Attended, NEW p \in PoolNames, Place(p)
  PROVE  Attended'
<1>1. PICK j : j = queue[p][Min(Candidates(p))]
  OBVIOUS
<1>2. PICK u : u = EligibleUnit(p, j)
  OBVIOUS
<1>3. /\ j \in Jobs /\ stage[j] = "queued" /\ PoolOf[j] = p
      /\ u \in Units /\ PoolOfUnit(u) = p
  BY <1>1, <1>2, Placement DEF Place, UnitsInv
<1>4. /\ queue' = [queue EXCEPT ![p] = RemoveFirst(@, j)]
      /\ stage' = [stage EXCEPT ![j] = "moving"]
      /\ residents' = [residents EXCEPT ![u] = Append(@, j)]
      /\ agenda' = agenda \/ agenda' = <<<<"land", j>>>> \o agenda
      /\ UNCHANGED <<owed, absorbed>>
  BY <1>1, <1>2 DEF Place
<1>5. agenda \in Seq(Tasks) /\ agenda # <<>> /\ Head(agenda) = <<"dispatch", p>>
  BY DEF Place, Doing, Quiet, UnitsInv, Typed
<1>6. ToSet(agenda) \subseteq ToSet(agenda')
  <2>1. <<<<"land", j>>>> \in Seq(Tasks)
    BY <1>3 DEF Tasks
  <2>2. ToSet(<<<<"land", j>>>> \o agenda) = ToSet(<<<<"land", j>>>>) \cup ToSet(agenda)
    BY <1>5, <2>1, ConcatElements
  <2> QED BY <1>4, <2>2
<1>7. stage'[j] = "moving" /\ \A i \in Jobs \ {j} : stage'[i] = stage[i]
  BY <1>3, <1>4 DEF UnitsInv, Typed
<1>8. Concluding # {} => Concluding' # {}
  BY <1>3, <1>7 DEF Concluding
<1>9. FreeShape(freeUnits) /\ FreeShape(freeUnits')
  BY DEF UnitsInv, Typed, FreeShape
<1>10. AttendedAt(p)'
  <2>1. Head(agenda) \in ToSet(agenda)
    BY <1>5, HeadAndTail
  <2> QED BY <1>5, <1>6, <2>1 DEF AttendedAt
<1>11. ASSUME NEW q \in PoolNames \ {p} PROVE AttendedAt(q)'
  <2>1. queue'[q] = queue[q] /\ queue[q] \in Seq(Jobs)
    BY <1>4 DEF UnitsInv, Typed
  <2>2. \A v \in UnitsOf(q) : residents'[v] = residents[v]
    BY <1>3, <1>4, UnitFacts DEF UnitsInv, Typed
  <2>3. ASSUME NEW n \in DOMAIN queue[q], StageAdmission(queue[q][n])'
        PROVE  StageAdmission(queue[q][n])
    <3>1. PICK i : i = queue[q][n]
      OBVIOUS
    <3>2. i \in Jobs /\ PoolOf[i] = q
      <4>1. i \in ToSet(queue[q])
        BY <3>1 DEF ToSet
      <4> QED BY <4>1 DEF UnitsInv, Placed
    <3>3. CASE i \notin Windows
      BY <3>1, <3>3 DEF StageAdmission, Startable
    <3>4. CASE i \in Windows
      <4>1. j \notin Windows
        BY <1>3, <3>2, <3>4 DEF OneLane
      <4>2. \A w \in Windows : stage'[w] = stage[w]
        BY <1>7, <4>1, KindsOfJobs
      <4>3. Resolving' = Resolving
        BY <1>4, <4>2, ResolvesSame DEF Sure, Hopes, Begun
      <4>4. StageAdmission(i)' <=> StageAdmission(i)
        BY <1>4, <4>3, AdmissionSame
      <4> QED BY <2>1, <2>3, <3>1, <4>4
    <3> QED BY <3>3, <3>4
  <2>4. AttendedAt(q)
    BY DEF Attended
  <2> QED BY <1>6, <1>8, <1>9, <2>1, <2>2, <2>3, <2>4, AttendedStill
<1> QED BY <1>10, <1>11 DEF Attended

\* A transfer that ends changes nobody's chance of a slot.
LEMMA ArrivalAdmits ==
  ASSUME UnitsInv, NEW j \in Jobs, stage[j] = "moving", NEW after, NEW nested,
         Arrived(j, after, nested)
  PROVE  Resolving' = Resolving /\ (Concluding # {} => Concluding' # {})
<1>1. /\ UNCHANGED <<absorbed, owed>>
      /\ \A i \in Jobs : Moved(i)
      /\ stage'[j] \in {"landed", "parked", "serving"}
      /\ \A i \in Jobs \ {j} :
           \/ stage'[i] = stage[i]
           \/ stage[i] = "landed" /\ stage'[i] \in {"serving", "parked"}
  BY DEF Arrived
<1>2. \A i \in Jobs : stage[i] \in Over => stage'[i] = stage[i]
  BY <1>1 DEF Over
<1>3. Concluding # {} => Concluding' # {}
  BY <1>2 DEF Concluding, Over
<1>4. ASSUME NEW w \in Windows
      PROVE  \/ (Sure(w)' <=> Sure(w)) /\ (Hopes(w)' <=> Hopes(w))
             \/ Hopes(w) /\ Sure(w)' /\ \A d \in Deps[w] : Sure(d) /\ Sure(d)'
  <2>1. w \in Jobs /\ Deps[w] \subseteq Jobs
    BY KindsOfJobs, UnitsAssumption
  <2>2. CASE stage'[w] = stage[w]
    BY <1>1, <2>2 DEF Sure, Hopes, Begun
  <2>3. CASE Hopes(w) /\ stage'[w] \in {"landed", "parked"}
    BY <1>1, <2>3 DEF Sure, Hopes, Begun
  <2>4. CASE stage[w] \in {"moving", "landed"} /\ stage'[w] = "serving"
    <3>1. Ready(w)
      BY <1>1, <2>1, <2>4 DEF Moved
    <3>2. \A d \in Deps[w] : stage[d] = "done" \/ d \in absorbed
      BY <3>1 DEF Ready
    <3>3. \A d \in Deps[w] : Sure(d) /\ Sure(d)'
      BY <1>1, <1>2, <2>1, <3>2 DEF Sure, Begun, Over
    <3> QED BY <2>4, <3>3 DEF Hopes, Sure, Begun
  <2> QED BY <1>1, <2>1, <2>2, <2>3, <2>4 DEF Hopes
<1> QED BY <1>3, <1>4, ResolvesSame

LEMMA LandAttends ==
  ASSUME UnitsInv, UnitsInv', Attended, NEW j \in Jobs, Land(j)
  PROVE  Attended'
<1>1. FreeShape(freeUnits) /\ FreeShape(freeUnits') /\ agenda \in Seq(Tasks)
  BY DEF UnitsInv, Typed, FreeShape
<1>2. \E after, nested : stage[j] = "moving" /\ Arrived(j, after, nested)
  <2>1. CASE Quiet /\ stage[j] = "moving" /\ Arrive(j, <<>>, TryDispatch)
    BY <2>1, ArriveMoves DEF UnitsInv
  <2>2. CASE Doing("land", j) /\ Arrive(j, Tail(agenda), <<>>)
    BY <2>2, AtLanding, ArriveMoves DEF UnitsInv
  <2> QED BY <2>1, <2>2 DEF Land
<1>3. UNCHANGED <<queue, residents, owed>>
  BY <1>2 DEF Arrived
<1>4. Resolving' = Resolving /\ (Concluding # {} => Concluding' # {})
  BY <1>2, ArrivalAdmits
<1>5. \A i : StageAdmission(i)' <=> StageAdmission(i)
  BY <1>3, <1>4, AdmissionSame
<1>6. ASSUME NEW p \in PoolNames, <<"dispatch", p>> \in ToSet(agenda)
      PROVE  <<"dispatch", p>> \in ToSet(agenda')
  <2>1. ~Quiet
    BY <1>6 DEF Quiet, ToSet
  <2>2. Doing("land", j) /\ Arrive(j, Tail(agenda), <<>>)
    BY <2>1 DEF Land
  <2>3. <<"dispatch", p>> \in ToSet(Tail(agenda))
    BY <1>1, <1>6, <2>2, StillDue
  <2>4. Tail(agenda) \in Seq(Tasks)
    BY <2>2, RestOfHandler DEF UnitsInv
  <2>5. agenda' = Tail(agenda)
    <3>1. agenda' = Tail(agenda) \/ agenda' = <<>> \o Tail(agenda)
      BY <2>2 DEF Arrive
    <3> QED BY <2>4, <3>1, EmptyBefore
  <2> QED BY <2>3, <2>5
<1>7. ASSUME NEW p \in PoolNames PROVE AttendedAt(p)'
  <2>1. AttendedAt(p)
    BY DEF Attended
  <2>2. \A i \in DOMAIN queue[p] : StageAdmission(queue[p][i])' => StageAdmission(queue[p][i])
    BY <1>3, <1>5 DEF StageAdmission, Startable
  <2> QED BY <1>1, <1>3, <1>4, <1>6, <2>1, <2>2, AttendedStill
<1> QED BY <1>7 DEF Attended

\* A step that moves no job takes one task off the agenda, or none.
LEMMA StillAttends ==
  ASSUME UnitsInv, UnitsInv', Attended,
         UNCHANGED <<stage, queue, residents, owed, absorbed>>,
         \A p \in PoolNames : <<"dispatch", p>> \in ToSet(agenda) /\ Candidates(p) # {} =>
           <<"dispatch", p>> \in ToSet(agenda')
  PROVE  Attended'
<1>1. FreeShape(freeUnits) /\ FreeShape(freeUnits')
  BY DEF UnitsInv, Typed, FreeShape
<1>2. Resolving' = Resolving
  BY ResolvesSame DEF Sure, Hopes, Begun
<1>3. Concluding' = Concluding
  BY DEF Concluding
<1>4. ASSUME NEW p \in PoolNames PROVE AttendedAt(p)'
  <2>1. \A i \in DOMAIN queue[p] : StageAdmission(queue[p][i])' => StageAdmission(queue[p][i])
    BY <1>2 DEF StageAdmission, Startable
  <2>2. AttendedAt(p)
    BY DEF Attended
  <2> QED BY <1>1, <1>3, <2>1, <2>2, AttendedStill
<1> QED BY <1>4 DEF Attended

\* The handler goes on to a decode that is still being concluded.
LEMMA ConcludingAttends ==
  ASSUME Typed, Handling, UNCHANGED stage, NEW w \in Windows,
         \/ Doing("conclude", w)
         \/ \E k \in DOMAIN Chain : Doing("absorb", k)
  PROVE  Attended'
<1>1. Concluding # {}
  BY AtConclusion, AtAbsorption
<1>2. Concluding' # {}
  BY <1>1 DEF Concluding
<1> QED BY <1>2, ConclusionAttends

LEMMA AttendedStep ==
  ASSUME UnitsInv, UnitsInv', OneLane, Attended, [Next]_vars
  PROVE  Attended'
<1> DEFINE Goal == Attended'
<1>0. Typed /\ Handling /\ <<>> \in Dispatches /\ <<>> \in Seq(Tasks)
      /\ \A t, x : Doing(t, x) => Tail(agenda) \in Seq(Tasks)
  BY DispatchesAre, EmptySeq, RestOfHandler DEF UnitsInv
<1>1. ASSUME UNCHANGED vars PROVE Goal
  BY <1>1, StillAttends DEF vars
<1>2. ASSUME NEW p \in ToSet(Pools), Place(p) PROVE Goal
  BY <1>2, PlaceAttends DEF PoolNames
<1>3. ASSUME NEW p \in ToSet(Pools), DispatchEnds(p) PROVE Goal
  <2>1. /\ Doing("dispatch", p) /\ Candidates(p) = {} /\ agenda' = Tail(agenda)
        /\ UNCHANGED <<stage, queue, residents, owed, absorbed>>
    BY <1>3 DEF DispatchEnds
  <2>2. ASSUME NEW q \in PoolNames, <<"dispatch", q>> \in ToSet(agenda), Candidates(q) # {}
        PROVE  <<"dispatch", q>> \in ToSet(agenda')
    <3>1. q # p
      BY <2>1, <2>2
    <3> QED BY <1>0, <2>1, <2>2, <3>1, StillDue DEF Typed
  <2> QED BY <2>1, <2>2, StillAttends
<1>4. ASSUME NEW j \in Jobs, Land(j) PROVE Goal
  BY <1>4, LandAttends
<1>5. ASSUME NEW j \in Jobs, DecodeDone(j) PROVE Goal
  <2>1. stage[j] = "serving" /\ UNCHANGED owed
    BY <1>5 DEF DecodeDone
  <2>2. UnitOf(j) \in Units
    BY <2>1, UnitOfStaged DEF UnitsInv, InSlot
  <2>3. <<<<"conclude", j>>>> \in Seq(Tasks) \/ j \notin Windows
    BY DEF Tasks
  <2>4. CASE j \in Windows /\ FreeUnit(UnitOf(j), j, "concluding", <<<<"conclude", j>>>>)
    <3>1. Left(j, UnitOf(j), "concluding", <<<<"conclude", j>>>>)
      BY <2>1, <2>2, <2>3, <2>4, FreeUnitLeaves DEF UnitsInv, Stages
    <3>2. stage'[j] = "concluding"
      BY <3>1 DEF Left, Yields
    <3>3. Concluding' # {}
      BY <3>2 DEF Concluding
    <3> QED BY <3>3, ConclusionAttends
  <2>5. CASE FreeUnit(UnitOf(j), j, "done", TryDispatch)
    <3>1. TryDispatch \in Seq(Tasks)
      BY DispatchesAre, DispatchTasks
    <3>2. Left(j, UnitOf(j), "done", TryDispatch)
      BY <2>1, <2>2, <2>5, <3>1, FreeUnitLeaves DEF UnitsInv, Stages
    <3>3. PICK X \in Dispatches : agenda' = X \o TryDispatch
      BY <3>2 DEF Left
    <3> QED BY <1>0, <3>3, DispatchesAttend
  <2> QED BY <1>5, <2>4, <2>5 DEF DecodeDone
<1>6. ASSUME NEW j \in Jobs, LateDecodeDone(j) PROVE Goal
  <2>1. agenda' = TryDispatch
    BY <1>6 DEF LateDecodeDone
  <2> QED BY <1>0, <2>1, DispatchesAttend
<1>7. ASSUME NEW w \in Windows, Conclude(w) PROVE Goal
  BY <1>0, <1>7, ConcludingAttends DEF Conclude
<1>8. ASSUME NEW w \in Windows, Finish(w) PROVE Goal
  <2>1. Doing("finish", w) /\ agenda' = TryDispatch \o Tail(agenda)
    BY <1>8 DEF Finish
  <2> QED BY <1>0, <2>1, DispatchesAttend
<1>9. ASSUME NEW j \in Jobs, stage[j] \in InSlot, NEW s \in Stages \ {"landed"},
             NEW after \in Seq(Tasks), Unstage(j, s, after)
      PROVE  Goal
  <2>1. PICK st, rs : \/ agenda' = TryDispatch \o after
                      \/ agenda' = AfterParks(st, rs) \o TryDispatch \o after
    BY <1>9 DEF Unstage
  <2>2. PICK X \in Dispatches : X = AfterParks(st, rs)
    BY DispatchesAre
  <2>3. \A Y \in Dispatches : (X \o Y) \o after = X \o (Y \o after)
    BY DispatchesJoin
  <2>4. (X \o TryDispatch) \o after = X \o (TryDispatch \o after)
    BY <2>3, DispatchesAre
  <2> QED BY <2>1, <2>2, <2>4, DispatchesAttend
<1>10. ASSUME NEW w \in Windows, Withdraw(w) PROVE Goal
  <2>1. Tail(agenda) \in Seq(Tasks) /\ w \in Jobs
    BY <1>0, <1>10, KindsOfJobs DEF Withdraw
  <2>2. CASE agenda' = TryDispatch \o Tail(agenda)
    BY <1>0, <2>1, <2>2, DispatchesAttend
  <2>3. CASE stage[w] \in {"moving", "landed", "parked"} /\ Unstage(w, "withdrawn", Tail(agenda))
    BY <1>9, <2>1, <2>3 DEF InSlot, Stages
  <2> QED BY <1>10, <2>2, <2>3 DEF Withdraw
<1>11. ASSUME NEW s \in Strongs, Cancel(s) PROVE Goal
  <2>1. Doing("cancel", s) /\ Tail(agenda) \in Seq(Tasks) /\ s \in Jobs
        /\ UNCHANGED <<owed, absorbed>>
    BY <1>0, <1>11, KindsOfJobs DEF Cancel
  <2>2. CASE agenda' = Tail(agenda) /\ UNCHANGED <<stage, queue, residents>>
    <3>1. \A p \in PoolNames : <<"dispatch", p>> \in ToSet(agenda) =>
            <<"dispatch", p>> \in ToSet(agenda')
      BY <1>0, <2>1, <2>2, StillDue DEF Typed
    <3> QED BY <2>1, <2>2, <3>1, StillAttends
  <2>3. CASE agenda' = TryDispatch \o Tail(agenda)
    BY <1>0, <2>1, <2>3, DispatchesAttend
  <2>4. CASE stage[s] \in {"moving", "landed"} /\ Unstage(s, "cancelled", Tail(agenda))
    BY <1>9, <2>1, <2>4 DEF InSlot, Stages
  <2>5. CASE stage[s] = "serving"
             /\ FreeUnit(UnitOf(s), s, "stopped", TryDispatch \o Tail(agenda))
    <3>1. PICK after : after = TryDispatch \o Tail(agenda)
      OBVIOUS
    <3>2. after \in Seq(Tasks)
      BY <2>1, <3>1, DispatchesAre, DispatchTasks, ConcatProperties
    <3>3. UnitOf(s) \in Units
      BY <2>1, <2>5, UnitOfStaged DEF UnitsInv, InSlot
    <3>4. Left(s, UnitOf(s), "stopped", after)
      BY <2>1, <2>5, <3>1, <3>2, <3>3, FreeUnitLeaves DEF UnitsInv, Stages
    <3>5. PICK X \in Dispatches : agenda' = X \o after
      BY <3>4 DEF Left
    <3> QED BY <2>1, <3>1, <3>5, DispatchesAttend
  <2> QED BY <1>11, <2>2, <2>3, <2>4, <2>5 DEF Cancel
<1>12. ASSUME NEW j \in Jobs, NEW after \in Seq(Tasks), Enqueue(j, after) PROVE Goal
  <2>1. agenda' = TryDispatch \o after
    BY <1>12 DEF Enqueue
  <2> QED BY <1>0, <2>1, DispatchesAttend
<1>13. ASSUME NEW s \in Strongs, SubmitNext(s) PROVE Goal
  BY <1>0, <1>12, <1>13, KindsOfJobs DEF SubmitNext
<1>14. ASSUME NEW w \in Windows, NEW k \in DOMAIN Chain, Defer(w, k) PROVE Goal
  BY <1>0, <1>14, ConcludingAttends DEF Defer
<1>15. ASSUME NEW k \in DOMAIN Chain, Absorb(k) PROVE Goal
  <2>1. Concluding # {}
    BY <1>0, <1>15, AtAbsorption DEF Absorb
  <2>2. Concluding' # {}
    BY <1>15, <2>1 DEF Absorb, Concluding
  <2> QED BY <2>2, ConclusionAttends
<1>16. ASSUME NEW j \in Windows \cup Externals, Submit(j) PROVE Goal
  <2>1. PICK after \in {<<>>, <<<<"submit", StrongOf[j]>>>>} :
          Enqueue(j, after) /\ (after = <<>> \/ (j \in Windows /\ StrongOf[j] # None))
    BY <1>16 DEF Submit
  <2>2. after \in Seq(Tasks)
    <3>1. CASE after = <<>>
      BY <1>0, <3>1
    <3>2. CASE j \in Windows /\ StrongOf[j] # None /\ after = <<<<"submit", StrongOf[j]>>>>
      <4>1. StrongOf[j] \in Strongs
        BY <3>2, UnitsAssumption
      <4>2. <<"submit", StrongOf[j]>> \in Tasks
        BY <4>1 DEF Tasks
      <4> QED BY <3>2, <4>2
    <3> QED BY <2>1, <3>1, <3>2
  <2> QED BY <1>12, <2>1, <2>2, KindsOfJobs
<1>17. ASSUME NEW w \in Windows, SubmitDeferred(w) PROVE Goal
  <2>1. StrongOf[w] \in Jobs
    BY <1>17, KindsOfJobs DEF SubmitDeferred, UnitsInv, Typed
  <2> QED BY <1>0, <1>12, <1>17, <2>1 DEF SubmitDeferred
<1>18. ASSUME NEW w \in Windows, NEW d \in Windows, BoundaryArrives(w, d) PROVE Goal
  <2>1. agenda' = TryDispatch
    BY <1>18 DEF BoundaryArrives
  <2> QED BY <1>0, <2>1, DispatchesAttend
<1>19. ASSUME NEW u \in Units, InitiationComplete(u) PROVE Goal
  <2>1. CASE agenda' = AfterParks(stage, residents[u]) \o TryDispatch
    <3>1. PICK X \in Dispatches : X = AfterParks(stage, residents[u])
      BY DispatchesAre
    <3> QED BY <1>0, <2>1, <3>1, DispatchesAttend
  <2>2. CASE UNCHANGED <<stage, agenda, queue, residents, owed, absorbed>>
    BY <2>2, StillAttends
  <2> QED BY <1>19, <2>1, <2>2 DEF InitiationComplete
<1> HIDE DEF Goal
<1>20. Goal
  BY <1>1, <1>2, <1>3, <1>4, <1>5, <1>6, <1>7, <1>8, <1>10, <1>11, <1>13, <1>14, <1>15,
     <1>16, <1>17, <1>18, <1>19, Zenon DEF Next, Continue
<1> QED BY <1>20 DEF Goal

\* NothingForgotten: when an event is over, no request that fits is left in a
\* queue and no input that could be decoded in a slot.  A pool is dispatched
\* once per round, in the order of the pools, so that a placement in one pool
\* must not admit a window in another: the windows decode in one pool.
THEOREM NothingIsForgotten ==
  ASSUME OneLane
  PROVE  Spec => []NothingForgotten
<1>1. Init => UnitsInv /\ Attended
  <2>1. Init => Attended
    <3> SUFFICES ASSUME Init, NEW p \in PoolNames PROVE Candidates(p) = {}
      BY DEF Attended, AttendedAt
    <3>1. queue[p] = <<>>
      BY DEF Init, PoolNames
    <3> QED BY <3>1, NoCandidates
  <2> QED BY <2>1, UnitsInit
<1>2. UnitsInv /\ Attended /\ [Next]_vars => UnitsInv' /\ Attended'
  BY UnitsStep, AttendedStep
<1>3. UnitsInv /\ Attended => DispatchComplete
  <2> SUFFICES ASSUME UnitsInv, Attended, Quiet, NEW p \in PoolNames PROVE Candidates(p) = {}
    BY DEF DispatchComplete, PoolNames
  <2>1. Concluding = {}
    BY AtQuiet DEF UnitsInv
  <2>2. <<"dispatch", p>> \notin ToSet(agenda)
    BY DEF Quiet, ToSet
  <2> QED BY <2>1, <2>2 DEF Attended, AttendedAt
<1>4. DispatchComplete /\ NoStrandedInput => NothingForgotten
  BY DEF NothingForgotten
<1> QED BY <1>1, <1>2, <1>3, <1>4, NoInputIsStranded, PTL DEF Spec

=============================================================================

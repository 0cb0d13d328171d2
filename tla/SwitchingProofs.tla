--------------------------- MODULE SwitchingProofs ---------------------------
(***************************************************************************)
(* Proofs about the strong-request ledger, and about a window's weak       *)
(* outcome and what becomes of it with the ledger in it, for every         *)
(* number of windows and slots, every card, policy and set of              *)
(* configurations, without batching: with bulk_strong a batch loses the    *)
(* names of the requests it serves, which is the disagreement              *)
(* StrongRequestsBulk.cfg shows.                                           *)
(*                                                                         *)
(* First the ledger alone, under the specification of StrongRequests.      *)
(* RequestsSound is not inductive.  That a cancel takes a job out of the   *)
(* pool needs every window to be served by its own job, once, in the queue *)
(* or in a slot; that an escalation finds exactly one carrier needs to     *)
(* know, before the weak result is in, that a parallel policy has one and  *)
(* the others none.                                                        *)
(*                                                                         *)
(* That no correction is dropped is a fact about what is scheduled: a      *)
(* window that still waits has nothing in flight towards the frame, a      *)
(* window whose result is in flight is in no set of the ledger, and no     *)
(* event is scheduled twice.  When the events happen does not matter, so   *)
(* the links stay out of the invariant.                                    *)
(***************************************************************************)
EXTENDS Switching, SequenceFacts

-----------------------------------------------------------------------------
(* The ledger of strong requests *)


Waiting == waitSel \cup waitRes
Carried(w) == running[w] # None \/ w \in completed

\* The pool: a queue without repetitions and slots, of requests under their
\* own names.
PoolShape ==
  /\ queue \in Seq(Windows) /\ IsInjective(queue)
  /\ inService \subseteq Windows
  /\ IsFiniteSet(inService) /\ Cardinality(inService) <= SlotCount
  /\ ToSet(queue) \cap inService = {}
  /\ names = [j \in Jobs |-> IF j \in Windows THEN <<j>> ELSE <<>>]
  /\ batchCount = 0

LedgerShape ==
  /\ mode \in Modes
  /\ weak \in [Windows -> {"none", "open", "resolved"}]
  /\ running \in [Windows -> Windows \cup {None}]
  /\ waitSel \subseteq Windows /\ waitRes \subseteq Windows
  /\ completed \subseteq Windows /\ deferred \subseteq Windows
  /\ delivered \subseteq Windows

\* A live request is served by the job of its own window, and the pool holds
\* the live requests.
OwnJob ==
  \A w \in Windows :
    running[w] = IF w \in ToSet(queue) \cup inService THEN w ELSE None

\* Where a window is in its protocol decides who carries its result.
WindowInv(w) ==
  /\ ~ (running[w] # None /\ w \in completed)
  /\ ~ (w \in waitSel /\ w \in waitRes)
  /\ weak[w] = "none" => ~ Carried(w) /\ w \notin Waiting
  /\ weak[w] = "open" => w \notin Waiting /\ (Carried(w) <=> mode = "parallel")
  /\ weak[w] = "resolved" => (Carried(w) => w \in Waiting)
  /\ w \in Waiting => (Carried(w) <=> w \notin deferred)
  /\ w \in deferred => w \in Waiting
  /\ w \in completed => w \notin waitRes

IInv == PoolShape /\ LedgerShape /\ OwnJob /\ \A w \in Windows : WindowInv(w)

-----------------------------------------------------------------------------
(* The pool *)

\* One pass of _dispatch_pool moves jobs from the queue to free slots: none is
\* lost, none is served twice, and the slots are not exceeded.
LEMMA DispatchMoves ==
  ASSUME ~ Bulk,
         NEW q \in Seq(Windows), IsInjective(q),
         NEW busy \in SUBSET Windows, IsFiniteSet(busy),
         Cardinality(busy) <= SlotCount, ToSet(q) \cap busy = {},
         NEW run, Dispatch(q, run, busy)
  PROVE  /\ running' = run
         /\ UNCHANGED <<names, batchCount>>
         /\ queue' \in Seq(Windows) /\ IsInjective(queue')
         /\ inService' \subseteq Windows
         /\ IsFiniteSet(inService') /\ Cardinality(inService') <= SlotCount
         /\ ToSet(queue') \cap inService' = {}
         /\ ToSet(queue') \cup inService' = ToSet(q) \cup busy
<1> DEFINE free == SlotCount - Cardinality(busy)
           n == IF Len(q) < free THEN Len(q) ELSE free
           first == SubSeq(q, 1, n)
           rest == SubSeq(q, n + 1, Len(q))
<1>1. /\ running' = run /\ UNCHANGED <<names, batchCount>>
      /\ queue' = rest /\ inService' = busy \cup ToSet(first)
  BY DEF Dispatch, DispatchSingle
<1>2. Cardinality(busy) \in Nat /\ SlotCount \in Nat /\ Len(q) \in Nat
  BY FS_CardinalityType, LenProperties, RequestsAssumption
<1>3. n \in 0 .. Len(q) /\ n <= SlotCount - Cardinality(busy)
  BY <1>2
<1> HIDE DEF n
<1>4. /\ first \in Seq(Windows) /\ rest \in Seq(Windows)
      /\ Len(first) = n
      /\ ToSet(q) = ToSet(first) \cup ToSet(rest)
      /\ IsInjective(first) /\ IsInjective(rest)
      /\ ToSet(first) \cap ToSet(rest) = {}
  BY <1>3, CutElements
<1> HIDE DEF first, rest
<1>5. /\ IsFiniteSet(ToSet(first)) /\ Cardinality(ToSet(first)) \in Nat
      /\ Cardinality(ToSet(first)) <= n
      /\ ToSet(first) \subseteq Windows
  BY <1>4, ElementsFinite, ToSetOfSeq
<1>6. busy \cap ToSet(first) = {}
  BY <1>4
<1>7. /\ IsFiniteSet(busy \cup ToSet(first))
      /\ Cardinality(busy \cup ToSet(first)) =
           Cardinality(busy) + Cardinality(ToSet(first))
  BY <1>5, <1>6, DisjointUnion
<1>8. Cardinality(inService') <= SlotCount
  BY <1>1, <1>2, <1>3, <1>5, <1>7
<1> QED BY <1>1, <1>4, <1>5, <1>7, <1>8

\* admit_strong puts a new request into the pool.
LEMMA AdmitPool ==
  ASSUME ~ Bulk, PoolShape, OwnJob, running \in [Windows -> Windows \cup {None}],
         NEW w \in Windows, Admit(w)
  PROVE  /\ PoolShape' /\ OwnJob'
         /\ running' = [running EXCEPT ![w] = w]
         /\ running[w] = None /\ w \notin completed
<1>1. /\ running[w] = None /\ w \notin completed
      /\ Dispatch(Append(queue, w), [running EXCEPT ![w] = w], inService)
  BY DEF Admit, Admissible
<1>2. w \notin ToSet(queue) \cup inService
  BY <1>1, RequestsAssumption DEF OwnJob
<1>3. /\ Append(queue, w) \in Seq(Windows)
      /\ ToSet(Append(queue, w)) = ToSet(queue) \cup {w}
      /\ IsInjective(Append(queue, w))
  BY <1>2, AppendElements DEF PoolShape
<1>4. ToSet(Append(queue, w)) \cap inService = {}
  BY <1>2, <1>3 DEF PoolShape
<1>5. /\ running' = [running EXCEPT ![w] = w]
      /\ UNCHANGED <<names, batchCount>>
      /\ queue' \in Seq(Windows) /\ IsInjective(queue')
      /\ inService' \subseteq Windows
      /\ IsFiniteSet(inService') /\ Cardinality(inService') <= SlotCount
      /\ ToSet(queue') \cap inService' = {}
      /\ ToSet(queue') \cup inService' = ToSet(Append(queue, w)) \cup inService
  BY <1>1, <1>3, <1>4, DispatchMoves DEF PoolShape
<1>6. PoolShape'
  BY <1>5 DEF PoolShape
<1>7. ToSet(queue') \cup inService' = (ToSet(queue) \cup inService) \cup {w}
  BY <1>3, <1>5
<1>8. OwnJob'
  BY <1>5, <1>7 DEF OwnJob
<1> QED BY <1>1, <1>5, <1>6, <1>8

\* cancel_strong takes the request out of the pool, and its held result away.
LEMMA CancelPool ==
  ASSUME ~ Bulk, PoolShape, OwnJob, running \in [Windows -> Windows \cup {None}],
         NEW w \in Windows, CancelStrong(w)
  PROVE  /\ PoolShape' /\ OwnJob'
         /\ running' = [running EXCEPT ![w] = None]
         /\ completed' = completed \ {w}
<1>1. completed' = completed \ {w}
  BY DEF CancelStrong, TakeHeld
<1>2. CASE running[w] = None
  <2>1. UNCHANGED <<running, pool>>
    BY <1>2 DEF CancelStrong
  <2>2. running' = [running EXCEPT ![w] = None]
    BY <1>2, <2>1
  <2> QED BY <1>1, <2>1, <2>2 DEF pool, PoolShape, OwnJob
<1>3. CASE running[w] # None
  <2>1. running[w] = w /\ w \in ToSet(queue) \cup inService
    BY <1>3 DEF OwnJob
  <2>2. Dispatch(RemoveFirst(queue, w), [running EXCEPT ![w] = None],
                 inService \ {w})
    BY <1>3, <2>1 DEF CancelStrong
  <2>3. /\ RemoveFirst(queue, w) \in Seq(Windows)
        /\ ToSet(RemoveFirst(queue, w)) = ToSet(queue) \ {w}
        /\ IsInjective(RemoveFirst(queue, w))
    BY RemoveFirstElements DEF PoolShape
  <2>4. /\ IsFiniteSet(inService \ {w}) /\ inService \ {w} \in SUBSET Windows
        /\ Cardinality(inService \ {w}) <= SlotCount
    <3>1. inService \ {w} \subseteq inService
      OBVIOUS
    <3> QED BY <3>1, PartOfFinite, RequestsAssumption DEF PoolShape
  <2>5. ToSet(RemoveFirst(queue, w)) \cap (inService \ {w}) = {}
    BY <2>3 DEF PoolShape
  <2>6. /\ running' = [running EXCEPT ![w] = None]
        /\ UNCHANGED <<names, batchCount>>
        /\ queue' \in Seq(Windows) /\ IsInjective(queue')
        /\ inService' \subseteq Windows
        /\ IsFiniteSet(inService') /\ Cardinality(inService') <= SlotCount
        /\ ToSet(queue') \cap inService' = {}
        /\ ToSet(queue') \cup inService' =
             ToSet(RemoveFirst(queue, w)) \cup (inService \ {w})
    BY <2>2, <2>3, <2>4, <2>5, DispatchMoves
  <2>7. PoolShape'
    BY <2>6 DEF PoolShape
  <2>8. ToSet(queue') \cup inService' = (ToSet(queue) \cup inService) \ {w}
    BY <2>3, <2>6
  <2>9. OwnJob'
    BY <2>6, <2>8 DEF OwnJob
  <2> QED BY <1>1, <2>6, <2>7, <2>9
<1> QED BY <1>2, <1>3

\* A finished job leaves its slot, and the one request it served is over.
LEMMA DonePool ==
  ASSUME ~ Bulk, PoolShape, OwnJob, running \in [Windows -> Windows \cup {None}],
         NEW j \in Jobs, StrongDone(j)
  PROVE  /\ PoolShape' /\ OwnJob'
         /\ j \in Windows /\ running[j] = j
         /\ Members(running, j) = {j}
         /\ running' = [running EXCEPT ![j] = None]
<1>1. j \in inService /\ j \in Windows /\ j \notin ToSet(queue)
  BY DEF StrongDone, PoolShape
<1>2. running[j] = j /\ \A w \in Windows : running[w] \in {w, None}
  BY <1>1 DEF OwnJob
<1>3. Members(running, j) = {j}
  BY <1>1, <1>2, RequestsAssumption DEF Members
<1>4. FinishService(j) = [running EXCEPT ![j] = None]
  BY <1>1, <1>2, RequestsAssumption DEF FinishService
<1>5. Dispatch(queue, [running EXCEPT ![j] = None], inService \ {j})
  BY <1>4 DEF StrongDone
<1>6. /\ IsFiniteSet(inService \ {j}) /\ inService \ {j} \in SUBSET Windows
      /\ Cardinality(inService \ {j}) <= SlotCount
  <2>1. inService \ {j} \subseteq inService
    OBVIOUS
  <2> QED BY <2>1, PartOfFinite, RequestsAssumption DEF PoolShape
<1>7. ToSet(queue) \cap (inService \ {j}) = {}
  BY DEF PoolShape
<1>8. /\ running' = [running EXCEPT ![j] = None]
      /\ UNCHANGED <<names, batchCount>>
      /\ queue' \in Seq(Windows) /\ IsInjective(queue')
      /\ inService' \subseteq Windows
      /\ IsFiniteSet(inService') /\ Cardinality(inService') <= SlotCount
      /\ ToSet(queue') \cap inService' = {}
      /\ ToSet(queue') \cup inService' = ToSet(queue) \cup (inService \ {j})
  BY <1>5, <1>6, <1>7, DispatchMoves DEF PoolShape
<1>9. PoolShape'
  BY <1>8 DEF PoolShape
<1>10. ToSet(queue') \cup inService' = (ToSet(queue) \cup inService) \ {j}
  BY <1>1, <1>8
<1>11. OwnJob'
  BY <1>8, <1>10 DEF OwnJob
<1> QED BY <1>1, <1>2, <1>3, <1>8, <1>9, <1>11

-----------------------------------------------------------------------------
(* The ledger *)

\* What every step keeps, given the pool part of it: the frame is that only
\* window w moves.
Moved(w) ==
  \A v \in Windows \ {w} :
    /\ weak'[v] = weak[v] /\ running'[v] = running[v]
    /\ (v \in waitSel' <=> v \in waitSel) /\ (v \in waitRes' <=> v \in waitRes)
    /\ (v \in completed' <=> v \in completed)
    /\ (v \in deferred' <=> v \in deferred)

\* What moves one window leaves what is known of the others.
LEMMA OthersKept ==
  ASSUME NEW w \in Windows, Moved(w), mode' = mode,
         \A v \in Windows : WindowInv(v), WindowInv(w)'
  PROVE  \A v \in Windows : WindowInv(v)'
<1> SUFFICES ASSUME NEW v \in Windows, v # w PROVE WindowInv(v)'
  OBVIOUS
<1> QED BY DEF Moved, WindowInv, Carried, Waiting

\* A window offered to the weak pool; in parallel mode its strong job with it.
LEMMA AdmitWeakStep ==
  ASSUME ~ Bulk, IInv, NEW w \in Windows, AdmitWeak(w)
  PROVE  IInv'
<1> USE DEF IInv, LedgerShape
<1>1. /\ weak[w] = "none" /\ weak' = [weak EXCEPT ![w] = "open"]
      /\ UNCHANGED <<mode, waitSel, waitRes, completed, deferred, delivered>>
  BY DEF AdmitWeak
<1>2. WindowInv(w)
  OBVIOUS
<1>3. CASE mode = "parallel"
  <2>1. /\ PoolShape' /\ OwnJob' /\ running' = [running EXCEPT ![w] = w]
        /\ running[w] = None /\ w \notin completed
    BY <1>3, AdmitPool DEF AdmitWeak
  <2>2. WindowInv(w)'
    BY <1>1, <1>2, <1>3, <2>1, RequestsAssumption
    DEF WindowInv, Carried, Waiting
  <2>3. Moved(w)
    BY <1>1, <2>1 DEF Moved
  <2> QED BY <1>1, <2>1, <2>2, <2>3, OthersKept
<1>4. CASE mode # "parallel"
  <2>1. UNCHANGED <<running, pool>>
    BY <1>4 DEF AdmitWeak
  <2>2. WindowInv(w)'
    BY <1>1, <1>2, <1>4, <2>1 DEF WindowInv, Carried, Waiting
  <2>3. Moved(w)
    BY <1>1, <2>1 DEF Moved
  <2>4. PoolShape' /\ OwnJob'
    BY <2>1 DEF pool, PoolShape, OwnJob
  <2> QED BY <1>1, <2>1, <2>2, <2>3, <2>4, OthersKept
<1> QED BY <1>3, <1>4

\* A weak result kept: the strong job, and a result held for it, are given up.
LEMMA FinalizeStep ==
  ASSUME ~ Bulk, IInv, NEW w \in Windows, Finalize(w)
  PROVE  IInv'
<1> USE DEF IInv, LedgerShape
<1>1. /\ weak[w] = "open" /\ weak' = [weak EXCEPT ![w] = "resolved"]
      /\ UNCHANGED <<mode, waitSel, waitRes, deferred, delivered>>
  BY DEF Finalize
<1>2. /\ PoolShape' /\ OwnJob' /\ running' = [running EXCEPT ![w] = None]
      /\ completed' = completed \ {w}
  BY CancelPool DEF Finalize
<1>3. WindowInv(w)'
  BY <1>1, <1>2 DEF WindowInv, Carried, Waiting
<1>4. Moved(w)
  BY <1>1, <1>2 DEF Moved
<1> QED BY <1>1, <1>2, <1>3, <1>4, OthersKept

\* A weak result escalated: the strong job is asked for, here or once its
\* far region is in.
LEMMA AwaitStrongStep ==
  ASSUME ~ Bulk, IInv, NEW w \in Windows, AwaitStrong(w)
  PROVE  IInv'
<1> USE DEF IInv, LedgerShape
<1>1. /\ weak[w] = "open" /\ weak' = [weak EXCEPT ![w] = "resolved"]
      /\ waitSel' = waitSel \cup {w}
      /\ UNCHANGED <<mode, waitRes, completed, delivered>>
  BY DEF AwaitStrong, BeginSelection
<1>2. WindowInv(w)
  OBVIOUS
<1>3. CASE mode = "serial" /\ Admit(w) /\ UNCHANGED deferred
  <2>1. /\ PoolShape' /\ OwnJob' /\ running' = [running EXCEPT ![w] = w]
        /\ running[w] = None /\ w \notin completed
    BY <1>3, AdmitPool
  <2>2. WindowInv(w)'
    BY <1>1, <1>2, <1>3, <2>1, RequestsAssumption
    DEF WindowInv, Carried, Waiting
  <2>3. Moved(w)
    BY <1>1, <1>3, <2>1 DEF Moved
  <2> QED BY <1>1, <1>3, <2>1, <2>2, <2>3, OthersKept
<1>4. CASE mode = "parallel" /\ UNCHANGED <<running, pool, deferred>>
  <2>1. WindowInv(w)'
    BY <1>1, <1>2, <1>4 DEF WindowInv, Carried, Waiting
  <2>2. Moved(w)
    BY <1>1, <1>4 DEF Moved
  <2>3. PoolShape' /\ OwnJob'
    BY <1>4 DEF pool, PoolShape, OwnJob
  <2> QED BY <1>1, <1>4, <2>1, <2>2, <2>3, OthersKept
<1>5. CASE /\ mode = "deferred" /\ deferred' = deferred \cup {w}
           /\ UNCHANGED <<running, pool>>
  <2>1. WindowInv(w)'
    BY <1>1, <1>2, <1>5 DEF WindowInv, Carried, Waiting
  <2>2. Moved(w)
    BY <1>1, <1>5 DEF Moved
  <2>3. PoolShape' /\ OwnJob'
    BY <1>5 DEF pool, PoolShape, OwnJob
  <2> QED BY <1>1, <1>5, <2>1, <2>2, <2>3, OthersKept
<1> QED BY <1>3, <1>4, <1>5 DEF AwaitStrong

\* The far region of a deferred job is in, and the job joins the pool.
LEMMA SubmitDeferredStep ==
  ASSUME ~ Bulk, IInv, NEW w \in Windows, SubmitDeferred(w)
  PROVE  IInv'
<1> USE DEF IInv, LedgerShape
<1>1. /\ w \in deferred /\ deferred' = deferred \ {w} /\ Admit(w)
      /\ UNCHANGED <<mode, weak, waitSel, waitRes, completed, delivered>>
  BY DEF SubmitDeferred
<1>2. WindowInv(w)
  OBVIOUS
<1>3. /\ PoolShape' /\ OwnJob' /\ running' = [running EXCEPT ![w] = w]
      /\ running[w] = None /\ w \notin completed
  BY <1>1, AdmitPool
<1>4. WindowInv(w)'
  BY <1>1, <1>2, <1>3, RequestsAssumption DEF WindowInv, Carried, Waiting
<1>5. Moved(w)
  BY <1>1, <1>3 DEF Moved
<1> QED BY <1>1, <1>3, <1>4, <1>5, OthersKept

\* The selection took effect: the result held for it is delivered, or the
\* window waits for it.
LEMMA SelectStep ==
  ASSUME ~ Bulk, IInv, NEW w \in Windows, Select(w)
  PROVE  IInv'
<1> USE DEF IInv, LedgerShape
<1>1. /\ w \in waitSel /\ waitSel' = waitSel \ {w}
      /\ waitRes' = IF w \in completed THEN waitRes ELSE waitRes \cup {w}
      /\ completed' = completed \ {w}
      /\ delivered' = delivered \cup (completed \cap {w})
      /\ UNCHANGED <<mode, weak, running, deferred, pool>>
  BY DEF Select, HeldFor
<1>2. WindowInv(w)
  OBVIOUS
<1>3. WindowInv(w)'
  BY <1>1, <1>2 DEF WindowInv, Carried, Waiting
<1>4. Moved(w)
  BY <1>1 DEF Moved
<1>5. PoolShape' /\ OwnJob'
  BY <1>1 DEF pool, PoolShape, OwnJob
<1> QED BY <1>1, <1>3, <1>4, <1>5, OthersKept

\* A strong job ended: its window gets the result, or the result is held.
LEMMA StrongDoneStep ==
  ASSUME ~ Bulk, IInv, NEW j \in Jobs, StrongDone(j)
  PROVE  IInv'
<1> USE DEF IInv, LedgerShape
<1>1. /\ PoolShape' /\ OwnJob' /\ j \in Windows /\ running[j] = j
      /\ Members(running, j) = {j}
      /\ running' = [running EXCEPT ![j] = None]
  BY DonePool
<1>2. /\ delivered' = delivered \cup ({j} \cap waitRes)
      /\ waitRes' = waitRes \ {j}
      /\ completed' = completed \cup ({j} \ waitRes)
      /\ UNCHANGED <<mode, weak, waitSel, deferred>>
  BY <1>1 DEF StrongDone
<1>3. WindowInv(j) /\ running[j] # None
  BY <1>1, RequestsAssumption
<1>4. WindowInv(j)'
  BY <1>1, <1>2, <1>3 DEF WindowInv, Carried, Waiting
<1>5. Moved(j)
  BY <1>1, <1>2 DEF Moved
<1> QED BY <1>1, <1>2, <1>4, <1>5, OthersKept

\* An empty ledger and an empty pool.
LEMMA InitIInv == Init => IInv
<1> SUFFICES ASSUME Init PROVE IInv
  OBVIOUS
<1>1. /\ queue \in Seq(Windows) /\ IsInjective(queue) /\ ToSet(queue) = {}
  BY DEF Init, IsInjective, ToSet
<1>2. IsFiniteSet(inService) /\ Cardinality(inService) <= SlotCount
  BY FS_EmptySet, RequestsAssumption DEF Init
<1>3. PoolShape
  BY <1>1, <1>2 DEF Init, PoolShape
<1>4. OwnJob
  BY <1>1 DEF Init, OwnJob
<1> QED BY <1>3, <1>4 DEF Init, IInv, LedgerShape, WindowInv, Carried, Waiting

\* The inductive invariant.
LEMMA Invariance ==
  ASSUME ~ Bulk
  PROVE  Spec => []IInv
<1>1. IInv /\ [Next]_vars => IInv'
  <2> SUFFICES ASSUME IInv, [Next]_vars PROVE IInv'
    OBVIOUS
  <2>1. CASE UNCHANGED vars
    BY <2>1 DEF vars, ledger, pool, IInv, PoolShape, LedgerShape, OwnJob,
                WindowInv, Carried, Waiting
  <2>2. CASE Next
    BY <2>2, AdmitWeakStep, FinalizeStep, AwaitStrongStep, SubmitDeferredStep,
       SelectStep, StrongDoneStep DEF Next
  <2> QED BY <2>1, <2>2
<1> QED BY <1>1, InitIInv, PTL DEF Spec

-----------------------------------------------------------------------------
(* The theorems *)

\* A window that waits for a strong answer has one carrier of it, none while
\* its job is deferred.
LEMMA CarriersCounted ==
  ASSUME NEW w \in Windows, WindowInv(w), w \in Waiting
  PROVE  Cardinality(Carriers(w)) = IF w \in deferred THEN 0 ELSE 1
<1>1. CASE w \in deferred
  <2>1. Carriers(w) = {}
    BY <1>1 DEF WindowInv, Carriers, Carried
  <2> QED BY <1>1, <2>1, FS_EmptySet
<1>2. CASE w \notin deferred
  <2>1. Carriers(w) = {"live"} \/ Carriers(w) = {"held"}
    BY <1>2 DEF WindowInv, Carriers, Carried
  <2> QED BY <1>2, <2>1, FS_Singleton
<1> QED BY <1>1, <1>2

\* The invariant gives the property the runs check.
LEMMA IInvImplies == ~ Bulk /\ IInv => RequestsSound
<1> SUFFICES ASSUME ~ Bulk, IInv PROVE RequestsSound
  OBVIOUS
<1> USE DEF IInv
<1>1. ToSet(queue) \subseteq Windows
  BY ToSetOfSeq DEF PoolShape
<1>2. TypeOK
  <2>1. names \in [Jobs -> Seq(Windows \cup {None})]
    <3>1. <<>> \in Seq(Windows \cup {None})
      OBVIOUS
    <3>2. \A w \in Windows : <<w>> \in Seq(Windows \cup {None})
      OBVIOUS
    <3> QED BY <3>1, <3>2 DEF PoolShape
  <2>2. batchCount \in 0 .. MaxBatches
    BY RequestsAssumption DEF PoolShape
  <2> QED BY <1>1, <2>1, <2>2 DEF TypeOK, PoolShape, LedgerShape, Jobs
<1>3. LedgerMatchesPool
  <2>1. \A w \in Windows : running[w] # None =>
          running[w] = w /\ w \in ToSet(queue) \cup inService
    BY DEF OwnJob
  <2>2. \A w \in ToSet(queue) \cup inService :
          w \in Windows /\ running[w] = w /\ w # None
    BY <1>1, RequestsAssumption DEF OwnJob, PoolShape
  <2> QED BY <2>1, <2>2 DEF LedgerMatchesPool
<1>4. ResultHasConsumer
  BY DEF ResultHasConsumer, MayConsume, WindowInv, Carried, Waiting, LedgerShape
<1>5. OneCarrier
  BY CarriersCounted DEF OneCarrier, Waiting, LedgerShape
<1> QED BY <1>2, <1>3, <1>4, <1>5 DEF RequestsSound

\* Whatever the order of weak outcomes, selections, cancels and results, for
\* every number of windows and slots: the ledger (_running, _completed) and the
\* pool carry exactly the results somebody will consume.
THEOREM LedgerIsSound ==
  ASSUME ~ Bulk
  PROVE  Spec => []RequestsSound
BY Invariance, IInvImplies, PTL

-----------------------------------------------------------------------------
(* The weak outcome, the join and the frame *)


\* What is scheduled: the kind and the window of every event.
Scheduled(ev) == {<<ev[i].kind, ev[i].window>> : i \in DOMAIN ev}
Ev(kind, w) == <<kind, w>> \in Scheduled(events)

\* An event list: no window has two events of a kind.
EventsOk(ev) ==
  /\ ev \in Seq(ToSet(ev))
  /\ \A i, k \in DOMAIN ev :
       ev[i].kind = ev[k].kind /\ ev[i].window = ev[k].window => i = k

Tiers == {"weak", "strong"}
Bits == {None, 0, 1}
Entry == [tier : Tiers, bit : Bits]
Kinds == {"weak result", "strong result", "select", "install"}
EventsShape == EventsOk(events) /\ Scheduled(events) \subseteq Kinds \X Windows
HalfShape ==
  half \in [Windows -> [primary : {"idle", "queued", "running", "done"},
                        sibling : {"none", "running", "done"},
                        weight : cfg.weights \cup {None},
                        other : cfg.weights \cup {None},
                        strong : Bits]]
FrameShape ==
  frame \in [accepted : SUBSET Windows, pending : SUBSET Windows,
             drops : {0}, entry : [Windows -> Entry \cup {None}]]
WmRecord == [committed : SUBSET Windows, waiting : SUBSET Windows,
             complete : BOOLEAN,
             selected : [Windows -> Tiers \cup {None}],
             prediction : [Windows -> Bits]]
WmShape == wm \in WmRecord

EventsInv(w) ==
  /\ Ev("select", w) <=> w \in waitSel
  /\ Ev("weak result", w) =>
       w \notin Waiting \cup delivered \cup frame.accepted \cup wm.committed
  /\ Ev("strong result", w) <=> w \in delivered \ frame.accepted
  /\ Ev("install", w) <=> w \in frame.pending
  /\ weak[w] # "resolved" =>
       /\ ~Ev("weak result", w)
       /\ w \notin delivered \cup frame.accepted \cup wm.committed

CommitInv(w) ==
  /\ w \in frame.pending => w \in frame.accepted
  /\ w \in Waiting => w \notin delivered \cup frame.accepted
  /\ w \in Waiting \/ w \in delivered \ Installed => w \in wm.waiting
  /\ w \in wm.waiting => /\ w \in wm.committed /\ w \notin Installed
                         /\ w \in Waiting \cup delivered
  /\ w \in Installed => w \in wm.committed /\ wm.selected[w] = frame.entry[w].tier
                        /\ wm.prediction[w] = frame.entry[w].bit
  /\ w \in wm.committed \ wm.waiting => w \in Installed
  /\ w \in frame.accepted =>
       /\ frame.entry[w] \in Entry
       /\ frame.entry[w].tier = IF w \in delivered THEN "strong" ELSE "weak"
       /\ w \in delivered => wm.selected[w] = "strong"

CalShape(c) ==
  c \in [threshold : {c.threshold}, target : MinTarget .. MaxTarget,
         windows : Nat, escalated : Nat, kept : Nat, audited : Nat,
         bad : Nat, streak : Nat, moves : Nat,
         pending : SUBSET Windows, labelled : SUBSET Windows]

AuditInv ==
  /\ mode = cfg.mode /\ PolicyOk(cfg)
  /\ CalShape(cal)
  /\ cal.windows = cal.escalated + cal.kept
  /\ IsFiniteSet(cal.labelled) /\ cal.audited = Cardinality(cal.labelled)
  /\ \A w \in cal.pending :
       cfg.keep = "online" /\ w \in Waiting \ completed /\ w \notin cal.labelled
  /\ \A w \in cal.labelled : weak[w] = "resolved"

CommitsInv ==
  /\ EventsShape /\ FrameShape /\ WmShape
  /\ \A w \in Windows : EventsInv(w) /\ CommitInv(w)
  /\ wm.complete => Complete(wm)

SInv == IInv /\ HalfShape /\ CommitsInv /\ AuditInv

-----------------------------------------------------------------------------
(* The ledger *)

\* Every step of the run is a step of the strong-request ledger, or leaves it
\* alone.
LEMMA LedgerStep == IInv /\ [SwitchNext]_switchVars => [Next]_vars
<1> SUFFICES ASSUME IInv, [SwitchNext]_switchVars PROVE [Next]_vars
  OBVIOUS
<1>1. ASSUME NEW w \in Windows, Keep(w) \/ Escalate(w) PROVE Next
  BY <1>1 DEF Keep, Escalate, Next
<1>2. ASSUME NEW w \in Windows, NEW h, Decide(w, h) PROVE Next
  BY <1>1, <1>2 DEF Decide
<1>3. ASSUME NEW w \in Windows, Submit(w) PROVE Next
  BY <1>3 DEF Submit, Next
<1>4. ASSUME NEW w \in Windows, FarReady(w) PROVE Next
  BY <1>4 DEF FarReady, Next
<1>5. ASSUME NEW w \in Windows, NEW weight, PrimaryDone(w, weight)
      PROVE  [Next]_vars
  BY <1>2, <1>5 DEF PrimaryDone
<1>6. ASSUME NEW w \in Windows, NEW weight, SiblingDone(w, weight)
      PROVE  [Next]_vars
  BY <1>2, <1>6 DEF SiblingDone
<1>7. ASSUME NEW j \in Jobs, NEW bit, StrongResult(j, bit) PROVE Next
  BY <1>7 DEF StrongResult, Next
<1>8. ASSUME NEW i, Selected(i) PROVE Next
  <2>1. Select(events[i].window)
    BY <1>8 DEF Selected
  <2>2. events[i].window \in Windows
    BY <2>1 DEF Select, IInv, LedgerShape
  <2> QED BY <2>1, <2>2 DEF Next
<1>9. ASSUME NEW w \in Windows, Start(w) PROVE UNCHANGED vars
  BY <1>9 DEF Start
<1>10. CASE SetThreshold \/ Tick \/ UNCHANGED switchVars
  BY <1>10 DEF SetThreshold, Tick, switchVars
<1>11. ASSUME NEW i, WeakDelivered(i) \/ StrongDelivered(i) \/ FrameWritten(i)
       PROVE  UNCHANGED vars
  BY <1>11 DEF WeakDelivered, StrongDelivered, FrameWritten
<1> QED
  BY <1>3, <1>4, <1>5, <1>6, <1>7, <1>8, <1>9, <1>10, <1>11 DEF SwitchNext

\* A step of the ledger, or none, keeps the ledger's invariant.
LEMMA LedgerInvariant ==
  ASSUME ~ Bulk, IInv, [Next]_vars
  PROVE  IInv'
<1>1. CASE UNCHANGED vars
  BY <1>1 DEF vars, ledger, pool, IInv, PoolShape, LedgerShape, OwnJob,
              WindowInv, Carried, Waiting
<1>2. CASE Next
  BY <1>2, AdmitWeakStep, FinalizeStep, AwaitStrongStep, SubmitDeferredStep,
     SelectStep, StrongDoneStep DEF Next
<1> QED BY <1>1, <1>2

\* The run implements the ledger, whatever the policy and the links.
THEOREM SwitchingImplementsLedger ==
  ASSUME ~ Bulk
  PROVE  SwitchSpec => Init /\ [][Next]_vars
<1>1. SwitchInit => Init /\ IInv
  BY InitIInv DEF SwitchInit
<1>2. IInv /\ [SwitchNext]_switchVars => IInv'
  BY LedgerStep, LedgerInvariant
<1> QED BY <1>1, <1>2, LedgerStep, PTL DEF SwitchSpec

\* The ledger of a run is sound (RequestsSound), whatever the policy decides
\* and in whatever order decodes, links and frame writes end.
THEOREM LedgerOfSwitching ==
  ASSUME ~ Bulk
  PROVE  SwitchSpec => []RequestsSound
<1>1. SwitchInit => IInv
  BY InitIInv DEF SwitchInit
<1>2. IInv /\ [SwitchNext]_switchVars => IInv'
  BY LedgerStep, LedgerInvariant
<1> QED BY <1>1, <1>2, IInvImplies, PTL DEF SwitchSpec

-----------------------------------------------------------------------------
(* The event list *)

\* An entry put into the event list is the only new one, and stays alone.
LEMMA ScheduleEvent ==
  ASSUME NEW ev, EventsOk(ev), NEW t, NEW kind, NEW w,
         <<kind, w>> \notin Scheduled(ev)
  PROVE  /\ EventsOk(Append(ev, At(t, kind, w)))
         /\ Scheduled(Append(ev, At(t, kind, w))) = Scheduled(ev) \cup {<<kind, w>>}
<1> DEFINE e == At(t, kind, w)
           S == ToSet(ev) \cup {e}
           new == Append(ev, e)
<1>1. e.kind = kind /\ e.window = w
  BY DEF At
<1>2. ev \in Seq(S) /\ e \in S
  BY SeqMonotonic DEF EventsOk
<1> HIDE DEF e
<1>3. /\ new \in Seq(S) /\ ToSet(new) = S
      /\ Len(new) = Len(ev) + 1
      /\ \A i \in 1 .. Len(ev) : new[i] = ev[i]
      /\ new[Len(ev) + 1] = e
  BY <1>2, AppendElements, AppendProperties
<1>4. Len(ev) \in Nat /\ DOMAIN ev = 1 .. Len(ev) /\ DOMAIN new = 1 .. Len(ev) + 1
  BY <1>2, <1>3, LenProperties
<1>5. DOMAIN new = DOMAIN ev \cup {Len(ev) + 1}
  BY <1>4
<1> HIDE DEF S, new
<1>6. Scheduled(new) = Scheduled(ev) \cup {<<kind, w>>}
  BY <1>1, <1>3, <1>4, <1>5 DEF Scheduled
<1>7. \A i \in DOMAIN ev : ~ (ev[i].kind = kind /\ ev[i].window = w)
  BY DEF Scheduled
<1>8. ASSUME NEW i \in DOMAIN new, NEW k \in DOMAIN new,
             new[i].kind = new[k].kind, new[i].window = new[k].window
      PROVE  i = k
  <2>1. CASE i \in DOMAIN ev /\ k \in DOMAIN ev
    BY <1>3, <1>4, <1>8, <2>1 DEF EventsOk
  <2>2. CASE i = Len(ev) + 1 /\ k \in DOMAIN ev
    BY <1>1, <1>3, <1>4, <1>7, <1>8, <2>2
  <2>3. CASE i \in DOMAIN ev /\ k = Len(ev) + 1
    BY <1>1, <1>3, <1>4, <1>7, <1>8, <2>3
  <2> QED BY <1>5, <2>1, <2>2, <2>3
<1> QED BY <1>3, <1>6, <1>8 DEF EventsOk, e, new

\* An entry taken out of the event list is the only one that went.
LEMMA TakeEvent ==
  ASSUME NEW ev, EventsOk(ev), NEW i \in DOMAIN ev
  PROVE  /\ EventsOk(RemoveAt(ev, i))
         /\ Scheduled(RemoveAt(ev, i)) =
              Scheduled(ev) \ {<<ev[i].kind, ev[i].window>>}
<1> DEFINE new == RemoveAt(ev, i)
           from(k) == IF k < i THEN k ELSE k + 1
<1>1. ev \in Seq(ToSet(ev))
  BY DEF EventsOk
<1>2. Len(ev) \in Nat /\ DOMAIN ev = 1 .. Len(ev) /\ i \in 1 .. Len(ev)
  BY <1>1, LenProperties
<1>3. /\ new \in Seq(ToSet(ev)) /\ Len(new) = Len(ev) - 1
      /\ \A k \in 1 .. Len(ev) - 1 : new[k] = ev[from(k)]
  BY <1>1, <1>2, RemoveAtPositions
<1> HIDE DEF new
<1>4. DOMAIN new = 1 .. Len(ev) - 1
  BY <1>3, LenProperties
<1>5. \A k \in DOMAIN new : from(k) \in DOMAIN ev /\ from(k) # i
  BY <1>2, <1>4
<1>6. \A k \in DOMAIN ev : k # i => \E l \in DOMAIN new : from(l) = k
  <2> TAKE k \in DOMAIN ev
  <2>1. CASE k < i
    BY <1>2, <1>4, <2>1
  <2>2. CASE k > i
    <3>1. k - 1 \in DOMAIN new /\ from(k - 1) = k
      BY <1>2, <1>4, <2>2
    <3> QED BY <3>1
  <2> QED BY <1>2, <2>1, <2>2
<1>7. \A k, l \in DOMAIN new : from(k) = from(l) => k = l
  BY <1>2, <1>4
<1> HIDE DEF from
<1>8. \A k \in DOMAIN new : new[k] = ev[from(k)]
  BY <1>3, <1>4
<1>9. new \in Seq(ToSet(new))
  <2>1. Range(new) = ToSet(new)
    BY DEF Range, ToSet
  <2> QED BY <1>3, <2>1, SeqOfRange
<1>10. \A k, l \in DOMAIN new :
         new[k].kind = new[l].kind /\ new[k].window = new[l].window => k = l
  BY <1>5, <1>7, <1>8 DEF EventsOk
<1>11. Scheduled(new) = Scheduled(ev) \ {<<ev[i].kind, ev[i].window>>}
  <2>1. ASSUME NEW k \in DOMAIN new
        PROVE  <<new[k].kind, new[k].window>> \in
                 Scheduled(ev) \ {<<ev[i].kind, ev[i].window>>}
    <3>1. new[k] = ev[from(k)] /\ from(k) \in DOMAIN ev /\ from(k) # i
      BY <1>5, <1>8
    <3>2. ~ (ev[from(k)].kind = ev[i].kind /\ ev[from(k)].window = ev[i].window)
      BY <3>1 DEF EventsOk
    <3> QED BY <3>1, <3>2 DEF Scheduled
  <2>2. ASSUME NEW k \in DOMAIN ev,
               <<ev[k].kind, ev[k].window>> # <<ev[i].kind, ev[i].window>>
        PROVE  <<ev[k].kind, ev[k].window>> \in Scheduled(new)
    <3>1. PICK l \in DOMAIN new : from(l) = k
      BY <1>6, <2>2
    <3> QED BY <1>8, <3>1 DEF Scheduled
  <2> QED BY <2>1, <2>2 DEF Scheduled
<1> QED BY <1>9, <1>10, <1>11 DEF EventsOk, new

\* on_strong_decode_done sends nothing, or one transfer with its event.
LEMMA SendNone ==
  ASSUME NEW path, NEW kind, NEW rest
  PROVE  SendAll(path, kind, {}, rest).events = rest
<1> DEFINE rec(f) == [T \in SUBSET {} |->
             IF T = {} THEN [net |-> net, events |-> rest]
             ELSE LET w == CHOOSE v \in T : TRUE
                      before == f[T \ {w}]
                      sent == Send(before.net, path, w)
                  IN [net |-> sent.net,
                      events |-> Append(before.events, At(now + sent.delay, kind, w))]]
           base == [net |-> net, events |-> rest]
           step == CHOOSE f : f = rec(f)
           g == [T \in SUBSET {} |-> base]
<1>1. SendAll(path, kind, {}, rest) = step[{}]
  BY DEF SendAll
<1>2. SUBSET {} = {{}}
  OBVIOUS
<1>3. g = rec(g)
  BY <1>2
<1>4. step = rec(step)
  BY <1>3
<1>5. step[{}] = base
  BY <1>2, <1>4
<1> QED BY <1>1, <1>5

\* A transfer for one window schedules its one delivery.
LEMMA SendOne ==
  ASSUME NEW path, NEW kind, NEW v, NEW rest
  PROVE  SendAll(path, kind, {v}, rest).events =
           Append(rest, At(now + Send(net, path, v).delay, kind, v))
<1> DEFINE rec(f) == [T \in SUBSET {v} |->
             IF T = {} THEN [net |-> net, events |-> rest]
             ELSE LET w == CHOOSE u \in T : TRUE
                      before == f[T \ {w}]
                      sent == Send(before.net, path, w)
                  IN [net |-> sent.net,
                      events |-> Append(before.events, At(now + sent.delay, kind, w))]]
           base == [net |-> net, events |-> rest]
           one == [net |-> Send(net, path, v).net,
                   events |-> Append(rest, At(now + Send(net, path, v).delay, kind, v))]
           step == CHOOSE f : f = rec(f)
           g == [T \in SUBSET {v} |-> IF T = {} THEN base ELSE one]
<1>1. SendAll(path, kind, {v}, rest) = step[{v}]
  BY DEF SendAll
<1>2. SUBSET {v} = {{}, {v}} /\ {v} \ {v} = {} /\ (CHOOSE u \in {v} : TRUE) = v
  OBVIOUS
<1>3. g = rec(g)
  <2>1. g[{}] = base
    BY <1>2
  <2>2. rec(g)[{}] = base
    BY <1>2
  <2>3. g[{v}] = one
    BY <1>2
  <2>4. rec(g)[{v}] = one
    BY <1>2, <2>1
  <2> QED BY <1>2, <2>1, <2>2, <2>3, <2>4
<1>4. step = rec(step)
  BY <1>3
<1>5. ASSUME NEW f, f = rec(f)
      PROVE  f[{v}].events = one.events
  <2>1. {} \in SUBSET {v} /\ {v} \in SUBSET {v} /\ {v} # {}
    OBVIOUS
  <2>2. rec(f)[{}] = base
    BY <2>1
  <2>3. f[{}] = base
    BY <1>5, <2>2
  <2>4. rec(f)[{v}] =
          [net |-> Send(f[{}].net, path, v).net,
           events |-> Append(f[{}].events,
                             At(now + Send(f[{}].net, path, v).delay, kind, v))]
    BY <1>2, <2>1
  <2>5. base.net = net /\ base.events = rest
    OBVIOUS
  <2>6. rec(f)[{v}] = one
    BY <2>3, <2>4, <2>5
  <2>7. f[{v}] = rec(f)[{v}]
    BY <1>5
  <2> QED BY <2>6, <2>7
<1>6. one.events = Append(rest, At(now + Send(net, path, v).delay, kind, v))
  OBVIOUS
<1> HIDE DEF step, rec, one
<1> QED BY <1>1, <1>4, <1>5, <1>6

-----------------------------------------------------------------------------
(* What the steps of the ledger change, of what the commits depend on *)

ledgerView == <<mode, waitSel, waitRes, delivered>>

\* What admission changes of the fields the commits depend on.
LEMMA AdmitWeakView ==
  ASSUME NEW w \in Windows, AdmitWeak(w)
  PROVE  /\ weak[w] = "none" /\ weak' = [weak EXCEPT ![w] = "open"]
         /\ UNCHANGED <<ledgerView, completed>>
BY DEF AdmitWeak, ledgerView

\* What keeping a weak result changes of them.
LEMMA FinalizeView ==
  ASSUME NEW w \in Windows, Finalize(w)
  PROVE  /\ weak[w] = "open" /\ weak' = [weak EXCEPT ![w] = "resolved"]
         /\ completed' = completed \ {w}
         /\ UNCHANGED ledgerView
BY DEF Finalize, CancelStrong, TakeHeld, ledgerView

\* What an escalation changes of them.
LEMMA AwaitStrongView ==
  ASSUME NEW w \in Windows, AwaitStrong(w)
  PROVE  /\ weak[w] = "open" /\ weak' = [weak EXCEPT ![w] = "resolved"]
         /\ waitSel' = waitSel \cup {w}
         /\ UNCHANGED <<mode, waitRes, completed, delivered>>
BY DEF AwaitStrong, BeginSelection

\* What an ended strong job changes of them: its window is delivered if it
\* waited, and its result is held otherwise.
LEMMA StrongDoneView ==
  ASSUME ~ Bulk, IInv, NEW j \in Jobs, StrongDone(j)
  PROVE  /\ j \in Windows /\ running[j] # None /\ Destination(j) = j
         /\ delivered' = delivered \cup ({j} \cap waitRes)
         /\ waitRes' = waitRes \ {j}
         /\ completed' = completed \cup ({j} \ waitRes)
         /\ UNCHANGED <<mode, weak, waitSel>>
<1>1. j \in Windows /\ running[j] = j /\ Members(running, j) = {j}
  BY DonePool DEF IInv, LedgerShape
<1> QED BY <1>1, RequestsAssumption DEF StrongDone, Destination

\* What a selection that took effect changes of them.
LEMMA SelectView ==
  ASSUME NEW w, Select(w)
  PROVE  /\ w \in waitSel /\ waitSel' = waitSel \ {w}
         /\ waitRes' = IF w \in completed THEN waitRes ELSE waitRes \cup {w}
         /\ completed' = completed \ {w}
         /\ delivered' = IF w \in completed THEN delivered \cup {w} ELSE delivered
         /\ UNCHANGED <<mode, weak, running>>
BY DEF Select, HeldFor

-----------------------------------------------------------------------------
(* Commits: one event, one entry, one commit for every window *)

\* What the commits see does not move.
LEMMA CommitsUnchanged ==
  ASSUME CommitsInv, UNCHANGED <<ledgerView, events, frame, wm>>,
         \A w \in Windows : weak'[w] # "resolved" => weak[w] # "resolved"
  PROVE  CommitsInv'
BY ZenonT(60)
  DEF CommitsInv, EventsShape, FrameShape, WmShape, EventsInv, CommitInv, Ev,
      Waiting, Installed, ledgerView, Complete

\* What is scheduled after one more event.
LEMMA OneMore ==
  ASSUME EventsShape, NEW kind \in Kinds, NEW w \in Windows, ~ Ev(kind, w),
         NEW t, events' = Append(events, At(t, kind, w))
  PROVE  /\ EventsShape'
         /\ \A k \in Kinds, v \in Windows :
              Ev(k, v)' <=> Ev(k, v) \/ (k = kind /\ v = w)
<1>1. EventsOk(events) /\ <<kind, w>> \notin Scheduled(events)
  BY DEF EventsShape, Ev
<1>2. /\ EventsOk(events')
      /\ Scheduled(events') = Scheduled(events) \cup {<<kind, w>>}
  BY <1>1, ScheduleEvent
<1> QED BY <1>2 DEF EventsShape, Ev

\* ... and after the one that happens.
LEMMA OneLess ==
  ASSUME EventsShape, NEW i \in DOMAIN events, events' = RemoveAt(events, i)
  PROVE  /\ EventsShape'
         /\ events[i].kind \in Kinds /\ events[i].window \in Windows
         /\ Ev(events[i].kind, events[i].window)
         /\ \A k \in Kinds, v \in Windows :
              Ev(k, v)' <=> /\ Ev(k, v)
                            /\ ~ (k = events[i].kind /\ v = events[i].window)
<1>1. /\ EventsOk(events')
      /\ Scheduled(events') =
           Scheduled(events) \ {<<events[i].kind, events[i].window>>}
  BY TakeEvent DEF EventsShape
<1>2. <<events[i].kind, events[i].window>> \in Scheduled(events)
  BY DEF Scheduled
<1> QED BY <1>1, <1>2 DEF EventsShape, Ev

\* An entry of the event list names a window and a known kind.
LEMMA EventWindow ==
  ASSUME EventsShape, NEW i \in DOMAIN events
  PROVE  events[i].kind \in Kinds /\ events[i].window \in Windows
<1>1. <<events[i].kind, events[i].window>> \in Scheduled(events)
  BY DEF Scheduled
<1> QED BY <1>1 DEF EventsShape

\* _conclude_weak with FINALIZE: the window, undecided until now, gets its one
\* event.
LEMMA KeepCommits ==
  ASSUME CommitsInv, NEW w \in Windows, weak \in [Windows -> {"none", "open", "resolved"}],
         Keep(w), UNCHANGED frame
  PROVE  CommitsInv'
<1> USE DEF CommitsInv
<1>1. /\ weak[w] = "open" /\ weak' = [weak EXCEPT ![w] = "resolved"]
      /\ UNCHANGED <<ledgerView, wm>>
  BY FinalizeView DEF Keep
<1>2. PICK t : events' = Append(events, At(t, "weak result", w))
  BY DEF Keep
<1>3. ~ Ev("weak result", w) /\ EventsInv(w) /\ CommitInv(w)
  BY <1>1 DEF EventsInv
<1>4. /\ EventsShape'
      /\ \A k \in Kinds, v \in Windows :
           Ev(k, v)' <=> Ev(k, v) \/ (k = "weak result" /\ v = w)
  BY <1>2, <1>3, OneMore DEF Kinds
<1>5. w \notin Waiting \cup delivered \cup frame.accepted \cup wm.committed
  BY <1>1, <1>3 DEF EventsInv, CommitInv, Waiting
<1>6. ASSUME NEW v \in Windows PROVE EventsInv(v)'
  BY <1>1, <1>4, <1>5 DEF EventsInv, Waiting, ledgerView, Kinds
<1>7. ASSUME NEW v \in Windows PROVE CommitInv(v)'
  BY <1>1 DEF CommitInv, Waiting, Installed, ledgerView
<1>8. (wm.complete => Complete(wm))'
  BY <1>1 DEF Complete
<1> QED BY <1>1, <1>4, <1>6, <1>7, <1>8 DEF FrameShape, WmShape

\* _conclude_weak with AWAIT_STRONG: the selection is scheduled, and the weak
\* result is committed but does not enter the frame.
LEMMA EscalateCommits ==
  ASSUME CommitsInv, NEW w \in Windows, weak \in [Windows -> {"none", "open", "resolved"}],
         Escalate(w), UNCHANGED frame, w \notin waitSel
  PROVE  CommitsInv'
<1> USE DEF CommitsInv
<1>1. /\ weak[w] = "open" /\ weak' = [weak EXCEPT ![w] = "resolved"]
      /\ waitSel' = waitSel \cup {w}
      /\ UNCHANGED <<waitRes, delivered>>
  BY AwaitStrongView DEF Escalate
<1>2. PICK t : events' = Append(events, At(t, "select", w))
  BY DEF Escalate
<1>3. EventsInv(w) /\ CommitInv(w)
  OBVIOUS
<1>4. /\ EventsShape'
      /\ \A k \in Kinds, v \in Windows :
           Ev(k, v)' <=> Ev(k, v) \/ (k = "select" /\ v = w)
  <2>1. ~ Ev("select", w)
    BY <1>3 DEF EventsInv
  <2> QED BY <1>2, <2>1, OneMore DEF Kinds
<1>5. /\ w \notin delivered \cup frame.accepted \cup wm.committed
      /\ ~ Ev("weak result", w)
  BY <1>1, <1>3 DEF EventsInv
<1>6. /\ wm'.committed = wm.committed \cup {w}
      /\ wm'.waiting = wm.waiting \cup {w}
      /\ wm'.complete = wm.complete /\ wm'.selected = wm.selected
      /\ wm'.prediction = [wm.prediction EXCEPT ![w] = WeakBit]
      /\ WmShape'
  BY DEF Escalate, CommitProvisional, WmShape, WmRecord, WeakBit, Bits
<1>7. ASSUME NEW v \in Windows PROVE EventsInv(v)'
  BY <1>1, <1>4, <1>5, <1>6 DEF EventsInv, Waiting, Kinds
<1>8. ASSUME NEW v \in Windows PROVE CommitInv(v)'
  <2>1. CASE v = w
    BY <1>1, <1>5, <1>6, <2>1 DEF CommitInv, Waiting, Installed, WmShape, WmRecord
  <2>2. CASE v # w
    BY <1>1, <1>6, <2>2 DEF CommitInv, Waiting, Installed, WmShape, WmRecord
  <2> QED BY <2>1, <2>2
<1>9. ~ wm.complete
  BY <1>5 DEF Complete
<1> QED BY <1>4, <1>6, <1>7, <1>8, <1>9 DEF FrameShape

\* A strong result that is waited for is sent, once.
LEMMA StrongResultCommits ==
  ASSUME ~ Bulk, IInv, CommitsInv, NEW j \in Jobs, NEW bit, StrongResult(j, bit)
  PROVE  CommitsInv'
<1> USE DEF CommitsInv
<1>1. /\ j \in Windows
      /\ delivered' = delivered \cup ({j} \cap waitRes)
      /\ waitRes' = waitRes \ {j}
      /\ UNCHANGED <<mode, weak, waitSel, frame, wm>>
  BY StrongDoneView DEF StrongResult
<1>2. EventsInv(j) /\ CommitInv(j) /\ WindowInv(j)
  BY <1>1 DEF IInv
<1>3. events' = SendAll("DO", "strong result", delivered' \ delivered, events).events
  BY DEF StrongResult
<1>4. CASE j \notin waitRes
  <2>1. delivered' = delivered /\ waitRes' = waitRes
    BY <1>1, <1>4
  <2>2. delivered' \ delivered = {}
    BY <2>1
  <2>3. events' = events
    BY <1>3, <2>2, SendNone
  <2> QED BY <1>1, <2>1, <2>3, CommitsUnchanged DEF ledgerView
<1>5. CASE j \in waitRes
  <2>1. j \notin delivered \cup frame.accepted /\ ~ Ev("strong result", j)
        /\ ~ Ev("weak result", j) /\ j \in wm.waiting /\ j \notin waitSel
        /\ weak[j] = "resolved"
    BY <1>2, <1>5 DEF EventsInv, CommitInv, WindowInv, Waiting
  <2>2. delivered' \ delivered = {j} /\ delivered' = delivered \cup {j}
    BY <1>1, <1>5, <2>1
  <2>3. \E t : events' = Append(events, At(t, "strong result", j))
    <3> DEFINE t == now + Send(net, "DO", j).delay
    <3>1. SendAll("DO", "strong result", {j}, events).events =
            Append(events, At(t, "strong result", j))
      BY SendOne
    <3> HIDE DEF t
    <3>2. events' = Append(events, At(t, "strong result", j))
      BY <1>3, <2>2, <3>1
    <3> QED BY <3>2
  <2>4. /\ EventsShape'
        /\ \A k \in Kinds, v \in Windows :
             Ev(k, v)' <=> Ev(k, v) \/ (k = "strong result" /\ v = j)
    BY <1>1, <2>1, <2>3, OneMore DEF Kinds
  <2>5. ASSUME NEW v \in Windows PROVE EventsInv(v)'
    BY <1>1, <2>1, <2>2, <2>4 DEF EventsInv, Waiting, Kinds
  <2>6. ASSUME NEW v \in Windows PROVE CommitInv(v)'
    BY <1>1, <2>1, <2>2 DEF CommitInv, Waiting, Installed
  <2> QED BY <1>1, <2>4, <2>5, <2>6 DEF FrameShape, WmShape, WmRecord, Complete
<1> QED BY <1>4, <1>5

\* The selection arrives: a held result is sent, otherwise the window waits on.
LEMMA SelectedCommits ==
  ASSUME IInv, CommitsInv, NEW i \in DOMAIN events, Selected(i)
  PROVE  CommitsInv'
<1> USE DEF CommitsInv
<1> DEFINE w == events[i].window
           rest == RemoveAt(events, i)
<1>1. /\ w \in waitSel /\ waitSel' = waitSel \ {w}
      /\ waitRes' = IF w \in completed THEN waitRes ELSE waitRes \cup {w}
      /\ delivered' = IF w \in completed THEN delivered \cup {w} ELSE delivered
      /\ UNCHANGED <<mode, weak, frame, wm>>
      /\ events[i].kind = "select"
      /\ events' = SendAll("DO", "strong result", delivered' \ delivered, rest).events
  BY SelectView DEF Selected, Due
<1>2. w \in Windows
  BY <1>1 DEF IInv, LedgerShape
<1> HIDE DEF w
<1>3. EventsInv(w) /\ CommitInv(w) /\ WindowInv(w)
  BY <1>2 DEF IInv
<1>4. /\ w \notin delivered \cup frame.accepted \cup waitRes
      /\ ~ Ev("strong result", w) /\ ~ Ev("weak result", w)
      /\ w \in wm.waiting /\ weak[w] = "resolved"
  BY <1>1, <1>3 DEF EventsInv, CommitInv, WindowInv, Waiting
<1>5. EventsOk(events) /\ Scheduled(events) \subseteq Kinds \X Windows
  BY DEF EventsShape
<1>6. /\ EventsOk(rest) /\ Scheduled(rest) = Scheduled(events) \ {<<"select", w>>}
  BY <1>1, <1>5, TakeEvent DEF w
<1> HIDE DEF rest
<1>7. CASE w \in completed
  <2>1. delivered' \ delivered = {w} /\ delivered' = delivered \cup {w}
        /\ waitRes' = waitRes
    BY <1>1, <1>4, <1>7
  <2>2. \E t : events' = Append(rest, At(t, "strong result", w))
    <3> DEFINE t == now + Send(net, "DO", w).delay
    <3>1. SendAll("DO", "strong result", {w}, rest).events =
            Append(rest, At(t, "strong result", w))
      BY SendOne
    <3> HIDE DEF t
    <3>2. events' = Append(rest, At(t, "strong result", w))
      BY <1>1, <2>1, <3>1
    <3> QED BY <3>2
  <2>3. <<"strong result", w>> \notin Scheduled(rest)
    BY <1>4, <1>6 DEF Ev
  <2>4. /\ EventsOk(events')
        /\ Scheduled(events') =
             (Scheduled(events) \ {<<"select", w>>}) \cup {<<"strong result", w>>}
    <3>1. PICK t : events' = Append(rest, At(t, "strong result", w))
      BY <2>2
    <3>2. EventsOk(rest)
      BY <1>6
    <3>3. /\ EventsOk(Append(rest, At(t, "strong result", w)))
          /\ Scheduled(Append(rest, At(t, "strong result", w))) =
               Scheduled(rest) \cup {<<"strong result", w>>}
      <4> HIDE DEF CommitsInv
      <4> DEFINE kind == "strong result"
      <4>1. <<kind, w>> \notin Scheduled(rest)
        BY <2>3
      <4> HIDE DEF kind
      <4>2. /\ EventsOk(Append(rest, At(t, kind, w)))
            /\ Scheduled(Append(rest, At(t, kind, w))) =
                 Scheduled(rest) \cup {<<kind, w>>}
        BY <3>2, <4>1, ScheduleEvent
      <4> QED BY <4>2 DEF kind
    <3> QED BY <1>6, <3>1, <3>3
  <2>5. /\ EventsShape'
        /\ \A k \in Kinds, v \in Windows :
             Ev(k, v)' <=> \/ k = "strong result" /\ v = w
                           \/ Ev(k, v) /\ ~ (k = "select" /\ v = w)
    <3>1. EventsShape'
      <4>1. <<"strong result", w>> \in Kinds \X Windows
        BY <1>2 DEF Kinds
      <4> QED BY <1>5, <2>4, <4>1 DEF EventsShape
    <3> QED BY <2>4, <3>1 DEF Ev
  <2>6. ASSUME NEW v \in Windows PROVE EventsInv(v)'
    BY <1>1, <1>4, <2>1, <2>5 DEF EventsInv, Waiting, Kinds
  <2>7. ASSUME NEW v \in Windows PROVE CommitInv(v)'
    BY <1>1, <1>4, <2>1 DEF CommitInv, Waiting, Installed
  <2> QED BY <1>1, <2>5, <2>6, <2>7 DEF FrameShape, WmShape, WmRecord, Complete
<1>8. CASE w \notin completed
  <2>1. delivered' = delivered /\ waitRes' = waitRes \cup {w}
    BY <1>1, <1>8
  <2>2. delivered' \ delivered = {}
    BY <2>1
  <2>3. events' = rest
    BY ZenonT(60), <1>1, <2>2, SendNone
  <2>4. /\ EventsShape'
        /\ \A k \in Kinds, v \in Windows :
             Ev(k, v)' <=> Ev(k, v) /\ ~ (k = "select" /\ v = w)
    BY <1>1, <2>3, OneLess DEF w, rest
  <2>5. ASSUME NEW v \in Windows PROVE EventsInv(v)'
    BY <1>1, <1>4, <2>1, <2>4 DEF EventsInv, Waiting, Kinds
  <2>6. ASSUME NEW v \in Windows PROVE CommitInv(v)'
    BY <1>1, <1>4, <2>1 DEF CommitInv, Waiting, Installed
  <2> QED BY <1>1, <2>4, <2>5, <2>6 DEF FrameShape, WmShape, WmRecord, Complete
<1> QED BY <1>7, <1>8

\* What a final commit finds: nothing provisional, or the provisional commit
\* with its selection.
MayCommit(m, w, tier) ==
  /\ tier = "weak" => w \notin m.waiting
  /\ tier = "strong" => w \in m.committed /\ m.selected[w] = "strong"

\* The commit of a final result: OnCommitted leaves the window committed, out
\* of the waiting ones, with its prediction and its tier.
LEMMA OnCommittedFields ==
  ASSUME NEW m \in WmRecord,
         NEW w \in Windows, NEW bit \in Bits,
         NEW tier \in Tiers,
         MayCommit(m, w, tier)
  PROVE  LET n == OnCommitted(m, w, tier, bit)
         IN /\ n \in WmRecord
            /\ n.committed = m.committed \cup {w}
            /\ n.waiting = m.waiting \ {w}
            /\ n.selected = [m.selected EXCEPT ![w] = tier]
            /\ n.prediction = [m.prediction EXCEPT ![w] = bit]
            /\ n.complete <=> m.complete \/ Complete(n)
<1> USE DEF WmRecord, MayCommit, Tiers, Bits
<1>1. CASE tier = "weak"
  <2> DEFINE b == [m EXCEPT !.committed = @ \cup {w}, !.selected[w] = "weak",
                            !.prediction[w] = bit]
  <2>1. /\ b.committed = m.committed \cup {w} /\ b.waiting = m.waiting
        /\ b.complete = m.complete
        /\ b.selected = [m.selected EXCEPT ![w] = "weak"]
        /\ b.prediction = [m.prediction EXCEPT ![w] = bit]
        /\ b \in WmRecord
    OBVIOUS
  <2>2. OnCommitted(m, w, tier, bit) = Checked(b)
    BY <1>1 DEF OnCommitted, CommitWeak
  <2> HIDE DEF b
  <2>3. m.waiting \ {w} = m.waiting
    BY <1>1
  <2> QED BY <1>1, <2>1, <2>2, <2>3 DEF Checked, Complete
<1>2. CASE tier = "strong"
  <2> DEFINE b == [m EXCEPT !.waiting = @ \ {w}, !.prediction[w] = bit]
  <2>1. /\ b.committed = m.committed /\ b.waiting = m.waiting \ {w}
        /\ b.complete = m.complete /\ b.selected = m.selected
        /\ b.prediction = [m.prediction EXCEPT ![w] = bit]
        /\ b \in WmRecord
    OBVIOUS
  <2>2. OnCommitted(m, w, tier, bit) = Checked(b)
    BY <1>2 DEF OnCommitted, CommitStrong
  <2> HIDE DEF b
  <2>3. m.selected = [m.selected EXCEPT ![w] = tier]
    BY <1>2
  <2>4. m.committed = m.committed \cup {w}
    BY <1>2
  <2> QED BY <1>2, <2>1, <2>2, <2>3, <2>4 DEF Checked, Complete
<1> QED BY <1>1, <1>2

\* A window of which nothing moves keeps its part of the invariant.
LEMMA CommitKept ==
  ASSUME NEW v \in Windows, CommitInv(v),
         v \in Waiting' <=> v \in Waiting,
         v \in delivered' <=> v \in delivered,
         v \in frame'.accepted <=> v \in frame.accepted,
         v \in frame'.pending <=> v \in frame.pending,
         frame'.entry[v] = frame.entry[v],
         v \in wm'.committed <=> v \in wm.committed,
         v \in wm'.waiting <=> v \in wm.waiting,
         wm'.selected[v] = wm.selected[v],
         wm'.prediction[v] = wm.prediction[v]
  PROVE  CommitInv(v)'
BY DEF CommitInv, Installed

\* What commit_weak_correction is called with: the weak result, or the strong
\* one of a window whose selected tier is then set.
SinkCall(kind, w, tier, m) ==
  \/ tier = "weak" /\ kind = "weak result" /\ m = wm
  \/ /\ tier = "strong" /\ kind = "strong result"
     /\ m = [wm EXCEPT !.selected[w] = "strong"]

\* commit_weak_correction: the result of a window in flight enters the frame,
\* at once or after the write; it is never a duplicate.
LEMMA SinkCommits ==
  ASSUME CommitsInv, UNCHANGED <<ledgerView, weak>>,
         NEW i \in DOMAIN events, NEW w \in Windows, w = events[i].window,
         NEW bit \in Bits, NEW tier \in Tiers, NEW m,
         SinkCall(events[i].kind, w, tier, m),
         Sink(m, RemoveAt(events, i), w, tier, bit)
  PROVE  CommitsInv'
<1> DEFINE rest == RemoveAt(events, i)
           entry == [tier |-> tier, bit |-> bit]
           f == [frame EXCEPT !.accepted = @ \cup {w}, !.entry[w] = entry]
<1>1. EventsInv(w) /\ CommitInv(w) /\ EventsShape /\ FrameShape /\ WmShape
  BY DEF CommitsInv
<1>2. <<events[i].kind, w>> \in Scheduled(events)
  BY DEF Scheduled
<1>0. /\ events[i].kind = IF tier = "weak" THEN "weak result" ELSE "strong result"
      /\ tier # "weak" <=> tier = "strong"
  BY DEF SinkCall, Tiers
<1>3. tier = "weak" => /\ Ev("weak result", w)
                       /\ w \notin Waiting \cup delivered \cup wm.committed
  BY <1>1, <1>2 DEF EventsInv, Ev, SinkCall
<1>4. tier = "strong" => w \in delivered /\ w \in wm.waiting /\ w \in wm.committed
  BY <1>1, <1>2 DEF EventsInv, CommitInv, Ev, Installed, SinkCall
<1>5. w \notin frame.accepted /\ w \notin frame.pending /\ ~ Ev("install", w)
      /\ w \notin Waiting /\ w \notin waitSel /\ weak[w] = "resolved"
  BY <1>1, <1>2, <1>3, <1>4 DEF EventsInv, CommitInv, Ev, Waiting, SinkCall
<1>6. /\ m \in WmRecord
      /\ m.committed = wm.committed /\ m.waiting = wm.waiting
      /\ m.complete = wm.complete /\ m.prediction = wm.prediction
      /\ m.selected = IF tier = "strong" THEN [wm.selected EXCEPT ![w] = "strong"]
                      ELSE wm.selected
      /\ wm.selected \in [Windows -> Tiers \cup {None}]
      /\ wm.prediction \in [Windows -> Bits]
  <2>1. wm \in WmRecord
    BY <1>1 DEF WmShape
  <2>2. CASE tier = "weak"
    BY <2>1, <2>2 DEF SinkCall, WmRecord, Tiers
  <2>3. CASE tier = "strong"
    <3>1. m = [wm EXCEPT !.selected[w] = "strong"]
      BY <2>3 DEF SinkCall
    <3> QED BY <2>1, <2>3, <3>1 DEF WmRecord, Tiers
  <2> QED BY <2>2, <2>3 DEF Tiers
<1>7. /\ f.accepted = frame.accepted \cup {w}
      /\ f.pending = frame.pending
      /\ f.drops = frame.drops
      /\ f.entry = [frame.entry EXCEPT ![w] = entry]
      /\ f \in [accepted : SUBSET Windows, pending : SUBSET Windows,
                drops : {0}, entry : [Windows -> Entry \cup {None}]]
      /\ frame.entry \in [Windows -> Entry \cup {None}]
  BY <1>1 DEF FrameShape, Entry
<1>8. entry.tier = tier /\ entry.bit = bit /\ entry \in Entry
  BY DEF Entry
<1>9. /\ EventsOk(rest)
      /\ Scheduled(rest) = Scheduled(events) \ {<<events[i].kind, w>>}
  BY <1>1, TakeEvent DEF EventsShape
<1> HIDE DEF rest, entry, f
<1>10. CASE cfg.commit = 0
  <2>1. /\ frame' = f /\ wm' = OnCommitted(m, w, tier, bit) /\ events' = rest
    BY <1>5, <1>10 DEF Sink, rest, entry, f
  <2>2. /\ wm' \in WmRecord
        /\ wm'.committed = wm.committed \cup {w}
        /\ wm'.waiting = wm.waiting \ {w}
        /\ wm'.selected = [m.selected EXCEPT ![w] = tier]
        /\ wm'.prediction = [wm.prediction EXCEPT ![w] = bit]
        /\ wm'.complete <=> wm.complete \/ Complete(wm')
    <3>1. tier = "weak" => w \notin m.waiting
      BY <1>1, <1>3, <1>6 DEF CommitInv
    <3>2. tier = "strong" => w \in m.committed /\ m.selected[w] = "strong"
      BY <1>1, <1>4, <1>6 DEF WmShape, WmRecord
    <3>3. /\ wm' \in WmRecord
          /\ wm'.committed = m.committed \cup {w}
          /\ wm'.waiting = m.waiting \ {w}
          /\ wm'.selected = [m.selected EXCEPT ![w] = tier]
          /\ wm'.prediction = [m.prediction EXCEPT ![w] = bit]
          /\ wm'.complete <=> m.complete \/ Complete(wm')
      <4>1. m \in WmRecord
        BY <1>6
      <4> DEFINE n == OnCommitted(m, w, tier, bit)
      <4>2. /\ n \in WmRecord
            /\ n.committed = m.committed \cup {w}
            /\ n.waiting = m.waiting \ {w}
            /\ n.selected = [m.selected EXCEPT ![w] = tier]
            /\ n.prediction = [m.prediction EXCEPT ![w] = bit]
            /\ n.complete <=> m.complete \/ Complete(n)
        <5>1. MayCommit(m, w, tier)
          BY <3>1, <3>2 DEF MayCommit
        <5> QED BY <4>1, <5>1, OnCommittedFields
      <4>3. wm' = n
        BY <2>1
      <4> HIDE DEF n
      <4> QED BY <4>2, <4>3
    <3> QED BY <1>6, <3>3
  <2>3. EventsShape'
    BY <1>1, <1>9, <2>1 DEF EventsShape
  <2>4. \A k \in Kinds, v \in Windows :
          Ev(k, v)' <=> Ev(k, v) /\ ~ (k = events[i].kind /\ v = w)
    BY <1>9, <2>1 DEF Ev
  <2>5. FrameShape' /\ WmShape'
    BY <1>7, <2>1, <2>2 DEF FrameShape, WmShape, WmRecord
  <2>6. ASSUME NEW v \in Windows PROVE EventsInv(v)' /\ CommitInv(v)'
    <3>0. EventsInv(v) /\ CommitInv(v)
      BY DEF CommitsInv
    <3>1. CASE v = w
      <4>1. EventsInv(v)'
        <5>1. /\ ~ Ev("weak result", w)' /\ ~ Ev("strong result", w)'
              /\ ~ Ev("select", w)' /\ ~ Ev("install", w)'
          BY <1>0, <1>1, <1>3, <1>4, <1>5, <2>4 DEF EventsInv, Kinds
        <5>2. /\ weak'[w] = "resolved" /\ w \in frame'.accepted
              /\ w \notin frame'.pending /\ w \notin waitSel'
          BY <1>5, <1>7, <2>1 DEF ledgerView
        <5> QED BY <3>1, <5>1, <5>2 DEF EventsInv
      <4>2. /\ v \in frame'.accepted /\ v \notin frame'.pending
            /\ v \notin Waiting' /\ v \notin wm'.waiting /\ v \in wm'.committed
            /\ delivered' = delivered
        BY <1>5, <1>7, <2>1, <2>2, <3>1 DEF Waiting, ledgerView
      <4>3. /\ frame'.entry[v] = entry
            /\ wm'.selected[v] = tier /\ wm'.prediction[v] = bit
        BY <1>6, <1>7, <2>1, <2>2, <3>1
      <4>4. tier = "strong" <=> v \in delivered
        BY <1>0, <1>3, <1>4, <3>1
      <4>5. CommitInv(v)'
        BY <1>0, <1>8, <4>2, <4>3, <4>4 DEF CommitInv, Installed
      <4> QED BY <4>1, <4>5
    <3>2. CASE v # w
      <4>1. EventsInv(v)'
        BY <1>7, <2>1, <2>2, <2>4, <3>0, <3>2
        DEF EventsInv, Waiting, ledgerView, Kinds
      <4>2. /\ Waiting' = Waiting /\ delivered' = delivered
            /\ v \in frame'.accepted <=> v \in frame.accepted
            /\ v \in frame'.pending <=> v \in frame.pending
            /\ v \in wm'.committed <=> v \in wm.committed
            /\ v \in wm'.waiting <=> v \in wm.waiting
        BY <1>7, <2>1, <2>2, <3>2 DEF Waiting, ledgerView
      <4>3. /\ frame'.entry[v] = frame.entry[v]
            /\ wm'.selected[v] = wm.selected[v]
            /\ wm'.prediction[v] = wm.prediction[v]
        BY <1>6, <1>7, <2>1, <2>2, <3>2
      <4>4. CommitInv(v)'
        BY <3>0, <4>2, <4>3, CommitKept
      <4> QED BY <4>1, <4>4
    <3> QED BY <3>1, <3>2
  <2>7. wm'.complete => Complete(wm')
    <3>1. wm.complete => Complete(wm)
      BY DEF CommitsInv
    <3> QED BY <2>2, <3>1 DEF Complete
  <2> QED BY <2>3, <2>5, <2>6, <2>7 DEF CommitsInv
<1>11. CASE cfg.commit # 0
  <2>1. /\ frame' = [f EXCEPT !.pending = @ \cup {w}] /\ wm' = m
        /\ \E t : events' = Append(rest, At(t, "install", w))
    BY <1>5, <1>11 DEF Sink, rest, entry, f
  <2>2. /\ frame'.accepted = frame.accepted \cup {w}
        /\ frame'.pending = frame.pending \cup {w}
        /\ frame'.entry = [frame.entry EXCEPT ![w] = entry]
        /\ FrameShape' /\ WmShape'
    BY <1>6, <1>7, <2>1 DEF FrameShape, WmShape, WmRecord
  <2>3. /\ EventsOk(events')
        /\ Scheduled(events') =
             (Scheduled(events) \ {<<events[i].kind, w>>}) \cup {<<"install", w>>}
    <3>1. PICK t : events' = Append(rest, At(t, "install", w))
      BY <2>1
    <3> DEFINE kind == "install"
    <3>2. <<kind, w>> \notin Scheduled(rest)
      BY <1>5, <1>9 DEF Ev
    <3> HIDE DEF kind
    <3>3. /\ EventsOk(Append(rest, At(t, kind, w)))
          /\ Scheduled(Append(rest, At(t, kind, w))) =
               Scheduled(rest) \cup {<<kind, w>>}
      <4>1. EventsOk(rest)
        BY <1>9
      <4> QED BY <3>2, <4>1, ScheduleEvent
    <3> QED BY <1>9, <3>1, <3>3 DEF kind
  <2>4. EventsShape'
    <3>1. <<"install", w>> \in Kinds \X Windows
      BY DEF Kinds
    <3> QED BY <1>1, <2>3, <3>1 DEF EventsShape
  <2>5. \A k \in Kinds, v \in Windows :
          Ev(k, v)' <=> \/ k = "install" /\ v = w
                        \/ Ev(k, v) /\ ~ (k = events[i].kind /\ v = w)
    BY <2>3 DEF Ev
  <2>6. ASSUME NEW v \in Windows PROVE EventsInv(v)' /\ CommitInv(v)'
    <3>0. EventsInv(v) /\ CommitInv(v)
      BY DEF CommitsInv
    <3>1. CASE v = w
      <4>1. EventsInv(v)'
        <5>1. /\ ~ Ev("weak result", w)' /\ ~ Ev("strong result", w)'
              /\ ~ Ev("select", w)' /\ Ev("install", w)'
          BY <1>0, <1>1, <1>3, <1>4, <1>5, <2>5 DEF EventsInv, Kinds
        <5>2. /\ weak'[w] = "resolved" /\ w \in frame'.accepted
              /\ w \in frame'.pending /\ w \notin waitSel'
          BY <1>5, <2>2 DEF ledgerView
        <5> QED BY <3>1, <5>1, <5>2 DEF EventsInv
      <4>2. /\ v \in frame'.accepted /\ v \in frame'.pending
            /\ v \notin Waiting' /\ delivered' = delivered
            /\ v \notin Installed
            /\ wm'.committed = wm.committed /\ wm'.waiting = wm.waiting
        BY <1>5, <1>6, <2>1, <2>2, <3>1 DEF Waiting, ledgerView, Installed
      <4>3. /\ frame'.entry[v] = entry
            /\ tier = "strong" => wm'.selected[v] = "strong"
        BY <1>6, <1>7, <2>1, <2>2, <3>1
      <4>4. tier = "strong" <=> v \in delivered
        BY <1>0, <1>3, <1>4, <3>1
      <4>5. CommitInv(v)'
        BY <1>0, <1>5, <1>8, <3>0, <3>1, <4>2, <4>3, <4>4 DEF CommitInv, Installed, Waiting, ledgerView
      <4> QED BY <4>1, <4>5
    <3>2. CASE v # w
      <4>1. EventsInv(v)'
        BY <1>6, <2>1, <2>2, <2>5, <3>0, <3>2
        DEF EventsInv, Waiting, ledgerView, Kinds
      <4>2. /\ Waiting' = Waiting /\ delivered' = delivered
            /\ v \in frame'.accepted <=> v \in frame.accepted
            /\ v \in frame'.pending <=> v \in frame.pending
            /\ v \in wm'.committed <=> v \in wm.committed
            /\ v \in wm'.waiting <=> v \in wm.waiting
        BY <1>6, <2>1, <2>2, <3>2 DEF Waiting, ledgerView
      <4>3. /\ frame'.entry[v] = frame.entry[v]
            /\ wm'.selected[v] = wm.selected[v]
            /\ wm'.prediction[v] = wm.prediction[v]
        BY <1>6, <1>7, <2>1, <2>2, <3>2
      <4>4. CommitInv(v)'
        BY <3>0, <4>2, <4>3, CommitKept
      <4> QED BY <4>1, <4>4
    <3> QED BY <3>1, <3>2
  <2>7. wm'.complete => Complete(wm')
    BY <1>6, <2>1 DEF CommitsInv, Complete
  <2> QED BY <2>2, <2>4, <2>6, <2>7 DEF CommitsInv
<1> QED BY <1>10, <1>11

\* _sink_weak_correction
LEMMA WeakDeliveredCommits ==
  ASSUME CommitsInv, NEW i \in DOMAIN events, WeakDelivered(i)
  PROVE  CommitsInv'
<1> DEFINE tier == "weak"
<1>1. /\ UNCHANGED <<ledgerView, weak>>
      /\ Sink(wm, RemoveAt(events, i), events[i].window, tier, WeakBit)
      /\ SinkCall(events[i].kind, events[i].window, tier, wm)
  BY DEF WeakDelivered, Due, SinkCall, ledgerView, vars, ledger
<1>2. tier \in Tiers /\ WeakBit \in Bits
  BY DEF Tiers, Bits, WeakBit
<1>3. events[i].window \in Windows
  BY EventWindow DEF CommitsInv
<1> HIDE DEF tier
<1> QED BY <1>1, <1>2, <1>3, SinkCommits

\* _commit_strong_decode_done
LEMMA StrongDeliveredCommits ==
  ASSUME CommitsInv, HalfShape, NEW i \in DOMAIN events, StrongDelivered(i)
  PROVE  CommitsInv'
<1> DEFINE tier == "strong"
           w == events[i].window
           m == [wm EXCEPT !.selected[w] = "strong"]
<1>1. /\ UNCHANGED <<ledgerView, weak>>
      /\ Sink(m, RemoveAt(events, i), w, tier, half[w].strong)
      /\ SinkCall(events[i].kind, w, tier, m)
  BY DEF StrongDelivered, Due, SinkCall, ledgerView, vars, ledger
<1>2. w \in Windows
  BY EventWindow DEF CommitsInv
<1>3. tier \in Tiers /\ half[w].strong \in Bits
  BY <1>2 DEF Tiers, HalfShape
<1> HIDE DEF tier, m
<1> QED BY <1>1, <1>2, <1>3, SinkCommits

\* _install_accepted_write: the entry of the write is installed and its window
\* finally committed.
LEMMA FrameWrittenCommits ==
  ASSUME CommitsInv, NEW i \in DOMAIN events, FrameWritten(i)
  PROVE  CommitsInv'
<1> DEFINE w == events[i].window
           tier == frame.entry[w].tier
           bit == frame.entry[w].bit
           n == OnCommitted(wm, w, tier, bit)
<1>1. /\ UNCHANGED <<ledgerView, weak>> /\ events[i].kind = "install"
      /\ frame' = [frame EXCEPT !.pending = @ \ {w}] /\ wm' = n
      /\ events' = RemoveAt(events, i)
  BY DEF FrameWritten, Due, ledgerView, vars, ledger
<1>2. EventsShape /\ FrameShape /\ WmShape
  BY DEF CommitsInv
<1>3. /\ w \in Windows /\ Ev("install", w) /\ EventsShape'
      /\ \A k \in Kinds, v \in Windows :
           Ev(k, v)' <=> Ev(k, v) /\ ~ (k = "install" /\ v = w)
  BY <1>1, <1>2, OneLess
<1> HIDE DEF w
<1>4. EventsInv(w) /\ CommitInv(w)
  BY <1>3 DEF CommitsInv
<1>5. /\ w \in frame.pending /\ w \in frame.accepted
      /\ w \notin Waiting /\ w \notin waitSel /\ weak[w] = "resolved"
      /\ frame.entry[w] \in Entry
      /\ tier = IF w \in delivered THEN "strong" ELSE "weak"
      /\ w \in delivered =>
           w \in wm.waiting /\ w \in wm.committed /\ wm.selected[w] = "strong"
      /\ w \notin delivered => w \notin wm.waiting
  BY <1>3, <1>4 DEF EventsInv, CommitInv, Waiting, Installed
<1>6. tier \in Tiers /\ bit \in Bits /\ MayCommit(wm, w, tier) /\ wm \in WmRecord
  BY <1>2, <1>5 DEF Entry, MayCommit, WmShape
<1> HIDE DEF tier, bit
<1>7. /\ n \in WmRecord
      /\ n.committed = wm.committed \cup {w}
      /\ n.waiting = wm.waiting \ {w}
      /\ n.selected = [wm.selected EXCEPT ![w] = tier]
      /\ n.prediction = [wm.prediction EXCEPT ![w] = bit]
      /\ n.complete <=> wm.complete \/ Complete(n)
  BY <1>3, <1>6, OnCommittedFields
<1> HIDE DEF n
<1>8. /\ frame'.accepted = frame.accepted
      /\ frame'.pending = frame.pending \ {w}
      /\ frame'.entry = frame.entry
      /\ FrameShape'
  BY <1>1, <1>2 DEF FrameShape
<1>9. /\ wm.selected \in [Windows -> Tiers \cup {None}]
      /\ wm.prediction \in [Windows -> Bits]
  BY <1>2 DEF WmShape, WmRecord
<1>10. ASSUME NEW v \in Windows PROVE EventsInv(v)' /\ CommitInv(v)'
  <2>0. EventsInv(v) /\ CommitInv(v)
    BY DEF CommitsInv
  <2>1. Waiting' = Waiting /\ delivered' = delivered /\ waitSel' = waitSel
        /\ weak' = weak
    BY <1>1 DEF Waiting, ledgerView
  <2>2. CASE v = w
    <3>1. EventsInv(v)'
      <4>1. ~ Ev("install", v)' /\ v \notin frame'.pending
        BY <1>3, <1>8, <2>2 DEF Kinds
      <4>2. /\ Ev("select", v)' <=> Ev("select", v)
            /\ Ev("weak result", v)' <=> Ev("weak result", v)
            /\ Ev("strong result", v)' <=> Ev("strong result", v)
        BY <1>3 DEF Kinds
      <4>3. ~ Ev("weak result", v) /\ v \in frame'.accepted /\ v \notin waitSel
            /\ weak[v] = "resolved"
        BY <1>4, <1>5, <1>8, <2>2 DEF EventsInv
      <4> QED BY <1>8, <2>0, <2>1, <4>1, <4>2, <4>3 DEF EventsInv
    <3>2. /\ v \in frame'.accepted /\ v \notin frame'.pending
          /\ v \notin wm'.waiting /\ v \in wm'.committed
      BY <1>1, <1>5, <1>7, <1>8, <2>2
    <3>3. /\ frame'.entry[v] = frame.entry[w]
          /\ wm'.selected[v] = tier /\ wm'.prediction[v] = bit
      BY <1>1, <1>7, <1>8, <1>9, <2>2
    <3>4. CommitInv(v)'
      BY <1>5, <2>1, <2>2, <3>2, <3>3 DEF CommitInv, Installed, tier, bit
    <3> QED BY <3>1, <3>4
  <2>3. CASE v # w
    <3>1. /\ v \in frame'.pending <=> v \in frame.pending
          /\ v \in wm'.committed <=> v \in wm.committed
          /\ v \in wm'.waiting <=> v \in wm.waiting
          /\ wm'.selected[v] = wm.selected[v]
          /\ wm'.prediction[v] = wm.prediction[v]
      BY <1>1, <1>7, <1>8, <1>9, <2>3
    <3>2. EventsInv(v)'
      BY <1>3, <1>8, <2>0, <2>1, <2>3, <3>1 DEF EventsInv, Kinds
    <3>3. CommitInv(v)'
      BY <1>8, <2>0, <2>1, <3>1, CommitKept
    <3> QED BY <3>2, <3>3
  <2> QED BY <2>2, <2>3
<1>11. wm'.complete => Complete(wm')
  <2>1. wm.complete => Complete(wm)
    BY DEF CommitsInv
  <2> QED BY <1>1, <1>3, <1>7, <2>1 DEF Complete
<1>12. WmShape'
  BY <1>1, <1>7 DEF WmShape, WmRecord
<1> QED BY <1>3, <1>8, <1>10, <1>11, <1>12 DEF CommitsInv

\* What the decision on a weak outcome does to the commits.
LEMMA DecideCommits ==
  ASSUME IInv, CommitsInv, NEW w \in Windows, NEW h, Decide(w, h), UNCHANGED frame
  PROVE  CommitsInv'
<1>1. weak \in [Windows -> {"none", "open", "resolved"}]
  BY DEF IInv, LedgerShape
<1>2. CASE Keep(w)
  BY <1>1, <1>2, KeepCommits
<1>3. CASE Escalate(w)
  <2>1. w \notin waitSel
    BY <1>3, AwaitStrongView DEF Escalate, IInv, WindowInv, Waiting
  <2> QED BY <1>1, <1>3, <2>1, EscalateCommits
<1> QED BY <1>2, <1>3 DEF Decide

\* Every step keeps what is scheduled, installed and committed together.
LEMMA CommitsStep ==
  ASSUME ~ Bulk, IInv, HalfShape, CommitsInv, [SwitchNext]_switchVars
  PROVE  CommitsInv'
<1>1. ASSUME NEW w \in Windows, Submit(w) PROVE CommitsInv'
  <2>1. /\ AdmitWeak(w) /\ UNCHANGED <<events, frame, wm>>
    BY <1>1 DEF Submit, commitVars
  <2>2. /\ weak[w] = "none" /\ weak' = [weak EXCEPT ![w] = "open"]
        /\ UNCHANGED ledgerView
    BY <2>1, AdmitWeakView
  <2>3. \A v \in Windows : weak'[v] # "resolved" => weak[v] # "resolved"
    BY <2>2 DEF IInv, LedgerShape
  <2> QED BY <2>1, <2>2, <2>3, CommitsUnchanged DEF ledgerView
<1>2. ASSUME UNCHANGED <<vars, events, frame, wm>> PROVE CommitsInv'
  BY <1>2, CommitsUnchanged DEF vars, ledger, ledgerView
<1>3. ASSUME NEW w \in Windows, Start(w) PROVE CommitsInv'
  BY <1>2, <1>3 DEF Start, commitVars
<1>4. ASSUME NEW w \in Windows, FarReady(w) PROVE CommitsInv'
  <2>1. UNCHANGED <<ledgerView, weak, events, frame, wm>>
    BY <1>4 DEF FarReady, SubmitDeferred, ledgerView, commitVars
  <2> QED BY <2>1, CommitsUnchanged
<1>5. ASSUME NEW w \in Windows, NEW weight, PrimaryDone(w, weight)
      PROVE  CommitsInv'
  <2>1. UNCHANGED frame
    BY <1>5 DEF PrimaryDone
  <2>2. ASSUME NEW h, Decide(w, h) PROVE CommitsInv'
    BY <2>1, <2>2, DecideCommits
  <2> QED BY <1>2, <1>5, <2>1, <2>2 DEF PrimaryDone
<1>6. ASSUME NEW w \in Windows, NEW weight, SiblingDone(w, weight)
      PROVE  CommitsInv'
  <2>1. UNCHANGED frame
    BY <1>6 DEF SiblingDone
  <2>2. ASSUME NEW h, Decide(w, h) PROVE CommitsInv'
    BY <2>1, <2>2, DecideCommits
  <2> QED BY <1>2, <1>6, <2>1, <2>2 DEF SiblingDone
<1>7. ASSUME NEW j \in Jobs, NEW bit, StrongResult(j, bit) PROVE CommitsInv'
  BY <1>7, StrongResultCommits
<1>8. CASE SetThreshold \/ Tick \/ UNCHANGED switchVars
  BY <1>2, <1>8 DEF SetThreshold, Tick, switchVars, commitVars
<1>9. ASSUME NEW i \in DOMAIN events,
             Selected(i) \/ WeakDelivered(i) \/ StrongDelivered(i) \/ FrameWritten(i)
      PROVE  CommitsInv'
  BY <1>9, SelectedCommits, WeakDeliveredCommits, StrongDeliveredCommits,
     FrameWrittenCommits
<1> QED
  BY <1>1, <1>3, <1>4, <1>5, <1>6, <1>7, <1>8, <1>9 DEF SwitchNext

\* The two halves of a split gap keep their shape, and the configuration stays.
LEMMA HalfStep ==
  ASSUME HalfShape, [SwitchNext]_switchVars
  PROVE  HalfShape' /\ cfg' = cfg
<1> USE DEF HalfShape
<1>1. ASSUME NEW w \in Windows, Submit(w) \/ Start(w) PROVE HalfShape' /\ cfg' = cfg
  BY <1>1 DEF Submit, Start
<1>2. ASSUME UNCHANGED <<half, cfg>> PROVE HalfShape' /\ cfg' = cfg
  BY <1>2
<1>3. ASSUME NEW w \in Windows, NEW weight \in cfg.weights,
             PrimaryDone(w, weight) \/ SiblingDone(w, weight)
      PROVE HalfShape' /\ cfg' = cfg
  <2> DEFINE Half == [primary : {"idle", "queued", "running", "done"},
                      sibling : {"none", "running", "done"},
                      weight : cfg.weights \cup {None},
                      other : cfg.weights \cup {None}, strong : Bits]
  <2>1. half \in [Windows -> Half] /\ half[w] \in Half
    OBVIOUS
  <2>2. /\ [half[w] EXCEPT !.primary = "done", !.weight = weight] \in Half
        /\ [half[w] EXCEPT !.sibling = "done", !.other = weight] \in Half
    BY <2>1
  <2>3. cfg' = cfg /\ \E h \in Half : half' = [half EXCEPT ![w] = h]
    BY <1>3, <2>2 DEF PrimaryDone, SiblingDone
  <2>4. half' \in [Windows -> Half]
    BY <2>1, <2>3
  <2> QED BY <2>3, <2>4
<1>4. ASSUME NEW j \in Jobs, NEW bit \in {0, 1}, StrongResult(j, bit)
      PROVE HalfShape' /\ cfg' = cfg
  BY ZenonT(60), <1>4 DEF StrongResult, Bits
<1>5. ASSUME NEW w \in Windows, FarReady(w) PROVE UNCHANGED <<half, cfg>>
  BY <1>5 DEF FarReady, outcomeVars
<1>6. CASE SetThreshold \/ Tick \/ UNCHANGED switchVars
  BY <1>6 DEF SetThreshold, Tick, switchVars, outcomeVars
<1>7. ASSUME NEW i \in DOMAIN events,
             Selected(i) \/ WeakDelivered(i) \/ StrongDelivered(i) \/ FrameWritten(i)
      PROVE  UNCHANGED <<half, cfg>>
  BY <1>7 DEF Selected, WeakDelivered, StrongDelivered, FrameWritten, outcomeVars
<1> QED
  BY <1>1, <1>2, <1>3, <1>4, <1>5, <1>6, <1>7 DEF SwitchNext

-----------------------------------------------------------------------------
(* Audits *)

\* A target moved by audits stays between its bounds.
LEMMA ClampBounds ==
  ASSUME NEW t \in Int
  PROVE  Clamp(t) \in MinTarget .. MaxTarget
BY SwitchingAssumption DEF Clamp

\* The observation of a gap counts the window once, and leaves audits alone.
LEMMA ObserveFields ==
  ASSUME NEW c, CalShape(c), c.windows = c.escalated + c.kept, NEW gap
  PROVE  LET n == Observe(c, gap)
         IN /\ CalShape(n) /\ n.windows = n.escalated + n.kept
            /\ n.pending = c.pending /\ n.labelled = c.labelled
            /\ n.audited = c.audited
<1> DEFINE out == IF Escalates(c, gap) THEN 1 ELSE 0
           threshold == NonNegative(c.threshold + c.target - RateScale * out)
           n == [c EXCEPT !.windows = @ + 1, !.escalated = @ + out,
                          !.kept = @ + (1 - out), !.threshold = threshold]
<1>1. Observe(c, gap) = n
  BY DEF Observe
<1>2. out \in 0 .. 1
  OBVIOUS
<1> HIDE DEF out, threshold
<1>3. /\ n.windows = c.windows + 1 /\ n.escalated = c.escalated + out
      /\ n.kept = c.kept + (1 - out)
      /\ n.pending = c.pending /\ n.labelled = c.labelled
      /\ n.audited = c.audited
  BY DEF CalShape
<1>4. CalShape(n)
  <2>1. c.windows + 1 \in Nat /\ c.escalated + out \in Nat /\ c.kept + (1 - out) \in Nat
    BY <1>2 DEF CalShape
  <2> QED BY <2>1 DEF CalShape
<1> HIDE DEF n
<1> QED BY <1>1, <1>2, <1>3, <1>4 DEF CalShape

\* The strong result of an audited window labels it, and no other.
LEMMA AbsorbFields ==
  ASSUME NEW c, CalShape(c), NEW w \in Windows, NEW bad \in BOOLEAN
  PROVE  LET n == Absorb(c, w, bad)
         IN /\ CalShape(n)
            /\ n.windows = c.windows /\ n.escalated = c.escalated /\ n.kept = c.kept
            /\ n.pending = c.pending \ {w}
            /\ w \notin c.pending => n = c
            /\ w \in c.pending => /\ n.labelled = c.labelled \cup {w}
                                 /\ n.audited = c.audited + 1
<1>1. CASE w \notin c.pending
  <2>1. Absorb(c, w, bad) = c
    BY <1>1 DEF Absorb
  <2> QED BY <1>1, <2>1
<1>2. CASE w \in c.pending
  <2> DEFINE base == [c EXCEPT !.pending = @ \ {w}, !.labelled = @ \cup {w},
                               !.audited = @ + 1]
             n == Absorb(c, w, bad)
  <2>1. /\ base.windows = c.windows /\ base.escalated = c.escalated
        /\ base.kept = c.kept /\ base.pending = c.pending \ {w}
        /\ base.labelled = c.labelled \cup {w} /\ base.audited = c.audited + 1
        /\ base.target = c.target /\ base.threshold = c.threshold
        /\ base.bad = c.bad /\ base.streak = c.streak /\ base.moves = c.moves
        /\ CalShape(base)
    <3>1. c \in [threshold : {c.threshold}, target : MinTarget .. MaxTarget,
                  windows : Nat, escalated : Nat, kept : Nat, audited : Nat,
                  bad : Nat, streak : Nat, moves : Nat,
                  pending : SUBSET Windows, labelled : SUBSET Windows]
      BY DEF CalShape
    <3>2. /\ base.windows = c.windows /\ base.escalated = c.escalated
          /\ base.kept = c.kept /\ base.pending = c.pending \ {w}
          /\ base.labelled = c.labelled \cup {w} /\ base.audited = c.audited + 1
          /\ base.target = c.target /\ base.threshold = c.threshold
          /\ base.bad = c.bad /\ base.streak = c.streak /\ base.moves = c.moves
      BY <3>1
    <3>3. base \in [threshold : {c.threshold}, target : MinTarget .. MaxTarget,
                  windows : Nat, escalated : Nat, kept : Nat, audited : Nat,
                  bad : Nat, streak : Nat, moves : Nat,
                  pending : SUBSET Windows, labelled : SUBSET Windows]
      <4>1. \A p, l \in SUBSET Windows, a \in Nat :
              [c EXCEPT !.pending = p, !.labelled = l, !.audited = a] \in
                [threshold : {c.threshold}, target : MinTarget .. MaxTarget,
                 windows : Nat, escalated : Nat, kept : Nat, audited : Nat,
                 bad : Nat, streak : Nat, moves : Nat,
                 pending : SUBSET Windows, labelled : SUBSET Windows]
        BY <3>1
      <4>2. /\ c.pending \ {w} \in SUBSET Windows
            /\ c.labelled \cup {w} \in SUBSET Windows /\ c.audited + 1 \in Nat
        BY <3>1
      <4> QED BY <4>1, <4>2
    <3> HIDE DEF base
    <3> QED BY <3>2, <3>3 DEF CalShape
  <2>2. n = IF bad
            THEN [base EXCEPT !.bad = @ + 1, !.streak = 0, !.moves = @ + 1,
                              !.target = Clamp(@ * AdjustFactor)]
            ELSE IF c.streak + 1 >= RelaxQuota
            THEN [base EXCEPT !.streak = 0, !.moves = @ + 1,
                              !.target = Clamp(@ \div AdjustFactor)]
            ELSE [base EXCEPT !.streak = @ + 1]
    BY <1>2 DEF Absorb
  <2> HIDE DEF base, n
  <2>3. c.target \in Int /\ c.target * AdjustFactor \in Int
        /\ c.target \div AdjustFactor \in Int
    BY SwitchingAssumption DEF CalShape
  <2>4. /\ Clamp(base.target * AdjustFactor) \in MinTarget .. MaxTarget
        /\ Clamp(base.target \div AdjustFactor) \in MinTarget .. MaxTarget
    BY <2>1, <2>3, ClampBounds
  <2>5. /\ CalShape(n) /\ n.windows = base.windows /\ n.escalated = base.escalated
        /\ n.kept = base.kept /\ n.pending = base.pending
        /\ n.labelled = base.labelled /\ n.audited = base.audited
    <3>1. ASSUME NEW target \in MinTarget .. MaxTarget, NEW b \in Nat,
                 NEW streak \in Nat, NEW moves \in Nat,
                 n = [base EXCEPT !.bad = b, !.streak = streak, !.moves = moves,
                                  !.target = target]
          PROVE  /\ CalShape(n) /\ n.windows = base.windows
                 /\ n.escalated = base.escalated
                 /\ n.kept = base.kept /\ n.pending = base.pending
                 /\ n.labelled = base.labelled /\ n.audited = base.audited
      <4>1. base \in [threshold : {base.threshold}, target : MinTarget .. MaxTarget,
                  windows : Nat, escalated : Nat, kept : Nat, audited : Nat,
                  bad : Nat, streak : Nat, moves : Nat,
                  pending : SUBSET Windows, labelled : SUBSET Windows]
        BY <2>1 DEF CalShape
      <4>2. /\ n \in [threshold : {base.threshold}, target : MinTarget .. MaxTarget,
                  windows : Nat, escalated : Nat, kept : Nat, audited : Nat,
                  bad : Nat, streak : Nat, moves : Nat,
                  pending : SUBSET Windows, labelled : SUBSET Windows]
            /\ n.windows = base.windows /\ n.threshold = base.threshold
            /\ n.escalated = base.escalated
            /\ n.kept = base.kept /\ n.pending = base.pending
            /\ n.labelled = base.labelled /\ n.audited = base.audited
        BY <3>1, <4>1
      <4> QED BY <4>2 DEF CalShape
    <3>2. base.bad \in Nat /\ base.streak \in Nat /\ base.moves \in Nat
          /\ base.target \in MinTarget .. MaxTarget
      BY <2>1 DEF CalShape
    <3>3. base.bad + 1 \in Nat /\ base.streak + 1 \in Nat /\ base.moves + 1 \in Nat
          /\ 0 \in Nat
      BY <3>2
    <3>4. \E target \in MinTarget .. MaxTarget, b, streak, moves \in Nat :
            n = [base EXCEPT !.bad = b, !.streak = streak, !.moves = moves,
                             !.target = target]
      <4>1. CASE bad
        <5>1. n = [base EXCEPT !.bad = base.bad + 1, !.streak = 0,
                               !.moves = base.moves + 1,
                               !.target = Clamp(base.target * AdjustFactor)]
          BY <2>2, <4>1
        <5> QED BY <2>4, <3>3, <5>1
      <4>2. CASE ~ bad /\ c.streak + 1 >= RelaxQuota
        <5>1. n = [base EXCEPT !.streak = 0, !.moves = base.moves + 1,
                               !.target = Clamp(base.target \div AdjustFactor)]
          BY <2>2, <4>2
        <5>2. n = [base EXCEPT !.bad = base.bad, !.streak = 0,
                               !.moves = base.moves + 1,
                               !.target = Clamp(base.target \div AdjustFactor)]
          BY <5>1, <2>1 DEF CalShape
        <5> QED BY <2>4, <3>2, <3>3, <5>2
      <4>3. CASE ~ bad /\ ~ (c.streak + 1 >= RelaxQuota)
        <5>1. n = [base EXCEPT !.streak = base.streak + 1]
          BY <2>2, <4>3, <2>1
        <5>2. n = [base EXCEPT !.bad = base.bad, !.streak = base.streak + 1,
                               !.moves = base.moves, !.target = base.target]
          BY <5>1, <2>1 DEF CalShape
        <5> QED BY <3>2, <3>3, <5>2
      <4> QED BY <4>1, <4>2, <4>3
    <3> QED BY <3>1, <3>4
  <2> QED BY <1>2, <2>1, <2>5 DEF n
<1> QED BY <1>1, <1>2

\* What an observation or an escalation must leave.
LEMMA AuditKept ==
  ASSUME AuditInv, UNCHANGED <<cfg, mode>>,
         CalShape(cal'), cal'.windows = cal'.escalated + cal'.kept,
         cal'.labelled = cal.labelled, cal'.audited = cal.audited,
         \A w \in cal'.pending :
           cfg.keep = "online" /\ w \in Waiting' \ completed' /\ w \notin cal.labelled,
         \A w \in Windows : weak[w] = "resolved" => weak'[w] = "resolved"
  PROVE  AuditInv'
<1>1. cal'.labelled \subseteq Windows
  BY DEF CalShape
<1> QED BY <1>1 DEF AuditInv, PolicyOk, CalShape

\* The decision observes a gap once; a window it picks for an audit is serial,
\* so that nothing carries its strong result yet.
LEMMA DecideAudits ==
  ASSUME IInv, AuditInv, NEW w \in Windows, NEW h, Decide(w, h), UNCHANGED cfg
  PROVE  AuditInv'
<1> DEFINE o == IF cfg.keep = "online" /\ Gap(h) # None THEN Observe(cal, Gap(h)) ELSE cal
<1>1. /\ CalShape(o) /\ o.windows = o.escalated + o.kept
      /\ o.pending = cal.pending /\ o.labelled = cal.labelled
      /\ o.audited = cal.audited
  BY ObserveFields DEF AuditInv
<1>2. \/ Keep(w) /\ cal' = o
      \/ Escalate(w) /\ cal' = o
      \/ /\ cfg.keep = "online" /\ Escalate(w)
         /\ cal' = [o EXCEPT !.pending = @ \cup {w}]
  BY DEF Decide, MayAudit
<1> HIDE DEF o
<1>3. weak \in [Windows -> {"none", "open", "resolved"}] /\ WindowInv(w)
  BY DEF IInv, LedgerShape
<1>4. /\ mode' = mode /\ weak[w] = "open" /\ weak' = [weak EXCEPT ![w] = "resolved"]
      /\ \A v \in Waiting \ completed : v \in Waiting' \ completed'
      /\ Escalate(w) => w \in Waiting' /\ completed' = completed
  <2>1. CASE Keep(w)
    <3>1. ~ Escalate(w) \/ w \in Waiting'
      BY AwaitStrongView DEF Escalate, Waiting
    <3>2. Escalate(w) => completed' = completed
      BY AwaitStrongView DEF Escalate
    <3> QED BY <2>1, <3>1, <3>2, FinalizeView DEF Keep, ledgerView, Waiting
  <2>2. CASE Escalate(w)
    BY <2>2, AwaitStrongView DEF Escalate, Waiting
  <2> QED BY <1>2, <2>1, <2>2
<1>5. \A v \in Windows : weak[v] = "resolved" => weak'[v] = "resolved"
  BY <1>3, <1>4
<1>6. \A v \in cal.pending :
        cfg.keep = "online" /\ v \in Waiting' \ completed' /\ v \notin cal.labelled
  BY <1>4 DEF AuditInv
<1>7. CASE cal' = o
  BY <1>1, <1>4, <1>5, <1>6, <1>7, AuditKept
<1>8. CASE /\ cfg.keep = "online" /\ Escalate(w)
           /\ cal' = [o EXCEPT !.pending = @ \cup {w}]
  <2>1. w \notin completed
    BY <1>3, <1>4, <1>8 DEF AuditInv, PolicyOk, WindowInv, Carried
  <2>2. w \notin cal.labelled
    BY <1>4 DEF AuditInv
  <2>3. /\ cal'.pending = cal.pending \cup {w} /\ cal'.labelled = cal.labelled
        /\ cal'.audited = cal.audited /\ cal'.windows = o.windows
        /\ cal'.escalated = o.escalated /\ cal'.kept = o.kept
        /\ CalShape(cal')
    BY <1>1, <1>8 DEF CalShape
  <2>4. \A v \in cal'.pending :
          cfg.keep = "online" /\ v \in Waiting' \ completed' /\ v \notin cal.labelled
    BY <1>4, <1>6, <1>8, <2>1, <2>2, <2>3
  <2>5. cal'.windows = cal'.escalated + cal'.kept
    BY <1>1, <2>3
  <2> QED BY <1>4, <1>5, <2>3, <2>4, <2>5, AuditKept
<1> QED BY <1>2, <1>7, <1>8

\* A strong result answers its own audit, and no other.
LEMMA StrongResultAudits ==
  ASSUME ~ Bulk, IInv, AuditInv, NEW j \in Jobs, NEW bit, StrongResult(j, bit)
  PROVE  AuditInv'
<1> DEFINE bad == bit # WeakBit
<1>1. /\ j \in Windows /\ Destination(j) = j
      /\ waitRes' = waitRes \ {j} /\ completed' = completed \cup ({j} \ waitRes)
      /\ UNCHANGED <<mode, weak, waitSel, cfg>>
  BY StrongDoneView DEF StrongResult
<1>2. cal' = Absorb(cal, j, bad)
  BY <1>1 DEF StrongResult
<1>3. bad \in BOOLEAN
  OBVIOUS
<1> HIDE DEF bad
<1>4. /\ CalShape(cal')
      /\ cal'.windows = cal.windows /\ cal'.escalated = cal.escalated
      /\ cal'.kept = cal.kept
      /\ cal'.pending = cal.pending \ {j}
      /\ j \notin cal.pending => cal' = cal
      /\ j \in cal.pending => /\ cal'.labelled = cal.labelled \cup {j}
                              /\ cal'.audited = cal.audited + 1
  <2>1. CalShape(cal)
    BY DEF AuditInv
  <2> QED BY <1>1, <1>2, <1>3, <2>1, AbsorbFields
<1>5. cal'.windows = cal'.escalated + cal'.kept
  BY <1>4 DEF AuditInv
<1>6. \A v \in cal'.pending :
        cfg.keep = "online" /\ v \in Waiting' \ completed' /\ v \notin cal.labelled
        /\ v # j
  BY <1>1, <1>4 DEF AuditInv, Waiting
<1>7. CASE j \notin cal.pending
  <2>1. cal'.labelled = cal.labelled /\ cal'.audited = cal.audited
    BY <1>4, <1>7
  <2> QED BY <1>1, <1>4, <1>5, <1>6, <2>1, AuditKept
<1>8. CASE j \in cal.pending
  <2>1. j \notin cal.labelled /\ weak[j] = "resolved"
    <3>1. j \in Waiting /\ WindowInv(j) /\ j \notin cal.labelled
      BY <1>1, <1>8 DEF AuditInv, IInv
    <3>2. weak[j] \in {"none", "open", "resolved"}
      BY <1>1 DEF IInv, LedgerShape
    <3> QED BY <3>1, <3>2 DEF WindowInv, Waiting
  <2>2. IsFiniteSet(cal'.labelled) /\ Cardinality(cal'.labelled) = cal'.audited
    BY <1>4, <1>8, <2>1, FS_AddElement DEF AuditInv
  <2>3. \A v \in cal'.pending : v \notin cal'.labelled
    BY <1>4, <1>6, <1>8
  <2>4. \A v \in cal'.labelled : weak'[v] = "resolved"
    BY <1>1, <1>4, <1>8, <2>1 DEF AuditInv
  <2>5. mode' = cfg'.mode /\ PolicyOk(cfg)'
    BY <1>1 DEF AuditInv, PolicyOk
  <2>6. CalShape(cal)'
    BY <1>4 DEF CalShape
  <2> QED BY <1>1, <1>5, <1>6, <2>2, <2>3, <2>4, <2>5, <2>6 DEF AuditInv
<1> QED BY <1>7, <1>8

\* Every step keeps the audit counters and the audits asked for in agreement.
LEMMA AuditStep ==
  ASSUME ~ Bulk, IInv, HalfShape, AuditInv, [SwitchNext]_switchVars
  PROVE  AuditInv'
<1>0. cfg' = cfg
  BY HalfStep
<1>1. ASSUME UNCHANGED <<mode, waitSel, waitRes, completed, cal>>,
             \A v \in Windows : weak[v] = "resolved" => weak'[v] = "resolved"
      PROVE  AuditInv'
  <2>1. /\ CalShape(cal') /\ cal'.windows = cal'.escalated + cal'.kept
        /\ cal'.labelled = cal.labelled /\ cal'.audited = cal.audited
        /\ \A v \in cal'.pending :
             cfg.keep = "online" /\ v \in Waiting' \ completed' /\ v \notin cal.labelled
    BY <1>1 DEF AuditInv, Waiting
  <2> QED BY <1>0, <1>1, <2>1, AuditKept
<1>2. ASSUME UNCHANGED <<vars, cal>> PROVE AuditInv'
  BY <1>1, <1>2 DEF vars, ledger
<1>3. ASSUME NEW w \in Windows, Submit(w) PROVE AuditInv'
  <2>1. AdmitWeak(w) /\ cal' = cal
    BY <1>3 DEF Submit
  <2>2. /\ weak[w] = "none" /\ weak' = [weak EXCEPT ![w] = "open"]
        /\ UNCHANGED <<ledgerView, completed>>
    BY <2>1, AdmitWeakView
  <2>3. \A v \in Windows : weak[v] = "resolved" => weak'[v] = "resolved"
    BY <2>2 DEF IInv, LedgerShape
  <2> QED BY <1>1, <2>1, <2>2, <2>3 DEF ledgerView
<1>4. ASSUME NEW w \in Windows, Start(w) PROVE AuditInv'
  BY <1>2, <1>4 DEF Start
<1>5. ASSUME NEW w \in Windows, FarReady(w) PROVE AuditInv'
  BY <1>1, <1>5 DEF FarReady, SubmitDeferred, outcomeVars
<1>6. ASSUME NEW w \in Windows, NEW h, Decide(w, h) PROVE AuditInv'
  BY <1>0, <1>6, DecideAudits
<1>7. ASSUME NEW w \in Windows, NEW weight,
             PrimaryDone(w, weight) \/ SiblingDone(w, weight)
      PROVE  AuditInv'
  BY <1>2, <1>6, <1>7 DEF PrimaryDone, SiblingDone
<1>8. ASSUME NEW j \in Jobs, NEW bit, StrongResult(j, bit) PROVE AuditInv'
  BY <1>8, StrongResultAudits
<1>9. CASE SetThreshold \/ Tick \/ UNCHANGED switchVars
  BY <1>2, <1>9 DEF SetThreshold, Tick, switchVars, outcomeVars
<1>10. ASSUME NEW i \in DOMAIN events, Selected(i) PROVE AuditInv'
  <2>1. Select(events[i].window) /\ cal' = cal
    BY <1>10 DEF Selected, outcomeVars
  <2>2. /\ mode' = mode /\ weak' = weak
        /\ \A v \in Waiting \ completed : v \in Waiting' \ completed'
    BY <2>1, SelectView DEF Waiting
  <2>3. /\ CalShape(cal') /\ cal'.windows = cal'.escalated + cal'.kept
        /\ cal'.labelled = cal.labelled /\ cal'.audited = cal.audited
        /\ \A v \in cal'.pending :
             cfg.keep = "online" /\ v \in Waiting' \ completed' /\ v \notin cal.labelled
    BY <2>1, <2>2 DEF AuditInv
  <2> QED BY <1>0, <2>2, <2>3, AuditKept
<1>11. ASSUME NEW i \in DOMAIN events,
              WeakDelivered(i) \/ StrongDelivered(i) \/ FrameWritten(i)
       PROVE  AuditInv'
  BY <1>2, <1>11 DEF WeakDelivered, StrongDelivered, FrameWritten, outcomeVars
<1> QED
  BY <1>3, <1>4, <1>5, <1>7, <1>8, <1>9, <1>10, <1>11 DEF SwitchNext

-----------------------------------------------------------------------------
(* The invariant *)

\* Nothing is asked for, sent or committed at the start.
LEMMA SwitchInitInv == SwitchInit => SInv
<1> SUFFICES ASSUME SwitchInit PROVE SInv
  OBVIOUS
<1>1. IInv
  BY InitIInv DEF SwitchInit
<1>2. HalfShape
  BY DEF SwitchInit, HalfShape, Idle, Bits
<1>3. EventsShape /\ Scheduled(events) = {}
  <2>1. events = <<>> /\ DOMAIN events = {}
    BY DEF SwitchInit
  <2> QED BY <2>1 DEF EventsShape, EventsOk, Scheduled
<1>4. /\ frame.accepted = {} /\ frame.pending = {} /\ FrameShape
      /\ wm.committed = {} /\ wm.waiting = {} /\ ~ wm.complete /\ WmShape
  BY DEF SwitchInit, FrameShape, WmShape, WmRecord, Bits
<1>5. waitSel = {} /\ waitRes = {} /\ delivered = {}
      /\ \A w \in Windows : weak[w] = "none"
  BY DEF SwitchInit, Init
<1>6. CommitsInv
  BY <1>3, <1>4, <1>5 DEF CommitsInv, EventsInv, CommitInv, Ev, Waiting, Installed
<1>7. AuditInv
  <2>1. mode = cfg.mode /\ PolicyOk(cfg)
    BY DEF SwitchInit, ConfigOk
  <2>2. /\ CalShape(cal) /\ cal.windows = 0 /\ cal.escalated = 0 /\ cal.kept = 0
        /\ cal.audited = 0 /\ cal.pending = {} /\ cal.labelled = {}
    BY SwitchingAssumption DEF SwitchInit, CalShape
  <2> QED BY <2>1, <2>2, FS_EmptySet DEF AuditInv
<1> QED BY <1>1, <1>2, <1>6, <1>7 DEF SInv

\* Every step of the run keeps the invariant.
LEMMA SwitchInvariant ==
  ASSUME ~ Bulk
  PROVE  SInv /\ [SwitchNext]_switchVars => SInv'
<1> SUFFICES ASSUME SInv, [SwitchNext]_switchVars PROVE SInv'
  OBVIOUS
<1>1. IInv /\ HalfShape /\ CommitsInv /\ AuditInv
  BY DEF SInv
<1>2. IInv'
  BY <1>1, LedgerStep, LedgerInvariant
<1> QED
  BY <1>1, <1>2, HalfStep, CommitsStep, AuditStep DEF SInv

\* Every window's final correction enters the frame once, from the tier that
\* was selected, and the run is complete only when the frame is
\* (CorrectionsOnce), whatever the policy, the links and the time of a write.
THEOREM EveryCorrectionOnce ==
  ASSUME ~ Bulk
  PROVE  SwitchSpec => []CorrectionsOnce
<1>1. SInv => CorrectionsOnce
  <2> SUFFICES ASSUME SInv PROVE CorrectionsOnce
    OBVIOUS
  <2>1. CommitsInv /\ \A w \in Windows : CommitInv(w)
    BY DEF SInv, CommitsInv
  <2>2. frame.drops = 0 /\ frame.accepted \subseteq Windows
        /\ frame.pending \subseteq Windows
    BY <2>1 DEF CommitsInv, FrameShape
  <2>3. frame.accepted \cap waitSel = {}
    BY <2>1, <2>2 DEF CommitInv, Waiting
  <2>4. \A w \in frame.accepted : frame.entry[w].tier = "weak" <=> w \notin delivered
    BY <2>1, <2>2 DEF CommitInv
  <2>5. ASSUME wm.complete
        PROVE  /\ Installed = Windows
               /\ \A w \in Windows : wm.selected[w] = frame.entry[w].tier
               /\ FrameFor = Parity(wm.prediction, Windows)
    <3>1. Installed = Windows
      BY <2>1, <2>2, <2>5 DEF CommitsInv, CommitInv, Complete, Installed
    <3>2. \A w \in Windows : /\ wm.selected[w] = frame.entry[w].tier
                            /\ wm.prediction[w] = frame.entry[w].bit
      BY <2>1, <3>1 DEF CommitInv
    <3> DEFINE f == [w \in Windows |-> IF w \in Installed THEN frame.entry[w].bit ELSE 0]
    <3>3. \A w \in Windows : f[w] = wm.prediction[w]
      BY <3>1, <3>2
    <3> HIDE DEF f
    <3>4. {w \in Windows : f[w] = 1} = {w \in Windows : wm.prediction[w] = 1}
      BY <3>3
    <3>5. FrameFor = Parity(wm.prediction, Windows)
      BY <3>4 DEF FrameFor, Parity, f
    <3> QED BY <3>1, <3>2, <3>5
  <2> QED BY <2>2, <2>3, <2>4, <2>5 DEF CorrectionsOnce
<1> QED BY <1>1, SwitchInitInv, SwitchInvariant, PTL DEF SwitchSpec

\* The online threshold counts every window once, and every audited window is
\* labelled by its own strong result (AuditsAnswered), whatever the gaps are
\* and whichever windows are audited.
THEOREM EveryAuditAnswered ==
  ASSUME ~ Bulk
  PROVE  SwitchSpec => []AuditsAnswered
<1>1. SInv => AuditsAnswered
  <2> SUFFICES ASSUME SInv PROVE AuditsAnswered
    OBVIOUS
  <2>1. CommitsInv /\ AuditInv /\ \A w \in Windows : CommitInv(w)
    BY DEF SInv, CommitsInv
  <2>2. cal.pending \subseteq Windows /\ cal.target \in MinTarget .. MaxTarget
    BY <2>1 DEF AuditInv, CalShape
  <2>3. \A w \in cal.pending : /\ w \in Waiting /\ w \notin cal.labelled
                              /\ w \notin delivered /\ w \in wm.waiting
    BY <2>1, <2>2 DEF AuditInv, CommitInv
  <2>4. wm.complete => cal.pending = {}
    BY <2>1, <2>3 DEF CommitsInv, Complete
  <2> QED BY <2>1, <2>2, <2>3, <2>4 DEF AuditInv, AuditsAnswered, MayConsume, Waiting
<1> QED BY <1>1, SwitchInitInv, SwitchInvariant, PTL DEF SwitchSpec

=============================================================================

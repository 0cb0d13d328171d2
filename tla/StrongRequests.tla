--------------------------- MODULE StrongRequests ---------------------------
(***************************************************************************)
(* The ledger of strong re-decodes, decsim/decoders/strong_escalation.py   *)
(* (StrongRequestLedger), with the calls the decoder pools make on it      *)
(* (decoder_manager.py) and the batching of queued strong jobs             *)
(* (bulk_strong).                                                          *)
(*                                                                         *)
(* A destination window asks for at most one strong result.  The request   *)
(* job of w is named w itself; a batch is a number.  Slots, memory and     *)
(* transfers of the strong pool are in module DecoderUnits: here the pool  *)
(* is a queue and SlotCount slots.                                         *)
(***************************************************************************)
EXTENDS Integers, Sequences, FiniteSets, SequencesExt

CONSTANTS
  Windows,      \* destination windows
  Modes,        \* policies checked: "serial", "parallel", "deferred" (double
                \* window)
  Bulk,         \* bulk_strong
  SlotCount,    \* input slots of the strong pool
  MaxBatches,   \* bound: batches a behaviour makes
  None

ASSUME RequestsAssumption ==
  /\ Modes \subseteq {"serial", "parallel", "deferred"}
  /\ Bulk \in BOOLEAN
  /\ Bulk => Modes \subseteq {"serial"}
  /\ SlotCount \in Nat \ {0}
  /\ MaxBatches \in Nat
  /\ None \notin Windows

Batches == 1 .. MaxBatches
Jobs == Windows \cup Batches

VARIABLES
  mode,       \* the policy of this run, fixed at its start
  weak,       \* window -> "none", "open" (_unresolved_weak) or "resolved"
  running,    \* _running: window -> its service job, or None
  waitSel,    \* _waiting_selection
  waitRes,    \* _waiting_result
  completed,  \* _completed: windows whose result is held
  deferred,   \* windows whose strong job is not built yet
  delivered,  \* windows whose strong result was handed on
  queue,      \* the strong pool's ready queue
  inService,  \* jobs that have a slot
  names,      \* job -> service_original_request_keys
  batchCount

ledger == <<weak, running, waitSel, waitRes, completed>>
pool == <<queue, inService, names, batchCount>>
vars == <<mode, ledger, deferred, delivered, pool>>

Init ==
  /\ mode \in Modes
  /\ weak = [w \in Windows |-> "none"]
  /\ running = [w \in Windows |-> None]
  /\ waitSel = {} /\ waitRes = {} /\ completed = {}
  /\ deferred = {} /\ delivered = {}
  /\ queue = <<>> /\ inService = {}
  /\ names = [j \in Jobs |-> IF j \in Windows THEN <<j>> ELSE <<>>]
  /\ batchCount = 0

Members(run, j) == {w \in Windows : run[w] = j}

-----------------------------------------------------------------------------
(* The pool *)

\* The request key of a job: a batch has none.
Key(j) == IF j \in Windows THEN j ELSE None

\* strong_decode_for of a job: a batch has its first member's.
Destination(j) == IF j \in Windows THEN j ELSE Head(names[j])

\* _merge_strong_batch and one pass of _dispatch_pool over the queue q: all of
\* it becomes one job, registered for the destination of each part, and takes
\* a slot if one is free.
DispatchBulk(q, run, busy) ==
  LET merge == Len(q) > 1
      job == IF merge THEN batchCount + 1 ELSE q[1]
      keys == [i \in DOMAIN q |-> Key(q[i])]
      covered == {Destination(q[i]) : i \in DOMAIN q}
      placed == Cardinality(busy) < SlotCount
  IN IF q = <<>>
     THEN /\ running' = run /\ queue' = <<>> /\ inService' = busy
          /\ UNCHANGED <<names, batchCount>>
     ELSE /\ merge => batchCount < MaxBatches
          /\ batchCount' = IF merge THEN batchCount + 1 ELSE batchCount
          /\ names' = [names EXCEPT ![job] = keys]
          /\ running' = [w \in Windows |->
                           IF merge /\ w \in covered THEN job ELSE run[w]]
          /\ queue' = IF placed THEN <<>> ELSE <<job>>
          /\ inService' = IF placed THEN busy \cup {job} ELSE busy

\* _dispatch_pool without batching: slots are filled in queue order.
DispatchSingle(q, run, busy) ==
  LET free == SlotCount - Cardinality(busy)
      n == IF Len(q) < free THEN Len(q) ELSE free
  IN /\ running' = run
     /\ queue' = SubSeq(q, n + 1, Len(q))
     /\ inService' = busy \cup ToSet(SubSeq(q, 1, n))
     /\ UNCHANGED <<names, batchCount>>

Dispatch(q, run, busy) ==
  IF Bulk THEN DispatchBulk(q, run, busy) ELSE DispatchSingle(q, run, busy)

\* admit_strong and the enqueue of the request job.
Admissible(w) == running[w] = None /\ w \notin completed
Admit(w) ==
  /\ Admissible(w)
  /\ Dispatch(Append(queue, w), [running EXCEPT ![w] = w], inService)

-----------------------------------------------------------------------------
(* The weak decode of a destination *)

\* admit_weak.  A policy that runs both tiers at once admits the strong
\* request behind it.
AdmitWeak(w) ==
  /\ weak[w] = "none"
  /\ weak' = [weak EXCEPT ![w] = "open"]
  /\ IF mode = "parallel" THEN Admit(w) ELSE UNCHANGED <<running, pool>>
  /\ UNCHANGED <<mode, waitSel, waitRes, completed, deferred, delivered>>

\* cancel_strong: a held result is dropped; a live request leaves the queue
\* or its slot, and the freed slot is dispatched.
TakeHeld(w) == completed \ {w}
MutCancelStrong(w) ==
  /\ completed' = TakeHeld(w)
  /\ Dispatch(SelectSeq(queue, LAMBDA j : j # w),
              [running EXCEPT ![w] = None], inService)
CancelStrong(w) ==
  /\ completed' = TakeHeld(w)
  /\ IF running[w] = None
     THEN UNCHANGED <<running, pool>>
     ELSE Dispatch(RemoveFirst(queue, running[w]),
                   [running EXCEPT ![w] = None],
                   inService \ {running[w]})

\* _conclude_weak with FINALIZE: the weak result stands.
Finalize(w) ==
  /\ weak[w] = "open"
  /\ weak' = [weak EXCEPT ![w] = "resolved"]
  /\ CancelStrong(w)
  /\ UNCHANGED <<mode, waitSel, waitRes, deferred, delivered>>

\* carriers_for: what will carry the strong result of w.
Carriers(w) == {c \in {"live", "held"} :
                  IF c = "live" THEN running[w] # None ELSE w \in completed}

BeginSelection(w) == waitSel \cup {w}

\* _conclude_weak with AWAIT_STRONG: a serial policy submits the request, a
\* double window defers it, a parallel one has exactly one carrier.
AwaitStrong(w) ==
  /\ weak[w] = "open"
  /\ weak' = [weak EXCEPT ![w] = "resolved"]
  /\ waitSel' = BeginSelection(w)
  /\ \/ mode = "serial" /\ Admit(w) /\ UNCHANGED deferred
     \/ /\ mode = "parallel" /\ Cardinality(Carriers(w)) = 1
        /\ UNCHANGED <<running, pool, deferred>>
     \/ /\ mode = "deferred"
        /\ deferred' = deferred \cup {w}
        /\ UNCHANGED <<running, pool>>
  /\ UNCHANGED <<mode, waitRes, completed, delivered>>

\* The far boundary or the terminal data of a deferred window is in.
SubmitDeferred(w) ==
  /\ w \in deferred
  /\ deferred' = deferred \ {w}
  /\ Admit(w)
  /\ UNCHANGED <<mode, weak, waitSel, waitRes, completed, delivered>>

-----------------------------------------------------------------------------
(* Selection and completion *)

\* select: the selection message arrives; a held result is consumed.
HeldFor(w) == completed \cap {w}
Select(w) ==
  /\ w \in waitSel
  /\ waitSel' = waitSel \ {w}
  /\ waitRes' = IF HeldFor(w) = {} THEN waitRes \cup {w} ELSE waitRes
  /\ completed' = completed \ HeldFor(w)
  /\ delivered' = delivered \cup HeldFor(w)
  /\ UNCHANGED <<mode, weak, running, deferred, pool>>

\* destination_may_consume
MayConsume(w) == w \in waitRes \/ w \in waitSel \/ weak[w] = "open"

\* finish_service: the ledger without the requests job j served.
FinishService(j) == [w \in Windows |-> IF running[w] = j THEN None ELSE running[w]]

\* _on_decode_done of a strong job: every request it served has its result,
\* consumed by a destination that waits and held otherwise (complete).  A job
\* whose names hold no request stopped the run when it took its slot.
StrongDone(j) ==
  LET served == Members(running, j)
  IN /\ j \in inService
     /\ None \notin ToSet(names[j])
     /\ delivered' = delivered \cup (served \cap waitRes)
     /\ waitRes' = waitRes \ served
     /\ completed' = completed \cup (served \ waitRes)
     /\ Dispatch(queue, FinishService(j), inService \ {j})
     /\ UNCHANGED <<mode, weak, waitSel, deferred>>

Next ==
  \/ \E w \in Windows : \/ AdmitWeak(w) \/ Finalize(w) \/ AwaitStrong(w)
                        \/ SubmitDeferred(w) \/ Select(w)
  \/ \E j \in Jobs : StrongDone(j)

\* Links deliver, decodes end and far boundaries come; which weak results are
\* kept is the policy's choice.
Fairness ==
  /\ \A w \in Windows :
       /\ WF_vars(Finalize(w) \/ AwaitStrong(w))
       /\ WF_vars(SubmitDeferred(w))
       /\ WF_vars(Select(w))
  /\ \A j \in Jobs : WF_vars(StrongDone(j))

Spec == Init /\ [][Next]_vars /\ Fairness

-----------------------------------------------------------------------------
(* Type *)

\* The shape of the ledger and the pool, with the slots as its bound.
TypeOK ==
  /\ mode \in Modes
  /\ weak \in [Windows -> {"none", "open", "resolved"}]
  /\ running \in [Windows -> Jobs \cup {None}]
  /\ waitSel \subseteq Windows /\ waitRes \subseteq Windows
  /\ completed \subseteq Windows /\ deferred \subseteq Windows
  /\ delivered \subseteq Windows
  /\ ToSet(queue) \subseteq Jobs /\ inService \subseteq Jobs
  /\ names \in [Jobs -> Seq(Windows \cup {None})]
  /\ batchCount \in 0 .. MaxBatches
  /\ Cardinality(inService) <= SlotCount

(* Safety *)

\* The ledger and the pool agree: the service job of every live request is in
\* the pool, and every job of the pool serves a live request (a cancel or a
\* completion takes it out of both).
LedgerMatchesPool ==
  {running[w] : w \in Windows} \ {None} = ToSet(queue) \cup inService

\* A result never arrives that nobody may consume: the two errors raised by
\* StrongRequestLedger.complete are out of reach whatever the order of weak
\* outcomes, selections, cancels and completions.
ResultHasConsumer ==
  /\ \A w \in Windows : running[w] # None => MayConsume(w)
  /\ \A w \in completed : running[w] = None /\ MayConsume(w) /\ w \notin waitRes

\* A destination that waits has exactly one carrier of its result, a live
\* request or a held completion ("at most one unconsumed strong result"),
\* unless its request is still deferred.
OneCarrier ==
  \A w \in waitSel \cup waitRes :
    Cardinality(Carriers(w)) = IF w \in deferred THEN 0 ELSE 1

\* Whatever the order of weak outcomes, selections, cancels and results, the
\* ledger and the pool carry exactly the results that somebody will consume.
RequestsSound == TypeOK /\ LedgerMatchesPool /\ ResultHasConsumer /\ OneCarrier

\* A job names the original requests it serves, so that its record and its
\* service key are theirs (batching: "service_original_request_keys").
NamesItsRequests ==
  \A j \in ToSet(queue) \cup inService : ToSet(names[j]) = Members(running, j)

(* Liveness *)

\* Every escalated window gets its strong result: the selection message and
\* the result may come in either order.
EscalatedIsAnswered ==
  \A w \in Windows : w \in waitSel ~> w \in delivered

\* The ledger empties: check_decode_work_settled finds nothing at the end.
Settles ==
  \A w \in Windows : weak[w] = "open" ~>
    /\ weak[w] = "resolved" /\ running[w] = None
    /\ w \notin waitSel \cup waitRes \cup completed

=============================================================================

---------------------------- MODULE DecoderUnits ----------------------------
(***************************************************************************)
(* The decoder pools of decsim/decoders/decoder_manager.py: ready queues,  *)
(* numbered units with their input slots, the claim on a unit's compute,   *)
(* parking on an owed boundary, input memory, withdrawal and cancellation. *)
(*                                                                         *)
(* The engine runs one event at a time.  An action taken with an empty     *)
(* agenda is an event; what the handler still has to do after its first    *)
(* assignments (the dispatch loop, the policy's decision, withdrawals) is  *)
(* on the agenda, in the order of the calls, and no other event runs until *)
(* the agenda is empty again.                                              *)
(*                                                                         *)
(* Left out: the split-gap sibling (gap_split_enabled is false) and the    *)
(* merging of strong jobs (bulk_strong, module StrongRequests).             *)
(***************************************************************************)
EXTENDS Subsequences, FiniteSets, FiniteSetsExt, SequencesExt

CONSTANTS
  Windows,        \* weak decodes, one per window
  Strongs,        \* strong re-decodes
  Externals,      \* submit_decode jobs (factory corrections, idle decodes)
  Deps,           \* window -> the windows whose boundary it needs
  StrongOf,       \* window -> its strong re-decode, or None
  Modes,          \* escalation policies covered: "weak", "serial", "parallel",
                  \* "double"
  Chain,          \* "double": the windows of the stream, in order
  Pools,          \* unit_pools in dictionary order, a sequence
  PoolOf,         \* job -> pool
  UnitCount,      \* unit_totals: pool -> its number of units
  Demand,         \* job -> rounds its input stores
  Capacity,       \* pool -> rounds of unit memory, or Unbounded
  Unbounded,
  Instant,        \* jobs whose input transfer takes no time
  Depth,          \* pool -> decodes in flight at once in a pipelined unit;
                  \* 0: its decoders declare no initiation interval
  None

Jobs  == Windows \cup Strongs \cup Externals

\* A unit is its pool and its number in the pool.
UnitsOf(p)    == {p} \X (0 .. UnitCount[p] - 1)
Units         == UNION {UnitsOf(p) : p \in ToSet(Pools)}
PoolOfUnit(u) == u[1]

ASSUME UnitsAssumption ==
  /\ Deps \in [Windows -> SUBSET Windows]
  /\ StrongOf \in [Windows -> Strongs \cup {None}]
  /\ PoolOf \in [Jobs -> ToSet(Pools)]
  /\ Pools \in Seq(ToSet(Pools))
  /\ UnitCount \in [ToSet(Pools) -> Nat \ {0}]
  /\ Demand \in [Jobs -> Nat]
  /\ Capacity \in [ToSet(Pools) -> Nat \cup {Unbounded}]
  /\ Depth \in [ToSet(Pools) -> Nat]
  /\ Modes \subseteq {"weak", "serial", "parallel", "double"}
  /\ None \notin Jobs
  /\ IsFiniteSet(Jobs)
  /\ Windows \cap Strongs = {} /\ Externals \cap (Windows \cup Strongs) = {}
  /\ Chain \in Seq(Windows)

\* The windows of a double-window stream read one another in a line, and no
\* other window reads one of them.
ASSUME ChainAssumption ==
  "double" \in Modes =>
    /\ IsInjective(Chain)
    /\ \A i \in DOMAIN Chain :
         Deps[Chain[i]] = IF i = 1 THEN {} ELSE {Chain[i - 1]}
    /\ \A w \in Windows \ ToSet(Chain) : Deps[w] \cap ToSet(Chain) = {}

VARIABLES
  mode,         \* the escalation policy of the run
  stage,        \* where a job is in its life
  queue,        \* ready / pool_ready: pool -> sequence of jobs
  residents,    \* _unit_residents: unit -> jobs in its slots, oldest first
  computing,    \* _computing: unit -> job holding or reserving compute
  freeUnits,    \* _free_units: pool -> sequence of units
  stored,       \* DecoderMemory._inputs: unit -> jobs whose input it holds
  holds,        \* jobs whose upstream input_hold is live
  owed,         \* window -> dependencies still counted by deps_remaining
  awaiting,     \* windows whose result waits for the strong tier
  absorbed,     \* absorbed_windows
  flights,      \* _pipeline_flights: unit -> sequence of jobs
  intakeBusy,   \* _pipeline_intake_busy: unit -> job or None
  stalled,      \* _pipeline_stalled: unit -> claim owner or None
  agenda        \* what the running handler still has to do

pipeVars == <<flights, intakeBusy, stalled>>
vars == <<mode, stage, queue, residents, computing, freeUnits, stored, holds,
          owed, awaiting, absorbed, pipeVars, agenda>>

Stages == {"idle", "queued", "moving", "landed", "parked", "serving",
           "concluding", "done", "withdrawn", "cancelled", "stopped"}

UnitOf(j) == CHOOSE u \in Units : j \in ToSet(residents[u])
IsFree(u) == u \in ToSet(freeUnits[PoolOfUnit(u)])

Init ==
  /\ mode \in Modes
  /\ stage = [j \in Jobs |-> "idle"]
  /\ queue = [p \in ToSet(Pools) |-> <<>>]
  /\ residents = [u \in Units |-> <<>>]
  /\ computing = [u \in Units |-> None]
  /\ freeUnits = [p \in ToSet(Pools) |-> [i \in 1 .. UnitCount[p] |-> <<p, i - 1>>]]
  /\ stored = [u \in Units |-> {}]
  /\ holds = {}
  /\ owed = Deps
  /\ awaiting = {}
  /\ absorbed = {}
  /\ flights = [u \in Units |-> <<>>]
  /\ intakeBusy = [u \in Units |-> None]
  /\ stalled = [u \in Units |-> None]
  /\ agenda = <<>>

\* Bookkeeping of one job: its upstream hold goes, its input leaves unit
\* memory, its unit leaves the free list fr.
MutLetGo(j) == IF stage[j] = "moving" THEN holds \ {j} ELSE holds
LetGo(j) == holds \ {j}
TakeInput(j) == [u \in Units |-> stored[u] \ {j}]
ClaimUnit(fr, u) == [fr EXCEPT ![PoolOfUnit(u)] = RemoveFirst(@, u)]

Quiet == agenda = <<>>
MutTryDispatch == <<>>
TryDispatch == [i \in DOMAIN Pools |-> <<"dispatch", Pools[i]>>]
Doing(task, x) == ~Quiet /\ Head(agenda) = <<task, x>>

-----------------------------------------------------------------------------
(* Placement *)

\* begin_service_gate: windows wait for their boundaries, nothing else does.
Startable(j) == j \in Windows => owed[j] = {}

\* A window's decode has begun, or has ended.
Begun(w) == stage[w] \in {"serving", "concluding", "done"}

\* _resolving_without_new_slots, on the acyclic dependency graph.
Resolving ==
  LET resolves[w \in Windows] ==
        \/ w \in absorbed
        \/ Begun(w)
        \/ /\ stage[w] \in {"moving", "landed", "parked"}
           /\ \A d \in Deps[w] : resolves[d]
  IN  resolves

MutStageAdmission(j) == TRUE
StageAdmission(j) == Startable(j) \/ \A d \in Deps[j] : Resolving[d]

Pipelined(u) == Depth[PoolOfUnit(u)] > 0
SlotCapacity(u) == IF Pipelined(u) THEN Depth[PoolOfUnit(u)] + 1 ELSE 2

Rounds(S) == MapThenSumSet(LAMBDA j : Demand[j], S)

SlotMemoryOk(u, j) ==
  \/ residents[u] = <<>>
  \/ Capacity[PoolOfUnit(u)] = Unbounded
  \/ Rounds(ToSet(residents[u]) \cup {j}) <= Capacity[PoolOfUnit(u)]

Fits(u, j) == Len(residents[u]) < SlotCapacity(u) /\ SlotMemoryOk(u, j)

\* The units that can take j: the free ones in list order, then the others.
FreeFits(p, j) == Those(freeUnits[p], {u \in UnitsOf(p) : Fits(u, j)})
BusyFits(p, j) == {u \in UnitsOf(p) : ~IsFree(u) /\ Fits(u, j)}

Eligible(p, j) ==
  StageAdmission(j) /\ (FreeFits(p, j) # <<>> \/ BusyFits(p, j) # {})

EligibleUnit(p, j) ==
  IF FreeFits(p, j) # <<>> THEN Head(FreeFits(p, j))
  ELSE CHOOSE u \in BusyFits(p, j) : \A v \in BusyFits(p, j) : u[2] <= v[2]

\* Startable work first, in queue order; then boundary-blocked work.
Candidates(p) ==
  LET all == {i \in DOMAIN queue[p] : Eligible(p, queue[p][i])}
      ready == {i \in all : Startable(queue[p][i])}
  IN  IF ready # {} THEN ready ELSE all

\* A job claims compute with its slot only on a free unit.
Claims(p, j, u) == Startable(j) /\ IsFree(u)

\* _start_job: the input transfer of the first candidate begins.
Place(p) ==
  /\ Doing("dispatch", p)
  /\ Candidates(p) # {}
  /\ LET j == queue[p][Min(Candidates(p))]
         u == EligibleUnit(p, j)
     IN /\ queue' = [queue EXCEPT ![p] = RemoveFirst(@, j)]
        /\ stage' = [stage EXCEPT ![j] = "moving"]
        /\ residents' = [residents EXCEPT ![u] = Append(@, j)]
        /\ IF Claims(p, j, u)
           THEN /\ computing' = [computing EXCEPT ![u] = j]
                /\ freeUnits' = ClaimUnit(freeUnits, u)
           ELSE UNCHANGED <<computing, freeUnits>>
        /\ agenda' = IF j \in Instant THEN <<<<"land", j>>>> \o agenda
                                      ELSE agenda
  /\ UNCHANGED <<stored, holds, owed, mode, awaiting, absorbed, pipeVars>>

DispatchEnds(p) ==
  /\ Doing("dispatch", p)
  /\ Candidates(p) = {}
  /\ agenda' = Tail(agenda)
  /\ UNCHANGED <<stage, queue, residents, computing, freeUnits, stored, holds,
                 owed, mode, awaiting, absorbed, pipeVars>>

-----------------------------------------------------------------------------
(* Compute *)

\* _initiation_interval_ticks raises for a strong job on a pipelined decoder.
Servable(u, j) == Pipelined(u) => j \notin Strongs

\* The decode of j (None: no decode) begins on u; fl and busy are the flights
\* and the intake before.
StartFlight(u, j, fl, busy) ==
  LET begins == Pipelined(u) /\ j # None
  IN /\ Servable(u, j)
     /\ flights' = [flights EXCEPT ![u] = IF begins THEN Append(fl, j) ELSE fl]
     /\ intakeBusy' = [intakeBusy EXCEPT ![u] = IF begins THEN j ELSE busy]

\* The landed residents of u that _offer_compute meets before it finds one
\* whose boundary is in: each begins, meets the gate and parks.
Parks(st, rs) ==
  {rs[i] : i \in {i \in DOMAIN rs :
     /\ st[rs[i]] = "landed"
     /\ \A k \in 1 .. i : st[rs[k]] = "landed" => ~Startable(rs[k])}}

\* Residents still in transfer that may reserve the compute.
Reservable(st, rs) ==
  {i \in DOMAIN rs : st[rs[i]] = "moving" /\ Startable(rs[i])}

MutStartableLandedNone(st, rs) == {}
MutStartableLanded(st, rs) ==
  {i \in DOMAIN rs : st[rs[i]] \in {"landed", "parked"}}
StartableLanded(st, rs) ==
  {i \in DOMAIN rs : st[rs[i]] = "landed" /\ Startable(rs[i])}

\* _offer_compute on a unit whose claim was just cleared: the oldest landed
\* resident that passes the gate begins, else the compute is reserved for the
\* oldest one in flight, else it returns to the pool.  st, rs, fl, busy and fr
\* are the stages, residents, flights, intake and free units the caller leaves.
OfferCompute(u, st, rs, fl, busy, fr) ==
  LET go == StartableLanded(st, rs)
      next == IF go # {} THEN rs[Min(go)]
              ELSE IF Reservable(st, rs) # {} THEN rs[Min(Reservable(st, rs))]
              ELSE None
  IN /\ stage' = [j \in Jobs |-> IF go # {} /\ j = next THEN "serving"
                                 ELSE IF j \in Parks(st, rs) THEN "parked"
                                 ELSE st[j]]
     /\ computing' = [computing EXCEPT ![u] = next]
     /\ freeUnits' = IF next = None
                     THEN [fr EXCEPT ![PoolOfUnit(u)] = Append(@, u)]
                     ELSE fr
     /\ StartFlight(u, IF go # {} THEN next ELSE None, fl, busy)

\* A park releases the claim and dispatches again.
AfterParks(st, rs) == IF Parks(st, rs) # {} THEN TryDispatch ELSE <<>>

\* The input of j is in its unit's memory; nested is the dispatch that a park
\* runs (none inside the dispatch loop, which is not reentrant).
Arrive(j, after, nested) ==
  LET u == UnitOf(j)
      mine == computing[u] = j
      vacant == computing[u] = None /\ IsFree(u)
      fr == IF vacant THEN ClaimUnit(freeUnits, u) ELSE freeUnits
  IN /\ stored' = [stored EXCEPT ![u] = @ \cup {j}]
     /\ holds' = LetGo(j)
     /\ CASE (mine \/ vacant) /\ Startable(j) ->
               /\ stage' = [stage EXCEPT ![j] = "serving"]
               /\ computing' = [computing EXCEPT ![u] = j]
               /\ freeUnits' = fr
               /\ StartFlight(u, j, flights[u], intakeBusy[u])
               /\ agenda' = after
          [] (mine \/ vacant) /\ ~Startable(j) ->
               /\ OfferCompute(u, [stage EXCEPT ![j] = "parked"],
                               residents[u], flights[u], intakeBusy[u], fr)
               /\ agenda' = nested \o after
          [] OTHER ->
               /\ stage' = [stage EXCEPT ![j] = "landed"]
               /\ agenda' = after
               /\ UNCHANGED <<computing, freeUnits, flights, intakeBusy>>
     /\ UNCHANGED <<queue, residents, owed, mode, awaiting, absorbed, stalled>>

\* The transfer ends, as an event of its own or inside the dispatch.
Land(j) ==
  \/ Quiet /\ stage[j] = "moving" /\ Arrive(j, <<>>, TryDispatch)
  \/ Doing("land", j) /\ Arrive(j, Tail(agenda), <<>>)

-----------------------------------------------------------------------------
(* Admission *)

\* enqueue: the job joins its pool's queue and every pool is dispatched.
Enqueue(j, after) ==
  /\ stage[j] = "idle"
  /\ stage' = [stage EXCEPT ![j] = "queued"]
  /\ queue' = [queue EXCEPT ![PoolOf[j]] = Append(@, j)]
  /\ holds' = IF j \in Externals THEN holds ELSE holds \cup {j}
  /\ agenda' = TryDispatch \o after
  /\ UNCHANGED <<residents, computing, freeUnits, stored, owed, mode, awaiting,
                 absorbed, pipeVars>>

\* A window's data is complete, or a factory asks for a decode.  A policy
\* that runs both tiers at once submits the strong job behind the weak one.
Submit(j) ==
  /\ Quiet
  /\ j \in (Windows \ absorbed) \cup Externals
  /\ Enqueue(j, IF mode = "parallel" /\ j \in Windows /\ StrongOf[j] # None
                THEN <<<<"submit", StrongOf[j]>>>> ELSE <<>>)

SubmitNext(j) == Doing("submit", j) /\ Enqueue(j, Tail(agenda))

\* The strong window of a double-window escalation starts when its far
\* boundary, or its terminal data, is in.
SubmitDeferred(w) ==
  /\ Quiet
  /\ mode = "double"
  /\ w \in awaiting
  /\ Enqueue(StrongOf[w], <<>>)

-----------------------------------------------------------------------------
(* Completion *)

\* _end_flight: the claim a full pipeline kept, once j has left it.
Unstalled(u, j, fl) ==
  /\ stalled[u] # None
  /\ j \in ToSet(flights[u])
  /\ Len(fl) < Depth[PoolOfUnit(u)]

MutFreedClaim(u, j, fl) == computing[u]
\* The claim goes with the decode, whether or not the intake is still busy.
MutFreedClaimEarly(u, j, fl) ==
  IF \/ Unstalled(u, j, fl) /\ computing[u] = stalled[u] /\ stalled[u] # j
     \/ computing[u] = j
  THEN None ELSE computing[u]
\* The claim on u after the decode of j ended (_free_unit).
FreedClaim(u, j, fl) ==
  IF \/ Unstalled(u, j, fl) /\ computing[u] = stalled[u] /\ stalled[u] # j
     \/ computing[u] = j /\ intakeBusy[u] # j
  THEN None ELSE computing[u]

\* _free_unit: j leaves u in stage s and the compute is offered onward.
FreeUnit(u, j, s, after) ==
  LET fl == RemoveFirst(flights[u], j)
      rs == RemoveFirst(residents[u], j)
      st == [stage EXCEPT ![j] = s]
  IN /\ residents' = [residents EXCEPT ![u] = rs]
     /\ stalled' = IF Unstalled(u, j, fl)
                   THEN [stalled EXCEPT ![u] = None] ELSE stalled
     /\ IF FreedClaim(u, j, fl) = None
        THEN /\ OfferCompute(u, st, rs, fl, intakeBusy[u], freeUnits)
             /\ agenda' = AfterParks(st, rs) \o after
        ELSE /\ stage' = st
             /\ computing' = [computing EXCEPT ![u] = FreedClaim(u, j, fl)]
             /\ flights' = [flights EXCEPT ![u] = fl]
             /\ agenda' = after
             /\ UNCHANGED <<freeUnits, intakeBusy>>

\* _on_decode_done.  A strong or external job is finished with; a weak job
\* still holds its unit memory and goes to _conclude_weak.  A pipelined unit
\* completes in issue order.
DecodeDone(j) ==
  /\ Quiet
  /\ stage[j] = "serving"
  /\ Pipelined(UnitOf(j)) => j = Head(flights[UnitOf(j)])
  /\ LET u == UnitOf(j)
     IN IF j \in Windows
        THEN /\ FreeUnit(u, j, "concluding", <<<<"conclude", j>>>>)
             /\ UNCHANGED stored
        ELSE /\ FreeUnit(u, j, "done", TryDispatch)
             /\ stored' = TakeInput(j)
  /\ UNCHANGED <<queue, holds, owed, mode, awaiting, absorbed>>

\* The completion event of a strong decode cancelled in service.
LateDecodeDone(j) ==
  /\ Quiet
  /\ stage[j] = "stopped"
  /\ stage' = [stage EXCEPT ![j] = "cancelled"]
  /\ agenda' = TryDispatch
  /\ UNCHANGED <<queue, residents, computing, freeUnits, stored, holds, owed,
                 mode, awaiting, absorbed, pipeVars>>

\* _conclude_weak, the policy's directive.  FINALIZE keeps the weak result
\* and cancels a strong sibling; AWAIT_STRONG submits the serial re-decode.
Conclude(j) ==
  /\ Doing("conclude", j)
  /\ LET rest == <<<<"finish", j>>>> \o Tail(agenda)
     IN \/ /\ agenda' = IF mode = "parallel" /\ StrongOf[j] # None
                        THEN <<<<"cancel", StrongOf[j]>>>> \o rest ELSE rest
           /\ UNCHANGED awaiting
        \/ /\ mode \in {"serial", "parallel"}
           /\ StrongOf[j] # None
           /\ awaiting' = awaiting \cup {j}
           /\ agenda' = IF mode = "serial"
                        THEN <<<<"submit", StrongOf[j]>>>> \o rest ELSE rest
  /\ UNCHANGED <<mode, stage, queue, residents, computing, freeUnits, stored,
                 holds, owed, absorbed, pipeVars>>

\* The rest of _conclude_weak: the result is handed on, and only now the
\* unit memory is freed.
Finish(j) ==
  /\ Doing("finish", j)
  /\ stage' = [stage EXCEPT ![j] = "done"]
  /\ stored' = TakeInput(j)
  /\ agenda' = TryDispatch \o Tail(agenda)
  /\ UNCHANGED <<queue, residents, computing, freeUnits, holds, owed, mode,
                 awaiting, absorbed, pipeVars>>

-----------------------------------------------------------------------------
(* Boundaries *)

\* The boundary of d leaves when its result is final.
Shipped(d) ==
  stage[d] = "done" /\ (d \in awaiting => stage[StrongOf[d]] = "done")

\* release_parked on the unit of w: the claim, were w to start now.  A
\* reservation for an input still in flight is stolen.
Stealable(u) == computing[u] # None /\ stage[computing[u]] = "moving"

\* _receive_boundary then release_parked.
BoundaryArrives(w, d) ==
  /\ Quiet
  /\ w \notin absorbed
  /\ d \in owed[w] /\ Shipped(d)
  /\ owed' = [owed EXCEPT ![w] = @ \ {d}]
  /\ IF stage[w] = "parked" /\ owed'[w] = {}
     THEN LET u == UnitOf(w)
              vacant == computing[u] = None /\ IsFree(u)
          IN IF vacant \/ Stealable(u)
             THEN /\ stage' = [stage EXCEPT ![w] = "serving"]
                  /\ computing' = [computing EXCEPT ![u] = w]
                  /\ freeUnits' = IF vacant
                                   THEN ClaimUnit(freeUnits, u) ELSE freeUnits
                  /\ StartFlight(u, w, flights[u], intakeBusy[u])
             ELSE /\ stage' = [stage EXCEPT ![w] = "landed"]
                  /\ UNCHANGED <<computing, freeUnits, flights, intakeBusy>>
     ELSE UNCHANGED <<stage, computing, freeUnits, flights, intakeBusy>>
  /\ agenda' = TryDispatch
  /\ UNCHANGED <<queue, residents, stored, holds, mode, awaiting, absorbed,
                 stalled>>

PipelineFull(u, j) ==
  stage[j] = "serving" /\ Len(flights[u]) >= Depth[PoolOfUnit(u)]

\* _initiation_complete: the intake of a pipelined unit is free again, and so
\* is the claim unless the pipeline is full.
InitiationComplete(u) ==
  LET j == intakeBusy[u]
  IN /\ Quiet
     /\ j # None
     /\ IF computing[u] = j /\ ~PipelineFull(u, j)
        THEN /\ OfferCompute(u, stage, residents[u], flights[u], None,
                             freeUnits)
             /\ agenda' = AfterParks(stage, residents[u]) \o TryDispatch
             /\ UNCHANGED stalled
        ELSE /\ intakeBusy' = [intakeBusy EXCEPT ![u] = None]
             /\ stalled' = IF computing[u] = j
                           THEN [stalled EXCEPT ![u] = j] ELSE stalled
             /\ UNCHANGED <<stage, computing, freeUnits, flights, agenda>>
     /\ UNCHANGED <<queue, residents, stored, holds, owed, mode, awaiting,
                    absorbed>>

-----------------------------------------------------------------------------
(* Taking a job back *)

\* A resident job whose decode has not begun leaves its slot in stage s.
Unstage(j, s, after) ==
  LET u == UnitOf(j)
      rs == RemoveFirst(residents[u], j)
      st == [stage EXCEPT ![j] = s]
  IN /\ residents' = [residents EXCEPT ![u] = rs]
     /\ stored' = TakeInput(j)
     /\ holds' = LetGo(j)
     /\ IF computing[u] = j
        THEN /\ OfferCompute(u, st, rs, flights[u], intakeBusy[u], freeUnits)
             /\ agenda' = AfterParks(st, rs) \o TryDispatch \o after
        ELSE /\ stage' = st
             /\ agenda' = TryDispatch \o after
             /\ UNCHANGED <<computing, freeUnits, flights, intakeBusy>>
     /\ UNCHANGED <<queue, owed, mode, awaiting, absorbed, stalled>>

\* withdraw_window.  A job still in the ready queue leaves it with
\* staging.release, which does not touch its upstream hold.
Withdraw(w) ==
  /\ Doing("withdraw", w)
  /\ \/ /\ stage[w] = "queued"
        /\ stage' = [stage EXCEPT ![w] = "withdrawn"]
        /\ queue' = [queue EXCEPT ![PoolOf[w]] = RemoveFirst(@, w)]
        /\ agenda' = TryDispatch \o Tail(agenda)
        /\ UNCHANGED <<residents, computing, freeUnits, stored, holds, owed,
                       mode, awaiting, absorbed, pipeVars>>
     \/ /\ stage[w] \in {"moving", "landed", "parked"}
        /\ Unstage(w, "withdrawn", Tail(agenda))

\* cancel_strong, by the phase the strong job is in.
Cancel(s) ==
  /\ Doing("cancel", s)
  /\ \/ /\ stage[s] = "done"             \* the held result is dropped
        /\ agenda' = Tail(agenda)
        /\ UNCHANGED <<stage, queue, residents, computing, freeUnits, stored,
                       holds, stalled, flights, intakeBusy>>
     \/ /\ stage[s] = "queued"
        /\ stage' = [stage EXCEPT ![s] = "cancelled"]
        /\ queue' = [queue EXCEPT ![PoolOf[s]] = RemoveFirst(@, s)]
        /\ holds' = LetGo(s)
        /\ agenda' = TryDispatch \o Tail(agenda)
        /\ UNCHANGED <<residents, computing, freeUnits, stored, pipeVars>>
     \/ /\ stage[s] \in {"moving", "landed"}
        /\ Unstage(s, "cancelled", Tail(agenda))
     \/ /\ stage[s] = "serving"
        /\ stored' = TakeInput(s)
        /\ FreeUnit(UnitOf(s), s, "stopped", TryDispatch \o Tail(agenda))
        /\ UNCHANGED <<queue, holds>>
  /\ UNCHANGED <<owed, mode, awaiting, absorbed>>

\* defer_strong_escalation of window j: its strong window covers the windows
\* up to position k of the stream.  Covered windows that were shipped early
\* are withdrawn first; the restart window behind them must not be submitted
\* yet, and a covered window in a unit gives up rounds the restart reads.
Defer(j, k) ==
  /\ Doing("conclude", j)
  /\ mode = "double"
  /\ StrongOf[j] # None /\ j \in ToSet(Chain)
  /\ LET lo == (CHOOSE i \in DOMAIN Chain : Chain[i] = j) + 1
         early == Those(SubSeq(Chain, lo, k), {w \in Windows : stage[w] # "idle"})
     IN /\ k \in lo .. Len(Chain)
        /\ \A i \in lo .. k : Chain[i] \notin absorbed
        /\ k < Len(Chain) =>
             /\ stage[Chain[k + 1]] = "idle"
             /\ \A i \in DOMAIN early : stage[early[i]] = "queued"
        /\ agenda' = [i \in DOMAIN early |-> <<"withdraw", early[i]>>]
                       \o <<<<"absorb", k>>, <<"finish", j>>>> \o Tail(agenda)
  /\ awaiting' = awaiting \cup {j}
  /\ UNCHANGED <<mode, stage, queue, residents, computing, freeUnits, stored,
                 holds, owed, absorbed, pipeVars>>

\* _absorb_window for every covered window: the restart window no longer
\* depends on them.
Absorb(k) ==
  /\ Doing("absorb", k)
  /\ absorbed' = absorbed \cup
       {w \in {Chain[i] : i \in 1 .. k} : stage[w] \in {"idle", "withdrawn"}}
  /\ owed' = [w \in Windows |-> owed[w] \ absorbed']
  /\ agenda' = Tail(agenda)
  /\ UNCHANGED <<stage, queue, residents, computing, freeUnits, stored, holds,
                 mode, awaiting, pipeVars>>

-----------------------------------------------------------------------------
\* What the running handler does next.
Continue ==
  \/ \E p \in ToSet(Pools) : Place(p) \/ DispatchEnds(p)
  \/ \E j \in Jobs : Doing("land", j) /\ Land(j)
  \/ \E j \in Windows : Conclude(j) \/ Finish(j) \/ Withdraw(j)
  \/ \E j \in Strongs : SubmitNext(j) \/ Cancel(j)
  \/ \E j \in Windows, k \in DOMAIN Chain : Defer(j, k)
  \/ \E k \in DOMAIN Chain : Absorb(k)

Next ==
  \/ Continue
  \/ \E j \in Windows \cup Externals : Submit(j)
  \/ \E w \in Windows : SubmitDeferred(w)
  \/ \E j \in Jobs : Land(j) \/ DecodeDone(j) \/ LateDecodeDone(j)
  \/ \E w, d \in Windows : BoundaryArrives(w, d)
  \/ \E u \in Units : InitiationComplete(u)

\* The engine pops events until none is left and every transfer, decode and
\* interval has a finite duration; the declared rounds of a workload arrive.
Fairness ==
  /\ WF_vars(Continue)
  /\ \A j \in Windows : WF_vars(Submit(j)) /\ WF_vars(SubmitDeferred(j))
  /\ \A j \in Jobs : WF_vars(Land(j)) /\ WF_vars(DecodeDone(j))
                        /\ WF_vars(LateDecodeDone(j))
  /\ \A w, d \in Windows : WF_vars(BoundaryArrives(w, d))
  /\ \A u \in Units : WF_vars(InitiationComplete(u))

Spec == Init /\ [][Next]_vars /\ Fairness

-----------------------------------------------------------------------------
(* Type *)

\* The shape of the manager's tables.
TypeOK ==
  /\ stage \in [Jobs -> Stages]
  /\ \A p \in ToSet(Pools) : /\ ToSet(queue[p]) \subseteq Jobs
                             /\ ToSet(freeUnits[p]) \subseteq UnitsOf(p)
  /\ \A u \in Units : /\ ToSet(residents[u]) \subseteq Jobs
                      /\ Len(residents[u]) <= SlotCapacity(u)
                      /\ stored[u] \subseteq Jobs
  /\ computing \in [Units -> Jobs \cup {None}]
  /\ holds \subseteq Jobs
  /\ owed \in [Windows -> SUBSET Windows]

(* Safety *)

\* A unit is on its pool's free list exactly when nobody claims its compute,
\* and it is listed once.  The claim and the list are cleared and set in six
\* places; a unit listed twice would be handed out twice.
ClaimsExact ==
  /\ \A p \in ToSet(Pools) : IsInjective(freeUnits[p])
  /\ \A u \in Units : IsFree(u) <=> computing[u] = None

\* Where a unit is not pipelined, a decode runs on the unit whose compute it
\* claims (at most one per unit), a claim belongs to a resident of the unit,
\* and a reservation is never held by a parked job.
ClaimHolderRuns ==
  \A u \in {v \in Units : ~Pipelined(v)} :
    /\ computing[u] # None =>
         /\ computing[u] \in ToSet(residents[u])
         /\ stage[computing[u]] \in {"moving", "serving"}
    /\ \A j \in ToSet(residents[u]) : stage[j] = "serving" => computing[u] = j

\* Whatever path starts a decode (its landing, an offer, a steal), its window
\* owes no boundary; and a parked window owes one, or its wake-up was lost.
GateRespected ==
  /\ \A w \in Windows : Begun(w) => owed[w] = {}
  /\ \A w \in Windows : stage[w] = "parked" => owed[w] # {}

\* Between events no startable input waits in a slot of a unit whose compute
\* nobody uses: it is on its way into a decode, or the unit is busy.
NoStrandedInput ==
  Quiet => \A u \in Units : \A j \in ToSet(residents[u]) :
             computing[u] = None => ~(stage[j] = "landed" /\ Startable(j))

\* try_dispatch: "no event boundary leaves a pool holding ... a waiting
\* request that fits".
DispatchComplete == Quiet => \A p \in ToSet(Pools) : Candidates(p) = {}

\* The deposit into unit memory never meets a full memory: the check at
\* placement covers what is stored when the transfer ends, except for an
\* input that alone is larger than the memory.
MemoryFits ==
  \A u \in Units :
    \/ Capacity[PoolOfUnit(u)] = Unbounded
    \/ Cardinality(stored[u]) <= 1
    \/ Rounds(stored[u]) <= Capacity[PoolOfUnit(u)]

\* The attempts whose rounds are still upstream.
Upstream == {j \in Windows \cup Strongs : stage[j] \in {"queued", "moving"}}

\* A decode attempt keeps its rounds upstream from its admission until its
\* input lands and not longer, by whichever way it ends before that: landing,
\* withdrawal or cancellation.  Only what withdraw_window takes out of a ready
\* queue, in a double-window run, is kept for longer.
HoldsExact ==
  /\ Upstream \subseteq holds
  /\ holds \ Upstream \subseteq
       {w \in Windows : mode = "double" /\ stage[w] = "withdrawn"}

\* Without the exception: an ended attempt holds nothing upstream.
HoldsEnd == holds = Upstream

\* Between events unit memory stores the inputs of live attempts only.
StoredIsLive ==
  Quiet => \A u \in Units :
    stored[u] = {j \in ToSet(residents[u]) : stage[j] # "moving"}

\* Free lists, compute claims, slots and unit memory tell one story, whichever
\* of their many paths a job took through them.
TablesAgree == TypeOK /\ ClaimsExact /\ ClaimHolderRuns /\ MemoryFits /\ StoredIsLive

\* Between events nothing that could run is left waiting, neither in a queue
\* nor in a slot.
NothingForgotten == DispatchComplete /\ NoStrandedInput

(* Action properties *)

\* A pipelined unit begins no decode while its intake is busy (the assertion
\* at the end of _begin_service): the next one begins when the interval of
\* the last one has elapsed.
IntakeExclusive ==
  [][\A u \in Units : intakeBusy[u] # None /\ ~InitiationComplete(u) =>
       intakeBusy'[u] = intakeBusy[u]]_vars

(* Liveness *)

\* Every admitted window is decoded, unless a strong window absorbs it: no
\* set of parked windows keeps the units from the decodes they wait for.
WindowsDecode ==
  \A w \in Windows :
    stage[w] = "queued" ~> stage[w] \in {"done", "withdrawn"}

\* Every admitted strong or external decode ends.
OthersEnd ==
  \A j \in Strongs \cup Externals :
    stage[j] = "queued" ~> stage[j] \in {"done", "cancelled"}

(* Refinement *)

Status(j) ==
  IF j \in absorbed THEN "dropped"
  ELSE CASE stage[j] = "idle" -> "none"
         [] stage[j] \in {"queued", "moving", "landed", "parked"} -> "waiting"
         [] stage[j] = "serving" -> "running"
         [] stage[j] \in {"concluding", "done"} -> "decoded"
         [] OTHER -> "dropped"

Service == INSTANCE DecodeService
  WITH status <- [j \in Jobs |-> Status(j)],
       Needs <- [j \in Jobs |-> IF j \in Windows THEN Deps[j] ELSE {}],
       Width <- [p \in ToSet(Pools) |->
                   UnitCount[p] * (IF Depth[p] > 0 THEN Depth[p] ELSE 1)]

\* The pools implement the service: slots, reservations,
\* steals and withdrawals are invisible to whoever submits.
ImplementsService == Service!Spec

=============================================================================

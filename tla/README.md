# decsim, specified

TLA+ modules for `decsim` (`src/decsim`), the discrete-event simulator of the
classical path of a quantum error-correcting computer: syndrome rounds come from
the QPU, are packed, stored, cut into windows, decoded by weak and strong decoder
pools, committed, and turned into Pauli-frame updates and the release of
conditional operations.

The simulator is one sequential event loop. What is concurrent is the simulated
machine: every hop, decode, write and time-out is an event, and the order of
events is the order of arrival times, which a configuration may choose freely.
So an action of these modules is an event with the whole handler the code runs
for it, and a behaviour is any order of events the machine can produce. A call
that the code answers with an exception ends the run; such a call is not a step,
and "the exception is out of reach" is stated as an invariant where it matters.
Nothing is persisted and nothing restarts, so there is no crash recovery to model.

## 1. Inventory

| part (under `src/decsim`) | state | operations | talks to | what is hard | correct when |
|---|---|---|---|---|---|
| `engine.py` | event heap, clock | `schedule`, `run` | everyone | ties at one tick | (time, priority, sequence) order |
| `frontends/execution_runtime.py` | ready, requested, begun, done operations, resource claims | load, attempt, retry, body done, decision | controller, factories, frame | a retry inside an issue | each operation starts once, alone on its patches, and the program ends |
| `controller/controller.py`, `feedback_streams.py`, `policies.py` | bindings, active regions, required ends, seals | issue, boundary, hold, close, seal, extend | QPU clock, window manager | one tick, three priorities | one round per cycle; sealed at its last round |
| `qpu/cycle_clock.py`, `qpu/*_device*.py` | pending commands, running bodies, idle patches | start, tick, read-out | controller, packing | commands wait for a boundary | every round of an operation is emitted once |
| `qpu/magic_state_factories.py` | buffers, busy units, states in flight, waiting requests | request, attempt, correct, fulfil, withdraw, shut down | decoder pools, runtime | demand recomputed from counters | no request forgotten, nothing made in excess |
| `controller/syndrome_packing.py` | contexts, route queues, drops, refusals | receive, pack, arbitrate, deliver, notify | Buffer 0, window manager, feedback memory | refusal and retry, zero-delay events, limits | rounds handed on in order, once, none forgotten |
| `detector_error_model/` | formation table, ring of packets; catalogue, slices | form a round; slice, own, forward | packing, planner, decoders | off-by-one layers, stale packets | every fault owned by one window, every event formed from its own bits |
| `syndrome_buffer/syndrome_buffer.py` | slots, holds by token and by round, tombstones | open, store, hold, replace, transfer, release, close | packing, windows, pools | two indexes kept by hand, failure half-way | freed exactly with the last hold, never used afterwards |
| `syndrome_buffer/syndrome_buffer_1.py` | rounds crossing the csb, arrival counter, claims | write, land, claim, release | packing, escalation | rounds land after their readers are done | no landing without a slot, gate sound |
| `windows/windowing_schemes.py`, `frontends/planner.py` | none | plan | window manager | off-by-one at the last window | commit regions partition the rounds, every read is retained |
| `windows/window_manager.py` | windows, arrival counters, commits, finished operations | arrival, check, submit, weak and strong commit, release, retire | all of the above, pools, links | retirement is re-examined only at commits | every operation is delivered once |
| `windows/window_boundaries.py`, `committed_rounds.py`, `dynamic_windows.py`, `window_interactions.py` | boundary versions, held boundaries, ledger, live plans | send, hold, receive, merge, grow, seal | window manager, pools | windows created while boundaries move | each dependency released once, on the final result |
| `decoders/decoder_manager.py` with `decoder_memory*.py` | queues, slots, compute claims, parked jobs, memory, pipelines, gap joins | enqueue, dispatch, land, offer, done, steal, withdraw, cancel, join | window manager, escalation | six places touch one claim | one owner per unit, no window stuck |
| `decoders/strong_escalation.py` | request ledger, deferred regions | select, complete, defer, absorb, cancel, guard | pools, policy, stores | selection and result race | each escalated window answered once |
| `decoders/weak_strong_switching.py` | threshold, calibrator, audits | on ready, on outcome, label | escalation | labels arrive late | each observed window counted once, each audit labelled |
| `decoders/union_find/` | clusters | decode | windows | the seam of a window | the answer explains the syndrome |
| `links/` | channel queues, set-up queues, counters | reserve | everyone | shared channels | sends in order, none overlapping |
| `pauli_frame/` | accepted and installed writes, frame | commit, install, release | window manager, runtime | duplicates | one update per window |
| other backends, `confidence/`, circuit frontends, `run_spec.py`, `observe/` | — | numerical, or before and after the run | — | — | — |

`PROJECT.json` lists the same parts with their status and, under `hazards`, the
line where each difficulty bites and the property that watches it.

## 2. Modules

| module | models | composes or refines |
|---|---|---|
| `SyndromeBuffer`, `SyndromeBufferProofs` | the round store, every public operation; theorems about it | implements `RoundRetention` |
| `SyndromeBuffer1`, `SyndromeBuffer1Proofs` | the room store between csb, windows, escalation and retirement; theorems | uses the promise of `RoundRetention` |
| `SyndromePacking`, `SyndromePackingProofs` | packing, routes, refusal, drops, Buffer 0 and the window manager's acceptance; theorems | |
| `DecoderUnits`, `DecoderUnitsProofs` | decoder pools, units, memory, parking, withdrawal, cancellation, pipelining; theorems | implements `DecodeService` |
| `StrongRequests` | the ledger of strong requests and the batching of queued jobs | extended by `Switching` |
| `Links` | the link fabric, as operators on its state | instantiated by `Switching` |
| `Switching`, `SwitchingProofs` | a window's weak outcome, gap join, policy, thresholds, commits, Pauli frame; theorems about it and about the ledger | `StrongRequests` + `Links`; implements the ledger |
| `WindowGeometry` | the arithmetic of commit and buffer regions | extended by `StreamWindows`, `WindowPlans` |
| `StreamWindows`, `StreamWindowsProofs` | one live stream from emission to the release of a waiting operation; theorems | |
| `WindowPlans` | schemes, dependencies, retention, fault ownership, strong regions | |
| `UnionFind` | the union-find decode of a window | |
| `DetectorFormation` | measurement rounds, formation table, the ring that forms events | |
| `PlannedDecode` | planned operations from the first packet to the result | the three above |
| `Control` | runtime, controller, protected regions, QPU clock, event engine | |
| `MagicStateFactories`, `MagicStateFactoriesProofs` | the magic-state supply | |
| `Subsequences` | the part of a sequence that lies in a set | used by `SyndromePacking`, `DecoderUnits` |
| `SequenceFacts` | lemmas about sequences | used by the proof modules |
| `MC...` | constants of the TLC instances | |

### SyndromeBuffer

One variable per table of the class: `slotOf` is `_rounds`, `freeSlots` and
`slotCount` the slots, `openOps`, `closedOps` and `tombstones` the operation
scope, and `phase`, `holdRounds`, `holdOps`, `holdersOf` the two indexes of the
holds. `Accept`, `AcceptFaulted`, `MarkPublished`, `ReleaseUnheld`,
`RegisterHold`, `ReplaceHold`, `TransferHold`, `ReleaseHold`, `OpenOperation`
and `CloseOperation` are the methods. `AcceptFaulted` is the one partial failure
the method handles: the memory model raises after a slot was taken.
`RoundRetention` is the promise: absent, then kept, then gone; gone with the last
claim and never under one. `ImplementsRetention` maps a round to it through
`slotOf` and `tombstones`.

### SyndromeBuffer1

Rounds are written to the csb when they are packed (`Write`), land later in order
(`Land`), and reach the window manager by Buffer 0 (`Publish`). A window claims
its strong context from the start; `WeakFinal` and `Escalate` are the two
outcomes of its weak decode, `CommitFinal` the return of a final result over WDO,
`StrongLanded` and `StrongCommit` the strong path. `MoveOn` carries what every
commit does: drop claims, free rounds, and retire the window's own operation if
nothing refers to it. The store below is used through `RoundRetention`'s promise
(a round's life is `room`), which `SyndromeBuffer` is proved to keep.

### SyndromePacking

`Receive`, `PackEnds` (the fixed packing time), `RunArbitration`, `Deliver` (the
end of the CWB hop), `RunRelease`, `DeliverMemory` and `NotifyReady`. `soon` is
the list of zero-delay events the stage schedules for itself; they run in order
but anything else due may run between them. `Deliver` includes the window
manager's answer: it may refuse the round (`MaxRefusals` times), and
`KeptAfter` is its decision at acceptance whether any window still reads the
round. `LetGo` is a consumer ending.

### DecoderUnits

`stage` says where a job is; `queue`, `residents`, `computing`, `freeUnits`,
`stored`, `holds`, `flights`, `intakeBusy`, `stalled` are the manager's tables of
the same names; a unit is a pair of a pool and a number, as in
`decoder_memories`. Handlers here call each other (an ended decode commits, the
commit dispatches, the dispatch lands a zero-delay transfer, which offers the
unit ...). `agenda` holds the calls the running handler still has to make, in
their order, and no other event runs until it is empty: handlers stay atomic with
respect to events while each call remains an action one can read beside its
method. `StartFlight` begins a decode and, on a pipelined unit, its initiation interval; the
code raises for a strong job there (decoder_manager.py:570-577), so no step begins one
(`Servable`). `DecodeService` is what a client sees: at most one run per job, after the
jobs it depends on, and no more at once than the pool's units and depth allow.

### StrongRequests

The four tables of `StrongRequestLedger`, and a pool reduced to a queue and
slots. A request is `deferred` in double-window mode until its far region is in.
`DispatchBulk` is the dispatch of `bulk_strong`, which merges the queue into a
batch; `DispatchSingle` the ordinary one.

### Links and Switching

`Links` is functional: `Resolve` binds a card, `Reserve` returns the fabric and
the delay of one transfer, `refused` records that the in-order guard would raise.
`Switching` owns a clock and an event list in the engine's order. `Submit`,
`Start`, `PrimaryDone` and `SiblingDone` are a window's weak decode with the
optional second half of a split gap; the later half runs `Decide`, which is the
policy with its threshold, calibrator and audit; `Keep` and `Escalate` start the
transfers; `Selected`, `WeakDelivered`, `StrongDelivered` and `FrameWritten` are
what they deliver. Each step that touches the request ledger *is* the action of
`StrongRequests` (`AdmitWeak`, `Finalize`, `AwaitStrong`, `Select`,
`StrongDone`), so `RequestsSound` is checked under the order of events the
links produce.

### StreamWindows

One stream of each kind: open (segments and idle rounds), protected (a region's
cycle) and finite. `emit` actions send rounds that arrive later; an arrival plans
the windows whose data may come, ships those that have it, and hands boundaries on
as `create_dynamic_window` and the courier do. A committed prefix releases the
operation that waits for a segment; the seal trims the tail window. The fields
`inb`, `entry` and `says` are the versions of a result a window was decoded on, put in the
frame and told the ledger, which is what `BoundaryOnce` and `ReleasedIsFinal`
compare.

### WindowPlans, UnionFind, DetectorFormation and PlannedDecode

`WindowPlans` has each scheme as a function from a round count to windows and
dependencies, the error model's slice of a window, the owner of every fault and
the region of a strong window. `PlannedDecode` chooses a configuration and a set
of faults, lets the rounds arrive as raw packets, forms their detection events,
decodes each window with `UnionFind` or with any exact decoder, forwards the
effect of the kept faults as the boundary, and gathers the operation's prediction.
With the bits real, `SyndromeCancelled` can say what decoding promises: the kept
faults of all windows together explain the whole syndrome, and a decode within
the code's reach gives the right logical value. Switching runs follow region,
order and time only; a strong answer is not given content.

### Control

A handler of the runtime, the controller and the streams may call another before
it returns (a finished body starts successors, an open boundary retries every
ready operation). So a handler is an operator from states to states, and an action
runs the handler of the next event of the engine's list. Two things come from
outside: a magic state and a feedback decision; they may come at any tick up to
`MaxWait` after they were asked for, before or after the events of their tick.
Every exception of these handlers sets `error`, and `ProtocolHolds` says that none
is reached.

### MagicStateFactories

Both factory designs in one module, chosen in `Init`. `buffer`, `making`, `busy`,
`inFlight`, `correcting` and `returning` are the counters of the code (or what
they count), and each handler ends with the code's drive step, which starts
attempts until demand is covered.

## 3. What is checked

`mode`, `cfg`, `c`, `fac` or `prog`, where a module has it, is chosen in `Init`
and never changes, so one run covers all its configurations.

| run | instance | what it shows |
|---|---|---|
| `store` | 2 operations, 3 rounds, 3 tokens (one names an operation it holds no round of), 2 slots, 1 memory fault | the store fills, refuses and recovers; every order of hold calls; it implements `RoundRetention` |
| `packing` | a stream of two rounds of two fragments, a second stream, an idle patch; 3 contexts, 2 slots, 2 refusals, drops on | contexts and slots both run out; fragments interleave across rounds; a refused round has a later one behind it, also refused |
| `room` | two operations in sequence (4 and 2 rounds), three windows, the middle one reading across the seam, 5 slots | one slot less than rounds, so a write waits; a round of the second operation read by the first; both csb and WDO lag |
| `units` | a chain of three windows and a lone one on one weak unit that pipelines (one decode in flight, two slots, memory 3 rounds; one input alone fills it), two strong jobs on one unit that does not; serial, parallel and double-window | claims, intake, gates, memory, upstream holds and refinement under parking, stealing, cancellation and withdrawal |
| `units_seam` | two blocks, the seam reading both, a dependent, an external zero-delay job; pipeline depth 2, three slots for five jobs | the deadlock that slot admission exists for, and the dispatch pass |
| `switching` | two windows on one strong slot under eight combinations of policy, mode, threshold, split or joined gap, frame-write time and card | ledger, joins, audits, links and frame: every window's correction enters the frame once and the run ends |
| `windows` | ten modes of one stream, segments of up to four rounds, F = B = 2, three idle rounds, one dropped round | live plans: boundaries, retained input, tiling, seal, and the release of a waiting operation |
| `plans` | thirteen accepted configurations of five schemes with up to three faults, two operations in a chain, serial and double switching; eight that the code refuses | plans, ownership, formation, boundaries and the ledger on real bits |
| `control` | four programs with 1 or 2 rounds per body and a command delay of 0 to 4 ticks in a cycle of 3; states and decisions within 5 ticks | regions, holds, seals, retries, one round per cycle |
| `factories` | 36 factories of both designs, three requests, one failure | counters, demand and service |

Two more runs show a line of the repository that the code does not keep:

| run | disagreement |
|---|---|
| `room_overtake` | an operation whose last commit overtakes its predecessor's is never retired (window_manager.py:1229) |
| `windows_overtake` | an idle round is numbered behind a released segment that has not begun; the arrival counter jumps over rounds nobody has seen, and a window may be decoded without them (feedback_streams.py:377) |

The properties of a run are conjunctions of named parts where the parts speak of
one thing: `StoreSound`, `TablesAgree`, `NothingForgotten`, `RoomSound`,
`RetentionSound`, `HandoverInOrder`, `WindowsSound`, `ProtocolHolds`,
`CountersSound`, `RequestsSound`. A counterexample of one of them names the part
that TLC evaluates to false.

### Reproductions

Further configurations, run by hand, show cases the passing runs leave out. Each
line is `tlc -config <cfg> <module>`, and TLC stops at the property named:

| cfg, module | property | disagreement |
|---|---|---|
| `DecoderUnitsWithdraw.cfg`, `MCDecoderUnits` | `HoldsEnd` | `withdraw_window` of a queued job calls the stager's `release`, which frees memory only; its `cancel` is the call that says "Drop one job from transport and storage, then free its upstream hold" (decoder_manager.py:929, decoder_memory_transfer.py:41) |
| `DecoderUnitsIntake.cfg`, `MCDecoderUnits` | `IntakeExclusive` | a pipelined unit is put on the free list by the end of its decode and again by the end of its interval; the second decode starts in a busy intake (decoder_manager.py:420) |
| `StrongRequestsBulk.cfg`, `MCStrongRequests` | `NamesItsRequests` | a batch without a slot goes back to the queue and is then taken for a single request (decoder_manager.py:671) |
| `SyndromeBuffer1Late.cfg`, `MCSyndromeBuffer1` | `CrossingFindsOperation` | an operation may be closed while its rounds cross the csb (window_manager.py:1239, against syndrome_buffer_1.py:100) |
| `SyndromePackingAbsorbed.cfg`, `MCSyndromePacking` | `CrossingIsRetained` | absorbing a window frees a round that is still crossing the CWB; its delivery stops the run (strong_escalation.py:1007) |
| `SwitchingSharedSetup.cfg`, `MCSwitching` | `SendsInOrder` | output paths that share a channel and charge the same set-up are accepted ("a channel's in-order send guard cannot hold if edges sharing it disagree", links.py:524), but set-ups queue per path: behind two of WSD, a send on WDO comes before the last and is refused (links.py:600) |
| `ControlLate.cfg`, `MCControl` | `NoProtocolError` | a region whose first operation is released inside a cycle counts its boundaries from that tick and ends off the boundary (feedback_streams.py:264) |

`StrongRequests.cfg` checks the ledger alone with three windows and two slots, and
holds: selections, results and cancels in every order, without links between them.

The passing runs exclude exactly these cases: `HoldsExact`, which `units` checks
under withdrawal and cancellation, names the hold a double-window run leaks as its
one exception, `IntakeExclusive` is checked at a depth of one, no card of `switching`
has a set-up on a shared channel, `switching` has `Bulk = FALSE`, `OrderlyRetires` assumes commits in order
and no late round, `packing` has `LetGoCrossing = FALSE`, `windows` has one
segment per stream that others wait for, the programs of `control` open their
regions on a cycle boundary, and `plans` has no serial switching on two chained
operations (the stall is `room_overtake`). In `plans` a covered window that was
withdrawn while queued keeps its hold on the weak store (`leaked`, the first
reproduction above), and `OperationsFinish` does not ask for the delivery of an
operation such a hold belongs to.

### Bounds

Every bound is a constant: `MaxFaults`, `MaxRefusals`, `MaxBatches`, `MaxIdle`,
`MaxDrops`, `MaxFailures`, `MaxWait`, `MaxTick`, the capacities, and the sets of
rounds, windows, jobs, programs and configurations. They are the smallest at which
the case of interest occurs: a store that fills needs two slots and three rounds;
a hold conflict two tokens on a round and two rounds on a token; a slot deadlock
as many waiting successors as slots; a retry that could be overtaken one refused
round and one behind it; a late selection two windows for one strong slot; a
boundary in flight to a window not yet created a stream longer than commit plus
buffer rounds; a plan with an interior window of each kind seven rounds for the
parallel and sandwich schemes, and five for a parallel plan that ends in a B window; a restart window past an absorbed one six rounds;
an error a window might commit twice two faults at a seam. `MaxTick` is above the
end of every program: `ProgramEnds` would fail otherwise. Deadlock checking is off
because each model's workload is finite and ends; that nothing stops early is what
the liveness properties say instead (`EveryRoundSettles`, `WindowsDecode`,
`OthersEnd`, `OrderlyRetires`, `EveryWindowFinal`, `StreamSettles`,
`OperationsFinish`, `ProgramEnds`, `EveryRequestServed`). Symmetry is used where
identities are interchangeable (rounds of one operation and plain tokens in
`store`) and never under a temporal liveness property.

### Fairness

Weak fairness: the engine runs until its heap is empty, every transfer, decode,
packing time and initiation interval has a finite duration, and the device emits
every declared fragment. `NotifyReady` is fair because a receiver that refuses
must call `notify_window_input_ready`. Choices (escalate or not, cancel, let go,
withdraw) are not fair; only their disjunction is, where the code always makes the
choice. Four modules state fairness of the whole next-state relation in the form
`[]<><<Next>>_vars \/ []<>~CanStep` (in `PlannedDecode` `<>[]~CanStep`, in
`MagicStateFactories` with its working steps): it is weak fairness with the enabling condition
written out as a predicate, since the engine never stops while an event is due.
In `Control` a magic state and a decision come within `MaxWait` ticks of their
request. Nothing needs strong fairness.

### Seen while modelling, without a run

Stores and pools: `accept_packed_round` (syndrome_buffer.py:239-259) counts an
allocation before the memory model may raise and does not take it back, so
allocations and releases reconcile only without faults (`CountersAddUp` is proved
under `MaxFaults = 0`); a transfer that takes no time deposits its input before the
finished one is freed (decoder_manager.py:1096), so the memory bound is checked
with zero-delay transfers on the roomy pool only; `try_dispatch` walks the pools
once, so work that a later pool's dispatch puts into an earlier pool waits for the
next event, although its comment promises that no event leaves a request that
fits (decoder_manager.py:376-383).

Control: the release of a scheduled operation at a tick runs before the QPU's tick,
so the idle round of the cycle just ended is charged to the next consumer, and a
region started that way on an idle patch loses that round; idle rounds emitted
while the command of a blocked operation crosses CQ are charged to the operation
after it; an emitting operation directly behind a region's last one on the same
patch is refused; a multi-level factory's drive returns at once after shutdown.

Streams: `Ignore` and separate decode jobs with an unprotected dynamic stream raise
a `KeyError` (window_manager.py:626); a dropped last round leaves its window
waiting, and a dropped round of a formed source makes the former raise for the next
one (detector_formation.py:281); observables of a finite stream across a segment
boundary are refused only when they occur.

Links and policy: the report's delivery tick counts the
set-up twice (links.py:605-609, link_traffic_report.py:102), which is why
`LinksInOrder` compares it on paths without one; a payload "priced as zero bits"
meets a `TypeError` on a finite channel (links.py:644-655); the escalation-rate
tracker is floored at zero, which loses the long-run guarantee its docstring gives,
and audits do not count towards the maximal rate (weak_strong_switching.py:76-79,
171-173); with `bulk_strong` and an online calibrator only the first member of a
batch labels its audit.

Plans: serial switching under the parallel or sandwich scheme is accepted, although
the strong re-decode then owns other faults than the window it replaces
(weak_strong_switching.py:402); a serial strong re-decode folds its left neighbour's
boundary although it reads raw rounds before its commit region
(strong_escalation.py:627); with no buffer rounds in double mode the restart window
keeps the weak boundary of the escalated one; chained operations with circuits under
the lookahead scheme send the successor's overflow rounds with the last window,
which its rows do not cover; a fault longer than commit plus buffer rounds is
forwarded by the window before only; an escalation whose restart window has shipped
is refused.

## 4. What is proved

Each theorem is about every value of the constants that satisfies the named
assumption of its module, so for any number of rounds, windows, jobs, slots and
any capacity. Where a theorem has a further hypothesis it is in the table.

| module | theorem | statement |
|---|---|---|
| `SyndromeBufferProofs` | `StoreStaysSound` | `Spec => []StoreSound` |
| | `TypeCorrect` | `Spec => []TypeOK` |
| | `HoldTablesAgree` | the two hold indexes say the same |
| | `SlotLaw` | the slots in use and the free slots partition the slot range |
| | `NoUseAfterRelease` | no live hold names a released round |
| | `StoredStaysAlive` | a stored round belongs to an open operation and is not tombstoned |
| | `FreedExactlyWithLastHold` | a step frees a round exactly when it ends its last hold, or drops a round nobody holds |
| | `NeverReadmitted` | a released round never comes back (`ReleasedForever`) |
| | `StoreImplementsRetention` | the store implements `RoundRetention` |
| | `CountersAddUp` | if `MaxFaults = 0`, allocations less releases are the stored rounds |
| | `TokensNotReused` | a released token is usable again only after its operations closed |
| `SyndromeBuffer1Proofs` | `RoomIsSound` | `Spec => []RoomSound` |
| | `GateSound` | `Spec => []GateIsSound` |
| | `RetirementIsFinal` | `Spec => []RetiredIsFinal` |
| `SyndromePackingProofs` | `RetentionIsSound` | if `~LetGoCrossing`, `Spec => []RetentionSound` |
| | `RoundsHandedOverInOrder` | `Spec => []HandoverInOrder` |
| `StreamWindowsProofs` | `EveryBoundaryOnce` | `Spec => []BoundaryOnce` |
| | `ReleasesAreFinal` | `Spec => []ReleasedIsFinal` |
| | `WindowsAreSound` | if `OneFile`, `Spec => []WindowsSound` |
| `DecoderUnitsProofs` | `InvariantHolds` | `Spec => []UnitsInv` (types, slots, queues, gate, running handler, memory) |
| | `GateIsRespected` | `Spec => []GateRespected` |
| | `HoldsAreExact` | `Spec => []HoldsExact` |
| | `ClaimsHold` | if `Shallow`, `Spec => [](UnitsInv /\ Claimed)` |
| | `MemoryHolds` | if `InstantApart`, `Spec => []MemoryFits` |
| | `TablesAlwaysAgree` | if `Shallow` and `InstantApart`, `Spec => []TablesAgree` |
| | `IntakesAreExclusive` | if `Shallow`, `Spec => IntakeExclusive` |
| | `PoolsImplementService` | if `Shallow`, `Spec => ImplementsService` |
| | `NoInputIsStranded` | `Spec => []NoStrandedInput` |
| | `NothingIsForgotten` | if `OneLane`, `Spec => []NothingForgotten` |
| `SwitchingProofs` | `LedgerIsSound` | if `~Bulk`, the ledger alone: `Spec => []RequestsSound` |
| | `SwitchingImplementsLedger` | if `~Bulk`, a run of `Switching` is a behaviour of the ledger's `Init /\ [][Next]_vars` |
| | `LedgerOfSwitching` | if `~Bulk`, `SwitchSpec => []RequestsSound` |
| | `EveryCorrectionOnce` | if `~Bulk`, `SwitchSpec => []CorrectionsOnce` |
| | `EveryAuditAnswered` | if `~Bulk`, `SwitchSpec => []AuditsAnswered` |
| `MagicStateFactoriesProofs` | `CountersStaySound` | `Spec => []CountersSound` |
| | `DemandStaysMet` | `Spec => []DemandHasWork` |

The hypotheses are not there for the prover. With `LetGoCrossing`, and with
`Bulk`, the code does not do what the property says: `SyndromePackingAbsorbed.cfg`
and `StrongRequestsBulk.cfg` (section 3) are the counterexamples. `Switching`
runs with `Bulk = FALSE` as well. In the same way a unit with more than one
decode in flight may be listed as free twice (`DecoderUnitsIntake.cfg`): `Shallow`
says that no pipeline is deeper than one. `InstantApart` says that the jobs whose input
takes no time to move are served by units without a memory bound, or by a pool that
serves no windows: an input that lands inside the dispatch of a conclusion meets
the input of the decode that is still being concluded (section 3, stores and pools).
`OneLane` says that the windows decode in one pool, as the code's weak pool does. A
dispatch round visits the pools in their order and each once: a window placed in a
later pool could admit, by the order of a stream, a window waiting in one already passed.
`OneFile` says that the rounds of a stream arrive in the order of their numbers: an
unprotected stream has one segment under way, a protected region others wait
for has more than one segment or closes on the full buffer, and a finite source has
the rounds of its segment. Two segments on one open stream are the run
`windows_overtake`; the boundary of a one-segment region closes at the round that also
ends the stream, and TLC then finds a tail that was submitted before it was clipped.
The streams of the run `windows` satisfy it.

The assumptions (`StoreAssumption`, `RoomAssumption`, `PackingAssumption`,
`UnitsAssumption`, `ChainAssumption`, `StreamAssumption`, `RequestsAssumption`, `SwitchingAssumption`, `SupplyAssumption`) say of the
constants what the constructors of the code check or what a declared program is:
lengths and slot counts are positive, capacities natural or unlimited, a window
reads rounds of its context, a stream has at least one segment and every segment a
round, targets lie between their bounds. TLC evaluates them on the instances.

### The arguments

**The store.** The agreement of the indexes and the slot law are inductive once the
types are known; the rules about released rounds are not. A release frees
the rounds whose `holdersOf` becomes empty, so that it frees no held round needs
the two indexes to agree; that a held round cannot be tombstoned again needs
stored rounds to be neither tombstoned nor closed. `IInv` is the conjunction
`TypeOK /\ HoldIndexExact /\ SlotsExact /\ NoHoldOnReleasedRound /\
StoredIsAlive`. `FreedUnheld` is the central lemma: whatever step frees a set of
rounds, nobody holds them afterwards. The action properties follow from `IInv`
step by step, and the refinement from `IInv` before and after the step and the
two action properties, which already say how a round's status may move.

**Syndrome buffer 1.** `LandingHasSlot` counts kept rounds and rounds on the hop
together, as `write` does; it survives a landing because the round that lands is
new to the store. That it is new, and that the arrival counter is a gate, needs
`CsbInv` and `InOrder`: the hop carries exactly the rounds between `landed` and
`written`, each operation's in order, so the first of them is the next to land.
`RoomInv` ties the store to the claims in both directions (kept means claimed, gone
means unclaimed), and a claim never comes back, which is what makes retirement
final (`ClosedInv`).

**Packing, retention.** `RInv` follows a round through its context: not yet
complete, waiting, draining, gone. A round handed over stays in Buffer 0 only for a
consumer, and one still on its way stays for its context. The step that could break
it is a consumer that ends while the round is on the hop, the excluded case.

**Packing, order.** `HandoverInOrder` speaks of two ends of the window route, what
was accepted and what waits for a release. Between them rounds are refused, retried
and overtaken by arbitrations, so the invariant describes the whole route as one
line (`Line`): the accepted rounds end in those whose release is scheduled; then, from
the head of the queue, the refused rounds, the rounds on the CWB hop, the fresh ones.
`Ordered` says that the rounds of a source are in order along the line and none is
missing but the dropped ones; `Accounted` that a complete round is on the line, in
its pack time, or dropped; `Stations` what each part's contexts look like. A refusal
moves the border between two parts and leaves the line as it is (`LineStands`);
only the end of a pack time lengthens it (`LineMoves`). The four parts are
existentially quantified: they are no variables of the code. `FragmentsInOrder`
says that a later round of a source is never complete before an earlier one.

**Decoder pools, the handler.** Nothing about the pools is inductive without knowing
which handler runs. `Handling` says what an agenda can be: a transfer that takes no
time, some dispatches, then the rest of one handler (`Rest`): nothing, the submission
of a deferred strong job, or what is left of the conclusion of one decode (its
withdrawals, deferral, absorption and end). With it, `Placed` (a job is in one queue or one slot exactly while
its stage says so), `Gated` (dependents of a window without a result are parked),
`Stored` (memory holds residents that have landed, and the input being concluded),
and `InLine` (in a double-window stream nothing begins in front of an absorbed window)
are preserved by every call the handlers make. `GateIsRespected` is a part of
`Gated`. `HoldsAreExact` follows step by step: whatever
takes a job out of a queue or lets its input land also gives its hold back, save the
withdrawal of a queued window (`HoldReturned`), and a withdrawn window stays so.

**Decoder pools, claims.** `ClaimedAt(u)` is the one story the tables tell of a unit:
it is listed as free exactly while nobody claims its compute; a serving job is the claimant,
and no input waits in the slot of an unclaimed unit; the claimant is in the
slot, unless it has left while its intake is still busy; a stalled intake belongs to
a decode in flight, and that decode is the only one. `_offer_compute`, `_end_flight`,
`_free_unit` and `_initiation_complete` each see a unit between two of their writes,
so there is a lemma for each about what it is given and what it leaves
(`OfferClaims`, `FreeUnitClaims`, `UnstageClaims` and so on), with one lemma per event on top. At depth two the
claim of a unit passes to a second decode while the first is in flight,
and the first clause fails: that is the finding. `IntakeExclusive` is proved of the
same steps, from `Claimed` before them.

**Decoder pools, the service.** `ImplementsService` maps a job to what a client sees of
it: waiting, running, over or gone. Every step moves each job along `Moved` or leaves
it alone (`ServiceTurns`); an absorption, which gives several windows to one job, moves
nobody. The service starts a job only when the decodes it depends on are over:
that is `Gated` before the step. Its width is a count: each running job claims a unit
of its pool and no two the same (`ClaimsWithin`, `PoolWidth`), so that at depth one there
are no more of them than units. With deeper pipelines the claim passes on while the
decode runs, the count would be of flights, and only TLC has checked it.

**Decoder pools, idle units.** `NoStrandedInput` needs no `Shallow`. `Manned` says that a
unit nobody claims is listed as free and that nothing has landed in its slots. Six paths
clear a claim (a decode that ends, an interval that ends, an arrival that finds its
boundary owed, a boundary, a withdrawal, a cancellation), and each ends in an offer: `OfferMans` says that an offer
either finds a claimant or leaves only what has parked or is still on the hop.

**Decoder pools, queues.** `Attended` says that a pool whose queue holds something that
fits is about to be dispatched: the call is in the agenda, or a conclusion is under way
that ends in one. A candidate is new where a unit, memory, a slot or an admission
has become so; each handler that gives one of these back names its dispatch.
`EligibleIs` removes the order in which free and busy units are asked. The delicate part is the admission by window
order: a placement in the dispatch that has just passed a queue must not admit
anything behind it. `ResolvesSame` shows that a window that begins was resolving
before, so that the windows behind it are admitted or not as they were.

**Decoder pools, memory.** A slot is given on the demand of *all* residents, landed
or not, while memory holds the landed ones: `Room` bounds the first, `MemoryFits`
follows from `Stored`. A finished input stays in memory until its handler has
concluded it, when it is no resident any more; that no other input lands beside it in
the meantime is the point where `Handling` and `InstantApart` are needed. Demands are summed over a set of jobs by the fold of
the community modules, which picks elements in some order: `RoundsWithout`
(a sum is one element's demand and the sum of the rest, whichever element) and
`RoundsGrow` are proved by induction over the finite sets of jobs.

**Stream windows, boundaries.** `BoundaryInv` follows a result from the decode to
the next window. `OwnResult` says that a window shipped a result exactly when it is past
its decision, and that frame and ledger have that same result. A boundary is shipped
where a correction leaves or enters the frame, so that it happens once needs
`Corrections`: the WDO link and the frame's queue hold no window twice and share
none, and whoever is in one of them is at that stage. `Linked` is the pair of
neighbours: outstanding, in flight, or in. A window planned late falls into the right
one of the three because `Available` is asked of the same field `OwnResult` speaks of.

**Stream windows, releases.** A release is decided on the committed prefix, and later
steps could undo it in three ways: a window inside the answered segment changes, a
window is planned that overlaps it, or the tail is clipped under it. Against the first
stands that a final window has nothing on its way (`BoundaryInv`); against the second
that the regions tile the stream (`Tiled`) and a later window begins behind the last
one; against the third that on an unsealed plan every region is a full stride
(`OnPlan`) beginning no later than the rounds the stream has reserved (`Reach`), while every
segment that has begun ends within them (`Rounds`). So the sealed end lies at or
beyond every answered segment. `Reach` is one round more for a protected stream, whose
segment closes one round before the last round of the region is emitted. `Stands` is what all
three preserve of an answer.

**Stream windows, what is read.** A window reads up to its buffer, to the end of the
stream or to a boundary that closes inside its buffer, and holds what it will read
until it is submitted. `Stops` says what the end of its range is in these three
cases, `Retains` that it holds the rounds of the range that have arrived, or was
given them. Two things could break this. A range may move back under a submitted
window: `QueueInv` says that a window is submitted only when the arrival counter has
reached its end, and closing and sealing move an end only to a round not yet arrived.
And a round may arrive that no window holds yet: `Covered` says that the plan is ahead of the
rounds in transit, so that a window planned late finds its rounds among those to come.
That the counter tells what has arrived is what `OneFile` is for: the rounds in
transit are consecutive. `Reached` is the committed prefix: the end
of the windows that were committed without a gap, so that the ledger can answer up to it.

**Strong requests** (the first part of `SwitchingProofs`). That a cancel takes a job out of the pool needs every live
request to be served by the job of its own window, once, in the queue or in a
slot (`OwnJob`, `PoolShape`); that an escalation finds exactly one carrier needs to
know, before the weak result is in, that a parallel policy has one and the other
policies none (`WindowInv`). `DispatchMoves` is what one pass over the queue does.

**Switching.** The ledger's part is a refinement: every step is a ledger step or
leaves the ledger alone (`LedgerStep`), so `RequestsSound` comes from the ledger's
theorem. `CorrectionsOnce` is a fact about what is scheduled: no window has two
events of a kind (`EventsOk`), a window whose result is in flight is in no set of the
ledger, and a window that still waits has nothing in flight towards the frame
(`EventsInv`, `CommitInv`). When an event happens plays no part, so neither the clock
nor the links occur in the invariant: the theorem holds for every card, and for links that
would reorder. `AuditsAnswered` needs `AuditInv`: a window picked for an audit waits
for a strong result that has not come.

**Magic states, counters.** Every handler ends in the same way: it passes its counters
on, and `Supply` delivers and starts. `SupplyStep` proves that end once, for any
counters and requests that agree with the work that runs; what is left of a handler is
that it changes counter and work alike, for which the states that wait for decodes are
summed by level (`TotalMoves`). That as many states leave the store as operations
are served needs the requests to be distinct and none of them served (`RequestInv`).

**Magic states, demand.** The pull engine loops until a pass starts nothing; the model
takes one pass, and `PassIsEnough` proves that no second one starts anything, with any
number of levels, units, inputs and outputs of a round. A pass that starts `n` rounds
of a level takes `M * n` from the store below and, because running rounds count as
supply, the same from what is needed of that store. So, from the top level down, the
rounds wanted after the pass are those wanted before less those started
(`WantedAfterPass`), and where a level still wants rounds its units or its inputs are
used up. Between two passes demand only falls (a request is withdrawn), and fewer
requests want no more of any level (`StillSettled`). That a waiting request has
work under way is the contrapositive (`SomeLevelWorks`): if no unit is busy, some need
exceeds the store at each level, down to the preparation, which then starts.

### How the proofs are laid out

`SequenceFacts` holds what the proofs need of sequences: elements under `Append`,
`Tail`, cuts, `RemoveAt`, prefixes and concatenation, and an induction over
sequences. The library's induction theorems take an operator parameter, which no
backend here can instantiate; `NatSetInduction` and `SeqInduction` state the same
for a *set* of numbers or sequences (from the well-foundedness of `<`), and a set can
be instantiated. `Subsequences` has `Those(s, S)`, the part of a sequence that lies in a
set, as a recursive function: `SelectSeq` of the standard module has a body the
prover does not expand, so nothing could be proved about it. Each step of an
invariant has a lemma of its own; the last step of a theorem combines them with
propositional temporal logic only.

### What is only model-checked

Liveness under fairness and `ENABLED`, which the prover does not treat. `LinksInOrder`,
whose report folds over the history of transfers. `PlannedDecode`, whose properties
are computations on bits over recursive definitions.
Of `DecoderUnits`, what lies beyond `Shallow`
and `OneLane`. `Control` has no theorem yet (section 6).

## 5. What is not modelled

Numbers: confidence, floating-point decoders and their native libraries, reading a
catalogue out of a stim circuit, sampling, layouts. Wiring, parsing of programs and
reports. Of the modelled parts: `ON_ALLOCATION` packing (only a custom packing
policy selects it: a later round could then complete first, while the release of its
context expects the head of the stream), the reassembly time-out and `FAIL_STOP`
(both end the run), assembly and pricing of payloads, idle-round decode jobs, the
content of a strong answer, the validation of an operation graph, logs, traces and
snapshots. The component notes in `PROJECT.json` give the reason for each.

Two reductions bound what a composition shows. `SyndromeBuffer1`, `StreamWindows`
and `PlannedDecode` see the decoder pools as an order of events; `DecoderUnits`
shows that the pools keep to `DecodeService`, which allows all these orders. And
the stores appear as a round's life (absent, kept, gone), which the store is proved
to implement.

## 6. Plan

1. `ProtocolHolds` of `Control`, handler by handler.
2. The refinement of `DecodeService` at any pipeline depth, with a count of flights.

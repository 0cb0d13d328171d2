------------------------------ MODULE Control ------------------------------
(***************************************************************************)
(* The classical control of the QPU: the execution runtime that starts the *)
(* operations of a program, the controller and its feedback streams, and   *)
(* the QPU's cycle clock, driven by the event engine.                      *)
(*                                                                         *)
(* The handlers call each other (a finished body starts its successors, an *)
(* open boundary retries every ready operation, which activates regions)   *)
(* before control returns to the engine, so a handler is an operator from  *)
(* states to states and an action runs the handler of one event.  The      *)
(* engine's order is the code's: time, then priority, then insertion.      *)
(*                                                                         *)
(* Two things arrive from outside at a time nobody controls: a magic state *)
(* for an operation that asked for one, and the decision that releases a   *)
(* feedback-blocked operation once its source is decoded.  They may arrive *)
(* inside a cycle and in any order with the events of their tick.          *)
(***************************************************************************)
EXTENDS Integers, FiniteSets, Sequences, SequencesExt, FiniteSetsExt

CONSTANTS
  Programs,   \* the programs to run; see ProgramOK for their shape
  Cycle,      \* ticks of a QEC cycle
  MaxWait,    \* ticks an outside answer may take once it can be given
  MaxTick     \* the tick at which a run that has not ended is given up

Never == -1
NoOp  == 0

ASSUME ControlAssumption ==
  /\ Cycle \in Nat \ {0} /\ MaxWait \in Nat /\ MaxTick \in Nat
  /\ \A q \in Programs :
       /\ q.cq \in Nat /\ q.extend \in BOOLEAN
       /\ \A o \in DOMAIN q.ops :
            /\ q.ops[o].preds \subseteq 1..o - 1
            /\ q.ops[o].blockedBy \in 0..o - 1
            /\ q.ops[o].patches # {}

VARIABLES
  prog,   \* the program: ops, protected regions, command latency, idle policy
  s       \* everything the event handlers read and write

vars == <<prog, s>>

Ops     == DOMAIN prog.ops
Op(o)   == prog.ops[o]
Patches == UNION {Op(o).patches : o \in Ops}
Streams == {r.stream : r \in prog.regions} \cup ({Op(o).stream : o \in Ops} \ {0})
Region(st)    == CHOOSE r \in prog.regions : r.stream = st
Protected(st) == \E r \in prog.regions : r.stream = st
Starting(o)   == {r \in prog.regions : r.start = o}
Ending(o)     == {r \in prog.regions : r.end = o}
Sources       == {Op(o).blockedBy : o \in Ops} \ {NoOp}

Raise(t, message) == [t EXCEPT !.error = message]
Fold(f(_, _), t, seq) ==       \* a loop that a raised error ends
  LET after[i \in 0..Len(seq)] ==
        IF i = 0 THEN t
        ELSE LET u == after[i - 1] IN IF u.error = "none" THEN f(u, seq[i]) ELSE u
  IN after[Len(seq)]
Put(f, D, v) == [x \in D |-> v] @@ f
InOrder(S) == SelectSeq([i \in 1..Max(S \cup {0}) |-> i], LAMBDA i : i \in S)

-----------------------------------------------------------------------------
(* The engine *)

\* schedule(): an event `delay` ticks from now.
Schedule(t, delay, priority, kind, arg) ==
  [t EXCEPT !.agenda =
     Append(@, [at |-> t.now + delay, prio |-> priority, kind |-> kind, arg |-> arg])]

Before(e, f) == e.at < f.at \/ (e.at = f.at /\ e.prio < f.prio)

\* The index of the event the engine pops: same-tick events lowest priority
\* first, then in insertion order.
NextIndex(agenda) ==
  CHOOSE i \in DOMAIN agenda :
    \A j \in DOMAIN agenda : ~Before(agenda[j], agenda[i])
                             /\ (j < i => Before(agenda[i], agenda[j]))

NextEvent == s.agenda[NextIndex(s.agenda)]

-----------------------------------------------------------------------------
(* The QPU's cycle clock *)

BoundaryAtOrAfter(tick) == ((tick + Cycle - 1) \div Cycle) * Cycle

Arm(t, boundary) ==
  IF \E i \in DOMAIN t.agenda : t.agenda[i].kind = "tick" /\ t.agenda[i].at = boundary
  THEN t
  ELSE Schedule(t, boundary - t.now, 0, "tick", 0)

QpuIssue(t, o) ==
  Arm([t EXCEPT !.pending = Append(@, o)], BoundaryAtOrAfter(t.now))

-----------------------------------------------------------------------------
(* Feedback streams: starting an operation *)

LivePatches(t, o) == {p \in Op(o).patches : t.active[p] # 0}

BlocksStart(t, o) ==
  \/ \E r \in Starting(o) : t.active[r.patch] # 0
  \/ ~(LivePatches(t, o) \subseteq t.open)

MutScheduleBoundary(t, st) ==  \* skips a cycle
  Schedule([t EXCEPT !.boundary[st] = t.now + 2 * Cycle], 2 * Cycle, 0, "boundary", st)

ScheduleBoundary(t, st) ==
  Schedule([t EXCEPT !.boundary[st] = t.now + Cycle], Cycle, 0, "boundary", st)

\* The operation's starting regions put a live stream on their patches.
Activate(t, o) ==
  IF Op(o).emits /\ (LivePatches(t, o) # {} \/ Starting(o) # {})
  THEN Raise(t, "duplicates protected detector emission")
  ELSE Fold(LAMBDA u, r : ScheduleBoundary([u EXCEPT !.active[r.patch] = r.stream], r.stream),
            t, SetToSeq(Starting(o)))

MutBindSource(t, o, st) ==     \* reads one round further
  [t EXCEPT !.bound[o] = [stream |-> st, offset |-> t.nextRound[st] + 1],
            !.required[st] = Max({@, t.nextRound[st] + 1 + Max({Op(o).rounds, 1})})]

\* A feedback source on a protected stream reads it from its next round on.
BindSource(t, o, st) ==
  [t EXCEPT !.bound[o] = [stream |-> st, offset |-> t.nextRound[st]],
            !.required[st] = Max({@, t.nextRound[st] + Max({Op(o).rounds, 1})})]

\* A segment of an unprotected stream takes the stream's next free rounds.
ReserveRounds(t, o) ==
  LET st == Op(o).stream IN
  IF st = 0 THEN t
  ELSE [t EXCEPT !.bound[o] = [stream |-> st, offset |-> t.nextRound[st]],
                 !.nextRound[st] = @ + Op(o).rounds]

StreamBegin(t, o) ==
  LET sources == IF o \in Sources
                 THEN {t.active[p] : p \in LivePatches(t, o)} \cup {r.stream : r \in Starting(o)}
                 ELSE {}
  IN IF Cardinality(sources) > 1 THEN Raise(t, "spans protected streams")
     ELSE LET u == Activate(t, o)
          IN IF sources = {} THEN ReserveRounds(u, o)
             ELSE BindSource(u, o, CHOOSE st \in sources : TRUE)

-----------------------------------------------------------------------------
(* The execution runtime: readiness *)

\* Only the command of a feedback-blocked operation crosses CQ when it is issued.
IssueOperation(t, o) ==
  LET u == StreamBegin(t, o) IN
  IF Op(o).blockedBy = NoOp THEN QpuIssue(u, o)
  ELSE Schedule(u, prog.cq, 0, "command", o)

CanBegin(t, o) ==
  /\ o \in t.ready \ t.begun
  /\ Op(o).blockedBy # NoOp => o \in t.released
  /\ ~BlocksStart(t, o)

MutMaybeBegin(t, o) ==         \* no provisional stamp: a nested retry issues again
  IF ~CanBegin(t, o) THEN t
  ELSE LET u == IssueOperation([t EXCEPT !.idleDue = Put(@, Op(o).patches, 0)], o)
       IN IF Op(o).blockedBy # NoOp THEN u ELSE [u EXCEPT !.begun = @ \cup {o}]

\* The operation is marked as begun before it is issued; the idle rounds of
\* its patches are taken with it.
MaybeBegin(t, o) ==
  IF ~CanBegin(t, o) THEN t
  ELSE IssueOperation(
         [t EXCEPT !.begun = @ \cup {o},
                   !.idleDue = Put(@, Op(o).patches, 0)], o)

RetryReady(t) == Fold(MaybeBegin, t, InOrder(t.ready))

StateReady(t, o) == MaybeBegin([t EXCEPT !.ready = @ \cup {o}], o)

AwaitState(t, o) ==
  [t EXCEPT !.due = @ \cup {[what |-> "state", op |-> o, by |-> t.now + MaxWait]}]

\* One holder per patch: two operations on it need an edge between them.
Claim(t, o) ==
  IF \E p \in Op(o).patches : t.holder[p] # NoOp
  THEN Raise(t, "no dependency edge between holders")
  ELSE [t EXCEPT !.holder = Put(@, Op(o).patches, o)]

FreeClaims(t, o) == [t EXCEPT !.holder = Put(@, {p \in Patches : @[p] = o}, NoOp)]

\* Claim the patches once predecessors and schedule allow; then wait for the
\* magic state, if the operation needs one.
AttemptStart(t, o) ==
  IF ~(Op(o).preds \subseteq t.done) \/ o \notin t.scheduled \/ o \in t.requested THEN t
  ELSE LET u == [Claim(t, o) EXCEPT !.requested = @ \cup {o}]
       IN IF u.error # "none" THEN u
          ELSE IF Op(o).magic THEN AwaitState(u, o) ELSE StateReady(u, o)

MutOnDecision(t, o) ==         \* records the release and leaves the start to the next boundary
  IF o \in t.released THEN Raise(t, "already released")
  ELSE [t EXCEPT !.released = @ \cup {o}]

\* on_decision(): the release reaches the runtime over OC.
OnDecision(t, o) ==
  IF o \in t.released THEN Raise(t, "already released")
  ELSE MaybeBegin([t EXCEPT !.released = @ \cup {o}], o)

-----------------------------------------------------------------------------
(* The execution runtime: a body is done *)

\* The regions the operation ends must be on their boundary now.
RequestCloses(t, o) ==
  IF \E r \in Ending(o) : t.active[r.patch] # r.stream
  THEN Raise(t, "ended while inactive")
  ELSE IF \E r \in Ending(o) : t.boundary[r.stream] # t.now
  THEN Raise(t, "ended off boundary")
  ELSE [t EXCEPT !.closing = @ \cup {r.stream : r \in Ending(o)}]

WaitingBlockedSuccessor(t, o) ==
  \E b \in Ops : /\ o \in Op(b).preds /\ Op(b).blockedBy # NoOp
                 /\ b \notin t.begun \cup t.released

CloseFeedbackBoundary(t, o) ==
  IF Op(o).closes /\ WaitingBlockedSuccessor(t, o) /\ t.bound[o].stream # 0
  THEN [t EXCEPT !.closedAt[t.bound[o].stream] = t.bound[o].offset + Op(o).rounds]
  ELSE t

\* The workload is complete: the unprotected streams end at their last round.
SealFinished(t) ==
  [t EXCEPT !.sealed = [st \in {x \in Streams : ~Protected(x)} |-> t.nextRound[st]] @@ @]

\* after_successor_release(): with the last body the QPU stops its idle rounds.
AfterSuccessors(t, o) ==
  LET u == CloseFeedbackBoundary(t, o) IN
  IF u.done = Ops THEN [SealFinished(u) EXCEPT !.finished = TRUE] ELSE u

BodyDone(t, o) ==
  LET closed   == RequestCloses([FreeClaims(t, o) EXCEPT !.done = @ \cup {o}], o)
      released == Fold(AttemptStart, closed, InOrder({b \in Ops : o \in Op(b).preds}))
  IN IF released.error # "none" THEN released ELSE AfterSuccessors(released, o)

-----------------------------------------------------------------------------
(* The cycle: rounds of the cycle just ended, then starts *)

Shown(t, ps) == [t EXCEPT !.shown = [p \in ps |-> t.shown[p] + 1] @@ @]

\* The idle policy may give the round to the live stream of the patch's last
\* operation; otherwise it travels as a memory round of that operation.
ExtendLiveStream(t, p) ==
  [t EXCEPT !.nextRound =
     [st \in {x \in {t.bound[t.idle[p]].stream} \cap Streams : prog.extend /\ ~Protected(x)} |->
        t.nextRound[st] + 1] @@ @]

\* A patch on a live protected stream emits through that stream instead.
EmitIdleRound(t, p) ==
  IF t.active[p] # 0 THEN t
  ELSE [Shown(ExtendLiveStream(t, p), {p}) EXCEPT !.idleDue[p] = @ + 1]

\* _body_done(): the patches idle from now on unless something starts on them.
QpuBodyDone(t, o) ==
  BodyDone([t EXCEPT !.idle = Put(@, {p \in Op(o).patches : @[p] = NoOp}, o)], o)

\* `run` is <<operation, rounds done>> in the order of the running bodies.
EmitOperationRound(t, run) ==
  LET o == run[1]
      n == run[2] + 1
      u == IF Op(o).emits THEN Shown(t, Op(o).patches) ELSE t
      Others == SelectSeq(u.running, LAMBDA x : x[1] # o)
  IN IF n = Op(o).rounds THEN QpuBodyDone([u EXCEPT !.running = Others], o)
     ELSE [u EXCEPT !.running = Append(Others, <<o, n>>)]

StartPending(t, o) ==
  LET u == [t EXCEPT !.idle = Put(@, Op(o).patches, NoOp),
                     !.alive = Put(@, {p \in Op(o).patches : @[p] = Never}, t.now)]
  IN IF Op(o).rounds = 0 THEN QpuBodyDone(u, o)
     ELSE [u EXCEPT !.running = Append(@, <<o, 0>>)]

MutTickHandler(t) ==           \* starts before the cycle's rounds are out
  LET started == Fold(StartPending, [t EXCEPT !.pending = <<>>], t.pending)
      rounds  == IF t.now <= t.emitted THEN started
                 ELSE LET u == [started EXCEPT !.emitted = t.now]
                          v == Fold(EmitIdleRound, u, InOrder({p \in Patches : u.idle[p] # NoOp}))
                      IN Fold(EmitOperationRound, v, v.running)
      cleared == IF rounds.finished
                 THEN [rounds EXCEPT !.idle = [p \in Patches |-> NoOp]] ELSE rounds
  IN IF cleared.running # <<>> \/ cleared.pending # <<>> \/ \E p \in Patches : cleared.idle[p] # NoOp
     THEN Arm(cleared, t.now + Cycle) ELSE cleared

TickHandler(t) ==
  LET rounds  == IF t.now <= t.emitted THEN t
                 ELSE LET u == [t EXCEPT !.emitted = t.now]
                          v == Fold(EmitIdleRound, u, InOrder({p \in Patches : u.idle[p] # NoOp}))
                      IN Fold(EmitOperationRound, v, v.running)
      started == Fold(StartPending, [rounds EXCEPT !.pending = <<>>], rounds.pending)
      cleared == IF started.finished
                 THEN [started EXCEPT !.idle = [p \in Patches |-> NoOp]] ELSE started
  IN IF cleared.running # <<>> \/ cleared.pending # <<>> \/ \E p \in Patches : cleared.idle[p] # NoOp
     THEN Arm(cleared, t.now + Cycle) ELSE cleared

-----------------------------------------------------------------------------
(* The protected cycle: boundary, round, seal *)

OpenBoundary(t, st) ==
  LET p == Region(st).patch IN
  IF t.boundary[st] # t.now THEN Raise(t, "boundary tick mismatch")
  ELSE IF p \in t.open THEN Raise(t, "boundary already open")
  ELSE Schedule(RetryReady([t EXCEPT !.open = @ \cup {p}]), 0, 1, "round", st)

ProtectedRound(t, st) ==
  LET p == Region(st).patch
      u == [Shown(t, {p}) EXCEPT !.open = @ \ {p}, !.nextRound[st] = @ + 1,
                                 !.lastRound[st] = t.now]
  IN IF p \notin t.open THEN Raise(t, "boundary is not open")
     ELSE IF st \in t.closing
     THEN Schedule([u EXCEPT !.boundary[st] = Never], 0, 2, "seal", st)
     ELSE ScheduleBoundary(u, st)

Seal(t, st) ==
  IF st \notin t.closing \/ t.boundary[st] # Never \/ t.lastRound[st] # t.now
  THEN Raise(t, "sealed without its final round")
  ELSE RetryReady([t EXCEPT !.sealed[st] = t.nextRound[st],
                            !.active[Region(st).patch] = 0,
                            !.closing = @ \ {st}])

-----------------------------------------------------------------------------
(* The specification *)


\* The source's syndrome is out: all its rounds, or on a protected stream the
\* rounds it needs, which may be out before its body is done.
SourceShown(t, src) ==
  LET b == t.bound[src] IN
  IF b.stream # 0 /\ Protected(b.stream)
  THEN t.nextRound[b.stream] >= b.offset + Max({Op(src).rounds, 1})
  ELSE src \in t.done

\* After every handler: the decisions that can come from now on.
Answerable(t) ==
  LET new == {b \in Ops \ t.asked : Op(b).blockedBy # NoOp /\ SourceShown(t, Op(b).blockedBy)}
  IN [t EXCEPT !.asked = @ \cup new,
               !.due = @ \cup {[what |-> "release", op |-> b, by |-> t.now + MaxWait] : b \in new}]

Running(kind) ==
  /\ s.error = "none" /\ s.agenda # <<>>
  /\ NextEvent.kind = kind /\ NextEvent.at <= MaxTick
  /\ \A d \in s.due : NextEvent.at <= d.by

Popped == [s EXCEPT !.now = NextEvent.at, !.agenda = RemoveAt(@, NextIndex(s.agenda))]

ScheduledRelease ==
  /\ Running("scheduled")
  /\ s' = LET o == NextEvent.arg
          IN Answerable(AttemptStart([Popped EXCEPT !.scheduled = @ \cup {o}], o))
  /\ UNCHANGED prog

CommandArrives ==
  /\ Running("command")
  /\ s' = Answerable(QpuIssue(Popped, NextEvent.arg))
  /\ UNCHANGED prog

Tick ==
  /\ Running("tick")
  /\ s' = Answerable(TickHandler(Popped))
  /\ UNCHANGED prog

ProtectedBoundary ==
  /\ Running("boundary")
  /\ s' = Answerable(OpenBoundary(Popped, NextEvent.arg))
  /\ UNCHANGED prog

EmitProtectedRound ==
  /\ Running("round")
  /\ s' = Answerable(ProtectedRound(Popped, NextEvent.arg))
  /\ UNCHANGED prog

SealProtectedRegion ==
  /\ Running("seal")
  /\ s' = Answerable(Seal(Popped, NextEvent.arg))
  /\ UNCHANGED prog

\* An outside answer may come at any tick up to the next event of the engine,
\* before or after the events of that tick.
OutsideAnswer(what, handler(_, _)) ==
  /\ s.error = "none"
  /\ \E d \in {x \in s.due : x.what = what} : \E tick \in s.now..d.by :
       /\ \A e \in Range(s.agenda) : tick <= e.at
       /\ \A x \in s.due : tick <= x.by
       /\ s' = Answerable(handler([s EXCEPT !.now = tick, !.due = @ \ {d}], d.op))
  /\ UNCHANGED prog

MagicStateArrives == OutsideAnswer("state", StateReady)
DecisionArrives   == OutsideAnswer("release", OnDecision)

\* load_program(): index the program, then try every operation.
Loaded ==
  LET Later == {o \in Ops : Op(o).sched > 0}
      t == [now |-> 0, agenda |-> <<>>, error |-> "none", due |-> {}, asked |-> {},
            scheduled |-> Ops \ Later, requested |-> {}, ready |-> {}, begun |-> {},
            released |-> {}, done |-> {}, holder |-> [p \in Patches |-> NoOp],
            idleDue |-> [p \in Patches |-> 0],
            pending |-> <<>>, running |-> <<>>, idle |-> [p \in Patches |-> NoOp],
            finished |-> FALSE, emitted |-> 0,
            nextRound |-> [st \in Streams |-> 0],
            bound |-> [o \in Ops \cup {NoOp} |-> [stream |-> 0, offset |-> 0]],
            required |-> [st \in Streams |-> 0], closedAt |-> [st \in Streams |-> Never],
            active |-> [p \in Patches |-> 0], boundary |-> [st \in Streams |-> Never],
            open |-> {}, closing |-> {}, lastRound |-> [st \in Streams |-> Never],
            sealed |-> [st \in Streams |-> Never],
            shown |-> [p \in Patches |-> 0], alive |-> [p \in Patches |-> Never]]
      timed == Fold(LAMBDA u, o : Schedule(u, Op(o).sched * Cycle, 0, "scheduled", o),
                    t, InOrder(Later))
  IN Answerable(Fold(AttemptStart, timed, InOrder(Ops)))

Init == prog \in Programs /\ s = Loaded

Next ==
  \/ ScheduledRelease \/ CommandArrives \/ Tick
  \/ ProtectedBoundary \/ EmitProtectedRound \/ SealProtectedRegion
  \/ MagicStateArrives \/ DecisionArrives

\* The engine has an event to pop or an outside answer is still to come; a
\* raised error ends the run.
CanStep == s.error = "none" /\ (s.due # {} \/ (s.agenda # <<>> /\ NextEvent.at <= MaxTick))

\* The engine pops its events until none is left, and every outside answer
\* comes by its bound: weak fairness of Next, whose ENABLED is CanStep.
Fairness == []<>(~CanStep) \/ []<><<Next>>_vars

Spec == Init /\ [][Next]_vars /\ Fairness

-----------------------------------------------------------------------------
(* Properties *)

\* The type invariant: the sets of operations are nested the way the runtime
\* fills them, and the engine holds no event of the past.
TypeOK ==
  /\ s.done \subseteq s.begun /\ s.begun \subseteq s.ready
  /\ s.ready \subseteq s.requested /\ s.requested \subseteq s.scheduled
  /\ s.released \subseteq s.asked
  /\ \A e \in Range(s.agenda) : e.at >= s.now /\ e.prio \in 0..2
  /\ \A p \in Patches : s.active[p] \in Streams \cup {0} /\ s.holder[p] \in Ops \cup {NoOp}
  /\ s.open \subseteq {p \in Patches : s.active[p] # 0}
  /\ s.closing \subseteq Streams

\* No handler of the runtime, the streams or the boundaries raises: a region
\* opens, emits and seals on the ticks of the QPU's cycle whatever the ticks
\* at which states and decisions arrive.
NoProtocolError == s.error = "none"

\* The event list stays in its shape and no handler raises.
ProtocolHolds == TypeOK /\ NoProtocolError

OnQpu == s.pending \o [i \in DOMAIN s.running |-> s.running[i][1]]
InFlight == {e.arg : e \in {x \in Range(s.agenda) : x.kind = "command"}}

\* An operation is issued once, after its predecessors and its release, and
\* no two operations nor an operation and an idle patch share a patch of the
\* QPU: the nested retries of a boundary never issue an operation twice.
StartsOnceAlone ==
  /\ IsInjective(OnQpu) /\ InFlight \cap Range(OnQpu) = {}
  /\ Cardinality(InFlight) = Cardinality({i \in DOMAIN s.agenda : s.agenda[i].kind = "command"})
  /\ \A o \in Range(OnQpu) \cup InFlight :
       /\ Op(o).preds \subseteq s.done /\ o \notin s.done
       /\ Op(o).blockedBy # NoOp => o \in s.released
       /\ \A p \in Op(o).patches : s.holder[p] = o
  /\ \A i \in DOMAIN s.running : \A p \in Op(s.running[i][1]).patches : s.idle[p] = NoOp

\* The tick is over: nothing else happens before the next one.
TickOver == \A e \in Range(s.agenda) : e.at > s.now

\* A patch in use shows one round in every cycle, never none and never two,
\* through every hand-over between operation, idle patch and protected stream.
OneRoundPerCycle ==
  s.error = "none" /\ TickOver /\ ~s.finished =>
    \A p \in Patches : s.alive[p] # Never =>
      s.shown[p] = (s.now \div Cycle) - (s.alive[p] \div Cycle)

\* A region stays open for the rounds a feedback source inside it needs: when
\* the source's tick is over those rounds are out, and the stream is sealed at
\* its last round, never short of them.
RequiredRoundsShown ==
  s.error = "none" =>
    /\ TickOver => \A o \in s.done : s.bound[o].stream # 0 =>
         s.nextRound[s.bound[o].stream] >= s.bound[o].offset + Op(o).rounds
    /\ TickOver => \A st \in Streams : s.closedAt[st] <= s.nextRound[st]
    /\ \A st \in Streams : s.sealed[st] # Never =>
         s.sealed[st] = s.nextRound[st] /\ s.sealed[st] >= s.required[st]

\* Whatever the order of releases, states and boundaries, the program ends:
\* every body done, every region sealed, and no event left in the engine.
ProgramEnds ==
  <>(/\ s.done = Ops /\ s.agenda = <<>>
     /\ \A st \in Streams : s.sealed[st] # Never)
=============================================================================

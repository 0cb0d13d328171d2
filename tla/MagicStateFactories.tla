------------------------ MODULE MagicStateFactories ------------------------
(***************************************************************************)
(* The magic-state supply: a single-level distillation factory and a       *)
(* pull-driven factory of several levels.  An operation requests a state,  *)
(* the factory starts attempts while its counters say that demand is not   *)
(* covered, an attempt that succeeds submits its correction decodes, and   *)
(* the state goes to the oldest request once they are all back.            *)
(*                                                                         *)
(* Demand is recomputed from counters after every event: a state counted   *)
(* twice leaves a request waiting for ever, one not counted is made in     *)
(* excess.  Attempts, decodes and return trips end in any order.           *)
(***************************************************************************)
EXTENDS Integers, FiniteSets, Sequences, SequencesExt

CONSTANTS
  NumOps,       \* operations that need a magic state, named in the order they ask
  Factories,    \* the factories to check, see FactoryAssumption
  MaxFailures   \* failed attempts of a run

\* A factory: one of two designs; what it keeps in stock beyond the requests
\* (0 is production on demand); units of each level (level 0 prepares inputs,
\* the single-level design has none); inputs and outputs of a round;
\* correction decodes of a state; states in store at the start.
FactoryAssumption ==
  \A f \in Factories :
    /\ f.multi \in BOOLEAN /\ f.stock \in Nat /\ f.M \in Nat \ {0} /\ f.N \in Nat \ {0}
    /\ f.units \in [0..f.top -> Nat \ {0}] /\ f.top \in Nat \ {0}
    /\ f.corr \in Nat /\ f.initial \in Nat
    /\ ~f.multi => f.top = 1 /\ f.N = 1
ASSUME SupplyAssumption ==
  NumOps \in Nat /\ MaxFailures \in Nat /\ FactoryAssumption

VARIABLES
  fac,         \* the factory
  asked,       \* operations that have requested a state
  waiting,     \* their requests that wait, oldest first
  served,      \* operations that got their state
  withdrawn,   \* operations whose request was cancelled
  off,         \* shutdown() was called
  buffer,      \* states in store, by level
  busy,        \* the counter of busy units, by level
  inFlight,    \* single level: states between their attempt and the store
  making,      \* attempts in their physical time, by level
  correcting,  \* states by level and by correction decodes still out
  returning,   \* single level: states on the return trip
  produced,    \* states that entered the top store
  failures

vars == <<fac, asked, waiting, served, withdrawn, off, buffer, busy, inFlight, making, correcting,
          returning, produced, failures>>

Ops    == 1..NumOps
Top    == fac.top
Levels == 0..Top
Decodes == 1..fac.corr

\* The counters the handlers pass on: a handler ends with Supply, which
\* delivers what is in store and starts what the demand asks for.
Counters == [buffer |-> buffer, busy |-> busy, inFlight |-> inFlight, making |-> making]

-----------------------------------------------------------------------------
(* Single level *)

\* _maybe_start(): the busy units after starting attempts while demand is
\* unmet or the pipeline is below its stock.
SingleBusy(c, requests) ==
  LET demand   == requests - c.inFlight
      stocking == IF fac.stock = 0 THEN 0
                  ELSE fac.stock + requests - c.buffer[1] - c.inFlight
  IN Max({c.busy[1], Min({fac.units[1], Max({demand, stocking})})})

SingleStart(c, requests) ==
  LET b == SingleBusy(c, requests) IN
  [c EXCEPT !.busy[1] = b, !.making[1] = @ + b - c.busy[1]]

-----------------------------------------------------------------------------
(* Several levels *)

CeilDiv(a, b) == (a + b - 1) \div b
Positive(n) == Max({0, n})

\* Rounds a level must still start to cover what is needed from it.
RoundsWanted(c, level, need) ==
  CeilDiv(Positive(need - c.buffer[level] - c.busy[level] * fac.N), fac.N)

MutNeed(c, requests) ==        \* the inputs of a level do not count its running rounds
  LET need[level \in Levels] ==
        IF level = Top THEN requests + fac.stock
        ELSE fac.M * CeilDiv(Positive(need[level + 1] - c.buffer[level + 1]), fac.N)
  IN need

\* _pull_demand(): what each level must supply, from the top down.
Need(c, requests) ==
  LET need[level \in Levels] ==
        IF level = Top THEN requests + fac.stock
        ELSE fac.M * RoundsWanted(c, level + 1, need[level + 1])
  IN need

\* The preparations and the rounds that one pass of _drive starts.
Starts(c, requests) ==
  LET need == Need(c, requests) IN
  [level \in Levels |->
     IF level = 0
     THEN Positive(Min({need[0] - c.buffer[0] - c.busy[0], fac.units[0] - c.busy[0]}))
     ELSE Min({RoundsWanted(c, level, need[level]), fac.units[level] - c.busy[level],
               c.buffer[level - 1] \div fac.M})]

\* One pass reaches what the loop of _drive stops at; see PassIsEnough.
MultiStart(c, requests) ==
  LET n == Starts(c, requests) IN
  [c EXCEPT !.busy   = [level \in Levels |-> @[level] + n[level]],
            !.making = [level \in Levels |-> @[level] + n[level]],
            !.buffer = [level \in Levels |->
                          @[level] - IF level = Top THEN 0 ELSE fac.M * n[level + 1]]]

-----------------------------------------------------------------------------
(* Supply *)

Start(c, requests) == IF fac.multi THEN MultiStart(c, requests) ELSE SingleStart(c, requests)

\* Deliver from the top store to the oldest requests, then start work.  After
\* shutdown() the multi-level factory does neither.
Supply(c, requests) ==
  LET n     == IF off' /\ fac.multi THEN 0 ELSE Min({Len(requests), c.buffer[Top]})
      given == [c EXCEPT !.buffer[Top] = @ - n]
      after == IF off' THEN given ELSE Start(given, Len(requests) - n)
  IN /\ waiting' = SubSeq(requests, n + 1, Len(requests))
     /\ served' = served \cup {requests[i] : i \in 1..n}
     /\ buffer' = after.buffer /\ busy' = after.busy
     /\ inFlight' = after.inFlight /\ making' = after.making

Init ==
  /\ fac \in Factories
  /\ asked = {} /\ waiting = <<>> /\ served = {} /\ withdrawn = {} /\ off = FALSE
  /\ correcting = [level \in Levels |-> [n \in Decodes |-> 0]]
  /\ returning = 0 /\ produced = 0 /\ failures = 0 /\ inFlight = 0
  /\ LET zero == [level \in Levels |-> 0]
         c == Start([buffer |-> [zero EXCEPT ![Top] = fac.initial], busy |-> zero,
                     inFlight |-> 0, making |-> zero], 0)
         first == IF fac.stock = 0
                  THEN [c EXCEPT !.busy = zero, !.making = zero] ELSE c
     IN buffer = first.buffer /\ busy = first.busy /\ making = first.making

Request(o) ==
  /\ o = Cardinality(asked) + 1 /\ ~off
  /\ asked' = asked \cup {o}
  /\ UNCHANGED <<fac, withdrawn, off, correcting, returning, produced, failures>>
  /\ Supply(Counters, Append(waiting, o))

\* An undelivered request is withdrawn; the order of the rest is kept.
Cancel(o) ==
  /\ \E i \in DOMAIN waiting : waiting[i] = o
  /\ waiting' = RemoveFirst(waiting, o)
  /\ withdrawn' = withdrawn \cup {o}
  /\ UNCHANGED <<fac, asked, served, off, buffer, busy, inFlight, making, correcting,
                 returning, produced, failures>>

\* The workload is complete: every operation asked and none waits.
Shutdown ==
  /\ asked = Ops /\ waiting = <<>> /\ ~off
  /\ off' = TRUE
  /\ UNCHANGED <<fac, asked, waiting, served, withdrawn, buffer, busy, inFlight, making,
                 correcting, returning, produced, failures>>

Fails(ok) == failures' = failures + IF ok THEN 0 ELSE 1

\* Single level: the attempt frees its unit; a state goes to correction.
AttemptDone(ok) ==
  /\ ~fac.multi /\ making[1] > 0 /\ (ok \/ failures < MaxFailures)
  /\ Fails(ok)
  /\ LET c == [Counters EXCEPT !.busy[1] = @ - 1, !.making[1] = @ - 1,
                               !.inFlight = @ + IF ok THEN 1 ELSE 0]
     IN /\ UNCHANGED <<fac, asked, withdrawn, off, produced>>
        /\ correcting' = IF ok /\ fac.corr > 0
                         THEN [correcting EXCEPT ![1][fac.corr] = @ + 1] ELSE correcting
        /\ returning' = returning + IF ok /\ fac.corr = 0 THEN 1 ELSE 0
        /\ Supply(c, waiting)

\* Single level: one correction decode is back; the last sends the state home.
StateCorrected(n) ==
  /\ ~fac.multi /\ correcting[1][n] > 0
  /\ correcting' = IF n = 1 THEN [correcting EXCEPT ![1][1] = @ - 1]
                   ELSE [correcting EXCEPT ![1][n] = @ - 1, ![1][n - 1] = @ + 1]
  /\ returning' = returning + IF n = 1 THEN 1 ELSE 0
  /\ UNCHANGED <<fac, asked, waiting, served, withdrawn, off, buffer, busy, inFlight, making, produced,
                 failures>>

MutRelease ==                  \* the state stays in flight after it is in store
  /\ returning > 0
  /\ returning' = returning - 1 /\ produced' = produced + 1
  /\ UNCHANGED <<fac, asked, withdrawn, off, correcting, failures>>
  /\ Supply([Counters EXCEPT !.buffer[1] = @ + 1], waiting)

Release ==
  /\ returning > 0
  /\ returning' = returning - 1 /\ produced' = produced + 1
  /\ UNCHANGED <<fac, asked, withdrawn, off, correcting, failures>>
  /\ Supply([Counters EXCEPT !.inFlight = @ - 1, !.buffer[1] = @ + 1], waiting)

\* Several levels: an input state is prepared, or its preparation failed.
PrepDone(ok) ==
  /\ fac.multi /\ making[0] > 0 /\ (ok \/ failures < MaxFailures)
  /\ Fails(ok)
  /\ UNCHANGED <<fac, asked, withdrawn, off, correcting, returning, produced>>
  /\ Supply([Counters EXCEPT !.busy[0] = @ - 1, !.making[0] = @ - 1,
                             !.buffer[0] = @ + IF ok THEN 1 ELSE 0], waiting)

MutFinishRound(c, level, ok) ==   \* a failed round keeps its unit
  /\ Fails(ok)
  /\ produced' = produced + IF ok /\ level = Top THEN fac.N ELSE 0
  /\ Supply([c EXCEPT !.busy[level] = @ - IF ok THEN 1 ELSE 0,
                      !.buffer[level] = @ + IF ok THEN fac.N ELSE 0], waiting)

\* The round gives its unit back and stores its states, or they are discarded.
FinishRound(c, level, ok) ==
  /\ Fails(ok)
  /\ produced' = produced + IF ok /\ level = Top THEN fac.N ELSE 0
  /\ Supply([c EXCEPT !.busy[level] = @ - 1,
                      !.buffer[level] = @ + IF ok THEN fac.N ELSE 0], waiting)

\* Several levels: the physical time of a round is over; its corrections are
\* submitted, or without corrections the round is finished.
PhysDone(level, ok) ==
  /\ fac.multi /\ making[level] > 0 /\ (ok \/ failures < MaxFailures)
  /\ UNCHANGED <<fac, asked, withdrawn, off, returning>>
  /\ LET c == [Counters EXCEPT !.making[level] = @ - 1] IN
     IF fac.corr = 0
     THEN FinishRound(c, level, ok) /\ UNCHANGED correcting
     ELSE /\ ok
          /\ correcting' = [correcting EXCEPT ![level][fac.corr] = @ + 1]
          /\ making' = c.making
          /\ UNCHANGED <<waiting, served, buffer, busy, inFlight, produced, failures>>

\* Several levels: one correction decode of a round is back.
CorrDone(level, n, ok) ==
  /\ fac.multi /\ correcting[level][n] > 0 /\ (ok \/ failures < MaxFailures)
  /\ UNCHANGED <<fac, asked, withdrawn, off, returning>>
  /\ IF n = 1
     THEN /\ correcting' = [correcting EXCEPT ![level][1] = @ - 1]
          /\ FinishRound(Counters, level, ok)
     ELSE /\ ok
          /\ correcting' = [correcting EXCEPT ![level][n] = @ - 1, ![level][n - 1] = @ + 1]
          /\ UNCHANGED <<waiting, served, buffer, busy, inFlight, making, produced, failures>>

Work ==
  \/ Release
  \/ \E n \in Decodes : StateCorrected(n)
  \/ \E ok \in BOOLEAN :
       \/ AttemptDone(ok) \/ PrepDone(ok)
       \/ \E level \in 1..Top : PhysDone(level, ok) \/ \E n \in Decodes : CorrDone(level, n, ok)

Next == Work \/ Shutdown \/ \E o \in Ops : Request(o) \/ Cancel(o)

CanWork ==
  \/ returning > 0
  \/ \E level \in Levels : making[level] > 0 \/ \E n \in Decodes : correcting[level][n] > 0

\* Every attempt, decode and trip that runs ends: weak fairness of Work, whose
\* ENABLED is CanWork.  At most MaxFailures of them fail.
Fairness == []<>(~CanWork) \/ []<><<Work>>_vars

Spec == Init /\ [][Next]_vars /\ Fairness

-----------------------------------------------------------------------------
(* Properties *)

\* The type invariant.
TypeOK ==
  /\ fac \in Factories /\ asked \subseteq Ops /\ served \subseteq asked
  /\ \A i \in DOMAIN waiting : waiting[i] \in asked \ served
  /\ \A level \in Levels : buffer[level] \in Nat /\ making[level] \in Nat
                           /\ busy[level] \in 0..fac.units[level]
  /\ returning \in Nat /\ inFlight \in Nat /\ failures \in 0..MaxFailures

\* The sum of f over 1..n.
Total(f, n) ==
  LET sum[i \in 0..n] == IF i = 0 THEN 0 ELSE sum[i - 1] + f[i]
  IN sum[n]

\* The states of a level that wait for correction decodes.
Correcting(level) == Total(correcting[level], fac.corr)

\* The counters demand is computed from agree with the work that runs: a unit
\* is busy exactly while its attempt runs, a state is in flight exactly until
\* it is in store, every state made is in store or was delivered, and no
\* request is lost.
CountersExact ==
  /\ IF fac.multi
     THEN \A level \in Levels : busy[level] = making[level] + Correcting(level)
     ELSE busy[1] = making[1] /\ inFlight = Correcting(1) + returning
  /\ buffer[Top] + Cardinality(served) = fac.initial + produced
  /\ asked = served \cup withdrawn \cup {waiting[i] : i \in DOMAIN waiting}

\* The same with the ranges of the counters: no unit count goes negative.
CountersSound == TypeOK /\ CountersExact

\* A request that waits has work under way for it, as much as the units allow:
\* neither an empty store with idle units nor a full store beside a request.
\* One more pass of the pull engine starts nothing.
DemandHasWork ==
  ~off =>
    /\ waiting # <<>> => buffer[Top] = 0
    /\ IF fac.multi
       THEN /\ waiting # <<>> => \E level \in Levels : busy[level] > 0
            /\ \A level \in Levels : Starts(Counters, Len(waiting))[level] = 0
       ELSE Min({fac.units[1], Len(waiting)}) <= busy[1] + inFlight

\* In the end no request waits: every operation that asked has its state or
\* withdrew, and a factory that was shut down comes to rest.
EveryRequestServed ==
  <>[](waiting = <<>> /\ (off => ~CanWork))
=============================================================================

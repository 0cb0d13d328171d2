--------------------------- MODULE PlannedDecode ---------------------------
(***************************************************************************)
(* The windows of planned operations from the first round to the result:   *)
(* a window ships to its decoder when its rounds are in, its decode waits  *)
(* for the boundaries of the windows before it, the answer keeps the       *)
(* faults the window owns and hands their effect on, and the ledger of     *)
(* committed rounds gathers the prediction of the operation.  A window may *)
(* escalate: in serial mode its boundary is held until the strong answer,  *)
(* in double mode the strong window takes over the windows behind it and   *)
(* the chain restarts past it.  Decode units and links are abstracted to   *)
(* an order; weak results reach the frame in the order they were decoded.  *)
(***************************************************************************)
EXTENDS UnionFind, DetectorFormation

CONSTANTS None, Configs

VARIABLES c,          \* the run: scheme, mode, F, B, rounds, error model
          shot,       \* its error model, its raw packets and what they mean
          arrived,    \* rounds in, per operation
          formed,     \* detection events formed from the packets that are in
          ring,       \* rounds whose packets the former still has
          win,        \* the windows, by key
          mail,       \* boundaries on their way
          outbox,     \* weak results on their way to the frame
          heldBack,   \* windows whose boundary waits for the strong answer
          pending,    \* strong windows waiting for their far boundary or tail
          strong,     \* strong requests: none, submitted, landed, done
          owed,       \* windows committed without a final result
          hold, freed,  \* the room-side store: what each window keeps, what is gone
          leaked,     \* withdrawn decodes whose rounds stay in the weak store
          ledger,     \* contributions, by window
          result,     \* what was delivered, per operation
          failed      \* the error that ended the run
vars == <<c, shot, arrived, formed, ring, win, mail, outbox, heldBack, pending, strong, owed,
          hold, freed, leaked, ledger, result, failed>>
runVars == <<c, shot, formed, ring>>

Accepted(x) ==
  /\ BufferAccepted(x.scheme, x.F, x.B, x.leading, x.trailing, x.justified)
  /\ RunAccepted(x.scheme, x.mode, Len(x.rounds), x.F, x.B, x.keepup)
  /\ x.source # None => SourceAccepted(x.source, x.rounds[1])

Plans(x) == [o \in DOMAIN x.rounds |-> Plan(x.scheme, x.rounds[o], x.F, x.B)]
AllKeys == DOMAIN win
Operations == DOMAIN c.rounds
Dependents(k) == {j \in AllKeys : k \in Needs(Plans(c), j)}
Switched(x) == x.mode # "weak"

(* One shot of a finite source: its measurements flipped by some faults.   *)
Shot(x, faults) ==
  LET n == x.rounds[1]
  IN  IF x.source = None THEN [catalog |-> <<>>, table |-> None, bits |-> {}, events |-> {}]
      ELSE LET catalog == Catalog(x.source, n, x.flips)
           IN  [catalog |-> catalog, table |-> FormationTable(x.source, n),
                bits |-> Packets(x.source, n, SymDiff(x.source.reference, Effect(x.flips, faults))),
                events |-> Effect(catalog, faults)]

PlannedWindow(x, catalog, k) ==
  LET plan == Plans(x)[k[1]]
  IN  [geo |-> WindowOf(Plans(x), k), extent |-> WindowOf(Plans(x), k),
       model |-> PlannedModel(plan, catalog, k[2]), st |-> "waiting",
       deps |-> Needs(Plans(x), k), folded |-> {}, fixed |-> {}]

Init ==
  /\ c \in {x \in Configs : Accepted(x)}
  /\ shot \in {Shot(c, faults) : faults \in c.errors}
  /\ formed = {} /\ ring = {}
  /\ arrived = [o \in Operations |-> 0]
  /\ win = [k \in Keys(Plans(c)) |-> PlannedWindow(c, shot.catalog, k)]
  /\ mail = {} /\ outbox = <<>> /\ heldBack = {} /\ pending = {} /\ owed = {} /\ freed = {} /\ leaked = {}
  /\ strong = [k \in AllKeys |-> "none"]
  /\ hold = [k \in AllKeys |->
               LET p == Potential(win[k].geo, c.rounds[k[1]], c.mode = "double")
               IN  IF Switched(c) THEN ReadKeys(c.rounds, k[1], p.lo, p.hi) ELSE {}]
  /\ ledger = [k \in AllKeys |-> None]
  /\ result = [o \in Operations |-> None]
  /\ failed = None

Running == failed = None
Fail(reason) ==
  failed' = reason /\ UNCHANGED <<runVars, arrived, win, mail, outbox, heldBack, pending,
                                  strong, owed, hold, freed, leaked, ledger, result>>

(* The room-side store forgets an arrived round when nothing keeps it.     *)
Stored == {<<o, r>> \in Operations \X (1 .. Max({c.rounds[o] : o \in Operations})) : r <= arrived[o]}
Kept == UNION {hold[k] : k \in AllKeys}
Forget == freed' = freed \cup (Stored \ Kept)'

-----------------------------------------------------------------------------
(* Readiness.                                                              *)

HasData(k, rounds) ==
  LET next == {k[1] + 1} \cap Operations
  IN  DataComplete(win[k].geo.bhi, rounds[k[1]], c.rounds[k[1]],
                   {[arrived |-> rounds[o], count |-> c.rounds[o]] : o \in next}, 0, FALSE)

(* A strong window of double mode is registered under its own key and      *)
(* waits under the key of its restart window or, with none, for its tail.  *)
Registered(k) == \E p \in pending : p.key = k
Waiting(k) == {p \in pending : p.restart = k}

\* Terminal strong windows whose clamped tail is in.
TailReady(p, rounds) == p.restart = None /\ rounds[p.key[1]] >= p.chi
Submit(ready) ==
  /\ pending' = pending \ ready
  /\ strong' = [k \in AllKeys |-> IF \E p \in ready : p.key = k THEN "submitted" ELSE strong[k]]

(* The packet of a round goes through the former, if its source has one.   *)
Unformable(o, r) ==
  shot.table # None /\ ~Formable(shot.table, c.rounds[o], FeedPacket(shot.table, ring, r), r)
FormRound(o, r) ==
  IF shot.table = None THEN UNCHANGED <<formed, ring>>
  ELSE /\ ring' = FeedPacket(shot.table, ring, r)
       /\ formed' = formed \cup Formed(shot.table, r, shot.bits)

(* A round is in: strong windows that waited for the tail are submitted,   *)
(* and every window that now has its data ships to its decoder, whether    *)
(* its boundaries are in or not.                                           *)
Store(o) ==
  /\ arrived' = [arrived EXCEPT ![o] = @ + 1]
  /\ FormRound(o, arrived[o] + 1)
  /\ win' = [k \in AllKeys |->
               IF win[k].st = "waiting" /\ k[1] \in {o - 1, o} /\ HasData(k, arrived')
               THEN [win[k] EXCEPT !.st = "queued"] ELSE win[k]]
  /\ Submit({p \in pending : TailReady(p, arrived')})
  /\ UNCHANGED <<c, shot, mail, outbox, heldBack, owed, hold, ledger, result, leaked, failed>>
  /\ Forget
Arrive(o) ==
  /\ Running /\ arrived[o] < c.rounds[o]
  /\ o > 1 => arrived[o - 1] = c.rounds[o - 1]
  /\ IF Unformable(o, arrived[o] + 1) THEN Fail("formation") ELSE Store(o)

-----------------------------------------------------------------------------
(* Boundaries.  One that crosses operations moves by the rounds of its     *)
(* source; inside an operation detectors keep their identity.              *)

MapDefects(m) ==
  LET moved == {<<d[1] - c.rounds[m.from[1]], d[2]>> : d \in m.defects}
      geo   == win[m.to].geo
  IN  IF m.from[1] = m.to[1] THEN m.defects \cap win[m.to].model.rows
      ELSE {d \in moved : geo.blo <= d[1] /\ d[1] <= geo.bhi}

\* The mask a window's input is read under: every source's last contribution.
Mask(folded) ==
  {d \in UNION {m.defects : m \in folded} : Odd({m \in folded : d \in m.defects})}

\* What window k ships when the faults in fixed are its correction.
Letters(k, fixed) ==
  {[from |-> k, to |-> j, defects |-> Effect(shot.catalog, fixed)] :
     j \in {j \in Dependents(k) : win[j].st # "absorbed"}}

MutReceive(m) ==
  /\ Running /\ m \in mail /\ mail' = mail \ {m}
  /\ win' = [win EXCEPT ![m.to].deps = @ \ {m.from},
                        ![m.to].folded = {[from |-> m.from, defects |-> MapDefects(m)]}]
  /\ UNCHANGED <<runVars, arrived, outbox, heldBack, pending, strong, owed, hold, freed,
                 ledger, result, leaked, failed>>
Receive(m) ==
  /\ Running /\ m \in mail /\ mail' = mail \ {m}
  /\ win' = [win EXCEPT ![m.to].deps = @ \ {m.from},
                        ![m.to].folded = {x \in @ : x.from # m.from}
                                         \cup {[from |-> m.from, defects |-> MapDefects(m)]}]
  /\ UNCHANGED <<runVars, arrived, outbox, heldBack, pending, strong, owed, hold, freed,
                 ledger, result, leaked, failed>>

-----------------------------------------------------------------------------
(* The weak decode.                                                        *)

Input(k) == SymDiff(formed \cap win[k].model.rows, Mask(win[k].folded))
Explains(k, S) == Effect(shot.catalog, S) \cap win[k].model.rows = Input(k)

(* What a decoder may select: union-find its own answer, any other backend *)
(* whatever explains its input; nothing, when nothing does.                *)
Answers(k) ==
  LET exact == {S \in SUBSET win[k].model.cols : Explains(k, S)}
  IN  IF c.backend = "union_find"
      THEN {UnionFindDecode(shot.catalog, win[k].model.rows, win[k].model.cols, c.len,
                            c.likely \cap win[k].model.cols, Input(k))}
      ELSE [selected : IF exact = {} THEN {{}} ELSE exact, ordered : {TRUE}]

CanDecode(k) == win[k].st = "queued" /\ win[k].deps = {}

(* A final answer: the boundary leaves at once, the result goes to the     *)
(* frame.                                                                  *)
Decode(k) ==
  /\ Running /\ CanDecode(k)
  /\ \E answer \in Answers(k) :
       LET fixed == answer.selected \cap win[k].model.owned
       IN  IF ~answer.ordered THEN Fail("growth")
           ELSE /\ mail' = mail \cup Letters(k, fixed)
                /\ win' = [win EXCEPT ![k].st = "decoded", ![k].fixed = fixed]
                /\ outbox' = Append(outbox, k)
                /\ UNCHANGED <<runVars, arrived, heldBack, pending, strong, owed, hold, freed,
                               ledger, result, leaked, failed>>

-----------------------------------------------------------------------------
(* Commits.                                                                *)

Contribution(geo, kind, by) == [lo |-> geo.lo, hi |-> geo.hi, kind |-> kind, by |-> by]
Overlaps(x, y) == x.lo <= y.hi /\ y.lo <= x.hi
OwnersOf(o) == {k \in AllKeys : k[1] = o /\ ledger[k] # None}

(* An operation is delivered when all its windows are committed, none owes *)
(* a strong answer and no store keeps a round of it.                       *)
MutFinishable(o) ==
  /\ \A k \in AllKeys : k[1] = o => win[k].st \in {"committed", "absorbed"}
  /\ \A k \in leaked : k[1] # o
  /\ \A k \in AllKeys : \A id \in hold[k] : id[1] # o
Finishable(o) ==
  /\ \A k \in AllKeys : k[1] = o => win[k].st \in {"committed", "absorbed"}
  /\ \A k \in owed \cup leaked : k[1] # o
  /\ \A k \in AllKeys : \A id \in hold[k] : id[1] # o
Gathered(o) == {ledger[k] : k \in OwnersOf(o)}
FinishOperation(o) ==
  result' = IF result[o] = None /\ Finishable(o)' THEN [result EXCEPT ![o] = Gathered(o)'] ELSE result

(* The result is in the frame: the window owns its commit rounds, its      *)
(* rounds are let go, and a strong window that waited for this boundary is *)
(* submitted.                                                              *)
MutCommit(k) ==
  /\ Running /\ outbox # <<>> /\ k = Head(outbox)
  /\ outbox' = Tail(outbox)
  /\ win' = [win EXCEPT ![k].st = "committed"]
  /\ ledger' = [ledger EXCEPT ![k] = Contribution(win[k].geo, "ordinary_window", "weak")]
  /\ hold' = [hold EXCEPT ![k] = {}]
  /\ UNCHANGED <<runVars, arrived, mail, heldBack, pending, strong, owed, leaked, failed>>
  /\ Forget
  /\ FinishOperation(k[1])
Commit(k) ==
  /\ Running /\ outbox # <<>> /\ k = Head(outbox)
  /\ outbox' = Tail(outbox)
  /\ win' = [win EXCEPT ![k].st = "committed"]
  /\ ledger' = [ledger EXCEPT ![k] = Contribution(win[k].geo, "ordinary_window", "weak")]
  /\ hold' = [hold EXCEPT ![k] = {}]
  /\ Submit(Waiting(k))
  /\ UNCHANGED <<runVars, arrived, mail, heldBack, owed, leaked, failed>>
  /\ Forget
  /\ FinishOperation(k[1])

-----------------------------------------------------------------------------
(* Escalation in serial mode: a provisional commit, the boundary held, and *)
(* a strong job over the commit region with a buffer of context around it. *)

Missing(ids) == ids \cap Stored \cap freed
StrongModel(region, clo, chi) ==
  SingleModel(shot.catalog, clo, region.lo, region.hi, Least(chi, c.rounds[1]))

\* The restart window keeps every column; the faults that touch the strong
\* window are not its to commit.
RestartModel(geo, strongHi) ==
  SingleModel(shot.catalog, geo.blo, strongHi + 1, geo.hi, Least(geo.bhi, c.rounds[1]))

EscalateSerial(k) ==
  LET p == Potential(win[k].geo, c.rounds[k[1]], FALSE)
  IN  /\ Running /\ c.mode = "serial" /\ CanDecode(k)
      /\ IF Missing(ReadKeys(c.rounds, k[1], p.lo, p.hi)) # {} THEN Fail("context")
         ELSE /\ win' = [win EXCEPT ![k].st = "committed",
                                   ![k].model = StrongModel(win[k].geo, p.lo, p.hi)]
              /\ ledger' = [ledger EXCEPT ![k] = Contribution(win[k].geo, "ordinary_window", "weak")]
              /\ owed' = owed \cup {k} /\ heldBack' = heldBack \cup {k}
              /\ strong' = [strong EXCEPT ![k] = "submitted"]
              /\ UNCHANGED <<runVars, arrived, mail, outbox, pending, hold, freed, result, leaked, failed>>

-----------------------------------------------------------------------------
(* Escalation in double mode.                                              *)

Region(k) == StrongRegion(win[k].geo, c.rounds[k[1]])
Later(k) == {j \in AllKeys : j[1] = k[1] /\ j[2] > k[2]}
Absorbed(k) == {j \in Later(k) : win[j].geo.hi <= Region(k).hi}
Crossing(k) == {j \in Later(k) \ Absorbed(k) : win[j].geo.lo <= Region(k).hi}
Restart(k) ==
  LET beyond == {j \in Later(k) : win[j].geo.lo > Region(k).hi}
  IN  IF beyond = {} THEN None ELSE CHOOSE j \in beyond : \A i \in beyond : j[2] <= i[2]
Context(k) == ReadKeys(c.rounds, k[1], Region(k).clo, Region(k).chi)

\* The weak store still has the seam rounds the restart window will read: a
\* covered window keeps them that has not shipped, or whose decode is taken
\* out of the ready queue and leaves its hold behind (those in left).
SeamKept(k, left) ==
  \A r \in Region(k).restartLo .. Least(Region(k).hi, arrived[k[1]]) :
    \E j \in Absorbed(k) : /\ win[j].st = "waiting" \/ j \in left
                           /\ win[j].geo.blo <= r /\ r <= win[j].geo.bhi

\* The restart window reads across the seam and keeps context from there.
Restarted(k) == [win[Restart(k)].geo EXCEPT !.blo = Region(k).restartLo]
RestartKeeps(k) ==
  LET g == Restarted(k)
      p == Potential(g, c.rounds[k[1]], FALSE)
  IN  ReadKeys(c.rounds, k[1], Least(g.blo, p.lo), Most(g.bhi, p.hi))

\* What the code refuses, in its order; "crossing", "seam" and "shipped" are
\* its documented limits, the others are broken promises of its own.
Refusals(k, left) ==
  LET r == Restart(k)
      live == (DOMAIN ledger) \ ({k} \cup Absorbed(k))
  IN  <<<<"duplicate", ledger[k] # None \/ Registered(k)>>,
        <<"crossing", Crossing(k) # {}>>,
        <<"decoded", \E j \in Absorbed(k) : win[j].st \notin {"waiting", "queued"}>>,
        <<"gap", r # None /\ win[r].geo.lo # Region(k).hi + 1>>,
        <<"context", Missing(Context(k)) # {}>>,
        <<"seam", r # None /\ ~SeamKept(k, left)>>,
        <<"collision", Waiting(r) # {}>>,
        <<"overlap", \E j \in live : ledger[j] # None /\ Overlaps(ledger[j], Region(k))>>,
        <<"shipped", r # None /\ win[r].st # "waiting">>,
        <<"cover", \E j \in Absorbed(k) :
                     ~(hold[j] \subseteq Context(k) \cup IF r = None THEN {} ELSE hold[r])>>>>
Refused(k, left) == {i \in DOMAIN Refusals(k, left) : Refusals(k, left)[i][2]}

TakeOver(k) ==
  [j \in AllKeys |->
     CASE j = k ->
            [win[k] EXCEPT !.st = "committed", !.extent = [@ EXCEPT !.hi = Region(k).hi],
                           !.model = StrongModel(Region(k), Region(k).clo, Region(k).chi)]
       [] j \in Absorbed(k) -> [win[j] EXCEPT !.st = "absorbed"]
       [] j = Restart(k) ->
            [win[j] EXCEPT !.geo = Restarted(k), !.deps = @ \ Absorbed(k),
                           !.model = RestartModel(Restarted(k), Region(k).hi)]
       [] OTHER -> win[j]]

(* The strong window takes over the windows it covers, which are counted   *)
(* as committed; the strong job waits for the restart window's commit, or  *)
(* for the tail of the operation; the weak boundary leaves for whoever is  *)
(* left, and a strong window that waited for this one is submitted.        *)
EscalateDouble(k) ==
  /\ Running /\ c.mode = "double" /\ CanDecode(k)
  /\ \E left \in SUBSET {j \in Absorbed(k) : win[j].st = "queued"} :
     IF Refused(k, left) # {} THEN Fail(Refusals(k, left)[Min(Refused(k, left))][1])
     ELSE LET own == [key |-> k, restart |-> Restart(k), chi |-> Region(k).chi]
              all == pending \cup {own}
              ready == Waiting(k) \cup {p \in all : TailReady(p, arrived)}
          IN  /\ win' = TakeOver(k)
              /\ ledger' = [j \in AllKeys |->
                               IF j = k THEN Contribution(Region(k), "strong_window", None)
                               ELSE IF j \in Absorbed(k) THEN None ELSE ledger[j]]
              /\ hold' = [j \in AllKeys |->
                             IF j = k THEN Context(k)
                             ELSE IF j \in Absorbed(k) THEN {}
                             ELSE IF j = Restart(k) THEN RestartKeeps(k) ELSE hold[j]]
              /\ pending' = all \ ready
              /\ strong' = [j \in AllKeys |->
                               IF \E p \in ready : p.key = j THEN "submitted" ELSE strong[j]]
              /\ mail' = mail \cup {[from |-> k, to |-> j, defects |-> {}] :
                                      j \in Dependents(k) \ Absorbed(k)}
              /\ owed' = owed \cup {k} /\ leaked' = leaked \cup left
              /\ UNCHANGED <<runVars, arrived, outbox, heldBack, result, failed>>
              /\ Forget

-----------------------------------------------------------------------------
(* The strong request.  Its input leaves the store when it is landed; its  *)
(* answer replaces the prediction and lets a held boundary go.             *)

Land(k) ==
  /\ Running /\ strong[k] = "submitted"
  /\ strong' = [strong EXCEPT ![k] = "landed"]
  /\ hold' = [hold EXCEPT ![k] = {}]
  /\ UNCHANGED <<runVars, arrived, win, mail, outbox, heldBack, pending, owed, ledger, result, leaked, failed>>
  /\ Forget

StrongDone(k) ==
  /\ Running /\ strong[k] = "landed"
  /\ strong' = [strong EXCEPT ![k] = "done"]
  /\ ledger' = [ledger EXCEPT ![k].by = "strong"]
  /\ owed' = owed \ {k} /\ heldBack' = heldBack \ {k}
  /\ mail' = mail \cup (IF k \in heldBack THEN Letters(k, {}) ELSE {})
  /\ UNCHANGED <<runVars, arrived, win, outbox, pending, hold, freed, leaked, failed>>
  /\ FinishOperation(k[1])

Next ==
  \/ \E o \in Operations : Arrive(o)
  \/ \E m \in mail : Receive(m)
  \/ \E k \in AllKeys : \/ Commit(k) \/ Decode(k) \/ EscalateSerial(k) \/ EscalateDouble(k)
                         \/ Land(k) \/ StrongDone(k)
Spec == Init /\ [][Next]_vars
CanStep ==
  Running /\ \/ mail # {} \/ outbox # <<>>
             \/ \E o \in Operations : arrived[o] < c.rounds[o]
             \/ \E k \in AllKeys : CanDecode(k) \/ strong[k] \in {"submitted", "landed"}
\* The run goes on while anything can: links, decoders and the cycle clock
\* deliver what they took.
FairSpec == Spec /\ ([]<><<Next>>_vars \/ <>[]~CanStep)

-----------------------------------------------------------------------------
Delivered == \A o \in Operations : result[o] # None
Committers == {k \in AllKeys : win[k].st # "absorbed"}

(* However the windows were planned, and whatever a strong window took     *)
(* over since, every round and every fault of an operation has exactly one *)
(* window that commits it; a window with closed temporal boundaries cuts   *)
(* no fault, and a sandwich keeps its contract.                            *)
PlanSound ==
  /\ \A o \in Operations : Tiles({win[k].extent : k \in {j \in Committers : j[1] = o}}, 1, c.rounds[o])
  /\ \A f \in DOMAIN shot.catalog : Cardinality({k \in Committers : f \in win[k].model.owned}) = 1
  /\ \A o \in Operations : /\ ClosedRespected(Plans(c)[o], shot.catalog)
                           /\ c.scheme = "sandwich" => SandwichContract(Plans(c)[o])

(* No two contributions of an operation ever overlap, and what is          *)
(* delivered tiles the operation, each part by the tier that owes it.      *)
LedgerSound ==
  /\ \A o \in Operations : \A j, k \in OwnersOf(o) : j # k => ~Overlaps(ledger[j], ledger[k])
  /\ \A o \in Operations :
       result[o] # None =>
         /\ Tiles(result[o], 1, c.rounds[o])
         /\ \A k \in OwnersOf(o) : ledger[k].by = IF strong[k] = "none" THEN "weak" ELSE "strong"
         /\ result[o] = Gathered(o)

(* The events formed packet by packet are those of the shot, and windows   *)
(* decoded apart, in any order the dependencies allow, together explain    *)
(* every detector that fired.                                              *)
SyndromeCancelled ==
  /\ shot.table # None => formed = {d \in shot.events : Round(d) <= arrived[1]}
  /\ Delivered /\ c.mode = "weak" =>
       shot.events = Effect(shot.catalog, UNION {win[k].fixed : k \in AllKeys})

(* A take-over ends the run only for one of its documented limits, and a   *)
(* strong job leaves with every round of its context.                      *)
NoInternalError ==
  /\ failed \in {None, "crossing", "seam", "shipped"}
  /\ \A k \in AllKeys : strong[k] = "submitted" => hold[k] \subseteq Stored

(* Every operation is delivered, unless the run was refused or a decode    *)
(* that was withdrawn keeps rounds of it for ever.                         *)
OperationsFinish == <>(Delivered \/ failed # None \/ leaked # {})
=============================================================================

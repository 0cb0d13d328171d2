-------------------------- MODULE SyndromeBuffer1 --------------------------
(***************************************************************************)
(* Syndrome buffer 1 (decsim/syndrome_buffer/syndrome_buffer_1.py) among   *)
(* the parts that use it: rounds are written to it over the csb hop in     *)
(* parallel with their Buffer 0 publication, a window's possible strong    *)
(* decode claims its context from the start (window_manager.py), and the   *)
(* operation is retired when nothing can refer to it any more.             *)
(*                                                                         *)
(* The store underneath is a SyndromeBuffer; here it is the promise of     *)
(* RoundRetention: a round is absent, kept, then gone.  Serial switching   *)
(* with held boundaries, or no lag and any order of outcomes.              *)
(***************************************************************************)
EXTENDS Integers, Sequences, FiniteSets, FiniteSetsExt, SequencesExt

CONSTANTS
  Ops,         \* operations
  Length,      \* operation -> its rounds
  Windows,
  OpOf,        \* window -> operation
  Reads,       \* window -> rounds its weak decode reads
  Context,     \* window -> rounds its strong decode would read
  Deps,        \* window -> windows whose boundary it needs
  Capacity,    \* rounds the store may hold, or Unbounded
  Unbounded,
  Lag          \* the csb hop takes time

Rounds == UNION {{<<op, k>> : k \in 1 .. Length[op]} : op \in Ops}

ASSUME RoomAssumption ==
  /\ Length \in [Ops -> Nat \ {0}]
  /\ OpOf \in [Windows -> Ops]
  /\ Reads \in [Windows -> SUBSET Rounds]
  /\ Context \in [Windows -> SUBSET Rounds]
  /\ \A w \in Windows : Reads[w] \subseteq Context[w]
  /\ Deps \in [Windows -> SUBSET Windows]
  /\ Lag \in BOOLEAN
  /\ Capacity # Unbounded => Capacity \in Nat

VARIABLES
  written,     \* op -> rounds written so far (_written, in index order)
  inFlight,    \* rounds crossing the csb, in order
  room,        \* round -> "absent", "kept" or "gone" (the store)
  landed,      \* rounds_arrived of syndrome buffer 1
  arrived,     \* rounds_arrived of the window manager (Buffer 0)
  life,        \* where a window is
  wdo,         \* final weak results on their way home, in order
  closed       \* _finished_ops

vars == <<written, inFlight, room, landed, arrived, life, wdo, closed>>

\* planned: waits for its weak decode.  final: the weak result is final and
\* on its way.  strong: its context is claimed by a strong decode.  redone:
\* the strong input is in decoder memory.  committed: the final result is in.
Lives == {"planned", "final", "strong", "redone", "committed"}

Init ==
  /\ written = [op \in Ops |-> 0]
  /\ inFlight = <<>>
  /\ room = [r \in Rounds |-> "absent"]
  /\ landed = [op \in Ops |-> 0]
  /\ arrived = [op \in Ops |-> 0]
  /\ life = [w \in Windows |-> "planned"]
  /\ wdo = <<>>
  /\ closed = {}

\* The windows whose hold in the store is live.
Claiming(lf) == {w \in Windows : lf[w] \in {"planned", "final", "strong"}}
Claimed(r, lf) == \E w \in Claiming(lf) : r \in Context[w]

Kept == {r \in Rounds : room[r] = "kept"}

-----------------------------------------------------------------------------
(* Rounds *)

\* _store: a round that nobody claims any more is dropped at the door.
Stored(r) == IF Claimed(r, life) THEN "kept" ELSE "gone"
\* The arrival counter of the operation is the highest index stored.
Arrival(n, k) == IF n < k THEN k ELSE n
Store(r) ==
  /\ r[1] \notin closed
  /\ room[r] = "absent"
  /\ room' = [room EXCEPT ![r] = Stored(r)]
  /\ landed' = [landed EXCEPT ![r[1]] = Arrival(@, r[2])]

\* write: refused, and the run stopped, when the rounds stored and in flight
\* fill the store.
MutHasRoom == Capacity # Unbounded => Cardinality(Kept) + 1 <= Capacity
HasRoom ==
  Capacity # Unbounded => Cardinality(Kept) + Len(inFlight) + 1 <= Capacity

Write(op) ==
  LET r == <<op, written[op] + 1>>
  IN /\ written[op] < Length[op]
     /\ op \notin closed
     /\ HasRoom
     /\ written' = [written EXCEPT ![op] = @ + 1]
     /\ IF Lag
        THEN inFlight' = Append(inFlight, r) /\ UNCHANGED <<room, landed>>
        ELSE Store(r) /\ UNCHANGED inFlight
     /\ UNCHANGED <<arrived, life, wdo, closed>>

\* The csb delivers in order.
MutNextLanding == Len(inFlight)
NextLanding == 1
Land ==
  /\ inFlight # <<>>
  /\ Store(inFlight[NextLanding])
  /\ inFlight' = RemoveAt(inFlight, NextLanding)
  /\ UNCHANGED <<written, arrived, life, wdo, closed>>

\* The packed round reaches the window manager.
Publish(op) ==
  /\ arrived[op] < written[op]
  /\ arrived' = [arrived EXCEPT ![op] = @ + 1]
  /\ UNCHANGED <<written, inFlight, room, landed, life, wdo, closed>>

-----------------------------------------------------------------------------
(* Retirement *)

\* has_live_operation_reference, of this store and of Buffer 0.
Referenced(op, lf) ==
  \E w \in Windows : \/ lf[w] = "planned" /\ \E r \in Reads[w] : r[1] = op
                     \/ w \in Claiming(lf) /\ \E r \in Context[w] : r[1] = op

MutMayFinish(op, lf) == op \notin closed /\ ~Referenced(op, lf)
\* The hold let go only after the check.
MutMayFinishEarly(op, lf) ==
  /\ op \notin closed
  /\ \A w \in Windows : OpOf[w] = op => lf[w] = "committed"
  /\ ~Referenced(op, life)
\* _finish_operation_if_ready, with no strong redo pending.
MayFinish(op, lf) ==
  /\ op \notin closed
  /\ \A w \in Windows : OpOf[w] = op => lf[w] = "committed"
  /\ ~Referenced(op, lf)

\* The rounds released when the claims of lf are all that is left.
Released(lf) ==
  [r \in Rounds |-> IF room[r] = "kept" /\ ~Claimed(r, lf) THEN "gone"
                    ELSE room[r]]

\* Window w moves on; its operation is retired if that was the last thing.
MoveOn(w, s, retires) ==
  LET lf == [life EXCEPT ![w] = s]
  IN /\ life' = lf
     /\ room' = Released(lf)
     /\ closed' = IF retires /\ MayFinish(OpOf[w], lf)
                  THEN closed \cup {OpOf[w]} ELSE closed

-----------------------------------------------------------------------------
(* Windows *)

\* The boundary of w was handed on: with its final result.
Final(w) == life[w] \in {"final", "committed"}

Ready(w) ==
  /\ life[w] = "planned"
  /\ \A r \in Reads[w] : r[2] <= arrived[r[1]]
  /\ \A d \in Deps[w] : Final(d)

\* The weak result is final (on_decode_done) and leaves on the output link.
WeakFinal(w) ==
  /\ Ready(w)
  /\ life' = [life EXCEPT ![w] = "final"]
  /\ wdo' = Append(wdo, w)
  /\ UNCHANGED <<written, inFlight, room, landed, arrived, closed>>

\* _commit_decode_done: the possible strong decode lets go of its context.
CommitFinal ==
  /\ wdo # <<>>
  /\ wdo' = Tail(wdo)
  /\ MoveOn(Head(wdo), "committed", TRUE)
  /\ UNCHANGED <<written, inFlight, landed, arrived>>

\* make_strong_decode_job: the context must be stored (an absent round of it
\* stops the run); the claim passes to the strong decode.
Escalate(w) ==
  /\ Ready(w)
  /\ Context[w] \subseteq Kept
  /\ MoveOn(w, "strong", FALSE)
  /\ UNCHANGED <<written, inFlight, landed, arrived, wdo>>

\* The strong input has crossed to decoder memory; its hold is released.
StrongLanded(w) ==
  /\ life[w] = "strong"
  /\ MoveOn(w, "redone", FALSE)
  /\ UNCHANGED <<written, inFlight, landed, arrived, wdo>>

\* _finish_strong_commit
StrongCommit(w) ==
  /\ life[w] = "redone"
  /\ MoveOn(w, "committed", TRUE)
  /\ UNCHANGED <<written, inFlight, landed, arrived, wdo>>

Next ==
  \/ \E op \in Ops : Write(op) \/ Publish(op)
  \/ Land
  \/ CommitFinal
  \/ \E w \in Windows : WeakFinal(w) \/ Escalate(w) \/ StrongLanded(w)
                        \/ StrongCommit(w)

\* The device emits every declared round, links deliver, decodes end.
Fairness ==
  /\ \A op \in Ops : WF_vars(Write(op)) /\ WF_vars(Publish(op))
  /\ WF_vars(Land) /\ WF_vars(CommitFinal)
  /\ \A w \in Windows : /\ WF_vars(WeakFinal(w) \/ Escalate(w))
                        /\ WF_vars(StrongLanded(w)) /\ WF_vars(StrongCommit(w))

Spec == Init /\ [][Next]_vars /\ Fairness

-----------------------------------------------------------------------------
(* Type *)

\* The shape of the counters and tables.
TypeOK ==
  /\ \A op \in Ops : /\ landed[op] <= written[op]
                     /\ arrived[op] <= written[op] /\ written[op] <= Length[op]
  /\ ToSet(inFlight) \subseteq Rounds
  /\ room \in [Rounds -> {"absent", "kept", "gone"}]
  /\ life \in [Windows -> Lives]
  /\ ToSet(wdo) \subseteq Windows
  /\ closed \subseteq Ops

(* Safety *)

\* A landing is never refused: the write has counted every round that was
\* already on its way ("refuse before mutation").
LandingHasSlot ==
  Capacity # Unbounded => Cardinality(Kept) + Len(inFlight) <= Capacity

\* The arrival counter of the store is a gate one may trust: a round at or
\* below it that somebody still claims is there to be read.
GateIsSound ==
  \A w \in Claiming(life) : \A r \in Context[w] :
    r[2] <= landed[r[1]] => room[r] = "kept"

\* Nothing lingers: a round is kept only while a consumer may read it.
KeptIsClaimed == \A r \in Kept : Claimed(r, life)

\* Whatever crosses the csb has room where it lands, and whatever landed has a
\* reader.
RoomSound == TypeOK /\ LandingHasSlot /\ KeptIsClaimed

\* An operation is retired only when its rounds left the store for good and
\* its windows are final.
RetiredIsFinal ==
  \A op \in closed :
    /\ \A r \in Kept : r[1] # op
    /\ \A w \in Windows : OpOf[w] = op => life[w] = "committed"

\* A round still crossing the csb finds its operation open ("a round whose
\* every reader resolved while it crossed the csb is dropped at the door").
CrossingFindsOperation == \A i \in DOMAIN inFlight : inFlight[i][1] \notin closed

(* Liveness *)

CommitsInOrder ==
  \A w \in Windows : \A d \in Deps[w] :
    life[w] = "committed" => life[d] = "committed"

\* Every operation is retired and its result delivered ("Deliver an op result
\* once every window is committed").
EveryOperationRetires == \A op \in Ops : <>(op \in closed)

\* The same for runs that no late round stops and whose commits keep to the
\* order of the windows: the last commit of an operation's windows then finds
\* no claim of another operation's window on its rounds.
OrderlyRetires ==
  [](CrossingFindsOperation /\ CommitsInOrder) => EveryOperationRetires

=============================================================================

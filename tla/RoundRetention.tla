--------------------------- MODULE RoundRetention ---------------------------
(***************************************************************************)
(* What a round store promises its clients, whatever its slots, tables and *)
(* tombstones do.  A round is absent, then kept, then gone for good; it is *)
(* never gone under a claim, and a kept round goes with its last claim.    *)
(***************************************************************************)
CONSTANTS Rounds, Holders

VARIABLES
  status,   \* absent, kept or gone
  claims    \* the consumers whose hold names the round

Init ==
  /\ status = [r \in Rounds |-> "absent"]
  /\ claims = [r \in Rounds |-> {}]

\* A finished round is taken in.
Store(r) ==
  /\ status[r] = "absent"
  /\ status' = [status EXCEPT ![r] = "kept"]
  /\ UNCHANGED claims

\* Consumers claim, hand over and drop rounds.  Nobody claims a gone round,
\* and a kept round whose claims all end goes with them.
Reclaim ==
  /\ claims' \in [Rounds -> SUBSET Holders]
  /\ \A r \in Rounds : status[r] = "gone" => claims'[r] = {}
  /\ status' = [r \in Rounds |->
                  IF status[r] = "kept" /\ claims[r] # {} /\ claims'[r] = {}
                  THEN "gone" ELSE status[r]]

\* A kept round nobody claims is dropped.
Discard(r) ==
  /\ status[r] = "kept"
  /\ claims[r] = {}
  /\ status' = [status EXCEPT ![r] = "gone"]
  /\ UNCHANGED claims

\* Rounds that never arrived can no longer arrive.
Retire(S) ==
  /\ \A r \in S : status[r] # "kept" /\ claims[r] = {}
  /\ status' = [r \in Rounds |-> IF r \in S THEN "gone" ELSE status[r]]
  /\ UNCHANGED claims

Next ==
  \/ \E r \in Rounds : Store(r) \/ Discard(r)
  \/ \E S \in SUBSET Rounds : Retire(S)
  \/ Reclaim

Spec == Init /\ [][Next]_<<status, claims>>

=============================================================================

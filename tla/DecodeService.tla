---------------------------- MODULE DecodeService ----------------------------
(***************************************************************************)
(* What the decoder pools promise whoever submits decodes, whatever slots, *)
(* claims and parking do: a decode runs at most once, only after the       *)
(* decodes it depends on are over, and no more decodes run in a pool than  *)
(* it has units.                                                           *)
(***************************************************************************)
EXTENDS Integers, FiniteSets

CONSTANTS
  Jobs,
  Needs,      \* job -> the jobs that must be over before it runs
  PoolOf,     \* job -> pool
  Width       \* pool -> decodes that may run at once

VARIABLE status   \* none, waiting, running, decoded or dropped

Init == status = [j \in Jobs |-> "none"]

\* The ways one job may move in a step.
Moves == {<<"none", "waiting">>, <<"none", "dropped">>,
          <<"waiting", "running">>, <<"waiting", "dropped">>,
          <<"running", "decoded">>, <<"running", "dropped">>}

\* Some jobs move; one decode may end and another begin in one step.
Turn ==
  /\ status' \in [Jobs -> {"none", "waiting", "running", "decoded", "dropped"}]
  /\ \A j \in Jobs :
       status'[j] # status[j] => <<status[j], status'[j]>> \in Moves
  /\ \A j \in Jobs : status[j] = "waiting" /\ status'[j] = "running" =>
       \A k \in Needs[j] : status[k] \in {"decoded", "dropped"}
  /\ \A j \in Jobs :
       Cardinality({k \in Jobs : PoolOf[k] = PoolOf[j] /\ status'[k] = "running"})
         <= Width[PoolOf[j]]

Spec == Init /\ [][Turn]_status

=============================================================================

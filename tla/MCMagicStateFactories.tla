----------------------- MODULE MCMagicStateFactories -----------------------
(***************************************************************************)
(* Factories of both designs for three operations: fewer units than        *)
(* requests and more, on demand and stocked, with and without corrections, *)
(* and two levels with rounds of one and of two outputs.                   *)
(***************************************************************************)
EXTENDS MagicStateFactories, TLC

Single(units, stock, corr, initial) ==
  [multi |-> FALSE, top |-> 1, units |-> (0 :> 1 @@ 1 :> units), stock |-> stock,
   M |-> 1, N |-> 1, corr |-> corr, initial |-> initial]
Multi(top, units, stock, M, N, corr) ==
  [multi |-> TRUE, top |-> top, units |-> [level \in 0..top |-> units], stock |-> stock,
   M |-> M, N |-> N, corr |-> corr, initial |-> 0]

MCFactories ==
  {Single(units, stock, corr, initial) :
     units \in 1..2, stock \in 0..1, corr \in {0, 2}, initial \in 0..1}
  \cup {Multi(1, units, stock, 2, N, corr) : units \in 1..2, stock \in 0..1, N \in 1..2, corr \in {0, 2}}
  \cup {Multi(2, units, 0, 2, N, 1) : units \in 1..2, N \in 1..2}
=============================================================================

----------------------------- MODULE Subsequences -----------------------------
(***************************************************************************)
(* The part of a sequence that lies in a set, as a recursive function: the *)
(* provers can unfold it, which they cannot do with SelectSeq.             *)
(***************************************************************************)
EXTENDS Integers, Sequences

\* The elements of s that are in S, in their order.
Those(s, S) ==
  LET kept[n \in 0 .. Len(s)] ==
        IF n = 0 THEN <<>>
        ELSE IF s[n] \in S THEN Append(kept[n - 1], s[n])
        ELSE kept[n - 1]
  IN  kept[Len(s)]

=============================================================================

------------------------- MODULE MCSyndromeBuffer1 -------------------------
(* TLC instances of SyndromeBuffer1: two operations in sequence, decoded    *)
(* with two commit rounds and one buffer round.  The last window of the     *)
(* first reads the first round of the second.                               *)
EXTENDS SyndromeBuffer1, TLC

CONSTANTS a, b, a1, a2, b1

TwoOps == {a, b}
MCWindows == {a1, a2, b1}
MCLength == (a :> 4) @@ (b :> 2)
MCOpOf == (a1 :> a) @@ (a2 :> a) @@ (b1 :> b)
MCReads == (a1 :> {<<a, 1>>, <<a, 2>>, <<a, 3>>})
           @@ (a2 :> {<<a, 3>>, <<a, 4>>, <<b, 1>>})
           @@ (b1 :> {<<b, 1>>, <<b, 2>>})
MCContext == [MCReads EXCEPT ![a2] = @ \cup {<<a, 2>>}]
MCDeps == (a1 :> {}) @@ (a2 :> {a1}) @@ (b1 :> {a2})

=============================================================================

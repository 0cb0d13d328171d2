-------------------------- MODULE MCSyndromeBuffer --------------------------
(* TLC instance of SyndromeBuffer: two operations, three rounds. *)
EXTENDS SyndromeBuffer, TLC

CONSTANTS a, b, a1, a2, b1, h1, h2, g

MCOps == {a, b}
MCRounds == {a1, a2, b1}
MCOpOf == (a1 :> a) @@ (a2 :> a) @@ (b1 :> b)
MCHolders == {h1, h2, g}
\* g is a RephaseGuard of a request of operation b
MCGuardOps == (h1 :> {}) @@ (h2 :> {}) @@ (g :> {b})

Symm == Permutations({a1, a2}) \cup Permutations({h1, h2})

=============================================================================

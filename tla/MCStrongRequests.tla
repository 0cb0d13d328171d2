-------------------------- MODULE MCStrongRequests --------------------------
(* TLC instances of StrongRequests: interchangeable windows.                *)
EXTENDS StrongRequests, TLC

Symmetry == Permutations(Windows)

=============================================================================

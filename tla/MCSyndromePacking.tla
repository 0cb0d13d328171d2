------------------------- MODULE MCSyndromePacking -------------------------
(* TLC instances of SyndromePacking: a stream whose rounds come in two      *)
(* fragments, an operation with single-fragment rounds and an idle patch.   *)
EXTENDS SyndromePacking, TLC

CONSTANTS s, u, m

MCStreams == {s, u}
MCMemories == {m}
MCLength == (s :> 2) @@ (u :> 1) @@ (m :> 1)
MCSlots == (s :> 2) @@ (u :> 1) @@ (m :> 1)

=============================================================================

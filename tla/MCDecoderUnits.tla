--------------------------- MODULE MCDecoderUnits ---------------------------
(* TLC instances of DecoderUnits: a seam that reads both its neighbours, a  *)
(* chain of windows, and independent patches that share a unit.             *)
EXTENDS DecoderUnits, TLC

CONSTANTS w1, w2, w3, w4, s1, s2, x, wk, sp

MCPools == <<wk, sp>>
OneUnit == (wk :> 1) @@ (sp :> 1)
NoCapacity == (wk :> Unbounded) @@ (sp :> Unbounded)
NoPipeline == (wk :> 0) @@ (sp :> 0)
ShallowPipeline == (wk :> 1) @@ (sp :> 0)
WeakPipeline == (wk :> 2) @@ (sp :> 0)
ThreeAndOne == (wk :> 3) @@ (sp :> 1)
ThreeEach == (wk :> 3) @@ (sp :> 3)

AllWindows == {w1, w2, w3, w4}
ThreeWindows == {w1, w2, w3}

\* Tan's sandwich: two blocks and the seam between them, then a dependent.
SeamDeps == (w1 :> {}) @@ (w2 :> {}) @@ (w3 :> {w1, w2}) @@ (w4 :> {w3})
\* A chain beside a window of another patch.
LongPatchDeps == (w1 :> {}) @@ (w2 :> {w1}) @@ (w3 :> {w2}) @@ (w4 :> {})
PatchDeps == (w1 :> {}) @@ (w2 :> {w1}) @@ (w3 :> {})
EmptyChain == <<>>
PatchChain == <<w1, w2>>
LongChain == <<w1, w2, w3>>

MCPoolOf == [j \in Jobs |-> IF j \in Strongs THEN sp ELSE wk]
MCDemand == [j \in Jobs |-> IF j \in Externals THEN 0 ELSE 1]
\* The seam reads two rounds, every other window one.
MixedDemand == [MCDemand EXCEPT ![w3] = 2]
\* The last window of the chain reads three rounds.
LongDemand == [MCDemand EXCEPT ![w3] = 3]
NoStrong == [w \in Windows |-> None]
OuterStrong == [w \in Windows |-> IF w = w1 THEN s1
                                  ELSE IF w = w4 THEN s2 ELSE None]
FirstStrong == [w \in Windows |-> IF w = w1 THEN s1 ELSE None]

=============================================================================

------------------------- MODULE MCPushLifecycle ---------------------------
EXTENDS PushClaims, PushRefinement, TLC

Symmetry == Permutations(Skus)
=============================================================================

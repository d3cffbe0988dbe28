---------------------------- MODULE MCPullThrough ----------------------------
EXTENDS PullThrough, TLC

CONSTANTS r1, r2, r3, ni, nar, zip

MCNarOf == ni :> nar
Symmetry == Permutations(Reqs)
=============================================================================

---------------------------- MODULE MCGradleCache ----------------------------
EXTENDS GradleCache

CONSTANTS p1, p2, p3, g1, g2
=============================================================================

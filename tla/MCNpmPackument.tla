---------------------------- MODULE MCNpmPackument ----------------------------
EXTENDS NpmPackument

CONSTANTS r1, r2
=============================================================================

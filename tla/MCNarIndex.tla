------------------------------ MODULE MCNarIndex ------------------------------
(* A URL's two records differ in size; the largest record of the second    *)
(* URL does not fit, its other one takes all of the memory.                *)
EXTENDS NarIndex, TLC

CONSTANTS o1, o2, r1, r2, u1, u2, h1, h2

Announced == [url: {u1, u2}, hash: {h1, h2}]
Sizes == [rec \in Announced |-> (IF rec.url = u1 THEN 1 ELSE 2) + (IF rec.hash = h1 THEN 0 ELSE 1)]
Symmetry == Permutations({o1, o2})
=============================================================================

-------------------------- MODULE MCReviewedIndex --------------------------
(* A small instance of ReviewedIndex: two documents, the second of which may *)
(* hold the same passage as the first.                                       *)
EXTENDS ReviewedIndex, TLC
CONSTANTS d1, d2
MCOrder == <<d1, d2>>
\* The passages are interchangeable.
Passages == Permutations(Texts)
=============================================================================

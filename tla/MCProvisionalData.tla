------------------------- MODULE MCProvisionalData -------------------------
(* A small instance of ProvisionalData: two documents that may share a      *)
(* passage.                                                                 *)
EXTENDS ProvisionalData, TLC
CONSTANTS d1, d2
MCOrder == <<d1, d2>>
\* The passages are interchangeable.
Pages == Permutations(Texts)
=============================================================================

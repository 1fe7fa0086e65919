---------------------------- MODULE MCWebClient -----------------------------
(* WebClient for TLC: requests are interchangeable, and so are sessions. *)
EXTENDS WebClient, TLC

Symmetry == Permutations(Requests) \cup Permutations(SessionIds)
=============================================================================

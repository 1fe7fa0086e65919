--------------------------- MODULE MCDemoJourney ----------------------------
(* DemoJourney for TLC, with interchangeable requests. *)
EXTENDS DemoJourney, TLC

Symmetry == Permutations(Requests)
=============================================================================

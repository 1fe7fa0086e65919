---------------------------- MODULE MCChatServer ----------------------------
(***************************************************************************)
(* Instances of ChatServer for TLC.  Requests are interchangeable, and so  *)
(* are chunks; session ids are not, because none is issued twice.          *)
(***************************************************************************)
EXTENDS ChatServer, TLC

Symmetry == Permutations(Requests) \cup Permutations(Chunks)
=============================================================================

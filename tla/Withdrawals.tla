---------------------------- MODULE Withdrawals ----------------------------
(***************************************************************************)
(* What a corpus that can lose documents promises, with no file in sight:  *)
(* a document that has been withdrawn is not used by any answer whose      *)
(* search begins afterwards, until it is reinstated.                       *)
(*                                                                         *)
(* Two modules implement it.  In ProvisionalData a document is withdrawn   *)
(* by a removal that reached its log entry; in ReviewedIndex by a prepare  *)
(* that finished without it.                                               *)
(***************************************************************************)
CONSTANTS Documents,  \* the documents of the corpus
          NoSearch    \* the value of permitted while no search runs

VARIABLES withdrawn,  \* documents that may not be used
          permitted,  \* documents the search in progress may use, or NoSearch
          answer      \* a document the last answer rests on, or NoSearch

vars == <<withdrawn, permitted, answer>>

Init == withdrawn = {} /\ permitted = NoSearch /\ answer = NoSearch

\* Documents are withdrawn, reinstated, or both at once.
Revise == withdrawn' \in SUBSET Documents /\ UNCHANGED <<permitted, answer>>

BeginSearch == /\ permitted = NoSearch
               /\ permitted' = Documents \ withdrawn
               /\ UNCHANGED <<withdrawn, answer>>

Answer == /\ permitted # NoSearch
          /\ answer' \in permitted
          /\ permitted' = NoSearch
          /\ UNCHANGED withdrawn

Abandon == permitted' = NoSearch /\ UNCHANGED <<withdrawn, answer>>

Next == Revise \/ BeginSearch \/ Answer \/ Abandon

Spec == Init /\ [][Next]_vars
=============================================================================

--------------------------------- MODULE Lists ---------------------------------
(***************************************************************************)
(* Selecting from sequences, and sorting them.  What is selected is given  *)
(* by a set, of elements or of places, and an order by the weights of the  *)
(* places.                                                                 *)
(***************************************************************************)
EXTENDS Naturals, FiniteSets, Sequences, SequencesExt

\* The elements at the places kept, in their order.
Pick(s, kept) ==
    LET picked[n \in 0 .. Len(s)] ==
            IF n = 0 THEN <<>>
            ELSE IF n \in kept THEN Append(picked[n - 1], s[n])
            ELSE picked[n - 1]
    IN  picked[Len(s)]

Keep(s, S) == Pick(s, {i \in DOMAIN s : s[i] \in S})
Dedup(s) == Pick(s, {i \in DOMAIN s : \A j \in 1 .. i - 1 : s[j] # s[i]})
UpTo(s, n) == SubSeq(s, 1, IF Len(s) < n THEN Len(s) ELSE n)

\* The heaviest first; equal weights stay in their order.
Inserted(order, weight, n) ==
    InsertAt(order, 1 + Cardinality({j \in DOMAIN order : weight[order[j]] >= weight[n]}), n)
HeaviestFirst(s, weight) ==
    LET order[n \in 0 .. Len(s)] ==
            IF n = 0 THEN <<>> ELSE Inserted(order[n - 1], weight, n)
    IN  [k \in DOMAIN s |-> s[order[Len(s)][k]]]
===============================================================================

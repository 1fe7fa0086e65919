---------------------------- MODULE MCCollection ----------------------------
(* A small instance of the candidate lane: three sources, one of each kind of *)
(* worker, two publishers, four pages, p3 in the protected baseline.            *)
EXTENDS CandidateCampaign, TLC
CONSTANTS h, b, j, p1, p2, p3, p4

MCSourceOf == p1 :> h @@ p2 :> h @@ p3 :> b @@ p4 :> j
MCListing == h :> <<p1, p2>> @@ b :> <<p3>> @@ j :> <<p4>>
MCGrade == p1 :> "full" @@ p2 :> "marked" @@ p3 :> "full" @@ p4 :> "short"
MCBody == p1 :> "t1" @@ p2 :> "t2" @@ p3 :> "t3" @@ p4 :> "t2"
MCStyle == h :> "host" @@ b :> "bulk" @@ j :> "json"
MCFamily == h :> "f1" @@ b :> "f2" @@ j :> "f2"
MCStageLimit == "discovery" :> 1 @@ "detail" :> 1
MCShare == [n \in 0..(MaxRuns * Cardinality(Pages)) |-> IF n <= 2 THEN 1 ELSE 2]
=============================================================================

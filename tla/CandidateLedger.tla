-------------------------- MODULE CandidateLedger --------------------------
(***************************************************************************)
(* What candidates.jsonl promises to those who review candidates, whatever *)
(* collector wrote it and however it ended: rows are only ever appended,   *)
(* the rows of a run appear together (a round2 run adds them in growing    *)
(* portions), and a page is accepted once.                                 *)
(***************************************************************************)
EXTENDS Naturals, Sequences, SequencesExt

VARIABLE ledger

Accepted(row) == row.decision \in {"accepted", "review"}

Portion(old, new) ==
    /\ IsStrictPrefix(old, new)
    /\ \A i \in Len(old) + 1 .. Len(new) :
         /\ \A j \in 1..Len(old) : old[j].run = new[i].run => new[i].kind = "round2"
         /\ \A j \in 1..(i - 1) :
              Accepted(new[i]) /\ Accepted(new[j]) => new[i].page # new[j].page

Init == ledger = <<>>
Add == Portion(ledger, ledger')
Spec == Init /\ [][Add]_ledger
=============================================================================

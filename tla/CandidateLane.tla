--------------------------- MODULE CandidateLane ---------------------------
(***************************************************************************)
(* The files below data/history_candidates, and atomic_write, which every  *)
(* collector uses to change them: all the new contents are staged, then    *)
(* put in place one file after the other, in the order given; when one     *)
(* replacement fails, those already made are undone, last first.  A kill   *)
(* stops it between two files, for good.                                   *)
(*                                                                         *)
(* A content is a sequence, the empty one stands for a file that is not    *)
(* there.  The raw and the extracted file of a candidate are one file      *)
(* here; its content is the number of the run that wrote it.               *)
(***************************************************************************)
EXTENDS Naturals, Sequences, FiniteSets, SequencesExt

CONSTANTS Pages,     \* public pages
          Sources,   \* collection sources
          SourceOf,  \* [Pages -> Sources]
          Baseline,  \* pages of the protected provisional manifest
          None,      \* no page, no run
          Listing,   \* [Sources -> Seq(Pages)]: the order in which a source lists its pages
          MaxRuns,   \* commands the operator runs
          MaxTroubles \* requests and replacements that fail, and kills

ASSUME PageAssumption == /\ SourceOf \in [Pages -> Sources] /\ Baseline \subseteq Pages
                         /\ Pages \cap Sources = {} /\ None \notin Pages
                         /\ IsFiniteSet(Pages) /\ IsFiniteSet(Sources)
                         /\ Listing \in [Sources -> Seq(Pages)]
                         /\ \A p \in Pages : \E i \in DOMAIN Listing[SourceOf[p]] :
                              Listing[SourceOf[p]][i] = p
ASSUME LaneBounds == {MaxRuns, MaxTroubles} \subseteq Nat

VARIABLES disk,    \* [Paths -> contents]
          commit,  \* the atomic_write in progress
          cmd,     \* the command in progress: [kind, run, step, batch, limit]
          base,    \* the manifest as the command read it
          rows,    \* the rows it adds, not yet on disk
          budget   \* runs and troubles left

Kinds == {"collect", "exact", "campaign", "round2"}

\* Rows of a kind name files of their own: each collector derives the candidate
\* id, hence the file name, from the page in its own way.
File(kind, page) == <<"file", kind, page>>
Manifest == <<"manifest">>
Catalog(batch) == <<"catalog", batch>>
Report(batch) == <<"report", batch>>

\* Batch names: the operator's for collect and exact; round2 has one name, a
\* campaign is named after the number of candidates it starts from.
Batches == {<<"collect">>, <<"round2">>}
           \cup {<<"exact", n>> : n \in 1..MaxRuns}
           \cup {<<"campaign", n>> : n \in 0..(MaxRuns * Cardinality(Pages))}

Paths == {Manifest} \cup {File(k, p) : k \in Kinds, p \in Pages}
         \cup {Catalog(b) : b \in Batches} \cup {Report(b) : b \in Batches}

Row == [page : Pages, kind : Kinds, run : 1..MaxRuns,
        decision : {"accepted", "review", "duplicate", "rejected"}, increment : 0..1]

Write(path, content) == [path |-> path, content |-> content]
NoCommit == [todo |-> <<>>, done |-> <<>>, restoring |-> FALSE]
NoCommand == [kind |-> "none", run |-> 0, step |-> "idle", batch |-> None, limit |-> 0]
Number == MaxRuns - budget.runs + 1   \* of the run that begins now

LaneInit == /\ disk = [path \in Paths |-> <<>>]
            /\ commit = NoCommit
            /\ cmd = NoCommand
            /\ base = <<>> /\ rows = <<>>
            /\ budget = [runs |-> MaxRuns, troubles |-> MaxTroubles]

-----------------------------------------------------------------------------
(* What the rows say *)

Accepted(row) == row.decision \in {"accepted", "review"}

\* DuplicateIndex of the manifest: every row counts, a rejected one too.
PagesIn(some) == {some[i].page : i \in DOMAIN some}

\* How many rows of a sequence count as new, of the given sources.
Counted(some, sources) ==
    Cardinality({i \in DOMAIN some : some[i].increment = 1 /\ SourceOf[some[i].page] \in sources})

\* The manifest that a command writes: the rows it found, then its own.
Appended == Write(Manifest, base \o rows)
RowFiles == [i \in DOMAIN rows |-> Write(File(rows[i].kind, rows[i].page), <<rows[i].run>>)]
ReportOf(batch) == Write(Report(batch), <<cmd.run>> \o [i \in DOMAIN rows |-> rows[i].page])

-----------------------------------------------------------------------------
(* atomic_write *)

\* Fault: what has been replaced is undone in the order it was done.
FirstDone(done) == 1
LastDone(done) == Len(done)

Begin(writes, step) == /\ commit' = [NoCommit EXCEPT !.todo = writes]
                       /\ cmd' = [cmd EXCEPT !.step = step]

Committing == commit.todo # <<>> \/ commit.restoring

ReplaceFile ==
    /\ commit.todo # <<>>
    /\ LET w == Head(commit.todo) IN
        /\ disk' = [disk EXCEPT ![w.path] = w.content]
        /\ commit' = [commit EXCEPT !.todo = Tail(@),
                                    !.done = Append(@, Write(w.path, disk[w.path]))]
    /\ UNCHANGED <<cmd, base, rows, budget>>

FailReplace ==
    /\ commit.todo # <<>> /\ budget.troubles > 0
    /\ commit' = [commit EXCEPT !.todo = <<>>, !.restoring = TRUE]
    /\ budget' = [budget EXCEPT !.troubles = @ - 1]
    /\ UNCHANGED <<disk, cmd, base, rows>>

RestoreFile ==
    /\ commit.restoring /\ commit.done # <<>>
    /\ LET n == LastDone(commit.done)
           w == commit.done[n] IN
        /\ disk' = [disk EXCEPT ![w.path] = w.content]
        /\ commit' = [commit EXCEPT !.done = RemoveAt(@, n)]
    /\ UNCHANGED <<cmd, base, rows, budget>>
\* The command's code after atomic_write returned: what it does next is its own.
Written == ~Committing

=============================================================================

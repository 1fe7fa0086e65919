--------------------------- MODULE CandidateBatch ---------------------------
(***************************************************************************)
(* The two sequential collectors of history_collection/phase_a.py:         *)
(* PhaseAExecutor.collect discovers pages at its sources, writes the       *)
(* catalog and collects it; CandidateOnlyExecutor.collect_exact collects   *)
(* pages an operator named.  Both run BatchPipeline.execute through a      *)
(* RequestController that bounds requests in all, per source and stage.    *)
(*                                                                         *)
(* What a page says is its grade: "full" or "short" text about Mokpo,      *)
(* "marked" text that carries an error marker, "offTopic", or "unreadable".*)
(* A request and its retry are one step.                                   *)
(***************************************************************************)
EXTENDS CandidateLane

CONSTANTS Grade,        \* [Pages -> Grades]
          MaxRequests,  \* requests of one collect
          StageLimit,   \* [Stages -> Nat], per source
          MaxRetries,
          MaxExact,     \* pages an exact run may be given
          MaxAccepted,  \* pages one collect may accept
          PerSource     \* pages one collect may accept from a source

Stages == {"discovery", "detail"}
Grades == {"full", "short", "marked", "offTopic", "unreadable"}

ASSUME GradeAssumption == Grade \in [Pages -> Grades]
ASSUME BatchBounds == /\ {MaxRequests, MaxRetries, MaxExact, MaxAccepted, PerSource} \subseteq Nat
                      /\ StageLimit \in [Stages -> Nat]

VARIABLES requests,  \* [Sources -> [Stages -> Nat]]
          errors,    \* [Sources -> Nat], failures of execute
          asking,    \* sources still to be asked, in order
          catalog    \* pages still to be collected, in order

batchVars == <<requests, errors, asking, catalog>>

NoRequests == [s \in Sources |-> [stage \in Stages |-> 0]]
BatchInit == /\ requests = NoRequests
             /\ errors = [s \in Sources |-> 0]
             /\ asking = <<>> /\ catalog = <<>>
BatchReset == /\ requests' = NoRequests
              /\ errors' = [s \in Sources |-> 0]
              /\ asking' = <<>> /\ catalog' = <<>>

-----------------------------------------------------------------------------
(* RequestController.get *)

Sent == MapThenSumSet(LAMBDA s : requests[s]["discovery"] + requests[s]["detail"], Sources)

StageBudget(stage) == IF cmd.kind = "exact" THEN cmd.limit ELSE StageLimit[stage]

\* How a request may go: the attempts it takes and whether the last succeeds.
\* The budget of the stage is looked at once, the total before every attempt.
StageOpen(source, stage) == requests[source][stage] < StageBudget(stage)
Outcomes(source, stage) ==
    LET most == IF StageOpen(source, stage) THEN Min({1 + MaxRetries, cmd.limit - Sent}) ELSE 0
    IN  {o \in [tries : 0..most, ok : BOOLEAN] :
            /\ o.tries = 0 <=> most = 0
            /\ o.ok => o.tries > 0
            /\ o.tries - (IF o.ok THEN 1 ELSE 0) <= budget.troubles}

Send(source, stage, o) ==
    /\ requests' = [requests EXCEPT ![source][stage] = @ + o.tries]
    /\ budget' = [budget EXCEPT !.troubles = @ - (o.tries - (IF o.ok THEN 1 ELSE 0))]

-----------------------------------------------------------------------------
(* Beginning and discovery *)

Started(kind, batch, limit, step) ==
    [kind |-> kind, run |-> Number, step |-> step, batch |-> batch, limit |-> limit]

StartCollect ==
    /\ cmd = NoCommand /\ budget.runs > 0
    /\ cmd' = Started("collect", <<"collect">>, MaxRequests, "discover")
    /\ asking' = SetToSeq(Sources)
    /\ budget' = [budget EXCEPT !.runs = @ - 1]
    /\ UNCHANGED <<disk, commit, base, rows, requests, errors, catalog>>

\* A refused or failed request is reported and the next source is asked.
Discover ==
    /\ cmd.step = "discover" /\ asking # <<>>
    /\ \E o \in Outcomes(Head(asking), "discovery") :
        /\ Send(Head(asking), "discovery", o)
        /\ catalog' = IF o.ok THEN catalog \o Listing[Head(asking)] ELSE catalog
    /\ asking' = Tail(asking)
    /\ UNCHANGED <<disk, commit, cmd, base, rows, errors>>

SaveCatalog ==
    /\ cmd.step = "discover" /\ asking = <<>>
    /\ Begin(<<Write(Catalog(cmd.batch), catalog)>>, "catalog")
    /\ UNCHANGED <<disk, base, rows, budget, batchVars>>

\* The ids of exact pages must be new, and so must the batch name.
NewIds(pages) == \A i \in DOMAIN disk[Manifest] :
                    ~(disk[Manifest][i].kind = "exact" /\ disk[Manifest][i].page \in pages)

StartExact ==
    /\ cmd = NoCommand /\ budget.runs > 0
    /\ \E pages \in SUBSET Pages \ {{}}, n \in 1..MaxRuns :
        /\ Cardinality(pages) <= MaxExact
        /\ disk[Catalog(<<"exact", n>>)] = <<>> /\ disk[Report(<<"exact", n>>)] = <<>>
        /\ NewIds(pages)
        /\ catalog' \in SetToSeqs(pages)
        /\ cmd' = Started("exact", <<"exact", n>>, Cardinality(pages), "catalog")
        /\ commit' = [NoCommit EXCEPT !.todo = <<Write(Catalog(<<"exact", n>>), catalog')>>]
    /\ budget' = [budget EXCEPT !.runs = @ - 1]
    /\ UNCHANGED <<disk, base, rows, requests, errors, asking>>

\* execute reads the catalog, then the manifest.
StartExecute ==
    /\ cmd.step = "catalog" /\ Written
    /\ base' = disk[Manifest]
    /\ cmd' = [cmd EXCEPT !.step = "execute"]
    /\ commit' = NoCommit
    /\ UNCHANGED <<disk, rows, budget, batchVars>>

-----------------------------------------------------------------------------
(* BatchPipeline.execute *)

AcceptedRows == SelectSeq(rows, Accepted)
AcceptedFrom(source) == SelectSeq(AcceptedRows, LAMBDA r : SourceOf[r.page] = source)
Quota == IF cmd.kind = "exact" THEN cmd.limit ELSE MaxAccepted
SourceQuota == IF cmd.kind = "exact" THEN cmd.limit ELSE PerSource

\* DuplicateIndex: the rows on disk, those accepted since; collect does not
\* look at the protected baseline.
\* Fault: the rows on disk are not looked at.
KnownNow == {rows[i].page : i \in {j \in DOMAIN rows : Accepted(rows[j])}}
            \cup (IF cmd.kind = "exact" THEN Baseline ELSE {})
Known == PagesIn(base) \cup KnownNow

Usable(page) == Grade[page] \in {"full", "short"}
Decision(page) ==
    IF ~Usable(page) THEN "rejected"
    ELSE IF page \in Known THEN "duplicate"
    ELSE IF Grade[page] = "full" THEN "accepted" ELSE "review"

\* A candidate-only run counts every page that is no duplicate, a rejected one
\* too; collect counts what it accepts.
RowOf(page) ==
    LET d == Decision(page)
        new == IF cmd.kind = "exact" THEN d # "duplicate" ELSE d \in {"accepted", "review"}
    IN  [page |-> page, kind |-> cmd.kind, run |-> cmd.run, decision |-> d,
         increment |-> IF new THEN 1 ELSE 0]

Full == Len(AcceptedRows) >= Quota
Passed(page) == \/ Len(AcceptedFrom(SourceOf[page])) >= SourceQuota
                \/ errors[SourceOf[page]] >= 2

SkipPage ==
    /\ cmd.step = "execute" /\ catalog # <<>> /\ ~Full
    /\ Passed(Head(catalog))
    /\ catalog' = Tail(catalog)
    /\ UNCHANGED <<disk, commit, cmd, base, rows, budget, requests, errors, asking>>

\* A page whose text cannot be extracted has a row all the same; one that was
\* not fetched has none.  Both count as errors of the source.
CollectPage ==
    /\ cmd.step = "execute" /\ catalog # <<>> /\ ~Full
    /\ LET page == Head(catalog) IN
        /\ ~Passed(page)
        /\ \E o \in Outcomes(SourceOf[page], "detail") :
            /\ Send(SourceOf[page], "detail", o)
            /\ rows' = IF o.ok THEN Append(rows, RowOf(page)) ELSE rows
            /\ errors' = IF o.ok /\ Grade[page] # "unreadable" THEN errors
                         ELSE [errors EXCEPT ![SourceOf[page]] = @ + 1]
    /\ catalog' = Tail(catalog)
    /\ UNCHANGED <<disk, commit, cmd, base, asking>>

\* Fault: the report is put in place before the rows it speaks of.
ReportFirst == RowFiles \o <<ReportOf(cmd.batch), Appended>>
Output == RowFiles \o <<Appended, ReportOf(cmd.batch)>>

SaveBatch ==
    /\ cmd.step = "execute" /\ (catalog = <<>> \/ Full)
    /\ Begin(Output, "write")
    /\ UNCHANGED <<disk, base, rows, budget, batchVars>>

\* collect_exact writes its report once more, with the counts of its rows.
SaveReport ==
    /\ cmd.kind = "exact" /\ cmd.step = "write" /\ Written
    /\ Begin(<<ReportOf(cmd.batch)>>, "report")
    /\ UNCHANGED <<disk, base, rows, budget, batchVars>>

BatchOver == \/ cmd.kind = "collect" /\ cmd.step = "write"
             \/ cmd.kind = "exact" /\ cmd.step = "report"

BatchStep == \/ StartCollect \/ Discover \/ SaveCatalog \/ StartExact \/ StartExecute
             \/ SkipPage \/ CollectPage \/ SaveBatch \/ SaveReport
=============================================================================

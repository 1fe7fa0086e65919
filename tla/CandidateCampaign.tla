-------------------------- MODULE CandidateCampaign --------------------------
(***************************************************************************)
(* The threaded collectors: the campaign of                                *)
(* scripts/collect_history_candidates_300.py and the second round of       *)
(* scripts/collect_history_candidates_round2.py, on the candidate lane     *)
(* they share with the sequential ones.  One worker thread per source      *)
(* fetches pages and puts them on a bounded queue; the main thread takes   *)
(* them, judges them and keeps the accepted ones in memory.  A campaign    *)
(* writes once, at its end; round2 also at checkpoints.                    *)
(*                                                                         *)
(* One iteration of the main loop is a step: what workers can see of it    *)
(* (a place in the queue, a known page, the stop event) changes in it once.*)
(* The links by which a worker comes from page to page are left out: it    *)
(* takes the pages of its source in one order.                             *)
(***************************************************************************)
EXTENDS CandidateBatch

CONSTANTS Style,          \* [Sources -> {"host", "bulk", "json"}]
          Round2Sources,  \* the sources of round2
          Family,         \* [Sources -> publisher families]
          Body,           \* [Pages -> texts]: pages may say the same
          Share,          \* [Nat -> Nat]: publisher_cap, by candidates in all
          Target,         \* candidates a campaign stops at
          Round2Target,   \* rows round2 stops at
          Checkpoints,    \* row counts at which round2 writes
          SourceCeiling,  \* requests of one worker
          SourceTarget,   \* pages one worker fetches
          QueueSize,
          MaxWorkers      \* sources of one campaign

ASSUME CampaignAssumption ==
    /\ Style \in [Sources -> {"host", "bulk", "json"}] /\ Round2Sources \subseteq Sources
    /\ {Target, Round2Target, SourceCeiling, SourceTarget, QueueSize, MaxWorkers} \subseteq Nat
    /\ Share \in [0..(MaxRuns * Cardinality(Pages)) -> Nat]
    /\ \A m, n \in DOMAIN Share : m <= n => Share[m] <= Share[n]

VARIABLES worker,    \* [Sources -> worker record]
          queue,     \* pages, and sources whose worker has ended
          known,     \* pages that are not fetched or stored again
          deferred,  \* pages put off because their publisher has its share
          stop,      \* the stop event
          completed  \* workers whose end the main thread has seen

campaignVars == <<worker, queue, known, deferred, stop, completed>>
vars == <<disk, commit, cmd, base, rows, budget, batchVars, campaignVars>>

Idle == [step |-> "none", todo |-> {}, requests |-> 0, out |-> None, fetched |-> {}]
CampaignInit == /\ worker = [s \in Sources |-> Idle]
                /\ queue = <<>> /\ known = {} /\ deferred = <<>>
                /\ stop = FALSE /\ completed = {}
CampaignReset == /\ worker' = [s \in Sources |-> Idle]
                 /\ queue' = <<>> /\ known' = {} /\ deferred' = <<>>
                 /\ stop' = FALSE /\ completed' = {}

Threads == {s \in Sources : worker[s].step # "none"}
Threaded == cmd.kind \in {"campaign", "round2"}

-----------------------------------------------------------------------------
(* Beginning *)

Launch(kind, batch, sources) ==
    /\ cmd = NoCommand /\ budget.runs > 0
    /\ cmd' = Started(kind, batch, 0, "loop")
    /\ base' = disk[Manifest]
    /\ known' = PagesIn(disk[Manifest]) \cup Baseline
    /\ worker' = [s \in Sources |->
                    IF s \in sources THEN [Idle EXCEPT !.step = "robots"] ELSE Idle]
    /\ budget' = [budget EXCEPT !.runs = @ - 1]
    /\ UNCHANGED <<disk, commit, rows, batchVars, queue, deferred, stop, completed>>

StartCampaign ==
    LET counted == Counted(disk[Manifest], Sources) IN
    /\ counted < Target
    /\ \E sources \in SUBSET Sources \ {{}} :
        /\ Cardinality(sources) <= MaxWorkers
        /\ Launch("campaign", <<"campaign", counted>>, sources)

StartRound2 == Launch("round2", <<"round2">>, Round2Sources)

-----------------------------------------------------------------------------
(* Worker threads *)

Moves(s, w) == /\ worker' = [worker EXCEPT ![s] = w]
               /\ UNCHANGED <<disk, commit, cmd, base, rows, batchVars,
                              known, deferred, stop, completed>>
Fault == budget' = [budget EXCEPT !.troubles = @ - 1]
Working(s, step) == Threaded /\ worker[s].step = step

\* Where a worker goes once robots.txt lets it.
FirstStep(s) ==
    CASE cmd.kind = "campaign" /\ Style[s] = "host" -> "host"
      [] cmd.kind = "campaign" /\ Style[s] = "bulk" -> "list"
      [] cmd.kind = "campaign" /\ Style[s] = "json" -> "search"
      [] cmd.kind = "round2" /\ Style[s] = "bulk"   -> "items"
      [] OTHER                                      -> "html"

\* A robots.txt that cannot be read closes the source.
LoadRobots(s) ==
    /\ Working(s, "robots")
    /\ \/ Moves(s, [worker[s] EXCEPT !.step = FirstStep(s), !.requests = 1,
                                     !.todo = {p \in Pages : SourceOf[p] = s}])
          /\ UNCHANGED budget
       \/ budget.troubles > 0 /\ Fault /\ Moves(s, [worker[s] EXCEPT !.step = "end"])
    /\ UNCHANGED queue

More(s) == /\ ~stop /\ worker[s].todo # {}
           /\ worker[s].requests < SourceCeiling
           /\ Cardinality(worker[s].fetched) < SourceTarget

\* A worker takes its pages in the order it came to know them.
NextPage(s) == Listing[s][Min({i \in DOMAIN Listing[s] : Listing[s][i] \in worker[s].todo})]

\* A page is fetched and will be put on the queue; or it fails and is dropped.
Fetch(s, page) ==
    LET w == [worker[s] EXCEPT !.requests = @ + 1, !.todo = @ \ {page}] IN
    \/ /\ Moves(s, [w EXCEPT !.out = page, !.fetched = @ \cup {page}])
       /\ UNCHANGED budget
    \/ budget.troubles > 0 /\ Fault /\ Moves(s, w)

Drop(s, page) == /\ Moves(s, [worker[s] EXCEPT !.todo = @ \ {page}])
                 /\ UNCHANGED budget

\* HostWorker looks for known pages before each request.
HostFetch(s) ==
    /\ Working(s, "host") /\ worker[s].out = None /\ More(s)
    /\ LET page == NextPage(s) IN IF page \in known THEN Drop(s, page) ELSE Fetch(s, page)
    /\ UNCHANGED queue

\* BulkXmlWorker gets its pages in one answer, and does not look for known ones.
BulkList(s) ==
    /\ Working(s, "list") /\ More(s)
    /\ \/ Moves(s, [worker[s] EXCEPT !.requests = @ + 1, !.step = "records"]) /\ UNCHANGED budget
       \/ budget.troubles > 0 /\ Fault /\ Moves(s, [worker[s] EXCEPT !.step = "end"])
    /\ UNCHANGED queue

\* NewspaperJsonWorker searches first, and leaves known pages out then; an
\* answer that is no object ends the thread without a word.
JsonSearch(s) ==
    /\ Working(s, "search") /\ More(s)
    /\ \/ /\ Moves(s, [worker[s] EXCEPT !.requests = @ + 1, !.step = "json", !.todo = @ \ known])
          /\ UNCHANGED budget
       \/ budget.troubles > 0 /\ Fault /\ Moves(s, [worker[s] EXCEPT !.step = "end"])
       \/ budget.troubles > 0 /\ Fault /\ Moves(s, [worker[s] EXCEPT !.step = "dead"])
    /\ UNCHANGED queue

JsonFetch(s) ==
    /\ Working(s, "json") /\ worker[s].out = None /\ More(s)
    /\ Fetch(s, NextPage(s))
    /\ UNCHANGED queue

\* run_i815 gets records in one answer and leaves known ones out.
ItemList(s) ==
    /\ Working(s, "items") /\ More(s)
    /\ \/ /\ Moves(s, [worker[s] EXCEPT !.requests = @ + 1, !.step = "records", !.todo = @ \ known])
          /\ UNCHANGED budget
       \/ budget.troubles > 0 /\ Fault /\ Moves(s, [worker[s] EXCEPT !.step = "end"])
    /\ UNCHANGED queue

\* run_html looks for known pages again before each request.
HtmlFetch(s) ==
    /\ Working(s, "html") /\ worker[s].out = None /\ More(s)
    /\ LET page == NextPage(s) IN IF page \in known THEN Drop(s, page) ELSE Fetch(s, page)
    /\ UNCHANGED queue

\* The records of one answer are put one by one, whatever the stop event says.
NextRecord(s) ==
    /\ Working(s, "records") /\ worker[s].out = None
    /\ worker[s].todo # {} /\ Cardinality(worker[s].fetched) < SourceTarget
    /\ LET page == NextPage(s) IN
        Moves(s, [worker[s] EXCEPT !.out = page, !.todo = @ \ {page}, !.fetched = @ \cup {page}])
    /\ UNCHANGED <<budget, queue>>

\* queue.put blocks while the queue is full.
Room == Len(queue) < QueueSize

Put(s) ==
    /\ Threaded /\ worker[s].out # None /\ Room
    /\ queue' = Append(queue, worker[s].out)
    /\ Moves(s, [worker[s] EXCEPT !.out = None])
    /\ UNCHANGED budget

\* Fault: a source that robots.txt closes never reports.
EndedUnlessClosed(s) == worker[s].step # "end" /\ ~More(s)
Ended(s) ==
    CASE worker[s].step = "end"     -> TRUE
      [] worker[s].step = "records" -> \/ worker[s].todo = {}
                                       \/ Cardinality(worker[s].fetched) >= SourceTarget
      [] OTHER                      -> ~More(s)

\* The last thing a worker puts is its statistics.
PutStats(s) ==
    /\ Threaded /\ worker[s].step \notin {"none", "robots", "done", "dead"}
    /\ worker[s].out = None /\ Ended(s) /\ Room
    /\ queue' = Append(queue, s)
    /\ Moves(s, [worker[s] EXCEPT !.step = "done", !.todo = {}])
    /\ UNCHANGED budget

Work(s) == \/ LoadRobots(s) \/ HostFetch(s) \/ BulkList(s) \/ JsonSearch(s) \/ JsonFetch(s)
           \/ ItemList(s) \/ HtmlFetch(s) \/ NextRecord(s) \/ Put(s) \/ PutStats(s)

-----------------------------------------------------------------------------
(* The main thread of a campaign.  st is what it holds: the rows found, the  *)
(* pages known, those deferred, and the stop event.                          *)

Held == [rows |-> rows, known |-> known, deferred |-> deferred, stop |-> stop]
Hold(st) == /\ rows' = st.rows /\ known' = st.known
            /\ deferred' = st.deferred /\ stop' = st.stop

InAll(st) == Counted(base, Sources) + Len(st.rows)
OfPublisher(st, page) ==
    Counted(base \o st.rows, {s \in Sources : Family[s] = Family[SourceOf[page]]})
HasShare(st, page) == OfPublisher(st, page) >= Share[InAll(st) + 1]

BaselineBodies == {Body[p] : p \in Baseline}

\* What process asks of a page once its publisher has room.
Fits(st, page) == /\ page \notin st.known
                  /\ Grade[page] \in {"full", "short", "marked"}
                  /\ Body[page] \notin BaselineBodies

CampaignDecision(page) == CASE Grade[page] = "full"  -> "accepted"
                            [] Grade[page] = "short" -> "review"
                            [] OTHER                 -> "rejected"

Stored(st, page) ==
    [st EXCEPT !.rows = Append(@, [page |-> page, kind |-> "campaign", run |-> cmd.run,
                                   decision |-> CampaignDecision(page), increment |-> 1]),
               !.known = @ \cup {page},
               !.stop = InAll(st) + 1 >= Target]

\* process(item, allow_defer=False)
\* Fault: a page that was put off is not held back a second time.
StorableUnshared(st, page) == Fits(st, page)
Storable(st, page) == ~HasShare(st, page) /\ Fits(st, page)

\* process(item)
\* Fault: a page whose publisher has its share is dropped.
ProcessedOnce(st, page) == IF Storable(st, page) THEN Stored(st, page) ELSE st
Processed(st, page) ==
    IF HasShare(st, page) THEN [st EXCEPT !.deferred = Append(@, page)]
    ELSE IF Fits(st, page) THEN Stored(st, page) ELSE st

\* One pass over the deferred pages: the first that can be stored is, and the
\* next pass begins after it.
Storables(st) == {i \in DOMAIN st.deferred : Storable(st, st.deferred[i])}
StoredFrom(st, i) ==
    [Stored(st, st.deferred[i]) EXCEPT
       !.deferred = SubSeq(st.deferred, i + 1, Len(st.deferred)) \o SubSeq(st.deferred, 1, i - 1)]
Reconsidered(st) ==
    IF st.stop \/ Storables(st) = {} THEN st ELSE StoredFrom(st, Min(Storables(st)))

CampaignTakes ==
    /\ cmd.kind = "campaign" /\ cmd.step = "loop" /\ queue # <<>>
    /\ queue' = Tail(queue)
    /\ IF Head(queue) \in Sources
       THEN completed' = completed \cup {Head(queue)} /\ Hold(Reconsidered(Held))
       ELSE Hold(Reconsidered(Processed(Held, Head(queue)))) /\ UNCHANGED completed
    /\ UNCHANGED <<disk, commit, cmd, base, budget, batchVars, worker>>

\* The loop ends when every worker has reported and the queue is empty.
LoopOver == completed = Threads /\ queue = <<>>

EndLoop ==
    /\ cmd.kind = "campaign" /\ cmd.step = "loop" /\ LoopOver
    /\ cmd' = [cmd EXCEPT !.step = IF stop THEN "drained" ELSE "drain"]
    /\ UNCHANGED <<disk, commit, base, rows, budget, batchVars, campaignVars>>

\* After the loop, passes over the deferred pages until one stores nothing.  A
\* pass that reaches the target breaks off, but another follows it: it too
\* stores the page it begins with if that can be stored.
DrainDeferred ==
    /\ cmd.kind = "campaign" /\ cmd.step = "drain"
    /\ LET fit == Storables(Held) \cap (IF stop THEN {1} ELSE DOMAIN deferred) IN
       IF fit = {}
       THEN cmd' = [cmd EXCEPT !.step = "drained"] /\ UNCHANGED <<rows, known, deferred, stop>>
       ELSE Hold(StoredFrom(Held, Min(fit))) /\ UNCHANGED cmd
    /\ UNCHANGED <<disk, commit, base, budget, batchVars, worker, queue, completed>>

SaveCampaign ==
    /\ cmd.kind = "campaign" /\ cmd.step = "drained"
    /\ Begin(Output, "write")
    /\ UNCHANGED <<disk, base, rows, budget, batchVars, campaignVars>>

-----------------------------------------------------------------------------
(* The main thread of round2 *)

BodiesIn(some) == {Body[some[i].page] : i \in DOMAIN some}

\* Relevant, new, and saying what no other page says; a page with an error
\* marker is taken for review all the same.
Round2Fits(page) ==
    /\ Grade[page] \in {"full", "short", "marked"}
    /\ page \notin known
    /\ Body[page] \notin BodiesIn(base \o rows) \cup BaselineBodies

Round2Row(page) ==
    [page |-> page, kind |-> "round2", run |-> cmd.run, increment |-> 1,
     decision |-> IF Grade[page] = "full" THEN "accepted" ELSE "review"]

\* Unlike everywhere else, the manifest comes before the files its rows name.
Round2Output == <<Appended>> \o RowFiles

Round2Takes ==
    /\ cmd.kind = "round2" /\ cmd.step = "loop" /\ queue # <<>>
    /\ queue' = Tail(queue)
    /\ LET value == Head(queue) IN
        IF value \in Sources
        THEN completed' = completed \cup {value} /\ UNCHANGED <<rows, known, stop, cmd>>
        ELSE /\ IF Len(rows) < Round2Target /\ Round2Fits(value)
                THEN /\ rows' = Append(rows, Round2Row(value))
                     /\ known' = known \cup {value}
                     /\ cmd' = IF Len(rows') \in Checkpoints
                               THEN [cmd EXCEPT !.step = "checkpoint"] ELSE cmd
                ELSE UNCHANGED <<rows, known, cmd>>
             /\ stop' = (stop \/ Len(rows') >= Round2Target)
             /\ UNCHANGED completed
    /\ UNCHANGED <<disk, commit, base, budget, batchVars, worker, deferred>>

SaveCheckpoint ==
    /\ cmd.kind = "round2" /\ cmd.step = "checkpoint"
    /\ Begin(Round2Output, "saving")
    /\ UNCHANGED <<disk, base, rows, budget, batchVars, campaignVars>>

ResumeRound2 ==
    /\ cmd.kind = "round2" /\ cmd.step = "saving" /\ Written
    /\ cmd' = [cmd EXCEPT !.step = "loop"] /\ commit' = NoCommit
    /\ UNCHANGED <<disk, base, rows, budget, batchVars, campaignVars>>

SaveRound2 ==
    /\ cmd.kind = "round2" /\ cmd.step = "loop" /\ LoopOver
    /\ Begin(Round2Output \o <<ReportOf(cmd.batch)>>, "write")
    /\ UNCHANGED <<disk, base, rows, budget, batchVars, campaignVars>>

-----------------------------------------------------------------------------
(* Ends, and the whole *)

Leave == /\ cmd' = NoCommand /\ commit' = NoCommit /\ base' = <<>> /\ rows' = <<>>
         /\ BatchReset /\ CampaignReset

Finish == /\ BatchOver \/ (Threaded /\ cmd.step = "write")
          /\ Written
          /\ Leave /\ UNCHANGED <<disk, budget>>

\* All is restored; the error ends the command.
Abort == /\ commit.restoring /\ commit.done = <<>>
         /\ Leave /\ UNCHANGED <<disk, budget>>

\* An answer to a discovery request that does not parse ends the command.
DiscoveryRaises == /\ cmd.step = "discover" /\ asking # <<>> /\ budget.troubles > 0
                   /\ Leave /\ Fault /\ UNCHANGED disk

Kill == /\ cmd # NoCommand /\ budget.troubles > 0
        /\ Leave /\ Fault /\ UNCHANGED disk

Writing == (ReplaceFile \/ FailReplace \/ RestoreFile) /\ UNCHANGED <<batchVars, campaignVars>>
Batch == BatchStep /\ UNCHANGED campaignVars
Main == \/ CampaignTakes \/ EndLoop \/ DrainDeferred \/ SaveCampaign
        \/ Round2Takes \/ SaveCheckpoint \/ ResumeRound2 \/ SaveRound2

Init == LaneInit /\ BatchInit /\ CampaignInit
Next == \/ Writing \/ Batch \/ Main \/ (\E s \in Sources : Work(s))
        \/ StartCampaign \/ StartRound2
        \/ Finish \/ Abort \/ DiscoveryRaises \/ Kill

\* Every thread that can go on does, and a command that is started is run.
Goes == \/ Writing \/ Main \/ Finish \/ Abort
        \/ cmd # NoCommand /\ Batch
Spec == Init /\ [][Next]_vars /\ WF_vars(Goes) /\ \A s \in Sources : WF_vars(Work(s))

-----------------------------------------------------------------------------
(* Properties *)

\* The ledger the reviewers rely on: what a write in progress may still undo is
\* not in it yet.  A kill settles it.
Ledger ==
    LET old == {i \in DOMAIN commit.done : commit.done[i].path = Manifest} IN
    IF old = {} THEN disk[Manifest] ELSE commit.done[Min(old)].content
Promise == INSTANCE CandidateLedger WITH ledger <- Ledger

\* candidates.jsonl is appended to a run at a time, and a page is accepted once,
\* whatever collectors ran and wherever they were killed or failed.
ImplementsLedger == Promise!Spec

\* In every state of the disk, also in the middle of a write, of its undoing and
\* after a kill, a row's evidence file is there, and for an exact or campaign
\* row it is the one its own run wrote.  (A collect run over a page of an
\* earlier one replaces the file; round2 writes its rows first.)
RowsMatchEvidence ==
    \A i \in DOMAIN disk[Manifest] :
        LET row == disk[Manifest][i] IN
        row.kind # "round2" =>
            /\ disk[File(row.kind, row.page)] # <<>>
            /\ row.kind # "collect" => disk[File(row.kind, row.page)] = <<row.run>>

\* A report on disk speaks of rows that are in the manifest.
ReportsFollowRows ==
    \A b \in Batches : LET report == disk[Report(b)] IN
        \A i \in 2..Len(report) : \E j \in DOMAIN disk[Manifest] :
            /\ disk[Manifest][j].run = report[1]
            /\ disk[Manifest][j].page = report[i]

\* A campaign brings no publisher above its share of the candidates in all: a
\* page put off once is held back until its publisher has room.
PublisherShare ==
    cmd.kind = "campaign" => \A page \in PagesIn(rows) : OfPublisher(Held, page) <= Share[InAll(Held)]

\* A campaign that ends below its target has stored every page its workers
\* fetched that fits, unless the publisher has its share.
NothingForgotten ==
    cmd.kind = "campaign" /\ cmd.step = "write" /\ ~stop =>
        \A s \in Sources : \A page \in worker[s].fetched :
            Fits(Held, page) => HasShare(Held, page)

\* Every command ends, unless a worker thread died without a word.
CommandsEnd ==
    cmd # NoCommand ~> (cmd = NoCommand \/ \E s \in Sources : worker[s].step = "dead")
=============================================================================

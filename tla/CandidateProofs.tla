-------------------------- MODULE CandidateProofs --------------------------
(***************************************************************************)
(* Proofs about CandidateCampaign: that the manifest grows as              *)
(* CandidateLedger says, and the four invariants of the files and of a     *)
(* campaign.                                                               *)
(*                                                                         *)
(* The argument.  What atomic_write does is a plan, the writes of the step *)
(* the command is in: at every moment the plan is done up to some write,   *)
(* and what was there before is kept to be restored.  The ledger, which is *)
(* the manifest as it was when the write began, is therefore between what  *)
(* the command read and what it will leave; reports and evidence are       *)
(* judged against the ledger until the manifest is replaced and against    *)
(* the whole from then on.  A campaign's main thread keeps what GoodHold   *)
(* says from page to page, while its workers touch none of it; and what    *)
(* they fetched is with them, in the queue, or seen by it (ThreadInv).     *)
(***************************************************************************)
EXTENDS CandidateCampaign, FiniteSetTheorems, WellFoundedInduction, TLAPS

-----------------------------------------------------------------------------
(* What a manifest keeps to *)

Used == MaxRuns - budget.runs    \* runs begun so far

\* A page is accepted once, and counted once in a run.
Sound(m) ==
    /\ m \in Seq(Row)
    /\ \A i \in DOMAIN m : m[i].run <= Used
    /\ \A i, j \in DOMAIN m : i < j /\ Accepted(m[i]) /\ Accepted(m[j]) => m[i].page # m[j].page
    /\ \A i, j \in DOMAIN m :
         i # j /\ m[i].increment = 1 /\ m[j].increment = 1 /\ m[i].run = m[j].run
           => m[i].page # m[j].page

\* The evidence of the rows of a manifest.
Evident(m, files) ==
    \A i \in DOMAIN m : m[i].kind # "round2" =>
        /\ files[File(m[i].kind, m[i].page)] # <<>>
        /\ m[i].kind # "collect" => files[File(m[i].kind, m[i].page)] = <<m[i].run>>

\* A report speaks of rows of a manifest.
Reported(report, m) ==
    \A i \in 2..Len(report) : \E j \in DOMAIN m :
        m[j].run = report[1] /\ m[j].page = report[i]

-----------------------------------------------------------------------------
(* The command and the write in progress *)

\* The command has read the manifest.
Reading == cmd.step \notin {"idle", "discover", "catalog"}

\* What the manifest holds when the command's rows are written.
Whole == IF Reading THEN base \o rows ELSE disk[Manifest]

\* The writes of the step that a command is in.
Plan ==
    CASE cmd.step = "catalog" -> <<Write(Catalog(cmd.batch), catalog)>>
      [] cmd.step = "write" /\ cmd.kind # "round2" -> Output
      [] cmd.step = "write" /\ cmd.kind = "round2" -> Round2Output \o <<ReportOf(cmd.batch)>>
      [] cmd.step = "saving" -> Round2Output
      [] cmd.step = "report" -> <<ReportOf(cmd.batch)>>
      [] OTHER -> <<>>

Steps ==
    [ none |-> {"idle"}, collect |-> {"discover", "catalog", "execute", "write"},
      exact |-> {"catalog", "execute", "write", "report"},
      campaign |-> {"loop", "drain", "drained", "write"},
      round2 |-> {"loop", "checkpoint", "saving", "write"} ]

WorkSteps ==
    {"discover", "catalog", "execute", "write", "report", "loop", "drain", "drained", "checkpoint", "saving"}

Word == Row \cup Pages \cup Nat
Entry == [path : Paths, content : Seq(Word)]
LaneType ==
    /\ disk \in [Paths -> Seq(Word)]
    /\ commit \in [todo : Seq(Entry), done : Seq(Entry), restoring : BOOLEAN]
    /\ budget \in [runs : 0..MaxRuns, troubles : Nat]
    /\ \/ cmd = NoCommand
       \/ /\ cmd \in [kind : Kinds, run : 1..MaxRuns, step : WorkSteps, batch : Batches, limit : Nat]
          /\ cmd.step \in Steps[cmd.kind] /\ cmd.run = Used
    /\ base \in Seq(Row) /\ rows \in Seq(Row)
    /\ catalog \in Seq(Pages)

\* atomic_write goes through its plan in order, and undoes it backwards.
Progress ==
    /\ Len(commit.done) <= Len(Plan)
    /\ \A i \in DOMAIN commit.done : commit.done[i].path = Plan[i].path
    /\ IF commit.restoring THEN commit.todo = <<>>
       ELSE /\ commit.todo = SubSeq(Plan, Len(commit.done) + 1, Len(Plan))
            /\ \A i \in DOMAIN commit.done : disk[Plan[i].path] = Plan[i].content

\* The rows of the run, and those before it.
RowsInv ==
    /\ ~Reading => base = <<>> /\ rows = <<>>
    /\ \A i \in DOMAIN rows : rows[i].run = cmd.run /\ rows[i].kind = cmd.kind
    /\ cmd # NoCommand =>
         LET old == IF Reading THEN base ELSE disk[Manifest] IN
         \A i \in DOMAIN old :
           /\ old[i].run < cmd.run
           /\ cmd.kind = "exact" /\ old[i].kind = "exact" =>
                old[i].page \notin {catalog[k] : k \in DOMAIN catalog} \cup PagesIn(rows)
    /\ cmd.kind = "collect" => \A i \in DOMAIN rows : rows[i].increment = 1 => Accepted(rows[i])
    /\ cmd.kind = "exact" =>
         /\ \A i, j \in DOMAIN catalog : i # j => catalog[i] # catalog[j]
         /\ \A i \in DOMAIN rows, j \in DOMAIN catalog : rows[i].page # catalog[j]
    /\ cmd.kind \in {"campaign", "round2"} =>
         /\ PagesIn(base) \cup PagesIn(rows) \subseteq known
         /\ PagesIn(base) \cap PagesIn(rows) = {}
    /\ Sound(Whole)

InDone(path) == \E i \in DOMAIN commit.done : commit.done[i].path = path

\* The ledger between what the command read and what it will leave.
LedgerInv ==
    /\ IsPrefix(Ledger, Whole) /\ (Reading => IsPrefix(base, Ledger))
    /\ cmd.step = "report" => Ledger = Whole
    /\ Reading /\ cmd.kind # "round2" /\ cmd.step # "report" => Ledger = base
    /\ InDone(Manifest) => disk[Manifest] = Whole

\* What may be restored is as good as what was replaced.
FilesInv ==
    /\ Evident(Ledger, disk)
    /\ InDone(Manifest) => Evident(Whole, disk)
    /\ \A i \in DOMAIN commit.done, j \in DOMAIN Ledger :
         Ledger[j].kind # "round2" /\ commit.done[i].path = File(Ledger[j].kind, Ledger[j].page)
           => Ledger[j].kind = "collect" /\ commit.done[i].content # <<>>

ReportsInv ==
    /\ \A b \in Batches :
         /\ ~InDone(Report(b)) => Reported(disk[Report(b)], Ledger)
         /\ InDone(Report(b)) =>
              /\ Reported(disk[Report(b)], Whole)
              /\ InDone(Manifest) \/ cmd.step = "report"
    /\ \A b \in Batches, i \in DOMAIN commit.done :
         commit.done[i].path = Report(b) => Reported(commit.done[i].content, Ledger)

-----------------------------------------------------------------------------
(* Sequences, paths and plans *)

LEMMA PathsApart ==
    /\ \A k, p : File(k, p) # Manifest
    /\ \A b : Report(b) # Manifest /\ Catalog(b) # Manifest
    /\ \A k, p, b : File(k, p) # Report(b) /\ File(k, p) # Catalog(b)
    /\ \A b, c : Report(b) # Catalog(c) /\ (Report(b) = Report(c) => b = c)
    /\ \A k, p, l, q : File(k, p) = File(l, q) => k = l /\ p = q
<1>1. \A k, p : File(k, p) # Manifest
  BY DEF File, Manifest
<1>2. \A b : Report(b) # Manifest /\ Catalog(b) # Manifest
  BY DEF Report, Catalog, Manifest
<1>3. \A k, p, b : File(k, p) # Report(b) /\ File(k, p) # Catalog(b)
  BY DEF File, Report, Catalog
<1>4. \A b, c : Report(b) # Catalog(c) /\ (Report(b) = Report(c) => b = c)
  BY DEF Report, Catalog
<1>5. \A k, p, l, q : File(k, p) = File(l, q) => k = l /\ p = q
  BY DEF File
<1> QED
  BY <1>1, <1>2, <1>3, <1>4, <1>5

LEMMA InPaths ==
    /\ Manifest \in Paths
    /\ \A k \in Kinds, p \in Pages : File(k, p) \in Paths
    /\ \A b \in Batches : Catalog(b) \in Paths /\ Report(b) \in Paths
BY DEF Paths

\* Prefixes.
LEMMA PrefixMeans ==
    ASSUME NEW S, NEW s \in Seq(S), NEW t \in Seq(S)
    PROVE  IsPrefix(s, t) <=> Len(s) <= Len(t) /\ \A i \in 1..Len(s) : s[i] = t[i]
<1>1. Len(s) <= Len(t) => SubSeq(s, 1, Len(s)) = s /\ SubSeq(t, 1, Len(s)) \in Seq(S)
  OBVIOUS
<1> QED
  BY <1>1 DEF IsPrefix

LEMMA WholeMeans ==
    ASSUME NEW S, NEW s \in Seq(S), NEW t \in Seq(S)
    PROVE  /\ IsPrefix(s, s \o t) /\ s \o t \in Seq(S) /\ Len(s \o t) = Len(s) + Len(t)
           /\ \A i \in 1..Len(s) : (s \o t)[i] = s[i]
           /\ \A i \in Len(s) + 1 .. Len(s) + Len(t) : (s \o t)[i] = t[i - Len(s)]
<1>1. /\ s \o t \in Seq(S) /\ Len(s \o t) = Len(s) + Len(t)
      /\ \A i \in 1..Len(s) : (s \o t)[i] = s[i]
      /\ \A i \in Len(s) + 1 .. Len(s) + Len(t) : (s \o t)[i] = t[i - Len(s)]
  OBVIOUS
<1>2. Len(s) <= Len(s \o t)
  BY <1>1
<1>3. IsPrefix(s, s \o t)
  BY <1>1, <1>2, PrefixMeans
<1> QED
  BY <1>1, <1>3

\* The plan of a commit, write by write.
LEMMA WritesTyped ==
    ASSUME LaneType
    PROVE  /\ \A i \in 1..Len(rows) :
                Write(File(rows[i].kind, rows[i].page), <<rows[i].run>>) \in Entry
           /\ Appended \in Entry /\ \A b \in Batches : ReportOf(b) \in Entry
           /\ \A b \in Batches : Write(Catalog(b), catalog) \in Entry
<1>1. \A i \in 1..Len(rows) : rows[i] \in Row
  BY DEF LaneType
<1>2. \A r \in Row : Write(File(r.kind, r.page), <<r.run>>) \in Entry
  <2> SUFFICES ASSUME NEW r \in Row
               PROVE  File(r.kind, r.page) \in Paths /\ <<r.run>> \in Seq(Word)
    BY DEF Write, Entry
  <2>1. r.kind \in Kinds /\ r.page \in Pages /\ r.run \in Nat
    BY LaneBounds DEF Row
  <2> QED
    BY <2>1, InPaths DEF Word
<1>3. Appended \in Entry
  <2>1. base \o rows \in Seq(Row)
    BY DEF LaneType
  <2>2. base \o rows \in Seq(Word)
    BY <2>1 DEF Word
  <2> QED
    BY <2>2, InPaths DEF Appended, Write, Entry
<1>4. ASSUME NEW b \in Batches
      PROVE  ReportOf(b) \in Entry
  <2>1. cmd.run \in Word
    BY DEF LaneType, NoCommand, Word
  <2>2. [i \in DOMAIN rows |-> rows[i].page] \in Seq(Word)
    <3>1. \A i \in 1..Len(rows) : rows[i].page \in Word
      BY <1>1 DEF Row, Word
    <3>2. DOMAIN rows = 1..Len(rows) /\ Len(rows) \in Nat
      BY DEF LaneType
    <3> QED
      BY <3>1, <3>2
  <2>3. <<cmd.run>> \o [i \in DOMAIN rows |-> rows[i].page] \in Seq(Word)
    BY <2>1, <2>2
  <2> QED
    BY <2>3, InPaths DEF ReportOf, Write, Entry
<1>5. ASSUME NEW b \in Batches
      PROVE  Write(Catalog(b), catalog) \in Entry
  <2>1. catalog \in Seq(Word)
    BY DEF LaneType, Word
  <2> QED
    BY <2>1, InPaths DEF Write, Entry
<1> QED
  BY <1>1, <1>2, <1>3, <1>4, <1>5

LEMMA OutputWrites ==
    ASSUME rows \in Seq(Row)
    PROVE  /\ Len(Output) = Len(rows) + 2
           /\ \A i \in 1..Len(rows) : Output[i] = Write(File(rows[i].kind, rows[i].page), <<rows[i].run>>)
           /\ Output[Len(rows) + 1] = Appended /\ Output[Len(rows) + 2] = ReportOf(cmd.batch)
<1>1. /\ Len(RowFiles) = Len(rows)
      /\ \A i \in 1..Len(rows) : RowFiles[i] = Write(File(rows[i].kind, rows[i].page), <<rows[i].run>>)
  BY DEF RowFiles
<1> QED
  BY <1>1 DEF Output

LEMMA Round2Writes ==
    ASSUME rows \in Seq(Row)
    PROVE  /\ Len(Round2Output) = Len(rows) + 1 /\ Round2Output[1] = Appended
           /\ \A i \in 1..Len(rows) :
                Round2Output[i + 1] = Write(File(rows[i].kind, rows[i].page), <<rows[i].run>>)
           /\ Len(Round2Output \o <<ReportOf(cmd.batch)>>) = Len(rows) + 2
           /\ \A i \in 1..Len(rows) + 1 :
                (Round2Output \o <<ReportOf(cmd.batch)>>)[i] = Round2Output[i]
           /\ (Round2Output \o <<ReportOf(cmd.batch)>>)[Len(rows) + 2] = ReportOf(cmd.batch)
<1>1. /\ Len(RowFiles) = Len(rows)
      /\ \A i \in 1..Len(rows) : RowFiles[i] = Write(File(rows[i].kind, rows[i].page), <<rows[i].run>>)
  BY DEF RowFiles
<1>2. /\ Len(Round2Output) = Len(rows) + 1 /\ Round2Output[1] = Appended
      /\ \A i \in 1..Len(rows) :
           Round2Output[i + 1] = Write(File(rows[i].kind, rows[i].page), <<rows[i].run>>)
  BY <1>1 DEF Round2Output
<1> QED
  BY <1>2

\* A plan consists of writes of these kinds.
FileWrite(w) == \E i \in DOMAIN rows : w = Write(File(rows[i].kind, rows[i].page), <<rows[i].run>>)
ReportWrite(w) == w = ReportOf(cmd.batch)
CatalogWrite(w) == w = Write(Catalog(cmd.batch), catalog)

LEMMA PlanWrites ==
    ASSUME LaneType
    PROVE  /\ \A i \in 1..Len(Plan) :
                \/ Plan[i] = Appended \/ FileWrite(Plan[i]) \/ ReportWrite(Plan[i])
                \/ CatalogWrite(Plan[i]) /\ cmd.step = "catalog"
           /\ Len(Plan) \in Nat
           /\ cmd.step = "catalog" => Len(Plan) = 1 /\ CatalogWrite(Plan[1])
           /\ cmd.step = "report" => Len(Plan) = 1 /\ ReportWrite(Plan[1])
           /\ cmd.step \notin {"catalog", "write", "saving", "report"} => Plan = <<>>
           /\ cmd.step = "write" /\ cmd.kind # "round2" =>
                /\ Len(Plan) = Len(rows) + 2
                /\ \A i \in 1..Len(rows) : Plan[i] = Write(File(rows[i].kind, rows[i].page), <<rows[i].run>>)
                /\ Plan[Len(rows) + 1] = Appended /\ ReportWrite(Plan[Len(rows) + 2])
           /\ (cmd.step = "write" /\ cmd.kind = "round2") \/ cmd.step = "saving" =>
                /\ Len(Plan) \in {Len(rows) + 1, Len(rows) + 2} /\ Plan[1] = Appended
                /\ \A i \in 1..Len(rows) :
                     Plan[i + 1] = Write(File(rows[i].kind, rows[i].page), <<rows[i].run>>)
                /\ Len(Plan) = Len(rows) + 2 => ReportWrite(Plan[Len(rows) + 2])
<1>1. rows \in Seq(Row)
  BY DEF LaneType
<1>2. CASE cmd.step = "catalog"
  <2>1. Plan = <<Write(Catalog(cmd.batch), catalog)>>
    BY <1>2 DEF Plan
  <2> QED
    BY <1>2, <2>1 DEF CatalogWrite
<1>3. CASE cmd.step = "report"
  <2>1. Plan = <<ReportOf(cmd.batch)>>
    BY <1>3 DEF Plan
  <2> QED
    BY <1>3, <2>1 DEF ReportWrite
<1>4. CASE cmd.step = "write" /\ cmd.kind # "round2"
  <2>1. Plan = Output
    BY <1>4 DEF Plan
  <2>2. /\ Len(Plan) = Len(rows) + 2
        /\ \A i \in 1..Len(rows) : Plan[i] = Write(File(rows[i].kind, rows[i].page), <<rows[i].run>>)
        /\ Plan[Len(rows) + 1] = Appended /\ ReportWrite(Plan[Len(rows) + 2])
    BY <1>1, <2>1, OutputWrites DEF ReportWrite
  <2>3. \A i \in 1..Len(rows) : FileWrite(Plan[i])
    BY <1>1, <2>2 DEF FileWrite
  <2>4. \A i \in 1..Len(Plan) : i \in 1..Len(rows) \/ i = Len(rows) + 1 \/ i = Len(rows) + 2
    BY <1>1, <2>2
  <2> QED
    BY <1>1, <1>4, <2>2, <2>3, <2>4
<1>5. CASE (cmd.step = "write" /\ cmd.kind = "round2") \/ cmd.step = "saving"
  <2>1. Plan \in {Round2Output, Round2Output \o <<ReportOf(cmd.batch)>>}
    BY <1>5 DEF Plan
  <2>0. Len(rows) \in Nat /\ \A i \in 1..Len(rows) : i + 1 \in 1..Len(rows) + 1
    BY <1>1
  <2>2. /\ Len(Plan) \in {Len(rows) + 1, Len(rows) + 2} /\ Plan[1] = Appended
        /\ \A i \in 1..Len(rows) :
             Plan[i + 1] = Write(File(rows[i].kind, rows[i].page), <<rows[i].run>>)
        /\ Len(Plan) = Len(rows) + 2 => ReportWrite(Plan[Len(rows) + 2])
    <3>1. CASE Plan = Round2Output
      BY <1>1, <2>0, <3>1, Round2Writes
    <3>2. CASE Plan = Round2Output \o <<ReportOf(cmd.batch)>>
      BY <1>1, <2>0, <3>2, Round2Writes DEF ReportWrite
    <3> QED
      BY <2>1, <3>1, <3>2
  <2>3. \A i \in 1..Len(rows) : FileWrite(Plan[i + 1])
    BY <1>1, <2>2 DEF FileWrite
  <2>4. \A i \in 1..Len(Plan) :
          \/ i = 1 \/ (i = Len(rows) + 2 /\ Len(Plan) = Len(rows) + 2)
          \/ \E n \in 1..Len(rows) : i = n + 1
    <3> SUFFICES ASSUME NEW i \in 1..Len(Plan), i # 1, i # Len(rows) + 2
                 PROVE  \E n \in 1..Len(rows) : i = n + 1
      BY <2>0, <2>2
    <3>1. i - 1 \in 1..Len(rows) /\ i = (i - 1) + 1
      BY <2>0, <2>2
    <3> QED
      BY <3>1
  <2>5. \A i \in 1..Len(Plan) : Plan[i] = Appended \/ FileWrite(Plan[i]) \/ ReportWrite(Plan[i])
    BY <2>2, <2>3, <2>4
  <2> QED
    BY <1>1, <1>5, <2>2, <2>5
<1>6. CASE cmd.step \notin {"catalog", "write", "saving", "report"}
  BY <1>6 DEF Plan
<1> QED
  BY <1>2, <1>3, <1>4, <1>5, <1>6

LEMMA PlanTyped == ASSUME LaneType PROVE Plan \in Seq(Entry)
<1>1. rows \in Seq(Row)
  BY DEF LaneType
<1>2. cmd.step \in {"catalog", "write", "saving", "report"} => cmd.batch \in Batches
  BY DEF LaneType, NoCommand
<1>3. CASE cmd.step = "catalog"
  BY <1>2, <1>3, WritesTyped DEF Plan
<1>4. CASE cmd.step \in {"write", "saving", "report"}
  <2>1. RowFiles \in Seq(Entry)
    <3>1. DOMAIN rows = 1..Len(rows) /\ Len(rows) \in Nat
      BY <1>1
    <3> QED
      BY <3>1, WritesTyped DEF RowFiles
  <2>2. Appended \in Entry /\ ReportOf(cmd.batch) \in Entry
    BY <1>2, <1>4, WritesTyped
  <2>3. <<Appended>> \in Seq(Entry) /\ <<ReportOf(cmd.batch)>> \in Seq(Entry)
        /\ <<Appended, ReportOf(cmd.batch)>> \in Seq(Entry)
    BY <2>2
  <2>4. Output \in Seq(Entry) /\ Round2Output \in Seq(Entry)
        /\ Round2Output \o <<ReportOf(cmd.batch)>> \in Seq(Entry)
    BY <2>1, <2>3 DEF Output, Round2Output
  <2>5. Plan \in {Output, Round2Output, Round2Output \o <<ReportOf(cmd.batch)>>, <<ReportOf(cmd.batch)>>}
    BY <1>4 DEF Plan
  <2> QED
    BY <2>3, <2>4, <2>5
<1>5. CASE cmd.step \notin {"catalog", "write", "saving", "report"}
  BY <1>5 DEF Plan
<1> QED
  BY <1>3, <1>4, <1>5

\* Which command is in which step.
LEMMA StepKinds ==
    ASSUME LaneType
    PROVE  /\ cmd.step \in {"saving", "checkpoint"} => cmd.kind = "round2"
           /\ cmd.step = "report" => cmd.kind = "exact"
           /\ cmd.step = "discover" => cmd.kind = "collect"
           /\ cmd.step \in {"drain", "drained"} => cmd.kind = "campaign"
           /\ cmd.step \in {"loop", "write"} /\ cmd.kind = "round2" => cmd.batch \in Batches
           /\ cmd.step \in {"catalog", "execute"} => cmd.kind \in {"collect", "exact"}
           /\ cmd.step = "loop" => cmd.kind \in {"campaign", "round2"}
           /\ cmd.step # "idle" => cmd # NoCommand
           /\ cmd.step = "idle" => cmd = NoCommand
<1>1. CASE cmd = NoCommand
  BY <1>1 DEF NoCommand
<1>2. CASE cmd.kind = "collect" /\ cmd.step \in {"discover", "catalog", "execute", "write"}
           /\ cmd # NoCommand
  BY <1>2 DEF NoCommand
<1>3. CASE cmd.kind = "exact" /\ cmd.step \in {"catalog", "execute", "write", "report"}
           /\ cmd # NoCommand
  BY <1>3
<1>4. CASE cmd.kind = "campaign" /\ cmd.step \in {"loop", "drain", "drained", "write"}
           /\ cmd # NoCommand
  BY <1>4
<1>5. CASE cmd.kind = "round2" /\ cmd.step \in {"loop", "checkpoint", "saving", "write"}
           /\ cmd # NoCommand
  BY <1>5 DEF LaneType
<1>6. cmd # NoCommand => cmd.kind \in Kinds /\ cmd.step \in Steps[cmd.kind]
  BY DEF LaneType
<1> QED
  BY <1>1, <1>2, <1>3, <1>4, <1>5, <1>6 DEF Kinds, Steps

\* Where the manifest is in a plan, and what comes before it.
LEMMA PlanOrder ==
    ASSUME LaneType, RowsInv, NEW n \in 1..Len(Plan)
    PROVE  /\ Plan[n].path = Manifest =>
                /\ Plan[n] = Appended /\ Reading /\ cmd.step # "report"
                /\ \A i \in 1..Len(Plan) : Plan[i].path = Manifest => i = n
                /\ cmd.kind # "round2" => \A i \in DOMAIN rows : \E j \in 1..(n - 1) :
                     Plan[j] = Write(File(rows[i].kind, rows[i].page), <<rows[i].run>>)
           /\ \A k, p : Plan[n].path = File(k, p) =>
                /\ k = cmd.kind /\ Plan[n].content = <<cmd.run>> /\ Reading /\ cmd.step # "report"
                /\ \E i \in DOMAIN rows : rows[i].kind = k /\ rows[i].page = p
           /\ \A b : Plan[n].path = Report(b) =>
                /\ b = cmd.batch /\ Plan[n] = ReportOf(b) /\ Reading
                /\ cmd.step = "report" \/ \E j \in 1..(n - 1) : Plan[j].path = Manifest
<1> DEFINE FileOf(i) == Write(File(rows[i].kind, rows[i].page), <<rows[i].run>>)
<1>0. Len(rows) \in Nat /\ DOMAIN rows = 1..Len(rows)
  BY DEF LaneType
<1>1. /\ Appended.path = Manifest
      /\ \A i : FileOf(i).path = File(rows[i].kind, rows[i].page) /\ FileOf(i).content = <<rows[i].run>>
      /\ ReportOf(cmd.batch).path = Report(cmd.batch)
      /\ \A w : CatalogWrite(w) => w.path = Catalog(cmd.batch)
  BY DEF Appended, Write, ReportOf, CatalogWrite
<1> HIDE DEF FileOf
<1>2. \A i \in 1..Len(Plan) :
         /\ Plan[i].path = Manifest <=> Plan[i] = Appended
         /\ (\E b : Plan[i].path = Report(b)) => Plan[i] = ReportOf(cmd.batch)
         /\ (\E k, p : Plan[i].path = File(k, p)) => FileWrite(Plan[i])
  <2> SUFFICES ASSUME NEW i \in 1..Len(Plan)
               PROVE  /\ Plan[i].path = Manifest <=> Plan[i] = Appended
                      /\ (\E b : Plan[i].path = Report(b)) => Plan[i] = ReportOf(cmd.batch)
                      /\ (\E k, p : Plan[i].path = File(k, p)) => FileWrite(Plan[i])
    OBVIOUS
  <2>1. \/ Plan[i] = Appended \/ FileWrite(Plan[i]) \/ ReportWrite(Plan[i])
        \/ CatalogWrite(Plan[i])
    BY PlanWrites
  <2>2. CASE Plan[i] = Appended
    BY <1>1, <2>2, PathsApart
  <2>3. CASE FileWrite(Plan[i])
    <3>1. PICK m \in DOMAIN rows : Plan[i] = FileOf(m)
      BY <2>3 DEF FileWrite, FileOf
    <3>2. Plan[i].path = File(rows[m].kind, rows[m].page)
      BY <1>1, <3>1
    <3> QED
      BY <1>1, <2>3, <3>2, PathsApart
  <2>4. CASE ReportWrite(Plan[i])
    BY <1>1, <2>4, PathsApart DEF ReportWrite
  <2>5. CASE CatalogWrite(Plan[i])
    BY <1>1, <2>5, PathsApart
  <2> QED
    BY <2>1, <2>2, <2>3, <2>4, <2>5
<1>3. ASSUME Plan[n].path = Manifest
      PROVE  /\ Plan[n] = Appended /\ Reading /\ cmd.step # "report"
             /\ \A i \in 1..Len(Plan) : Plan[i].path = Manifest => i = n
             /\ cmd.kind # "round2" => \A i \in DOMAIN rows : \E j \in 1..(n - 1) : Plan[j] = FileOf(i)
  <2>0. Plan[n] = Appended /\ Len(Plan) \in Nat
    BY <1>2, <1>3, PlanWrites
  <2>a. \A i : FileOf(i) # Appended
    BY <1>1, PathsApart
  <2>b. \A w : CatalogWrite(w) \/ ReportWrite(w) => w # Appended
    BY <1>1, PathsApart DEF ReportWrite
  <2>1. cmd.step \in {"write", "saving"}
    BY <2>0, <2>b, PlanWrites
  <2>2. CASE cmd.step = "write" /\ cmd.kind # "round2"
    <3>1. /\ Len(Plan) = Len(rows) + 2 /\ \A i \in 1..Len(rows) : Plan[i] = FileOf(i)
          /\ ReportWrite(Plan[Len(rows) + 2])
      BY <2>2, PlanWrites DEF FileOf
    <3>2. \A i \in 1..Len(Plan) : Plan[i] = Appended => i = Len(rows) + 1
      BY <1>0, <2>a, <2>b, <3>1
    <3>3. \A i \in DOMAIN rows : i \in 1..(n - 1)
      BY <1>0, <2>0, <3>2
    <3> QED
      BY <1>0, <1>2, <2>0, <2>2, <3>1, <3>2, <3>3 DEF Reading
  <2>3. CASE (cmd.step = "write" /\ cmd.kind = "round2") \/ cmd.step = "saving"
    <3>1. /\ Len(Plan) \in {Len(rows) + 1, Len(rows) + 2}
          /\ \A i \in 1..Len(rows) : Plan[i + 1] = FileOf(i)
          /\ Len(Plan) = Len(rows) + 2 => ReportWrite(Plan[Len(rows) + 2])
      BY <2>3, PlanWrites DEF FileOf
    <3>2. \A i \in 1..Len(Plan) : Plan[i] = Appended => i = 1
      <4> SUFFICES ASSUME NEW i \in 1..Len(Plan), Plan[i] = Appended, i # 1
                   PROVE  FALSE
        OBVIOUS
      <4>1. (i - 1 \in 1..Len(rows) /\ i = (i - 1) + 1) \/ (i = Len(rows) + 2 /\ Len(Plan) = Len(rows) + 2)
        BY <1>0, <3>1
      <4> QED
        BY <2>a, <2>b, <3>1, <4>1
    <3>3. cmd.kind = "round2"
      BY <2>3, StepKinds
    <3> QED
      BY <1>2, <2>0, <2>3, <3>2, <3>3 DEF Reading
  <2> QED
    BY <2>1, <2>2, <2>3
<1>4. ASSUME NEW k, NEW p, Plan[n].path = File(k, p)
      PROVE  /\ k = cmd.kind /\ Plan[n].content = <<cmd.run>> /\ Reading /\ cmd.step # "report"
             /\ \E i \in DOMAIN rows : rows[i].kind = k /\ rows[i].page = p
  <2>1. PICK i \in DOMAIN rows : Plan[n] = FileOf(i)
    BY <1>2, <1>4 DEF FileWrite, FileOf
  <2>2. rows[i].kind = k /\ rows[i].page = p /\ Plan[n].content = <<rows[i].run>>
    BY <1>1, <1>4, <2>1, PathsApart
  <2>3. rows[i].run = cmd.run /\ rows[i].kind = cmd.kind
    BY DEF RowsInv
  <2>4. cmd.step \in {"write", "saving"}
    <3>1. Plan[n] # ReportOf(cmd.batch) /\ ~CatalogWrite(Plan[n])
      BY <1>1, <1>4, PathsApart
    <3> QED
      BY <3>1, PlanWrites DEF ReportWrite
  <2> QED
    BY <2>2, <2>3, <2>4 DEF Reading
<1>5. ASSUME NEW b, Plan[n].path = Report(b)
      PROVE  /\ b = cmd.batch /\ Plan[n] = ReportOf(b) /\ Reading
             /\ cmd.step = "report" \/ \E j \in 1..(n - 1) : Plan[j].path = Manifest
  <2>1. Plan[n] = ReportOf(cmd.batch) /\ b = cmd.batch
    BY <1>1, <1>2, <1>5, PathsApart
  <2>2. ~CatalogWrite(Plan[n]) /\ Plan[n] # Appended /\ \A i : Plan[n] # FileOf(i)
    BY <1>1, <1>5, PathsApart
  <2>3. cmd.step \in {"write", "saving", "report"}
    BY <2>2, PlanWrites
  <2>4. CASE cmd.step = "write" /\ cmd.kind # "round2"
    <3>1. /\ Len(Plan) = Len(rows) + 2 /\ \A i \in 1..Len(rows) : Plan[i] = FileOf(i)
          /\ Plan[Len(rows) + 1] = Appended
      BY <2>4, PlanWrites DEF FileOf
    <3>2. n = Len(rows) + 2
      BY <1>0, <2>2, <3>1
    <3> QED
      BY <1>0, <1>1, <2>1, <2>3, <3>1, <3>2 DEF Reading
  <2>5. CASE (cmd.step = "write" /\ cmd.kind = "round2") \/ cmd.step = "saving"
    <3>1. Plan[1] = Appended
      BY <2>5, PlanWrites
    <3>2. 1 \in 1..(n - 1)
      BY <2>2, <3>1, PlanWrites
    <3> QED
      BY <1>1, <2>1, <2>3, <3>1, <3>2 DEF Reading
  <2> QED
    BY <2>1, <2>3, <2>4, <2>5 DEF Reading
<1> QED
  BY <1>3, <1>4, <1>5 DEF FileOf

\* The report is the last write of a plan; writes of one file agree.
LEMMA PlanEnd ==
    ASSUME LaneType, RowsInv, NEW n \in 1..Len(Plan)
    PROVE  /\ \A b : Plan[n].path = Report(b) => n = Len(Plan)
           /\ Plan[n].path = Manifest /\ cmd.kind # "round2" =>
                \A i \in (n + 1)..Len(Plan) : Plan[i].path = Report(cmd.batch)
           /\ \A i \in 1..Len(Plan) : Plan[i].path = Plan[n].path => Plan[i].content = Plan[n].content
<1>0. Len(rows) \in Nat /\ DOMAIN rows = 1..Len(rows) /\ Len(Plan) \in Nat
  BY PlanWrites DEF LaneType
<1> DEFINE FileOf(i) == Write(File(rows[i].kind, rows[i].page), <<rows[i].run>>)
<1>1. /\ Appended.path = Manifest
      /\ \A i : FileOf(i).path = File(rows[i].kind, rows[i].page)
      /\ ReportOf(cmd.batch).path = Report(cmd.batch)
      /\ \A w : CatalogWrite(w) => w.path = Catalog(cmd.batch)
  BY DEF Appended, Write, ReportOf, CatalogWrite
<1> HIDE DEF FileOf
<1>2. ASSUME NEW b, Plan[n].path = Report(b)
      PROVE  n = Len(Plan)
  <2>1. Plan[n] # Appended /\ ~CatalogWrite(Plan[n]) /\ \A i : Plan[n] # FileOf(i)
    BY <1>1, <1>2, PathsApart
  <2>2. CASE cmd.step \in {"catalog", "report"}
    BY <2>2, PlanWrites
  <2>3. CASE cmd.step = "write" /\ cmd.kind # "round2"
    <3>1. /\ Len(Plan) = Len(rows) + 2 /\ \A i \in 1..Len(rows) : Plan[i] = FileOf(i)
          /\ Plan[Len(rows) + 1] = Appended
      BY <2>3, PlanWrites DEF FileOf
    <3> QED
      BY <1>0, <2>1, <3>1
  <2>4. CASE (cmd.step = "write" /\ cmd.kind = "round2") \/ cmd.step = "saving"
    <3>1. /\ Len(Plan) \in {Len(rows) + 1, Len(rows) + 2} /\ Plan[1] = Appended
          /\ \A i \in 1..Len(rows) : Plan[i + 1] = FileOf(i)
      BY <2>4, PlanWrites DEF FileOf
    <3>2. n # 1 /\ n - 1 \notin 1..Len(rows)
      <4>1. n - 1 \in 1..Len(rows) => Plan[n] = FileOf(n - 1)
        <5>1. (n - 1) + 1 = n
          BY <1>0
        <5> QED
          BY <3>1, <5>1
      <4> QED
        BY <2>1, <3>1, <4>1
    <3> QED
      BY <1>0, <3>1, <3>2
  <2>5. CASE cmd.step \notin {"catalog", "write", "saving", "report"}
    BY <2>5, PlanWrites
  <2> QED
    BY <2>2, <2>3, <2>4, <2>5
<1>3. ASSUME Plan[n].path = Manifest, cmd.kind # "round2", NEW i \in (n + 1)..Len(Plan)
      PROVE  Plan[i].path = Report(cmd.batch)
  <2>1. cmd.step = "write"
    <3>1. Plan[n] # ReportOf(cmd.batch) /\ ~CatalogWrite(Plan[n])
      BY <1>1, <1>3, PathsApart
    <3> QED
      BY <1>3, <3>1, PlanWrites, StepKinds DEF ReportWrite
  <2>2. /\ Len(Plan) = Len(rows) + 2 /\ \A k \in 1..Len(rows) : Plan[k] = FileOf(k)
        /\ Plan[Len(rows) + 2] = ReportOf(cmd.batch)
    BY <1>3, <2>1, PlanWrites DEF FileOf, ReportWrite
  <2>3. n \notin 1..Len(rows)
    BY <1>1, <1>3, <2>2, PathsApart
  <2> QED
    BY <1>0, <1>1, <2>2, <2>3
<1>4. ASSUME NEW i \in 1..Len(Plan), Plan[i].path = Plan[n].path
      PROVE  Plan[i].content = Plan[n].content
  <2>1. \A k \in 1..Len(Plan) :
          Plan[k] \in {Appended, ReportOf(cmd.batch), Write(Catalog(cmd.batch), catalog)} \/ FileWrite(Plan[k])
    BY PlanWrites DEF ReportWrite, CatalogWrite
  <2>2. \A k \in 1..Len(Plan) : FileWrite(Plan[k]) =>
          /\ Plan[k].content = <<cmd.run>> /\ Plan[k].path # Manifest
          /\ \A b : Plan[k].path # Report(b) /\ Plan[k].path # Catalog(b)
    <3> SUFFICES ASSUME NEW k \in 1..Len(Plan), FileWrite(Plan[k])
                 PROVE  /\ Plan[k].content = <<cmd.run>> /\ Plan[k].path # Manifest
                        /\ \A b : Plan[k].path # Report(b) /\ Plan[k].path # Catalog(b)
      OBVIOUS
    <3>1. PICK m \in DOMAIN rows : Plan[k] = FileOf(m)
      BY DEF FileWrite, FileOf
    <3>2. Plan[k].content = <<rows[m].run>>
      BY <3>1 DEF FileOf, Write
    <3>3. rows[m].run = cmd.run
      BY DEF RowsInv
    <3> QED
      BY <1>1, <3>1, <3>2, <3>3, PathsApart
  <2>3. Write(Catalog(cmd.batch), catalog).path = Catalog(cmd.batch)
    BY DEF Write
  <2>4. CASE FileWrite(Plan[n])
    BY <1>1, <1>4, <2>1, <2>2, <2>3, <2>4
  <2>5. CASE ~FileWrite(Plan[n])
    <3>1. ~FileWrite(Plan[i])
      BY <1>1, <1>4, <2>1, <2>2, <2>3, <2>5
    <3>2. Plan[i] = Plan[n]
      BY <1>1, <1>4, <2>1, <2>3, <2>5, <3>1, PathsApart
    <3> QED
      BY <3>2
  <2> QED
    BY <2>4, <2>5
<1> QED
  BY <1>2, <1>3, <1>4

-----------------------------------------------------------------------------
(* The ledger *)

LedgerOf(files, done) ==
    LET old == {i \in DOMAIN done : done[i].path = Manifest} IN
    IF old = {} THEN files[Manifest] ELSE done[Min(old)].content

LEMMA LedgerOne ==
    ASSUME NEW files, NEW done, NEW m \in DOMAIN done, DOMAIN done \subseteq Nat,
           done[m].path = Manifest, \A i \in DOMAIN done : done[i].path = Manifest => i = m
    PROVE  LedgerOf(files, done) = done[m].content
<1>1. {i \in DOMAIN done : done[i].path = Manifest} = {m}
  OBVIOUS
<1>2. Min({m}) = m
  BY DEF Min
<1> QED
  BY <1>1, <1>2 DEF LedgerOf

LEMMA LedgerNone ==
    ASSUME NEW files, NEW done, \A i \in DOMAIN done : done[i].path # Manifest
    PROVE  LedgerOf(files, done) = files[Manifest]
BY DEF LedgerOf

LEMMA LedgerMeans ==
    ASSUME LaneType, Progress, RowsInv
    PROVE  /\ Ledger = LedgerOf(disk, commit.done)
           /\ ~InDone(Manifest) => Ledger = disk[Manifest]
           /\ \A m \in DOMAIN commit.done : commit.done[m].path = Manifest =>
                /\ Ledger = commit.done[m].content
                /\ \A i \in DOMAIN commit.done : commit.done[i].path = Manifest => i = m
           /\ DOMAIN commit.done = 1..Len(commit.done)
           /\ Len(commit.done) \in Nat /\ Len(Plan) \in Nat /\ Len(commit.done) <= Len(Plan)
<1>1. Ledger = LedgerOf(disk, commit.done)
  BY DEF Ledger, LedgerOf
<1>2. commit.done \in Seq(Entry)
  BY DEF LaneType
<1>3. DOMAIN commit.done = 1..Len(commit.done) /\ Len(commit.done) \in Nat
  BY <1>2
<1>4. Len(Plan) \in Nat /\ Len(commit.done) <= Len(Plan)
  BY PlanWrites DEF Progress
<1>5. ASSUME NEW m \in DOMAIN commit.done, commit.done[m].path = Manifest
      PROVE  \A i \in DOMAIN commit.done : commit.done[i].path = Manifest => i = m
  <2>1. \A i \in DOMAIN commit.done : i \in 1..Len(Plan) /\ commit.done[i].path = Plan[i].path
    BY <1>3, <1>4 DEF Progress
  <2> QED
    BY <1>5, <2>1, PlanOrder
<1>6. \A m \in DOMAIN commit.done : commit.done[m].path = Manifest => Ledger = commit.done[m].content
  BY <1>1, <1>3, <1>5, LedgerOne
<1>7. ~InDone(Manifest) => Ledger = disk[Manifest]
  BY <1>1, LedgerNone DEF InDone
<1> QED
  BY <1>1, <1>3, <1>4, <1>5, <1>6, <1>7

\* The ledger, the rows before it and those to come, row by row.
LEMMA LedgerTyped ==
    ASSUME LaneType, Progress, RowsInv, LedgerInv
    PROVE  /\ Whole \in Seq(Row) /\ Ledger \in Seq(Row)
           /\ Len(Ledger) \in Nat /\ Len(Whole) \in Nat /\ Len(Ledger) <= Len(Whole)
           /\ \A i \in 1..Len(Ledger) : Ledger[i] = Whole[i]
           /\ disk[Manifest] \in {Ledger, Whole}
           /\ Reading =>
                /\ Len(base) \in Nat /\ Len(base) <= Len(Ledger)
                /\ \A i \in 1..Len(base) : Ledger[i] = base[i]
                /\ Len(Whole) = Len(base) + Len(rows)
                /\ \A i \in 1..Len(base) : Whole[i] = base[i]
                /\ \A i \in Len(base) + 1 .. Len(Whole) : Whole[i] = rows[i - Len(base)]
                /\ \A i \in 1..Len(rows) : Whole[Len(base) + i] = rows[i]
           /\ ~Reading => Ledger = Whole
<1>1. Whole \in Seq(Row) /\ Len(Whole) \in Nat
  BY DEF RowsInv, Sound
<1>2. Ledger \in Seq(Word)
  <2>1. CASE InDone(Manifest)
    <3>1. PICK m \in DOMAIN commit.done : commit.done[m].path = Manifest
      BY <2>1 DEF InDone
    <3>2. commit.done \in Seq(Entry)
      BY DEF LaneType
    <3>3. commit.done[m] \in Entry
      BY <3>2
    <3> QED
      BY <3>1, <3>3, LedgerMeans DEF Entry
  <2>2. CASE ~InDone(Manifest)
    BY <2>2, LedgerMeans, InPaths DEF LaneType
  <2> QED
    BY <2>1, <2>2
<1>3. Whole \in Seq(Word)
  BY <1>1 DEF Word
<1>4. /\ Len(Ledger) \in Nat /\ Len(Ledger) <= Len(Whole)
      /\ \A i \in 1..Len(Ledger) : Ledger[i] = Whole[i]
  BY <1>2, <1>3, PrefixMeans DEF LedgerInv
<1>5. Ledger \in Seq(Row)
  <2>1. \A i \in 1..Len(Ledger) : Ledger[i] \in Row
    <3>1. \A i \in 1..Len(Ledger) : i \in 1..Len(Whole)
      BY <1>1, <1>4
    <3> QED
      BY <1>1, <1>4, <3>1
  <2> QED
    BY <1>2, <2>1
<1>6. disk[Manifest] \in {Ledger, Whole}
  BY LedgerMeans DEF LedgerInv
<1>7. ASSUME Reading
      PROVE  /\ Len(base) \in Nat /\ Len(base) <= Len(Ledger)
             /\ \A i \in 1..Len(base) : Ledger[i] = base[i]
             /\ Len(Whole) = Len(base) + Len(rows)
             /\ \A i \in 1..Len(base) : Whole[i] = base[i]
             /\ \A i \in Len(base) + 1 .. Len(Whole) : Whole[i] = rows[i - Len(base)]
             /\ \A i \in 1..Len(rows) : Whole[Len(base) + i] = rows[i]
  <2>1. base \in Seq(Row) /\ rows \in Seq(Row) /\ Whole = base \o rows
    BY <1>7 DEF LaneType, Whole
  <2>2. Len(base) \in Nat /\ Len(rows) \in Nat
    BY <2>1
  <2>3. Len(base) <= Len(Ledger) /\ \A i \in 1..Len(base) : Ledger[i] = base[i]
    <3>1. IsPrefix(base, Ledger)
      BY <1>7 DEF LedgerInv
    <3> QED
      BY <1>5, <2>1, <3>1, PrefixMeans
  <2>4. /\ Len(Whole) = Len(base) + Len(rows)
        /\ \A i \in 1..Len(base) : Whole[i] = base[i]
        /\ \A i \in Len(base) + 1 .. Len(base) + Len(rows) : Whole[i] = rows[i - Len(base)]
    BY <2>1, WholeMeans
  <2>5. \A i \in 1..Len(rows) : Len(base) + i \in Len(base) + 1 .. Len(base) + Len(rows)
                                 /\ (Len(base) + i) - Len(base) = i
    BY <2>2
  <2>6. \A i \in 1..Len(rows) : Whole[Len(base) + i] = rows[i]
    BY <2>4, <2>5
  <2> QED
    BY <2>2, <2>3, <2>4, <2>6
<1>8. ~Reading => Ledger = Whole
  <2> SUFFICES ASSUME ~Reading PROVE Ledger = Whole
    OBVIOUS
  <2>1. ~InDone(Manifest)
    <3> SUFFICES ASSUME NEW m \in DOMAIN commit.done, commit.done[m].path = Manifest
                 PROVE  FALSE
      BY DEF InDone
    <3>1. m \in 1..Len(Plan) /\ Plan[m].path = Manifest
      BY LedgerMeans DEF Progress
    <3> QED
      BY <3>1, PlanOrder
  <2> QED
    BY <2>1, LedgerMeans DEF Whole
<1> QED
  BY <1>1, <1>4, <1>5, <1>6, <1>7, <1>8

\* What a write will add to the ledger is one portion.
LEMMA WholeAdds ==
    ASSUME LaneType, Progress, RowsInv, LedgerInv
    PROVE  Whole = Ledger \/ Promise!Portion(Ledger, Whole)
<1> SUFFICES ASSUME Whole # Ledger
             PROVE  Promise!Portion(Ledger, Whole)
  OBVIOUS
<1>1. Promise!IsStrictPrefix(Ledger, Whole)
  BY DEF LedgerInv, IsPrefix, Promise!IsPrefix, Promise!IsStrictPrefix
<1>2. Reading /\ cmd # NoCommand
  BY LedgerTyped, StepKinds DEF Reading
<1>3. ASSUME NEW i \in Len(Ledger) + 1 .. Len(Whole), NEW j \in 1..Len(Ledger),
             Ledger[j].run = Whole[i].run
      PROVE  Whole[i].kind = "round2"
  <2>1. i \in Len(base) + 1 .. Len(Whole) /\ Whole[i] = rows[i - Len(base)] /\ i - Len(base) \in DOMAIN rows
    <3>1. i \in Len(base) + 1 .. Len(Whole) /\ i - Len(base) \in 1..Len(rows)
      BY <1>2, LedgerTyped
    <3>2. DOMAIN rows = 1..Len(rows)
      BY DEF LaneType
    <3> QED
      BY <1>2, <3>1, <3>2, LedgerTyped
  <2>2. Whole[i].run = cmd.run /\ Whole[i].kind = cmd.kind
    BY <2>1 DEF RowsInv
  <2>3. CASE cmd.kind # "round2"
    <3>1. Ledger = base
      BY <1>2, <2>3, LedgerTyped DEF LedgerInv
    <3>2. DOMAIN base = 1..Len(base)
      BY DEF LaneType
    <3>3. base[j].run < cmd.run /\ base[j].run \in Nat /\ cmd.run \in Nat
      <4>1. base[j].run < cmd.run
        BY <1>2, <3>1, <3>2 DEF RowsInv
      <4>2. base[j] \in Row
        BY <3>1, <3>2 DEF LaneType
      <4>3. base[j].run \in Nat
        BY <4>2, LaneBounds DEF Row
      <4>4. cmd.run \in Nat
        BY <1>2, LaneBounds DEF LaneType
      <4> QED
        BY <4>1, <4>3, <4>4
    <3> QED
      BY <1>3, <2>2, <3>1, <3>3
  <2> QED
    BY <2>2, <2>3
<1>4. ASSUME NEW i \in Len(Ledger) + 1 .. Len(Whole), NEW j \in 1..(i - 1),
             Promise!Accepted(Whole[i]), Promise!Accepted(Whole[j])
      PROVE  Whole[i].page # Whole[j].page
  <2>1. i \in DOMAIN Whole /\ j \in DOMAIN Whole /\ j < i
    <3>1. DOMAIN Whole = 1..Len(Whole) /\ Len(Whole) \in Nat /\ Len(Ledger) \in Nat
      BY LedgerTyped
    <3> QED
      BY <3>1
  <2> QED
    BY <1>4, <2>1 DEF RowsInv, Sound, Promise!Accepted, Accepted
<1>5. \A i \in Len(Ledger) + 1 .. Len(Whole) :
        /\ \A j \in 1..Len(Ledger) : Ledger[j].run = Whole[i].run => Whole[i].kind = "round2"
        /\ \A j \in 1..(i - 1) :
             Promise!Accepted(Whole[i]) /\ Promise!Accepted(Whole[j]) => Whole[i].page # Whole[j].page
  <2> SUFFICES ASSUME NEW i \in Len(Ledger) + 1 .. Len(Whole)
               PROVE  /\ \A j \in 1..Len(Ledger) : Ledger[j].run = Whole[i].run => Whole[i].kind = "round2"
                      /\ \A j \in 1..(i - 1) : Promise!Accepted(Whole[i]) /\ Promise!Accepted(Whole[j])
                           => Whole[i].page # Whole[j].page
    OBVIOUS
  <2>1. \A j \in 1..Len(Ledger) : Ledger[j].run = Whole[i].run => Whole[i].kind = "round2"
    BY <1>3
  <2>2. \A j \in 1..(i - 1) : Promise!Accepted(Whole[i]) /\ Promise!Accepted(Whole[j])
          => Whole[i].page # Whole[j].page
    BY <1>4
  <2> QED
    BY <2>1, <2>2
<1> QED
  BY <1>1, <1>5 DEF Promise!Portion

-----------------------------------------------------------------------------
(* The properties of the disk *)

LEMMA ReportedMore ==
    ASSUME NEW m \in Seq(Row), NEW w \in Seq(Row), Len(m) <= Len(w),
           \A i \in 1..Len(m) : m[i] = w[i], NEW report, Reported(report, m)
    PROVE  Reported(report, w)
<1> SUFFICES ASSUME NEW i \in 2..Len(report)
             PROVE  \E j \in DOMAIN w : w[j].run = report[1] /\ w[j].page = report[i]
  BY DEF Reported
<1>1. PICK j \in DOMAIN m : m[j].run = report[1] /\ m[j].page = report[i]
  BY DEF Reported
<1>2. j \in 1..Len(m) /\ j \in DOMAIN w
  OBVIOUS
<1> QED
  BY <1>1, <1>2

LEMMA Settled ==
    ASSUME LaneType, Progress, RowsInv, LedgerInv, FilesInv, ReportsInv
    PROVE  /\ Evident(disk[Manifest], disk)
           /\ \A b \in Batches : Reported(disk[Report(b)], disk[Manifest])
<1>1. Evident(disk[Manifest], disk)
  BY LedgerMeans DEF FilesInv, LedgerInv
<1>2. ASSUME NEW b \in Batches
      PROVE  Reported(disk[Report(b)], disk[Manifest])
  <2>1. CASE InDone(Report(b))
    <3>1. Reported(disk[Report(b)], Whole) /\ (InDone(Manifest) \/ cmd.step = "report")
      BY <2>1 DEF ReportsInv
    <3>2. disk[Manifest] = Whole
      BY <3>1, LedgerTyped DEF LedgerInv
    <3> QED
      BY <3>1, <3>2
  <2>2. CASE ~InDone(Report(b))
    <3>1. Reported(disk[Report(b)], Ledger)
      BY <2>2 DEF ReportsInv
    <3>2. Reported(disk[Report(b)], Whole)
      BY <3>1, LedgerTyped, ReportedMore
    <3> QED
      BY <3>1, <3>2, LedgerTyped
  <2> QED
    BY <2>1, <2>2
<1> QED
  BY <1>1, <1>2

-----------------------------------------------------------------------------
(* atomic_write keeps the invariant, and leaves the ledger alone *)

\* What depends on the command alone.
LEMMA CommandFrame ==
    ASSUME UNCHANGED <<cmd, base, rows, catalog, known>>, Used' = Used,
           Reading \/ disk'[Manifest] = disk[Manifest], RowsInv
    PROVE  Plan' = Plan /\ Whole' = Whole /\ (Reading' <=> Reading) /\ RowsInv'
<1>1. Reading' <=> Reading
  BY DEF Reading
<1>2. Whole' = Whole
  BY <1>1 DEF Whole
<1>3. Plan' = Plan
  <2>1. Appended' = Appended /\ RowFiles' = RowFiles /\ \A b : ReportOf(b)' = ReportOf(b)
    BY DEF Appended, RowFiles, ReportOf
  <2>2. Output' = Output /\ Round2Output' = Round2Output /\ ReportOf(cmd.batch)' = ReportOf(cmd.batch)
    BY <2>1 DEF Output, Round2Output, ReportOf
  <2> QED
    BY <2>2 DEF Plan
<1>4. Sound(Whole)'
  BY <1>2 DEF RowsInv, Sound
<1>5. (IF Reading THEN base ELSE disk[Manifest])' = IF Reading THEN base ELSE disk[Manifest]
  BY <1>1
<1>6. RowsInv'
  BY <1>1, <1>4, <1>5 DEF RowsInv, PagesIn
<1> QED
  BY <1>1, <1>2, <1>3, <1>6

LEMMA NoSub ==
    ASSUME NEW S, NEW s \in Seq(S), NEW n \in Nat, n > Len(s)
    PROVE  SubSeq(s, n, Len(s)) = <<>>
<1>1. SubSeq(s, n, Len(s)) \in Seq(S) /\ Len(SubSeq(s, n, Len(s))) = 0
  OBVIOUS
<1> QED
  BY <1>1

LEMMA NothingAfter == ASSUME NEW S, NEW s \in Seq(S) PROVE s \o <<>> = s
<1>1. s \o <<>> \in Seq(S) /\ Len(s \o <<>>) = Len(s) /\ \A i \in 1..Len(s) : (s \o <<>>)[i] = s[i]
  OBVIOUS
<1> QED
  BY <1>1

LEMMA SubLen ==
    ASSUME NEW S, NEW s \in Seq(S), NEW n \in Nat, n <= Len(s)
    PROVE  Len(SubSeq(s, n + 1, Len(s))) = Len(s) - n
OBVIOUS

LEMMA TailSub ==
    ASSUME NEW S, NEW s \in Seq(S), NEW n \in 1..Len(s)
    PROVE  Tail(SubSeq(s, n, Len(s))) = SubSeq(s, n + 1, Len(s)) /\ SubSeq(s, n + 1, Len(s)) \in Seq(S)
<1> DEFINE m == Len(s)
           a == SubSeq(s, n, m)
           b == SubSeq(s, n + 1, m)
<1>1. m \in Nat /\ n \in Nat /\ n <= m
  OBVIOUS
<1>2. a \in Seq(S) /\ Len(a) = (m - n) + 1 /\ \A i \in 1..((m - n) + 1) : a[i] = s[n + i - 1]
  BY <1>1
<1>3. b \in Seq(S) /\ Len(b) = m - n /\ \A i \in 1..(m - n) : b[i] = s[n + i]
  BY <1>1
<1> HIDE DEF a, b, m
<1>4. Tail(a) \in Seq(S) /\ Len(Tail(a)) = m - n /\ \A i \in 1..(m - n) : Tail(a)[i] = a[i + 1]
  BY <1>1, <1>2
<1>5. \A i \in 1..(m - n) : Tail(a)[i] = b[i]
  <2> SUFFICES ASSUME NEW i \in 1..(m - n) PROVE Tail(a)[i] = b[i]
    OBVIOUS
  <2>1. i + 1 \in 1..((m - n) + 1) /\ n + (i + 1) - 1 = n + i
    BY <1>1
  <2> QED
    BY <1>2, <1>3, <1>4, <2>1
<1>6. Tail(a) = b
  BY <1>1, <1>3, <1>4, <1>5
<1> QED
  BY <1>3, <1>6 DEF a, b, m

\* The state that one replacement reaches.
LEMMA ReplaceMeans ==
    ASSUME LaneType, Progress, RowsInv, ReplaceFile, UNCHANGED <<batchVars, campaignVars>>,
           NEW n, n = Len(commit.done) + 1
    PROVE  /\ n \in 1..Len(Plan) /\ Plan[n] \in Entry
           /\ disk' \in [Paths -> Seq(Word)]
           /\ disk'[Plan[n].path] = Plan[n].content
           /\ \A path \in Paths \ {Plan[n].path} : disk'[path] = disk[path]
           /\ commit' \in [todo : Seq(Entry), done : Seq(Entry), restoring : BOOLEAN]
           /\ commit'.todo = SubSeq(Plan, n + 1, Len(Plan)) /\ ~commit.restoring /\ ~commit'.restoring
           /\ DOMAIN commit'.done = 1..n /\ Len(commit'.done) = n
           /\ \A i \in 1..(n - 1) : commit'.done[i] = commit.done[i]
           /\ commit'.done[n].path = Plan[n].path /\ commit'.done[n].content = disk[Plan[n].path]
           /\ DOMAIN commit.done = 1..(n - 1)
<1> DEFINE w == Head(commit.todo)
           e == Write(w.path, disk[w.path])
<1>1. /\ commit.done \in Seq(Entry) /\ commit.todo \in Seq(Entry) /\ commit.restoring \in BOOLEAN
      /\ disk \in [Paths -> Seq(Word)]
  BY DEF LaneType
<1>2. Plan \in Seq(Entry) /\ Len(Plan) \in Nat /\ n \in Nat /\ Len(commit.done) = n - 1
  BY <1>1, PlanTyped
<1>3. ~commit.restoring /\ commit.todo = SubSeq(Plan, n, Len(Plan)) /\ commit.todo # <<>>
  BY DEF Progress, ReplaceFile
<1>4. n \in 1..Len(Plan)
  <2>1. Len(commit.done) <= Len(Plan)
    BY DEF Progress
  <2>2. n > Len(Plan) => SubSeq(Plan, n, Len(Plan)) = <<>>
    BY <1>2, NoSub
  <2>3. n >= 1
    BY <1>1
  <2>4. ~(n > Len(Plan))
    BY <1>3, <2>2
  <2> QED
    BY <1>2, <2>3, <2>4
<1>5. w = Plan[n] /\ Plan[n] \in Entry
  BY <1>2, <1>3, <1>4
<1>6. Tail(commit.todo) = SubSeq(Plan, n + 1, Len(Plan)) /\ Tail(commit.todo) \in Seq(Entry)
  BY <1>1, <1>2, <1>3, <1>4, TailSub
<1>7. w.path \in Paths /\ w.content \in Seq(Word) /\ disk[w.path] \in Seq(Word)
  BY <1>1, <1>5 DEF Entry
<1>8. e \in Entry /\ e.path = w.path /\ e.content = disk[w.path]
  BY <1>7 DEF Write, Entry
<1> HIDE DEF e
<1>9. disk' = [disk EXCEPT ![w.path] = w.content]
  BY DEF ReplaceFile
<1>10. commit' = [commit EXCEPT !.todo = Tail(@), !.done = Append(@, e)]
  BY DEF ReplaceFile, e
<1> HIDE DEF w
<1>11. /\ commit'.todo = Tail(commit.todo) /\ commit'.done = Append(commit.done, e)
       /\ commit'.restoring = commit.restoring
       /\ commit' = [todo |-> commit'.todo, done |-> commit'.done, restoring |-> commit'.restoring]
  BY <1>10 DEF LaneType
<1>12. /\ Append(commit.done, e) \in Seq(Entry) /\ Len(Append(commit.done, e)) = n
       /\ DOMAIN Append(commit.done, e) = 1..n /\ DOMAIN commit.done = 1..(n - 1)
       /\ Append(commit.done, e)[n] = e
       /\ \A i \in 1..(n - 1) : Append(commit.done, e)[i] = commit.done[i]
  BY <1>1, <1>2, <1>8
<1>13. /\ disk' \in [Paths -> Seq(Word)] /\ disk'[w.path] = w.content
       /\ \A path \in Paths \ {w.path} : disk'[path] = disk[path]
  BY <1>1, <1>7, <1>9
<1>14. commit' \in [todo : Seq(Entry), done : Seq(Entry), restoring : BOOLEAN]
  BY <1>1, <1>6, <1>11, <1>12
<1> QED
  BY <1>3, <1>4, <1>5, <1>6, <1>8, <1>11, <1>12, <1>13, <1>14

LEMMA ReplaceKeeps1 ==
    ASSUME LaneType, Progress, RowsInv, LedgerInv,
           ReplaceFile, UNCHANGED <<batchVars, campaignVars>>
    PROVE  /\ LaneType' /\ Progress' /\ RowsInv' /\ LedgerInv'
           /\ Plan' = Plan /\ Whole' = Whole /\ Ledger' = Ledger
<1> DEFINE n == Len(commit.done) + 1
<1>1. /\ n \in 1..Len(Plan) /\ Plan[n] \in Entry
      /\ disk' \in [Paths -> Seq(Word)]
      /\ disk'[Plan[n].path] = Plan[n].content
      /\ \A path \in Paths \ {Plan[n].path} : disk'[path] = disk[path]
      /\ commit' \in [todo : Seq(Entry), done : Seq(Entry), restoring : BOOLEAN]
      /\ commit'.todo = SubSeq(Plan, n + 1, Len(Plan)) /\ ~commit.restoring /\ ~commit'.restoring
      /\ DOMAIN commit'.done = 1..n /\ Len(commit'.done) = n
      /\ \A i \in 1..(n - 1) : commit'.done[i] = commit.done[i]
      /\ commit'.done[n].path = Plan[n].path /\ commit'.done[n].content = disk[Plan[n].path]
      /\ DOMAIN commit.done = 1..(n - 1)
  BY ReplaceMeans
<1> HIDE DEF n
<1>2. UNCHANGED <<cmd, base, rows, catalog, known, budget>> /\ Used' = Used
  BY DEF ReplaceFile, batchVars, campaignVars, Used
<1>3. Reading \/ disk'[Manifest] = disk[Manifest]
  BY <1>1, PlanOrder, InPaths
<1>4. Plan' = Plan /\ Whole' = Whole /\ (Reading' <=> Reading) /\ RowsInv'
  BY <1>2, <1>3, CommandFrame
<1>5. LaneType'
  BY <1>1, <1>2 DEF LaneType
<1>6. Progress'
  <2>1. Len(commit'.done) <= Len(Plan')
    BY <1>1, <1>4
  <2>2. \A i \in 1..(n - 1) : commit.done[i].path = Plan[i].path /\ disk[Plan[i].path] = Plan[i].content
    BY <1>1 DEF Progress
  <2>3. \A i \in 1..n : i \in 1..(n - 1) \/ i = n
    BY <1>1
  <2>4. \A i \in 1..n : commit'.done[i].path = Plan[i].path
    BY <1>1, <2>2, <2>3
  <2>5. \A i \in 1..n : disk'[Plan[i].path] = Plan[i].content
    <3> SUFFICES ASSUME NEW i \in 1..(n - 1), Plan[i].path # Plan[n].path
                 PROVE  disk'[Plan[i].path] = Plan[i].content
      <4>1. \A i \in 1..(n - 1) : i \in 1..Len(Plan)
        BY <1>1
      <4> QED
        BY <1>1, <2>3, <4>1, PlanEnd
    <3>1. i \in 1..Len(Plan) /\ Plan \in Seq(Entry)
      BY <1>1, PlanTyped
    <3>2. Plan[i] \in Entry
      BY <3>1
    <3>3. Plan[i].path \in Paths
      BY <3>2 DEF Entry
    <3> QED
      BY <1>1, <2>2, <3>3
  <2> QED
    BY <1>1, <1>4, <2>1, <2>4, <2>5 DEF Progress
<1>7. Ledger = LedgerOf(disk, commit.done) /\ Ledger' = LedgerOf(disk', commit'.done)
  BY DEF Ledger, LedgerOf
<1>8. \A i \in 1..(n - 1) : commit.done[i].path = Plan[i].path /\ i \in 1..Len(Plan) /\ i # n
  <2>1. \A i \in 1..(n - 1) : i \in 1..Len(Plan) /\ i # n
    BY <1>1, LedgerMeans
  <2> QED
    BY <1>1, <2>1 DEF Progress
<1>9. \A i \in 1..n : i \in 1..(n - 1) \/ i = n
  BY <1>1
<1>10. CASE Plan[n].path = Manifest
  <2>0. \A i \in 1..Len(Plan) : Plan[i].path = Manifest => i = n
    BY <1>1, <1>10, PlanOrder
  <2>a. \A i \in DOMAIN commit.done : commit.done[i].path # Manifest
    BY <1>1, <1>8, <2>0
  <2>1. /\ \A i \in DOMAIN commit.done : commit.done[i].path # Manifest
        /\ \A i \in DOMAIN commit'.done : commit'.done[i].path = Manifest => i = n
    BY <1>1, <1>9, <2>a
  <2>2. Ledger = disk[Manifest] /\ Ledger' = commit'.done[n].content
    <3>1. n \in DOMAIN commit'.done /\ DOMAIN commit'.done \subseteq Nat
      BY <1>1
    <3>2. commit'.done[n].path = Manifest
      BY <1>1, <1>10
    <3>3. LedgerOf(disk', commit'.done) = commit'.done[n].content
      BY <2>1, <3>1, <3>2, LedgerOne
    <3>4. LedgerOf(disk, commit.done) = disk[Manifest]
      BY <2>1, LedgerNone
    <3> QED
      BY <1>7, <3>3, <3>4
  <2>3. Ledger' = Ledger
    BY <1>1, <1>10, <2>2
  <2>4. disk'[Manifest] = Whole
    <3>1. Plan[n] = Appended /\ Reading
      BY <1>1, <1>10, PlanOrder
    <3> QED
      BY <1>1, <1>10, <3>1 DEF Appended, Write, Whole
  <2>5. LedgerInv'
    BY <1>2, <1>4, <2>3, <2>4 DEF LedgerInv
  <2> QED
    BY <1>4, <1>5, <1>6, <2>3, <2>5
<1>11. CASE Plan[n].path # Manifest
  <2>1. disk'[Manifest] = disk[Manifest]
    BY <1>1, <1>11, InPaths
  <2>2. \A i : i \in DOMAIN commit'.done /\ commit'.done[i].path = Manifest
           <=> i \in DOMAIN commit.done /\ commit.done[i].path = Manifest
    BY <1>1, <1>9, <1>11
  <2>3. InDone(Manifest)' <=> InDone(Manifest)
    BY <2>2 DEF InDone
  <2>4. Ledger' = Ledger
    <3>1. CASE InDone(Manifest)
      <4>1. PICK m \in DOMAIN commit.done : commit.done[m].path = Manifest
        BY <3>1 DEF InDone
      <4>2. \A i \in DOMAIN commit.done : commit.done[i].path = Manifest => i = m
        BY <4>1, LedgerMeans
      <4>3. m \in 1..(n - 1) /\ m \in DOMAIN commit'.done /\ commit'.done[m].path = Manifest
            /\ DOMAIN commit'.done \subseteq Nat
        BY <1>1, <2>2, <4>1
      <4>4. \A i \in DOMAIN commit'.done : commit'.done[i].path = Manifest => i = m
        BY <2>2, <4>2
      <4>5. Ledger = commit.done[m].content /\ Ledger' = commit'.done[m].content
        BY <1>7, <4>1, <4>3, <4>4, LedgerMeans, LedgerOne
      <4> QED
        BY <1>1, <4>3, <4>5
    <3>2. CASE ~InDone(Manifest)
      <4>1. /\ \A i \in DOMAIN commit.done : commit.done[i].path # Manifest
            /\ \A i \in DOMAIN commit'.done : commit'.done[i].path # Manifest
        BY <2>2, <3>2 DEF InDone
      <4> QED
        BY <1>7, <2>1, <4>1, LedgerNone
    <3> QED
      BY <3>1, <3>2
  <2>5. LedgerInv'
    BY <1>2, <1>4, <2>1, <2>3, <2>4 DEF LedgerInv
  <2> QED
    BY <1>4, <1>5, <1>6, <2>4, <2>5
<1> QED
  BY <1>10, <1>11

\* A file that a command replaces is evidence of none of the ledger's rows, but
\* for those of an earlier collect.
LEMMA ReplacedFiles ==
    ASSUME LaneType, Progress, RowsInv, LedgerInv, NEW n \in 1..Len(Plan),
           NEW j \in 1..Len(Ledger), Ledger[j].kind # "round2",
           Plan[n].path = File(Ledger[j].kind, Ledger[j].page)
    PROVE  Ledger[j].kind = "collect" /\ Plan[n].content = <<cmd.run>>
<1>1. /\ Ledger[j].kind = cmd.kind /\ Plan[n].content = <<cmd.run>> /\ Reading /\ cmd.step # "report"
      /\ Ledger[j].page \in PagesIn(rows)
  BY PlanOrder DEF PagesIn
<1>2. Ledger = base /\ cmd # NoCommand /\ cmd.kind \in Kinds
  BY <1>1, StepKinds DEF LedgerInv, Reading, LaneType
<1>3. j \in DOMAIN base /\ base[j].page \in PagesIn(base)
  BY <1>2 DEF PagesIn, LaneType
<1>4. cmd.kind # "exact"
  BY <1>1, <1>2, <1>3 DEF RowsInv
<1>5. cmd.kind # "campaign"
  <2>1. cmd.kind = "campaign" => PagesIn(base) \cap PagesIn(rows) = {}
    BY DEF RowsInv
  <2> QED
    BY <1>1, <1>2, <1>3, <2>1
<1> QED
  BY <1>1, <1>2, <1>4, <1>5 DEF Kinds

\* Once the manifest is in place, so is the evidence of all its rows.
LEMMA EvidentWhole ==
    ASSUME LaneType, Progress, RowsInv, LedgerInv, NEW files, NEW m \in 1..Len(Plan),
           Plan[m].path = Manifest, Evident(Ledger, files),
           \A i \in 1..(m - 1) : files[Plan[i].path] = Plan[i].content
    PROVE  Evident(Whole, files)
<1>1. Reading /\ cmd.step # "report"
  BY PlanOrder
<1> SUFFICES ASSUME NEW j \in DOMAIN Whole, Whole[j].kind # "round2"
             PROVE  /\ files[File(Whole[j].kind, Whole[j].page)] # <<>>
                    /\ Whole[j].kind # "collect" => files[File(Whole[j].kind, Whole[j].page)] = <<Whole[j].run>>
  BY DEF Evident
<1>2. j \in 1..Len(Whole)
  BY LedgerTyped
<1>3. CASE j \in 1..Len(Ledger)
  <2>1. j \in DOMAIN Ledger /\ Ledger[j] = Whole[j]
    BY <1>3, LedgerTyped
  <2> QED
    BY <2>1 DEF Evident
<1>4. CASE j \notin 1..Len(Ledger)
  <2>1. j \in Len(base) + 1 .. Len(Whole) /\ j - Len(base) \in DOMAIN rows
    <3>1. j \in Len(base) + 1 .. Len(Whole) /\ j - Len(base) \in 1..Len(rows)
      BY <1>1, <1>2, <1>4, LedgerTyped
    <3> QED
      BY <3>1 DEF LaneType
  <2> DEFINE i == j - Len(base)
  <2>2. Whole[j] = rows[i] /\ rows[i].kind = cmd.kind
    BY <1>1, <2>1, LedgerTyped DEF RowsInv
  <2>3. PICK k \in 1..(m - 1) : Plan[k] = Write(File(rows[i].kind, rows[i].page), <<rows[i].run>>)
    BY <2>1, <2>2, PlanOrder
  <2>4. files[File(rows[i].kind, rows[i].page)] = <<rows[i].run>>
    BY <2>3 DEF Write
  <2> QED
    BY <2>2, <2>4
<1> QED
  BY <1>3, <1>4

\* The report that a command writes speaks of its own rows.
LEMMA OwnReport ==
    ASSUME LaneType, Progress, RowsInv, LedgerInv, Reading
    PROVE  Reported(ReportOf(cmd.batch).content, Whole)
<1> DEFINE report == <<cmd.run>> \o [i \in DOMAIN rows |-> rows[i].page]
<1>1. rows \in Seq(Row) /\ DOMAIN rows = 1..Len(rows) /\ Len(rows) \in Nat
  BY DEF LaneType
<1>2. /\ Len(report) = Len(rows) + 1 /\ report[1] = cmd.run
      /\ \A i \in 2..(Len(rows) + 1) : report[i] = rows[i - 1].page
  <2> DEFINE t == [i \in DOMAIN rows |-> rows[i].page]
  <2>1. t \in Seq(Pages) /\ Len(t) = Len(rows) /\ \A i \in 1..Len(rows) : t[i] = rows[i].page
    <3>1. \A i \in 1..Len(rows) : rows[i] \in Row
      BY <1>1
    <3>2. \A i \in 1..Len(rows) : rows[i].page \in Pages
      BY <3>1 DEF Row
    <3> QED
      BY <1>1, <3>2
  <2> HIDE DEF t
  <2>2. /\ Len(<<cmd.run>> \o t) = Len(rows) + 1 /\ (<<cmd.run>> \o t)[1] = cmd.run
        /\ \A i \in 2..(Len(rows) + 1) : (<<cmd.run>> \o t)[i] = t[i - 1]
    BY <1>1, <2>1
  <2>3. \A i \in 2..(Len(rows) + 1) : i - 1 \in 1..Len(rows)
    BY <1>1
  <2>4. report = <<cmd.run>> \o t
    BY DEF t
  <2> HIDE DEF report
  <2> QED
    BY <2>1, <2>2, <2>3, <2>4
<1> HIDE DEF report
<1>3. ASSUME NEW i \in 2..Len(report)
      PROVE  \E j \in DOMAIN Whole : Whole[j].run = report[1] /\ Whole[j].page = report[i]
  <2>1. i - 1 \in DOMAIN rows /\ report[i] = rows[i - 1].page /\ i - 1 \in 1..Len(rows)
    BY <1>1, <1>2
  <2>2. Whole[Len(base) + (i - 1)] = rows[i - 1] /\ Len(base) + (i - 1) \in DOMAIN Whole
    <3>1. Len(base) + (i - 1) \in 1..Len(Whole) /\ DOMAIN Whole = 1..Len(Whole)
      BY <1>1, <2>1, LedgerTyped
    <3> QED
      BY <2>1, <3>1, LedgerTyped
  <2>3. rows[i - 1].run = cmd.run
    BY <2>1 DEF RowsInv
  <2> QED
    BY <1>2, <2>1, <2>2, <2>3
<1>4. ReportOf(cmd.batch).content = report
  BY DEF ReportOf, Write, report
<1> QED
  BY <1>3, <1>4 DEF Reported

LEMMA ReplaceKeeps2 ==
    ASSUME LaneType, Progress, RowsInv, LedgerInv, FilesInv, ReportsInv,
           ReplaceFile, UNCHANGED <<batchVars, campaignVars>>
    PROVE  FilesInv' /\ ReportsInv'
<1> DEFINE n == Len(commit.done) + 1
<1>1. /\ n \in 1..Len(Plan) /\ Plan[n] \in Entry
      /\ disk'[Plan[n].path] = Plan[n].content
      /\ \A path \in Paths \ {Plan[n].path} : disk'[path] = disk[path]
      /\ DOMAIN commit'.done = 1..n /\ Len(commit'.done) = n /\ ~commit'.restoring
      /\ \A i \in 1..(n - 1) : commit'.done[i] = commit.done[i]
      /\ commit'.done[n].path = Plan[n].path /\ commit'.done[n].content = disk[Plan[n].path]
      /\ DOMAIN commit.done = 1..(n - 1)
  BY ReplaceMeans
<1>2. /\ Progress' /\ Plan' = Plan /\ Whole' = Whole /\ Ledger' = Ledger
      /\ UNCHANGED cmd
  BY ReplaceKeeps1 DEF ReplaceFile
<1>3. \A i \in 1..n : disk'[Plan[i].path] = Plan[i].content /\ commit'.done[i].path = Plan[i].path
  BY <1>1, <1>2 DEF Progress
<1> HIDE DEF n
<1>0. Len(Plan) \in Nat /\ n \in Nat /\ \A i \in 1..n : i \in 1..Len(Plan)
  BY <1>1, LedgerMeans
<1>4. /\ \A i \in 1..n : i \in 1..(n - 1) \/ i = n
      /\ \A path : InDone(path)' => InDone(path) \/ path = Plan[n].path
      /\ \A path : InDone(path) => InDone(path)'
      /\ \A path : path = Plan[n].path => InDone(path)'
  <2>1. /\ \A i \in 1..n : i \in 1..(n - 1) \/ i = n
        /\ n \in 1..n /\ \A i \in 1..(n - 1) : i \in 1..n
    BY <1>0, <1>1
  <2>2. ASSUME NEW path PROVE InDone(path)' => InDone(path) \/ path = Plan[n].path
    <3> SUFFICES ASSUME NEW i \in 1..n, commit'.done[i].path = path
                 PROVE  InDone(path) \/ path = Plan[n].path
      BY <1>1 DEF InDone
    <3> QED
      BY <1>1, <2>1 DEF InDone
  <2>3. ASSUME NEW path PROVE InDone(path) => InDone(path)'
    BY <1>1, <2>1 DEF InDone
  <2>4. ASSUME NEW path, path = Plan[n].path PROVE InDone(path)'
    BY <1>1, <2>1, <2>4 DEF InDone
  <2> QED
    BY <2>1, <2>2, <2>3, <2>4
<1>5. Ledger \in Seq(Row) /\ DOMAIN Ledger = 1..Len(Ledger)
  BY LedgerTyped
<1>6. \A j \in DOMAIN Ledger : Ledger[j] \in Row /\ Ledger[j].kind \in Kinds /\ Ledger[j].page \in Pages
  <2>1. \A j \in DOMAIN Ledger : Ledger[j] \in Row
    BY <1>5
  <2> QED
    BY <2>1 DEF Row
<1>7. Evident(Ledger, disk')
  <2> SUFFICES ASSUME NEW j \in DOMAIN Ledger, Ledger[j].kind # "round2"
               PROVE  /\ disk'[File(Ledger[j].kind, Ledger[j].page)] # <<>>
                      /\ Ledger[j].kind # "collect" =>
                           disk'[File(Ledger[j].kind, Ledger[j].page)] = <<Ledger[j].run>>
    BY DEF Evident
  <2>1. /\ disk[File(Ledger[j].kind, Ledger[j].page)] # <<>>
        /\ Ledger[j].kind # "collect" => disk[File(Ledger[j].kind, Ledger[j].page)] = <<Ledger[j].run>>
    BY DEF FilesInv, Evident
  <2>2. CASE Plan[n].path = File(Ledger[j].kind, Ledger[j].page)
    <3>1. Ledger[j].kind = "collect" /\ Plan[n].content = <<cmd.run>>
      BY <1>1, <1>5, <2>2, ReplacedFiles
    <3>2. disk'[File(Ledger[j].kind, Ledger[j].page)] = <<cmd.run>>
      BY <1>1, <2>2, <3>1
    <3> QED
      BY <3>1, <3>2
  <2>3. CASE Plan[n].path # File(Ledger[j].kind, Ledger[j].page)
    <3>1. File(Ledger[j].kind, Ledger[j].page) \in Paths
      BY <1>6, InPaths
    <3> QED
      BY <1>1, <2>1, <2>3, <3>1
  <2> QED
    BY <2>2, <2>3
<1>8. InDone(Manifest)' => Evident(Whole, disk')
  <2> SUFFICES ASSUME NEW m \in 1..n, Plan[m].path = Manifest
               PROVE  Evident(Whole, disk')
    BY <1>1, <1>3 DEF InDone
  <2>1. m \in 1..Len(Plan) /\ \A i \in 1..(m - 1) : i \in 1..n
    BY <1>0
  <2>2. \A i \in 1..(m - 1) : disk'[Plan[i].path] = Plan[i].content
    BY <1>3, <2>1
  <2> QED
    BY <1>7, <2>1, <2>2, EvidentWhole
<1>9. \A i \in DOMAIN commit'.done, j \in DOMAIN Ledger :
         Ledger[j].kind # "round2" /\ commit'.done[i].path = File(Ledger[j].kind, Ledger[j].page)
           => Ledger[j].kind = "collect" /\ commit'.done[i].content # <<>>
  <2> SUFFICES ASSUME NEW i \in 1..n, NEW j \in DOMAIN Ledger, Ledger[j].kind # "round2",
                      commit'.done[i].path = File(Ledger[j].kind, Ledger[j].page)
               PROVE  Ledger[j].kind = "collect" /\ commit'.done[i].content # <<>>
    BY <1>1
  <2>1. CASE i \in 1..(n - 1)
    BY <1>1, <2>1 DEF FilesInv
  <2>2. CASE i = n
    <3>1. Ledger[j].kind = "collect"
      BY <1>1, <1>5, <2>2, ReplacedFiles
    <3>2. disk[File(Ledger[j].kind, Ledger[j].page)] # <<>>
      BY DEF FilesInv, Evident
    <3> QED
      BY <1>1, <2>2, <3>1, <3>2
  <2> QED
    BY <1>4, <2>1, <2>2
<1>10. FilesInv'
  BY <1>2, <1>7, <1>8, <1>9 DEF FilesInv, Evident
<1>11. ASSUME NEW b \in Batches
       PROVE  /\ ~InDone(Report(b))' => Reported(disk'[Report(b)], Ledger)
              /\ InDone(Report(b))' => /\ Reported(disk'[Report(b)], Whole)
                                       /\ InDone(Manifest)' \/ cmd.step = "report"
              /\ \A i \in 1..n : commit'.done[i].path = Report(b) => Reported(commit'.done[i].content, Ledger)
  <2>1. CASE Plan[n].path = Report(b)
    <3>1. /\ b = cmd.batch /\ Plan[n] = ReportOf(b) /\ Reading
          /\ cmd.step = "report" \/ \E j \in 1..(n - 1) : Plan[j].path = Manifest
      BY <1>1, <2>1, PlanOrder
    <3>2. Reported(disk'[Report(b)], Whole)
      BY <1>1, <2>1, <3>1, OwnReport
    <3>3. InDone(Manifest)' \/ cmd.step = "report"
      <4>1. \A j \in 1..(n - 1) : j \in 1..n
        BY <1>0
      <4> QED
        BY <1>1, <1>3, <3>1, <4>1 DEF InDone
    <3>4. ~InDone(Report(b))
      <4> SUFFICES ASSUME NEW i \in 1..(n - 1), commit.done[i].path = Report(b)
                   PROVE  FALSE
        BY <1>1 DEF InDone
      <4>1. i \in 1..Len(Plan) /\ i < n
        BY <1>0, <1>1
      <4>2. Plan[i].path = Report(b)
        BY <1>1 DEF Progress
      <4> QED
        BY <1>0, <1>1, <2>1, <4>1, <4>2, PlanEnd
    <3>5. Reported(disk[Report(b)], Ledger) /\ \A i \in 1..(n - 1) : commit.done[i].path # Report(b)
      BY <1>1, <3>4 DEF ReportsInv, InDone
    <3>6. \A i \in 1..n : commit'.done[i].path = Report(b) => Reported(commit'.done[i].content, Ledger)
      BY <1>1, <1>4, <2>1, <3>5
    <3> QED
      BY <1>4, <2>1, <3>2, <3>3, <3>6
  <2>2. CASE Plan[n].path # Report(b)
    <3>1. disk'[Report(b)] = disk[Report(b)] /\ (InDone(Report(b))' <=> InDone(Report(b)))
      BY <1>1, <1>4, <2>2, InPaths
    <3>2. \A i \in 1..n : commit'.done[i].path = Report(b) => Reported(commit'.done[i].content, Ledger)
      BY <1>1, <1>4, <2>2 DEF ReportsInv
    <3> QED
      BY <1>4, <3>1, <3>2 DEF ReportsInv
  <2> QED
    BY <2>1, <2>2
<1>12. ReportsInv'
  <2>1. \A b \in Batches : /\ ~InDone(Report(b))' => Reported(disk[Report(b)], Ledger)'
                           /\ InDone(Report(b))' => /\ Reported(disk[Report(b)], Whole)'
                                                    /\ InDone(Manifest)' \/ cmd'.step = "report"
    BY <1>2, <1>11 DEF Reported
  <2>2. \A b \in Batches, i \in DOMAIN commit'.done :
          commit'.done[i].path = Report(b) => Reported(commit.done[i].content, Ledger)'
    <3> SUFFICES ASSUME NEW b \in Batches, NEW i \in DOMAIN commit'.done, commit'.done[i].path = Report(b)
                 PROVE  Reported(commit'.done[i].content, Ledger')
      BY DEF Reported
    <3> QED
      BY <1>1, <1>2, <1>11
  <2> QED
    BY <2>1, <2>2 DEF ReportsInv
<1> QED
  BY <1>10, <1>12

LaneInv ==
    /\ LaneType /\ Progress /\ RowsInv
    /\ LedgerInv /\ FilesInv /\ ReportsInv

\* Steps that touch neither the disk nor the command: a failing replacement, and
\* the worker threads.
LEMMA StandStill ==
    ASSUME LaneInv, UNCHANGED <<disk, cmd, base, rows, catalog, known>>,
           budget' \in [runs : 0..MaxRuns, troubles : Nat], budget'.runs = budget.runs,
           \/ commit' = commit
           \/ commit' = [commit EXCEPT !.todo = <<>>, !.restoring = TRUE]
    PROVE  LaneInv' /\ Ledger' = Ledger
<1> USE DEF LaneInv
<1>1. /\ commit'.done = commit.done
      /\ commit' \in [todo : Seq(Entry), done : Seq(Entry), restoring : BOOLEAN]
      /\ commit' = commit \/ (commit'.restoring /\ commit'.todo = <<>>)
  <2>1. commit \in [todo : Seq(Entry), done : Seq(Entry), restoring : BOOLEAN]
    BY DEF LaneType
  <2>2. CASE commit' = commit
    BY <2>1, <2>2
  <2>3. CASE commit' = [commit EXCEPT !.todo = <<>>, !.restoring = TRUE]
    <3>1. <<>> \in Seq(Entry)
      OBVIOUS
    <3>2. commit'.done = commit.done /\ commit'.restoring = TRUE /\ commit'.todo = <<>>
      BY <2>1, <2>3
    <3> QED
      BY <2>1, <2>3, <3>1, <3>2
  <2> QED
    BY <2>2, <2>3
<1>2. Used' = Used
  BY DEF Used
<1>3. Plan' = Plan /\ Whole' = Whole /\ (Reading' <=> Reading) /\ RowsInv'
  BY <1>2, CommandFrame
<1>4. LaneType'
  BY <1>1, <1>2 DEF LaneType
<1>5. Progress'
  BY <1>1, <1>3 DEF Progress
<1>6. Ledger' = Ledger
  BY <1>1 DEF Ledger
<1>7. \A path : InDone(path)' <=> InDone(path)
  BY <1>1 DEF InDone
<1>8. LedgerInv'
  BY <1>3, <1>6, <1>7 DEF LedgerInv
<1>9. FilesInv'
  <2>1. Evident(Ledger, disk)' /\ (InDone(Manifest) => Evident(Whole, disk)')
    BY <1>3, <1>6 DEF FilesInv, Evident
  <2> QED
    BY <1>1, <1>6, <1>7, <2>1 DEF FilesInv
<1>10. ReportsInv'
  BY <1>1, <1>3, <1>6, <1>7 DEF ReportsInv, Reported
<1> QED
  BY <1>3, <1>4, <1>5, <1>6, <1>8, <1>9, <1>10

\* The state that undoing one replacement reaches.
LEMMA RestoreMeans ==
    ASSUME LaneType, Progress, RowsInv, RestoreFile, NEW n, n = Len(commit.done)
    PROVE  /\ n \in 1..Len(Plan) /\ Plan[n] \in Entry /\ commit.done[n].path = Plan[n].path
           /\ disk' \in [Paths -> Seq(Word)]
           /\ disk'[Plan[n].path] = commit.done[n].content
           /\ \A path \in Paths \ {Plan[n].path} : disk'[path] = disk[path]
           /\ commit' \in [todo : Seq(Entry), done : Seq(Entry), restoring : BOOLEAN]
           /\ commit'.todo = <<>> /\ commit.restoring /\ commit'.restoring
           /\ DOMAIN commit'.done = 1..(n - 1) /\ Len(commit'.done) = n - 1
           /\ \A i \in 1..(n - 1) : commit'.done[i] = commit.done[i]
           /\ DOMAIN commit.done = 1..n
<1> DEFINE e == commit.done[n]
           d == RemoveAt(commit.done, n)
<1>1. /\ commit.done \in Seq(Entry) /\ commit.todo = <<>> /\ commit.restoring
      /\ disk \in [Paths -> Seq(Word)] /\ commit.done # <<>>
  BY DEF LaneType, Progress, RestoreFile
<1>2. n \in Nat /\ n >= 1 /\ Len(Plan) \in Nat /\ n <= Len(Plan) /\ DOMAIN commit.done = 1..n
  BY <1>1, PlanTyped DEF Progress
<1>3. e \in Entry /\ e.path = Plan[n].path /\ Plan[n] \in Entry
  BY <1>1, <1>2, PlanTyped DEF Progress
<1>4. d \in Seq(Entry) /\ Len(d) = n - 1 /\ \A i \in 1..(n - 1) : d[i] = commit.done[i]
  <2>1. d = SubSeq(commit.done, 1, n - 1) \o SubSeq(commit.done, n + 1, n)
    BY <1>2 DEF RemoveAt
  <2>2. SubSeq(commit.done, n + 1, n) = <<>>
    BY <1>1, <1>2, NoSub
  <2>3. SubSeq(commit.done, 1, n - 1) \in Seq(Entry) /\ Len(SubSeq(commit.done, 1, n - 1)) = n - 1
        /\ \A i \in 1..(n - 1) : SubSeq(commit.done, 1, n - 1)[i] = commit.done[i]
    BY <1>1, <1>2
  <2>4. d = SubSeq(commit.done, 1, n - 1)
    BY <2>1, <2>2, <2>3, NothingAfter
  <2> QED
    BY <2>3, <2>4
<1>5. disk' = [disk EXCEPT ![e.path] = e.content] /\ commit' = [commit EXCEPT !.done = d]
  BY DEF RestoreFile, LastDone
<1>6. e.path \in Paths /\ e.content \in Seq(Word)
  BY <1>3 DEF Entry
<1> HIDE DEF d, e
<1>7. /\ commit'.done = d /\ commit'.todo = commit.todo /\ commit'.restoring = commit.restoring
      /\ commit' \in [todo : Seq(Entry), done : Seq(Entry), restoring : BOOLEAN]
  BY <1>4, <1>5 DEF LaneType
<1>8. /\ disk' \in [Paths -> Seq(Word)] /\ disk'[e.path] = e.content
      /\ \A path \in Paths \ {e.path} : disk'[path] = disk[path]
  BY <1>1, <1>5, <1>6
<1> QED
  BY <1>1, <1>2, <1>3, <1>4, <1>7, <1>8 DEF e

LEMMA RestoreKeeps1 ==
    ASSUME LaneType, Progress, RowsInv, LedgerInv,
           RestoreFile, UNCHANGED <<batchVars, campaignVars>>
    PROVE  /\ LaneType' /\ Progress' /\ RowsInv' /\ LedgerInv'
           /\ Plan' = Plan /\ Whole' = Whole /\ Ledger' = Ledger
<1> DEFINE n == Len(commit.done)
<1>1. /\ n \in 1..Len(Plan) /\ Plan[n] \in Entry /\ commit.done[n].path = Plan[n].path
      /\ disk' \in [Paths -> Seq(Word)]
      /\ disk'[Plan[n].path] = commit.done[n].content
      /\ \A path \in Paths \ {Plan[n].path} : disk'[path] = disk[path]
      /\ commit' \in [todo : Seq(Entry), done : Seq(Entry), restoring : BOOLEAN]
      /\ commit'.todo = <<>> /\ commit.restoring /\ commit'.restoring
      /\ DOMAIN commit'.done = 1..(n - 1) /\ Len(commit'.done) = n - 1
      /\ \A i \in 1..(n - 1) : commit'.done[i] = commit.done[i]
      /\ DOMAIN commit.done = 1..n
  BY RestoreMeans
<1> HIDE DEF n
<1>2. UNCHANGED <<cmd, base, rows, catalog, known, budget>> /\ Used' = Used
  BY DEF RestoreFile, batchVars, campaignVars, Used
<1>3. Reading \/ disk'[Manifest] = disk[Manifest]
  BY <1>1, PlanOrder, InPaths
<1>4. Plan' = Plan /\ Whole' = Whole /\ (Reading' <=> Reading) /\ RowsInv'
  BY <1>2, <1>3, CommandFrame
<1>5. LaneType'
  BY <1>1, <1>2 DEF LaneType
<1>0. n \in Nat /\ n >= 1 /\ Len(Plan) \in Nat /\ n <= Len(Plan)
      /\ \A i \in 1..(n - 1) : i \in 1..n /\ i # n /\ i \in 1..Len(Plan)
  BY <1>1, LedgerMeans
<1>a. \A i \in 1..n : commit.done[i].path = Plan[i].path
  BY <1>1 DEF Progress
<1>6. Progress'
  <2>1. Len(commit'.done) <= Len(Plan)
    BY <1>0, <1>1
  <2>2. \A i \in 1..(n - 1) : commit'.done[i].path = Plan[i].path
    BY <1>0, <1>1, <1>a
  <2> QED
    BY <1>1, <1>4, <2>1, <2>2 DEF Progress
<1>7. Ledger = LedgerOf(disk, commit.done) /\ Ledger' = LedgerOf(disk', commit'.done)
  BY DEF Ledger, LedgerOf
<1>8. \A i \in 1..n : i \in 1..(n - 1) \/ i = n
  BY <1>0
<1>10. CASE Plan[n].path = Manifest
  <2>0. \A i \in 1..Len(Plan) : Plan[i].path = Manifest => i = n
    BY <1>1, <1>10, PlanOrder
  <2>a. \A i \in 1..(n - 1) : commit.done[i].path # Manifest
    BY <1>0, <1>a, <2>0
  <2>1. \A i \in DOMAIN commit'.done : commit'.done[i].path # Manifest
    BY <1>1, <2>a
  <2>2. LedgerOf(disk', commit'.done) = disk'[Manifest]
    BY <2>1, LedgerNone
  <2>3. Ledger = commit.done[n].content
    <3>1. n \in DOMAIN commit.done /\ commit.done[n].path = Manifest
      BY <1>0, <1>1, <1>10
    <3> QED
      BY <3>1, LedgerMeans
  <2>4. Ledger' = Ledger
    BY <1>1, <1>7, <1>10, <2>2, <2>3
  <2>5. ~InDone(Manifest)'
    BY <2>1 DEF InDone
  <2>6. LedgerInv'
    BY <1>2, <1>4, <2>4, <2>5 DEF LedgerInv
  <2> QED
    BY <1>4, <1>5, <1>6, <2>4, <2>6
<1>11. CASE Plan[n].path # Manifest
  <2>1. disk'[Manifest] = disk[Manifest]
    BY <1>1, <1>11, InPaths
  <2>2. \A i : i \in DOMAIN commit'.done /\ commit'.done[i].path = Manifest
           <=> i \in DOMAIN commit.done /\ commit.done[i].path = Manifest
    BY <1>0, <1>1, <1>8, <1>11
  <2>3. InDone(Manifest)' <=> InDone(Manifest)
    BY <2>2 DEF InDone
  <2>4. Ledger' = Ledger
    <3>1. CASE InDone(Manifest)
      <4>1. PICK m \in DOMAIN commit.done : commit.done[m].path = Manifest
        BY <3>1 DEF InDone
      <4>2. \A i \in DOMAIN commit.done : commit.done[i].path = Manifest => i = m
        BY <4>1, LedgerMeans
      <4>3. m \in 1..(n - 1) /\ m \in DOMAIN commit'.done /\ commit'.done[m].path = Manifest
            /\ DOMAIN commit'.done \subseteq Nat
        BY <1>1, <2>2, <4>1
      <4>4. \A i \in DOMAIN commit'.done : commit'.done[i].path = Manifest => i = m
        BY <2>2, <4>2
      <4>5. Ledger = commit.done[m].content /\ Ledger' = commit'.done[m].content
        BY <1>7, <4>1, <4>3, <4>4, LedgerMeans, LedgerOne
      <4> QED
        BY <1>1, <4>3, <4>5
    <3>2. CASE ~InDone(Manifest)
      <4>1. /\ \A i \in DOMAIN commit.done : commit.done[i].path # Manifest
            /\ \A i \in DOMAIN commit'.done : commit'.done[i].path # Manifest
        BY <2>2, <3>2 DEF InDone
      <4> QED
        BY <1>7, <2>1, <4>1, LedgerNone
    <3> QED
      BY <3>1, <3>2
  <2>5. LedgerInv'
    BY <1>2, <1>4, <2>1, <2>3, <2>4 DEF LedgerInv
  <2> QED
    BY <1>4, <1>5, <1>6, <2>4, <2>5
<1> QED
  BY <1>10, <1>11

LEMMA RestoreKeeps2 ==
    ASSUME LaneType, Progress, RowsInv, LedgerInv, FilesInv, ReportsInv,
           RestoreFile, UNCHANGED <<batchVars, campaignVars>>
    PROVE  FilesInv' /\ ReportsInv'
<1> DEFINE n == Len(commit.done)
<1>1. /\ n \in 1..Len(Plan) /\ Plan[n] \in Entry /\ commit.done[n].path = Plan[n].path
      /\ disk'[Plan[n].path] = commit.done[n].content
      /\ \A path \in Paths \ {Plan[n].path} : disk'[path] = disk[path]
      /\ DOMAIN commit'.done = 1..(n - 1)
      /\ \A i \in 1..(n - 1) : commit'.done[i] = commit.done[i]
      /\ DOMAIN commit.done = 1..n
  BY RestoreMeans
<1>2. /\ Plan' = Plan /\ Whole' = Whole /\ Ledger' = Ledger
      /\ UNCHANGED cmd
  BY RestoreKeeps1 DEF RestoreFile
<1> HIDE DEF n
<1>0. n \in Nat /\ n >= 1 /\ Len(Plan) \in Nat /\ n <= Len(Plan)
      /\ \A i \in 1..(n - 1) : i \in 1..n /\ i < n /\ i \in 1..Len(Plan)
  BY <1>1, LedgerMeans
<1>a. \A i \in 1..n : commit.done[i].path = Plan[i].path
  BY <1>1 DEF Progress
<1>3. ASSUME NEW path
      PROVE  /\ InDone(path)' => \E i \in 1..(n - 1) : commit.done[i].path = path
             /\ InDone(path) => InDone(path)' \/ path = Plan[n].path
  <2>1. InDone(path)' => \E i \in 1..(n - 1) : commit.done[i].path = path
    BY <1>1 DEF InDone
  <2>2. InDone(path) => InDone(path)' \/ path = Plan[n].path
    <3> SUFFICES ASSUME NEW i \in 1..n, commit.done[i].path = path, i # n
                 PROVE  InDone(path)'
      BY <1>1 DEF InDone
    <3>1. i \in 1..(n - 1)
      BY <1>0
    <3> QED
      BY <1>1, <3>1 DEF InDone
  <2> QED
    BY <2>1, <2>2
<1>4. Ledger \in Seq(Row) /\ DOMAIN Ledger = 1..Len(Ledger)
  BY LedgerTyped
<1>5. \A j \in DOMAIN Ledger : Ledger[j] \in Row /\ Ledger[j].kind \in Kinds /\ Ledger[j].page \in Pages
  <2>1. \A j \in DOMAIN Ledger : Ledger[j] \in Row
    BY <1>4
  <2> QED
    BY <2>1 DEF Row
<1>6. n \in 1..n
  BY <1>0
<1>7. Evident(Ledger, disk')
  <2> SUFFICES ASSUME NEW j \in DOMAIN Ledger, Ledger[j].kind # "round2"
               PROVE  /\ disk'[File(Ledger[j].kind, Ledger[j].page)] # <<>>
                      /\ Ledger[j].kind # "collect" =>
                           disk'[File(Ledger[j].kind, Ledger[j].page)] = <<Ledger[j].run>>
    BY DEF Evident
  <2>1. /\ disk[File(Ledger[j].kind, Ledger[j].page)] # <<>>
        /\ Ledger[j].kind # "collect" => disk[File(Ledger[j].kind, Ledger[j].page)] = <<Ledger[j].run>>
    BY DEF FilesInv, Evident
  <2>2. CASE Plan[n].path = File(Ledger[j].kind, Ledger[j].page)
    <3>1. Ledger[j].kind = "collect" /\ commit.done[n].content # <<>>
      BY <1>1, <1>6, <2>2 DEF FilesInv
    <3> QED
      BY <1>1, <2>2, <3>1
  <2>3. CASE Plan[n].path # File(Ledger[j].kind, Ledger[j].page)
    <3>1. File(Ledger[j].kind, Ledger[j].page) \in Paths
      BY <1>5, InPaths
    <3> QED
      BY <1>1, <2>1, <2>3, <3>1
  <2> QED
    BY <2>2, <2>3
<1>8. InDone(Manifest)' => Evident(Whole, disk')
  <2> SUFFICES ASSUME NEW m \in 1..(n - 1), Plan[m].path = Manifest
               PROVE  Evident(Whole, disk')
    BY <1>0, <1>3, <1>a
  <2>1. Evident(Whole, disk)
    <3>1. InDone(Manifest)
      BY <1>0, <1>1, <1>a DEF InDone
    <3> QED
      BY <3>1 DEF FilesInv
  <2>2. m \in 1..Len(Plan) /\ n \in (m + 1)..Len(Plan)
    BY <1>0
  <2>3. \A k, p : Plan[n].path = File(k, p) => k = "round2"
    <3>1. cmd.kind # "round2" => Plan[n].path = Report(cmd.batch)
      BY <2>2, PlanEnd
    <3> QED
      BY <1>1, <3>1, PlanOrder, PathsApart
  <2> SUFFICES ASSUME NEW j \in DOMAIN Whole, Whole[j].kind # "round2"
               PROVE  /\ disk'[File(Whole[j].kind, Whole[j].page)] # <<>>
                      /\ Whole[j].kind # "collect" =>
                           disk'[File(Whole[j].kind, Whole[j].page)] = <<Whole[j].run>>
    BY DEF Evident
  <2>4. Whole[j] \in Row
    <3>1. Whole \in Seq(Row)
      BY LedgerTyped
    <3> QED
      BY <3>1
  <2>5. File(Whole[j].kind, Whole[j].page) \in Paths
    BY <2>4, InPaths DEF Row
  <2>6. disk'[File(Whole[j].kind, Whole[j].page)] = disk[File(Whole[j].kind, Whole[j].page)]
    BY <1>1, <2>3, <2>5
  <2> QED
    BY <2>1, <2>6 DEF Evident
<1>9. \A i \in DOMAIN commit'.done, j \in DOMAIN Ledger :
         Ledger[j].kind # "round2" /\ commit'.done[i].path = File(Ledger[j].kind, Ledger[j].page)
           => Ledger[j].kind = "collect" /\ commit'.done[i].content # <<>>
  BY <1>0, <1>1 DEF FilesInv
<1>10. FilesInv'
  <2>1. Evident(Ledger, disk)' /\ (InDone(Manifest)' => Evident(Whole, disk)')
    BY <1>2, <1>7, <1>8 DEF Evident
  <2> QED
    BY <1>2, <1>9, <2>1 DEF FilesInv
<1>11. ASSUME NEW b \in Batches
       PROVE  /\ ~InDone(Report(b))' /\ Reported(disk'[Report(b)], Ledger)
              /\ \A i \in 1..(n - 1) : commit'.done[i].path = Report(b) => Reported(commit'.done[i].content, Ledger)
  <2>1. ~InDone(Report(b))'
    <3> SUFFICES ASSUME NEW i \in 1..(n - 1), Plan[i].path = Report(b)
                 PROVE  FALSE
      BY <1>0, <1>3, <1>a
    <3>1. i = Len(Plan)
      BY <1>0, PlanEnd
    <3> QED
      BY <1>0, <3>1
  <2>2. CASE Plan[n].path = Report(b)
    <3>1. Reported(commit.done[n].content, Ledger)
      BY <1>1, <1>6, <2>2 DEF ReportsInv
    <3>2. Reported(disk'[Report(b)], Ledger)
      BY <1>1, <2>2, <3>1
    <3> QED
      BY <1>0, <1>1, <2>1, <3>2 DEF ReportsInv
  <2>3. CASE Plan[n].path # Report(b)
    <3>1. disk'[Report(b)] = disk[Report(b)] /\ ~InDone(Report(b))
      BY <1>1, <1>3, <2>1, <2>3, InPaths
    <3> QED
      BY <1>0, <1>1, <2>1, <3>1 DEF ReportsInv
  <2> QED
    BY <2>2, <2>3
<1>12. ReportsInv'
  <2>1. \A b \in Batches : ~InDone(Report(b))' /\ Reported(disk[Report(b)], Ledger)'
    BY <1>2, <1>11 DEF Reported
  <2>2. \A b \in Batches, i \in DOMAIN commit'.done :
          commit'.done[i].path = Report(b) => Reported(commit.done[i].content, Ledger)'
    <3> SUFFICES ASSUME NEW b \in Batches, NEW i \in DOMAIN commit'.done, commit'.done[i].path = Report(b)
                 PROVE  Reported(commit'.done[i].content, Ledger')
      BY DEF Reported
    <3> QED
      BY <1>1, <1>2, <1>11
  <2> QED
    BY <2>1, <2>2 DEF ReportsInv
<1> QED
  BY <1>10, <1>12

LEMMA WritingKeeps ==
    ASSUME LaneInv, Writing
    PROVE  LaneInv' /\ Ledger' = Ledger
<1>1. CASE ReplaceFile
  BY <1>1, ReplaceKeeps1, ReplaceKeeps2 DEF Writing, LaneInv
<1>2. CASE RestoreFile
  BY <1>2, RestoreKeeps1, RestoreKeeps2 DEF Writing, LaneInv
<1>3. CASE FailReplace
  <2>1. UNCHANGED <<disk, cmd, base, rows, catalog, known>>
    BY <1>3 DEF FailReplace, Writing, batchVars, campaignVars
  <2>2. budget \in [runs : 0..MaxRuns, troubles : Nat] /\ budget.troubles > 0
        /\ budget' = [budget EXCEPT !.troubles = budget.troubles - 1]
    BY <1>3 DEF FailReplace, LaneInv, LaneType
  <2>3. budget' \in [runs : 0..MaxRuns, troubles : Nat] /\ budget'.runs = budget.runs
    BY <2>2
  <2>4. commit' = [commit EXCEPT !.todo = <<>>, !.restoring = TRUE]
    BY <1>3 DEF FailReplace
  <2> QED
    BY <2>1, <2>3, <2>4, StandStill
<1> QED
  BY <1>1, <1>2, <1>3 DEF Writing

-----------------------------------------------------------------------------
(* Steps outside atomic_write *)

LEMMA SoundPart ==
    ASSUME NEW w, Sound(w), NEW m \in Seq(Row), Len(m) <= Len(w), \A i \in 1..Len(m) : m[i] = w[i]
    PROVE  Sound(m)
<1>1. w \in Seq(Row) /\ DOMAIN w = 1..Len(w) /\ DOMAIN m = 1..Len(m) /\ Len(w) \in Nat /\ Len(m) \in Nat
  BY DEF Sound
<1>2. \A i \in DOMAIN m : i \in DOMAIN w /\ m[i] = w[i]
  BY <1>1
<1> QED
  BY <1>2 DEF Sound

\* When no replacement is pending, the ledger is the manifest.
LEMMA Settles ==
    ASSUME LaneInv, UNCHANGED disk, commit'.done = <<>>
    PROVE  /\ Ledger' = disk[Manifest] /\ disk[Manifest] \in Seq(Row) /\ Sound(disk[Manifest])
           /\ \A path : ~InDone(path)'
           /\ FilesInv' /\ ReportsInv'
           /\ Ledger' = Ledger \/ Promise!Portion(Ledger, Ledger')
<1> USE DEF LaneInv
<1>1. \A path : ~InDone(path)'
  BY DEF InDone
<1>2. Ledger' = disk[Manifest]
  <2>1. Ledger' = LedgerOf(disk', commit'.done)
    BY DEF Ledger, LedgerOf
  <2> QED
    BY <2>1, LedgerNone
<1>3. disk[Manifest] \in {Ledger, Whole} /\ disk[Manifest] \in Seq(Row)
  BY LedgerTyped
<1>4. Sound(disk[Manifest])
  <2>1. Sound(Whole)
    BY DEF RowsInv
  <2>2. Sound(Ledger)
    BY <2>1, LedgerTyped, SoundPart
  <2> QED
    BY <1>3, <2>1, <2>2
<1>5. Ledger' = Ledger \/ Promise!Portion(Ledger, Ledger')
  BY <1>2, <1>3, WholeAdds
<1>6. FilesInv'
  <2>1. Evident(Ledger, disk)'
    BY <1>2, Settled DEF Evident
  <2>2. DOMAIN commit'.done = {}
    OBVIOUS
  <2> QED
    BY <1>1, <2>1, <2>2 DEF FilesInv
<1>7. ReportsInv'
  <2>1. \A b \in Batches : Reported(disk[Report(b)], Ledger)'
    BY <1>2, Settled DEF Reported
  <2>2. DOMAIN commit'.done = {}
    OBVIOUS
  <2> QED
    BY <1>1, <2>1, <2>2 DEF ReportsInv
<1> QED
  BY <1>1, <1>2, <1>3, <1>4, <1>5, <1>6, <1>7

\* A write that begins, or none.
LEMMA Fresh ==
    ASSUME commit'.done = <<>>, Plan' \in Seq(Entry),
           \/ commit'.restoring /\ commit'.todo = <<>>
           \/ ~commit'.restoring /\ commit'.todo = Plan'
    PROVE  Progress'
<1>1. Len(Plan') \in Nat /\ Len(commit'.done) = 0 /\ DOMAIN commit'.done = {}
  OBVIOUS
<1>2. SubSeq(Plan', 1, Len(Plan')) = Plan'
  OBVIOUS
<1>3. SubSeq(Plan', Len(commit'.done) + 1, Len(Plan')) = Plan'
  BY <1>1, <1>2
<1> QED
  BY <1>1, <1>3 DEF Progress

\* A step outside atomic_write that says how the manifest relates to its rows.
LEMMA Between ==
    ASSUME LaneInv, UNCHANGED disk, commit'.done = <<>>, Plan' \in Seq(Entry),
           \/ commit'.restoring /\ commit'.todo = <<>>
           \/ ~commit'.restoring /\ commit'.todo = Plan',
           LaneType', RowsInv',
           IsPrefix(disk[Manifest], Whole'), Reading' => IsPrefix(base', disk[Manifest]),
           cmd'.step = "report" => disk[Manifest] = Whole',
           Reading' /\ cmd'.kind # "round2" /\ cmd'.step # "report" => disk[Manifest] = base'
    PROVE  LaneInv' /\ (Ledger' = Ledger \/ Promise!Portion(Ledger, Ledger'))
<1>1. Progress'
  BY Fresh
<1>2. /\ Ledger' = disk[Manifest] /\ \A path : ~InDone(path)'
      /\ FilesInv' /\ ReportsInv'
      /\ Ledger' = Ledger \/ Promise!Portion(Ledger, Ledger')
  BY Settles
<1>3. LedgerInv'
  BY <1>2 DEF LedgerInv
<1> QED
  BY <1>1, <1>2, <1>3 DEF LaneInv

\* Outside a write nothing is pending, and the manifest is the ledger.
LEMMA Unwritten ==
    ASSUME LaneInv, cmd.step \notin {"catalog", "write", "saving", "report"}
    PROVE  /\ Plan = <<>> /\ commit.done = <<>> /\ commit.todo = <<>>
           /\ Ledger = disk[Manifest]
<1> USE DEF LaneInv
<1>1. Plan = <<>>
  BY PlanWrites
<1>2. commit.done \in Seq(Entry) /\ Len(commit.done) <= Len(Plan)
  BY DEF LaneType, Progress
<1>3. commit.done = <<>>
  BY <1>1, <1>2
<1>4. commit.todo = <<>>
  <2>1. Plan \in Seq(Entry) /\ Len(commit.done) = 0 /\ SubSeq(Plan, 1, Len(Plan)) = Plan
    BY <1>1, <1>3
  <2> QED
    BY <1>1, <2>1 DEF Progress
<1>5. Ledger = disk[Manifest]
  BY <1>3, LedgerNone DEF Ledger, LedgerOf
<1> QED
  BY <1>1, <1>3, <1>4, <1>5

\* The outputs, as values.
LEMMA OutputTyped ==
    ASSUME LaneType, cmd.batch \in Batches
    PROVE  /\ Output \in Seq(Entry) /\ Round2Output \in Seq(Entry)
           /\ Round2Output \o <<ReportOf(cmd.batch)>> \in Seq(Entry)
           /\ <<ReportOf(cmd.batch)>> \in Seq(Entry)
           /\ <<Write(Catalog(cmd.batch), catalog)>> \in Seq(Entry)
<1>1. RowFiles \in Seq(Entry)
  <2>1. DOMAIN rows = 1..Len(rows) /\ Len(rows) \in Nat
    BY DEF LaneType
  <2> QED
    BY <2>1, WritesTyped DEF RowFiles
<1>2. Appended \in Entry /\ ReportOf(cmd.batch) \in Entry /\ Write(Catalog(cmd.batch), catalog) \in Entry
  BY WritesTyped
<1>3. <<Appended>> \in Seq(Entry) /\ <<ReportOf(cmd.batch)>> \in Seq(Entry)
      /\ <<Appended, ReportOf(cmd.batch)>> \in Seq(Entry)
      /\ <<Write(Catalog(cmd.batch), catalog)>> \in Seq(Entry)
  BY <1>2
<1>4. Output \in Seq(Entry) /\ Round2Output \in Seq(Entry)
      /\ Round2Output \o <<ReportOf(cmd.batch)>> \in Seq(Entry)
  BY <1>1, <1>3 DEF Output, Round2Output
<1> QED
  BY <1>3, <1>4

\* What a step may do: the invariant holds again, and the ledger has grown, if
\* at all, by one portion.
Kept == LaneInv' /\ (Ledger' = Ledger \/ Promise!Portion(Ledger, Ledger'))

LEMMA LeaveKeeps ==
    ASSUME LaneInv, Leave, UNCHANGED disk,
           budget' \in [runs : 0..MaxRuns, troubles : Nat], budget'.runs = budget.runs
    PROVE  Kept
<1> USE DEF LaneInv
<1>1. /\ cmd' = NoCommand /\ commit' = NoCommit /\ base' = <<>> /\ rows' = <<>> /\ catalog' = <<>>
      /\ cmd'.step = "idle" /\ cmd'.kind = "none" /\ commit'.done = <<>> /\ commit'.todo = <<>> /\ ~commit'.restoring
  BY DEF Leave, BatchReset, NoCommand, NoCommit
<1>2. Plan' = <<>> /\ ~Reading'
  BY <1>1 DEF Plan, Reading
<1>3. Whole' = disk[Manifest]
  BY <1>2 DEF Whole
<1>4. Used' = Used
  BY DEF Used
<1>5. disk[Manifest] \in Seq(Row) /\ Sound(disk[Manifest])
  BY <1>1, Settles
<1>6. LaneType'
  <2>1. commit' \in [todo : Seq(Entry), done : Seq(Entry), restoring : BOOLEAN]
    BY <1>1 DEF NoCommit
  <2> QED
    BY <1>1, <2>1 DEF LaneType
<1>7. RowsInv'
  <2>1. Sound(Whole)'
    BY <1>3, <1>4, <1>5 DEF Sound
  <2> QED
    BY <1>1, <1>2, <2>1 DEF RowsInv
<1>8. IsPrefix(disk[Manifest], Whole')
  BY <1>3, <1>5, PrefixMeans
<1> QED
  BY <1>1, <1>2, <1>6, <1>7, <1>8, Between DEF Kept

\* The plan of the step that a command goes to.
LEMMA StepPlan ==
    ASSUME LaneType, cmd # NoCommand, NEW x \in WorkSteps, cmd' = [cmd EXCEPT !.step = x],
           UNCHANGED <<base, rows, catalog>>
    PROVE  /\ cmd'.step = x /\ cmd'.kind = cmd.kind /\ cmd'.batch = cmd.batch /\ cmd'.run = cmd.run
           /\ cmd' \in [kind : Kinds, run : 1..MaxRuns, step : WorkSteps, batch : Batches, limit : Nat]
           /\ cmd' # NoCommand
           /\ x = "catalog" => Plan' = <<Write(Catalog(cmd.batch), catalog)>>
           /\ x = "write" /\ cmd.kind # "round2" => Plan' = Output
           /\ x = "write" /\ cmd.kind = "round2" => Plan' = Round2Output \o <<ReportOf(cmd.batch)>>
           /\ x = "saving" => Plan' = Round2Output
           /\ x = "report" => Plan' = <<ReportOf(cmd.batch)>>
           /\ x \notin {"catalog", "write", "saving", "report"} => Plan' = <<>>
           /\ Plan' \in Seq(Entry)
<1>1. /\ cmd'.step = x /\ cmd'.kind = cmd.kind /\ cmd'.batch = cmd.batch /\ cmd'.run = cmd.run
      /\ cmd' \in [kind : Kinds, run : 1..MaxRuns, step : WorkSteps, batch : Batches, limit : Nat]
      /\ cmd.kind \in Kinds /\ cmd.batch \in Batches
  BY DEF LaneType
<1>2. ReportOf(cmd.batch)' = ReportOf(cmd.batch) /\ Appended' = Appended /\ RowFiles' = RowFiles
  BY <1>1 DEF ReportOf, Appended, RowFiles
<1>3. Output' = Output /\ Round2Output' = Round2Output
  BY <1>2 DEF Output, Round2Output, ReportOf
<1>4. cmd' # NoCommand
  BY <1>1 DEF NoCommand, Kinds
<1>5. /\ x = "catalog" => Plan' = <<Write(Catalog(cmd.batch), catalog)>>
      /\ x = "write" /\ cmd.kind # "round2" => Plan' = Output
      /\ x = "write" /\ cmd.kind = "round2" => Plan' = Round2Output \o <<ReportOf(cmd.batch)>>
      /\ x = "saving" => Plan' = Round2Output
      /\ x = "report" => Plan' = <<ReportOf(cmd.batch)>>
      /\ x \notin {"catalog", "write", "saving", "report"} => Plan' = <<>>
  BY <1>1, <1>2, <1>3 DEF Plan
<1>6. Plan' \in Seq(Entry)
  <2>1. Plan' \in {<<Write(Catalog(cmd.batch), catalog)>>, Output, Round2Output \o <<ReportOf(cmd.batch)>>,
                   Round2Output, <<ReportOf(cmd.batch)>>, <<>>}
    BY <1>5
  <2>2. <<>> \in Seq(Entry)
    OBVIOUS
  <2> QED
    BY <1>1, <2>1, <2>2, OutputTyped
<1> QED
  BY <1>1, <1>4, <1>5, <1>6

\* A command that goes on to another step of its kind, with what it has.
LEMMA StepOnly ==
    ASSUME LaneInv, cmd # NoCommand, NEW x \in Steps[cmd.kind], x \in WorkSteps,
           cmd' = [cmd EXCEPT !.step = x],
           UNCHANGED <<disk, base, rows, catalog, known, budget>>,
           x \in {"discover", "catalog"} <=> cmd.step \in {"discover", "catalog"}, x # "idle",
           commit' \in [todo : Seq(Entry), done : Seq(Entry), restoring : BOOLEAN],
           commit'.done = <<>>,
           \/ commit'.restoring /\ commit'.todo = <<>>
           \/ ~commit'.restoring /\ commit'.todo = Plan',
           x = "report" => disk[Manifest] = Whole,
           cmd.step \notin {"discover", "catalog"} /\ cmd.kind # "round2" /\ x # "report" => disk[Manifest] = base
    PROVE  Kept
<1> USE DEF LaneInv
<1>1. /\ cmd'.step = x /\ cmd'.kind = cmd.kind /\ cmd'.batch = cmd.batch /\ cmd'.run = cmd.run
      /\ cmd' \in [kind : Kinds, run : 1..MaxRuns, step : WorkSteps, batch : Batches, limit : Nat]
      /\ cmd' # NoCommand /\ Plan' \in Seq(Entry)
  BY StepPlan
<1>2. Reading' <=> Reading
  <2>1. cmd.step # "idle"
    BY StepKinds
  <2> QED
    BY <1>1, <2>1 DEF Reading
<1>3. Whole' = Whole /\ Used' = Used
  BY <1>2 DEF Whole, Used
<1>4. LaneType'
  BY <1>1, <1>3 DEF LaneType
<1>5. RowsInv'
  <2>1. Sound(Whole)'
    BY <1>3 DEF RowsInv, Sound
  <2>2. PagesIn(base)' = PagesIn(base) /\ PagesIn(rows)' = PagesIn(rows)
    BY DEF PagesIn
  <2>3. ~Reading' => base' = <<>> /\ rows' = <<>>
    BY <1>2 DEF RowsInv
  <2>4. \A i \in DOMAIN rows' : rows'[i].run = cmd'.run /\ rows'[i].kind = cmd'.kind
    BY <1>1 DEF RowsInv
  <2>5. LET old == IF Reading' THEN base' ELSE disk'[Manifest] IN
        \A i \in DOMAIN old :
           /\ old[i].run < cmd'.run
           /\ cmd'.kind = "exact" /\ old[i].kind = "exact" =>
                old[i].page \notin {catalog'[k] : k \in DOMAIN catalog'} \cup PagesIn(rows')
    BY <1>1, <1>2, <2>2 DEF RowsInv
  <2>6. /\ cmd'.kind = "collect" => \A i \in DOMAIN rows' : rows'[i].increment = 1 => Accepted(rows'[i])
        /\ cmd'.kind = "exact" =>
             /\ \A i, j \in DOMAIN catalog' : i # j => catalog'[i] # catalog'[j]
             /\ \A i \in DOMAIN rows', j \in DOMAIN catalog' : rows'[i].page # catalog'[j]
        /\ cmd'.kind \in {"campaign", "round2"} =>
             /\ PagesIn(base') \cup PagesIn(rows') \subseteq known'
             /\ PagesIn(base') \cap PagesIn(rows') = {}
    BY <1>1, <2>2 DEF RowsInv
  <2> QED
    BY <2>1, <2>3, <2>4, <2>5, <2>6 DEF RowsInv
<1>6. IsPrefix(disk[Manifest], Whole)
  <2>1. disk[Manifest] \in {Ledger, Whole} /\ Whole \in Seq(Row)
    BY LedgerTyped
  <2> QED
    BY <2>1, PrefixMeans DEF LedgerInv
<1>7. Reading => IsPrefix(base, disk[Manifest])
  <2> SUFFICES ASSUME Reading PROVE IsPrefix(base, disk[Manifest])
    OBVIOUS
  <2>1. disk[Manifest] \in {Ledger, Whole} /\ Whole = base \o rows /\ base \in Seq(Row) /\ rows \in Seq(Row)
    BY LedgerTyped DEF Whole, LaneType
  <2>2. IsPrefix(base, Whole)
    BY <2>1, WholeMeans
  <2> QED
    BY <2>1, <2>2 DEF LedgerInv
<1>8. Reading => cmd.step \notin {"discover", "catalog"}
  BY DEF Reading
<1>9. Reading' /\ cmd'.kind # "round2" /\ cmd'.step # "report" => disk[Manifest] = base'
  BY <1>1, <1>2, <1>8
<1> QED
  BY <1>1, <1>2, <1>3, <1>4, <1>5, <1>6, <1>7, <1>9, Between DEF Kept

LEMMA BeginMeans ==
    ASSUME NEW writes \in Seq(Entry), NEW x, Begin(writes, x)
    PROVE  /\ cmd' = [cmd EXCEPT !.step = x]
           /\ commit'.todo = writes /\ commit'.done = <<>> /\ ~commit'.restoring
           /\ commit' \in [todo : Seq(Entry), done : Seq(Entry), restoring : BOOLEAN]
<1>1. NoCommit \in [todo : Seq(Entry), done : Seq(Entry), restoring : BOOLEAN]
      /\ NoCommit.done = <<>> /\ NoCommit.restoring = FALSE
  BY DEF NoCommit
<1>2. commit' = [NoCommit EXCEPT !.todo = writes] /\ cmd' = [cmd EXCEPT !.step = x]
  BY DEF Begin
<1> QED
  BY <1>1, <1>2

\* A finished write has put all its files in place.
LEMMA WrittenMeans ==
    ASSUME LaneInv, Written, cmd.step = "write"
    PROVE  disk[Manifest] = Whole
<1> USE DEF LaneInv
<1>1. commit.todo = <<>> /\ ~commit.restoring
  BY DEF Written, Committing
<1>2. Len(commit.done) = Len(Plan) /\ Len(Plan) \in Nat
  <2>1. /\ Plan \in Seq(Entry) /\ commit.done \in Seq(Entry) /\ Len(commit.done) <= Len(Plan)
        /\ SubSeq(Plan, Len(commit.done) + 1, Len(Plan)) = <<>>
    BY <1>1, PlanTyped DEF Progress, LaneType
  <2>2. Len(commit.done) \in Nat /\ Len(Plan) \in Nat
    BY <2>1
  <2>3. Len(SubSeq(Plan, Len(commit.done) + 1, Len(Plan))) = Len(Plan) - Len(commit.done)
    BY <2>1, <2>2, SubLen
  <2>4. Len(Plan) - Len(commit.done) = 0
    BY <2>1, <2>3
  <2> QED
    BY <2>2, <2>4
<1>3. \A i \in 1..Len(Plan) : disk[Plan[i].path] = Plan[i].content
  BY <1>1, <1>2, LedgerMeans DEF Progress
<1>4. \E i \in 1..Len(Plan) : Plan[i] = Appended
  <2>1. Len(rows) \in Nat
    BY DEF LaneType
  <2>2. CASE cmd.kind # "round2"
    <3>1. Len(Plan) = Len(rows) + 2 /\ Plan[Len(rows) + 1] = Appended
      BY <2>2, PlanWrites
    <3> QED
      BY <2>1, <3>1
  <2>3. CASE cmd.kind = "round2"
    <3>1. Len(Plan) \in {Len(rows) + 1, Len(rows) + 2} /\ Plan[1] = Appended
      BY <2>3, PlanWrites
    <3> QED
      BY <2>1, <3>1
  <2> QED
    BY <2>2, <2>3
<1>5. disk[Manifest] = base \o rows
  BY <1>3, <1>4 DEF Appended, Write
<1> QED
  BY <1>5 DEF Whole, Reading

\* A command that has read the manifest and not yet begun to write.
LEMMA StillBase ==
    ASSUME LaneInv, cmd.kind # "round2", Reading,
           cmd.step \notin {"catalog", "write", "saving", "report"}
    PROVE  disk[Manifest] = base
BY Unwritten DEF LaneInv, LedgerInv

\* The beginnings of writes.
LEMMA BeginKeeps ==
    ASSUME LaneInv, cmd # NoCommand, NEW x \in Steps[cmd.kind], x \in WorkSteps, NEW writes, Begin(writes, x),
           UNCHANGED <<disk, base, rows, catalog, known, budget>>,
           x \in {"discover", "catalog"} <=> cmd.step \in {"discover", "catalog"}, x # "idle",
           \/ x = "catalog" /\ writes = <<Write(Catalog(cmd.batch), catalog)>>
           \/ x = "write" /\ cmd.kind # "round2" /\ writes = Output
           \/ x = "write" /\ cmd.kind = "round2" /\ writes = Round2Output \o <<ReportOf(cmd.batch)>>
           \/ x = "saving" /\ writes = Round2Output
           \/ x = "report" /\ writes = <<ReportOf(cmd.batch)>>,
           x = "report" => disk[Manifest] = Whole,
           cmd.step \notin {"discover", "catalog"} /\ cmd.kind # "round2" /\ x # "report" => disk[Manifest] = base
    PROVE  Kept
<1>1. cmd' = [cmd EXCEPT !.step = x] /\ LaneType /\ cmd.batch \in Batches
  BY DEF Begin, LaneInv, LaneType
<1>2. Plan' = writes
  BY <1>1, StepPlan
<1>3. writes \in Seq(Entry)
  BY <1>1, OutputTyped
<1>4. /\ commit'.todo = writes /\ commit'.done = <<>> /\ ~commit'.restoring
      /\ commit' \in [todo : Seq(Entry), done : Seq(Entry), restoring : BOOLEAN]
  BY <1>3, BeginMeans
<1> QED
  BY <1>1, <1>2, <1>4, StepOnly

LEMMA SaveKeeps ==
    ASSUME LaneInv,
           \/ (SaveCatalog \/ SaveBatch \/ SaveReport) /\ UNCHANGED campaignVars
           \/ SaveCampaign \/ SaveCheckpoint \/ SaveRound2
    PROVE  Kept
<1>0. LaneType
  BY DEF LaneInv
<1>1. CASE SaveCatalog /\ UNCHANGED campaignVars
  <2>1. cmd.step = "discover" /\ Begin(<<Write(Catalog(cmd.batch), catalog)>>, "catalog")
        /\ UNCHANGED <<disk, base, rows, catalog, known, budget>>
    BY <1>1 DEF SaveCatalog, batchVars, campaignVars
  <2>2. cmd # NoCommand /\ "catalog" \in Steps[cmd.kind]
    BY <1>0, <2>1, StepKinds DEF LaneType, Steps, Kinds
  <2>3. "catalog" # "idle" /\ ("catalog" \in {"discover", "catalog"} <=> cmd.step \in {"discover", "catalog"})
    BY <2>1
  <2> QED
    BY <2>1, <2>2, <2>3, BeginKeeps DEF WorkSteps
<1>2. CASE SaveBatch /\ UNCHANGED campaignVars
  <2>1. cmd.step = "execute" /\ Begin(Output, "write")
        /\ UNCHANGED <<disk, base, rows, catalog, known, budget>>
    BY <1>2 DEF SaveBatch, batchVars, campaignVars
  <2>2. cmd # NoCommand /\ "write" \in Steps[cmd.kind] /\ cmd.kind # "round2"
    BY <1>0, <2>1, StepKinds DEF LaneType, Steps, Kinds
  <2>3. disk[Manifest] = base
    BY <2>1, <2>2, StillBase DEF Reading
  <2> QED
    BY <2>1, <2>2, <2>3, BeginKeeps DEF WorkSteps
<1>3. CASE SaveReport /\ UNCHANGED campaignVars
  <2>1. cmd.kind = "exact" /\ cmd.step = "write" /\ Begin(<<ReportOf(cmd.batch)>>, "report") /\ Written
        /\ UNCHANGED <<disk, base, rows, catalog, known, budget>>
    BY <1>3 DEF SaveReport, batchVars, campaignVars
  <2>2. cmd # NoCommand /\ "report" \in Steps[cmd.kind]
    BY <1>0, <2>1, StepKinds DEF Steps, WorkSteps
  <2>3. disk[Manifest] = Whole
    BY <2>1, WrittenMeans
  <2> QED
    BY <2>1, <2>2, <2>3, BeginKeeps DEF WorkSteps
<1>4. CASE SaveCampaign
  <2>1. cmd.kind = "campaign" /\ cmd.step = "drained" /\ Begin(Output, "write")
        /\ UNCHANGED <<disk, base, rows, catalog, known, budget>>
    BY <1>4 DEF SaveCampaign, batchVars, campaignVars
  <2>2. cmd # NoCommand /\ "write" \in Steps[cmd.kind]
    BY <1>0, <2>1, StepKinds DEF Steps, WorkSteps
  <2>3. disk[Manifest] = base
    BY <2>1, <2>2, StillBase DEF Reading
  <2> QED
    BY <2>1, <2>2, <2>3, BeginKeeps DEF WorkSteps
<1>5. CASE SaveCheckpoint
  <2>1. cmd.kind = "round2" /\ cmd.step = "checkpoint" /\ Begin(Round2Output, "saving")
        /\ UNCHANGED <<disk, base, rows, catalog, known, budget>>
    BY <1>5 DEF SaveCheckpoint, batchVars, campaignVars
  <2>2. cmd # NoCommand /\ "saving" \in Steps[cmd.kind]
    BY <1>0, <2>1, StepKinds DEF Steps, WorkSteps
  <2> QED
    BY <2>1, <2>2, BeginKeeps DEF WorkSteps
<1>6. CASE SaveRound2
  <2>1. cmd.kind = "round2" /\ cmd.step = "loop" /\ Begin(Round2Output \o <<ReportOf(cmd.batch)>>, "write")
        /\ UNCHANGED <<disk, base, rows, catalog, known, budget>>
    BY <1>6 DEF SaveRound2, batchVars, campaignVars
  <2>2. cmd # NoCommand /\ "write" \in Steps[cmd.kind]
    BY <1>0, <2>1, StepKinds DEF Steps, WorkSteps
  <2> QED
    BY <2>1, <2>2, BeginKeeps DEF WorkSteps
<1> QED
  BY <1>1, <1>2, <1>3, <1>4, <1>5, <1>6

\* Steps that end a part of the main thread's work.
LEMMA TurnKeeps ==
    ASSUME LaneInv,
           \/ EndLoop
           \/ ResumeRound2
           \/ DrainDeferred /\ UNCHANGED <<rows, known>> /\ cmd' = [cmd EXCEPT !.step = "drained"]
    PROVE  Kept
<1>0. LaneType /\ commit \in [todo : Seq(Entry), done : Seq(Entry), restoring : BOOLEAN]
  BY DEF LaneInv, LaneType
<1>1. ASSUME cmd.kind = "campaign", cmd.step \in {"loop", "drain"}, NEW x \in {"drain", "drained"},
             cmd' = [cmd EXCEPT !.step = x], UNCHANGED <<disk, commit, base, rows, catalog, known, budget>>
      PROVE  Kept
  <2>1. cmd # NoCommand /\ x \in Steps[cmd.kind] /\ x \in WorkSteps
    BY <1>0, <1>1, StepKinds DEF Steps, WorkSteps
  <2>2. disk[Manifest] = base
    BY <1>1, <2>1, StillBase DEF Reading
  <2>3. commit.done = <<>> /\ commit.todo = <<>>
    BY <1>1, Unwritten
  <2>4. Plan' = <<>>
    BY <1>0, <1>1, <2>1, StepPlan DEF WorkSteps
  <2> QED
    BY <1>0, <1>1, <2>1, <2>2, <2>3, <2>4, StepOnly DEF WorkSteps
<1>2. CASE EndLoop
  <2>1. /\ cmd.kind = "campaign" /\ cmd.step = "loop"
        /\ cmd' = [cmd EXCEPT !.step = IF stop THEN "drained" ELSE "drain"]
        /\ UNCHANGED <<disk, commit, base, rows, catalog, known, budget>>
    BY <1>2 DEF EndLoop, batchVars, campaignVars
  <2> QED
    BY <1>1, <2>1
<1>3. CASE DrainDeferred /\ UNCHANGED <<rows, known>> /\ cmd' = [cmd EXCEPT !.step = "drained"]
  <2>1. /\ cmd.kind = "campaign" /\ cmd.step = "drain"
        /\ UNCHANGED <<disk, commit, base, rows, catalog, known, budget>>
    BY <1>3 DEF DrainDeferred, batchVars
  <2> QED
    BY <1>1, <1>3, <2>1
<1>4. CASE ResumeRound2
  <2>1. /\ cmd.kind = "round2" /\ cmd.step = "saving" /\ commit' = NoCommit
        /\ cmd' = [cmd EXCEPT !.step = "loop"]
        /\ UNCHANGED <<disk, base, rows, catalog, known, budget>>
    BY <1>4 DEF ResumeRound2, batchVars, campaignVars
  <2>2. cmd # NoCommand /\ "loop" \in Steps[cmd.kind]
    BY <1>0, <2>1, StepKinds DEF Steps, WorkSteps
  <2>3. Plan' = <<>>
    BY <1>0, <2>1, <2>2, StepPlan DEF WorkSteps
  <2>4. /\ commit' \in [todo : Seq(Entry), done : Seq(Entry), restoring : BOOLEAN]
        /\ commit'.done = <<>> /\ commit'.todo = <<>> /\ ~commit'.restoring
    BY <2>1 DEF NoCommit
  <2> QED
    BY <2>1, <2>2, <2>3, <2>4, StepOnly DEF WorkSteps
<1> QED
  BY <1>2, <1>3, <1>4

-----------------------------------------------------------------------------
(* Beginning a command *)

LEMMA Product ==
    ASSUME NEW a \in Nat, NEW b \in Nat, NEW c \in Nat, a <= b
    PROVE  a * c \in Nat /\ b * c \in Nat /\ a * c <= b * c
<1>1. b = a + (b - a) /\ b - a \in Nat
  OBVIOUS
<1>2. (b - a) * c \in Nat /\ a * c \in Nat /\ b * c \in Nat
  BY <1>1
<1>3. b * c = a * c + (b - a) * c
  BY <1>1
<1> QED
  BY <1>2, <1>3

\* A page counts once in a run.
LEMMA CountBound ==
    ASSUME LaneType, NEW m, Sound(m), NEW sources
    PROVE  Counted(m, sources) \in 0..(MaxRuns * Cardinality(Pages))
<1> DEFINE S == {i \in DOMAIN m : m[i].increment = 1 /\ SourceOf[m[i].page] \in sources}
           T == (1..Used) \X Pages
           f == [i \in S |-> <<m[i].run, m[i].page>>]
<1>1. Used \in Nat /\ Used <= MaxRuns /\ MaxRuns \in Nat
  BY LaneBounds DEF LaneType, Used
<1>2. \A i \in DOMAIN m : m[i] \in Row /\ m[i].run <= Used
  BY DEF Sound
<1>3. \A i \in DOMAIN m : m[i].run \in 1..Used /\ m[i].page \in Pages
  <2> SUFFICES ASSUME NEW i \in DOMAIN m PROVE m[i].run \in 1..Used /\ m[i].page \in Pages
    OBVIOUS
  <2>1. m[i].run \in 1..MaxRuns /\ m[i].run <= Used /\ m[i].page \in Pages
    BY <1>2 DEF Row
  <2> QED
    BY <1>1, <2>1
<1>4. f \in [S -> T]
  BY <1>3
<1>5. \A i, j \in S : f[i] = f[j] => i = j
  <2> SUFFICES ASSUME NEW i \in S, NEW j \in S, f[i] = f[j], i # j
               PROVE  FALSE
    OBVIOUS
  <2>1. m[i].run = m[j].run /\ m[i].page = m[j].page
    OBVIOUS
  <2> QED
    BY <2>1 DEF Sound
<1>6. IsFiniteSet(1..Used) /\ Cardinality(1..Used) = Used
  BY <1>1, FS_Interval
<1>7. IsFiniteSet(T) /\ Cardinality(T) = Used * Cardinality(Pages)
  BY <1>6, FS_Product, PageAssumption
<1>8. f \in Injection(S, T)
  BY <1>4, <1>5 DEF Injection, IsInjective
<1> HIDE DEF f, T, S
<1>9. IsFiniteSet(S) /\ Cardinality(S) <= Used * Cardinality(Pages)
  BY <1>7, <1>8, FS_Injection
<1>10. Cardinality(S) \in Nat /\ Cardinality(Pages) \in Nat
  BY <1>9, FS_CardinalityType, PageAssumption
<1>11. Used * Cardinality(Pages) <= MaxRuns * Cardinality(Pages)
       /\ Used * Cardinality(Pages) \in Nat /\ MaxRuns * Cardinality(Pages) \in Nat
  BY <1>1, <1>10, Product
<1>12. Cardinality(S) \in 0..(MaxRuns * Cardinality(Pages))
  BY <1>9, <1>10, <1>11
<1> QED
  BY <1>12 DEF S, Counted

LEMMA StartKeeps ==
    ASSUME LaneInv, cmd = NoCommand, budget.runs > 0,
           NEW kind \in Kinds, NEW batch \in Batches, NEW limit \in Nat,
           NEW step \in Steps[kind], step \in {"discover", "catalog", "loop"},
           cmd' = Started(kind, batch, limit, step),
           budget' = [budget EXCEPT !.runs = @ - 1],
           UNCHANGED <<disk, rows>>, catalog' \in Seq(Pages),
           kind # "exact" => step \in {"discover", "loop"} /\ UNCHANGED commit,
           kind = "exact" =>
             /\ step = "catalog"
             /\ commit' = [NoCommit EXCEPT !.todo = <<Write(Catalog(batch), catalog')>>]
             /\ \A i, j \in DOMAIN catalog' : i # j => catalog'[i] # catalog'[j]
             /\ \A i \in DOMAIN disk[Manifest] : disk[Manifest][i].kind = "exact" =>
                  disk[Manifest][i].page \notin {catalog'[k] : k \in DOMAIN catalog'},
           step # "loop" => UNCHANGED base,
           step = "loop" => base' = disk[Manifest] /\ known' = PagesIn(disk[Manifest]) \cup Baseline,
           kind \in {"campaign", "round2"} => step = "loop"
    PROVE  Kept
<1> USE DEF LaneInv
<1>1. /\ cmd'.kind = kind /\ cmd'.batch = batch /\ cmd'.step = step /\ cmd'.limit = limit
      /\ cmd'.run = Number
  BY DEF Started
<1>2. Used' = Used + 1 /\ Number = Used' /\ Used' \in 1..MaxRuns /\ Used \in Nat
      /\ budget' \in [runs : 0..MaxRuns, troubles : Nat]
  <2>1. budget \in [runs : 0..MaxRuns, troubles : Nat]
    BY DEF LaneType
  <2>2. budget'.runs = budget.runs - 1 /\ budget.runs - 1 \in 0..MaxRuns
    BY <2>1, LaneBounds
  <2>3. Used' = Used + 1 /\ Number = Used' /\ Used' \in 1..MaxRuns /\ Used \in Nat
    BY <2>1, <2>2, LaneBounds DEF Used, Number
  <2> QED
    BY <2>1, <2>2, <2>3
<1>3. cmd.step = "idle" /\ ~Reading /\ rows = <<>> /\ base = <<>>
  BY DEF NoCommand, Reading, RowsInv
<1>4. commit.done = <<>> /\ commit.todo = <<>>
  BY <1>3, Unwritten
<1>5. /\ commit'.done = <<>>
      /\ commit' \in [todo : Seq(Entry), done : Seq(Entry), restoring : BOOLEAN]
      /\ Plan' \in Seq(Entry)
      /\ \/ commit'.restoring /\ commit'.todo = <<>>
         \/ ~commit'.restoring /\ commit'.todo = Plan'
  <2>1. CASE kind # "exact"
    <3>1. Plan' = <<>>
      BY <1>1, <2>1 DEF Plan
    <3>2. <<>> \in Seq(Entry)
      OBVIOUS
    <3> QED
      BY <1>4, <2>1, <3>1, <3>2 DEF LaneType
  <2>2. CASE kind = "exact"
    <3> DEFINE writes == <<Write(Catalog(batch), catalog')>>
    <3>1. Plan' = writes
      BY <1>1, <2>2 DEF Plan
    <3>2. catalog' \in Seq(Word)
      BY DEF Word
    <3>3. Write(Catalog(batch), catalog') \in Entry
      BY <3>2, InPaths DEF Write, Entry
    <3>4. writes \in Seq(Entry)
      BY <3>3
    <3> HIDE DEF writes
    <3>5. commit' = [NoCommit EXCEPT !.todo = writes]
      BY <2>2 DEF writes
    <3>6. NoCommit \in [todo : Seq(Entry), done : Seq(Entry), restoring : BOOLEAN]
          /\ NoCommit.done = <<>> /\ NoCommit.restoring = FALSE
      BY DEF NoCommit
    <3> QED
      BY <3>1, <3>4, <3>5, <3>6
  <2> QED
    BY <2>1, <2>2
<1>6. disk[Manifest] \in Seq(Row) /\ Sound(disk[Manifest])
  BY <1>5, Settles
<1>7. base' \in Seq(Row) /\ rows' \in Seq(Row) /\ base' \in {<<>>, disk[Manifest]}
  BY <1>3, <1>6 DEF LaneType
<1>8. LaneType'
  <2>1. cmd' \in [kind : Kinds, run : 1..MaxRuns, step : WorkSteps, batch : Batches, limit : Nat]
    BY <1>2 DEF Started, WorkSteps
  <2> QED
    BY <1>1, <1>2, <1>5, <1>7, <2>1 DEF LaneType
<1>9. Reading' <=> step = "loop"
  BY <1>1 DEF Reading
<1>10. Whole' = disk[Manifest]
  <2>1. disk[Manifest] \o <<>> = disk[Manifest]
    BY <1>6, NothingAfter
  <2> QED
    BY <1>3, <1>9, <2>1 DEF Whole
<1>11. \A i \in DOMAIN disk[Manifest] : disk[Manifest][i].run < cmd'.run
  <2> SUFFICES ASSUME NEW i \in DOMAIN disk[Manifest]
               PROVE  disk[Manifest][i].run < cmd'.run
    OBVIOUS
  <2>1. disk[Manifest][i] \in Row /\ disk[Manifest][i].run <= Used
    BY <1>6 DEF Sound
  <2>2. disk[Manifest][i].run \in Nat
    BY <2>1, LaneBounds DEF Row
  <2> QED
    BY <1>1, <1>2, <2>1, <2>2
<1>12. Sound(Whole)'
  <2>1. \A i \in DOMAIN disk[Manifest] : disk[Manifest][i].run <= Used'
    <3> SUFFICES ASSUME NEW i \in DOMAIN disk[Manifest]
                 PROVE  disk[Manifest][i].run <= Used'
      OBVIOUS
    <3>1. disk[Manifest][i] \in Row /\ disk[Manifest][i].run <= Used
      BY <1>6 DEF Sound
    <3>2. disk[Manifest][i].run \in Nat
      BY <3>1, LaneBounds DEF Row
    <3> QED
      BY <1>2, <3>1, <3>2
  <2> QED
    BY <1>6, <1>10, <2>1 DEF Sound
<1>13. RowsInv'
  <2>1. PagesIn(rows') = {} /\ DOMAIN rows' = {}
    BY <1>3 DEF PagesIn
  <2>2. (IF Reading' THEN base' ELSE disk'[Manifest]) = disk[Manifest]
    BY <1>9
  <2>3. ~Reading' => base' = <<>> /\ rows' = <<>>
    BY <1>3, <1>9
  <2>4. LET old == IF Reading' THEN base' ELSE disk'[Manifest] IN
        \A i \in DOMAIN old :
           /\ old[i].run < cmd'.run
           /\ cmd'.kind = "exact" /\ old[i].kind = "exact" =>
                old[i].page \notin {catalog'[k] : k \in DOMAIN catalog'} \cup PagesIn(rows')
    BY <1>1, <1>11, <2>1, <2>2
  <2>5. cmd'.kind \in {"campaign", "round2"} =>
             /\ PagesIn(base') \cup PagesIn(rows') \subseteq known'
             /\ PagesIn(base') \cap PagesIn(rows') = {}
    BY <1>1, <2>1
  <2> QED
    BY <1>1, <1>12, <2>1, <2>3, <2>4, <2>5 DEF RowsInv
<1>14. IsPrefix(disk[Manifest], Whole') /\ (Reading' => IsPrefix(base', disk[Manifest]))
  <2>1. IsPrefix(disk[Manifest], disk[Manifest])
    BY <1>6, PrefixMeans
  <2> QED
    BY <1>9, <1>10, <2>1
<1>15. cmd'.step # "report" /\ (Reading' => disk[Manifest] = base')
  BY <1>1, <1>9
<1> QED
  BY <1>5, <1>8, <1>13, <1>14, <1>15, Between DEF Kept

LEMMA SetAsSeqs ==
    ASSUME NEW S, IsFiniteSet(S), NEW s, s \in SetToSeqs(S)
    PROVE  /\ s \in Seq(S)
           /\ \A i, j \in DOMAIN s : i # j => s[i] # s[j]
           /\ {s[k] : k \in DOMAIN s} \subseteq S
<1>1. Cardinality(S) \in Nat
  BY FS_CardinalityType
<1>2. s \in [1..Cardinality(S) -> S]
  BY DEF SetToSeqs
<1>3. \A i, j \in 1..Cardinality(S) : i # j => s[i] # s[j]
  BY DEF SetToSeqs
<1> QED
  BY <1>1, <1>2, <1>3

LEMMA StartBatchKeeps ==
    ASSUME LaneInv, StartCollect \/ StartExact, UNCHANGED campaignVars
    PROVE  Kept
<1>0. LaneType /\ catalog \in Seq(Pages) /\ commit.done \in Seq(Entry)
  BY DEF LaneInv, LaneType
<1>1. CASE StartCollect
  <2>1. /\ cmd = NoCommand /\ budget.runs > 0
        /\ cmd' = Started("collect", <<"collect">>, MaxRequests, "discover")
        /\ budget' = [budget EXCEPT !.runs = @ - 1]
        /\ UNCHANGED <<disk, rows, base, commit, catalog>>
    BY <1>1 DEF StartCollect
  <2>2. "collect" \in Kinds /\ <<"collect">> \in Batches /\ MaxRequests \in Nat /\ "discover" \in Steps["collect"]
    BY BatchBounds DEF Kinds, Batches, Steps
  <2> QED
    BY <1>0, <2>1, <2>2, StartKeeps
<1>2. CASE StartExact
  <2>1. /\ cmd = NoCommand /\ budget.runs > 0
        /\ budget' = [budget EXCEPT !.runs = @ - 1]
        /\ UNCHANGED <<disk, rows, base>>
    BY <1>2 DEF StartExact
  <2>2. PICK pages \in SUBSET Pages \ {{}}, n \in 1..MaxRuns :
          /\ NewIds(pages) /\ catalog' \in SetToSeqs(pages)
          /\ cmd' = Started("exact", <<"exact", n>>, Cardinality(pages), "catalog")
          /\ commit' = [NoCommit EXCEPT !.todo = <<Write(Catalog(<<"exact", n>>), catalog')>>]
    BY <1>2 DEF StartExact
  <2>3. "exact" \in Kinds /\ <<"exact", n>> \in Batches /\ "catalog" \in Steps["exact"]
    BY DEF Kinds, Batches, Steps
  <2>4. IsFiniteSet(pages) /\ Cardinality(pages) \in Nat
    <3>1. IsFiniteSet(pages)
      BY FS_Subset, PageAssumption
    <3> QED
      BY <3>1, FS_CardinalityType
  <2>5. /\ catalog' \in Seq(pages) /\ {catalog'[k] : k \in DOMAIN catalog'} \subseteq pages
        /\ \A i, j \in DOMAIN catalog' : i # j => catalog'[i] # catalog'[j]
    BY <2>2, <2>4, SetAsSeqs
  <2>6. catalog' \in Seq(Pages)
    BY <2>5
  <2>7. \A i \in DOMAIN disk[Manifest] : disk[Manifest][i].kind = "exact" =>
             disk[Manifest][i].page \notin {catalog'[k] : k \in DOMAIN catalog'}
    BY <2>2, <2>5 DEF NewIds
  <2> QED
    BY <2>1, <2>2, <2>3, <2>4, <2>5, <2>6, <2>7, StartKeeps
<1> QED
  BY <1>1, <1>2

LEMMA LaunchKeeps ==
    ASSUME LaneInv, StartCampaign \/ StartRound2
    PROVE  Kept
<1>0. LaneType /\ catalog \in Seq(Pages) /\ commit.done \in Seq(Entry)
  BY DEF LaneInv, LaneType
<1>1. ASSUME NEW kind \in {"campaign", "round2"}, NEW batch \in Batches, NEW sources, Launch(kind, batch, sources)
      PROVE  Kept
  <2>1. /\ cmd = NoCommand /\ budget.runs > 0
        /\ cmd' = Started(kind, batch, 0, "loop")
        /\ base' = disk[Manifest]
        /\ known' = PagesIn(disk[Manifest]) \cup Baseline
        /\ budget' = [budget EXCEPT !.runs = @ - 1]
        /\ UNCHANGED <<disk, commit, rows, catalog>>
    BY <1>1 DEF Launch, batchVars
  <2>2. kind \in Kinds /\ "loop" \in Steps[kind] /\ 0 \in Nat
    BY DEF Kinds, Steps
  <2> QED
    BY <1>0, <2>1, <2>2, StartKeeps
<1>2. CASE StartRound2
  <2>1. <<"round2">> \in Batches
    BY DEF Batches
  <2> QED
    BY <1>1, <1>2, <2>1 DEF StartRound2
<1>3. CASE StartCampaign
  <2> DEFINE counted == Counted(disk[Manifest], Sources)
  <2>1. PICK sources \in SUBSET Sources \ {{}} : Launch("campaign", <<"campaign", counted>>, sources)
    BY <1>3 DEF StartCampaign
  <2>2. cmd = NoCommand
    BY <2>1 DEF Launch
  <2>3. Whole = disk[Manifest]
    BY <2>2 DEF Whole, Reading, NoCommand
  <2>4. Sound(disk[Manifest])
    BY <2>3 DEF LaneInv, RowsInv
  <2>5. counted \in 0..(MaxRuns * Cardinality(Pages))
    BY <1>0, <2>4, CountBound
  <2>6. <<"campaign", counted>> \in Batches
    BY <2>5 DEF Batches
  <2> QED
    BY <1>1, <2>1, <2>6
<1> QED
  BY <1>2, <1>3

\* What follows the first element of a sequence.
LEMMA TailMeans ==
    ASSUME NEW S, NEW s \in Seq(S), s # <<>>
    PROVE  /\ Head(s) \in S /\ Tail(s) \in Seq(S) /\ Len(Tail(s)) = Len(s) - 1 /\ 1 \in DOMAIN s
           /\ Head(s) = s[1]
           /\ \A i \in DOMAIN Tail(s) : i + 1 \in DOMAIN s /\ i \in 1..(Len(s) - 1) /\ Tail(s)[i] = s[i + 1]
<1>1. Len(s) \in Nat /\ Len(s) > 0 /\ Tail(s) \in Seq(S) /\ Len(Tail(s)) = Len(s) - 1 /\ Head(s) = s[1]
  OBVIOUS
<1>2. DOMAIN Tail(s) = 1..(Len(s) - 1) /\ DOMAIN s = 1..Len(s)
  BY <1>1
<1>3. \A i \in 1..(Len(s) - 1) : Tail(s)[i] = s[i + 1]
  BY <1>1
<1> QED
  BY <1>1, <1>2, <1>3

LEMMA AppendMeans ==
    ASSUME NEW S, NEW s \in Seq(S), NEW x \in S
    PROVE  /\ Append(s, x) \in Seq(S) /\ DOMAIN Append(s, x) = DOMAIN s \cup {Len(s) + 1}
           /\ Len(Append(s, x)) = Len(s) + 1 /\ Len(s) \in Nat
           /\ \A i \in DOMAIN s : i \in Nat /\ i <= Len(s) /\ Append(s, x)[i] = s[i]
           /\ Append(s, x)[Len(s) + 1] = x
<1>1. Append(s, x) \in Seq(S) /\ Len(Append(s, x)) = Len(s) + 1 /\ Len(s) \in Nat
  OBVIOUS
<1>2. DOMAIN Append(s, x) = 1..(Len(s) + 1) /\ DOMAIN s = 1..Len(s)
  BY <1>1
<1>3. 1..(Len(s) + 1) = (1..Len(s)) \cup {Len(s) + 1}
  BY <1>1
<1>4. \A i \in 1..Len(s) : Append(s, x)[i] = s[i]
  BY <1>1
<1> QED
  BY <1>1, <1>2, <1>3, <1>4

\* A step of the command that neither writes nor ends a part of it.
LEMMA OnKeeps ==
    ASSUME LaneInv, cmd.step \in {"discover", "execute", "loop", "drain"},
           cmd'.step \in {"discover", "execute", "loop", "drain", "checkpoint"},
           cmd'.kind = cmd.kind, Reading' <=> Reading, UNCHANGED <<disk, commit, base>>,
           LaneType', RowsInv', IsPrefix(Whole, Whole')
    PROVE  Kept
<1> USE DEF LaneInv
<1>1. commit.done = <<>> /\ commit.todo = <<>> /\ Ledger = disk[Manifest]
  BY Unwritten
<1>2. Plan' = <<>>
  BY DEF Plan
<1>3. <<>> \in Seq(Entry)
  OBVIOUS
<1>4. IsPrefix(disk[Manifest], Whole')
  <2>1. Ledger \in Seq(Row) /\ Whole \in Seq(Row)
    BY LedgerTyped
  <2>2. Whole' \in Seq(Row)
    BY DEF RowsInv, Sound
  <2>3. IsPrefix(Ledger, Whole)
    BY DEF LedgerInv
  <2>4. Len(Ledger) <= Len(Whole) /\ \A i \in 1..Len(Ledger) : Ledger[i] = Whole[i]
    BY <2>1, <2>3, PrefixMeans
  <2>5. Len(Whole) <= Len(Whole') /\ \A i \in 1..Len(Whole) : Whole[i] = Whole'[i]
    BY <2>1, <2>2, PrefixMeans
  <2>6. Len(Ledger) \in Nat /\ Len(Whole) \in Nat /\ Len(Whole') \in Nat
    BY <2>1, <2>2
  <2>7. Len(Ledger) <= Len(Whole') /\ \A i \in 1..Len(Ledger) : Ledger[i] = Whole'[i]
    BY <2>4, <2>5, <2>6
  <2> QED
    BY <1>1, <2>1, <2>2, <2>7, PrefixMeans
<1>5. Reading' => IsPrefix(base', disk[Manifest])
  BY <1>1 DEF LedgerInv
<1>6. cmd'.step # "report"
  OBVIOUS
<1>7. Reading' /\ cmd'.kind # "round2" => disk[Manifest] = base'
  BY <1>1 DEF LedgerInv
<1>8. commit \in [todo : Seq(Entry), done : Seq(Entry), restoring : BOOLEAN]
  BY DEF LaneType
<1> QED
  BY <1>1, <1>2, <1>3, <1>4, <1>5, <1>6, <1>7, <1>8, Between DEF Kept

\* One row more.
LEMMA SoundMore ==
    ASSUME LaneInv, Reading, NEW row \in Row, row.run = cmd.run, cmd # NoCommand,
           NEW some \in Seq(Row), Sound(base \o some),
           Accepted(row) => /\ row.page \notin PagesIn(base)
                            /\ \A i \in DOMAIN some : Accepted(some[i]) => some[i].page # row.page,
           row.increment = 1 => \A i \in DOMAIN some : some[i].increment = 1 => some[i].page # row.page
    PROVE  /\ Sound(base \o Append(some, row)) /\ IsPrefix(base \o some, base \o Append(some, row))
           /\ Append(some, row) \in Seq(Row)
<1> USE DEF LaneInv
<1>1. base \in Seq(Row) /\ some \in Seq(Row) /\ Len(base) \in Nat /\ Len(some) \in Nat
      /\ DOMAIN base = 1..Len(base) /\ DOMAIN some = 1..Len(some)
  BY DEF LaneType
<1> DEFINE m == base \o some
           n == base \o Append(some, row)
           l == Len(base) + Len(some) + 1
<1>2. /\ m \in Seq(Row) /\ n \in Seq(Row) /\ DOMAIN m = 1..(l - 1) /\ DOMAIN n = 1..l
      /\ \A i \in 1..(l - 1) : n[i] = m[i]
      /\ n[l] = row /\ l \in Nat /\ Len(m) = l - 1 /\ Len(n) = l
  <2>1. n = Append(m, row) /\ m \in Seq(Row) /\ Len(m) = l - 1
    BY <1>1
  <2> QED
    BY <1>1, <2>1, AppendMeans
<1>3. \A i \in 1..(l - 1) : \/ i \in DOMAIN base /\ m[i] = base[i]
                            \/ i - Len(base) \in DOMAIN some /\ m[i] = some[i - Len(base)]
  BY <1>1, WholeMeans
<1>4. Sound(m)
  OBVIOUS
<1>5. \A i \in DOMAIN base : base[i].run < cmd.run
  BY DEF RowsInv
<1>6. cmd.run \in Nat /\ cmd.run = Used
  BY LaneBounds DEF LaneType
<1>7. Accepted(row) => \A i \in 1..(l - 1) : Accepted(m[i]) => m[i].page # row.page
  <2> SUFFICES ASSUME Accepted(row), NEW i \in 1..(l - 1), Accepted(m[i]) PROVE m[i].page # row.page
    OBVIOUS
  <2>1. CASE i \in DOMAIN base /\ m[i] = base[i]
    BY <2>1 DEF PagesIn
  <2>2. CASE i - Len(base) \in DOMAIN some /\ m[i] = some[i - Len(base)]
    BY <2>2
  <2> QED
    BY <1>3, <2>1, <2>2
<1>8. row.increment = 1 => \A i \in 1..(l - 1) : m[i].increment = 1 /\ m[i].run = row.run => m[i].page # row.page
  <2> SUFFICES ASSUME row.increment = 1, NEW i \in 1..(l - 1), m[i].increment = 1, m[i].run = row.run
               PROVE m[i].page # row.page
    OBVIOUS
  <2>1. CASE i \in DOMAIN base /\ m[i] = base[i]
    <3>1. base[i].run < cmd.run /\ base[i].run = cmd.run
      BY <1>5, <2>1
    <3> QED
      BY <1>6, <3>1
  <2>2. CASE i - Len(base) \in DOMAIN some /\ m[i] = some[i - Len(base)]
    BY <2>2
  <2> QED
    BY <1>3, <2>1, <2>2
<1>9. n[l].run <= Used
  BY <1>2, <1>6
<1> HIDE DEF n, m, l
<1>10. Sound(n)
  <2>1. \A i \in DOMAIN n : n[i].run <= Used
    <3> SUFFICES ASSUME NEW i \in DOMAIN n, i # l PROVE n[i].run <= Used
      BY <1>9
    <3>1. i \in 1..(l - 1)
      BY <1>2
    <3> QED
      BY <1>2, <1>4, <3>1 DEF Sound
  <2>2. \A i, j \in DOMAIN n : i < j /\ Accepted(n[i]) /\ Accepted(n[j]) => n[i].page # n[j].page
    <3> SUFFICES ASSUME NEW i \in DOMAIN n, NEW j \in DOMAIN n, i < j, Accepted(n[i]), Accepted(n[j])
                 PROVE  n[i].page # n[j].page
      OBVIOUS
    <3>1. i \in 1..(l - 1)
      BY <1>2
    <3>2. CASE j = l
      BY <1>2, <1>7, <3>1, <3>2
    <3>3. CASE j # l
      <4>1. j \in 1..(l - 1)
        BY <1>2, <3>3
      <4> QED
        BY <1>2, <1>4, <3>1, <4>1 DEF Sound
    <3> QED
      BY <3>2, <3>3
  <2>3. \A i, j \in DOMAIN n : i # j /\ n[i].increment = 1 /\ n[j].increment = 1 /\ n[i].run = n[j].run
           => n[i].page # n[j].page
    <3> SUFFICES ASSUME NEW i \in DOMAIN n, NEW j \in DOMAIN n, i # j,
                        n[i].increment = 1, n[j].increment = 1, n[i].run = n[j].run
                 PROVE  n[i].page # n[j].page
      OBVIOUS
    <3>1. i = l \/ i \in 1..(l - 1)
      BY <1>2
    <3>2. j = l \/ j \in 1..(l - 1)
      BY <1>2
    <3>3. CASE i = l
      <4>1. j \in 1..(l - 1) /\ n[j] = m[j]
        BY <1>2, <3>2, <3>3
      <4> QED
        BY <1>2, <1>8, <3>3, <4>1
    <3>4. CASE j = l
      <4>1. i \in 1..(l - 1) /\ n[i] = m[i]
        BY <1>2, <3>1, <3>4
      <4> QED
        BY <1>2, <1>8, <3>4, <4>1
    <3>5. CASE i \in 1..(l - 1) /\ j \in 1..(l - 1)
      BY <1>2, <1>4, <3>5 DEF Sound
    <3> QED
      BY <3>1, <3>2, <3>3, <3>4, <3>5
  <2> QED
    BY <1>2, <2>1, <2>2, <2>3 DEF Sound
<1>11. IsPrefix(m, n)
  <2>1. Len(m) <= Len(n) /\ \A i \in 1..Len(m) : m[i] = n[i]
    BY <1>2
  <2> QED
    BY <1>2, <2>1, PrefixMeans
<1> QED
  BY <1>1, <1>10, <1>11 DEF m, n

\* A step that adds no row.
LEMMA StayKeeps ==
    ASSUME LaneInv, cmd # NoCommand, cmd.step \in {"discover", "execute", "loop", "drain"},
           UNCHANGED <<disk, commit, cmd, base, rows>>,
           budget' \in [runs : 0..MaxRuns, troubles : Nat], budget'.runs = budget.runs,
           \/ UNCHANGED catalog
           \/ catalog # <<>> /\ catalog' = Tail(catalog)
           \/ cmd.kind = "collect" /\ catalog' \in Seq(Pages),
           cmd.kind \in {"campaign", "round2"} => known \subseteq known'
    PROVE  Kept
<1> USE DEF LaneInv
<1>1. catalog \in Seq(Pages) /\ catalog' \in Seq(Pages)
  <2>1. catalog \in Seq(Pages)
    BY DEF LaneType
  <2>2. catalog # <<>> => Tail(catalog) \in Seq(Pages)
    BY <2>1, TailMeans
  <2> QED
    BY <2>1, <2>2
<1>2. Used' = Used /\ (Reading' <=> Reading) /\ Whole' = Whole /\ PagesIn(rows') = PagesIn(rows)
      /\ PagesIn(base') = PagesIn(base)
  BY DEF Used, Reading, Whole, PagesIn
<1>3. LaneType'
  BY <1>1, <1>2 DEF LaneType
<1>4. cmd.kind = "exact" =>
         /\ {catalog'[k] : k \in DOMAIN catalog'} \subseteq {catalog[k] : k \in DOMAIN catalog}
         /\ \A i, j \in DOMAIN catalog' : i # j => catalog'[i] # catalog'[j]
  <2> SUFFICES ASSUME cmd.kind = "exact", catalog # <<>>, catalog' = Tail(catalog)
               PROVE  /\ {catalog'[k] : k \in DOMAIN catalog'} \subseteq {catalog[k] : k \in DOMAIN catalog}
                      /\ \A i, j \in DOMAIN catalog' : i # j => catalog'[i] # catalog'[j]
    BY DEF RowsInv
  <2>1. \A i \in DOMAIN catalog' : i + 1 \in DOMAIN catalog /\ i \in 1..(Len(catalog) - 1) /\ catalog'[i] = catalog[i + 1]
    BY <1>1, TailMeans
  <2>2. \A i, j \in DOMAIN catalog : i # j => catalog[i] # catalog[j]
    BY DEF RowsInv
  <2>3. \A i, j \in DOMAIN catalog' : i # j => i + 1 # j + 1
    BY <1>1, <2>1
  <2> QED
    BY <2>1, <2>2, <2>3
<1>5. RowsInv'
  <2>1. Sound(Whole)'
    BY <1>2 DEF RowsInv, Sound
  <2>2. cmd.kind = "exact" => \A i \in DOMAIN rows, j \in DOMAIN catalog' : rows[i].page # catalog'[j]
    <3> SUFFICES ASSUME cmd.kind = "exact", NEW i \in DOMAIN rows, NEW j \in DOMAIN catalog'
                 PROVE  rows[i].page # catalog'[j]
      OBVIOUS
    <3>1. PICK k \in DOMAIN catalog : catalog'[j] = catalog[k]
      BY <1>4
    <3> QED
      BY <3>1 DEF RowsInv
  <2>3. LET old == IF Reading' THEN base' ELSE disk'[Manifest] IN
        \A i \in DOMAIN old :
           /\ old[i].run < cmd'.run
           /\ cmd'.kind = "exact" /\ old[i].kind = "exact" =>
                old[i].page \notin {catalog'[k] : k \in DOMAIN catalog'} \cup PagesIn(rows')
    BY <1>2, <1>4 DEF RowsInv
  <2>4. cmd'.kind \in {"campaign", "round2"} =>
             /\ PagesIn(base') \cup PagesIn(rows') \subseteq known'
             /\ PagesIn(base') \cap PagesIn(rows') = {}
    BY <1>2 DEF RowsInv
  <2>5. ~Reading' => base' = <<>> /\ rows' = <<>>
    BY <1>2 DEF RowsInv
  <2>6. \A i \in DOMAIN rows' : rows'[i].run = cmd'.run /\ rows'[i].kind = cmd'.kind
    BY DEF RowsInv
  <2>7. cmd'.kind = "collect" => \A i \in DOMAIN rows' : rows'[i].increment = 1 => Accepted(rows'[i])
    BY DEF RowsInv
  <2> QED
    BY <1>4, <2>1, <2>2, <2>3, <2>4, <2>5, <2>6, <2>7 DEF RowsInv
<1>6. IsPrefix(Whole, Whole')
  <2>1. Whole \in Seq(Row)
    BY LedgerTyped
  <2> QED
    BY <1>2, <2>1, PrefixMeans
<1> QED
  BY <1>2, <1>3, <1>5, <1>6, OnKeeps

\* A step that adds one.
LEMMA AddKeeps ==
    ASSUME LaneInv, cmd # NoCommand, cmd.step \in {"execute", "loop", "drain"},
           NEW row \in Row, row.run = cmd.run, row.kind = cmd.kind, rows' = Append(rows, row),
           Accepted(row) => /\ row.page \notin PagesIn(base)
                            /\ \A i \in DOMAIN rows : Accepted(rows[i]) => rows[i].page # row.page,
           row.increment = 1 => \A i \in DOMAIN rows : rows[i].increment = 1 => rows[i].page # row.page,
           UNCHANGED <<disk, commit, base>>,
           cmd' = cmd \/ (cmd.kind = "round2" /\ cmd' = [cmd EXCEPT !.step = "checkpoint"]),
           budget' \in [runs : 0..MaxRuns, troubles : Nat], budget'.runs = budget.runs,
           \/ cmd.kind \in {"campaign", "round2"} /\ UNCHANGED catalog
           \/ catalog # <<>> /\ row.page = Head(catalog) /\ catalog' = Tail(catalog),
           cmd.kind = "collect" => (row.increment = 1 => Accepted(row)),
           cmd.kind \in {"campaign", "round2"} => row.page \notin known /\ known' = known \cup {row.page}
    PROVE  Kept
<1> USE DEF LaneInv
<1>1. catalog \in Seq(Pages) /\ catalog' \in Seq(Pages) /\ rows \in Seq(Row)
  <2>1. catalog \in Seq(Pages) /\ rows \in Seq(Row)
    BY DEF LaneType
  <2>2. catalog # <<>> => Tail(catalog) \in Seq(Pages)
    BY <2>1, TailMeans
  <2> QED
    BY <2>1, <2>2
<1>2. /\ cmd'.kind = cmd.kind /\ cmd'.run = cmd.run /\ cmd'.batch = cmd.batch
      /\ cmd' \in [kind : Kinds, run : 1..MaxRuns, step : WorkSteps, batch : Batches, limit : Nat]
      /\ cmd'.step \in {"execute", "loop", "drain", "checkpoint"}
      /\ cmd'.step \in Steps[cmd.kind] /\ Reading /\ Reading'
  <2>1. cmd \in [kind : Kinds, run : 1..MaxRuns, step : WorkSteps, batch : Batches, limit : Nat]
        /\ cmd.step \in Steps[cmd.kind]
    BY DEF LaneType
  <2>2. CASE UNCHANGED cmd
    BY <2>1, <2>2 DEF Reading
  <2>3. CASE cmd.kind = "round2" /\ cmd' = [cmd EXCEPT !.step = "checkpoint"]
    BY <2>1, <2>3 DEF Reading, WorkSteps, Steps
  <2> QED
    BY <2>2, <2>3
<1>3. Used' = Used /\ Whole' = base \o rows'
  BY <1>2 DEF Used, Whole
<1>4. Sound(base \o rows') /\ IsPrefix(Whole, base \o rows') /\ rows' \in Seq(Row)
  <2>1. Whole = base \o rows /\ Sound(Whole) /\ rows \in Seq(Row)
    BY <1>1, <1>2 DEF RowsInv, Whole
  <2> QED
    BY <1>2, <2>1, SoundMore
<1>5. cmd' # NoCommand
  BY <1>2 DEF NoCommand
<1>6. LaneType'
  BY <1>1, <1>2, <1>3, <1>4 DEF LaneType
<1>7. /\ DOMAIN rows' = DOMAIN rows \cup {Len(rows) + 1} /\ rows'[Len(rows) + 1] = row
      /\ \A i \in DOMAIN rows : rows'[i] = rows[i]
  BY <1>1, AppendMeans
<1>8. PagesIn(rows') = PagesIn(rows) \cup {row.page}
  BY <1>7 DEF PagesIn
<1>9. cmd.kind \in {"collect", "exact"} =>
        catalog # <<>> /\ row.page = Head(catalog) /\ catalog' = Tail(catalog)
  OBVIOUS
<1>10. cmd.kind = "exact" =>
         /\ {catalog'[k] : k \in DOMAIN catalog'} \cup PagesIn(rows')
              \subseteq {catalog[k] : k \in DOMAIN catalog} \cup PagesIn(rows)
         /\ \A i, j \in DOMAIN catalog' : i # j => catalog'[i] # catalog'[j]
         /\ \A i \in DOMAIN rows', j \in DOMAIN catalog' : rows'[i].page # catalog'[j]
  <2> SUFFICES ASSUME cmd.kind = "exact"
               PROVE  /\ {catalog'[k] : k \in DOMAIN catalog'} \cup PagesIn(rows')
                           \subseteq {catalog[k] : k \in DOMAIN catalog} \cup PagesIn(rows)
                      /\ \A i, j \in DOMAIN catalog' : i # j => catalog'[i] # catalog'[j]
                      /\ \A i \in DOMAIN rows', j \in DOMAIN catalog' : rows'[i].page # catalog'[j]
    OBVIOUS
  <2>1. \A i \in DOMAIN catalog' : i + 1 \in DOMAIN catalog /\ i \in 1..(Len(catalog) - 1) /\ catalog'[i] = catalog[i + 1]
    BY <1>1, <1>9, TailMeans
  <2>2. /\ \A i, j \in DOMAIN catalog : i # j => catalog[i] # catalog[j]
        /\ \A i \in DOMAIN rows, j \in DOMAIN catalog : rows[i].page # catalog[j]
    BY DEF RowsInv
  <2>3. \A i, j \in DOMAIN catalog' : i # j => i + 1 # j + 1
    BY <1>1, <2>1
  <2>4. row.page = catalog[1] /\ 1 \in DOMAIN catalog
    BY <1>1, <1>9, TailMeans
  <2>5. \A j \in DOMAIN catalog' : row.page # catalog'[j]
    <3> SUFFICES ASSUME NEW j \in DOMAIN catalog' PROVE row.page # catalog'[j]
      OBVIOUS
    <3>1. j + 1 \in DOMAIN catalog /\ j + 1 # 1 /\ catalog'[j] = catalog[j + 1]
      BY <1>1, <2>1
    <3> QED
      BY <2>2, <2>4, <3>1
  <2> QED
    BY <1>7, <1>8, <2>1, <2>2, <2>3, <2>4, <2>5
<1>11. RowsInv'
  <2>1. Sound(Whole)'
    <3> DEFINE w == base \o rows'
    <3>1. Sound(w) /\ Whole' = w
      BY <1>3, <1>4
    <3> HIDE DEF w
    <3> QED
      BY <1>3, <3>1 DEF Sound
  <2>2. LET old == IF Reading' THEN base' ELSE disk'[Manifest] IN
        \A i \in DOMAIN old :
           /\ old[i].run < cmd'.run
           /\ cmd'.kind = "exact" /\ old[i].kind = "exact" =>
                old[i].page \notin {catalog'[k] : k \in DOMAIN catalog'} \cup PagesIn(rows')
    <3> SUFFICES ASSUME NEW i \in DOMAIN base
                 PROVE  /\ base[i].run < cmd'.run
                        /\ cmd'.kind = "exact" /\ base[i].kind = "exact" =>
                             base[i].page \notin {catalog'[k] : k \in DOMAIN catalog'} \cup PagesIn(rows')
      BY <1>2
    <3>1. /\ base[i].run < cmd.run
          /\ cmd.kind = "exact" /\ base[i].kind = "exact" =>
               base[i].page \notin {catalog[k] : k \in DOMAIN catalog} \cup PagesIn(rows)
      BY <1>2 DEF RowsInv
    <3> QED
      BY <1>2, <1>10, <3>1
  <2>3. cmd'.kind \in {"campaign", "round2"} =>
             /\ PagesIn(base') \cup PagesIn(rows') \subseteq known'
             /\ PagesIn(base') \cap PagesIn(rows') = {}
    <3> SUFFICES ASSUME cmd.kind \in {"campaign", "round2"}
                 PROVE  /\ PagesIn(base) \cup PagesIn(rows') \subseteq known'
                        /\ PagesIn(base) \cap PagesIn(rows') = {}
      <4>1. PagesIn(base') = PagesIn(base)
        BY DEF PagesIn
      <4> QED
        BY <1>2, <4>1
    <3>1. /\ PagesIn(base) \cup PagesIn(rows) \subseteq known
          /\ PagesIn(base) \cap PagesIn(rows) = {}
          /\ row.page \notin known /\ known' = known \cup {row.page}
      BY DEF RowsInv
    <3> QED
      BY <1>8, <3>1
  <2>4. \A i \in DOMAIN rows' : rows'[i].run = cmd'.run /\ rows'[i].kind = cmd'.kind
    <3>1. \A i \in DOMAIN rows : rows[i].run = cmd.run /\ rows[i].kind = cmd.kind
      BY DEF RowsInv
    <3> QED
      BY <1>2, <1>7, <3>1
  <2>5. cmd'.kind = "collect" => \A i \in DOMAIN rows' : rows'[i].increment = 1 => Accepted(rows'[i])
    <3>1. cmd.kind = "collect" => \A i \in DOMAIN rows : rows[i].increment = 1 => Accepted(rows[i])
      BY DEF RowsInv
    <3> QED
      BY <1>2, <1>7, <3>1
  <2> QED
    BY <1>2, <1>10, <2>1, <2>2, <2>3, <2>4, <2>5 DEF RowsInv
<1> QED
  BY <1>2, <1>3, <1>4, <1>6, <1>11, OnKeeps

-----------------------------------------------------------------------------
(* The sequential collectors *)

LEMMA StartExecuteKeeps ==
    ASSUME LaneInv, StartExecute, UNCHANGED campaignVars
    PROVE  Kept
<1> USE DEF LaneInv
<1>1. /\ cmd.step = "catalog" /\ Written /\ base' = disk[Manifest] /\ commit' = NoCommit
      /\ cmd' = [cmd EXCEPT !.step = "execute"]
      /\ UNCHANGED <<disk, rows, budget, catalog, known>>
  BY DEF StartExecute, batchVars, campaignVars
<1>2. cmd # NoCommand /\ cmd.kind \in {"collect", "exact"} /\ rows = <<>> /\ ~Reading
  BY <1>1, StepKinds DEF Reading, RowsInv
<1>3. /\ cmd'.step = "execute" /\ cmd'.kind = cmd.kind /\ cmd'.run = cmd.run /\ cmd'.batch = cmd.batch
      /\ cmd' \in [kind : Kinds, run : 1..MaxRuns, step : WorkSteps, batch : Batches, limit : Nat]
      /\ cmd' # NoCommand /\ "execute" \in Steps[cmd.kind]
  <2>1. cmd \in [kind : Kinds, run : 1..MaxRuns, step : WorkSteps, batch : Batches, limit : Nat]
    BY <1>2 DEF LaneType
  <2>2. cmd' \in [kind : Kinds, run : 1..MaxRuns, step : WorkSteps, batch : Batches, limit : Nat]
        /\ cmd'.step = "execute" /\ cmd'.kind = cmd.kind /\ cmd'.run = cmd.run /\ cmd'.batch = cmd.batch
    BY <1>1, <2>1 DEF WorkSteps
  <2>3. "execute" \in Steps[cmd.kind]
    BY <1>2 DEF Steps
  <2> QED
    BY <2>2, <2>3 DEF NoCommand
<1>4. /\ commit'.done = <<>> /\ commit'.todo = <<>> /\ ~commit'.restoring
      /\ commit' \in [todo : Seq(Entry), done : Seq(Entry), restoring : BOOLEAN]
  BY <1>1 DEF NoCommit
<1>5. disk[Manifest] \in Seq(Row) /\ Sound(disk[Manifest])
  BY <1>1, <1>4, Settles
<1>6. Plan' = <<>> /\ <<>> \in Seq(Entry) /\ Reading' /\ Used' = Used
  BY <1>1, <1>3 DEF Plan, Reading, Used
<1>7. Whole' = disk[Manifest]
  BY <1>1, <1>2, <1>5, <1>6, NothingAfter DEF Whole
<1>8. LaneType'
  <2>1. cmd'.step \in Steps[cmd'.kind] /\ cmd'.run = Used'
    BY <1>2, <1>3, <1>6 DEF LaneType
  <2> QED
    BY <1>1, <1>3, <1>4, <1>5, <1>6, <2>1 DEF LaneType
<1>9. RowsInv'
  <2>1. Sound(Whole)'
    BY <1>5, <1>6, <1>7 DEF Sound
  <2>2. PagesIn(rows') = PagesIn(rows) /\ DOMAIN rows' = {}
    BY <1>1, <1>2 DEF PagesIn
  <2>3. \A i \in DOMAIN base' :
           /\ base'[i].run < cmd'.run
           /\ cmd'.kind = "exact" /\ base'[i].kind = "exact" =>
                base'[i].page \notin {catalog'[k] : k \in DOMAIN catalog'} \cup PagesIn(rows')
    BY <1>1, <1>2, <1>3, <2>2 DEF RowsInv
  <2>4. cmd'.kind = "exact" => \A i, j \in DOMAIN catalog' : i # j => catalog'[i] # catalog'[j]
    BY <1>1, <1>3 DEF RowsInv
  <2> QED
    BY <1>2, <1>3, <1>6, <2>1, <2>2, <2>3, <2>4 DEF RowsInv
<1>10. IsPrefix(disk[Manifest], disk[Manifest])
  BY <1>5, PrefixMeans
<1> QED
  BY <1>1, <1>3, <1>4, <1>6, <1>7, <1>8, <1>9, <1>10, Between DEF Kept

\* What a request costs.
LEMMA SendMeans ==
    ASSUME LaneType, NEW s, NEW stage, NEW o \in Outcomes(s, stage), Send(s, stage, o)
    PROVE  budget' \in [runs : 0..MaxRuns, troubles : Nat] /\ budget'.runs = budget.runs
<1>1. budget \in [runs : 0..MaxRuns, troubles : Nat]
  BY DEF LaneType
<1>2. PICK m : o \in [tries : 0..m, ok : BOOLEAN]
  BY DEF Outcomes
<1>3. (o.ok => o.tries > 0) /\ o.tries - (IF o.ok THEN 1 ELSE 0) <= budget.troubles
  BY DEF Outcomes
<1>4. budget.troubles - (o.tries - (IF o.ok THEN 1 ELSE 0)) \in Nat
  BY <1>1, <1>2, <1>3
<1>5. budget' = [budget EXCEPT !.troubles = budget.troubles - (o.tries - (IF o.ok THEN 1 ELSE 0))]
  BY DEF Send
<1> DEFINE rest == budget.troubles - (o.tries - (IF o.ok THEN 1 ELSE 0))
<1>6. rest \in Nat /\ budget' = [budget EXCEPT !.troubles = rest]
  BY <1>4, <1>5
<1> HIDE DEF rest
<1> QED
  BY <1>1, <1>6

LEMMA DiscoverKeeps ==
    ASSUME LaneInv, Discover, UNCHANGED campaignVars, asking \in Seq(Sources)
    PROVE  Kept
<1>1. cmd.step = "discover" /\ asking # <<>> /\ UNCHANGED <<disk, commit, cmd, base, rows, known>>
  BY DEF Discover, campaignVars
<1>2. PICK o \in Outcomes(Head(asking), "discovery") :
        /\ Send(Head(asking), "discovery", o)
        /\ catalog' = IF o.ok THEN catalog \o Listing[Head(asking)] ELSE catalog
  BY DEF Discover
<1>3. LaneType
  BY DEF LaneInv
<1>4. cmd.kind = "collect" /\ cmd # NoCommand
  BY <1>1, <1>3, StepKinds
<1>5. budget' \in [runs : 0..MaxRuns, troubles : Nat] /\ budget'.runs = budget.runs
  BY <1>2, <1>3, SendMeans
<1>6. catalog' \in Seq(Pages)
  <2>1. catalog \in Seq(Pages) /\ Listing[Head(asking)] \in Seq(Pages)
    BY <1>1, <1>3, TailMeans, PageAssumption DEF LaneType
  <2> QED
    BY <1>2, <2>1
<1> QED
  BY <1>1, <1>4, <1>5, <1>6, StayKeeps

LEMMA SkipPageKeeps ==
    ASSUME LaneInv, SkipPage, UNCHANGED campaignVars
    PROVE  Kept
<1>1. /\ cmd.step = "execute" /\ catalog # <<>> /\ catalog' = Tail(catalog)
      /\ UNCHANGED <<disk, commit, cmd, base, rows, budget, known>>
  BY DEF SkipPage, campaignVars
<1>2. cmd # NoCommand /\ budget \in [runs : 0..MaxRuns, troubles : Nat]
  BY <1>1, StepKinds DEF LaneInv, LaneType
<1> QED
  BY <1>1, <1>2, StayKeeps

\* The row of a page of a sequential run.
LEMMA RowOfMeans ==
    ASSUME LaneInv, cmd.step = "execute", NEW page \in Pages
    PROVE  /\ RowOf(page) \in Row /\ RowOf(page).page = page
           /\ RowOf(page).run = cmd.run /\ RowOf(page).kind = cmd.kind
           /\ Accepted(RowOf(page)) => page \notin Known
           /\ cmd.kind = "collect" => (RowOf(page).increment = 1 => Accepted(RowOf(page)))
<1> DEFINE d == Decision(page)
           new == IF cmd.kind = "exact" THEN d # "duplicate" ELSE d \in {"accepted", "review"}
           n == IF new THEN 1 ELSE 0
<1>1. d \in {"accepted", "review", "duplicate", "rejected"} /\ (d \in {"accepted", "review"} => page \notin Known)
  BY DEF Decision
<1>2. cmd.kind \in Kinds /\ cmd.run \in 1..MaxRuns
  <2>1. cmd # NoCommand
    BY StepKinds DEF LaneInv
  <2> QED
    BY <2>1 DEF LaneInv, LaneType
<1>3. n \in 0..1 /\ (cmd.kind = "collect" => (n = 1 => d \in {"accepted", "review"}))
  OBVIOUS
<1>4. RowOf(page) = [page |-> page, kind |-> cmd.kind, run |-> cmd.run, decision |-> d, increment |-> n]
  BY DEF RowOf
<1> HIDE DEF d, n
<1> QED
  BY <1>1, <1>2, <1>3, <1>4 DEF Row, Accepted

LEMMA CollectPageKeeps ==
    ASSUME LaneInv, CollectPage, UNCHANGED campaignVars
    PROVE  Kept
<1> DEFINE page == Head(catalog)
<1>1. /\ cmd.step = "execute" /\ catalog # <<>> /\ catalog' = Tail(catalog)
      /\ UNCHANGED <<disk, commit, cmd, base, known>>
  BY DEF CollectPage, campaignVars
<1>2. PICK o \in Outcomes(SourceOf[page], "detail") :
        /\ Send(SourceOf[page], "detail", o)
        /\ rows' = IF o.ok THEN Append(rows, RowOf(page)) ELSE rows
  BY DEF CollectPage
<1>3. LaneType /\ catalog \in Seq(Pages) /\ rows \in Seq(Row) /\ cmd # NoCommand /\ cmd.kind \in {"collect", "exact"}
      /\ RowsInv
  BY <1>1, StepKinds DEF LaneInv, LaneType
<1>4. budget' \in [runs : 0..MaxRuns, troubles : Nat] /\ budget'.runs = budget.runs
  BY <1>2, <1>3, SendMeans
<1>5. CASE ~o.ok
  BY <1>1, <1>2, <1>3, <1>4, <1>5, StayKeeps
<1>6. CASE o.ok
  <2> DEFINE row == RowOf(page)
  <2>1. page \in Pages /\ 1 \in DOMAIN catalog /\ page = catalog[1]
    BY <1>1, <1>3, TailMeans
  <2>2. /\ row \in Row /\ row.page = page /\ row.run = cmd.run /\ row.kind = cmd.kind
        /\ Accepted(row) => page \notin Known
        /\ cmd.kind = "collect" => (row.increment = 1 => Accepted(row))
    BY <1>1, <2>1, RowOfMeans
  <2>3. Accepted(row) => /\ row.page \notin PagesIn(base)
                         /\ \A i \in DOMAIN rows : Accepted(rows[i]) => rows[i].page # row.page
    BY <2>2 DEF Known, KnownNow
  <2>4. ASSUME row.increment = 1, NEW i \in DOMAIN rows, rows[i].increment = 1
        PROVE  rows[i].page # row.page
    <3>1. CASE cmd.kind = "collect"
      <4>1. Accepted(row) /\ Accepted(rows[i])
        BY <1>3, <2>2, <2>4, <3>1 DEF RowsInv
      <4> QED
        BY <2>3, <4>1
    <3>2. CASE cmd.kind = "exact"
      <4>1. rows[i].page # catalog[1]
        BY <1>3, <2>1, <3>2 DEF RowsInv
      <4> QED
        BY <2>1, <2>2, <4>1
    <3> QED
      BY <1>3, <3>1, <3>2
  <2>5. rows' = Append(rows, row) /\ row.page = Head(catalog)
    BY <1>2, <1>6, <2>2
  <2> HIDE DEF row, page
  <2> QED
    BY <1>1, <1>3, <1>4, <2>2, <2>3, <2>4, <2>5, AddKeeps
<1> QED
  BY <1>5, <1>6

-----------------------------------------------------------------------------
(* The threads of a campaign and of round2 *)

WorkerSteps == {"none", "robots", "host", "list", "search", "items", "html", "json",
                "records", "end", "dead", "done"}
Workers == [step : WorkerSteps, todo : SUBSET Pages, requests : Nat,
            out : Pages \cup {None}, fetched : SUBSET Pages]

\* What goes between the threads; a worker has pages of its source only.
WorkType ==
    /\ asking \in Seq(Sources)
    /\ worker \in [Sources -> Workers]
    /\ \A s \in Sources : \A p \in worker[s].todo : SourceOf[p] = s
    /\ queue \in Seq(Pages \cup Sources)
    /\ known \subseteq Pages /\ deferred \in Seq(Pages) /\ stop \in BOOLEAN

LEMMA HasMin == ASSUME NEW T \in SUBSET Nat, T # {} PROVE Min(T) \in T /\ \A n \in T : Min(T) <= n
<1>1. \E m \in T : \A k \in T : <<k, m>> \notin OpToRel(<, Nat)
  BY WFMin, NatLessThanWellFounded, Zenon
<1>2. PICK m \in T : \A k \in T : <<k, m>> \notin OpToRel(<, Nat)
  BY <1>1
<1>3. \A k \in T : ~(k < m)
  BY <1>2, Zenon DEF OpToRel
<1>4. \A k \in T : m <= k
  BY <1>3
<1> QED
  BY <1>4 DEF Min

\* The sources in some order.
LEMMA SetAsSeq == ASSUME NEW S, IsFiniteSet(S) PROVE SetToSeq(S) \in Seq(S)
<1>1. Cardinality(S) \in Nat /\ \E f : f \in Bijection(1..Cardinality(S), S)
  BY FS_CardinalityType DEF ExistsBijection
<1>2. \E f \in [1..Cardinality(S) -> S] : IsInjective(f)
  BY <1>1 DEF Bijection, Injection, IsInjective
<1>3. SetToSeq(S) \in [1..Cardinality(S) -> S]
  BY <1>2 DEF SetToSeq
<1> QED
  BY <1>1, <1>3

LEMMA NextOfSource ==
    ASSUME WorkType, NEW s \in Sources, worker[s].todo # {}
    PROVE  NextPage(s) \in worker[s].todo
<1> DEFINE T == {i \in DOMAIN Listing[s] : Listing[s][i] \in worker[s].todo}
<1>1. Listing[s] \in Seq(Pages)
  BY PageAssumption
<1>2. T \in SUBSET Nat
  BY <1>1
<1>3. T # {}
  <2>1. PICK p \in worker[s].todo : TRUE
    OBVIOUS
  <2>2. p \in Pages /\ SourceOf[p] = s
    BY <2>1 DEF WorkType, Workers
  <2> QED
    BY <2>1, <2>2, PageAssumption
<1>4. Min(T) \in T
  BY <1>2, <1>3, HasMin
<1> QED
  BY <1>4 DEF NextPage

\* A worker goes on: nothing else changes but the queue and the budget.
LEMMA MovesMeans ==
    ASSUME WorkType, NEW s \in Sources, NEW w \in Workers, Moves(s, w),
           \A p \in w.todo : SourceOf[p] = s, queue' \in Seq(Pages \cup Sources)
    PROVE  WorkType'
<1>1. worker' = [worker EXCEPT ![s] = w] /\ UNCHANGED <<asking, known, deferred, stop>>
  BY DEF Moves, batchVars
<1>2. worker' \in [Sources -> Workers]
  BY <1>1 DEF WorkType
<1>3. \A r \in Sources : \A p \in worker'[r].todo : SourceOf[p] = r
  BY <1>1 DEF WorkType
<1> QED
  BY <1>1, <1>2, <1>3 DEF WorkType

\* A step of a worker: its own record changes, and at most the queue and the
\* budget with it.
Turned(s) ==
    /\ \E w \in Workers : Moves(s, w) /\ \A p \in w.todo : SourceOf[p] = s
    /\ queue' \in Seq(Pages \cup Sources)
    /\ budget' = budget \/ (budget.troubles > 0 /\ Fault)

LEMMA FetchTurns ==
    ASSUME WorkType, NEW s \in Sources, worker[s].todo # {}, UNCHANGED queue,
           Fetch(s, NextPage(s)) \/ Drop(s, NextPage(s))
    PROVE  Turned(s)
<1> DEFINE page == NextPage(s)
           old == worker[s]
           w == [old EXCEPT !.requests = @ + 1, !.todo = @ \ {page}]
           v == [w EXCEPT !.out = page, !.fetched = @ \cup {page}]
           d == [old EXCEPT !.todo = @ \ {page}]
<1>1. old \in Workers /\ (\A p \in old.todo : SourceOf[p] = s) /\ page \in old.todo /\ old.todo \subseteq Pages
  <2>1. page \in old.todo
    BY NextOfSource
  <2> QED
    BY <2>1 DEF WorkType, Workers
<1>2. page \in Pages
  BY <1>1
<1> HIDE DEF page, old
<1>3. old.requests + 1 \in Nat /\ old.todo \ {page} \in SUBSET Pages /\ old.fetched \cup {page} \in SUBSET Pages
  BY <1>1, <1>2 DEF Workers
<1>4. w \in Workers /\ w.todo = old.todo \ {page} /\ w.fetched = old.fetched
  BY <1>1, <1>3 DEF Workers
<1>5. d \in Workers /\ d.todo = old.todo \ {page}
  BY <1>1, <1>3 DEF Workers
<1> HIDE DEF w, d
<1>6. v \in Workers /\ v.todo = old.todo \ {page}
  BY <1>2, <1>3, <1>4 DEF Workers
<1> HIDE DEF v
<1>7. \/ Moves(s, v) /\ UNCHANGED budget
      \/ budget.troubles > 0 /\ Fault /\ Moves(s, w)
      \/ Moves(s, d) /\ UNCHANGED budget
  BY DEF Fetch, Drop, v, w, d, old, page
<1>8. \E x \in Workers : Moves(s, x) /\ \A p \in x.todo : SourceOf[p] = s
  BY <1>1, <1>4, <1>5, <1>6, <1>7
<1>9. queue' \in Seq(Pages \cup Sources)
  BY DEF WorkType
<1> QED
  BY <1>7, <1>8, <1>9 DEF Turned

LEMMA WorkTurns ==
    ASSUME WorkType, NEW s \in Sources, Work(s)
    PROVE  Turned(s)
<1> DEFINE old == worker[s]
           own == {p \in Pages : SourceOf[p] = s}
<1>1. /\ old \in Workers /\ (\A p \in old.todo : SourceOf[p] = s) /\ queue \in Seq(Pages \cup Sources)
      /\ old.requests + 1 \in Nat /\ old.todo \subseteq Pages /\ old.fetched \subseteq Pages
      /\ old.out \in Pages \cup {None}
  BY DEF WorkType, Workers
<1> HIDE DEF old
<1>2. ASSUME NEW w \in Workers, w.todo \subseteq own, Moves(s, w),
             queue' \in Seq(Pages \cup Sources), budget' = budget \/ (budget.troubles > 0 /\ Fault)
      PROVE  Turned(s)
  BY <1>2 DEF Turned
<1>3. CASE LoadRobots(s)
  <2> DEFINE w == [old EXCEPT !.step = FirstStep(s), !.requests = 1, !.todo = own]
             e == [old EXCEPT !.step = "end"]
  <2>1. FirstStep(s) \in WorkerSteps
    BY DEF FirstStep, WorkerSteps
  <2>2. w \in Workers /\ w.todo = own
    BY <1>1, <2>1 DEF Workers
  <2>3. e \in Workers /\ e.todo \subseteq own
    BY <1>1 DEF Workers, WorkerSteps
  <2>4. \/ Moves(s, w) /\ UNCHANGED budget
        \/ budget.troubles > 0 /\ Fault /\ Moves(s, e)
    BY <1>3 DEF LoadRobots, old
  <2>5. UNCHANGED queue
    BY <1>3 DEF LoadRobots
  <2> HIDE DEF w, e
  <2> QED
    BY <1>1, <1>2, <2>2, <2>3, <2>4, <2>5
<1>4. CASE BulkList(s)
  <2> DEFINE w == [old EXCEPT !.requests = @ + 1, !.step = "records"]
             e == [old EXCEPT !.step = "end"]
  <2>1. w \in Workers /\ w.todo \subseteq own
    BY <1>1 DEF Workers, WorkerSteps
  <2>2. e \in Workers /\ e.todo \subseteq own
    BY <1>1 DEF Workers, WorkerSteps
  <2>3. \/ Moves(s, w) /\ UNCHANGED budget
        \/ budget.troubles > 0 /\ Fault /\ Moves(s, e)
    BY <1>4 DEF BulkList, old
  <2>4. UNCHANGED queue
    BY <1>4 DEF BulkList
  <2> HIDE DEF w, e
  <2> QED
    BY <1>1, <1>2, <2>1, <2>2, <2>3, <2>4
<1>5. CASE JsonSearch(s) \/ ItemList(s)
  <2> DEFINE f(x) == [old EXCEPT !.requests = @ + 1, !.step = x, !.todo = @ \ known]
             e(x) == [old EXCEPT !.step = x]
  <2>1. \A x \in {"json", "records"} : f(x) \in Workers /\ f(x).todo \subseteq own
    BY <1>1 DEF Workers, WorkerSteps
  <2>2. \A x \in {"end", "dead"} : e(x) \in Workers /\ e(x).todo \subseteq own
    BY <1>1 DEF Workers, WorkerSteps
  <2>3. \/ \E x \in {"json", "records"} : Moves(s, f(x)) /\ UNCHANGED budget
        \/ \E x \in {"end", "dead"} : budget.troubles > 0 /\ Fault /\ Moves(s, e(x))
    BY <1>5 DEF JsonSearch, ItemList, old
  <2>4. UNCHANGED queue
    BY <1>5 DEF JsonSearch, ItemList
  <2> HIDE DEF f, e
  <2> QED
    BY <1>1, <1>2, <2>1, <2>2, <2>3, <2>4
<1>6. CASE HostFetch(s) \/ HtmlFetch(s) \/ JsonFetch(s)
  BY <1>6, FetchTurns DEF HostFetch, HtmlFetch, JsonFetch, More
<1>7. CASE NextRecord(s)
  <2> DEFINE page == NextPage(s)
             w == [old EXCEPT !.out = page, !.todo = @ \ {page}, !.fetched = @ \cup {page}]
  <2>1. page \in Pages
    BY <1>1, <1>7, NextOfSource DEF NextRecord, old
  <2>2. w \in Workers /\ w.todo \subseteq own
    BY <1>1, <2>1 DEF Workers
  <2>3. Moves(s, w) /\ UNCHANGED <<budget, queue>>
    BY <1>7 DEF NextRecord, old
  <2> HIDE DEF w, page
  <2> QED
    BY <1>1, <1>2, <2>2, <2>3
<1>8. CASE Put(s)
  <2> DEFINE w == [old EXCEPT !.out = None]
  <2>1. w \in Workers /\ w.todo \subseteq own
    BY <1>1 DEF Workers
  <2>2. Moves(s, w) /\ UNCHANGED budget /\ queue' = Append(queue, old.out) /\ old.out # None
    BY <1>8 DEF Put, old
  <2>3. queue' \in Seq(Pages \cup Sources)
    BY <1>1, <2>2
  <2> HIDE DEF w
  <2> QED
    BY <1>1, <1>2, <2>1, <2>2, <2>3
<1>9. CASE PutStats(s)
  <2> DEFINE w == [old EXCEPT !.step = "done", !.todo = {}]
  <2>1. w \in Workers /\ w.todo \subseteq own
    BY <1>1 DEF Workers, WorkerSteps
  <2>2. Moves(s, w) /\ UNCHANGED budget /\ queue' = Append(queue, s)
    BY <1>9 DEF PutStats, old
  <2>3. queue' \in Seq(Pages \cup Sources)
    BY <1>1, <2>2
  <2> HIDE DEF w
  <2> QED
    BY <1>1, <1>2, <2>1, <2>2, <2>3
<1> QED
  BY <1>3, <1>4, <1>5, <1>6, <1>7, <1>8, <1>9 DEF Work

\* No worker touches what the command writes.
LEMMA WorkKeeps ==
    ASSUME LaneInv, WorkType, NEW s \in Sources, Work(s)
    PROVE  LaneInv' /\ Ledger' = Ledger /\ WorkType'
<1>1. Turned(s)
  BY WorkTurns
<1>2. PICK w \in Workers : Moves(s, w) /\ \A p \in w.todo : SourceOf[p] = s
  BY <1>1 DEF Turned
<1>3. UNCHANGED <<disk, commit, cmd, base, rows, catalog, known>>
  BY <1>2 DEF Moves, batchVars
<1>4. budget' \in [runs : 0..MaxRuns, troubles : Nat] /\ budget'.runs = budget.runs
  <2>1. budget \in [runs : 0..MaxRuns, troubles : Nat]
    BY DEF LaneInv, LaneType
  <2>2. CASE UNCHANGED budget
    BY <2>1, <2>2
  <2>3. CASE budget.troubles > 0 /\ Fault
    <3>1. budget' = [budget EXCEPT !.troubles = budget.troubles - 1] /\ budget.troubles - 1 \in Nat
      BY <2>1, <2>3 DEF Fault
    <3> QED
      BY <2>1, <3>1
  <2> QED
    BY <1>1, <2>2, <2>3 DEF Turned
<1> QED
  BY <1>1, <1>2, <1>3, <1>4, StandStill, MovesMeans DEF Turned

-----------------------------------------------------------------------------
(* What the main thread of a campaign holds *)

CampaignRow(page) == [page |-> page, kind |-> "campaign", run |-> cmd.run,
                      decision |-> CampaignDecision(page), increment |-> 1]
States == [rows : Seq(Row), known : SUBSET Pages, deferred : Seq(Pages), stop : BOOLEAN]

\* What is said of it wherever the loop and the drain have got to.
GoodHold(st) ==
    /\ st \in States
    /\ \A i \in DOMAIN st.rows :
         st.rows[i].run = cmd.run /\ st.rows[i].kind = "campaign" /\ st.rows[i].increment = 1
    /\ PagesIn(base) \cup PagesIn(st.rows) \subseteq st.known
    /\ PagesIn(base) \cap PagesIn(st.rows) = {}
    /\ Sound(base \o st.rows) /\ IsPrefix(Whole, base \o st.rows)
    /\ Counted(base \o st.rows, Sources) = InAll(st)
    /\ \A page \in PagesIn(st.rows) : OfPublisher(st, page) <= Share[InAll(st)]

LEMMA PrefixTrans ==
    ASSUME NEW S, NEW s \in Seq(S), NEW t \in Seq(S), NEW u \in Seq(S), IsPrefix(s, t), IsPrefix(t, u)
    PROVE  IsPrefix(s, u)
<1>1. Len(s) <= Len(t) /\ \A i \in 1..Len(s) : s[i] = t[i]
  BY PrefixMeans
<1>2. Len(t) <= Len(u) /\ \A i \in 1..Len(t) : t[i] = u[i]
  BY PrefixMeans
<1>3. Len(s) <= Len(u) /\ \A i \in 1..Len(s) : s[i] = u[i]
  BY <1>1, <1>2
<1> QED
  BY <1>3, PrefixMeans

LEMMA StoredMeans ==
    ASSUME NEW st \in States, NEW page \in Pages, cmd.run \in 1..MaxRuns
    PROVE  /\ CampaignRow(page) \in Row
           /\ Stored(st, page) \in States
           /\ Stored(st, page).rows = Append(st.rows, CampaignRow(page))
           /\ Stored(st, page).known = st.known \cup {page}
           /\ Stored(st, page).deferred = st.deferred
<1> DEFINE row == CampaignRow(page)
           s == InAll(st) + 1 >= Target
<1>1. CampaignDecision(page) \in {"accepted", "review", "rejected"}
  BY DEF CampaignDecision
<1>2. row \in Row
  BY <1>1 DEF CampaignRow, Row, Kinds
<1>3. s \in BOOLEAN
  OBVIOUS
<1>4. Stored(st, page) = [st EXCEPT !.rows = Append(@, row), !.known = @ \cup {page}, !.stop = s]
  BY DEF Stored, CampaignRow
<1> HIDE DEF row, s
<1>5. Append(st.rows, row) \in Seq(Row) /\ st.known \cup {page} \in SUBSET Pages
  BY <1>2 DEF States
<1> DEFINE r == Append(st.rows, row)
           k == st.known \cup {page}
<1>6. Stored(st, page) = [st EXCEPT !.rows = r, !.known = k, !.stop = s] /\ r \in Seq(Row) /\ k \in SUBSET Pages
  BY <1>4, <1>5
<1> HIDE DEF r, k
<1>7. Stored(st, page) \in States /\ Stored(st, page).rows = r /\ Stored(st, page).known = k
      /\ Stored(st, page).deferred = st.deferred
  BY <1>3, <1>6 DEF States
<1> QED
  BY <1>2, <1>7 DEF r, k, row

\* How many rows count, when one more is there.
LEMMA CountMore ==
    ASSUME NEW m \in Seq(Row), NEW row \in Row, NEW sources
    PROVE  LET own == IF row.increment = 1 /\ SourceOf[row.page] \in sources THEN 1 ELSE 0 IN
           /\ Counted(m, sources) \in Nat
           /\ Counted(Append(m, row), sources) = Counted(m, sources) + own
<1> DEFINE n == Append(m, row)
           l == Len(m) + 1
           S(q) == {i \in DOMAIN q : q[i].increment = 1 /\ SourceOf[q[i].page] \in sources}
<1>1. /\ DOMAIN n = DOMAIN m \cup {l} /\ n[l] = row /\ l \in Nat /\ l \notin DOMAIN m
      /\ \A i \in DOMAIN m : n[i] = m[i]
  BY AppendMeans
<1>2. IsFiniteSet(DOMAIN m)
  <2>1. DOMAIN m = 1..Len(m) /\ Len(m) \in Nat
    OBVIOUS
  <2> QED
    BY <2>1, FS_Interval
<1>3. IsFiniteSet(S(m)) /\ Cardinality(S(m)) \in Nat
  BY <1>2, FS_Subset, FS_CardinalityType
<1>4. S(n) = IF row.increment = 1 /\ SourceOf[row.page] \in sources THEN S(m) \cup {l} ELSE S(m)
  BY <1>1
<1>5. l \notin S(m)
  BY <1>1
<1> HIDE DEF S
<1>6. Cardinality(S(m) \cup {l}) = Cardinality(S(m)) + 1
  BY <1>3, <1>5, FS_AddElement
<1>7. Counted(m, sources) = Cardinality(S(m)) /\ Counted(n, sources) = Cardinality(S(n))
  BY DEF Counted, S
<1>8. CASE row.increment = 1 /\ SourceOf[row.page] \in sources
  BY <1>3, <1>4, <1>6, <1>7, <1>8
<1>9. CASE ~(row.increment = 1 /\ SourceOf[row.page] \in sources)
  BY <1>3, <1>4, <1>7, <1>9
<1> QED
  BY <1>8, <1>9

\* Rows that keep the publishers' shares, kept or stored.
LEMMA GoodStored ==
    ASSUME LaneInv, cmd.kind = "campaign", Reading,
           NEW st, GoodHold(st), NEW page \in Pages, Storable(st, page)
    PROVE  GoodHold(Stored(st, page))
<1> DEFINE row == CampaignRow(page)
           new == Stored(st, page)
           family(p) == {s \in Sources : Family[s] = Family[SourceOf[p]]}
<1>0. LaneType /\ RowsInv /\ base \in Seq(Row) /\ cmd # NoCommand /\ cmd.run \in 1..MaxRuns /\ st \in States
  BY DEF LaneInv, LaneType, GoodHold, NoCommand
<1>1. /\ row \in Row /\ new \in States /\ new.rows = Append(st.rows, row)
      /\ new.known = st.known \cup {page}
      /\ st.rows \in Seq(Row)
  BY <1>0, StoredMeans DEF States
<1>2. row.page = page /\ row.run = cmd.run /\ row.kind = "campaign" /\ row.increment = 1
  BY DEF CampaignRow
<1>3. page \notin st.known
  BY DEF Storable, Fits
<1>4. PagesIn(base) \cup PagesIn(st.rows) \subseteq st.known /\ PagesIn(base) \cap PagesIn(st.rows) = {}
      /\ Sound(base \o st.rows) /\ IsPrefix(Whole, base \o st.rows)
  BY DEF GoodHold
<1> HIDE DEF row, new
<1>5. /\ DOMAIN new.rows = DOMAIN st.rows \cup {Len(st.rows) + 1} /\ new.rows[Len(st.rows) + 1] = row
      /\ Len(new.rows) = Len(st.rows) + 1 /\ Len(st.rows) \in Nat
      /\ \A i \in DOMAIN st.rows : new.rows[i] = st.rows[i]
  BY <1>1, AppendMeans
<1>6. PagesIn(new.rows) = PagesIn(st.rows) \cup {page}
  BY <1>2, <1>5 DEF PagesIn
<1>7. \A i \in DOMAIN st.rows : st.rows[i].page # page
  BY <1>3, <1>4 DEF PagesIn
<1>8. Sound(base \o new.rows) /\ IsPrefix(base \o st.rows, base \o new.rows)
  <2>1. row.page \notin PagesIn(base)
    BY <1>2, <1>3, <1>4
  <2> QED
    BY <1>0, <1>1, <1>2, <1>4, <1>7, <2>1, SoundMore
<1>9. IsPrefix(Whole, base \o new.rows)
  <2>1. Whole \in Seq(Row) /\ base \o st.rows \in Seq(Row) /\ base \o new.rows \in Seq(Row)
    BY <1>0, <1>4, <1>8 DEF RowsInv, Sound
  <2> QED
    BY <1>4, <1>8, <2>1, PrefixTrans
<1>10. base \o new.rows = Append(base \o st.rows, row) /\ base \o st.rows \in Seq(Row)
  BY <1>0, <1>1
<1>11. \A sources : /\ Counted(base \o st.rows, sources) \in Nat
                    /\ Counted(base \o new.rows, sources) =
                         Counted(base \o st.rows, sources) + (IF SourceOf[page] \in sources THEN 1 ELSE 0)
  <2> SUFFICES ASSUME NEW sources
               PROVE  /\ Counted(base \o st.rows, sources) \in Nat
                      /\ Counted(base \o new.rows, sources) =
                         Counted(base \o st.rows, sources) + (IF SourceOf[page] \in sources THEN 1 ELSE 0)
    OBVIOUS
  <2> DEFINE m == base \o st.rows
  <2>1. m \in Seq(Row) /\ base \o new.rows = Append(m, row)
    BY <1>10
  <2> HIDE DEF m
  <2>2. /\ Counted(m, sources) \in Nat
        /\ Counted(Append(m, row), sources) =
             Counted(m, sources) + (IF row.increment = 1 /\ SourceOf[row.page] \in sources THEN 1 ELSE 0)
    BY <1>1, <2>1, CountMore
  <2>3. /\ Counted(m, sources) \in Nat
        /\ Counted(base \o new.rows, sources) = Counted(m, sources) + (IF SourceOf[page] \in sources THEN 1 ELSE 0)
    BY <1>2, <2>1, <2>2
  <2> QED
    BY <2>3 DEF m
<1>12. /\ Counted(base, Sources) \in Nat /\ InAll(new) = InAll(st) + 1 /\ InAll(st) \in Nat
       /\ Counted(base \o new.rows, Sources) = InAll(new)
  <2>1. Counted(base, Sources) \in Nat
    BY <1>0, <1>1, CountMore
  <2>2. InAll(new) = InAll(st) + 1 /\ InAll(st) \in Nat
    BY <1>5, <2>1 DEF InAll
  <2>3. SourceOf[page] \in Sources
    BY PageAssumption
  <2> QED
    BY <1>11, <2>1, <2>2, <2>3 DEF GoodHold
<1>13. InAll(new) \in 0..(MaxRuns * Cardinality(Pages)) /\ InAll(st) \in 0..(MaxRuns * Cardinality(Pages))
  <2>1. Counted(base \o new.rows, Sources) \in 0..(MaxRuns * Cardinality(Pages))
    BY <1>0, <1>8, CountBound
  <2>2. Counted(base \o st.rows, Sources) \in 0..(MaxRuns * Cardinality(Pages))
    BY <1>0, <1>4, CountBound
  <2> QED
    BY <1>12, <2>1, <2>2 DEF GoodHold
<1>14. Share[InAll(st)] <= Share[InAll(new)] /\ Share[InAll(st)] \in Nat /\ Share[InAll(new)] \in Nat
  BY <1>12, <1>13, CampaignAssumption
<1>15. \A p : OfPublisher(st, p) = Counted(base \o st.rows, family(p))
              /\ OfPublisher(new, p) = Counted(base \o new.rows, family(p))
  BY DEF OfPublisher
<1>16. OfPublisher(st, page) < Share[InAll(new)]
  <2>1. ~(OfPublisher(st, page) >= Share[InAll(st) + 1])
    BY DEF Storable, HasShare
  <2>2. OfPublisher(st, page) \in Nat
    BY <1>11, <1>15
  <2>3. Share[InAll(st) + 1] = Share[InAll(new)]
    BY <1>12
  <2> QED
    BY <1>14, <2>1, <2>2, <2>3
<1>17. \A p \in PagesIn(new.rows) : OfPublisher(new, p) <= Share[InAll(new)]
  <2> SUFFICES ASSUME NEW p \in PagesIn(new.rows)
               PROVE  OfPublisher(new, p) <= Share[InAll(new)]
    OBVIOUS
  <2> HIDE DEF family
  <2>1. CASE SourceOf[page] \in family(p)
    <3>1. family(p) = family(page)
      BY <2>1 DEF family
    <3> QED
      BY <1>11, <1>14, <1>15, <1>16, <2>1, <3>1
  <2>2. CASE SourceOf[page] \notin family(p)
    <3>1. SourceOf[page] \in family(page)
      BY PageAssumption DEF family
    <3>2. p \in PagesIn(st.rows)
      BY <1>6, <2>2, <3>1
    <3>3. OfPublisher(st, p) <= Share[InAll(st)]
      BY <3>2 DEF GoodHold
    <3> QED
      BY <1>11, <1>14, <1>15, <2>2, <3>3
  <2> QED
    BY <2>1, <2>2
<1>18. \A i \in DOMAIN new.rows :
         new.rows[i].run = cmd.run /\ new.rows[i].kind = "campaign" /\ new.rows[i].increment = 1
  <2>1. \A i \in DOMAIN st.rows :
         st.rows[i].run = cmd.run /\ st.rows[i].kind = "campaign" /\ st.rows[i].increment = 1
    BY DEF GoodHold
  <2> QED
    BY <1>2, <1>5, <2>1
<1>19. PagesIn(base) \cup PagesIn(new.rows) \subseteq new.known /\ PagesIn(base) \cap PagesIn(new.rows) = {}
  BY <1>1, <1>3, <1>4, <1>6
<1> QED
  BY <1>1, <1>8, <1>9, <1>12, <1>17, <1>18, <1>19 DEF GoodHold, new

LEMMA GoodDeferred ==
    ASSUME NEW st, GoodHold(st), NEW d \in Seq(Pages)
    PROVE  GoodHold([st EXCEPT !.deferred = d])
<1> DEFINE new == [st EXCEPT !.deferred = d]
<1>1. st \in States
  BY DEF GoodHold
<1>2. new \in States /\ new.rows = st.rows /\ new.known = st.known
  BY <1>1 DEF States
<1> HIDE DEF new
<1>3. InAll(new) = InAll(st) /\ \A p : OfPublisher(new, p) = OfPublisher(st, p)
  BY <1>2 DEF InAll, OfPublisher
<1> QED
  BY <1>2, <1>3 DEF GoodHold, new

LEMMA GoodFrom ==
    ASSUME LaneInv, cmd.kind = "campaign", Reading,
           NEW st, GoodHold(st), NEW i \in Storables(st)
    PROVE  GoodHold(StoredFrom(st, i))
<1> DEFINE page == st.deferred[i]
           d == SubSeq(st.deferred, i + 1, Len(st.deferred)) \o SubSeq(st.deferred, 1, i - 1)
<1>1. st.deferred \in Seq(Pages)
  BY DEF GoodHold, States
<1>2. i \in DOMAIN st.deferred /\ Storable(st, page)
  BY DEF Storables
<1>3. page \in Pages /\ i \in 1..Len(st.deferred)
  BY <1>1, <1>2
<1>4. d \in Seq(Pages)
  <2>1. SubSeq(st.deferred, i + 1, Len(st.deferred)) \in Seq(Pages)
    BY <1>1, <1>3
  <2>2. SubSeq(st.deferred, 1, i - 1) \in Seq(Pages)
    BY <1>1, <1>3
  <2> QED
    BY <2>1, <2>2
<1>5. StoredFrom(st, i) = [Stored(st, page) EXCEPT !.deferred = d]
  BY DEF StoredFrom
<1> HIDE DEF page, d
<1> QED
  BY <1>2, <1>3, <1>4, <1>5, GoodStored, GoodDeferred

LEMMA GoodReconsidered ==
    ASSUME LaneInv, cmd.kind = "campaign", Reading, NEW st, GoodHold(st)
    PROVE  GoodHold(Reconsidered(st))
<1>1. CASE st.stop \/ Storables(st) = {}
  BY <1>1 DEF Reconsidered
<1>2. CASE ~(st.stop \/ Storables(st) = {})
  <2>1. Storables(st) \in SUBSET Nat
    <3>1. st.deferred \in Seq(Pages)
      BY DEF GoodHold, States
    <3> QED
      BY <3>1 DEF Storables
  <2>2. Min(Storables(st)) \in Storables(st)
    BY <1>2, <2>1, HasMin
  <2> QED
    BY <1>2, <2>2, GoodFrom DEF Reconsidered
<1> QED
  BY <1>1, <1>2

LEMMA GoodProcessed ==
    ASSUME LaneInv, cmd.kind = "campaign", Reading, NEW st, GoodHold(st), NEW page \in Pages
    PROVE  GoodHold(Processed(st, page))
<1>1. CASE HasShare(st, page)
  <2>1. Append(st.deferred, page) \in Seq(Pages)
    BY DEF GoodHold, States
  <2> QED
    BY <1>1, <2>1, GoodDeferred DEF Processed
<1>2. CASE ~HasShare(st, page) /\ Fits(st, page)
  BY <1>2, GoodStored DEF Processed, Storable
<1>3. CASE ~HasShare(st, page) /\ ~Fits(st, page)
  BY <1>3 DEF Processed
<1> QED
  BY <1>1, <1>2, <1>3

\* A campaign's invariant, beside that of its files.
CampaignInv == cmd.kind = "campaign" => GoodHold(Held)

LEMMA HeldAgain ==
    ASSUME NEW st, GoodHold(st), cmd'.run = cmd.run, base' = base, Used' = Used,
           rows' = st.rows, st.known \subseteq known', known' \subseteq Pages,
           deferred' \in Seq(Pages), stop' \in BOOLEAN, Whole' = base \o st.rows
    PROVE  GoodHold(Held)'
<1>1. st.rows \in Seq(Row)
  BY DEF GoodHold, States
<1>2. Held' \in States /\ Held'.rows = st.rows /\ Held'.known = known'
  BY <1>1 DEF Held, States
<1>3. InAll(Held)' = InAll(st) /\ \A p : OfPublisher(Held, p)' = OfPublisher(st, p)
  BY <1>2 DEF InAll, OfPublisher
<1>4. PagesIn(base)' = PagesIn(base) /\ PagesIn(Held.rows)' = PagesIn(st.rows)
  BY <1>2 DEF PagesIn
<1> DEFINE m == base \o st.rows
<1>5. (base \o Held.rows)' = m /\ Sound(m) /\ Whole' = m /\ Counted(m, Sources) = InAll(st) /\ m \in Seq(Row)
  BY <1>2 DEF GoodHold, Sound
<1> HIDE DEF m
<1>6. Sound(base \o Held.rows)'
  BY <1>5 DEF Sound
<1>7. IsPrefix(Whole, base \o Held.rows)'
  BY <1>5, PrefixMeans
<1>8. (Counted(base \o Held.rows, Sources) = InAll(Held))'
  BY <1>3, <1>5 DEF Counted
<1>9. \A i \in DOMAIN Held'.rows :
         Held'.rows[i].run = cmd'.run /\ Held'.rows[i].kind = "campaign" /\ Held'.rows[i].increment = 1
  BY <1>2 DEF GoodHold
<1>10. /\ PagesIn(base)' \cup PagesIn(Held.rows)' \subseteq Held'.known
       /\ PagesIn(base)' \cap PagesIn(Held.rows)' = {}
  BY <1>2, <1>4 DEF GoodHold
<1>11. \A page \in PagesIn(Held.rows)' : OfPublisher(Held, page)' <= (Share[InAll(Held)])'
  BY <1>3, <1>4 DEF GoodHold
<1> QED
  BY <1>2, <1>6, <1>7, <1>8, <1>9, <1>10, <1>11 DEF GoodHold

\* The main thread takes over what it has found.
LEMMA HoldKeeps ==
    ASSUME LaneInv, cmd.kind = "campaign", cmd.step \in {"loop", "drain"},
           UNCHANGED <<disk, commit, cmd, base, budget, catalog>>, NEW st, GoodHold(st), Hold(st)
    PROVE  /\ Kept /\ GoodHold(Held)'
           /\ known' \subseteq Pages /\ deferred' \in Seq(Pages) /\ stop' \in BOOLEAN
<1> USE DEF LaneInv
<1>1. rows' = st.rows /\ known' = st.known /\ deferred' = st.deferred /\ stop' = st.stop
  BY DEF Hold
<1>2. st \in States
  BY DEF GoodHold
<1>3. known' \subseteq Pages /\ deferred' \in Seq(Pages) /\ stop' \in BOOLEAN /\ st.rows \in Seq(Row)
  BY <1>1, <1>2 DEF States
<1>4. Reading /\ Reading' /\ Used' = Used
  BY DEF Reading, Used
<1>5. Whole' = base \o st.rows
  BY <1>1, <1>4 DEF Whole
<1>6. GoodHold(Held)'
  BY <1>1, <1>3, <1>4, <1>5, HeldAgain
<1>7. LaneType'
  BY <1>1, <1>3, <1>4 DEF LaneType
<1>8. cmd # NoCommand
  BY StepKinds
<1>9. RowsInv'
  <2> DEFINE m == base \o st.rows
  <2>1. Sound(m) /\ Whole' = m
    BY <1>5 DEF GoodHold
  <2> HIDE DEF m
  <2>2. Sound(Whole)'
    BY <1>4, <2>1 DEF Sound
  <2>3. \A i \in DOMAIN rows' : rows'[i].run = cmd'.run /\ rows'[i].kind = cmd'.kind
    BY <1>1 DEF GoodHold
  <2>4. /\ PagesIn(base') \cup PagesIn(rows') \subseteq known'
        /\ PagesIn(base') \cap PagesIn(rows') = {}
    BY <1>1 DEF GoodHold, PagesIn
  <2>5. \A i \in DOMAIN base' : base'[i].run < cmd'.run
    BY <1>4, <1>8 DEF RowsInv
  <2> QED
    BY <1>4, <2>2, <2>3, <2>4, <2>5 DEF RowsInv
<1>10. IsPrefix(Whole, Whole')
  BY <1>5 DEF GoodHold
<1> QED
  BY <1>3, <1>4, <1>6, <1>7, <1>9, <1>10, OnKeeps

\* The invariant of the collectors.
CollInv == LaneInv /\ WorkType /\ CampaignInv
CollKept == Kept /\ WorkType' /\ CampaignInv'

\* A step that leaves what a campaign holds.
LEMMA CampaignStill ==
    ASSUME CollInv, Kept, WorkType', cmd'.kind = "campaign" => cmd' = [cmd EXCEPT !.step = cmd'.step],
           UNCHANGED <<base, rows, known>>, budget'.runs = budget.runs
    PROVE  CampaignInv'
<1> SUFFICES ASSUME cmd'.kind = "campaign" PROVE GoodHold(Held)'
  BY DEF CampaignInv
<1>1. cmd' # NoCommand /\ cmd # NoCommand
  BY DEF NoCommand
<1>2. cmd \in [kind : Kinds, run : 1..MaxRuns, step : WorkSteps, batch : Batches, limit : Nat]
      /\ cmd.step \in Steps[cmd.kind] /\ cmd'.step \in Steps[cmd'.kind]
  BY <1>1 DEF CollInv, Kept, LaneInv, LaneType
<1>3. cmd.kind = "campaign" /\ cmd'.run = cmd.run
  BY <1>2
<1>4. Reading /\ Reading'
  BY <1>2, <1>3 DEF Reading, Steps
<1>5. GoodHold(Held) /\ Held.rows = rows /\ Held.known = known
  BY <1>3 DEF CollInv, CampaignInv, Held
<1>6. Whole' = base \o Held.rows /\ Used' = Used
  BY <1>4, <1>5 DEF Whole, Used
<1> QED
  BY <1>3, <1>5, <1>6, HeldAgain DEF WorkType

LEMMA WritingStep == ASSUME CollInv, Writing PROVE CollKept
<1>1. UNCHANGED <<cmd, base, rows, known, asking, worker, queue, deferred, stop>> /\ budget'.runs = budget.runs
  <2>1. UNCHANGED <<cmd, base, rows>>
    BY DEF Writing, ReplaceFile, FailReplace, RestoreFile
  <2>2. budget \in [runs : 0..MaxRuns, troubles : Nat]
    BY DEF CollInv, LaneInv, LaneType
  <2>3. budget' = budget \/ budget' = [budget EXCEPT !.troubles = @ - 1]
    BY DEF Writing, ReplaceFile, FailReplace, RestoreFile
  <2>4. budget'.runs = budget.runs
    BY <2>2, <2>3
  <2> QED
    BY <2>1, <2>4 DEF Writing, batchVars, campaignVars
<1>2. Kept
  BY WritingKeeps DEF Kept, CollInv
<1>3. WorkType'
  BY <1>1 DEF CollInv, WorkType
<1>4. cmd'.kind = "campaign" => cmd' = [cmd EXCEPT !.step = cmd'.step]
  <2>1. cmd = NoCommand \/ cmd \in [kind : Kinds, run : 1..MaxRuns, step : WorkSteps, batch : Batches, limit : Nat]
    BY DEF CollInv, LaneInv, LaneType
  <2> QED
    BY <1>1, <2>1 DEF NoCommand
<1> QED
  BY <1>1, <1>2, <1>3, <1>4, CampaignStill DEF CollKept

\* The sequential collectors start no thread, nor do they go on in one's name.
LEMMA BatchThreads == ASSUME LaneInv, Batch PROVE ~Threaded /\ ~Threaded'
<1>1. CASE StartCollect \/ StartExact
  <2>1. \E kind \in {"collect", "exact"} : \E batch, limit, step : cmd' = Started(kind, batch, limit, step)
    BY <1>1 DEF StartCollect, StartExact
  <2>2. cmd = NoCommand
    BY <1>1 DEF StartCollect, StartExact
  <2> QED
    BY <2>1, <2>2 DEF Started, Threaded, NoCommand
<1>2. CASE ~(StartCollect \/ StartExact)
  <2>1. cmd.step \in {"discover", "catalog", "execute"} \/ cmd.kind = "exact"
    BY <1>2 DEF Batch, BatchStep, Discover, SaveCatalog, StartExecute, SkipPage, CollectPage, SaveBatch, SaveReport
  <2>2. cmd.kind \notin {"campaign", "round2"} /\ cmd # NoCommand
    BY <2>1, StepKinds DEF LaneInv, NoCommand
  <2>3. cmd' = cmd \/ \E x \in WorkSteps : cmd' = [cmd EXCEPT !.step = x]
    BY <1>2 DEF Batch, BatchStep, Discover, SaveCatalog, StartExecute, SkipPage, CollectPage, SaveBatch,
                SaveReport, Begin, WorkSteps
  <2>4. cmd \in [kind : Kinds, run : 1..MaxRuns, step : WorkSteps, batch : Batches, limit : Nat]
    BY <2>2 DEF LaneInv, LaneType
  <2> QED
    BY <2>2, <2>3, <2>4 DEF Threaded
<1> QED
  BY <1>1, <1>2

LEMMA BatchStepKeeps == ASSUME CollInv, Batch PROVE CollKept
<1>1. LaneInv /\ asking \in Seq(Sources) /\ UNCHANGED campaignVars
  BY DEF CollInv, WorkType, Batch
<1>2. Kept
  BY <1>1, StartBatchKeeps, DiscoverKeeps, SaveKeeps, StartExecuteKeeps, SkipPageKeeps, CollectPageKeeps
     DEF Batch, BatchStep
<1>3. asking' \in Seq(Sources)
  <2>1. asking' = asking \/ asking' = SetToSeq(Sources) \/ (asking # <<>> /\ asking' = Tail(asking))
    BY DEF Batch, BatchStep, StartCollect, Discover, SaveCatalog, StartExact, StartExecute, SkipPage,
           CollectPage, SaveBatch, SaveReport, batchVars
  <2>2. SetToSeq(Sources) \in Seq(Sources)
    BY SetAsSeq, PageAssumption
  <2>3. asking # <<>> => Tail(asking) \in Seq(Sources)
    BY <1>1, TailMeans
  <2> QED
    BY <1>1, <2>1, <2>2, <2>3
<1>4. WorkType'
  BY <1>1, <1>3 DEF CollInv, WorkType, campaignVars
<1>5. cmd'.kind # "campaign"
  BY <1>1, BatchThreads DEF Threaded
<1> QED
  BY <1>2, <1>4, <1>5 DEF CollKept, CampaignInv

LEMMA LeaveStep ==
    ASSUME CollInv, Leave, UNCHANGED disk, budget' = budget \/ (budget.troubles > 0 /\ Fault)
    PROVE  CollKept
<1>1. budget' \in [runs : 0..MaxRuns, troubles : Nat] /\ budget'.runs = budget.runs
  <2>1. budget \in [runs : 0..MaxRuns, troubles : Nat]
    BY DEF CollInv, LaneInv, LaneType
  <2>2. CASE budget' = budget
    BY <2>1, <2>2
  <2>3. CASE budget.troubles > 0 /\ Fault
    <3>1. budget' = [budget EXCEPT !.troubles = budget.troubles - 1] /\ budget.troubles - 1 \in Nat
      BY <2>1, <2>3 DEF Fault
    <3> QED
      BY <2>1, <3>1
  <2> QED
    BY <2>2, <2>3
<1>2. Kept
  BY <1>1, LeaveKeeps DEF CollInv
<1>3. WorkType'
  <2>1. Idle \in Workers /\ Idle.todo = {}
    BY DEF Idle, Workers, WorkerSteps
  <2>2. /\ worker' = [s \in Sources |-> Idle] /\ asking' = <<>>
        /\ queue' = <<>> /\ known' = {} /\ deferred' = <<>> /\ stop' = FALSE
    BY DEF Leave, BatchReset, CampaignReset
  <2> HIDE DEF Idle
  <2>3. worker' \in [Sources -> Workers] /\ \A s \in Sources : worker'[s].todo = {}
    BY <2>1, <2>2
  <2>4. asking' \in Seq(Sources) /\ queue' \in Seq(Pages \cup Sources) /\ deferred' \in Seq(Pages)
        /\ known' \subseteq Pages /\ stop' \in BOOLEAN
    <3>1. <<>> \in Seq(Sources) /\ <<>> \in Seq(Pages) /\ <<>> \in Seq(Pages \cup Sources)
      OBVIOUS
    <3> QED
      BY <2>2, <3>1
  <2> QED
    BY <2>3, <2>4 DEF WorkType
<1>4. cmd'.kind # "campaign"
  BY DEF Leave, NoCommand
<1> QED
  BY <1>2, <1>3, <1>4 DEF CollKept, CampaignInv

LEMMA WorkStep == ASSUME CollInv, NEW s \in Sources, Work(s) PROVE CollKept
<1>1. LaneInv' /\ Ledger' = Ledger /\ WorkType'
  BY WorkKeeps DEF CollInv
<1>2. Turned(s)
  BY WorkTurns DEF CollInv
<1>3. UNCHANGED <<cmd, base, rows, known>>
  BY <1>2 DEF Turned, Moves
<1>4. budget'.runs = budget.runs
  <2>1. budget \in [runs : 0..MaxRuns, troubles : Nat]
    BY DEF CollInv, LaneInv, LaneType
  <2>2. budget' = budget \/ budget' = [budget EXCEPT !.troubles = @ - 1]
    BY <1>2 DEF Turned, Fault
  <2> QED
    BY <2>1, <2>2
<1>5. cmd'.kind = "campaign" => cmd' = [cmd EXCEPT !.step = cmd'.step]
  <2>1. cmd = NoCommand \/ cmd \in [kind : Kinds, run : 1..MaxRuns, step : WorkSteps, batch : Batches, limit : Nat]
    BY DEF CollInv, LaneInv, LaneType
  <2> QED
    BY <1>3, <2>1 DEF NoCommand
<1> QED
  BY <1>1, <1>3, <1>4, <1>5, CampaignStill DEF CollKept, Kept

LEMMA LaunchStep == ASSUME CollInv, StartCampaign \/ StartRound2 PROVE CollKept
<1>1. Kept
  BY LaunchKeeps DEF CollInv
<1>2. PICK kind, batch, sources : Launch(kind, batch, sources)
  BY DEF StartCampaign, StartRound2
<1>3. /\ cmd = NoCommand /\ cmd' = Started(kind, batch, 0, "loop") /\ base' = disk[Manifest]
      /\ known' = PagesIn(disk[Manifest]) \cup Baseline
      /\ worker' = [s \in Sources |-> IF s \in sources THEN [Idle EXCEPT !.step = "robots"] ELSE Idle]
      /\ UNCHANGED <<disk, rows, asking, queue, deferred, stop>>
  BY <1>2 DEF Launch, batchVars
<1>4. LaneInv /\ LaneInv' /\ WorkType
  BY <1>1 DEF CollInv, Kept
<1>5. base' \in Seq(Row) /\ rows' = <<>>
  BY <1>3, <1>4 DEF LaneInv, LaneType, RowsInv, Reading, NoCommand
<1>6. known' \subseteq Pages
  <2>1. \A i \in DOMAIN base' : base'[i] \in Row
    BY <1>5
  <2>2. PagesIn(base') \subseteq Pages
    BY <2>1 DEF PagesIn, Row
  <2> QED
    BY <1>3, <2>2, PageAssumption DEF PagesIn
<1>7. WorkType'
  <2> DEFINE ready == [Idle EXCEPT !.step = "robots"]
  <2>1. Idle \in Workers /\ Idle.todo = {} /\ ready \in Workers /\ ready.todo = {}
    BY DEF Idle, Workers, WorkerSteps
  <2> HIDE DEF ready
  <2>2. worker' = [s \in Sources |-> IF s \in sources THEN ready ELSE Idle]
    BY <1>3 DEF ready
  <2> HIDE DEF Idle
  <2>3. worker' \in [Sources -> Workers] /\ \A s \in Sources : worker'[s].todo = {}
    BY <2>1, <2>2
  <2> QED
    BY <1>3, <1>4, <1>6, <2>3 DEF WorkType
<1>8. ASSUME cmd'.kind = "campaign" PROVE GoodHold(Held)'
  <2>1. cmd'.step = "loop"
    BY <1>3 DEF Started
  <2>2. Reading'
    BY <2>1 DEF Reading
  <2>3. Whole' = base' \o rows' /\ base' \o rows' = base'
    BY <1>5, <2>2, NothingAfter DEF Whole
  <2>4. Sound(Whole)'
    BY <1>4 DEF LaneInv, RowsInv
  <2>5. Held'.rows = rows' /\ Held'.known = known' /\ Held' \in States
    <3>1. rows' \in Seq(Row)
      BY <1>5
    <3> QED
      BY <1>6, <1>7, <3>1 DEF Held, States, WorkType
  <2>6. PagesIn(Held.rows)' = {} /\ DOMAIN Held'.rows = {} /\ Len(Held'.rows) = 0
    BY <1>5, <2>5 DEF PagesIn
  <2>7. PagesIn(base)' \subseteq Held'.known
    BY <1>3, <2>5 DEF PagesIn
  <2>8. Sound(base \o Held.rows)'
    BY <2>3, <2>4, <2>5 DEF Sound
  <2>9. IsPrefix(Whole, base \o Held.rows)'
    BY <1>5, <2>3, <2>5, PrefixMeans
  <2>10. (Counted(base \o Held.rows, Sources) = InAll(Held))'
    <3>1. \A m \in Seq(Row) : Counted(m, Sources) \in Nat
      <4>1. Row # {} => \A m \in Seq(Row) : Counted(m, Sources) \in Nat
        BY CountMore
      <4>2. Row = {} => \A m \in Seq(Row) : m = <<>>
        OBVIOUS
      <4>3. Counted(<<>>, Sources) \in Nat
        <5>1. {i \in DOMAIN <<>> : <<>>[i].increment = 1 /\ SourceOf[<<>>[i].page] \in Sources} = {}
          OBVIOUS
        <5> QED
          BY <5>1, FS_EmptySet DEF Counted
      <4> QED
        BY <4>1, <4>2, <4>3
    <3>2. Counted(base', Sources) \in Nat
      BY <1>5, <3>1
    <3>3. (base \o Held.rows)' = base'
      BY <2>3, <2>5
    <3>4. InAll(Held)' = Counted(base', Sources) + Len(Held'.rows)
      BY DEF InAll, Counted
    <3>5. Counted(base \o Held.rows, Sources)' = Counted(base', Sources)
      BY <3>3 DEF Counted
    <3> QED
      BY <2>6, <3>2, <3>4, <3>5
  <2>11. \A i \in DOMAIN Held'.rows :
           Held'.rows[i].run = cmd'.run /\ Held'.rows[i].kind = "campaign" /\ Held'.rows[i].increment = 1
    BY <2>6
  <2> QED
    BY <2>5, <2>6, <2>7, <2>8, <2>9, <2>10, <2>11 DEF GoodHold
<1> QED
  BY <1>1, <1>7, <1>8 DEF CollKept, CampaignInv

LEMMA TakesStep == ASSUME CollInv, CampaignTakes PROVE CollKept
<1>1. /\ cmd.kind = "campaign" /\ cmd.step = "loop" /\ queue # <<>> /\ queue' = Tail(queue)
      /\ UNCHANGED <<disk, commit, cmd, base, budget, catalog, asking, worker>>
  BY DEF CampaignTakes, batchVars
<1>2. LaneInv /\ WorkType /\ GoodHold(Held) /\ Reading
  BY <1>1 DEF CollInv, CampaignInv, Reading
<1>3. Head(queue) \in Pages \cup Sources /\ queue' \in Seq(Pages \cup Sources)
  BY <1>1, <1>2, TailMeans DEF WorkType
<1>4. \E st : GoodHold(st) /\ Hold(st)
  <2>1. CASE Head(queue) \in Sources
    <3>1. Hold(Reconsidered(Held))
      BY <2>1 DEF CampaignTakes
    <3> QED
      BY <1>1, <1>2, <3>1, GoodReconsidered
  <2>2. CASE Head(queue) \notin Sources
    <3>1. Hold(Reconsidered(Processed(Held, Head(queue)))) /\ Head(queue) \in Pages
      BY <1>3, <2>2 DEF CampaignTakes
    <3>2. GoodHold(Processed(Held, Head(queue)))
      BY <1>1, <1>2, <3>1, GoodProcessed
    <3> QED
      BY <1>1, <1>2, <3>1, <3>2, GoodReconsidered
  <2> QED
    BY <2>1, <2>2
<1>5. /\ Kept /\ GoodHold(Held)'
      /\ known' \subseteq Pages /\ deferred' \in Seq(Pages) /\ stop' \in BOOLEAN
  BY <1>1, <1>2, <1>4, HoldKeeps
<1>6. WorkType'
  BY <1>1, <1>2, <1>3, <1>5 DEF WorkType
<1> QED
  BY <1>5, <1>6 DEF CollKept, CampaignInv

LEMMA DrainStep == ASSUME CollInv, DrainDeferred PROVE CollKept
<1> DEFINE fit == Storables(Held) \cap (IF stop THEN {1} ELSE DOMAIN deferred)
<1>1. /\ cmd.kind = "campaign" /\ cmd.step = "drain"
      /\ UNCHANGED <<disk, commit, base, budget, catalog, asking, worker, queue>>
  BY DEF DrainDeferred, batchVars
<1>2. LaneInv /\ WorkType /\ GoodHold(Held) /\ Reading
  BY <1>1 DEF CollInv, CampaignInv, Reading
<1>3. CASE fit = {}
  <2>1. cmd' = [cmd EXCEPT !.step = "drained"] /\ UNCHANGED <<rows, known, deferred, stop>>
    BY <1>3 DEF DrainDeferred
  <2>2. Kept
    BY <1>2, <2>1, TurnKeeps
  <2>3. WorkType'
    BY <1>1, <1>2, <2>1 DEF WorkType
  <2>4. cmd' = [cmd EXCEPT !.step = cmd'.step]
    <3>1. cmd # NoCommand
      BY <1>1 DEF NoCommand
    <3>2. cmd \in [kind : Kinds, run : 1..MaxRuns, step : WorkSteps, batch : Batches, limit : Nat]
      BY <1>2, <3>1 DEF LaneInv, LaneType
    <3> QED
      BY <2>1, <3>2
  <2> QED
    BY <1>1, <2>1, <2>2, <2>3, <2>4, CampaignStill DEF CollKept
<1>4. CASE fit # {}
  <2>1. Hold(StoredFrom(Held, Min(fit))) /\ UNCHANGED cmd
    BY <1>4 DEF DrainDeferred
  <2>2. fit \in SUBSET Nat /\ fit \subseteq Storables(Held)
    <3>1. Held.deferred \in Seq(Pages)
      BY <1>2 DEF GoodHold, States
    <3>2. Storables(Held) \subseteq Nat
      BY <3>1 DEF Storables
    <3> QED
      BY <3>2
  <2>3. Min(fit) \in Storables(Held)
    BY <1>4, <2>2, HasMin
  <2>4. GoodHold(StoredFrom(Held, Min(fit)))
    BY <1>1, <1>2, <2>3, GoodFrom
  <2>5. /\ Kept /\ GoodHold(Held)'
        /\ known' \subseteq Pages /\ deferred' \in Seq(Pages) /\ stop' \in BOOLEAN
    BY <1>1, <1>2, <2>1, <2>4, HoldKeeps
  <2>6. WorkType'
    BY <1>1, <1>2, <2>5 DEF WorkType
  <2> QED
    BY <2>5, <2>6 DEF CollKept, CampaignInv
<1> QED
  BY <1>3, <1>4

LEMMA Round2TakesStep == ASSUME CollInv, Round2Takes PROVE CollKept
<1> DEFINE value == Head(queue)
           row == Round2Row(value)
<1>1. /\ cmd.kind = "round2" /\ cmd.step = "loop" /\ queue # <<>> /\ queue' = Tail(queue)
      /\ UNCHANGED <<disk, commit, base, budget, catalog, asking, worker, deferred>>
  BY DEF Round2Takes, batchVars
<1>2. LaneInv /\ WorkType /\ LaneType /\ RowsInv
  BY DEF CollInv, LaneInv
<1>3. cmd # NoCommand /\ budget \in [runs : 0..MaxRuns, troubles : Nat] /\ rows \in Seq(Row)
      /\ cmd \in [kind : Kinds, run : 1..MaxRuns, step : WorkSteps, batch : Batches, limit : Nat]
  BY <1>1, <1>2 DEF LaneType, NoCommand
<1>4. value \in Pages \cup Sources /\ queue' \in Seq(Pages \cup Sources)
  BY <1>1, <1>2, TailMeans DEF WorkType
<1>5. stop' \in BOOLEAN /\ known' \subseteq Pages
  BY <1>2, <1>4 DEF Round2Takes, WorkType
<1>6. WorkType'
  BY <1>1, <1>2, <1>4, <1>5 DEF WorkType
<1>7. CASE UNCHANGED <<rows, known, cmd>>
  BY <1>1, <1>2, <1>3, <1>6, <1>7, StayKeeps DEF CollKept, CampaignInv
<1>8. CASE ~ UNCHANGED <<rows, known, cmd>>
  <2>1. /\ value \notin Sources /\ Round2Fits(value) /\ rows' = Append(rows, row)
        /\ known' = known \cup {value}
        /\ cmd' = cmd \/ (cmd.kind = "round2" /\ cmd' = [cmd EXCEPT !.step = "checkpoint"])
    BY <1>1, <1>8 DEF Round2Takes
  <2>2. value \in Pages /\ value \notin known
    BY <1>4, <2>1 DEF Round2Fits
  <2>3. row \in Row /\ row.page = value /\ row.run = cmd.run /\ row.kind = "round2" /\ row.increment = 1
    BY <1>3, <2>2 DEF Round2Row, Row, Kinds
  <2>4. PagesIn(base) \cup PagesIn(rows) \subseteq known
    BY <1>1, <1>2 DEF RowsInv
  <2>5. value \notin PagesIn(base) /\ \A i \in DOMAIN rows : rows[i].page # value
    BY <2>2, <2>4 DEF PagesIn
  <2> HIDE DEF row, value
  <2>6. Kept
    BY <1>1, <1>2, <1>3, <2>1, <2>2, <2>3, <2>5, AddKeeps
  <2>7. cmd'.kind # "campaign"
    BY <1>1, <1>3, <2>1
  <2> QED
    BY <1>6, <2>6, <2>7 DEF CollKept, CampaignInv
<1> QED
  BY <1>7, <1>8

LEMMA MainStep == ASSUME CollInv, Main PROVE CollKept
<1>1. CASE CampaignTakes \/ DrainDeferred \/ Round2Takes
  BY <1>1, TakesStep, DrainStep, Round2TakesStep
<1>2. CASE EndLoop \/ SaveCampaign \/ SaveCheckpoint \/ ResumeRound2 \/ SaveRound2
  <2>1. Kept
    BY <1>2, SaveKeeps, TurnKeeps DEF CollInv
  <2>2. UNCHANGED <<base, rows, known, asking, worker, queue, deferred, stop>> /\ budget' = budget /\ cmd.kind # "none"
        /\ \E x \in WorkSteps : cmd' = [cmd EXCEPT !.step = x]
    BY <1>2 DEF EndLoop, SaveCampaign, SaveCheckpoint, ResumeRound2, SaveRound2, Begin, WorkSteps,
                batchVars, campaignVars
  <2>3. WorkType'
    BY <2>2 DEF CollInv, WorkType
  <2>4. cmd' = [cmd EXCEPT !.step = cmd'.step]
    <3>1. cmd # NoCommand
      BY <2>2 DEF NoCommand
    <3>2. cmd \in [kind : Kinds, run : 1..MaxRuns, step : WorkSteps, batch : Batches, limit : Nat]
      BY <3>1 DEF CollInv, LaneInv, LaneType
    <3> QED
      BY <2>2, <3>2
  <2> QED
    BY <2>1, <2>2, <2>3, <2>4, CampaignStill DEF CollKept
<1> QED
  BY <1>1, <1>2 DEF Main

-----------------------------------------------------------------------------
(* What a campaign's workers fetched is not lost on the way *)

\* Fit to be stored, but for what is known and for the publisher's share.
Wanted(page) == Grade[page] \in {"full", "short", "marked"} /\ Body[page] \notin BaselineBodies

\* The main thread has stored a page, keeps it for later or does not want it.
Seen(st, page) == page \in ToSet(st.deferred) \cup st.known \/ ~Wanted(page)

\* A fetched page is with its worker, in the queue or seen.  When the loop is
\* over the workers are done; what is deferred after the drain has no room.
ThreadInv ==
    /\ cmd.kind \notin {"campaign", "round2"} => queue = <<>> /\ completed = {}
    /\ cmd.kind = "campaign" =>
         /\ \A s \in Sources : worker[s].step \in {"done", "none"} => worker[s].out = None
         /\ \A s \in completed \cup (ToSet(queue) \cap Sources) : worker[s].step = "done"
         /\ \A s \in Sources : \A page \in worker[s].fetched :
              page = worker[s].out \/ page \in ToSet(queue) \/ Seen(Held, page)
         /\ cmd.step # "loop" => LoopOver
         /\ cmd.step \in {"drained", "write"} /\ ~stop => Storables(Held) = {}

LEMMA TailSet ==
    ASSUME NEW S, NEW s \in Seq(S), s # <<>>
    PROVE  ToSet(s) = {Head(s)} \cup ToSet(Tail(s))
<1>1. /\ 1 \in DOMAIN s /\ Head(s) = s[1]
      /\ \A i \in DOMAIN Tail(s) : i + 1 \in DOMAIN s /\ Tail(s)[i] = s[i + 1]
  BY TailMeans
<1>2. ASSUME NEW k \in DOMAIN s, k # 1 PROVE k - 1 \in DOMAIN Tail(s) /\ Tail(s)[k - 1] = s[k]
  <2>1. k \in Nat /\ k > 1 /\ k <= Len(s) /\ Len(Tail(s)) = Len(s) - 1 /\ Tail(s) \in Seq(S)
    BY <1>2, TailMeans
  <2>2. k - 1 \in DOMAIN Tail(s)
    BY <2>1
  <2> QED
    BY <1>1, <2>1, <2>2
<1>3. \A x \in ToSet(s) : x \in {Head(s)} \cup ToSet(Tail(s))
  <2> SUFFICES ASSUME NEW k \in DOMAIN s, k # 1 PROVE s[k] \in ToSet(Tail(s))
    BY <1>1 DEF ToSet
  <2> QED
    BY <1>2 DEF ToSet
<1>4. \A x \in ToSet(Tail(s)) : x \in ToSet(s)
  BY <1>1 DEF ToSet
<1>5. Head(s) \in ToSet(s)
  BY <1>1 DEF ToSet
<1> QED
  BY <1>3, <1>4, <1>5

LEMMA AppendSet ==
    ASSUME NEW S, NEW s \in Seq(S), NEW x \in S
    PROVE  ToSet(Append(s, x)) = ToSet(s) \cup {x}
BY AppendMeans DEF ToSet

LEMMA WithoutOne ==
    ASSUME NEW S, NEW s \in Seq(S), NEW i \in 1..Len(s), NEW k \in DOMAIN s, k # i
    PROVE  s[k] \in ToSet(SubSeq(s, i + 1, Len(s)) \o SubSeq(s, 1, i - 1))
<1> DEFINE a == SubSeq(s, i + 1, Len(s))
           b == SubSeq(s, 1, i - 1)
<1>1. /\ k \in 1..Len(s) /\ Len(s) \in Nat /\ i \in 1..Len(s)
      /\ a \in Seq(S) /\ Len(a) = Len(s) - i /\ \A j \in 1..(Len(s) - i) : a[j] = s[i + j]
      /\ b \in Seq(S) /\ Len(b) = i - 1 /\ \A j \in 1..(i - 1) : b[j] = s[j]
  <2>1. k \in 1..Len(s) /\ Len(s) \in Nat
    OBVIOUS
  <2>2. a \in Seq(S) /\ Len(a) = Len(s) - i
    BY <2>1, SubLen
  <2>3. \A j \in 1..(Len(s) - i) : a[j] = s[i + j]
    BY <2>1, <2>2
  <2>4. b \in Seq(S) /\ Len(b) = i - 1 /\ \A j \in 1..(i - 1) : b[j] = s[j]
    BY <2>1
  <2> QED
    BY <2>1, <2>2, <2>3, <2>4
<1> HIDE DEF a, b
<1>2. /\ a \o b \in Seq(S) /\ Len(a \o b) = Len(a) + Len(b)
      /\ \A j \in 1..Len(a) : (a \o b)[j] = a[j]
      /\ \A j \in (Len(a) + 1) .. (Len(a) + Len(b)) : (a \o b)[j] = b[j - Len(a)]
  <2>1. a \in Seq(S) /\ b \in Seq(S)
    BY <1>1
  <2> QED
    BY <2>1, WholeMeans
<1>3. Len(a) + Len(b) = Len(s) - 1 /\ DOMAIN (a \o b) = 1..(Len(s) - 1)
  <2>1. Len(a) + Len(b) = Len(s) - 1
    BY <1>1
  <2> QED
    BY <1>2, <2>1
<1>4. CASE k > i
  <2>0. k \in Nat /\ i \in Nat /\ Len(s) \in Nat /\ k <= Len(s) /\ 1 <= i /\ i < k
    BY <1>1, <1>4
  <2>1. k - i \in 1..(Len(s) - i) /\ i + (k - i) = k /\ k - i \in 1..(Len(s) - 1)
    BY <2>0
  <2>2. (a \o b)[k - i] = s[k]
    BY <1>1, <1>2, <2>1
  <2> QED
    BY <1>3, <2>1, <2>2 DEF ToSet, a, b
<1>5. CASE k < i
  <2>1. Len(a) + k \in (Len(a) + 1) .. (Len(a) + Len(b)) /\ (Len(a) + k) - Len(a) = k
        /\ k \in 1..(i - 1) /\ Len(a) + k \in 1..(Len(s) - 1)
    BY <1>1, <1>5
  <2>2. (a \o b)[Len(a) + k] = s[k]
    BY <1>1, <1>2, <2>1
  <2> QED
    BY <1>3, <2>1, <2>2 DEF ToSet, a, b
<1> QED
  BY <1>1, <1>4, <1>5

LEMMA SeenFrom ==
    ASSUME NEW st \in States, cmd.run \in 1..MaxRuns, NEW i \in Storables(st), NEW page, Seen(st, page)
    PROVE  Seen(StoredFrom(st, i), page)
<1> DEFINE one == st.deferred[i]
           d == SubSeq(st.deferred, i + 1, Len(st.deferred)) \o SubSeq(st.deferred, 1, i - 1)
<1>1. st.deferred \in Seq(Pages) /\ i \in 1..Len(st.deferred) /\ one \in Pages
  BY DEF States, Storables
<1>2. Stored(st, one) \in States /\ Stored(st, one).known = st.known \cup {one}
  BY <1>1, StoredMeans
<1>3. StoredFrom(st, i) = [Stored(st, one) EXCEPT !.deferred = d]
  BY DEF StoredFrom
<1>4. ToSet(st.deferred) \subseteq ToSet(d) \cup {one}
  <2> SUFFICES ASSUME NEW k \in DOMAIN st.deferred, k # i PROVE st.deferred[k] \in ToSet(d)
    BY DEF ToSet
  <2> QED
    BY <1>1, WithoutOne
<1> HIDE DEF one, d
<1>5. StoredFrom(st, i).known = st.known \cup {one} /\ StoredFrom(st, i).deferred = d
  BY <1>2, <1>3 DEF States
<1> QED
  BY <1>4, <1>5 DEF Seen

LEMMA SeenReconsidered ==
    ASSUME NEW st \in States, cmd.run \in 1..MaxRuns, NEW page, Seen(st, page)
    PROVE  Seen(Reconsidered(st), page)
<1>1. CASE st.stop \/ Storables(st) = {}
  BY <1>1 DEF Reconsidered
<1>2. CASE ~(st.stop \/ Storables(st) = {})
  <2>1. Storables(st) \in SUBSET Nat
    BY DEF Storables, States
  <2>2. Min(Storables(st)) \in Storables(st)
    BY <1>2, <2>1, HasMin
  <2> QED
    BY <1>2, <2>2, SeenFrom DEF Reconsidered
<1> QED
  BY <1>1, <1>2

LEMMA SeenProcessed ==
    ASSUME NEW st \in States, cmd.run \in 1..MaxRuns, NEW page \in Pages
    PROVE  /\ Seen(Processed(st, page), page)
           /\ \A p : Seen(st, p) => Seen(Processed(st, page), p)
<1>1. CASE HasShare(st, page)
  <2> DEFINE d == Append(st.deferred, page)
  <2>1. ToSet(d) = ToSet(st.deferred) \cup {page}
    BY AppendSet DEF States
  <2>2. Processed(st, page) = [st EXCEPT !.deferred = d]
    BY <1>1 DEF Processed
  <2> HIDE DEF d
  <2>3. Processed(st, page).deferred = d /\ Processed(st, page).known = st.known
    BY <2>2 DEF States
  <2> QED
    BY <2>1, <2>3 DEF Seen
<1>2. CASE ~HasShare(st, page) /\ Fits(st, page)
  <2>1. Processed(st, page).deferred = st.deferred /\ Processed(st, page).known = st.known \cup {page}
    BY <1>2, StoredMeans DEF Processed
  <2> QED
    BY <2>1 DEF Seen
<1>3. CASE ~HasShare(st, page) /\ ~Fits(st, page)
  <2>1. Processed(st, page) = st
    BY <1>3 DEF Processed
  <2> QED
    BY <1>3, <2>1 DEF Seen, Fits, Wanted
<1> QED
  BY <1>1, <1>2, <1>3

LEMMA ThreadIdle ==
    ASSUME cmd'.kind # "campaign", cmd'.kind # "round2" => queue' = <<>> /\ completed' = {}
    PROVE  ThreadInv'
BY DEF ThreadInv

LEMMA ThreadSame ==
    ASSUME ThreadInv, UNCHANGED <<base, rows, worker, queue, known, deferred, stop, completed>>,
           cmd'.kind = cmd.kind,
           cmd.kind = "campaign" =>
             /\ cmd'.step # "loop" => LoopOver
             /\ cmd'.step \in {"drained", "write"} /\ ~stop => Storables(Held) = {}
    PROVE  ThreadInv'
<1>1. Held' = Held /\ Threads' = Threads
  BY DEF Held, Threads
<1>2. \A page : Storable(Held, page)' = Storable(Held, page)
  BY <1>1 DEF Storable, HasShare, Fits, OfPublisher, InAll, Counted
<1>3. Storables(Held)' = Storables(Held)
  BY <1>1, <1>2 DEF Storables
<1>4. LoopOver' = LoopOver
  BY <1>1 DEF LoopOver
<1>5. \A page : Seen(Held, page)' = Seen(Held, page)
  BY <1>1 DEF Seen, ToSet
<1>6. ToSet(queue)' = ToSet(queue)
  BY DEF ToSet
<1> QED
  BY <1>1, <1>3, <1>4, <1>5, <1>6 DEF ThreadInv

\* What a worker's step does not lose.
Careful(s, w) ==
    /\ worker[s].step \notin {"done", "none"}
    /\ w.step \in {"done", "none"} => w.out = None
    /\ w.fetched \subseteq worker[s].fetched \cup {w.out}
    /\ worker[s].out \in {None, w.out} \cup ToSet(queue')
    /\ ToSet(queue) \subseteq ToSet(queue')
    /\ ToSet(queue') \subseteq ToSet(queue) \cup Pages \cup (IF w.step = "done" THEN {s} ELSE {})

LEMMA FetchCareful ==
    ASSUME WorkType, NEW s \in Sources, worker[s].todo # {}, UNCHANGED queue, worker[s].out = None,
           worker[s].step \notin {"done", "none"},
           Fetch(s, NextPage(s)) \/ Drop(s, NextPage(s))
    PROVE  \E w : Moves(s, w) /\ Careful(s, w)
<1> DEFINE page == NextPage(s)
           old == worker[s]
           w == [old EXCEPT !.requests = @ + 1, !.todo = @ \ {page}]
           v == [w EXCEPT !.out = page, !.fetched = @ \cup {page}]
           d == [old EXCEPT !.todo = @ \ {page}]
<1>1. old \in Workers
  BY DEF WorkType
<1>2. ToSet(queue') = ToSet(queue)
  OBVIOUS
<1> HIDE DEF page, old
<1>3. w.step = old.step /\ w.fetched = old.fetched /\ w.out = old.out
      /\ w \in [step : WorkerSteps, todo : {w.todo}, requests : {w.requests}, out : Pages \cup {None}, fetched : SUBSET Pages]
  BY <1>1 DEF Workers
<1>4. d.step = old.step /\ d.fetched = old.fetched /\ d.out = old.out
  BY <1>1 DEF Workers
<1> HIDE DEF w, d
<1>5. v.step = old.step /\ v.fetched = old.fetched \cup {page} /\ v.out = page
  BY <1>3
<1> HIDE DEF v
<1>6. Careful(s, w) /\ Careful(s, d) /\ Careful(s, v)
  BY <1>2, <1>3, <1>4, <1>5 DEF Careful, old
<1>7. Moves(s, v) \/ Moves(s, w) \/ Moves(s, d)
  BY DEF Fetch, Drop, v, w, d, old, page
<1> QED
  BY <1>6, <1>7

LEMMA WorkCareful ==
    ASSUME WorkType, ThreadInv, cmd.kind = "campaign", NEW s \in Sources, Work(s)
    PROVE  \E w : Moves(s, w) /\ Careful(s, w)
<1> DEFINE old == worker[s]
<1>1. /\ old \in Workers /\ queue \in Seq(Pages \cup Sources) /\ old.out \in Pages \cup {None}
      /\ (old.step \in {"done", "none"} => old.out = None)
  BY DEF WorkType, ThreadInv, Workers
<1>2. UNCHANGED queue => ToSet(queue') = ToSet(queue)
  OBVIOUS
<1> HIDE DEF old
\* The queue stays, and so do the pages the worker has.
<1>3. ASSUME NEW w, Moves(s, w), UNCHANGED queue, old.step \notin {"done", "none"},
             w.step \notin {"done", "none"}, w.fetched = old.fetched, w.out = old.out
      PROVE  \E x : Moves(s, x) /\ Careful(s, x)
  BY <1>2, <1>3 DEF Careful, old
<1>4. CASE LoadRobots(s)
  <2> DEFINE w == [old EXCEPT !.step = FirstStep(s), !.requests = 1, !.todo = {p \in Pages : SourceOf[p] = s}]
             e == [old EXCEPT !.step = "end"]
  <2>1. FirstStep(s) \in {"host", "list", "search", "items", "html"}
    BY DEF FirstStep
  <2>2. w.step \notin {"done", "none"} /\ w.fetched = old.fetched /\ w.out = old.out
    BY <1>1, <2>1 DEF Workers
  <2>3. e.step \notin {"done", "none"} /\ e.fetched = old.fetched /\ e.out = old.out
    BY <1>1 DEF Workers
  <2>4. Moves(s, w) \/ Moves(s, e)
    BY <1>4 DEF LoadRobots, old
  <2>5. UNCHANGED queue /\ old.step \notin {"done", "none"}
    BY <1>4 DEF LoadRobots, Working, old
  <2> HIDE DEF w, e
  <2> QED
    BY <1>3, <2>2, <2>3, <2>4, <2>5
<1>5. CASE BulkList(s)
  <2> DEFINE w == [old EXCEPT !.requests = @ + 1, !.step = "records"]
             e == [old EXCEPT !.step = "end"]
  <2>1. w.step \notin {"done", "none"} /\ w.fetched = old.fetched /\ w.out = old.out
    BY <1>1 DEF Workers
  <2>2. e.step \notin {"done", "none"} /\ e.fetched = old.fetched /\ e.out = old.out
    BY <1>1 DEF Workers
  <2>3. Moves(s, w) \/ Moves(s, e)
    BY <1>5 DEF BulkList, old
  <2>4. UNCHANGED queue /\ old.step \notin {"done", "none"}
    BY <1>5 DEF BulkList, Working, old
  <2> HIDE DEF w, e
  <2> QED
    BY <1>3, <2>1, <2>2, <2>3, <2>4
<1>6. CASE JsonSearch(s) \/ ItemList(s)
  <2> DEFINE f(x) == [old EXCEPT !.requests = @ + 1, !.step = x, !.todo = @ \ known]
             e(x) == [old EXCEPT !.step = x]
  <2>1. \A x \in {"json", "records"} : f(x).step \notin {"done", "none"} /\ f(x).fetched = old.fetched /\ f(x).out = old.out
    BY <1>1 DEF Workers
  <2>2. \A x \in {"end", "dead"} : e(x).step \notin {"done", "none"} /\ e(x).fetched = old.fetched /\ e(x).out = old.out
    BY <1>1 DEF Workers
  <2>3. \/ \E x \in {"json", "records"} : Moves(s, f(x))
        \/ \E x \in {"end", "dead"} : Moves(s, e(x))
    BY <1>6 DEF JsonSearch, ItemList, old
  <2>4. UNCHANGED queue /\ old.step \notin {"done", "none"}
    BY <1>6 DEF JsonSearch, ItemList, Working, old
  <2> HIDE DEF f, e
  <2> QED
    BY <1>3, <2>1, <2>2, <2>3, <2>4
<1>7. CASE HostFetch(s) \/ HtmlFetch(s) \/ JsonFetch(s)
  <2>1. /\ worker[s].todo # {} /\ UNCHANGED queue /\ worker[s].out = None
        /\ worker[s].step \notin {"done", "none"}
        /\ Fetch(s, NextPage(s)) \/ Drop(s, NextPage(s))
    BY <1>7 DEF HostFetch, HtmlFetch, JsonFetch, More, Working
  <2> QED
    BY <2>1, FetchCareful
<1>8. CASE NextRecord(s)
  <2> DEFINE page == NextPage(s)
             w == [old EXCEPT !.out = page, !.todo = @ \ {page}, !.fetched = @ \cup {page}]
  <2> HIDE DEF page
  <2>1. w.step = old.step /\ w.out = page /\ w.fetched = old.fetched \cup {page}
    BY <1>1 DEF Workers
  <2>2. Moves(s, w) /\ UNCHANGED queue /\ old.step = "records" /\ old.out = None
    BY <1>8 DEF NextRecord, Working, old, page
  <2> HIDE DEF w
  <2>3. Careful(s, w)
    BY <1>2, <2>1, <2>2 DEF Careful, old
  <2> QED
    BY <2>2, <2>3
<1>9. CASE Put(s)
  <2> DEFINE w == [old EXCEPT !.out = None]
  <2>1. w.step = old.step /\ w.out = None /\ w.fetched = old.fetched
    BY <1>1 DEF Workers
  <2>2. Moves(s, w) /\ queue' = Append(queue, old.out) /\ old.out # None
    BY <1>9 DEF Put, old
  <2>3. ToSet(queue') = ToSet(queue) \cup {old.out} /\ old.out \in Pages
    BY <1>1, <2>2, AppendSet
  <2> HIDE DEF w
  <2>4. Careful(s, w)
    BY <1>1, <2>1, <2>2, <2>3 DEF Careful, old
  <2> QED
    BY <2>2, <2>4
<1>10. CASE PutStats(s)
  <2> DEFINE w == [old EXCEPT !.step = "done", !.todo = {}]
  <2>1. w.step = "done" /\ w.out = old.out /\ w.fetched = old.fetched
    BY <1>1 DEF Workers
  <2>2. Moves(s, w) /\ queue' = Append(queue, s) /\ old.out = None /\ old.step \notin {"none", "done"}
    BY <1>10 DEF PutStats, old
  <2>3. ToSet(queue') = ToSet(queue) \cup {s}
    BY <1>1, <2>2, AppendSet
  <2> HIDE DEF w
  <2>4. Careful(s, w)
    BY <2>1, <2>2, <2>3 DEF Careful, old
  <2> QED
    BY <2>2, <2>4
<1> QED
  BY <1>4, <1>5, <1>6, <1>7, <1>8, <1>9, <1>10 DEF Work

LEMMA WorkLoses ==
    ASSUME WorkType, ThreadInv, NEW s \in Sources, Work(s)
    PROVE  ThreadInv'
<1>1. Threaded /\ cmd' = cmd
  <2>1. Turned(s)
    BY WorkTurns
  <2> QED
    BY <2>1 DEF Turned, Moves, Work, LoadRobots, HostFetch, BulkList, JsonSearch, JsonFetch, ItemList,
                HtmlFetch, NextRecord, Put, PutStats, Working
<1>2. CASE cmd.kind # "campaign"
  BY <1>1, <1>2, ThreadIdle DEF Threaded
<1>3. CASE cmd.kind = "campaign"
  <2>1. PICK w : Moves(s, w) /\ Careful(s, w)
    BY <1>3, WorkCareful
  <2>2. worker' = [worker EXCEPT ![s] = w] /\ UNCHANGED <<cmd, base, rows, known, deferred, stop, completed>>
    BY <2>1 DEF Moves
  <2>3. worker'[s] = w /\ \A r \in Sources \ {s} : worker'[r] = worker[r]
    BY <2>2 DEF WorkType
  <2>4. cmd.step = "loop"
    <3> SUFFICES ASSUME cmd.step # "loop" PROVE FALSE
      OBVIOUS
    <3>1. LoopOver
      BY <1>3 DEF ThreadInv
    <3>2. s \in completed
      BY <2>1, <3>1 DEF LoopOver, Threads, Careful
    <3>3. worker[s].step = "done"
      BY <1>3, <3>2 DEF ThreadInv
    <3> QED
      BY <2>1, <3>3 DEF Careful
  <2>5. \A page : Seen(Held, page)' = Seen(Held, page)
    BY <2>2 DEF Seen, ToSet, Held
  <2>6. \A r \in Sources : worker'[r].step \in {"done", "none"} => worker'[r].out = None
    BY <1>3, <2>1, <2>3 DEF ThreadInv, Careful
  <2>7. \A r \in completed' \cup (ToSet(queue') \cap Sources) : worker'[r].step = "done"
    <3> SUFFICES ASSUME NEW r \in completed \cup (ToSet(queue') \cap Sources) PROVE worker'[r].step = "done"
      BY <2>2
    <3>1. CASE r \in completed \cup (ToSet(queue) \cap Sources)
      <4>1. worker[r].step = "done"
        BY <1>3, <3>1 DEF ThreadInv
      <4>2. r # s
        BY <2>1, <4>1 DEF Careful
      <4> QED
        BY <2>2, <4>1, <4>2 DEF WorkType
    <3>2. CASE r \notin completed \cup (ToSet(queue) \cap Sources)
      <4>1. r \in Sources /\ r \notin Pages
        BY <3>2, PageAssumption
      <4>2. r = s /\ w.step = "done"
        BY <2>1, <3>2, <4>1 DEF Careful
      <4> QED
        BY <2>3, <4>2
    <3> QED
      BY <3>1, <3>2
  <2>8. \A r \in Sources : \A page \in worker'[r].fetched :
              page = worker'[r].out \/ page \in ToSet(queue') \/ Seen(Held, page)'
    <3> SUFFICES ASSUME NEW r \in Sources, NEW page \in worker'[r].fetched, page # worker'[r].out,
                        page \notin ToSet(queue')
                 PROVE  Seen(Held, page)
      BY <2>5
    <3>1. page \notin ToSet(queue)
      BY <2>1 DEF Careful
    <3>2. page \in worker[r].fetched /\ page # worker[r].out
      <4>1. CASE r # s
        BY <2>3, <4>1
      <4>2. CASE r = s
        <5>1. page \in worker[s].fetched /\ page # w.out
          BY <2>1, <2>3, <4>2 DEF Careful
        <5>2. page # None
          <6>1. page \in Pages
            BY <5>1 DEF WorkType, Workers
          <6> QED
            BY <6>1, PageAssumption
        <5> QED
          BY <2>1, <4>2, <5>1, <5>2 DEF Careful
      <4> QED
        BY <4>1, <4>2
    <3> QED
      BY <1>3, <3>1, <3>2 DEF ThreadInv
  <2> QED
    BY <1>1, <1>3, <2>4, <2>6, <2>7, <2>8 DEF ThreadInv
<1> QED
  BY <1>2, <1>3


LEMMA ThreadStill ==
    ASSUME ThreadInv, UNCHANGED <<base, rows, worker, queue, known, deferred, stop, completed>>,
           UNCHANGED cmd
    PROVE  ThreadInv'
<1>1. cmd.kind = "campaign" =>
        /\ cmd'.step # "loop" => LoopOver
        /\ cmd'.step \in {"drained", "write"} /\ ~stop => Storables(Held) = {}
  BY DEF ThreadInv
<1> QED
  BY <1>1, ThreadSame

LEMMA ThreadBatch == ASSUME CollInv, ThreadInv, Batch PROVE ThreadInv'
<1>1. ~Threaded /\ ~Threaded'
  BY BatchThreads DEF CollInv
<1>2. queue' = <<>> /\ completed' = {}
  BY <1>1 DEF Batch, campaignVars, ThreadInv, Threaded
<1> QED
  BY <1>1, <1>2, ThreadIdle DEF Threaded

LEMMA ThreadLaunch == ASSUME CollInv, ThreadInv, StartCampaign \/ StartRound2 PROVE ThreadInv'
<1>1. PICK kind, batch, sources : Launch(kind, batch, sources)
  BY DEF StartCampaign, StartRound2
<1>2. /\ cmd = NoCommand /\ cmd' = Started(kind, batch, 0, "loop")
      /\ worker' = [s \in Sources |-> IF s \in sources THEN [Idle EXCEPT !.step = "robots"] ELSE Idle]
      /\ UNCHANGED <<queue, completed>>
  BY <1>1 DEF Launch
<1>3. queue' = <<>> /\ completed' = {}
  BY <1>2 DEF ThreadInv, NoCommand
<1>4. cmd'.step = "loop" /\ ToSet(queue') = {}
  BY <1>2, <1>3 DEF Started, ToSet
<1>5. \A s \in Sources : worker'[s].out = None /\ worker'[s].fetched = {}
  BY <1>2 DEF Idle
<1> QED
  BY <1>3, <1>4, <1>5 DEF ThreadInv

LEMMA ThreadRound2 ==
    ASSUME CollInv, ThreadInv, Round2Takes \/ SaveCheckpoint \/ ResumeRound2 \/ SaveRound2
    PROVE  ThreadInv'
<1>1. cmd.kind = "round2"
  BY DEF Round2Takes, SaveCheckpoint, ResumeRound2, SaveRound2
<1>2. cmd \in [kind : Kinds, run : 1..MaxRuns, step : WorkSteps, batch : Batches, limit : Nat]
  BY <1>1 DEF CollInv, LaneInv, LaneType, NoCommand
<1>3. cmd' = cmd \/ \E x \in WorkSteps : cmd' = [cmd EXCEPT !.step = x]
  BY DEF Round2Takes, SaveCheckpoint, ResumeRound2, SaveRound2, Begin, WorkSteps
<1>4. cmd'.kind = "round2"
  BY <1>1, <1>2, <1>3
<1> QED
  BY <1>4, ThreadIdle

LEMMA ThreadEnds == ASSUME CollInv, ThreadInv, EndLoop \/ SaveCampaign PROVE ThreadInv'
<1>1. cmd.kind = "campaign" /\ UNCHANGED <<base, rows, worker, queue, known, deferred, stop, completed>>
      /\ \E x \in {"drain", "drained", "write"} : cmd' = [cmd EXCEPT !.step = x]
  BY DEF EndLoop, SaveCampaign, Begin, campaignVars
<1>2. cmd \in [kind : Kinds, run : 1..MaxRuns, step : WorkSteps, batch : Batches, limit : Nat]
  BY <1>1 DEF CollInv, LaneInv, LaneType, NoCommand
<1>3. cmd'.kind = cmd.kind
  BY <1>1, <1>2
<1>4. CASE EndLoop
  <2>1. LoopOver /\ (~stop => cmd'.step = "drain")
    BY <1>2, <1>4 DEF EndLoop
  <2> QED
    BY <1>1, <1>3, <2>1, ThreadSame
<1>5. CASE SaveCampaign
  <2>1. LoopOver /\ (~stop => Storables(Held) = {})
    BY <1>1, <1>5 DEF SaveCampaign, ThreadInv
  <2> QED
    BY <1>1, <1>3, <2>1, ThreadSame
<1> QED
  BY <1>4, <1>5


LEMMA ThreadLeave == ASSUME Leave PROVE ThreadInv'
<1>1. cmd'.kind \notin {"campaign", "round2"} /\ queue' = <<>> /\ completed' = {}
  BY DEF Leave, CampaignReset, NoCommand
<1> QED
  BY <1>1, ThreadIdle

LEMMA ThreadFixed ==
    ASSUME ThreadInv, UNCHANGED campaignVars, UNCHANGED <<cmd, base, rows>>
    PROVE  ThreadInv'
BY ThreadStill DEF campaignVars

\* What the main thread holds after a step that hands it over.
LEMMA HeldNext ==
    ASSUME NEW st \in States, Hold(st)
    PROVE  Held' = st /\ \A page : Seen(Held, page)' <=> Seen(st, page)
<1>1. Held' = st
  BY DEF Hold, Held, States
<1> QED
  BY <1>1 DEF Seen, ToSet, Wanted

LEMMA ThreadDrain == ASSUME CollInv, ThreadInv, DrainDeferred PROVE ThreadInv'
<1> DEFINE fit == Storables(Held) \cap (IF stop THEN {1} ELSE DOMAIN deferred)
<1>1. /\ cmd.kind = "campaign" /\ cmd.step = "drain"
      /\ UNCHANGED <<base, worker, queue, completed>>
  BY DEF DrainDeferred
<1>2. LaneInv /\ WorkType /\ Held \in States /\ LoopOver
  BY <1>1 DEF CollInv, CampaignInv, GoodHold, ThreadInv
<1>3. cmd \in [kind : Kinds, run : 1..MaxRuns, step : WorkSteps, batch : Batches, limit : Nat]
  BY <1>1, <1>2 DEF LaneInv, LaneType, NoCommand
<1>4. CASE fit = {}
  <2>1. cmd' = [cmd EXCEPT !.step = "drained"] /\ UNCHANGED <<rows, known, deferred, stop>>
    BY <1>4 DEF DrainDeferred
  <2>2. ~stop => Storables(Held) = {}
    BY <1>4 DEF Storables, Held
  <2>3. cmd'.kind = cmd.kind /\ cmd'.step = "drained"
    BY <1>3, <2>1
  <2> QED
    BY <1>1, <1>2, <2>1, <2>2, <2>3, ThreadSame
<1>5. CASE fit # {}
  <2> DEFINE st == StoredFrom(Held, Min(fit))
  <2>1. Hold(st) /\ UNCHANGED cmd
    BY <1>5 DEF DrainDeferred
  <2>2. fit \in SUBSET Nat /\ fit \subseteq Storables(Held)
    BY <1>2 DEF Storables, States
  <2>3. Min(fit) \in Storables(Held)
    BY <1>5, <2>2, HasMin
  <2>4. st \in States
    BY <1>1, <1>2, <2>3, GoodFrom DEF Reading, CollInv, CampaignInv, GoodHold
  <2>5. \A page : Seen(Held, page) => Seen(st, page)
    BY <1>2, <1>3, <2>3, SeenFrom
  <2> HIDE DEF st
  <2>6. \A page : Seen(Held, page) => Seen(Held, page)'
    BY <2>1, <2>4, <2>5, HeldNext
  <2>7. ToSet(queue)' = ToSet(queue) /\ LoopOver' /\ cmd'.kind = "campaign" /\ cmd'.step = "drain"
    BY <1>1, <1>2, <2>1 DEF ToSet, LoopOver, Threads
  <2> QED
    BY <1>1, <2>6, <2>7 DEF ThreadInv
<1> QED
  BY <1>4, <1>5

LEMMA ThreadTakes == ASSUME CollInv, ThreadInv, CampaignTakes PROVE ThreadInv'
<1>0. PICK value : value = Head(queue)
  OBVIOUS
<1>1. /\ cmd.kind = "campaign" /\ cmd.step = "loop" /\ queue # <<>> /\ queue' = Tail(queue)
      /\ UNCHANGED <<cmd, base, worker>>
  BY DEF CampaignTakes
<1>2. Held \in States /\ queue \in Seq(Pages \cup Sources)
  BY <1>1 DEF CollInv, CampaignInv, GoodHold, WorkType
<1>3. cmd.run \in 1..MaxRuns
  BY <1>1 DEF CollInv, LaneInv, LaneType, NoCommand
<1>4. ToSet(queue) = {value} \cup ToSet(queue') /\ value \in Pages \cup Sources
  BY <1>0, <1>1, <1>2, TailSet, TailMeans
<1>5. Pages \cap Sources = {}
  BY PageAssumption
<1>6. \E st \in States : /\ Hold(st) /\ (value \in Pages => Seen(st, value))
                         /\ \A page : Seen(Held, page) => Seen(st, page)
  <2>1. CASE value \in Sources
    <3>1. Hold(Reconsidered(Held))
      BY <1>0, <2>1 DEF CampaignTakes
    <3>2. Reconsidered(Held) \in States
      BY <1>1, GoodReconsidered DEF CollInv, CampaignInv, Reading, GoodHold
    <3> QED
      BY <1>2, <1>3, <1>5, <2>1, <3>1, <3>2, SeenReconsidered
  <2>2. CASE value \notin Sources
    <3> DEFINE st == Processed(Held, value)
    <3>1. Hold(Reconsidered(st)) /\ value \in Pages
      BY <1>0, <1>4, <2>2 DEF CampaignTakes
    <3>2. GoodHold(st)
      BY <1>1, <3>1, GoodProcessed DEF CollInv, CampaignInv, Reading
    <3>3. st \in States
      BY <3>2 DEF GoodHold
    <3>4. Seen(st, value) /\ \A page : Seen(Held, page) => Seen(st, page)
      BY <1>2, <1>3, <3>1, SeenProcessed
    <3> HIDE DEF st
    <3>5. Reconsidered(st) \in States
      BY <1>1, <3>2, GoodReconsidered DEF CollInv, Reading, GoodHold
    <3>6. \A page : Seen(st, page) => Seen(Reconsidered(st), page)
      BY <1>3, <3>3, SeenReconsidered
    <3> QED
      BY <3>1, <3>4, <3>5, <3>6
  <2> QED
    BY <2>1, <2>2
<1>7. /\ value \in Pages => Seen(Held, value)'
      /\ \A page : Seen(Held, page) => Seen(Held, page)'
  BY <1>6, HeldNext
<1>8. completed' = completed \cup ({value} \cap Sources)
  <2>1. value \in Sources => completed' = completed \cup {value}
    BY <1>0 DEF CampaignTakes
  <2>2. value \notin Sources => completed' = completed
    BY <1>0 DEF CampaignTakes
  <2> QED
    BY <2>1, <2>2
<1>9. ToSet(queue)' = ToSet(queue')
  BY DEF ToSet
<1>10. \A s \in Sources : worker'[s].step \in {"done", "none"} => worker'[s].out = None
  BY <1>1 DEF ThreadInv
<1>11. \A s \in completed' \cup (ToSet(queue)' \cap Sources) : worker'[s].step = "done"
  <2>1. completed' \cup (ToSet(queue)' \cap Sources) \subseteq completed \cup (ToSet(queue) \cap Sources)
    BY <1>4, <1>8, <1>9
  <2>2. \A s \in completed \cup (ToSet(queue) \cap Sources) : worker[s].step = "done"
    BY <1>1 DEF ThreadInv
  <2> QED
    BY <1>1, <2>1, <2>2
<1>12. ASSUME NEW s \in Sources, NEW page \in worker'[s].fetched
       PROVE  page = worker'[s].out \/ page \in ToSet(queue)' \/ Seen(Held, page)'
  <2>1. page = worker[s].out \/ page \in ToSet(queue) \/ Seen(Held, page)
    BY <1>1, <1>12 DEF ThreadInv
  <2>2. page \in Pages
    BY <1>1, <1>12 DEF CollInv, WorkType, Workers
  <2>3. CASE page = value
    BY <1>7, <2>2, <2>3
  <2>4. CASE page # value
    BY <1>1, <1>4, <1>7, <1>9, <2>1, <2>4
  <2> QED
    BY <2>3, <2>4
<1> QED
  BY <1>1, <1>10, <1>11, <1>12 DEF ThreadInv

LEMMA ThreadKeeps == ASSUME CollInv, ThreadInv, [Next]_vars PROVE ThreadInv'
<1>1. CASE Writing \/ UNCHANGED vars
  BY <1>1, ThreadFixed DEF Writing, ReplaceFile, FailReplace, RestoreFile, vars
<1>2. CASE Finish \/ Abort \/ DiscoveryRaises \/ Kill
  BY <1>2, ThreadLeave DEF Finish, Abort, DiscoveryRaises, Kill
<1>3. CASE Main
  BY <1>3, ThreadTakes, ThreadEnds, ThreadDrain, ThreadRound2 DEF Main
<1>4. CASE \E s \in Sources : Work(s)
  BY <1>4, WorkLoses DEF CollInv
<1> QED
  BY <1>1, <1>2, <1>3, <1>4, ThreadBatch, ThreadLaunch DEF Next

-----------------------------------------------------------------------------
(* The whole *)

LEMMA StepKeeps == ASSUME CollInv, Next PROVE CollKept
<1>1. CASE Finish \/ Abort \/ DiscoveryRaises \/ Kill
  BY <1>1, LeaveStep DEF Finish, Abort, DiscoveryRaises, Kill
<1> QED
  BY <1>1, WritingStep, BatchStepKeeps, MainStep, WorkStep, LaunchStep DEF Next

LEMMA StutterKeeps == ASSUME CollInv, UNCHANGED vars PROVE CollKept
<1>1. LaneInv' /\ Ledger' = Ledger
  <2>1. UNCHANGED <<disk, cmd, base, rows, catalog, known>> /\ budget' = budget /\ commit' = commit
    BY DEF vars, batchVars, campaignVars
  <2>2. budget \in [runs : 0..MaxRuns, troubles : Nat]
    BY DEF CollInv, LaneInv, LaneType
  <2> QED
    BY <2>1, <2>2, StandStill DEF CollInv
<1>2. WorkType'
  BY DEF CollInv, WorkType, vars, batchVars, campaignVars
<1>3. cmd'.kind = "campaign" => cmd' = [cmd EXCEPT !.step = cmd'.step]
  <2>1. cmd = NoCommand \/ cmd \in [kind : Kinds, run : 1..MaxRuns, step : WorkSteps, batch : Batches, limit : Nat]
    BY DEF CollInv, LaneInv, LaneType
  <2> QED
    BY <2>1 DEF NoCommand, vars
<1> QED
  BY <1>1, <1>2, <1>3, CampaignStill DEF CollKept, Kept, vars, batchVars, campaignVars

LEMMA CollInit == ASSUME Init PROVE CollInv /\ Ledger = <<>>
<1>1. /\ disk = [path \in Paths |-> <<>>] /\ commit = NoCommit /\ cmd = NoCommand
      /\ base = <<>> /\ rows = <<>> /\ budget = [runs |-> MaxRuns, troubles |-> MaxTroubles]
      /\ catalog = <<>> /\ asking = <<>> /\ worker = [s \in Sources |-> Idle]
      /\ queue = <<>> /\ known = {} /\ deferred = <<>> /\ stop = FALSE
  BY DEF Init, LaneInit, BatchInit, CampaignInit
<1>2. MaxRuns \in Nat /\ MaxTroubles \in Nat
  BY LaneBounds
<1>3. /\ commit.done = <<>> /\ commit.todo = <<>> /\ ~commit.restoring /\ DOMAIN commit.done = {}
      /\ cmd.step = "idle" /\ cmd.kind = "none" /\ ~Reading /\ Plan = <<>>
  BY <1>1 DEF NoCommit, NoCommand, Reading, Plan
<1>4. /\ disk[Manifest] = <<>> /\ Whole = <<>> /\ \A b \in Batches : disk[Report(b)] = <<>>
      /\ \A path : ~InDone(path)
  BY <1>1, <1>3, InPaths DEF Whole, InDone
<1>5. Ledger = <<>>
  BY <1>3, <1>4, LedgerNone DEF Ledger, LedgerOf
<1>6. LaneType
  <2>1. disk \in [Paths -> Seq(Word)]
    <3>1. <<>> \in Seq(Word)
      OBVIOUS
    <3> QED
      BY <1>1, <3>1
  <2>2. commit \in [todo : Seq(Entry), done : Seq(Entry), restoring : BOOLEAN]
    <3>1. <<>> \in Seq(Entry)
      OBVIOUS
    <3> QED
      BY <1>1, <3>1 DEF NoCommit
  <2>3. <<>> \in Seq(Row) /\ <<>> \in Seq(Pages)
    OBVIOUS
  <2>4. budget \in [runs : 0..MaxRuns, troubles : Nat]
    BY <1>1, <1>2
  <2> QED
    BY <1>1, <2>1, <2>2, <2>3, <2>4 DEF LaneType, Word
<1>7. Progress
  <2>1. SubSeq(Plan, 1, Len(Plan)) = <<>> /\ Len(Plan) = 0 /\ Len(commit.done) = 0
    BY <1>3
  <2> QED
    BY <1>3, <2>1 DEF Progress
<1>8. RowsInv
  <2>1. Sound(Whole)
    <3>1. <<>> \in Seq(Row) /\ DOMAIN <<>> = {}
      OBVIOUS
    <3> QED
      BY <1>4, <3>1 DEF Sound
  <2> QED
    BY <1>1, <1>3, <2>1 DEF RowsInv
<1>9. LedgerInv
  <2>1. \A m \in Seq(Row) : IsPrefix(m, m)
    BY PrefixMeans
  <2>2. Whole \in Seq(Row)
    BY <1>8 DEF RowsInv, Sound
  <2>3. IsPrefix(Ledger, Whole)
    BY <1>4, <1>5, <2>1, <2>2
  <2> QED
    BY <1>3, <1>4, <1>5, <2>3 DEF LedgerInv
<1>10. FilesInv
  BY <1>3, <1>4, <1>5 DEF FilesInv, Evident
<1>11. ReportsInv
  <2>1. 2..Len(<<>>) = {}
    OBVIOUS
  <2> QED
    BY <1>3, <1>4, <2>1 DEF ReportsInv, Reported
<1>12. WorkType
  <2>1. Idle \in Workers /\ Idle.todo = {}
    BY DEF Idle, Workers, WorkerSteps
  <2> HIDE DEF Idle
  <2>2. worker \in [Sources -> Workers] /\ \A s \in Sources : worker[s].todo = {}
    BY <1>1, <2>1
  <2>3. <<>> \in Seq(Sources) /\ <<>> \in Seq(Pages) /\ <<>> \in Seq(Pages \cup Sources)
    OBVIOUS
  <2> QED
    BY <1>1, <2>2, <2>3 DEF WorkType
<1> QED
  BY <1>3, <1>5, <1>6, <1>7, <1>8, <1>9, <1>10, <1>11, <1>12 DEF CollInv, LaneInv, CampaignInv

\* The collectors keep their invariant, whatever order their threads take, and
\* wherever a replacement fails or a command is killed.
THEOREM CollInvariance == Spec => []CollInv
<1>1. Init => CollInv
  BY CollInit
<1>2. CollInv /\ [Next]_vars => CollInv'
  BY StepKeeps, StutterKeeps DEF CollKept, Kept, CollInv
<1> QED
  BY <1>1, <1>2, PTL DEF Spec

\* A row in the manifest names a file that is there, and for an exact or a
\* campaign row the one of its own run.
THEOREM EvidenceFollowsRows == Spec => []RowsMatchEvidence
<1>1. CollInv => RowsMatchEvidence
  BY Settled DEF CollInv, LaneInv, Evident, RowsMatchEvidence
<1> QED
  BY <1>1, CollInvariance, PTL

\* A report speaks of rows that are in the manifest.
THEOREM ReportsAreBacked == Spec => []ReportsFollowRows
<1>1. CollInv => ReportsFollowRows
  BY Settled DEF CollInv, LaneInv, Reported, ReportsFollowRows
<1> QED
  BY <1>1, CollInvariance, PTL

\* No campaign brings a publisher above its share.
THEOREM SharesAreKept == Spec => []PublisherShare
<1>1. CollInv => PublisherShare
  BY DEF CollInv, CampaignInv, GoodHold, PublisherShare, Held
<1> QED
  BY <1>1, CollInvariance, PTL

\* A page a worker fetched is stored, or unfit, or its publisher has its share
\* when a campaign below its target has written.
THEOREM NothingIsForgotten == Spec => []NothingForgotten
<1>1. Init => CollInv /\ ThreadInv
  <2>1. Init => cmd.kind \notin {"campaign", "round2"} /\ queue = <<>> /\ completed = {}
    BY DEF Init, LaneInit, CampaignInit, NoCommand
  <2> QED
    BY <2>1, CollInit DEF ThreadInv
<1>2. CollInv /\ ThreadInv /\ [Next]_vars => ThreadInv'
  BY ThreadKeeps
<1>3. CollInv /\ ThreadInv => NothingForgotten
  <2> SUFFICES ASSUME CollInv, ThreadInv, cmd.kind = "campaign", cmd.step = "write", ~stop,
                      NEW s \in Sources, NEW page \in worker[s].fetched, Fits(Held, page)
               PROVE  HasShare(Held, page)
    BY DEF NothingForgotten
  <2>1. LoopOver /\ Storables(Held) = {}
    BY DEF ThreadInv
  <2>2. worker[s].out = None /\ ToSet(queue) = {}
    <3>1. worker[s].step \in {"done", "none"}
      BY <2>1 DEF ThreadInv, LoopOver, Threads
    <3> QED
      BY <2>1, <3>1 DEF ThreadInv, LoopOver, ToSet
  <2>3. page \in Pages /\ page # None
    BY PageAssumption DEF CollInv, WorkType, Workers
  <2>4. Seen(Held, page) /\ page \notin known /\ Wanted(page)
    BY <2>2, <2>3 DEF ThreadInv, Fits, Wanted, Held
  <2>5. PICK i \in DOMAIN deferred : deferred[i] = page
    BY <2>4 DEF Seen, ToSet, Held
  <2>6. i \notin Storables(Held)
    BY <2>1
  <2> QED
    BY <2>5, <2>6 DEF Storables, Storable, Held
<1> QED
  BY <1>1, <1>2, <1>3, CollInvariance, PTL DEF Spec

\* The manifest, less what a write in progress may still undo, is the abstract
\* ledger: every step of every collector appends a portion of it or none.
THEOREM LedgerRefined == Spec => ImplementsLedger
<1>1. Init => Promise!Init
  BY CollInit DEF Promise!Init
<1>2. CollInv /\ [Next]_vars => [Promise!Add]_Ledger
  BY StepKeeps, StutterKeeps DEF CollKept, Kept, Promise!Add
<1> QED
  BY <1>1, <1>2, CollInvariance, PTL DEF Spec, ImplementsLedger, Promise!Spec
=============================================================================

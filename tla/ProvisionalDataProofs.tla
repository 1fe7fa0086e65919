------------------------ MODULE ProvisionalDataProofs ------------------------
(***************************************************************************)
(* Proofs about ProvisionalData: types, what a removal, a collection and a *)
(* reprocessing leave behind, and that the searches of its server          *)
(* implement Withdrawals.                                                  *)
(*                                                                         *)
(* The argument: a withdrawn document is inactive in the manifest and owns *)
(* no passage; every command keeps this for the files it writes because    *)
(* its drafts and copies already have it; and a server searches an index   *)
(* only while it equals the chunks file.                                   *)
(***************************************************************************)
EXTENDS ProvisionalData, TLAPS, WellFoundedInduction

Gathering == pc \in {"collect_one", "collect_chunks"}
\* A removal before it is undone, and its undoing.
Forward == Removing \/ pc = "undo_manifest"

\* Which command is at which step; no command has just ended while one runs.
CommandOK ==
    /\ pc # "idle" => last = NoCommand
    /\ Gathering => cmd.name = "collect"
    /\ pc \in {"stage", "backup", "swap"} =>
         cmd.name \in {"rebuild", "remove", "purge", "expire"}
    /\ pc \in {"manifest", "filter", "log", "unlink", "purge"} \/ Undoing =>
         cmd.name \in {"remove", "purge", "expire"}

\* A withdrawn document is inactive and owns nothing.
Gone(records) == \A s \in withdrawn : records # None /\ ~records[s].active
Clean(c, S) == Readable(c) => OwnersIn(c) \cap S = {}

WithdrawnOK == Gone(manifest) /\ Clean(chunks, withdrawn)

\* What a collection has done with a document it is through with.
Gathered(records, c, s) ==
    records[s].active /\ records[s].status \in {"collected", "reused"} =>
        raw[s] \in Texts /\ records[s].hash = raw[s] /\ c[raw[s]] # None

CollectOK ==
    Gathering =>
        /\ manifest # None
        /\ \A s \in Sources : draft[s].active = manifest[s].active
        /\ \A s \in todo : manifest[s].active
        /\ OwnersIn(acc) \cap withdrawn = {}
        /\ cmd.only = Sources => \A s \in Sources \ todo : Gathered(draft, acc, s)
        /\ pc = "collect_chunks" => todo = {} /\ manifest = draft

\* A removal: its draft and the files it has written leave its documents out,
\* and the copies it would restore are clean of what was withdrawn before it.
RemovalOK ==
    /\ Forward => /\ manifest # None /\ saved.manifest # None
                  /\ \A s \in withdrawn \ cmd.only : ~saved.manifest[s].active
                  /\ Clean(saved.chunks, withdrawn \ cmd.only)
    /\ pc = "undo_chunks" => Clean(saved.chunks, withdrawn)
    /\ pc = "manifest" => \A s \in withdrawn \cup cmd.only : ~draft[s].active
    /\ Removing /\ pc # "manifest" => \A s \in cmd.only : ~manifest[s].active
    /\ Removing /\ pc \notin {"manifest", "filter"} => Clean(chunks, cmd.only)

RepairOK ==
    /\ last.name = "collect" /\ last.only = Sources =>
         /\ manifest # None /\ chunks \in Owners
         /\ \A s \in Sources : Gathered(manifest, chunks, s)
    /\ ReprocessRepairs

SearchOK ==
    permitted # None =>
        server = "up" /\ loaded \in Owners /\ OwnersIn(loaded) \subseteq permitted

Inv == /\ TypeOK /\ CommandOK /\ WithdrawnOK /\ CollectOK /\ RemovalOK
       /\ RepairOK /\ SearchOK

-----------------------------------------------------------------------------
(* Data *)

\* The earliest of some documents is one of them.
LEMMA FirstIn ==
  ASSUME NEW S \in SUBSET Sources, S # {}
  PROVE  First(S) \in S
<1>. DEFINE N == {i \in 1..Len(Order) : Order[i] \in S}
            R == OpToRel(<, Nat)
<1>1. N # {} /\ N \subseteq Nat
  BY OrderAssumption DEF Sources
<1>2. PICK i \in N : \A j \in N : ~(<<j, i>> \in R)
  <2>. HIDE DEF N, R
  <2>1. IsWellFoundedOn(R, Nat)
    BY NatLessThanWellFounded DEF R
  <2>. QED  BY <1>1, <2>1, WFMin
<1>3. \A j \in 1..(i - 1) : Order[j] \notin S
  <2>. SUFFICES ASSUME NEW j \in 1..(i - 1), Order[j] \in S
                PROVE  FALSE
    OBVIOUS
  <2>1. Len(Order) \in Nat
    BY OrderAssumption
  <2>2. i \in 1..Len(Order)
    BY <1>2
  <2>3. j \in N /\ i \in Nat /\ j \in Nat /\ j < i
    BY <2>1, <2>2
  <2>4. <<j, i>> \in R
    BY <2>3 DEF OpToRel
  <2>. QED  BY <1>2, <2>3, <2>4
<1>. QED  BY <1>2, <1>3 DEF First

LEMMA Initials ==
  /\ Fresh \in [Sources -> Record] /\ \A s \in Sources : Fresh[s].active
  /\ [t \in Texts |-> None] \in Owners
  /\ NoCommand \in Command(Running) /\ NothingSaved \in Saved
BY DEF Fresh, Record, Owners, NoCommand, Command, Running, NothingSaved, Saved

LEMMA OwnersFacts ==
  ASSUME NEW c \in Owners
  PROVE  /\ OwnersIn(c) \subseteq Sources /\ c # None /\ c # Torn
         /\ \A t \in Texts : c[t] = None \/ c[t] \in OwnersIn(c)
BY ValueAssumption DEF Owners, OwnersIn

-----------------------------------------------------------------------------
(* Parts of the invariant that a step does not touch *)

LEMMA CommandStays ==
  ASSUME CommandOK, UNCHANGED <<pc, cmd, last>>
  PROVE  CommandOK'
BY DEF CommandOK, Gathering, Undoing

LEMMA WithdrawnStays ==
  ASSUME WithdrawnOK, UNCHANGED <<manifest, chunks, withdrawn>>
  PROVE  WithdrawnOK'
BY DEF WithdrawnOK, Gone, Clean

LEMMA CollectStays ==
  ASSUME CollectOK, UNCHANGED <<pc, cmd, manifest, draft, todo, acc, withdrawn, raw>>
  PROVE  CollectOK'
BY DEF CollectOK, Gathering, Gathered

LEMMA RemovalStays ==
  ASSUME RemovalOK, UNCHANGED <<pc, cmd, manifest, saved, withdrawn, chunks, draft>>
  PROVE  RemovalOK'
BY DEF RemovalOK, Forward, Removing, Clean

LEMMA RepairStays ==
  ASSUME RepairOK, UNCHANGED <<last, manifest, chunks, raw>>
  PROVE  RepairOK'
BY DEF RepairOK, Gathered, ReprocessRepairs

LEMMA SearchStays ==
  ASSUME SearchOK, UNCHANGED <<permitted, server, loaded>>
  PROVE  SearchOK'
BY DEF SearchOK

\* Nothing is asked of the locals of a command that has ended, and nothing of
\* the files while a command runs that has not ended.
LEMMA Idle ==
  ASSUME pc' = "idle"
  PROVE  CommandOK' /\ CollectOK' /\ RemovalOK'
BY DEF CommandOK, CollectOK, RemovalOK, Gathering, Undoing, Forward, Removing

LEMMA Busy ==
  ASSUME last' = NoCommand
  PROVE  RepairOK'
BY DEF RepairOK, ReprocessRepairs, NoCommand

-----------------------------------------------------------------------------
(* prepare, collect, reprocess *)

LEMMA PrepareStep ==
  ASSUME Inv, Prepare
  PROVE  Inv'
<1>. USE DEF Prepare, serving
<1>1. TypeOK'
  <2>1. last' \in Command(Running \cup {"prepare", "reprocess", "rollback"})
    BY DEF NoCommand, Command
  <2>. QED  BY <2>1, Initials DEF Inv, TypeOK
<1>2. CommandOK' /\ CollectOK' /\ RemovalOK'
  BY Idle
<1>3. WithdrawnOK'
  BY DEF WithdrawnOK, Gone, Clean
<1>4. RepairOK'
  BY DEF RepairOK, ReprocessRepairs, NoCommand
<1>. QED  BY <1>1, <1>2, <1>3, <1>4, SearchStays DEF Inv

LEMMA StartCollectStep ==
  ASSUME Inv, NEW force \in BOOLEAN, NEW only \in SUBSET Sources, StartCollect(force, only)
  PROVE  Inv'
<1>. DEFINE records == IF manifest = None THEN Fresh ELSE manifest
            targets == Planned(records, only)
<1>0. /\ records \in [Sources -> Record] /\ targets \subseteq Sources
      /\ \A s \in Sources : s \in targets <=> s \in only /\ records[s].active
      /\ chunks = None \/ chunks \in Owners
  BY Initials DEF Inv, TypeOK, Planned, StartCollect
<1>1. /\ pc = "idle" /\ pc' = "collect_one" /\ last' = NoCommand
      /\ cmd' = [name |-> "collect", force |-> force, only |-> only]
      /\ manifest' = records /\ draft' = records /\ todo' = targets
      /\ withdrawn' = {s \in withdrawn : ~records[s].active}
      /\ acc' = [t \in Texts |->
                   IF chunks = None \/ (chunks # None /\ chunks[t] \in targets)
                   THEN None ELSE chunks[t]]
      /\ UNCHANGED <<raw, chunks, index, backups, log, sessionFile, overdue, saved, serving>>
  BY DEF StartCollect, Start
<1>. HIDE DEF records, targets
<1>2. acc' \in Owners /\ OwnersIn(acc') \subseteq (IF chunks = None THEN {} ELSE OwnersIn(chunks))
  <2>1. CASE chunks = None
    BY <1>1, <2>1 DEF Owners, OwnersIn
  <2>2. CASE chunks # None
    BY <1>0, <1>1, <2>2 DEF Owners, OwnersIn
  <2>. QED  BY <2>1, <2>2
<1>3. TypeOK'
  BY <1>0, <1>1, <1>2, Initials DEF Inv, TypeOK, Command, Running, Labels, serving
<1>4. CommandOK'
  BY <1>1 DEF CommandOK, Gathering, Undoing
<1>5. withdrawn' \subseteq withdrawn /\ \A s \in withdrawn' : ~records[s].active
  BY <1>1
<1>6. WithdrawnOK'
  <2>1. records # None
    BY <1>0, ValueAssumption
  <2>2. Clean(chunks, withdrawn')
    BY <1>5 DEF Inv, WithdrawnOK, Clean
  <2>. QED  BY <1>1, <1>5, <2>1, <2>2 DEF WithdrawnOK, Gone, Clean, Readable
<1>7. CollectOK'
  <2>1. OwnersIn(acc') \cap withdrawn' = {}
    <3>1. CASE chunks = None
      BY <1>2, <3>1
    <3>2. CASE chunks # None
      BY <1>0, <1>2, <1>5, <3>2, OwnersFacts DEF Inv, WithdrawnOK, Clean, Readable
    <3>. QED  BY <3>1, <3>2
  <2>2. records # None
    BY <1>0, ValueAssumption
  <2>3. only = Sources => \A s \in Sources \ targets : ~records[s].active
    BY <1>0
  <2>. QED  BY <1>0, <1>1, <2>1, <2>2, <2>3 DEF CollectOK, Gathered, OwnersIn
<1>8. RemovalOK'
  BY <1>1 DEF RemovalOK, Forward, Removing
<1>9. RepairOK'
  BY <1>1, Busy
<1>. QED  BY <1>1, <1>3, <1>4, <1>6, <1>7, <1>8, <1>9, SearchStays DEF Inv, serving

\* One document is done: its passage is claimed for it, or the passage has an
\* owner already; what was gathered before stays gathered.
LEMMA ClaimFacts ==
  ASSUME Inv, Gathering, NEW s \in todo, NEW t \in Texts, Claim(s, t)
  PROVE  /\ acc' \in Owners /\ OwnersIn(acc') \cap withdrawn = {}
         /\ acc'[t] # None /\ \A u \in Texts : acc[u] # None => acc'[u] # None
<1>1. acc \in Owners /\ s \in Sources /\ s \notin withdrawn /\ OwnersIn(acc) \cap withdrawn = {}
  BY DEF Inv, TypeOK, CollectOK, WithdrawnOK, Gone
<1>2. acc' = [acc EXCEPT ![t] = IF acc[t] = None THEN s ELSE acc[t]]
  BY DEF Claim
<1>3. s # None
  BY <1>1, ValueAssumption
<1>. QED  BY <1>1, <1>2, <1>3 DEF Owners, OwnersIn

\* The steps that take a document off the list.
LEMMA GatherStep ==
  ASSUME Inv, pc = "collect_one", NEW s \in Sources, s \in todo, NEW r \in Record,
         draft' = [draft EXCEPT ![s] = r], r.active = draft[s].active,
         todo' = todo \ {s}, raw' \in [Sources -> Texts \cup {None}],
         \A d \in Sources \ {s} : raw'[d] = raw[d],
         acc' \in Owners, OwnersIn(acc') \cap withdrawn = {},
         \A u \in Texts : acc[u] # None => acc'[u] # None,
         r.status \in {"collected", "reused"} =>
           raw'[s] \in Texts /\ r.hash = raw'[s] /\ acc'[raw'[s]] # None,
         UNCHANGED <<manifest, chunks, index, backups, log, sessionFile, overdue,
                     cmd, pc, saved, last, serving, withdrawn>>
  PROVE  Inv'
<1>1. TypeOK'
  BY DEF Inv, TypeOK, serving
<1>2. CollectOK'
  <2>1. /\ draft'[s] = r /\ \A d \in Sources \ {s} : draft'[d] = draft[d]
        /\ draft \in [Sources -> Record]
    BY DEF Inv, TypeOK
  <2>2. ASSUME cmd.only = Sources, NEW d \in Sources \ todo'
        PROVE  Gathered(draft, acc, d)'
    <3>1. CASE d = s
      BY <2>1, <3>1 DEF Gathered
    <3>2. CASE d # s
      BY <2>1, <2>2, <3>2 DEF Gathered, Inv, CollectOK, Gathering
    <3>. QED  BY <3>1, <3>2
  <2>3. \A d \in Sources : draft'[d].active = manifest[d].active
    BY <2>1 DEF Inv, CollectOK, Gathering
  <2>. QED
    BY <2>2, <2>3 DEF CollectOK, Inv, Gathering, OwnersIn
<1>3. RemovalOK'
  BY DEF RemovalOK, Forward, Removing
<1>4. RepairOK'
  BY Busy DEF Inv, CommandOK
<1>. QED
  BY <1>1, <1>2, <1>3, <1>4, CommandStays, WithdrawnStays, SearchStays DEF Inv, serving

LEMMA CollectReusedStep ==
  ASSUME Inv, CollectReused
  PROVE  Inv'
<1>. DEFINE s == First(todo)
            r == [draft[s] EXCEPT !.status = "reused"]
<1>1. s \in todo /\ s \in Sources /\ draft[s] \in Record
  BY FirstIn DEF CollectReused, Inv, TypeOK
<1>2. /\ Reusable(s) /\ Claim(s, raw[s]) /\ draft' = [draft EXCEPT ![s] = r]
      /\ todo' = todo \ {s} /\ pc = "collect_one"
      /\ UNCHANGED <<files, overdue, cmd, pc, saved, last, serving, withdrawn>>
  BY DEF CollectReused
<1>3. r \in Record /\ r.active = draft[s].active /\ r.hash = draft[s].hash
  BY <1>1 DEF Record
<1>. HIDE DEF r, s
<1>4. raw[s] \in Texts /\ r.hash = raw[s]
  BY <1>1, <1>2, <1>3 DEF Reusable, Inv, TypeOK
<1>5. /\ acc' \in Owners /\ OwnersIn(acc') \cap withdrawn = {}
      /\ acc'[raw[s]] # None /\ \A u \in Texts : acc[u] # None => acc'[u] # None
  BY <1>1, <1>2, <1>4, ClaimFacts DEF Gathering
<1>. QED
  BY <1>1, <1>2, <1>3, <1>4, <1>5, GatherStep DEF files, Inv, TypeOK

LEMMA CollectFetchedStep ==
  ASSUME Inv, NEW t \in Texts, CollectFetched(t)
  PROVE  Inv'
<1>. DEFINE s == First(todo)
            r1 == [draft[s] EXCEPT !.status = "collected"]
            r == [r1 EXCEPT !.hash = t]
<1>1. s \in todo /\ s \in Sources /\ draft \in [Sources -> Record]
  BY FirstIn DEF CollectFetched, Inv, TypeOK
<1>2. /\ raw' = [raw EXCEPT ![s] = t] /\ Claim(s, t)
      /\ draft' = [draft EXCEPT ![s].status = "collected", ![s].hash = t]
      /\ todo' = todo \ {s} /\ pc = "collect_one"
      /\ UNCHANGED <<manifest, chunks, index, backups, log, sessionFile, overdue,
                     cmd, pc, saved, last, serving, withdrawn>>
  BY DEF CollectFetched
<1>3. r1 \in Record /\ r1.active = draft[s].active /\ r1.status = "collected"
  BY <1>1 DEF Record
<1>4. draft' = [draft EXCEPT ![s] = r]
  BY <1>1, <1>2
<1>. HIDE DEF r1
<1>5. r \in Record /\ r.active = draft[s].active /\ r.hash = t
  BY <1>3 DEF Record
<1>. HIDE DEF r, s
<1>6. raw' \in [Sources -> Texts \cup {None}] /\ raw'[s] = t
      /\ \A d \in Sources \ {s} : raw'[d] = raw[d]
  BY <1>1, <1>2 DEF Inv, TypeOK
<1>7. /\ acc' \in Owners /\ OwnersIn(acc') \cap withdrawn = {}
      /\ acc'[t] # None /\ \A u \in Texts : acc[u] # None => acc'[u] # None
  BY <1>1, <1>2, ClaimFacts DEF Gathering
<1>. QED  BY <1>1, <1>2, <1>4, <1>5, <1>6, <1>7, GatherStep

LEMMA CollectFailedStep ==
  ASSUME Inv, CollectFailed
  PROVE  Inv'
<1>. DEFINE s == First(todo)
            r == [draft[s] EXCEPT !.status = "failed"]
<1>1. s \in todo /\ s \in Sources /\ draft[s] \in Record
  BY FirstIn DEF CollectFailed, Inv, TypeOK
<1>2. /\ draft' = [draft EXCEPT ![s] = r] /\ todo' = todo \ {s} /\ pc = "collect_one"
      /\ UNCHANGED <<files, overdue, cmd, pc, acc, saved, last, serving, withdrawn>>
  BY DEF CollectFailed
<1>3. r \in Record /\ r.active = draft[s].active /\ r.status = "failed"
  BY <1>1 DEF Record
<1>4. OwnersIn(acc) \cap withdrawn = {}
  BY <1>2 DEF Inv, CollectOK, Gathering
<1>. HIDE DEF r, s
<1>5. acc' \in Owners /\ raw' \in [Sources -> Texts \cup {None}]
  BY <1>2 DEF Inv, TypeOK, files
<1>. QED
  BY <1>1, <1>2, <1>3, <1>4, <1>5, GatherStep DEF files

LEMMA CollectManifestStep ==
  ASSUME Inv, CollectManifest
  PROVE  Inv'
<1>. USE DEF CollectManifest, Goto, serving
<1>1. TypeOK'
  BY DEF Inv, TypeOK, Labels
<1>2. CommandOK'
  BY DEF Inv, CommandOK, Gathering, Undoing
<1>3. /\ manifest # None /\ draft \in [Sources -> Record]
      /\ \A s \in Sources : draft[s].active = manifest[s].active
      /\ OwnersIn(acc) \cap withdrawn = {}
      /\ cmd.only = Sources => \A s \in Sources : Gathered(draft, acc, s)
      /\ last = NoCommand
  BY DEF Inv, CollectOK, Gathering, TypeOK, CommandOK
<1>4. draft # None
  BY <1>3, ValueAssumption
<1>5. WithdrawnOK'
  BY <1>3, <1>4 DEF Inv, WithdrawnOK, Gone, Clean, TypeOK
<1>6. CollectOK'
  BY <1>3, <1>4 DEF CollectOK, Gathering, Gathered
<1>7. RemovalOK'
  BY DEF RemovalOK, Forward, Removing
<1>8. RepairOK'
  BY <1>3, Busy
<1>. QED  BY <1>1, <1>2, <1>5, <1>6, <1>7, <1>8, SearchStays DEF Inv

LEMMA FinishTypes ==
  ASSUME TypeOK, Finish
  PROVE  /\ pc' \in Labels /\ cmd' \in Command(Running)
         /\ last' \in Command(Running \cup {"prepare", "reprocess", "rollback"})
         /\ todo' \subseteq Sources /\ draft' \in [Sources -> Record] /\ acc' \in Owners
         /\ saved' \in Saved
BY Initials DEF TypeOK, Finish, Labels, Command

LEMMA CollectChunksStep ==
  ASSUME Inv, CollectChunks
  PROVE  Inv'
<1>. USE DEF CollectChunks, serving
<1>0. /\ manifest # None /\ acc \in Owners /\ OwnersIn(acc) \cap withdrawn = {}
      /\ cmd.only = Sources => \A s \in Sources : Gathered(manifest, acc, s)
      /\ cmd.name = "collect"
  BY DEF Inv, CollectOK, CommandOK, Gathering, TypeOK
<1>1. TypeOK'
  BY <1>0, FinishTypes DEF Inv, TypeOK
<1>2. CommandOK' /\ CollectOK' /\ RemovalOK'
  BY Idle DEF Finish
<1>3. WithdrawnOK'
  BY <1>0 DEF Inv, WithdrawnOK, Gone, Clean
<1>4. RepairOK'
  BY <1>0 DEF RepairOK, ReprocessRepairs, Finish, Gathered
<1>. QED  BY <1>1, <1>2, <1>3, <1>4, SearchStays DEF Inv

LEMMA ReprocessLocalStep ==
  ASSUME Inv, ReprocessLocal
  PROVE  Inv'
<1>. DEFINE records == IF manifest = None THEN [s \in {} |-> None] ELSE manifest
            active == ActiveOf(records)
            Holding(t) == {s \in active : raw[s] = t}
<1>1. /\ pc = "idle" /\ last' = [NoCommand EXCEPT !.name = "reprocess"]
      /\ chunks' = [t \in Texts |-> IF Holding(t) = {} THEN None ELSE First(Holding(t))]
      /\ UNCHANGED <<manifest, raw, index, backups, log, sessionFile, overdue,
                     cmd, pc, todo, draft, acc, saved, serving, withdrawn>>
  BY DEF ReprocessLocal
<1>2. \A s \in active : s \in Sources /\ manifest # None /\ manifest[s].active
  BY DEF ActiveOf, Inv, TypeOK
<1>3. ASSUME NEW t \in Texts
      PROVE  chunks'[t] = None \/ chunks'[t] \in active
  <2>1. Holding(t) \subseteq active /\ Holding(t) \subseteq Sources
    BY <1>2
  <2>. HIDE DEF Holding, active
  <2>. QED  BY <1>1, <2>1, FirstIn
<1>. HIDE DEF active
<1>4. chunks' \in Owners /\ OwnersIn(chunks') \subseteq active
  <2>1. chunks' = [t \in Texts |-> chunks'[t]]
    BY <1>1
  <2>. HIDE DEF Holding
  <2>. QED  BY <1>2, <1>3, <2>1 DEF Owners, OwnersIn
<1>5. TypeOK'
  <2>1. last' \in Command(Running \cup {"prepare", "reprocess", "rollback"})
    BY <1>1 DEF NoCommand, Command
  <2>. QED  BY <1>1, <1>4, <2>1 DEF Inv, TypeOK, serving
<1>6. CommandOK' /\ CollectOK' /\ RemovalOK'
  BY <1>1, Idle
<1>7. WithdrawnOK'
  BY <1>1, <1>2, <1>4 DEF Inv, WithdrawnOK, Gone, Clean, OwnersIn
<1>8. RepairOK'
  <2>1. last'.name = "reprocess"
    BY <1>1 DEF NoCommand
  <2>2. Readable(chunks')
    BY <1>4, OwnersFacts DEF Readable
  <2>. QED
    BY <1>1, <1>2, <1>4, <2>1, <2>2 DEF RepairOK, ReprocessRepairs, OwnersIn, Readable
<1>. QED  BY <1>1, <1>5, <1>6, <1>7, <1>8, SearchStays DEF Inv, serving

-----------------------------------------------------------------------------
(* rebuild, rollback *)

LEMMA StartRebuildStep ==
  ASSUME Inv, StartRebuild
  PROVE  Inv'
<1>. USE DEF StartRebuild, Start, files, serving
<1>1. TypeOK'
  BY Initials DEF Inv, TypeOK, Command, Running, Labels
<1>2. CommandOK'
  BY DEF CommandOK, Gathering, Undoing
<1>3. CollectOK'
  BY DEF CollectOK, Gathering
<1>4. RemovalOK'
  BY DEF RemovalOK, Forward, Removing
<1>5. RepairOK'
  BY Busy
<1>. QED  BY <1>1, <1>2, <1>3, <1>4, <1>5, WithdrawnStays, SearchStays DEF Inv

\* A removal that goes on after its index is rebuilt, or a rebuild that ends.
LEMMA AfterRebuildFacts ==
  ASSUME Inv, pc \in {"stage", "swap"}, AfterRebuild,
         UNCHANGED <<manifest, chunks, withdrawn>>
  PROVE  /\ CommandOK' /\ CollectOK' /\ RemovalOK'
         /\ pc' \in Labels /\ cmd' \in Command(Running)
         /\ last' \in Command(Running \cup {"prepare", "reprocess", "rollback"})
         /\ todo' \subseteq Sources /\ draft' \in [Sources -> Record] /\ acc' \in Owners
         /\ saved' \in Saved
         /\ last' = NoCommand \/ (last'.name = "rebuild" /\ pc' = "idle")
<1>0. /\ last = NoCommand /\ cmd \in Command(Running)
      /\ cmd.name \in {"rebuild", "remove", "purge", "expire"}
  BY DEF Inv, CommandOK, TypeOK
<1>1. CASE cmd.name = "rebuild"
  <2>1. Finish
    BY <1>1 DEF AfterRebuild
  <2>. QED  BY <1>1, <2>1, FinishTypes, Idle DEF Inv, Finish
<1>2. CASE cmd.name # "rebuild"
  <2>1. /\ pc' = "log" /\ UNCHANGED <<cmd, last, todo, draft, acc, saved>>
    BY <1>2 DEF AfterRebuild, Goto
  <2>2. CommandOK'
    BY <1>0, <1>2, <2>1 DEF CommandOK, Gathering, Undoing
  <2>3. CollectOK'
    BY <2>1 DEF CollectOK, Gathering
  <2>4. RemovalOK'
    BY <1>2, <2>1 DEF Inv, RemovalOK, Forward, Removing, Clean
  <2>. QED  BY <1>0, <2>1, <2>2, <2>3, <2>4 DEF Inv, TypeOK, Labels
<1>. QED  BY <1>1, <1>2

LEMMA StageStep ==
  ASSUME Inv, Stage
  PROVE  Inv'
<1>. USE DEF files, serving
<1>0. pc = "stage" /\ UNCHANGED <<files, overdue, serving, withdrawn, budget>>
  BY DEF Stage
<1>1. CASE Readable(chunks)
  <2>1. /\ acc' = chunks /\ pc' = "backup" /\ UNCHANGED <<cmd, last, todo, draft, saved>>
        /\ chunks \in Owners
    BY <1>1 DEF Stage, Goto, Readable, Inv, TypeOK
  <2>2. TypeOK'
    BY <1>0, <2>1 DEF Inv, TypeOK, Labels
  <2>3. CommandOK'
    BY <1>0, <2>1 DEF Inv, CommandOK, Gathering, Undoing
  <2>4. CollectOK'
    BY <2>1 DEF CollectOK, Gathering
  <2>5. RemovalOK'
    BY <1>0, <2>1 DEF Inv, RemovalOK, Forward, Removing, Clean
  <2>6. RepairOK'
    BY <1>0, <2>1, Busy DEF Inv, CommandOK
  <2>. QED
    BY <1>0, <2>2, <2>3, <2>4, <2>5, <2>6, WithdrawnStays, SearchStays DEF Inv
<1>2. CASE ~Readable(chunks)
  <2>1. AfterRebuild
    BY <1>2 DEF Stage
  <2>2. RepairOK'
    BY <1>0, <2>1, AfterRebuildFacts, Busy DEF RepairOK, ReprocessRepairs
  <2>3. TypeOK'
    BY <1>0, <2>1, AfterRebuildFacts DEF Inv, TypeOK
  <2>. QED
    BY <1>0, <2>1, <2>2, <2>3, AfterRebuildFacts, WithdrawnStays, SearchStays DEF Inv
<1>. QED  BY <1>1, <1>2

LEMMA BackupStep ==
  ASSUME Inv, Backup
  PROVE  Inv'
<1>. USE DEF Backup, Goto, serving
<1>1. TypeOK'
  <2>1. backups' \subseteq [name : Owners, content : Owners]
    BY DEF Inv, TypeOK
  <2>. QED  BY <2>1 DEF Inv, TypeOK, Labels
<1>2. CommandOK'
  BY DEF Inv, CommandOK, Gathering, Undoing
<1>3. CollectOK'
  BY DEF CollectOK, Gathering
<1>4. RemovalOK'
  BY DEF Inv, RemovalOK, Forward, Removing, Clean
<1>. QED
  BY <1>1, <1>2, <1>3, <1>4, WithdrawnStays, RepairStays, SearchStays DEF Inv

LEMMA SwapStep ==
  ASSUME Inv, Swap
  PROVE  Inv'
<1>. USE DEF serving
<1>0. /\ pc = "swap" /\ index' = acc /\ AfterRebuild
      /\ UNCHANGED <<manifest, raw, chunks, backups, log, sessionFile, overdue,
                     serving, withdrawn, budget>>
  BY DEF Swap
<1>1. TypeOK'
  BY <1>0, AfterRebuildFacts DEF Inv, TypeOK
<1>2. RepairOK'
  BY <1>0, AfterRebuildFacts, Busy DEF RepairOK, ReprocessRepairs
<1>. QED
  BY <1>0, <1>1, <1>2, AfterRebuildFacts, WithdrawnStays, SearchStays DEF Inv

LEMMA RollbackStep ==
  ASSUME Inv, Rollback
  PROVE  Inv'
<1>. USE DEF Rollback, serving
<1>1. TypeOK'
  <2>1. last' \in Command(Running \cup {"prepare", "reprocess", "rollback"})
    BY DEF NoCommand, Command
  <2>2. index' \in Owners
    BY DEF Inv, TypeOK
  <2>. QED  BY <2>1, <2>2 DEF Inv, TypeOK
<1>2. CommandOK' /\ CollectOK' /\ RemovalOK'
  BY Idle
<1>3. RepairOK'
  BY DEF RepairOK, ReprocessRepairs, NoCommand
<1>. QED  BY <1>1, <1>2, <1>3, WithdrawnStays, SearchStays DEF Inv

-----------------------------------------------------------------------------
(* remove, expire, purge-all *)

\* The draft of a removal leaves its documents out; the copies are of files that
\* are clean of what was withdrawn before.
LEMMA RemovalBegins ==
  ASSUME Inv, manifest # None, NEW S \in SUBSET Sources,
         pc' = "manifest", cmd'.name \in {"remove", "purge", "expire"}, cmd'.only = S,
         last' = NoCommand, cmd' \in Command(Running),
         draft' \in [Sources -> Record],
         \A s \in Sources : draft'[s].active => s \notin S /\ manifest[s].active,
         saved'.manifest = manifest, saved'.chunks = chunks, saved' \in Saved,
         UNCHANGED <<manifest, chunks, withdrawn>>
  PROVE  CommandOK' /\ CollectOK' /\ RemovalOK' /\ RepairOK'
<1>1. CommandOK'
  BY DEF CommandOK, Gathering, Undoing
<1>2. CollectOK'
  BY DEF CollectOK, Gathering
<1>3. RemovalOK'
  <2>1. \A s \in withdrawn : s \in Sources /\ ~manifest[s].active
    BY DEF Inv, TypeOK, WithdrawnOK, Gone
  <2>2. \A s \in withdrawn \cup S : ~draft'[s].active
    BY <2>1
  <2>3. Clean(chunks, withdrawn)
    BY DEF Inv, WithdrawnOK
  <2>. QED
    BY <2>1, <2>2, <2>3 DEF RemovalOK, Forward, Removing, Clean, Readable, OwnersIn
<1>4. RepairOK'
  BY Busy
<1>. QED  BY <1>1, <1>2, <1>3, <1>4

LEMMA ManifestTyped ==
  ASSUME Inv, manifest # None
  PROVE  manifest \in [Sources -> Record]
BY DEF Inv, TypeOK

LEMMA CopiesTyped ==
  ASSUME TypeOK
  PROVE  Copies \in Saved /\ Copies.manifest = manifest /\ Copies.chunks = chunks
BY DEF TypeOK, Copies, Saved

LEMMA BeginRemovalFacts ==
  ASSUME Inv, manifest # None, NEW only \in SUBSET Sources,
         NEW name \in {"remove", "purge", "expire"}, BeginRemoval(name, only), UNCHANGED files,
         UNCHANGED withdrawn
  PROVE  /\ CommandOK' /\ CollectOK' /\ RemovalOK' /\ RepairOK'
         /\ draft' \in [Sources -> Record] /\ saved' \in Saved
         /\ cmd' \in Command(Running) /\ last' = NoCommand /\ pc' = "manifest"
<1>. DEFINE S == Matching(only)
<1>1. S \subseteq Sources
  BY DEF Matching
<1>2. /\ pc' = "manifest" /\ last' = NoCommand /\ saved' = Copies
      /\ cmd' = [name |-> name, force |-> FALSE, only |-> S]
      /\ draft' = [s \in Sources |-> IF s \in S THEN [manifest[s] EXCEPT !.active = FALSE]
                                     ELSE manifest[s]]
  BY DEF BeginRemoval, Start
<1>. HIDE DEF S
<1>3. cmd' \in Command(Running) /\ cmd'.name = name /\ cmd'.only = S
  BY <1>1, <1>2 DEF Command, Running
<1>4. saved' \in Saved /\ saved'.manifest = manifest /\ saved'.chunks = chunks
  BY <1>2, CopiesTyped DEF Inv
<1>5. /\ draft' \in [Sources -> Record]
      /\ \A s \in Sources : draft'[s].active => s \notin S /\ manifest[s].active
  BY <1>2, ManifestTyped DEF Record
<1>. QED  BY <1>1, <1>2, <1>3, <1>4, <1>5, RemovalBegins DEF files

LEMMA StartRemoveStep ==
  ASSUME Inv, NEW only \in SUBSET Sources, NEW name \in {"remove", "purge"},
         StartRemove(name, only)
  PROVE  Inv'
<1>1. /\ manifest # None /\ BeginRemoval(name, only)
      /\ UNCHANGED <<files, overdue, todo, acc, serving, withdrawn>>
  BY DEF StartRemove
<1>2. /\ CommandOK' /\ CollectOK' /\ RemovalOK' /\ RepairOK'
      /\ draft' \in [Sources -> Record] /\ saved' \in Saved
      /\ cmd' \in Command(Running) /\ last' = NoCommand /\ pc' = "manifest"
  BY <1>1, BeginRemovalFacts
<1>3. TypeOK'
  BY <1>1, <1>2, Initials DEF Inv, TypeOK, files, serving, Labels, Command, Running
<1>. QED  BY <1>1, <1>2, <1>3, WithdrawnStays, SearchStays DEF Inv, files, serving

LEMMA StartPurgeStep ==
  ASSUME Inv, StartPurge
  PROVE  Inv'
<1>. USE DEF StartPurge, Start, files, serving
<1>1. TypeOK'
  BY Initials DEF Inv, TypeOK, Command, Running, Labels
<1>2. CommandOK'
  BY DEF CommandOK, Gathering, Undoing
<1>3. CollectOK'
  BY DEF CollectOK, Gathering
<1>4. RemovalOK'
  BY DEF RemovalOK, Forward, Removing
<1>5. RepairOK'
  BY Busy
<1>. QED  BY <1>1, <1>2, <1>3, <1>4, <1>5, WithdrawnStays, SearchStays DEF Inv

LEMMA StartExpireStep ==
  ASSUME Inv, StartExpire
  PROVE  Inv'
<1>. DEFINE due == Matching(Sources)
<1>1. /\ manifest # None /\ due # {} /\ BeginRemoval("expire", {First(due)})
      /\ todo' = due \ {First(due)}
      /\ UNCHANGED <<files, overdue, acc, serving, withdrawn>>
  BY DEF StartExpire
<1>2. due \subseteq Sources
  BY DEF Matching
<1>. HIDE DEF due
<1>3. {First(due)} \subseteq Sources
  BY <1>1, <1>2, FirstIn
<1>4. /\ CommandOK' /\ CollectOK' /\ RemovalOK' /\ RepairOK'
      /\ draft' \in [Sources -> Record] /\ saved' \in Saved
      /\ cmd' \in Command(Running) /\ last' = NoCommand /\ pc' = "manifest"
  BY <1>1, <1>3, BeginRemovalFacts
<1>5. TypeOK'
  BY <1>1, <1>2, <1>4, Initials DEF Inv, TypeOK, files, serving, Labels, Command, Running
<1>. QED  BY <1>1, <1>4, <1>5, WithdrawnStays, SearchStays DEF Inv, files, serving

LEMMA RemoveManifestStep ==
  ASSUME Inv, RemoveManifest
  PROVE  Inv'
<1>. USE DEF RemoveManifest, Goto, serving
<1>0. cmd.name \in {"remove", "purge", "expire"} /\ Removing
  BY DEF Inv, CommandOK, Removing
<1>1. TypeOK'
  BY DEF Inv, TypeOK, Labels
<1>2. CommandOK'
  BY DEF Inv, CommandOK, Gathering, Undoing
<1>3. /\ draft \in [Sources -> Record] /\ draft # None
      /\ \A s \in withdrawn \cup cmd.only : ~draft[s].active
  BY ValueAssumption DEF Inv, TypeOK, RemovalOK
<1>4. WithdrawnOK'
  BY <1>3 DEF Inv, WithdrawnOK, Gone, Clean
<1>5. CollectOK'
  BY DEF CollectOK, Gathering
<1>6. RemovalOK'
  BY <1>0, <1>3 DEF Inv, RemovalOK, Forward, Removing, Clean
<1>7. RepairOK'
  BY Busy DEF Inv, CommandOK
<1>. QED  BY <1>1, <1>2, <1>4, <1>5, <1>6, <1>7, SearchStays DEF Inv

LEMMA FilterChunksStep ==
  ASSUME Inv, FilterChunks
  PROVE  Inv'
<1>. USE DEF FilterChunks, Goto, serving
<1>0. /\ cmd.name \in {"remove", "purge", "expire"} /\ Removing
      /\ chunks = None \/ chunks \in Owners
  BY DEF Inv, CommandOK, Removing, TypeOK
<1>1. \/ chunks' = None
      \/ /\ chunks \in Owners /\ chunks' \in Owners
         /\ OwnersIn(chunks') \subseteq OwnersIn(chunks) \ cmd.only
  <2>1. CASE chunks = None
    BY <2>1
  <2>2. CASE chunks # None
    <3>1. chunks' = [t \in Texts |-> IF chunks[t] \in cmd.only THEN None ELSE chunks[t]]
      BY <2>2
    <3>. QED  BY <1>0, <2>2, <3>1 DEF Owners, OwnersIn
  <2>. QED  BY <2>1, <2>2
<1>2. TypeOK'
  BY <1>1 DEF Inv, TypeOK, Labels
<1>3. CommandOK'
  BY <1>0 DEF Inv, CommandOK, Gathering, Undoing
<1>4. Clean(chunks', withdrawn) /\ Clean(chunks', cmd.only)
  BY <1>1, OwnersFacts DEF Inv, WithdrawnOK, Clean, Readable
<1>5. WithdrawnOK'
  BY <1>4 DEF Inv, WithdrawnOK, Gone, Clean, Readable, OwnersIn
<1>6. CollectOK'
  BY DEF CollectOK, Gathering
<1>7. RemovalOK'
  BY <1>0, <1>4 DEF Inv, RemovalOK, Forward, Removing, Clean, Readable, OwnersIn
<1>8. RepairOK'
  BY Busy DEF Inv, CommandOK
<1>. QED  BY <1>2, <1>3, <1>5, <1>6, <1>7, <1>8, SearchStays DEF Inv

LEMMA AppendLogStep ==
  ASSUME Inv, AppendLog
  PROVE  Inv'
<1>. USE DEF AppendLog, Goto, serving
<1>0. /\ cmd.name \in {"remove", "purge", "expire"} /\ Removing /\ cmd.only \subseteq Sources
  BY DEF Inv, CommandOK, Removing, TypeOK, Command
<1>1. TypeOK'
  BY <1>0 DEF Inv, TypeOK, Labels
<1>2. CommandOK'
  BY <1>0 DEF Inv, CommandOK, Gathering, Undoing
<1>3. WithdrawnOK'
  BY <1>0 DEF Inv, WithdrawnOK, RemovalOK, Gone, Clean, Forward
<1>4. CollectOK'
  BY DEF CollectOK, Gathering
<1>5. RemovalOK'
  BY <1>0 DEF Inv, RemovalOK, Forward, Removing, Clean
<1>6. RepairOK'
  BY Busy DEF Inv, CommandOK
<1>. QED  BY <1>1, <1>2, <1>3, <1>4, <1>5, <1>6, SearchStays DEF Inv

LEMMA UnlinkSessionsStep ==
  ASSUME Inv, UnlinkSessions
  PROVE  Inv'
<1>. USE DEF serving
<1>0. /\ pc = "unlink" /\ sessionFile' = None
      /\ UNCHANGED <<manifest, raw, chunks, index, backups, log, overdue,
                     serving, withdrawn, budget>>
      /\ cmd.name \in {"remove", "purge", "expire"} /\ last = NoCommand
      /\ manifest # None /\ manifest \in [Sources -> Record]
  BY DEF UnlinkSessions, Inv, CommandOK, RemovalOK, Forward, Removing, TypeOK
<1>1. CASE /\ todo # {}
           /\ cmd' = [cmd EXCEPT !.only = {First(todo)}]
           /\ todo' = todo \ {First(todo)}
           /\ draft' = [manifest EXCEPT ![First(todo)].active = FALSE]
           /\ saved' = [Copies EXCEPT !.session = None]
           /\ pc' = "manifest"
           /\ UNCHANGED <<acc, last>>
  <2>. DEFINE s == First(todo)
  <2>1. s \in Sources
    BY <1>1, FirstIn DEF Inv, TypeOK
  <2>2. cmd' \in Command(Running) /\ cmd'.name = cmd.name /\ cmd'.only = {s}
    BY <1>1, <2>1 DEF Inv, TypeOK, Command
  <2>3. saved' \in Saved /\ saved'.manifest = manifest /\ saved'.chunks = chunks
    BY <1>1, CopiesTyped DEF Inv, Saved
  <2>. HIDE DEF s
  <2>4. /\ draft' \in [Sources -> Record]
        /\ \A d \in Sources : draft'[d].active => d \notin {s} /\ manifest[d].active
    <3>1. draft' = [manifest EXCEPT ![s].active = FALSE]
      BY <1>1 DEF s
    <3>. QED  BY <1>0, <2>1, <3>1 DEF Record
  <2>5. CommandOK' /\ CollectOK' /\ RemovalOK' /\ RepairOK'
    <3>1. {s} \in SUBSET Sources
      BY <2>1
    <3>2. pc' = "manifest" /\ last' = NoCommand /\ UNCHANGED <<manifest, chunks, withdrawn>>
      BY <1>0, <1>1
    <3>3. cmd'.name \in {"remove", "purge", "expire"}
      BY <1>0, <2>2
    <3>. QED
      BY <1>0, <2>2, <2>3, <2>4, <3>1, <3>2, <3>3, RemovalBegins
  <2>6. TypeOK'
    BY <1>0, <1>1, <2>2, <2>3, <2>4 DEF Inv, TypeOK, Labels
  <2>. QED  BY <1>0, <2>5, <2>6, WithdrawnStays, SearchStays DEF Inv
<1>2. CASE pc' = "purge" /\ cmd.name = "purge" /\ UNCHANGED <<cmd, last, todo, draft, acc, saved>>
  <2>1. TypeOK'
    BY <1>0, <1>2 DEF Inv, TypeOK, Labels
  <2>2. CommandOK'
    BY <1>0, <1>2 DEF CommandOK, Gathering, Undoing
  <2>3. CollectOK' /\ RemovalOK'
    BY <1>2 DEF CollectOK, RemovalOK, Gathering, Forward, Removing
  <2>4. RepairOK'
    BY <1>0, <1>2, Busy
  <2>. QED
    BY <1>0, <2>1, <2>2, <2>3, <2>4, WithdrawnStays, SearchStays DEF Inv
<1>3. CASE Finish
  <2>1. TypeOK'
    BY <1>0, <1>3, FinishTypes DEF Inv, TypeOK
  <2>2. CommandOK' /\ CollectOK' /\ RemovalOK'
    BY <1>3, Idle DEF Finish
  <2>3. RepairOK'
    BY <1>0, <1>3 DEF RepairOK, ReprocessRepairs, Finish
  <2>. QED
    BY <1>0, <2>1, <2>2, <2>3, WithdrawnStays, SearchStays DEF Inv
<1>. QED  BY <1>1, <1>2, <1>3 DEF UnlinkSessions, Goto

LEMMA PurgeIndexStep ==
  ASSUME Inv, PurgeIndex
  PROVE  Inv'
<1>. USE DEF PurgeIndex, serving
<1>1. TypeOK'
  BY FinishTypes DEF Inv, TypeOK
<1>2. CommandOK' /\ CollectOK' /\ RemovalOK'
  BY Idle DEF Finish
<1>3. RepairOK'
  BY DEF Inv, CommandOK, RepairOK, ReprocessRepairs, Finish
<1>. QED  BY <1>1, <1>2, <1>3, WithdrawnStays, SearchStays DEF Inv

LEMMA UndoManifestStep ==
  ASSUME Inv, UndoManifest
  PROVE  Inv'
<1>. USE DEF UndoManifest, Goto, serving
<1>0. /\ saved.manifest \in [Sources -> Record] /\ saved.manifest # None
      /\ \A s \in withdrawn \ cmd.only : ~saved.manifest[s].active
      /\ Clean(saved.chunks, withdrawn \ cmd.only)
      /\ cmd.name \in {"remove", "purge", "expire"} /\ last = NoCommand
  BY DEF Inv, TypeOK, Saved, RemovalOK, Forward, CommandOK, Undoing
<1>1. TypeOK'
  BY <1>0 DEF Inv, TypeOK, Labels
<1>2. CommandOK'
  BY <1>0 DEF CommandOK, Gathering, Undoing
<1>3. WithdrawnOK'
  BY <1>0 DEF Inv, WithdrawnOK, Gone, Clean
<1>4. CollectOK'
  BY DEF CollectOK, Gathering
<1>5. RemovalOK'
  BY <1>0 DEF RemovalOK, Forward, Removing, Clean
<1>6. RepairOK'
  BY <1>0, Busy
<1>. QED  BY <1>1, <1>2, <1>3, <1>4, <1>5, <1>6, SearchStays DEF Inv

LEMMA UndoChunksStep ==
  ASSUME Inv, UndoChunks
  PROVE  Inv'
<1>. USE DEF UndoChunks, Goto, serving
<1>0. /\ saved.chunks \in {None, Torn} \cup Owners /\ Clean(saved.chunks, withdrawn)
      /\ cmd.name \in {"remove", "purge", "expire"} /\ last = NoCommand
  BY DEF Inv, TypeOK, Saved, RemovalOK, CommandOK, Undoing
<1>1. TypeOK'
  BY <1>0 DEF Inv, TypeOK, Labels
<1>2. CommandOK'
  BY <1>0 DEF CommandOK, Gathering, Undoing
<1>3. WithdrawnOK'
  BY <1>0 DEF Inv, WithdrawnOK, Gone, Clean, Readable, OwnersIn
<1>4. CollectOK' /\ RemovalOK'
  BY DEF CollectOK, Gathering, RemovalOK, Forward, Removing
<1>5. RepairOK'
  BY <1>0, Busy
<1>. QED  BY <1>1, <1>2, <1>3, <1>4, <1>5, SearchStays DEF Inv

LEMMA UndoIndexStep ==
  ASSUME Inv, UndoIndex
  PROVE  Inv'
<1>. USE DEF UndoIndex, Goto, serving
<1>1. TypeOK'
  BY DEF Inv, TypeOK, Saved, Labels
<1>2. CommandOK'
  BY DEF Inv, CommandOK, Gathering, Undoing
<1>3. CollectOK' /\ RemovalOK'
  BY DEF CollectOK, Gathering, RemovalOK, Forward, Removing
<1>. QED  BY <1>1, <1>2, <1>3, WithdrawnStays, RepairStays, SearchStays DEF Inv

LEMMA UndoRestStep ==
  ASSUME Inv, UndoRest
  PROVE  Inv'
<1>. USE DEF UndoRest, serving
<1>1. TypeOK'
  BY Initials DEF Inv, TypeOK, Saved, Labels, Command, Running
<1>2. CommandOK' /\ CollectOK' /\ RemovalOK'
  BY Idle
<1>3. RepairOK'
  BY Busy
<1>. QED  BY <1>1, <1>2, <1>3, WithdrawnStays, SearchStays DEF Inv

-----------------------------------------------------------------------------
(* Faults, time, the server *)

LEMMA DropFacts ==
  ASSUME Drop
  PROVE  /\ CommandOK' /\ CollectOK' /\ RemovalOK' /\ RepairOK'
         /\ pc' \in Labels /\ cmd' \in Command(Running)
         /\ last' \in Command(Running \cup {"prepare", "reprocess", "rollback"})
         /\ todo' \subseteq Sources /\ draft' \in [Sources -> Record] /\ acc' \in Owners
         /\ saved' \in Saved
<1>1. last' \in Command(Running \cup {"prepare", "reprocess", "rollback"})
  BY DEF Drop, NoCommand, Command, Running
<1>. QED  BY <1>1, Idle, Busy, Initials DEF Drop, Labels

LEMMA FaultStep ==
  ASSUME Inv, Fault
  PROVE  Inv'
<1>. USE DEF files, serving
<1>0. pc # "idle" /\ last = NoCommand /\ UNCHANGED <<files, overdue, serving, withdrawn>>
  BY DEF Fault, Inv, CommandOK
<1>1. CASE Removing
  <2>1. pc' = "undo_manifest" /\ UNCHANGED <<cmd, last, todo, draft, acc, saved>>
    BY <1>1 DEF Fault, Goto
  <2>2. TypeOK'
    BY <1>0, <2>1 DEF Inv, TypeOK, Labels
  <2>3. CommandOK'
    BY <1>0, <1>1, <2>1 DEF Inv, CommandOK, Gathering, Undoing, Removing
  <2>4. CollectOK'
    BY <2>1 DEF CollectOK, Gathering
  <2>5. RemovalOK'
    BY <1>0, <1>1, <2>1 DEF Inv, RemovalOK, Forward, Removing, Clean
  <2>6. RepairOK'
    BY <1>0, <2>1, Busy
  <2>. QED
    BY <1>0, <2>2, <2>3, <2>4, <2>5, <2>6, WithdrawnStays, SearchStays DEF Inv
<1>2. CASE ~Removing
  <2>1. Drop
    BY <1>2 DEF Fault
  <2>2. TypeOK'
    BY <1>0, <2>1, DropFacts DEF Inv, TypeOK
  <2>. QED  BY <1>0, <2>1, <2>2, DropFacts, WithdrawnStays, SearchStays DEF Inv
<1>. QED  BY <1>1, <1>2

LEMMA KillStep ==
  ASSUME Inv, Kill
  PROVE  Inv'
<1>. USE DEF serving
<1>0. /\ Drop /\ chunks' \in {chunks, Torn}
      /\ UNCHANGED <<manifest, raw, index, backups, log, sessionFile, overdue,
                     serving, withdrawn>>
  BY DEF Kill
<1>1. TypeOK'
  BY <1>0, DropFacts DEF Inv, TypeOK
<1>2. WithdrawnOK'
  BY <1>0 DEF Inv, WithdrawnOK, Gone, Clean, Readable, OwnersIn
<1>. QED  BY <1>0, <1>1, <1>2, DropFacts, SearchStays DEF Inv

LEMMA DayPassesStep ==
  ASSUME Inv, DayPasses
  PROVE  Inv'
<1>. USE DEF DayPasses, files, local, serving
<1>1. TypeOK'
  BY DEF Inv, TypeOK
<1>. QED
  BY <1>1, CommandStays, WithdrawnStays, CollectStays, RemovalStays, RepairStays,
     SearchStays DEF Inv

\* The server leaves the commands and the corpus alone.
LEMMA ServerStays ==
  ASSUME Inv, UNCHANGED <<manifest, raw, chunks, local, withdrawn>>
  PROVE  CommandOK' /\ WithdrawnOK' /\ CollectOK' /\ RemovalOK' /\ RepairOK'
BY CommandStays, WithdrawnStays, CollectStays, RemovalStays, RepairStays DEF Inv, local

LEMMA ServingStep ==
  ASSUME Inv, Serving
  PROVE  Inv'
<1>1. CASE ServerStart
  <2>1. TypeOK' /\ SearchOK'
    BY <1>1 DEF ServerStart, files, local, Inv, TypeOK, SearchOK
  <2>. QED  BY <1>1, <2>1, ServerStays DEF ServerStart, files, Inv
<1>2. CASE ServerBuild
  <2>1. permitted = None
    BY <1>2 DEF ServerBuild, Inv, SearchOK
  <2>2. chunks \in Owners /\ backups' \subseteq [name : Owners, content : Owners]
    BY <1>2 DEF ServerBuild, Readable, Inv, TypeOK
  <2>3. TypeOK' /\ SearchOK'
    BY <1>2, <2>1, <2>2 DEF ServerBuild, local, Inv, TypeOK, SearchOK
  <2>. QED  BY <1>2, <2>3, ServerStays DEF ServerBuild, Inv
<1>3. CASE ServerReplace
  <2>1. TypeOK' /\ SearchOK'
    BY <1>3 DEF ServerReplace, local, Inv, TypeOK, SearchOK
  <2>. QED  BY <1>3, <2>1, ServerStays DEF ServerReplace, Inv
<1>4. CASE ServerStop
  <2>1. TypeOK' /\ SearchOK'
    BY <1>4 DEF ServerStop, files, local, Inv, TypeOK, SearchOK
  <2>. QED  BY <1>4, <2>1, ServerStays DEF ServerStop, files, Inv
<1>5. CASE AskValidate
  <2>1. TypeOK'
    BY <1>5 DEF AskValidate, files, local, Inv, TypeOK
  <2>2. loaded \in Owners /\ loaded = chunks /\ server = "up"
    BY <1>5 DEF AskValidate, Fits, Inv, TypeOK
  <2>3. OwnersIn(loaded) \subseteq Sources \ withdrawn
    BY <2>2, OwnersFacts DEF Inv, WithdrawnOK, Clean, Readable
  <2>4. SearchOK'
    BY <1>5, <2>2, <2>3 DEF AskValidate, SearchOK, OwnersIn
  <2>. QED  BY <1>5, <2>1, <2>4, ServerStays DEF AskValidate, files, Inv
<1>6. CASE AskAnswer
  <2>1. loaded \in Owners
    BY <1>6 DEF AskAnswer, Inv, SearchOK
  <2>2. PICK R \in SUBSET OwnersIn(loaded) \ {{}} :
          answer' \in R /\ quotes' = quotes \cup R /\ sessionFile' = quotes \cup R
    BY <1>6 DEF AskAnswer
  <2>3. R \subseteq Sources
    BY <2>1, <2>2, OwnersFacts
  <2>4. TypeOK' /\ SearchOK'
    BY <1>6, <2>2, <2>3 DEF AskAnswer, local, Inv, TypeOK, SearchOK
  <2>. QED  BY <1>6, <2>4, ServerStays DEF AskAnswer, Inv
<1>. QED  BY <1>1, <1>2, <1>3, <1>4, <1>5, <1>6 DEF Serving

-----------------------------------------------------------------------------
(* Theorems *)

LEMMA Initially == Init => Inv
<1>. SUFFICES ASSUME Init
              PROVE  Inv
  OBVIOUS
<1>. USE DEF Init
<1>1. TypeOK
  <2>1. last \in Command(Running \cup {"prepare", "reprocess", "rollback"})
    BY DEF NoCommand, Command, Running
  <2>. QED  BY <2>1, Initials DEF TypeOK, Labels
<1>2. CommandOK /\ CollectOK /\ RemovalOK
  BY DEF CommandOK, CollectOK, RemovalOK, Gathering, Undoing, Forward, Removing
<1>3. WithdrawnOK /\ SearchOK
  BY DEF WithdrawnOK, Gone, Clean, Readable, SearchOK
<1>4. RepairOK
  BY DEF RepairOK, ReprocessRepairs, NoCommand
<1>. QED  BY <1>1, <1>2, <1>3, <1>4 DEF Inv

LEMMA Step ==
  ASSUME Inv, [Next]_vars
  PROVE  Inv'
<1>1. CASE Prepare \/ ReprocessLocal
  BY <1>1, PrepareStep, ReprocessLocalStep
<1>2. CASE Collecting
  <2>1. ASSUME NEW force \in BOOLEAN, NEW only \in {Sources} \cup {{s} : s \in Sources},
               StartCollect(force, only)
        PROVE  Inv'
    BY <2>1, StartCollectStep
  <2>. QED
    BY <1>2, <2>1, CollectReusedStep, CollectFetchedStep, CollectFailedStep,
       CollectManifestStep, CollectChunksStep DEF Collecting
<1>3. CASE Taking
  <2>1. ASSUME NEW only \in {Sources} \cup {{s} : s \in Sources}, StartRemove("remove", only)
        PROVE  Inv'
    BY <2>1, StartRemoveStep
  <2>2. CASE StartRemove("purge", Sources)
    BY <2>2, StartRemoveStep
  <2>. QED
    BY <1>3, <2>1, <2>2, StartPurgeStep, StartExpireStep, RemoveManifestStep,
       FilterChunksStep, AppendLogStep, UnlinkSessionsStep, PurgeIndexStep,
       UndoManifestStep, UndoChunksStep, UndoIndexStep, UndoRestStep DEF Taking
<1>4. CASE Rebuilding \/ Rollback
  BY <1>4, StartRebuildStep, StageStep, BackupStep, SwapStep, RollbackStep DEF Rebuilding
<1>5. CASE Serving
  BY <1>5, ServingStep
<1>6. CASE Fault \/ Kill \/ DayPasses
  BY <1>6, FaultStep, KillStep, DayPassesStep
<1>7. CASE UNCHANGED vars
  <2>. USE <1>7 DEF vars, files, local, serving
  <2>1. TypeOK'
    BY DEF Inv, TypeOK
  <2>. QED  BY <2>1, ServerStays, SearchStays DEF Inv
<1>. QED  BY <1>1, <1>2, <1>3, <1>4, <1>5, <1>6, <1>7 DEF Next

\* The invariant holds in every reachable state.
THEOREM Invariance == Spec => []Inv
<1>1. Init => Inv
  BY Initially
<1>2. Inv /\ [Next]_vars => Inv'
  BY Step
<1>. QED  BY <1>1, <1>2, PTL DEF Spec

\* Every file, local and history variable has its type.
THEOREM TypeCorrect == Spec => []TypeOK
<1>1. Inv => TypeOK
  BY DEF Inv
<1>. QED  BY <1>1, Invariance, PTL

\* The chunks file holds no passage of a document that a completed removal has
\* taken out.
THEOREM RemovalsLast == Spec => []WithdrawnLeftChunks
<1>1. Inv => WithdrawnLeftChunks
  BY DEF Inv, WithdrawnOK, Clean, WithdrawnLeftChunks
<1>. QED  BY <1>1, Invariance, PTL

\* A collection that ends normally repairs what a killed one left.
THEOREM CollectionsRepair == Spec => []CollectRepairs
<1>1. Inv => CollectRepairs
  BY OwnersFacts DEF Inv, RepairOK, Gathered, CollectRepairs, Readable
<1>. QED  BY <1>1, Invariance, PTL

\* Reprocessing leaves passages of active documents only.
THEOREM ReprocessingRepairs == Spec => []ReprocessRepairs
<1>1. Inv => ReprocessRepairs
  BY DEF Inv, RepairOK
<1>. QED  BY <1>1, Invariance, PTL

\* Every step is, for the history variables, one of Withdrawals.
LEMMA StepImplements ==
  ASSUME Inv, Inv', [Next]_vars
  PROVE  [Promise!Next]_(Promise!vars)
<1>. USE DEF Promise!Next, Promise!vars
<1>1. CASE AskValidate
  BY <1>1 DEF AskValidate, Promise!BeginSearch
<1>2. CASE AskAnswer
  <2>1. answer' \in permitted
    BY <1>2 DEF AskAnswer, Inv, SearchOK
  <2>. QED  BY <1>2, <2>1 DEF AskAnswer, Promise!Answer
<1>3. CASE ServerStart \/ ServerStop
  BY <1>3 DEF ServerStart, ServerStop, Promise!Abandon
<1>4. CASE ServerBuild \/ ServerReplace
  BY <1>4 DEF ServerBuild, ServerReplace
<1>5. ASSUME UNCHANGED serving
      PROVE  [Promise!Next]_(Promise!vars)
  <2>1. withdrawn' \in SUBSET Sources
    BY DEF Inv, TypeOK
  <2>. QED  BY <1>5, <2>1 DEF serving, Promise!Revise
<1>6. CASE Prepare \/ Collecting \/ ReprocessLocal
  <2>1. UNCHANGED serving
    BY <1>6 DEF Prepare, Collecting, StartCollect, CollectReused, CollectFetched,
                CollectFailed, CollectManifest, CollectChunks, ReprocessLocal
  <2>. QED  BY <1>5, <2>1
<1>7. CASE Rebuilding \/ Rollback
  <2>1. UNCHANGED serving
    BY <1>7 DEF Rebuilding, StartRebuild, Stage, Backup, Swap, Rollback
  <2>. QED  BY <1>5, <2>1
<1>8. CASE Taking
  <2>1. UNCHANGED serving
    BY <1>8 DEF Taking, StartRemove, StartPurge, StartExpire, RemoveManifest,
                FilterChunks, AppendLog, UnlinkSessions, PurgeIndex, UndoManifest,
                UndoChunks, UndoIndex, UndoRest
  <2>. QED  BY <1>5, <2>1
<1>9. CASE Fault \/ Kill \/ DayPasses \/ UNCHANGED vars
  <2>1. UNCHANGED serving
    BY <1>9 DEF Fault, Kill, DayPasses, vars
  <2>. QED  BY <1>5, <2>1
<1>. QED
  BY <1>1, <1>2, <1>3, <1>4, <1>6, <1>7, <1>8, <1>9 DEF Next, Serving

\* The provisional corpus keeps the promise of Withdrawals: no answer uses a
\* document withdrawn before its search began.
THEOREM SearchesKeepPromise == Spec => ImplementsWithdrawals
<1>1. Init => Promise!Init
  BY DEF Init, Promise!Init
<1>2. Inv /\ Inv' /\ [Next]_vars => [Promise!Next]_(Promise!vars)
  BY StepImplements
<1>. QED
  BY <1>1, <1>2, Invariance, PTL DEF Spec, ImplementsWithdrawals, Promise!Spec
=============================================================================

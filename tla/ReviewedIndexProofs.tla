------------------------ MODULE ReviewedIndexProofs ------------------------
(***************************************************************************)
(* Proofs about ReviewedIndex: types, the three invariants of the reviewed *)
(* corpus, and that its searches implement Withdrawals.                    *)
(*                                                                         *)
(* The argument: every index that exists, wherever it is kept, holds no    *)
(* document outside the snapshot it names; a search begins only while that *)
(* snapshot is the manifest's; and the manifest lists what is not          *)
(* withdrawn.  Drafts of running commands satisfy what their files will.   *)
(***************************************************************************)
EXTENDS ReviewedIndex, TLAPS

HistoryOK ==
    /\ approved \in [Documents -> SUBSET Texts]
    /\ listed \subseteq Documents /\ withdrawn \subseteq Documents
    /\ killed \in BOOLEAN

\* An index holds no document that its snapshot does not.
Rests(i) == i \in Built /\ In(i.content) \subseteq In(i.snapshot)

\* A manifest lists what it indexes and remembers what it has lost.
Coherent(m) ==
    /\ m \in Record
    /\ m.documents = m.snapshot
    /\ m.tombstones \cap In(m.documents) = {}
    /\ listed \ In(m.documents) \subseteq m.tombstones

StatusAfter(name) == CASE name = "process" -> "metadata_added"
                       [] name = "approve" -> "reviewed"
                       [] name = "reject" -> "rejected"

\* What each step finds in the locals of its command.
CommandOK ==
    /\ pc \in {"idle", "processed", "registry", "audit", "chunks", "manifest",
               "backup", "swap"}
    /\ pc = "processed" => cmd.name = "process" /\ cmd.draft.text \in Texts
    /\ pc \in {"processed", "registry"} =>
         /\ cmd.name \in {"process", "approve", "reject"} /\ cmd.doc \in Documents
         /\ cmd.draft.entry \in Entry /\ cmd.draft.entry.status = StatusAfter(cmd.name)
         /\ registry \in [Documents -> Entry \cup {None}]
    /\ pc = "audit" => cmd.name \in {"approve", "reject"} /\ cmd.doc \in Documents
    /\ pc \in {"chunks", "manifest"} => Coherent(cmd.draft)
    /\ pc \in {"backup", "swap"} => Rests(cmd.draft) /\ index # Torn

IndexOK ==
    /\ index \in Built => Rests(index)
    /\ server \in Built => Rests(server)
    /\ \A b \in backups : b.index \in Built => Rests(b.index)

ManifestOK ==
    /\ manifest = None => listed = {}
    /\ manifest \notin {None, Torn} =>
         Coherent(manifest) /\ withdrawn = Documents \ In(manifest.documents)

\* While nothing was killed, what is reviewed was approved as it stands, unless
\* a process command is between its two files.
Examined(d) ==
    /\ registry[d] # None /\ registry[d].status = "reviewed" /\ processed[d] \in Texts
    /\ ~(pc = "registry" /\ cmd.name = "process" /\ cmd.doc = d)

Approved(c) == \A d \in In(c) : c[d] \in approved[d]

ReviewOK ==
    ~killed =>
      /\ registry \in [Documents -> Entry \cup {None}]
      /\ \A d \in Documents : Examined(d) => processed[d] \in approved[d]
      /\ chunks # None => chunks \in Content /\ Approved(chunks)
      /\ pc \in {"chunks", "manifest"} => Approved(cmd.draft.snapshot)

SearchOK == permitted # None => server # None /\ In(server.content) \subseteq permitted

Inv == /\ TypeOK /\ HistoryOK /\ CommandOK
       /\ IndexOK /\ ManifestOK /\ ReviewOK /\ SearchOK

-----------------------------------------------------------------------------
(* Data *)

LEMMA Contents ==
  ASSUME NEW c \in Content
  PROVE  In(c) \subseteq Documents /\ \A d \in In(c) : c[d] \in Texts
BY DEF Content, In

LEMMA EmptyContent == Empty \in Content /\ In(Empty) = {}
BY DEF Empty, Content, In

\* Reading equal passages once takes documents out and adds none.
LEMMA FirstOnlyFacts ==
  ASSUME NEW c \in Content
  PROVE  FirstOnly(c) \in Content /\ In(FirstOnly(c)) \subseteq In(c)
BY DEF FirstOnly, Content, In

LEMMA LoadedFacts ==
  ASSUME TypeOK, registry \in [Documents -> Entry \cup {None}]
  PROVE  /\ Loaded \in Content
         /\ \A d \in In(Loaded) : Eligible(d) /\ Loaded[d] = processed[d]
<1>1. \A d \in Documents : Eligible(d) => processed[d] \in Texts
  BY DEF Eligible
<1>2. Loaded \in Content
  BY <1>1 DEF Loaded, Content
<1>3. \A d \in In(Loaded) : Eligible(d) /\ Loaded[d] = processed[d]
  BY DEF Loaded, In
<1>. QED  BY <1>2, <1>3

\* The record of a prepare: nothing that it indexes is tombstoned, and every
\* document that was ever listed is indexed or tombstoned.
LEMMA DraftCoherent ==
  ASSUME Inv, manifest # Torn, NEW c \in Content
  PROVE  Coherent([documents |-> c, snapshot |-> c,
                   tombstones |-> Tombstones(Previous, c)])
<1>1. Previous \in Record /\ listed \ In(Previous.documents) \subseteq Previous.tombstones
  <2>1. CASE manifest = None
    BY <2>1, EmptyContent DEF Inv, ManifestOK, Previous, Record
  <2>2. CASE manifest # None
    BY <2>2 DEF Inv, ManifestOK, Previous, Coherent
  <2>. QED  BY <2>1, <2>2
<1>2. Tombstones(Previous, c) \subseteq Documents
  <2>1. Previous.tombstones \subseteq Documents /\ Previous.documents \in Content
    BY <1>1 DEF Record
  <2>. QED  BY <2>1, Contents DEF Tombstones
<1>3. Tombstones(Previous, c) \cap In(c) = {}
  BY DEF Tombstones
<1>4. listed \ In(c) \subseteq Tombstones(Previous, c)
  BY <1>1 DEF Tombstones
<1>. QED  BY <1>2, <1>3, <1>4 DEF Coherent, Record

\* What a build reads when the reader raises no error.
LEMMA ReadFacts ==
  ASSUME Inv, ~ReaderRaises, None \notin {chunks, manifest}
  PROVE  /\ chunks \in Content /\ Coherent(manifest) /\ chunks = manifest.snapshot
         /\ ReadChunks = FirstOnly(chunks) /\ ReadSnapshot = chunks
         /\ withdrawn = Documents \ In(chunks)
<1>1. Torn \notin {chunks, manifest} /\ chunks = manifest.snapshot
  BY DEF ReaderRaises
<1>2. Coherent(manifest) /\ withdrawn = Documents \ In(manifest.documents)
  BY <1>1 DEF Inv, ManifestOK
<1>3. chunks \in Content
  BY <1>1 DEF Inv, TypeOK
<1>. QED  BY <1>1, <1>2, <1>3 DEF ReadChunks, ReadSnapshot, Coherent

LEMMA DraftRests ==
  ASSUME Inv, ~ReaderRaises, ReadChunks # Empty, index # Torn
  PROVE  Rests([content |-> ReadChunks, vectors |-> VectorsOf(index, ReadChunks),
                snapshot |-> ReadSnapshot])
<1>1. None \notin {chunks, manifest}
  BY DEF ReadChunks
<1>2. chunks \in Content /\ ReadChunks = FirstOnly(chunks) /\ ReadSnapshot = chunks
  BY <1>1, ReadFacts
<1>3. ReadChunks \in Content /\ In(ReadChunks) \subseteq In(chunks)
  BY <1>2, FirstOnlyFacts
<1>4. index = None \/ index.vectors \in Content
  BY DEF Inv, TypeOK, Built
<1>5. VectorsOf(index, ReadChunks) \in Content
  BY <1>3, <1>4 DEF VectorsOf, SameVector, Content
<1>. QED  BY <1>2, <1>3, <1>5 DEF Rests, Built

\* An index that is searched holds nothing withdrawn.
LEMMA SearchedIndex ==
  ASSUME Inv, server # None, Fits(server)
  PROVE  In(server.content) \subseteq Documents \ withdrawn
<1>1. Rests(server)
  BY DEF Inv, TypeOK, IndexOK
<1>2. server.snapshot # None
  BY <1>1, ValueAssumption DEF Rests, Built
<1>3. None \notin {chunks, manifest}
  BY <1>2 DEF Fits, ReadSnapshot
<1>4. chunks \in Content /\ ReadSnapshot = chunks /\ withdrawn = Documents \ In(chunks)
  BY <1>3, ReadFacts DEF Fits
<1>5. In(server.content) \subseteq In(chunks)
  BY <1>1, <1>4 DEF Fits, Rests
<1>. QED  BY <1>4, <1>5, Contents

-----------------------------------------------------------------------------
(* Steps *)

\* A step that leaves the variables of a part of Inv alone keeps that part.
LEMMA HistoryStays ==
  ASSUME HistoryOK, UNCHANGED <<approved, listed, withdrawn, killed>>
  PROVE  HistoryOK'
BY DEF HistoryOK

LEMMA CommandStays ==
  ASSUME CommandOK, UNCHANGED <<pc, cmd, registry, index, listed>>
  PROVE  CommandOK'
BY DEF CommandOK, Coherent, Rests

LEMMA IndexStays ==
  ASSUME IndexOK, UNCHANGED <<index, server, backups>>
  PROVE  IndexOK'
BY DEF IndexOK, Rests

LEMMA ManifestStays ==
  ASSUME ManifestOK, UNCHANGED <<manifest, listed, withdrawn>>
  PROVE  ManifestOK'
BY DEF ManifestOK, Coherent

LEMMA ReviewStays ==
  ASSUME ReviewOK, UNCHANGED <<registry, processed, chunks, approved, killed, pc, cmd>>
  PROVE  ReviewOK'
BY DEF ReviewOK, Examined, Approved

LEMMA SearchStays ==
  ASSUME SearchOK, UNCHANGED <<server, permitted>>
  PROVE  SearchOK'
BY DEF SearchOK

LEMMA StartProcessStep ==
  ASSUME Inv, NEW d \in Documents, StartProcess(d)
  PROVE  Inv'
<1>. USE DEF StartProcess, Start, Known, ready, store, serving
<1>1. TypeOK'
  BY DEF Inv, TypeOK
<1>2. CommandOK'
  BY DEF Inv, TypeOK, CommandOK, Demoted, Entry, StatusAfter, Statuses
<1>3. ReviewOK'
  BY DEF Inv, ReviewOK, Examined, Approved
<1>. QED
  BY <1>1, <1>2, <1>3, HistoryStays, IndexStays, ManifestStays, SearchStays DEF Inv

LEMMA WriteProcessedStep ==
  ASSUME Inv, WriteProcessed
  PROVE  Inv'
<1>. USE DEF WriteProcessed, ready, store, serving
<1>1. TypeOK'
  BY DEF Inv, TypeOK, CommandOK
<1>2. CommandOK'
  BY DEF Inv, CommandOK
<1>3. ReviewOK'
  BY DEF Inv, TypeOK, CommandOK, ReviewOK, Examined, Approved
<1>. QED
  BY <1>1, <1>2, <1>3, HistoryStays, IndexStays, ManifestStays, SearchStays DEF Inv

LEMMA StartApproveStep ==
  ASSUME Inv, NEW d \in Documents, StartApprove(d)
  PROVE  Inv'
<1>. USE DEF StartApprove, Start, Known, ready, store, serving
<1>1. TypeOK'
  BY DEF Inv, TypeOK
<1>2. CommandOK'
  BY DEF Inv, TypeOK, CommandOK, Entry, StatusAfter, Statuses
<1>3. ReviewOK'
  BY DEF Inv, ReviewOK, Examined, Approved
<1>. QED
  BY <1>1, <1>2, <1>3, HistoryStays, IndexStays, ManifestStays, SearchStays DEF Inv

LEMMA StartRejectStep ==
  ASSUME Inv, NEW d \in Documents, StartReject(d)
  PROVE  Inv'
<1>. USE DEF StartReject, Start, Known, ready, store, serving
<1>1. TypeOK'
  BY DEF Inv, TypeOK
<1>2. CommandOK'
  BY DEF Inv, TypeOK, CommandOK, Entry, StatusAfter, Statuses
<1>3. ReviewOK'
  BY DEF Inv, ReviewOK, Examined, Approved
<1>. QED
  BY <1>1, <1>2, <1>3, HistoryStays, IndexStays, ManifestStays, SearchStays DEF Inv

LEMMA UpdateRegistryStep ==
  ASSUME Inv, UpdateRegistry
  PROVE  Inv'
<1>. USE DEF UpdateRegistry, Finish, NoCommand, ready, store, serving
<1>0. /\ cmd.doc \in Documents /\ cmd.draft.entry \in Entry
      /\ registry \in [Documents -> Entry \cup {None}]
      /\ cmd.name \in {"process", "approve", "reject"}
  BY DEF Inv, CommandOK
<1>1. TypeOK'
  BY <1>0 DEF Inv, TypeOK
<1>2. HistoryOK'
  BY <1>0 DEF Inv, HistoryOK
<1>3. CommandOK'
  BY <1>0 DEF Inv, CommandOK
<1>4. ReviewOK'
  <2>1. approved'[cmd.doc] \in SUBSET Texts /\ \A d \in Documents : approved[d] \subseteq approved'[d]
    BY <1>0 DEF Inv, HistoryOK
  <2>2. ASSUME ReviewOK, NEW d \in Documents, Examined(d)', ~killed
        PROVE  processed[d] \in approved'[d]
    <3>1. CASE d # cmd.doc
      BY <1>0, <2>1, <2>2, <3>1 DEF ReviewOK, Examined
    <3>2. CASE d = cmd.doc
      <4>1. cmd.name = "approve"
        BY <1>0, <2>2, <3>2 DEF Inv, CommandOK, StatusAfter, Examined
      <4>. QED  BY <1>0, <4>1, <3>2, <2>2 DEF Inv, HistoryOK, Examined
    <3>. QED  BY <3>1, <3>2
  <2>3. ASSUME NEW c \in Content, Approved(c)
        PROVE  Approved(c)'
    BY <2>1, <2>3, Contents DEF Approved, In
  <2>. QED  BY <1>0, <2>2, <2>3 DEF Inv, ReviewOK
<1>. QED
  BY <1>1, <1>2, <1>3, <1>4, IndexStays, ManifestStays, SearchStays DEF Inv

LEMMA WriteAuditStep ==
  ASSUME Inv, WriteAudit
  PROVE  Inv'
<1>. USE DEF WriteAudit, LoggedAction, Finish, NoCommand, ready, store, serving
<1>1. TypeOK'
  BY DEF Inv, TypeOK, CommandOK
<1>2. CommandOK'
  BY DEF Inv, CommandOK
<1>3. ReviewOK'
  BY DEF Inv, ReviewOK, Examined, Approved
<1>. QED
  BY <1>1, <1>2, <1>3, HistoryStays, IndexStays, ManifestStays, SearchStays DEF Inv

LEMMA RegisterStep ==
  ASSUME Inv, NEW d \in Documents, NEW t \in Terms, Register(d, t)
  PROVE  Inv'
<1>. USE DEF Register, ready, store, serving, local
<1>0. [status |-> "draft", terms |-> t] \in Entry
  BY DEF Entry, Statuses
<1>1. TypeOK'
  BY <1>0 DEF Inv, TypeOK
<1>2. CommandOK'
  BY <1>0 DEF Inv, CommandOK
<1>3. ReviewOK'
  BY <1>0 DEF Inv, ReviewOK, Examined, Approved
<1>. QED
  BY <1>1, <1>2, <1>3, HistoryStays, IndexStays, ManifestStays, SearchStays DEF Inv

LEMMA StartPrepareStep ==
  ASSUME Inv, StartPrepare
  PROVE  Inv'
<1>. USE DEF StartPrepare, Start, ready, store, serving
<1>0. registry \in [Documents -> Entry \cup {None}]
  BY DEF Inv, TypeOK
<1>1. /\ Loaded \in Content
      /\ \A d \in In(Loaded) : Eligible(d) /\ Loaded[d] = processed[d]
  BY <1>0, LoadedFacts DEF Inv
<1>2. TypeOK'
  BY DEF Inv, TypeOK
<1>3. CommandOK'
  <2>. DEFINE draft == [documents |-> Loaded, snapshot |-> Loaded,
                        tombstones |-> Tombstones(Previous, Loaded)]
  <2>1. Coherent(draft) /\ cmd'.draft = draft
    BY <1>1, DraftCoherent
  <2>2. Coherent(cmd.draft)'
    BY <2>1 DEF Coherent
  <2>. QED  BY <2>2 DEF CommandOK
<1>4. ReviewOK'
  <2>1. ASSUME ~killed
        PROVE  Approved(Loaded)
    BY <1>1, <2>1, Contents DEF Inv, ReviewOK, Examined, Eligible, Approved
  <2>. QED  BY <2>1 DEF Inv, ReviewOK, Examined, Approved
<1>. QED
  BY <1>2, <1>3, <1>4, HistoryStays, IndexStays, ManifestStays, SearchStays DEF Inv

LEMMA WriteChunksStep ==
  ASSUME Inv, WriteChunks
  PROVE  Inv'
<1>. USE DEF WriteChunks, store, serving
<1>0. cmd.draft.snapshot \in Content
  BY DEF Inv, CommandOK, Coherent, Record
<1>1. TypeOK'
  BY <1>0 DEF Inv, TypeOK
<1>2. CommandOK'
  BY DEF Inv, CommandOK, Coherent
<1>3. ReviewOK'
  BY <1>0 DEF Inv, ReviewOK, Examined, Approved
<1>. QED
  BY <1>1, <1>2, <1>3, HistoryStays, IndexStays, ManifestStays, SearchStays DEF Inv

LEMMA WriteManifestStep ==
  ASSUME Inv, WriteManifest
  PROVE  Inv'
<1>. USE DEF WriteManifest, Finish, NoCommand, store, serving
<1>0. Coherent(cmd.draft)
  BY DEF Inv, CommandOK
<1>1. TypeOK'
  BY <1>0 DEF Inv, TypeOK, Coherent
<1>2. HistoryOK'
  BY <1>0, Contents DEF Inv, HistoryOK, Coherent, Record
<1>3. CommandOK'
  BY DEF Inv, CommandOK
<1>4. ManifestOK'
  <2>1. Coherent(manifest)'
    BY <1>0 DEF Coherent
  <2>. QED  BY <1>0, <2>1, ValueAssumption DEF ManifestOK, Coherent
<1>5. ReviewOK'
  BY DEF Inv, ReviewOK, Examined, Approved
<1>. QED
  BY <1>1, <1>2, <1>3, <1>4, <1>5, IndexStays, SearchStays DEF Inv

LEMMA StartBuildStep ==
  ASSUME Inv, StartBuild
  PROVE  Inv'
<1>. USE DEF StartBuild, Start, ready, store, serving
<1>1. TypeOK'
  BY DEF Inv, TypeOK
<1>2. CommandOK'
  <2>1. Rests(cmd'.draft)
    BY DraftRests
  <2>. QED  BY <2>1 DEF CommandOK, Rests
<1>3. ReviewOK'
  BY DEF Inv, ReviewOK, Examined, Approved
<1>. QED
  BY <1>1, <1>2, <1>3, HistoryStays, IndexStays, ManifestStays, SearchStays DEF Inv

LEMMA BackupFacts ==
  ASSUME Inv, pc = "backup", NEW i \in {index, Torn}
  PROVE  /\ WithBackup(i) \subseteq [name : Content, index : Built \cup {Torn}]
         /\ \A b \in WithBackup(i) : b.index \in Built => Rests(b.index)
<1>1. index # Torn
  BY DEF Inv, CommandOK
<1>2. index = None \/ (index \in Built /\ Rests(index))
  BY <1>1 DEF Inv, TypeOK, IndexOK
<1>. QED  BY <1>1, <1>2, ValueAssumption DEF WithBackup, BackupName, Inv, TypeOK, IndexOK, Built

LEMMA BackupStep ==
  ASSUME Inv, Backup
  PROVE  Inv'
<1>. USE DEF Backup, ready, serving
<1>0. /\ backups' \subseteq [name : Content, index : Built \cup {Torn}]
      /\ \A b \in backups' : b.index \in Built => Rests(b.index)
  BY BackupFacts
<1>1. TypeOK'
  BY <1>0 DEF Inv, TypeOK
<1>2. CommandOK'
  BY DEF Inv, CommandOK, Rests
<1>3. IndexOK'
  BY <1>0 DEF Inv, IndexOK, Rests
<1>4. ReviewOK'
  BY DEF Inv, ReviewOK, Examined, Approved
<1>. QED
  BY <1>1, <1>2, <1>3, <1>4, HistoryStays, ManifestStays, SearchStays DEF Inv

LEMMA SwapStep ==
  ASSUME Inv, Swap
  PROVE  Inv'
<1>. USE DEF Swap, Finish, NoCommand, ready, serving
<1>0. Rests(cmd.draft)
  BY DEF Inv, CommandOK
<1>1. TypeOK'
  BY <1>0 DEF Inv, TypeOK, Rests
<1>2. CommandOK'
  BY DEF Inv, CommandOK
<1>3. IndexOK'
  BY <1>0 DEF Inv, IndexOK, Rests
<1>4. ReviewOK'
  BY DEF Inv, ReviewOK, Examined, Approved
<1>. QED
  BY <1>1, <1>2, <1>3, <1>4, HistoryStays, ManifestStays, SearchStays DEF Inv

LEMMA RollbackStep ==
  ASSUME Inv, NEW b \in backups, Rollback(b)
  PROVE  Inv'
<1>. USE DEF Rollback, ready, serving, local
<1>0. b.index \in Built \cup {Torn} /\ (b.index \in Built => Rests(b.index))
  BY DEF Inv, TypeOK, IndexOK
<1>1. TypeOK'
  BY <1>0 DEF Inv, TypeOK
<1>2. CommandOK'
  BY DEF Inv, CommandOK
<1>3. IndexOK'
  BY <1>0 DEF Inv, IndexOK, Rests
<1>. QED
  BY <1>1, <1>2, <1>3, HistoryStays, ManifestStays, ReviewStays, SearchStays DEF Inv

\* A kill leaves each file as it was, empty or cut; what was read before is not
\* touched, and a cut file is no record.
LEMMA KillStep ==
  ASSUME Inv, Kill
  PROVE  Inv'
<1>. USE DEF Kill, Finish, NoCommand, serving
<1>1. TypeOK'
  <2>1. processed' \in [Documents -> Texts \cup {None, Torn}]
    BY DEF Inv, TypeOK, CommandOK
  <2>2. registry' = Torn \/ registry' \in [Documents -> Entry \cup {None}]
    BY DEF Inv, TypeOK
  <2>3. chunks' \in {None, Torn} \cup Content
    BY EmptyContent DEF Inv, TypeOK
  <2>4. backups' \subseteq [name : Content, index : Built \cup {Torn}]
    <3>1. CASE pc = "backup"
      BY <3>1, BackupFacts DEF Inv, TypeOK
    <3>2. CASE pc # "backup"
      BY <3>2 DEF Inv, TypeOK
    <3>. QED  BY <3>1, <3>2
  <2>. QED  BY <2>1, <2>2, <2>3, <2>4 DEF Inv, TypeOK
<1>2. HistoryOK'
  BY DEF Inv, HistoryOK
<1>3. CommandOK'
  BY DEF CommandOK
<1>4. IndexOK'
  <2>1. \A b \in backups' : b.index \in Built => Rests(b.index)
    <3>1. CASE pc = "backup"
      BY <3>1, BackupFacts DEF Inv, IndexOK
    <3>2. CASE pc # "backup"
      BY <3>2 DEF Inv, IndexOK
    <3>. QED  BY <3>1, <3>2
  <2>. QED  BY <2>1 DEF Inv, IndexOK, Rests
<1>5. ManifestOK'
  BY ValueAssumption DEF Inv, ManifestOK, Coherent
<1>6. ReviewOK'
  BY DEF ReviewOK
<1>. QED
  BY <1>1, <1>2, <1>3, <1>4, <1>5, <1>6, SearchStays DEF Inv

LEMMA EditSourceStep ==
  ASSUME Inv, NEW d \in Documents, EditSource(d)
  PROVE  Inv'
<1>. USE DEF EditSource, ready, store, serving, local
<1>1. TypeOK'
  BY DEF Inv, TypeOK
<1>. QED
  BY <1>1, HistoryStays, CommandStays, IndexStays, ManifestStays, ReviewStays,
     SearchStays DEF Inv

LEMMA EditTermsStep ==
  ASSUME Inv, NEW d \in Documents, EditTerms(d)
  PROVE  Inv'
<1>. USE DEF EditTerms, Known, ready, store, serving, local
<1>0. /\ registry \in [Documents -> Entry \cup {None}] /\ registry[d] \in Entry
      /\ registry' \in [Documents -> Entry \cup {None}]
      /\ \A e \in Documents : registry'[e] # None =>
           registry[e] # None /\ registry'[e].status = registry[e].status
  BY DEF Inv, TypeOK, Entry
<1>1. TypeOK'
  BY <1>0 DEF Inv, TypeOK
<1>2. CommandOK'
  BY DEF Inv, CommandOK
<1>3. ReviewOK'
  BY <1>0 DEF Inv, ReviewOK, Examined, Approved
<1>. QED
  BY <1>1, <1>2, <1>3, HistoryStays, IndexStays, ManifestStays, SearchStays DEF Inv

LEMMA ServingStep ==
  ASSUME Inv, Serving
  PROVE  Inv'
<1>. USE DEF ready, store, local
<1>1. CASE ServerStart
  <2>1. index \in Built /\ Rests(index)
    BY <1>1 DEF ServerStart, Fits, Inv, TypeOK, IndexOK
  <2>2. TypeOK' /\ IndexOK'
    BY <1>1, <2>1 DEF ServerStart, Inv, TypeOK, IndexOK, Rests
  <2>3. SearchOK'
    BY <1>1 DEF ServerStart, Inv, SearchOK
  <2>. QED
    BY <1>1, <2>2, <2>3, HistoryStays, CommandStays, ManifestStays, ReviewStays
    DEF ServerStart, Inv
<1>2. CASE ServerStop
  <2>1. TypeOK' /\ IndexOK' /\ SearchOK'
    BY <1>2, ValueAssumption DEF ServerStop, Inv, TypeOK, IndexOK, Rests, SearchOK
  <2>. QED
    BY <1>2, <2>1, HistoryStays, CommandStays, ManifestStays, ReviewStays
    DEF ServerStop, Inv
<1>3. CASE AskValidate
  <2>1. TypeOK'
    BY <1>3 DEF AskValidate, Inv, TypeOK
  <2>2. server # None
    BY <1>3 DEF AskValidate, Fits
  <2>3. SearchOK'
    BY <1>3, <2>2, SearchedIndex DEF AskValidate, SearchOK, In
  <2>. QED
    BY <1>3, <2>1, <2>3, HistoryStays, CommandStays, IndexStays, ManifestStays, ReviewStays
    DEF AskValidate, Inv
<1>4. CASE AskAnswer
  <2>1. TypeOK' /\ SearchOK'
    BY <1>4 DEF AskAnswer, Inv, TypeOK, SearchOK, In
  <2>. QED
    BY <1>4, <2>1, HistoryStays, CommandStays, IndexStays, ManifestStays, ReviewStays
    DEF AskAnswer, Inv
<1>. QED  BY <1>1, <1>2, <1>3, <1>4 DEF Serving

-----------------------------------------------------------------------------
(* Theorems *)

LEMMA Initially == Init => Inv
<1>. SUFFICES ASSUME Init
              PROVE  Inv
  OBVIOUS
<1>. USE DEF Init
<1>1. TypeOK
  BY DEF TypeOK, Entry, Statuses, Terms
<1>2. HistoryOK
  BY DEF HistoryOK
<1>3. CommandOK
  BY DEF CommandOK
<1>4. IndexOK
  BY ValueAssumption DEF IndexOK, Rests
<1>5. ManifestOK /\ SearchOK
  BY DEF ManifestOK, SearchOK
<1>6. ReviewOK
  <2>1. registry \in [Documents -> Entry \cup {None}]
    BY DEF Entry, Statuses, Terms
  <2>. QED  BY <2>1 DEF ReviewOK, Examined
<1>. QED  BY <1>1, <1>2, <1>3, <1>4, <1>5, <1>6 DEF Inv

LEMMA Step ==
  ASSUME Inv, [Next]_vars
  PROVE  Inv'
<1>1. CASE Reviewing
  BY <1>1, StartProcessStep, StartApproveStep, StartRejectStep, RegisterStep,
     WriteProcessedStep, UpdateRegistryStep, WriteAuditStep DEF Reviewing
<1>2. CASE Preparing
  BY <1>2, StartPrepareStep, WriteChunksStep, WriteManifestStep DEF Preparing
<1>3. CASE Building
  BY <1>3, StartBuildStep, BackupStep, SwapStep, RollbackStep DEF Building
<1>4. CASE Serving
  BY <1>4, ServingStep
<1>5. CASE Kill
  BY <1>5, KillStep
<1>6. ASSUME NEW d \in Documents, EditSource(d) \/ EditTerms(d)
      PROVE  Inv'
  BY <1>6, EditSourceStep, EditTermsStep
<1>7. CASE UNCHANGED vars
  <2>. USE <1>7 DEF vars, ready, store, local, serving
  <2>1. TypeOK'
    BY DEF Inv, TypeOK
  <2>. QED
    BY <2>1, HistoryStays, CommandStays, IndexStays, ManifestStays, ReviewStays,
       SearchStays DEF Inv
<1>. QED  BY <1>1, <1>2, <1>3, <1>4, <1>5, <1>6, <1>7 DEF Next

\* The invariant holds in every reachable state.
THEOREM Invariance == Spec => []Inv
<1>1. Init => Inv
  BY Initially
<1>2. Inv /\ [Next]_vars => Inv'
  BY Step
<1>. QED  BY <1>1, <1>2, PTL DEF Spec

\* Every file, index and history variable has its type.
THEOREM TypeCorrect == Spec => []TypeOK
<1>1. Inv => TypeOK
  BY DEF Inv
<1>. QED  BY <1>1, Invariance, PTL

\* Every passage of index_ready was the processed text at an approval of its
\* document, until a command is killed.
THEOREM TextsReviewed == Spec => []ReviewedText
<1>1. Inv => ReviewedText
  BY DEF Inv, ReviewOK, Approved, ReviewedText
<1>. QED  BY <1>1, Invariance, PTL

\* Chunks that agree with the hash of the manifest are read without error.
THEOREM PreparedLoad == Spec => []PreparedLoads
<1>1. Inv => PreparedLoads
  BY DEF Inv, ManifestOK, Coherent, PreparedLoads, ReaderRaises
<1>. QED  BY <1>1, Invariance, PTL

\* A document that any manifest listed is in the present one or tombstoned.
THEOREM TombstonesLast == Spec => []TombstonesRemember
<1>1. Inv => TombstonesRemember
  BY DEF Inv, ManifestOK, Coherent, TombstonesRemember
<1>. QED  BY <1>1, Invariance, PTL

\* Every step is, for the history variables, one of Withdrawals: a search that
\* begins permits what is not withdrawn, and answers from that.
LEMMA StepImplements ==
  ASSUME Inv, Inv', [Next]_vars
  PROVE  [Promise!Next]_(Promise!vars)
<1>. USE DEF Promise!Next, Promise!vars
<1>1. CASE AskValidate
  BY <1>1 DEF AskValidate, Promise!BeginSearch
<1>2. CASE AskAnswer
  <2>1. answer' \in permitted
    BY <1>2 DEF AskAnswer, Inv, SearchOK
  <2>. QED  BY <1>2, <2>1 DEF AskAnswer, Promise!Answer
<1>3. CASE WriteManifest
  <2>1. withdrawn' \in SUBSET Documents
    BY <1>3 DEF WriteManifest
  <2>. QED  BY <1>3, <2>1 DEF WriteManifest, serving, Promise!Revise
<1>4. CASE ServerStart \/ ServerStop
  BY <1>4 DEF ServerStart, ServerStop
<1>5. CASE Reviewing
  BY <1>5 DEF Reviewing, StartProcess, StartApprove, StartReject, Register,
              WriteProcessed, UpdateRegistry, WriteAudit, serving
<1>6. CASE StartPrepare \/ WriteChunks \/ Building
  BY <1>6 DEF StartPrepare, WriteChunks, Building, StartBuild, Backup, Swap,
              Rollback, serving
<1>7. CASE Kill \/ \E d \in Documents : EditSource(d) \/ EditTerms(d)
  BY <1>7 DEF Kill, EditSource, EditTerms, serving
<1>8. CASE UNCHANGED vars
  BY <1>8 DEF vars, serving
<1>. QED
  BY <1>1, <1>2, <1>3, <1>4, <1>5, <1>6, <1>7, <1>8 DEF Next, Preparing, Serving

\* The reviewed corpus keeps the promise of Withdrawals: no answer rests on a
\* document that a finished prepare had left out when its search began.
THEOREM SearchesKeepPromise == Spec => ImplementsWithdrawals
<1>1. Init => Promise!Init
  BY DEF Init, Promise!Init
<1>2. Inv /\ Inv' /\ [Next]_vars => [Promise!Next]_(Promise!vars)
  BY StepImplements
<1>. QED
  BY <1>1, <1>2, Invariance, PTL DEF Spec, ImplementsWithdrawals, Promise!Spec
=============================================================================

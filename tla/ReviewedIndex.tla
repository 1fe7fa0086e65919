--------------------------- MODULE ReviewedIndex ---------------------------
(***************************************************************************)
(* From a reviewed document to a production answer: ingestion (process),   *)
(* human review (approve, reject, audit log), preparation of index_ready   *)
(* (chunks and manifest), the retrieval index with its snapshots, and the  *)
(* production server that searches it.                                     *)
(*                                                                         *)
(* One operator runs one command at a time; a command may be killed        *)
(* between two writes or inside one.  Files written with open("w") are     *)
(* emptied first: a kill leaves them empty or cut.  A document has one     *)
(* passage, its text; two documents may have the same.  A hash is the      *)
(* content it is the hash of.                                              *)
(***************************************************************************)
EXTENDS Naturals, Sequences, FiniteSets

CONSTANTS Order,        \* the documents, in the order of their ids
          Texts,        \* passages a source may hold
          None,         \* no file, no passage, no value
          Torn,         \* a file that no longer parses
          MaxCommands,  \* commands the operator runs
          MaxKills,     \* commands killed
          MaxEdits,     \* sources and terms that change
          MaxAsks       \* searches of the server

Documents == {Order[i] : i \in 1..Len(Order)}

ASSUME OrderAssumption == Order \in Seq(Documents) /\ Order # <<>>
ASSUME BoundAssumption == {MaxCommands, MaxKills, MaxEdits, MaxAsks} \subseteq Nat

VARIABLES
    registry,   \* sources.jsonl: [Documents -> Entry or None], or Torn
    raw,        \* data/raw: the passage of a source, or None
    processed,  \* data/processed: the passage of the chunk file, None or Torn
    audit,      \* review_audit.jsonl: the last action on a document
    chunks,     \* index_ready/chunks.jsonl: Content, None or Torn
    manifest,   \* index_ready/index_manifest.json: a record, None or Torn
    index,      \* the index file: a record or None
    backups,    \* its snapshots: [name, index]
    cmd,        \* the command running: [name, doc, draft]
    pc,         \* its next step
    server,     \* the index loaded by the server, or None
    approved,   \* history: passages that were processed when approved
    listed,     \* history: documents some saved manifest has listed
    withdrawn,  \* history: documents the last saved manifest leaves out
    permitted,  \* history: documents not withdrawn when the search began, or None
    answer,     \* history: a document the last answer rests on, or None
    killed,     \* history: a command was killed
    budget      \* commands, kills, edits and searches left

ready == <<chunks, manifest>>
store == <<index, backups>>
local == <<cmd, pc>>
serving == <<server, permitted, answer>>
vars == <<registry, raw, processed, audit, ready, store, local, serving,
          approved, listed, withdrawn, killed, budget>>

-----------------------------------------------------------------------------
(* Data *)

\* "open": usable.  "closed": rights clear, RAG not allowed (or reliability
\* below B).  "unclear": copyright unknown or restricted.
Terms == {"open", "closed", "unclear"}
Statuses == {"draft", "metadata_added", "reviewed", "rejected"}
Entry == [status : Statuses, terms : Terms]
Content == [Documents -> Texts \cup {None}]
Empty == [d \in Documents |-> None]
In(c) == {d \in Documents : c[d] # None}

Position(d) == CHOOSE i \in 1..Len(Order) : Order[i] = d

\* RagEligibilityPolicy.evaluate and _load_document: what prepare may take.
Eligible(d) ==
    /\ registry[d] # None
    /\ registry[d].status = "reviewed" /\ registry[d].terms = "open"
    /\ raw[d] # None
    /\ processed[d] \in Texts

Loaded == [d \in Documents |-> IF Eligible(d) THEN processed[d] ELSE None]

\* IndexReadyReader.load raises unless both files are there, parse, agree and
\* name active documents only.  Absent files are an empty corpus.
ReaderRaises ==
    /\ chunks # None /\ manifest # None
    /\ \/ Torn \in {chunks, manifest}
       \/ chunks # manifest.snapshot
       \/ In(chunks) \ In(manifest.documents) # {}
       \/ In(chunks) \cap manifest.tombstones # {}

\* Equal passages are read once, for the first document.
FirstOnly(c) ==
    [d \in Documents |->
        IF \E e \in In(c) : c[e] = c[d] /\ Position(e) < Position(d) THEN None ELSE c[d]]
ReadChunks == IF None \in {chunks, manifest} THEN Empty ELSE FirstOnly(chunks)
ReadSnapshot == IF None \in {chunks, manifest} THEN None ELSE manifest.snapshot

NoCommand == [name |-> "none", doc |-> None, draft |-> None]

Init ==
    /\ registry \in [Documents -> [status : {"metadata_added", "reviewed"}, terms : {"open"}]]
    /\ raw \in [Documents -> Texts] /\ processed = raw
    /\ audit = [d \in Documents |->
                  IF registry[d].status = "reviewed" THEN "approve" ELSE "none"]
    /\ approved = [d \in Documents |->
                  IF registry[d].status = "reviewed" THEN {processed[d]} ELSE {}]
    /\ chunks = None /\ manifest = None /\ index = None /\ backups = {}
    /\ cmd = NoCommand /\ pc = "idle"
    /\ server = None /\ permitted = None /\ answer = None
    /\ listed = {} /\ withdrawn = {} /\ killed = FALSE
    /\ budget = [commands |-> MaxCommands, kills |-> MaxKills,
                 edits |-> MaxEdits, asks |-> MaxAsks]

-----------------------------------------------------------------------------
(* Commands *)

Start(name, d, draft, next) ==
    /\ pc = "idle" /\ budget.commands > 0
    /\ budget' = [budget EXCEPT !.commands = @ - 1]
    /\ cmd' = [name |-> name, doc |-> d, draft |-> draft] /\ pc' = next

Finish == pc' = "idle" /\ cmd' = NoCommand

Known(d) == registry # Torn /\ registry[d] # None

\* Mutant: a processed document keeps its review.
ReviewKept(e) == e
\* process: new chunks take a document back to metadata_added.
Demoted(e) == [e EXCEPT !.status = "metadata_added"]

StartProcess(d) ==
    /\ Known(d) /\ raw[d] # None
    /\ Start("process", d, [entry |-> Demoted(registry[d]), text |-> raw[d]], "processed")
    /\ UNCHANGED <<registry, raw, processed, audit, ready, store, serving,
                   approved, listed, withdrawn, killed>>

WriteProcessed ==
    /\ pc = "processed"
    /\ processed' = [processed EXCEPT ![cmd.doc] = cmd.draft.text]
    /\ pc' = "registry"
    /\ UNCHANGED <<registry, raw, audit, ready, store, serving, cmd,
                   approved, listed, withdrawn, killed, budget>>

\* _approval_errors: the terms are known and the source is there.
Approvable(d) == registry[d].terms # "unclear" /\ raw[d] # None

StartApprove(d) ==
    /\ Known(d) /\ Approvable(d)
    /\ Start("approve", d, [entry |-> [registry[d] EXCEPT !.status = "reviewed"]], "registry")
    /\ UNCHANGED <<registry, raw, processed, audit, ready, store, serving,
                   approved, listed, withdrawn, killed>>

StartReject(d) ==
    /\ Known(d)
    /\ Start("reject", d, [entry |-> [registry[d] EXCEPT !.status = "rejected"]], "registry")
    /\ UNCHANGED <<registry, raw, processed, audit, ready, store, serving,
                   approved, listed, withdrawn, killed>>

UpdateRegistry ==
    /\ pc = "registry"
    /\ registry' = [registry EXCEPT ![cmd.doc] = cmd.draft.entry]
    /\ approved' = IF cmd.name = "approve" /\ processed[cmd.doc] \in Texts
                   THEN [approved EXCEPT ![cmd.doc] = @ \cup {processed[cmd.doc]}]
                   ELSE approved
    /\ IF cmd.name = "process" THEN Finish ELSE pc' = "audit" /\ UNCHANGED cmd
    /\ UNCHANGED <<raw, processed, audit, ready, store, serving,
                   listed, withdrawn, killed, budget>>

LoggedAction == cmd.name

WriteAudit ==
    /\ pc = "audit"
    /\ audit' = [audit EXCEPT ![cmd.doc] = LoggedAction]
    /\ Finish
    /\ UNCHANGED <<registry, raw, processed, ready, store, serving,
                   approved, listed, withdrawn, killed, budget>>

\* register: only an id that the file does not hold yet.
Register(d, terms) ==
    /\ registry # Torn /\ registry[d] = None
    /\ pc = "idle" /\ budget.commands > 0
    /\ budget' = [budget EXCEPT !.commands = @ - 1]
    /\ registry' = [registry EXCEPT ![d] = [status |-> "draft", terms |-> terms]]
    /\ UNCHANGED <<raw, processed, audit, ready, store, serving, local,
                   approved, listed, withdrawn, killed>>

\* Mutants: tombstones of documents that came back stay; older ones are dropped.
TombstonesKept(before, c) == before.tombstones \cup (In(before.documents) \ In(c))
TombstonesFresh(before, c) == In(before.documents) \ In(c)
Tombstones(before, c) ==
    (before.tombstones \ In(c)) \cup (In(before.documents) \ In(c))

Previous == IF manifest = None
            THEN [documents |-> Empty, snapshot |-> Empty, tombstones |-> {}]
            ELSE manifest

StartPrepare ==
    /\ registry # Torn /\ manifest # Torn
    /\ Start("prepare", None,
             [documents |-> Loaded, snapshot |-> Loaded,
              tombstones |-> Tombstones(Previous, Loaded)], "chunks")
    /\ UNCHANGED <<registry, raw, processed, audit, ready, store, serving,
                   approved, listed, withdrawn, killed>>

WriteChunks ==
    /\ pc = "chunks"
    /\ chunks' = cmd.draft.snapshot /\ pc' = "manifest"
    /\ UNCHANGED <<registry, raw, processed, audit, manifest, store, serving, cmd,
                   approved, listed, withdrawn, killed, budget>>

WriteManifest ==
    /\ pc = "manifest"
    /\ manifest' = cmd.draft /\ Finish
    /\ listed' = listed \cup In(cmd.draft.documents)
    /\ withdrawn' = Documents \ In(cmd.draft.documents)
    /\ UNCHANGED <<registry, raw, processed, audit, chunks, store, serving,
                   approved, killed, budget>>

\* build_index reuses the vector of the same chunk id and content hash.
SameVector(old, d, text) == old # None /\ old.content[d] = text

VectorsOf(old, c) ==
    [d \in Documents |->
        IF c[d] = None THEN None
        ELSE IF SameVector(old, d, c[d]) THEN old.vectors[d] ELSE c[d]]

StartBuild ==
    /\ ~ReaderRaises /\ ReadChunks # Empty /\ index # Torn
    /\ Start("build", None,
             [content |-> ReadChunks, vectors |-> VectorsOf(index, ReadChunks),
              snapshot |-> ReadSnapshot], "backup")
    /\ UNCHANGED <<registry, raw, processed, audit, ready, store, serving,
                   approved, listed, withdrawn, killed>>

BackupName(draft) == index.snapshot

\* A snapshot that exists is never written again, a cut one neither.
WithBackup(i) ==
    IF index = None \/ \E b \in backups : b.name = BackupName(cmd.draft)
    THEN backups
    ELSE backups \cup {[name |-> BackupName(cmd.draft), index |-> i]}

Backup ==
    /\ pc = "backup"
    /\ backups' = WithBackup(index)
    /\ pc' = "swap"
    /\ UNCHANGED <<registry, raw, processed, audit, ready, index, serving, cmd,
                   approved, listed, withdrawn, killed, budget>>

Swap ==
    /\ pc = "swap"
    /\ index' = cmd.draft /\ Finish
    /\ UNCHANGED <<registry, raw, processed, audit, ready, backups, serving,
                   approved, listed, withdrawn, killed, budget>>

Rollback(b) ==
    /\ pc = "idle" /\ budget.commands > 0
    /\ budget' = [budget EXCEPT !.commands = @ - 1]
    /\ index' = b.index
    /\ UNCHANGED <<registry, raw, processed, audit, ready, backups, serving, local,
                   approved, listed, withdrawn, killed>>

-----------------------------------------------------------------------------
(* What happens around the commands *)

\* A kill leaves a file being written with open("w") as it was, empty, or cut.
Kill ==
    /\ pc # "idle" /\ budget.kills > 0
    /\ budget' = [budget EXCEPT !.kills = @ - 1]
    /\ Finish /\ killed' = TRUE
    /\ processed' \in IF pc = "processed"
                      THEN {processed, [processed EXCEPT ![cmd.doc] = Torn]} ELSE {processed}
    /\ registry' \in IF pc = "registry"
                     THEN {registry, [d \in Documents |-> None], Torn} ELSE {registry}
    /\ chunks' \in IF pc = "chunks" THEN {chunks, Empty, Torn} ELSE {chunks}
    /\ manifest' \in IF pc = "manifest" THEN {manifest, Torn} ELSE {manifest}
    /\ backups' \in IF pc = "backup" THEN {backups, WithBackup(Torn)} ELSE {backups}
    /\ UNCHANGED <<raw, audit, index, serving, approved, listed, withdrawn>>

\* A source is downloaded again, or deleted.
EditSource(d) ==
    /\ budget.edits > 0 /\ budget' = [budget EXCEPT !.edits = @ - 1]
    /\ \E t \in (Texts \cup {None}) \ {raw[d]} : raw' = [raw EXCEPT ![d] = t]
    /\ UNCHANGED <<registry, processed, audit, ready, store, serving, local,
                   approved, listed, withdrawn, killed>>

\* The operator corrects the terms in sources.jsonl by hand, or restores a file
\* that no longer parses.
EditTerms(d) ==
    /\ pc = "idle" /\ Known(d)
    /\ budget.edits > 0 /\ budget' = [budget EXCEPT !.edits = @ - 1]
    /\ \E t \in Terms \ {registry[d].terms} : registry' = [registry EXCEPT ![d].terms = t]
    /\ UNCHANGED <<raw, processed, audit, ready, store, serving, local,
                   approved, listed, withdrawn, killed>>

-----------------------------------------------------------------------------
(* The production server *)

\* Mutant: only the model is compared, not the snapshot.
FitsAnySnapshot(i) == i # None /\ ~ReaderRaises
\* validate_index finds no error.
Fits(i) == i # None /\ ~ReaderRaises /\ i.snapshot = ReadSnapshot

\* create_production_service refuses an index that does not fit.
ServerStart ==
    /\ server = None /\ index # Torn /\ Fits(index)
    /\ server' = index
    /\ UNCHANGED <<registry, raw, processed, audit, ready, store, local, permitted, answer,
                   approved, listed, withdrawn, killed, budget>>

ServerStop ==
    /\ server # None /\ permitted = None
    /\ server' = None
    /\ UNCHANGED <<registry, raw, processed, audit, ready, store, local, permitted, answer,
                   approved, listed, withdrawn, killed, budget>>

AskValidate ==
    /\ permitted = None /\ budget.asks > 0 /\ Fits(server)
    /\ budget' = [budget EXCEPT !.asks = @ - 1]
    /\ permitted' = Documents \ withdrawn
    /\ UNCHANGED <<registry, raw, processed, audit, ready, store, local, server, answer,
                   approved, listed, withdrawn, killed>>

AskAnswer ==
    /\ permitted # None
    /\ answer' \in In(server.content)
    /\ permitted' = None
    /\ UNCHANGED <<registry, raw, processed, audit, ready, store, local, server,
                   approved, listed, withdrawn, killed, budget>>

-----------------------------------------------------------------------------
Reviewing == \/ \E d \in Documents : StartProcess(d) \/ StartApprove(d) \/ StartReject(d)
             \/ \E d \in Documents, t \in Terms : Register(d, t)
             \/ WriteProcessed \/ UpdateRegistry \/ WriteAudit

Preparing == StartPrepare \/ WriteChunks \/ WriteManifest

Building == StartBuild \/ Backup \/ Swap \/ \E b \in backups : Rollback(b)

Serving == ServerStart \/ ServerStop \/ AskValidate \/ AskAnswer

Next == Reviewing \/ Preparing \/ Building \/ Serving \/ Kill
        \/ \E d \in Documents : EditSource(d) \/ EditTerms(d)

Spec == Init /\ [][Next]_vars

-----------------------------------------------------------------------------
(* Properties *)

Record == [documents : Content, snapshot : Content, tombstones : SUBSET Documents]
Built == [content : Content, vectors : Content, snapshot : Content]

\* No file, a file that does not parse and a file with something in it differ.
ASSUME ValueAssumption ==
    /\ None \notin Content \cup Record \cup Built /\ Torn \notin Record \cup Built
    /\ None # Torn

TypeOK ==
    /\ registry = Torn \/ registry \in [Documents -> Entry \cup {None}]
    /\ raw \in [Documents -> Texts \cup {None}]
    /\ processed \in [Documents -> Texts \cup {None, Torn}]
    /\ audit \in [Documents -> {"none", "approve", "reject"}]
    /\ chunks \in {None, Torn} \cup Content
    /\ manifest \in {None, Torn} \cup Record
    /\ index \in {None, Torn} \cup Built /\ server \in {None} \cup Built
    /\ backups \subseteq [name : Content, index : Built \cup {Torn}]
    /\ permitted \in {None} \cup SUBSET Documents /\ answer \in {None} \cup Documents

\* Nothing is indexed that was not reviewed: every passage of index_ready was
\* the processed text at some approval of its document, whatever was edited and
\* processed since.  A process killed between its two files (pipeline.py:58-63)
\* leaves new chunks under the old review, so this holds until a kill.
ReviewedText ==
    (~killed /\ chunks # None) => \A d \in In(chunks) : chunks[d] \in approved[d]

\* When the hash of the manifest agrees with the chunks, the reader finds none
\* of its other faults: a document that came back is no longer tombstoned, after
\* any sequence of prepares and kills (builder.py:84-108).
PreparedLoads ==
    (None \notin {chunks, manifest} /\ Torn \notin {chunks, manifest}
       /\ chunks = manifest.snapshot) => ~ReaderRaises

\* A document that left index_ready stays tombstoned until it comes back,
\* however many prepares lie in between (builder.py:84-94).
TombstonesRemember ==
    manifest \notin {None, Torn} => listed \ In(manifest.documents) \subseteq manifest.tombstones

\* No answer rests on a document that the last finished prepare had left out
\* when its search began; an index that is not the current one is not searched.
Promise == INSTANCE Withdrawals WITH NoSearch <- None
ImplementsWithdrawals == Promise!Spec
=============================================================================

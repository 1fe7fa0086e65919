-------------------------- MODULE ProvisionalData --------------------------
(***************************************************************************)
(* The life cycle of the provisional documents (provisional/service.py and *)
(* cli.py): one operator runs one command at a time over six files         *)
(* (manifest, raw pages, chunks, index, removal log, saved sessions) while *)
(* a server answers from the index it loaded.  One action per file         *)
(* operation; a command may fail (an exception) or be killed between any   *)
(* two of them.                                                            *)
(*                                                                         *)
(* A document has one passage; two documents may have the same.  The       *)
(* chunks file is therefore a function from passages to the document that  *)
(* owns them, which is what _deduplicate leaves.  A snapshot hash is the   *)
(* content it is the hash of.                                              *)
(***************************************************************************)
EXTENDS Naturals, Sequences, FiniteSets

CONSTANTS Order,         \* the selected documents, in the order of the audit file
          Texts,         \* passages a page may hold
          None,          \* no file, no owner, no value
          Torn,          \* a file whose write was cut
          MaxCommands,   \* commands the operator runs
          MaxIncidents,  \* exceptions raised and commands killed
          MaxStarts,     \* starts of the server
          MaxAsks        \* searches of the server

Sources == {Order[i] : i \in 1..Len(Order)}

ASSUME OrderAssumption == Order \in Seq(Sources) /\ Order # <<>>
ASSUME BoundAssumption ==
    {MaxCommands, MaxIncidents, MaxStarts, MaxAsks} \subseteq Nat

VARIABLES
    manifest,   \* sources.jsonl: [Sources -> Record] or None
    raw,        \* raw/<source>.html: the passage it holds, or None
    chunks,     \* chunks.jsonl: Owners, None or Torn
    index,      \* the active index file: the Owners it was built from, or None
    backups,    \* snapshots/: [name, content] of replaced indexes
    log,        \* removals.jsonl: the sets of removed sources
    sessionFile,\* saved sessions: the documents they quote, or None
    overdue,    \* REVIEW_AFTER lies in the past
    cmd,        \* the command running: [name, force, only]
    pc,         \* its next step
    todo,       \* documents still to be handled by it, first to last
    draft,      \* its copy of the manifest
    acc,        \* chunks it has gathered; the staged index while it rebuilds
    saved,      \* copies remove takes of the files before it changes them
    last,       \* the last command that ended normally
    server,     \* "down", "building", "replacing" or "up"
    loaded,     \* the index in the server's memory, or the one it builds
    quotes,     \* documents quoted by the sessions in memory
    withdrawn,  \* history: documents taken out by a removal that reached its log
    permitted,  \* history: documents not withdrawn when the search began, or None
    answer,     \* history: a document the last answer rests on, or None
    budget      \* commands, incidents and searches left

files == <<manifest, raw, chunks, index, backups, log, sessionFile>>
local == <<cmd, pc, todo, draft, acc, saved, last>>
serving == <<server, loaded, quotes, permitted, answer>>
vars == <<files, overdue, local, serving, withdrawn, budget>>

Owners == [Texts -> Sources \cup {None}]
Record == [active : BOOLEAN,
           status : {"metadata_prepared", "collected", "reused", "failed"},
           hash : Texts \cup {None}]

\* No file, a cut file and a file with something in it differ.
ASSUME ValueAssumption ==
    /\ None \notin Sources \cup Texts /\ None # Torn
    /\ None \notin Owners \cup [Sources -> Record] /\ Torn \notin Owners
    /\ \A S \in SUBSET Sources : S # None

Fresh == [s \in Sources |->
            [active |-> TRUE, status |-> "metadata_prepared", hash |-> None]]
OwnersIn(c) == {c[t] : t \in Texts} \ {None}
Readable(c) == c \notin {None, Torn}

\* The first of some documents in the order of the audit file.
First(S) ==
    Order[CHOOSE i \in 1..Len(Order) :
            Order[i] \in S /\ \A j \in 1..(i - 1) : Order[j] \notin S]

NoCommand == [name |-> "none", force |-> FALSE, only |-> {}]
NothingSaved == [manifest |-> None, chunks |-> None, index |-> None,
                 log |-> {}, session |-> None]

Init ==
    /\ manifest = None /\ raw = [s \in Sources |-> None]
    /\ chunks = None /\ index = None /\ backups = {} /\ log = {}
    /\ sessionFile = None /\ overdue = FALSE
    /\ cmd = NoCommand /\ pc = "idle" /\ todo = {} /\ draft = Fresh
    /\ acc = [t \in Texts |-> None] /\ saved = NothingSaved /\ last = NoCommand
    /\ server = "down" /\ loaded = None /\ quotes = {}
    /\ withdrawn = {} /\ permitted = None /\ answer = None
    /\ budget = [commands |-> MaxCommands, incidents |-> MaxIncidents,
                 starts |-> MaxStarts, asks |-> MaxAsks]

-----------------------------------------------------------------------------
(* The command line: one command at a time. *)

Start(name, force, only) ==
    /\ pc = "idle" /\ budget.commands > 0
    /\ budget' = [budget EXCEPT !.commands = @ - 1]
    /\ cmd' = [name |-> name, force |-> force, only |-> only]
    /\ last' = NoCommand

\* The command ends; what it worked with is gone.
Finish ==
    /\ pc' = "idle" /\ last' = cmd /\ cmd' = NoCommand
    /\ todo' = {} /\ draft' = Fresh /\ acc' = [t \in Texts |-> None]
    /\ saved' = NothingSaved

Goto(label) == pc' = label /\ UNCHANGED <<cmd, last>>

\* prepare_manifest: every selected document, active, with nothing collected.
Prepare ==
    /\ pc = "idle" /\ budget.commands > 0
    /\ budget' = [budget EXCEPT !.commands = @ - 1]
    /\ manifest' = Fresh /\ withdrawn' = {}
    /\ last' = [NoCommand EXCEPT !.name = "prepare"]
    /\ UNCHANGED <<raw, chunks, index, backups, log, sessionFile, overdue,
                   cmd, pc, todo, draft, acc, saved, serving>>

-----------------------------------------------------------------------------
(* collect *)

\* Mutant: removed documents are planned again.
PlannedWithRemoved(records, only) == only

\* collection_plan: the active documents asked for.
Planned(records, only) == {s \in only : records[s].active}

\* The chunks of the documents not planned are kept.
StartCollect(force, only) ==
    LET records == IF manifest = None THEN Fresh ELSE manifest
        targets == Planned(records, only)
    IN /\ Start("collect", force, only)
       /\ chunks # Torn
       /\ manifest' = records
       /\ withdrawn' = {s \in withdrawn : ~records[s].active}
       /\ draft' = records /\ todo' = targets
       /\ acc' = [t \in Texts |->
                    IF chunks = None \/ (chunks # None /\ chunks[t] \in targets)
                    THEN None ELSE chunks[t]]
       /\ pc' = "collect_one"
       /\ UNCHANGED <<raw, chunks, index, backups, log, sessionFile, overdue,
                      saved, serving>>

\* Mutant: the stored page is trusted without its hash.
ReusableByStatus(s) ==
    /\ ~cmd.force /\ ~overdue /\ raw[s] # None
    /\ draft[s].status \in {"collected", "reused"}

\* _collection_decision: the stored page may be used again.
Reusable(s) ==
    /\ ~cmd.force /\ ~overdue
    /\ draft[s].status \in {"collected", "reused"}
    /\ draft[s].hash # None /\ raw[s] = draft[s].hash

\* The first document that offers a passage keeps it.
Claim(s, t) == acc' = [acc EXCEPT ![t] = IF @ = None THEN s ELSE @]

CollectReused ==
    /\ pc = "collect_one" /\ todo # {}
    /\ LET s == First(todo)
       IN /\ Reusable(s)
          /\ Claim(s, raw[s])
          /\ draft' = [draft EXCEPT ![s].status = "reused"]
    /\ todo' = todo \ {First(todo)}
    /\ UNCHANGED <<files, overdue, cmd, pc, saved, last, serving, withdrawn, budget>>

\* A page that can be used: its raw file is replaced at once, the manifest later.
CollectFetched(t) ==
    /\ pc = "collect_one" /\ todo # {}
    /\ LET s == First(todo)
       IN /\ ~Reusable(s)
          /\ raw' = [raw EXCEPT ![s] = t]
          /\ Claim(s, t)
          /\ draft' = [draft EXCEPT ![s].status = "collected", ![s].hash = t]
    /\ todo' = todo \ {First(todo)}
    /\ UNCHANGED <<manifest, chunks, index, backups, log, sessionFile, overdue,
                   cmd, pc, saved, last, serving, withdrawn, budget>>

\* _fetch gave up, or the page is too large or too short.
CollectFailed ==
    /\ pc = "collect_one" /\ todo # {}
    /\ LET s == First(todo)
       IN ~Reusable(s) /\ draft' = [draft EXCEPT ![s].status = "failed"]
    /\ todo' = todo \ {First(todo)}
    /\ UNCHANGED <<files, overdue, cmd, pc, acc, saved, last, serving, withdrawn, budget>>

CollectManifest ==
    /\ pc = "collect_one" /\ todo = {}
    /\ manifest' = draft
    /\ Goto("collect_chunks")
    /\ UNCHANGED <<raw, chunks, index, backups, log, sessionFile, overdue,
                   todo, draft, acc, saved, serving, withdrawn, budget>>

CollectChunks ==
    /\ pc = "collect_chunks"
    /\ chunks' = acc
    /\ Finish
    /\ UNCHANGED <<manifest, raw, index, backups, log, sessionFile, overdue,
                   serving, withdrawn, budget>>

\* Mutant: removed documents are reprocessed too.
AllOf(records) == DOMAIN records

ActiveOf(records) == {s \in DOMAIN records : records[s].active}

\* reprocess_local: the chunks of the active documents from their raw files;
\* refused when a raw file is missing or is not the one the manifest knows.
ReprocessLocal ==
    LET records == IF manifest = None THEN [s \in {} |-> None] ELSE manifest
        active == ActiveOf(records)
        Holding(t) == {s \in active : raw[s] = t}
    IN /\ pc = "idle" /\ budget.commands > 0
       /\ budget' = [budget EXCEPT !.commands = @ - 1]
       /\ \A s \in active : raw[s] # None /\ records[s].hash \in {None, raw[s]}
       /\ chunks' = [t \in Texts |-> IF Holding(t) = {} THEN None ELSE First(Holding(t))]
       /\ last' = [NoCommand EXCEPT !.name = "reprocess"]
       /\ UNCHANGED <<manifest, raw, index, backups, log, sessionFile, overdue,
                      cmd, pc, todo, draft, acc, saved, serving, withdrawn>>

-----------------------------------------------------------------------------
(* rebuild_index: stage, back up the index in use, swap. *)

StartRebuild ==
    /\ Start("rebuild", FALSE, {})
    /\ Readable(chunks)
    /\ pc' = "stage"
    /\ UNCHANGED <<files, overdue, todo, draft, acc, saved, serving, withdrawn>>

\* After the swap a rebuild is over; a removal goes on with its log entry.
AfterRebuild == IF cmd.name = "rebuild" THEN Finish
                ELSE Goto("log") /\ UNCHANGED <<todo, draft, acc, saved>>

Stage ==
    /\ pc = "stage"
    /\ IF Readable(chunks)
       THEN acc' = chunks /\ Goto("backup") /\ UNCHANGED <<todo, draft, saved>>
       ELSE chunks = None /\ AfterRebuild
    /\ UNCHANGED <<files, overdue, serving, withdrawn, budget>>

Backup ==
    /\ pc = "backup"
    /\ backups' = IF index = None \/ \E b \in backups : b.name = index THEN backups
                  ELSE backups \cup {[name |-> index, content |-> index]}
    /\ Goto("swap")
    /\ UNCHANGED <<manifest, raw, chunks, index, log, sessionFile, overdue,
                   todo, draft, acc, saved, serving, withdrawn, budget>>

Swap ==
    /\ pc = "swap"
    /\ index' = acc
    /\ AfterRebuild
    /\ UNCHANGED <<manifest, raw, chunks, backups, log, sessionFile, overdue,
                   serving, withdrawn, budget>>

\* HybridRetrievalService.rollback: the named snapshot replaces the index.
Rollback ==
    /\ pc = "idle" /\ budget.commands > 0
    /\ budget' = [budget EXCEPT !.commands = @ - 1]
    /\ \E b \in backups : index' = b.content
    /\ last' = [NoCommand EXCEPT !.name = "rollback"]
    /\ UNCHANGED <<manifest, raw, chunks, backups, log, sessionFile, overdue,
                   cmd, pc, todo, draft, acc, saved, serving, withdrawn>>

-----------------------------------------------------------------------------
(* remove, expire, purge-all *)

Matching(only) == {s \in only : manifest[s].active}

\* What remove keeps to restore.
Copies == [manifest |-> manifest, chunks |-> chunks, index |-> index,
           log |-> log, session |-> sessionFile]

\* One removal; cmd.only is what it takes out from here on.
BeginRemoval(name, only) ==
    /\ Start(name, FALSE, Matching(only))
    /\ draft' = [s \in Sources |-> IF s \in Matching(only)
                                   THEN [manifest[s] EXCEPT !.active = FALSE]
                                   ELSE manifest[s]]
    /\ saved' = Copies
    /\ pc' = "manifest"

\* remove --source-id and --institution, and the removals of purge-all.
StartRemove(name, only) ==
    /\ manifest # None /\ Matching(only) # {}
    /\ BeginRemoval(name, only)
    /\ UNCHANGED <<files, overdue, todo, acc, serving, withdrawn>>

\* purge-all with nothing left to remove still deletes the index.
StartPurge ==
    /\ manifest # None => Matching(Sources) = {}
    /\ Start("purge", FALSE, {})
    /\ pc' = "purge"
    /\ UNCHANGED <<files, overdue, todo, draft, acc, saved, serving, withdrawn>>

\* expire: every active document has passed its date; one removal each.
StartExpire ==
    /\ overdue /\ manifest # None /\ Matching(Sources) # {}
    /\ LET due == Matching(Sources)
       IN BeginRemoval("expire", {First(due)}) /\ todo' = due \ {First(due)}
    /\ UNCHANGED <<files, overdue, acc, serving, withdrawn>>

RemoveManifest ==
    /\ pc = "manifest"
    /\ manifest' = draft
    /\ Goto("filter")
    /\ UNCHANGED <<raw, chunks, index, backups, log, sessionFile, overdue,
                   todo, draft, acc, saved, serving, withdrawn, budget>>

\* _filter_chunks; a torn file raises, which Fault covers.
FilterChunks ==
    /\ pc = "filter" /\ chunks # Torn
    /\ chunks' = IF chunks = None THEN None
                 ELSE [t \in Texts |-> IF chunks[t] \in cmd.only THEN None ELSE chunks[t]]
    /\ Goto("stage")
    /\ UNCHANGED <<manifest, raw, index, backups, log, sessionFile, overdue,
                   todo, draft, acc, saved, serving, withdrawn, budget>>

AppendLog ==
    /\ pc = "log"
    /\ log' = log \cup {cmd.only}
    /\ withdrawn' = withdrawn \cup cmd.only
    /\ Goto("unlink")
    /\ UNCHANGED <<manifest, raw, chunks, index, backups, sessionFile, overdue,
                   todo, draft, acc, saved, serving, budget>>

\* The saved sessions go; expire takes the next document, purge-all the index.
UnlinkSessions ==
    /\ pc = "unlink"
    /\ sessionFile' = None
    /\ \/ /\ todo # {}
          /\ cmd' = [cmd EXCEPT !.only = {First(todo)}]
          /\ todo' = todo \ {First(todo)}
          /\ draft' = [manifest EXCEPT ![First(todo)].active = FALSE]
          /\ saved' = [Copies EXCEPT !.session = None]
          /\ pc' = "manifest"
          /\ UNCHANGED <<acc, last>>
       \/ /\ todo = {} /\ cmd.name = "purge"
          /\ Goto("purge") /\ UNCHANGED <<todo, draft, acc, saved>>
       \/ todo = {} /\ cmd.name # "purge" /\ Finish
    /\ UNCHANGED <<manifest, raw, chunks, index, backups, log, overdue,
                   serving, withdrawn, budget>>

\* purge_runtime_index: the index and its snapshots.
PurgeIndex ==
    /\ pc = "purge"
    /\ index' = None /\ backups' = {}
    /\ Finish
    /\ UNCHANGED <<manifest, raw, chunks, log, sessionFile, overdue,
                   serving, withdrawn, budget>>

\* The except branch of remove: one file after the other as it was.
UndoManifest ==
    /\ pc = "undo_manifest"
    /\ manifest' = saved.manifest
    /\ withdrawn' = withdrawn \ cmd.only
    /\ Goto("undo_chunks")
    /\ UNCHANGED <<raw, chunks, index, backups, log, sessionFile, overdue,
                   todo, draft, acc, saved, serving, budget>>

\* write_bytes, not an atomic replacement: a kill may leave it torn.
UndoChunks ==
    /\ pc = "undo_chunks"
    /\ chunks' = IF saved.chunks = None THEN chunks ELSE saved.chunks
    /\ Goto("undo_index")
    /\ UNCHANGED <<manifest, raw, index, backups, log, sessionFile, overdue,
                   todo, draft, acc, saved, serving, withdrawn, budget>>

UndoIndex ==
    /\ pc = "undo_index"
    /\ index' = saved.index
    /\ Goto("undo_rest")
    /\ UNCHANGED <<manifest, raw, chunks, backups, log, sessionFile, overdue,
                   todo, draft, acc, saved, serving, withdrawn, budget>>

\* The removal log and the saved sessions; the command ends with the error.
UndoRest ==
    /\ pc = "undo_rest"
    /\ log' = saved.log /\ sessionFile' = saved.session
    /\ pc' = "idle" /\ cmd' = NoCommand /\ last' = NoCommand
    /\ todo' = {} /\ draft' = Fresh /\ acc' = [t \in Texts |-> None]
    /\ saved' = NothingSaved
    /\ UNCHANGED <<manifest, raw, chunks, index, backups, overdue,
                   serving, withdrawn, budget>>

-----------------------------------------------------------------------------
(* Faults *)

Removing == pc \in {"manifest", "filter", "stage", "backup", "swap", "log", "unlink"}
            /\ cmd.name # "rebuild"
Undoing == pc \in {"undo_manifest", "undo_chunks", "undo_index", "undo_rest"}

Drop == /\ pc' = "idle" /\ cmd' = NoCommand /\ last' = NoCommand
        /\ todo' = {} /\ draft' = Fresh /\ acc' = [t \in Texts |-> None]
        /\ saved' = NothingSaved

\* An exception: a removal undoes itself, another command just stops.
Fault ==
    /\ pc # "idle" /\ ~Undoing /\ budget.incidents > 0
    /\ budget' = [budget EXCEPT !.incidents = @ - 1]
    /\ IF Removing THEN Goto("undo_manifest") /\ UNCHANGED <<todo, draft, acc, saved>>
       ELSE Drop
    /\ UNCHANGED <<files, overdue, serving, withdrawn>>

\* The process is killed; a chunks file being restored in place may be torn.
Kill ==
    /\ pc # "idle" /\ budget.incidents > 0
    /\ budget' = [budget EXCEPT !.incidents = @ - 1]
    /\ \/ chunks' = chunks
       \/ pc = "undo_chunks" /\ saved.chunks # None /\ chunks' = Torn
    /\ Drop
    /\ UNCHANGED <<manifest, raw, index, backups, log, sessionFile, overdue,
                   serving, withdrawn>>

DayPasses ==
    /\ pc = "idle" /\ ~overdue /\ overdue' = TRUE
    /\ UNCHANGED <<files, local, serving, withdrawn, budget>>

-----------------------------------------------------------------------------
(* The server: loads sessions and index, builds the index when it does not *)
(* fit the chunks file, and before every search compares the two again.    *)

\* Mutant: the loaded index is searched without a look at the chunks file.
FitsOnceLoaded == loaded # None

Fits == loaded # None /\ loaded = chunks

ServerStart ==
    /\ server = "down" /\ chunks # Torn /\ budget.starts > 0
    /\ budget' = [budget EXCEPT !.starts = @ - 1]
    /\ quotes' = IF sessionFile = None THEN {} ELSE sessionFile
    /\ loaded' = index
    /\ server' = IF chunks # None /\ index # chunks THEN "building" ELSE "up"
    /\ permitted' = None
    /\ UNCHANGED <<files, overdue, local, answer, withdrawn>>

\* build_index reads the chunks; replace backs the file up under the name of
\* the snapshot the server has loaded, whatever the file holds by now.
ServerBuild ==
    /\ server = "building" /\ Readable(chunks)
    /\ backups' = IF index = None \/ loaded = None \/ \E b \in backups : b.name = loaded
                  THEN backups
                  ELSE backups \cup {[name |-> loaded, content |-> index]}
    /\ loaded' = chunks /\ server' = "replacing"
    /\ UNCHANGED <<manifest, raw, chunks, index, log, sessionFile, overdue,
                   local, quotes, permitted, answer, withdrawn, budget>>

ServerReplace ==
    /\ server = "replacing"
    /\ index' = loaded /\ server' = "up"
    /\ UNCHANGED <<manifest, raw, chunks, backups, log, sessionFile, overdue,
                   local, loaded, quotes, permitted, answer, withdrawn, budget>>

ServerStop ==
    /\ server # "down"
    /\ server' = "down" /\ loaded' = None /\ quotes' = {} /\ permitted' = None
    /\ UNCHANGED <<files, overdue, local, answer, withdrawn, budget>>

\* search: validate_index, which reads the chunks file again.
AskValidate ==
    /\ server = "up" /\ permitted = None /\ budget.asks > 0
    /\ Fits
    /\ budget' = [budget EXCEPT !.asks = @ - 1]
    /\ permitted' = Sources \ withdrawn
    /\ UNCHANGED <<files, overdue, local, server, loaded, quotes, answer, withdrawn>>

\* The results come from the loaded index; the turn that quotes them is saved.
AskAnswer ==
    /\ permitted # None
    /\ \E R \in SUBSET OwnersIn(loaded) \ {{}} :
         /\ answer' \in R
         /\ quotes' = quotes \cup R /\ sessionFile' = quotes \cup R
    /\ permitted' = None
    /\ UNCHANGED <<manifest, raw, chunks, index, backups, log, overdue,
                   local, server, loaded, withdrawn, budget>>

-----------------------------------------------------------------------------
Collecting == \/ \E force \in BOOLEAN, only \in {Sources} \cup {{s} : s \in Sources} :
                   StartCollect(force, only)
              \/ CollectReused \/ CollectFailed \/ CollectManifest \/ CollectChunks
              \/ \E t \in Texts : CollectFetched(t)

Taking == \/ \E only \in {Sources} \cup {{s} : s \in Sources} : StartRemove("remove", only)
          \/ StartRemove("purge", Sources) \/ StartPurge \/ StartExpire
          \/ RemoveManifest \/ FilterChunks \/ AppendLog \/ UnlinkSessions \/ PurgeIndex
          \/ UndoManifest \/ UndoChunks \/ UndoIndex \/ UndoRest

Rebuilding == StartRebuild \/ Stage \/ Backup \/ Swap

Serving == ServerStart \/ ServerBuild \/ ServerReplace \/ ServerStop
           \/ AskValidate \/ AskAnswer

Next == Prepare \/ Collecting \/ ReprocessLocal \/ Rebuilding \/ Rollback
        \/ Taking \/ Fault \/ Kill \/ DayPasses \/ Serving

Spec == Init /\ [][Next]_vars

-----------------------------------------------------------------------------
(* Properties *)

Saved == [manifest : {None} \cup [Sources -> Record], chunks : {None, Torn} \cup Owners,
          index : {None} \cup Owners, log : SUBSET SUBSET Sources,
          session : {None} \cup SUBSET Sources]
Labels == {"idle", "collect_one", "collect_chunks", "stage", "backup", "swap", "manifest",
           "filter", "log", "unlink", "purge", "undo_manifest", "undo_chunks",
           "undo_index", "undo_rest"}
Command(names) == [name : names, force : BOOLEAN, only : SUBSET Sources]
Running == {"none", "collect", "rebuild", "remove", "purge", "expire"}

TypeOK ==
    /\ manifest \in {None} \cup [Sources -> Record]
    /\ raw \in [Sources -> Texts \cup {None}]
    /\ chunks \in {None, Torn} \cup Owners
    /\ index \in {None} \cup Owners /\ loaded \in {None} \cup Owners
    /\ backups \subseteq [name : Owners, content : Owners]
    /\ log \subseteq SUBSET Sources
    /\ sessionFile \in {None} \cup SUBSET Sources /\ quotes \subseteq Sources
    /\ pc \in Labels /\ cmd \in Command(Running)
    /\ last \in Command(Running \cup {"prepare", "reprocess", "rollback"})
    /\ todo \subseteq Sources /\ draft \in [Sources -> Record] /\ acc \in Owners
    /\ saved \in Saved
    /\ server \in {"down", "building", "replacing", "up"}
    /\ withdrawn \subseteq Sources
    /\ permitted \in {None} \cup SUBSET Sources /\ answer \in {None} \cup Sources

\* The chunks file holds no passage of a document that a completed removal has
\* taken out, whatever was collected, undone, reprocessed or killed since
\* (service.py remove, collect, reprocess_local).
WithdrawnLeftChunks ==
    Readable(chunks) => OwnersIn(chunks) \cap withdrawn = {}

\* A collection that ends normally repairs what a killed one left: the page of
\* every active document it could read is the one the manifest knows, and its
\* passage can be found (service.py:309-311 writes the manifest first).
CollectRepairs ==
    (last.name = "collect" /\ last.only = Sources) =>
        \A s \in Sources :
            manifest[s].active /\ manifest[s].status \in {"collected", "reused"} =>
                /\ manifest[s].hash = raw[s]
                /\ Readable(chunks) /\ chunks[raw[s]] # None

\* Reprocessing the local pages leaves passages of active documents only, also
\* after a removal was killed between the manifest and the chunks.
ReprocessRepairs ==
    last.name = "reprocess" =>
        /\ Readable(chunks)
        /\ \A s \in OwnersIn(chunks) : manifest # None /\ manifest[s].active

\* No answer uses a document withdrawn before its search began: an index that a
\* removal has replaced, on disk or in the memory of a server that has not
\* restarted, is not searched (service.py:521-523 of retrieval).  The abstract
\* withdrawals change when the log entry is written (AppendLog) and when
\* prepare, collect or the undoing of a removal takes a document back.
Promise == INSTANCE Withdrawals WITH Documents <- Sources, NoSearch <- None
ImplementsWithdrawals == Promise!Spec
=============================================================================

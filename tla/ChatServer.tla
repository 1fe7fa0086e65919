----------------------------- MODULE ChatServer -----------------------------
(***************************************************************************)
(* Chat requests served concurrently over one unlocked SessionStore:       *)
(* ConversationalRagOrchestrator.ask and stream, HistoryChatService.answer *)
(* (the v1 API, with and without a session), session creation and reset,   *)
(* the session file they all rewrite, and a crash and restart of the       *)
(* server.  FastAPI runs these handlers in a thread pool, so every step    *)
(* below can be interleaved with steps of other requests.                  *)
(***************************************************************************)
EXTENDS SessionStore

CONSTANTS
  SessionIds,    \* uuids that can be issued
  NoSession,     \* session_id None
  Kinds,         \* which of the request kinds clients send
  Lengths,       \* whether turns may be longer than the summary's allowance
  Persistent,    \* whether SessionStore has a path
  TopK,          \* top_k
  MaxImport,     \* bound: pairs in an imported chat_history
  MaxInFlight,   \* bound: requests handled at the same time
  MaxCrashes     \* bound: crashes of the server process

AllKinds == {"ask", "stream", "answer", "oneshot", "open", "reset"}

ASSUME KindsAssumption ==
  Kinds \subseteq AllKinds /\ Lengths \subseteq BOOLEAN /\ Persistent \in BOOLEAN
ASSUME SessionAssumption == NoSession \notin SessionIds
ASSUME FinitenessAssumption == IsFiniteSet(Requests) /\ IsFiniteSet(SessionIds)
ASSUME BoundsAssumption ==
  {TopK, MaxImport, MaxInFlight, MaxCrashes} \subseteq Nat

VARIABLES
  live,      \* keys of SessionStore._sessions
  heap,      \* the ChatSession objects; a removed one is still referenced
  issued,    \* uuids handed out
  disk,      \* the session file
  server,    \* the server process
  index,     \* chunks of the index loaded by the server
  pc, loc,   \* the request threads
  found,     \* history: what retrieval returned to each session's requests
  crashes    \* counts crashes, for the bound

vars == <<live, heap, issued, disk, server, index, pc, loc, found, crashes>>
store == <<live, heap, issued>>
process == <<server, index, crashes>>

-----------------------------------------------------------------------------
(* Request threads *)

Labels ==
  { "idle", "check", "import", "create", "lookup", "route", "resolve",
    "gather", "generate", "append", "limit", "pop", "summary", "evidence",
    "window", "context", "cleanup", "reset", "save", "open", "write", "reply",
    "done" }

Image == [live: SUBSET SessionIds, heap: [SessionIds -> Session]]
EmptyImage == [live |-> {}, heap |-> [s \in SessionIds |-> NewSession]]
Snapshot ==
  [live |-> live, heap |-> [s \in SessionIds |-> IF s \in live THEN heap[s] ELSE NewSession]]

\* "errored" is a reply with status llm_error, "failed" an exception.
Outcomes == {"none", "answered", "errored", "failed", "rejected", "lost"}

Local ==
  [ kind: AllKinds, target: SessionIds \cup {NoSession},
    sid: SessionIds \cup {NoSession},
    valid: BOOLEAN, long: BOOLEAN,   \* the question passes _validate; its turn is long
    left: 0..MaxImport,              \* history pairs still to import
    guarded: BOOLEAN,                \* inside the try of answer()
    subject: Focus, chunks: SUBSET Chunks,
    fresh: BOOLEAN,                  \* retrieval_performed
    toEvidence: BOOLEAN, toContext: BOOLEAN,
    summary: Seq(Turn),              \* the summary add_turn is about to assign
    then: Labels,                    \* where to go on after _save
    size: Nat, image: Image,         \* _save's iteration and payload
    outcome: Outcomes ]

IdleLocal ==
  [ kind |-> "open", target |-> NoSession, sid |-> NoSession, valid |-> TRUE,
    long |-> FALSE, left |-> 0, guarded |-> FALSE, subject |-> NoSubject,
    chunks |-> {}, fresh |-> FALSE, toEvidence |-> FALSE, toContext |-> FALSE,
    summary |-> <<>>, then |-> "done", size |-> 0, image |-> EmptyImage,
    outcome |-> "none" ]

InFlight == {r \in Requests : pc[r] \notin {"idle", "done"}}

At(r, l) == server = "up" /\ pc[r] = l
Goto(r, l) == pc' = [pc EXCEPT ![r] = l]
SetLocal(r, l) == loc' = [loc EXCEPT ![r] = l]

End(l) == IF l.guarded THEN "cleanup" ELSE "reply"

\* Fault: an error returns without the finally of answer().
LeaveAtOnce(r, outcome) ==
  /\ Goto(r, IF outcome \in {"failed", "rejected"} THEN "reply" ELSE End(loc[r]))
  /\ SetLocal(r, [loc[r] EXCEPT !.outcome = outcome])

\* Finishing a request, inside answer()'s try or not.
Leave(r, outcome) ==
  /\ Goto(r, End(loc[r]))
  /\ SetLocal(r, [loc[r] EXCEPT !.outcome = outcome])

\* An exception that no handler of the request catches.
Raise(r) == Leave(r, "failed") /\ UNCHANGED store

\* Store methods end in _save, which does nothing without a path.
SaveThen(r, next, l) ==
  /\ Goto(r, IF Persistent THEN "save" ELSE next)
  /\ SetLocal(r, [l EXCEPT !.then = next])

\* Fault: the session kept in an attribute of the shared orchestrator.
SharedSession(r) == IF live = {} THEN loc[r].sid ELSE CHOOSE s \in live : TRUE

\* The local variable session of the handler.
SessionOf(r) == loc[r].sid

SetSession(s, value) == heap' = [heap EXCEPT ![s] = value]

Init ==
  /\ live = {}
  /\ heap = [s \in SessionIds |-> NewSession]
  /\ issued = {}
  /\ disk = [state |-> "absent", image |-> EmptyImage]
  /\ server = "up"
  /\ index = Chunks
  /\ pc = [r \in Requests |-> "idle"]
  /\ loc = [r \in Requests |-> IdleLocal]
  /\ found = [s \in SessionIds |-> {}]
  /\ crashes = 0

-----------------------------------------------------------------------------
(* Entry points *)

FirstLabel ==
  [ ask |-> "lookup", stream |-> "lookup", answer |-> "check",
    oneshot |-> "create", open |-> "create", reset |-> "reset" ]

\* The ids that replies have told to clients.
Known ==
  {loc[q].sid : q \in {p \in Requests :
     /\ loc[p].kind \in {"open", "ask", "stream"} /\ pc[p] = "done"
     /\ loc[p].outcome \in {"answered", "errored"}}}

Arrive(r) ==
  /\ At(r, "idle")
  /\ Cardinality(InFlight) < MaxInFlight
  /\ \E kind \in Kinds, target \in Known \cup {NoSession},
        valid \in BOOLEAN, long \in Lengths :
       /\ kind \in {"answer", "reset"} => target # NoSession
       /\ kind \in {"open", "oneshot"} => target = NoSession
       /\ kind \in {"open", "reset"} => valid
       /\ Goto(r, FirstLabel[kind])
       /\ SetLocal(r, [IdleLocal EXCEPT !.kind = kind, !.target = target,
                                        !.valid = valid, !.long = long])
  /\ UNCHANGED <<store, disk, process, found>>

\* answer() with a session_id: an unknown one is refused.
CheckSession(r) ==
  /\ At(r, "check")
  /\ IF loc[r].target \notin live
     THEN Leave(r, "rejected")
     ELSE \E n \in 0..MaxImport :
            /\ heap[loc[r].target].turns # <<>> => n = 0
            /\ SetLocal(r, [loc[r] EXCEPT !.sid = loc[r].target, !.left = n])
            /\ Goto(r, "import")
  /\ UNCHANGED <<store, disk, process, found>>

HistoryOverrun(l) == l.left < 0      \* fault: one pair too many
HistoryImported(l) == l.left = 0

\* The loop over chat_history, one add_turn per pair.
ImportTurn(r) ==
  /\ At(r, "import")
  /\ LET s == SessionOf(r) IN
     IF HistoryImported(loc[r])
     THEN /\ Goto(r, "lookup")
          /\ SetLocal(r, [loc[r] EXCEPT !.target = s,
                                        !.guarded = loc[r].kind = "oneshot"])
          /\ UNCHANGED store
     ELSE IF s \notin live
     THEN Raise(r)
     ELSE /\ SetSession(s, AppendTurn(heap[s],
                 [by |-> r, imported |-> TRUE, long |-> FALSE]))
          /\ SetLocal(r, [loc[r] EXCEPT !.left = @ - 1, !.then = "import"])
          /\ Goto(r, "limit")
          /\ UNCHANGED <<live, issued>>
  /\ UNCHANGED <<disk, process, found>>

\* SessionStore.create
CreateSession(r) ==
  /\ At(r, "create")
  /\ \E s \in SessionIds \ issued, n \in 0..MaxImport :
       /\ loc[r].kind # "oneshot" => n = 0
       /\ live' = live \cup {s}
       /\ issued' = issued \cup {s}
       /\ SetSession(s, NewSession)
       /\ SaveThen(r, CASE loc[r].kind = "open" -> "reply"
                        [] loc[r].kind = "oneshot" /\ loc[r].target = NoSession -> "import"
                        [] loc[r].kind = "stream" -> "resolve"
                        [] OTHER -> "route",
                   [loc[r] EXCEPT !.sid = s, !.left = n,
                      !.outcome = IF loc[r].kind = "open" THEN "answered" ELSE @])
  /\ UNCHANGED <<disk, process, found>>

\* ask and stream: _validate, then get_or_create.
LookupSession(r) ==
  /\ At(r, "lookup")
  /\ IF ~loc[r].valid
     THEN Leave(r, "rejected")
     ELSE IF loc[r].target \in live
     THEN /\ SetLocal(r, [loc[r] EXCEPT !.sid = loc[r].target])
          /\ Goto(r, IF loc[r].kind = "stream" THEN "resolve" ELSE "route")
     ELSE Goto(r, "create") /\ UNCHANGED loc
  /\ UNCHANGED <<store, disk, process, found>>

\* Fault: reset leaves the file alone.
ResetInMemory(r) ==
  /\ At(r, "reset")
  /\ live' = live \ {loc[r].target}
  /\ Goto(r, "reply")
  /\ SetLocal(r, [loc[r] EXCEPT !.outcome = "answered", !.sid = loc[r].target])
  /\ UNCHANGED <<heap, issued, disk, process, found>>

\* SessionStore.reset, asked for by a client.
ResetSession(r) ==
  /\ At(r, "reset")
  /\ LET result == [loc[r] EXCEPT !.outcome = "answered", !.sid = loc[r].target] IN
     IF loc[r].target \in live
     THEN live' = live \ {loc[r].target} /\ SaveThen(r, "reply", result)
     ELSE UNCHANGED live /\ Goto(r, "reply") /\ SetLocal(r, result)
  /\ UNCHANGED <<heap, issued, disk, process, found>>

\* The finally of answer(): a session made for one request is removed.
RemoveEphemeral(r) ==
  /\ At(r, "cleanup")
  /\ LET l == [loc[r] EXCEPT !.guarded = FALSE] IN
     IF l.target \in live
     THEN live' = live \ {l.target} /\ SaveThen(r, "reply", l)
     ELSE UNCHANGED live /\ Goto(r, "reply") /\ SetLocal(r, l)
  /\ UNCHANGED <<heap, issued, disk, process, found>>

\* What is left of a request whose handler has returned.
Ended(l, outcome) ==
  [IdleLocal EXCEPT !.kind = l.kind, !.target = l.target, !.sid = l.sid,
                    !.outcome = outcome]

Reply(r) ==
  /\ At(r, "reply")
  /\ Goto(r, "done")
  /\ SetLocal(r, Ended(loc[r], loc[r].outcome))
  /\ UNCHANGED <<store, disk, process, found>>

-----------------------------------------------------------------------------
(* ask and stream: resolution, evidence, generation *)

AfterEvidence(l) == IF l.toContext THEN "context" ELSE End(l)
AfterTurn(l) == IF l.toEvidence THEN "evidence" ELSE AfterEvidence(l)

\* track.should_retrieve is false: an answer without evidence.
AnswerWithoutRetrieval(r) ==
  /\ At(r, "route")
  /\ SetLocal(r, [loc[r] EXCEPT !.outcome = "answered"])
  /\ Goto(r, "append")
  /\ UNCHANGED <<store, disk, process, found>>

\* The modes of the request are parsed after the session was made or found: a
\* refused one leaves the new session behind, and its id is never told.
RejectMode(r) ==
  /\ At(r, "route") /\ loc[r].kind = "ask"
  /\ Leave(r, "rejected")
  /\ UNCHANGED <<store, disk, process, found>>

\* context_resolver.resolve and the first update_context.
ResolveContext(r) ==
  /\ At(r, "route") \/ At(r, "resolve")
  /\ LET s == SessionOf(r) IN
     \E subject \in Subjects \cup {heap[s].focus, heap[s].anchor} :
       IF s \notin live
       THEN Raise(r)
       ELSE /\ SetSession(s, [heap[s] EXCEPT !.focus = subject])
            /\ SaveThen(r, "gather", [loc[r] EXCEPT !.subject = subject])
            /\ UNCHANGED <<live, issued>>
  /\ UNCHANGED <<disk, process, found>>

\* What one retrieval returns: search validates the index, applies the
\* thresholds and _select keeps at most top_k chunks.
Hits == {h \in SUBSET index : Cardinality(h) <= TopK}

RememberedUnchecked(chunks) == {chunks}   \* fault: "if chunk_id in by_id" dropped

\* _remembered_evidence: chunk ids of an earlier turn that are still indexed.
Remembered(chunks) == {m \in SUBSET (chunks \cap index) : Cardinality(m) <= TopK}

EarlierEvidence(s) == {{}} \cup {s.evidence[i].chunks : i \in DOMAIN s.evidence}
Recalled(s) == UNION {Remembered(e) : e \in EarlierEvidence(s)}

\* The request kinds that may answer from the latest evidence instead of searching.
Reuses == {"no", "expand", "transform"}
NeedsNew(reuse, remembered, detailed) ==
  CASE reuse = "expand" -> remembered = {} \/ ~detailed
    [] reuse = "transform" -> remembered = {}
    [] OTHER -> TRUE

\* The chunks after retrieval, or else after the fallback to an older turn.
Composed(remembered, hits, older) ==
  IF remembered \cup hits # {} THEN remembered \cup hits ELSE older

\* _prepare_turn_evidence after the first update_context, and the budget that
\* may drop some of the chunks.  Late searches (actors, facets, comparisons)
\* replace or extend the chunks without touching retrieval_performed.
GatherEvidence(r) ==
  /\ At(r, "gather")
  /\ LET s == SessionOf(r) IN
     \E reuse \in Reuses, detailed \in BOOLEAN, hits \in Hits, late \in Hits,
        remembered \in Remembered(LatestEvidence(heap[s])),
        older \in Recalled(heap[s]) :
       LET fresh == NeedsNew(reuse, remembered, detailed) IN
       /\ reuse = "no" => remembered = {}
       /\ ~fresh => hits = {}
       /\ found' = [found EXCEPT ![s] = @ \cup hits \cup late]
       /\ \E chunks \in SUBSET (Composed(remembered, hits, older) \cup late) :
            SetLocal(r, [loc[r] EXCEPT !.chunks = chunks, !.fresh = fresh])
  /\ Goto(r, "generate")
  /\ UNCHANGED <<store, disk, process>>

\* An independent question whose claim the evidence does not support: all of
\* it is dropped, and only a subject found in a chunk's title is remembered.
RejectPremise(r) ==
  /\ At(r, "gather")
  /\ LET s == SessionOf(r) IN
     \E hits \in Hits, late \in Hits, older \in Recalled(heap[s]),
        verified \in BOOLEAN :
     \E chunks \in SUBSET late :
       LET l == [loc[r] EXCEPT !.chunks = chunks, !.fresh = TRUE] IN
       /\ Composed({}, hits, older) # {}
       /\ verified => l.subject # NoSubject
       /\ found' = [found EXCEPT ![s] = @ \cup hits \cup late]
       /\ IF ~verified
          THEN Goto(r, "generate") /\ SetLocal(r, l) /\ UNCHANGED store
          ELSE IF s \notin live
          THEN Raise(r)
          ELSE /\ SetSession(s, [heap[s] EXCEPT !.focus = l.subject,
                                                !.anchor = l.subject])
               /\ SaveThen(r, "generate", l)
               /\ UNCHANGED <<live, issued>>
  /\ UNCHANGED <<disk, process>>

\* Retrieval raises, or _assert_mode_boundary refuses its chunks.
FailRetrieval(r) ==
  /\ At(r, "gather")
  /\ Raise(r)
  /\ UNCHANGED <<disk, process, found>>

\* Fault: the context follows an answer without evidence too.
AlwaysUpdateContext(r) ==
  /\ At(r, "generate") /\ loc[r].kind # "stream"
  /\ SetLocal(r, [loc[r] EXCEPT !.outcome = "answered", !.toContext = TRUE,
                                !.toEvidence = loc[r].chunks # {}])
  /\ Goto(r, "append")
  /\ UNCHANGED <<store, disk, process, found>>

\* ask: no chunks, comparison, related evidence, the LLM or its extractive
\* fallback all end by recording the turn, an LLM error too (with answer "").
GenerateAnswer(r) ==
  /\ At(r, "generate") /\ loc[r].kind # "stream"
  /\ \E outcome \in {"answered", "errored"} :
       /\ outcome = "errored" => loc[r].chunks # {}
       /\ SetLocal(r, [loc[r] EXCEPT !.outcome = outcome,
            !.toEvidence = loc[r].chunks # {} /\ loc[r].fresh,
            !.toContext = loc[r].chunks # {}])
  /\ Goto(r, "append")
  /\ UNCHANGED <<store, disk, process, found>>

\* stream: which records follow the turn depends on how the answer was made.
Endings == {"insufficient", "comparison", "related", "error", "completed"}
StreamAnswer(r) ==
  /\ At(r, "generate") /\ loc[r].kind = "stream"
  /\ \E ending \in Endings :
       /\ (ending = "insufficient") <=> (loc[r].chunks = {})
       /\ SetLocal(r, [loc[r] EXCEPT
            !.outcome = IF ending = "error" THEN "errored" ELSE "answered",
            !.toEvidence = ending \in {"related", "completed"} /\ loc[r].fresh,
            !.toContext = ending = "completed"])
  /\ Goto(r, "append")
  /\ UNCHANGED <<store, disk, process, found>>

\* stream: the model's stream stops without a completed event or completes
\* with an unusable text; nothing of the turn is recorded.
BreakStream(r) ==
  /\ At(r, "generate") /\ loc[r].kind = "stream" /\ loc[r].chunks # {}
  /\ Leave(r, "failed")
  /\ UNCHANGED <<store, disk, process, found>>

-----------------------------------------------------------------------------
(* Recording a turn: SessionStore.add_turn, add_evidence_turn, update_context *)

RecordTurn(r) ==
  /\ At(r, "append")
  /\ LET s == SessionOf(r) IN
     IF s \notin live
     THEN Raise(r)
     ELSE /\ SetSession(s, AppendTurn(heap[s],
                 [by |-> r, imported |-> FALSE, long |-> loc[r].long]))
          /\ SetLocal(r, [loc[r] EXCEPT !.then = AfterTurn(loc[r])])
          /\ Goto(r, "limit")
          /\ UNCHANGED <<live, issued>>
  /\ UNCHANGED <<disk, process, found>>

CheckLimit(r) ==
  /\ At(r, "limit")
  /\ IF OverLimit(heap[SessionOf(r)])
     THEN Goto(r, "pop") /\ UNCHANGED loc
     ELSE SaveThen(r, loc[r].then, loc[r])
  /\ UNCHANGED <<store, disk, process, found>>

\* pop(0); the new summary is computed from the one read here.
EvictTurn(r) ==
  /\ At(r, "pop")
  /\ LET s == SessionOf(r)
         value == heap[s] IN
     /\ SetSession(s, PopOldest(value))
     /\ SetLocal(r, [loc[r] EXCEPT
          !.summary = Summarised(value.summary, Head(value.turns))])
  /\ Goto(r, "summary")
  /\ UNCHANGED <<live, issued, disk, process, found>>

AssignSummary(r) ==
  /\ At(r, "summary")
  /\ LET s == SessionOf(r) IN
     SetSession(s, [heap[s] EXCEPT !.summary = loc[r].summary])
  /\ SaveThen(r, loc[r].then, loc[r])
  /\ UNCHANGED <<live, issued, disk, process, found>>

RecordEvidence(r) ==
  /\ At(r, "evidence")
  /\ LET s == SessionOf(r) IN
     IF s \notin live
     THEN Raise(r)
     ELSE /\ SetSession(s, AppendEvidence(heap[s],
                 [by |-> r, chunks |-> loc[r].chunks]))
          /\ Goto(r, "window")
          /\ UNCHANGED <<live, issued, loc>>
  /\ UNCHANGED <<disk, process, found>>

TrimEvidence(r) ==
  /\ At(r, "window")
  /\ LET s == SessionOf(r) IN SetSession(s, KeepRecentEvidence(heap[s]))
  /\ SaveThen(r, AfterEvidence(loc[r]), loc[r])
  /\ UNCHANGED <<live, issued, disk, process, found>>

\* Fault: update_context without its _save.
UpdateContextUnsaved(r) ==
  /\ At(r, "context") /\ loc[r].sid \in live
  /\ SetSession(loc[r].sid, [heap[loc[r].sid] EXCEPT !.focus = loc[r].subject,
                                                    !.anchor = loc[r].subject])
  /\ Goto(r, End(loc[r]))
  /\ UNCHANGED <<live, issued, disk, process, found, loc>>

UpdateContext(r) ==
  /\ At(r, "context")
  /\ LET s == SessionOf(r) IN
     IF s \notin live
     THEN Raise(r)
     ELSE /\ SetSession(s, [heap[s] EXCEPT !.focus = loc[r].subject,
                                           !.anchor = loc[r].subject])
          /\ SaveThen(r, End(loc[r]), loc[r])
          /\ UNCHANGED <<live, issued>>
  /\ UNCHANGED <<disk, process, found>>

-----------------------------------------------------------------------------
(* SessionStore._save *)

BeginSave(r) ==
  /\ At(r, "save")
  /\ SetLocal(r, [loc[r] EXCEPT !.size = Cardinality(live)])
  /\ Goto(r, "open")
  /\ UNCHANGED <<store, disk, process, found>>

\* The iteration over the dict ends, or raises because another thread changed
\* its size; then write_text opens, and so empties, the file.
OpenFile(r) ==
  /\ At(r, "open")
  /\ IF Cardinality(live) # loc[r].size
     THEN Raise(r) /\ UNCHANGED disk
     ELSE /\ SetLocal(r, [loc[r] EXCEPT !.image = Snapshot])
          /\ disk' = [state |-> "empty", image |-> EmptyImage]
          /\ Goto(r, "write")
          /\ UNCHANGED store
  /\ UNCHANGED <<process, found>>

\* Each writer writes from the start of the file.  Over a text that another
\* writer left there since, the longer of the two shows through.
WriteFile(r) ==
  /\ At(r, "write")
  /\ \/ disk' = [state |-> "whole", image |-> loc[r].image]
     \/ /\ disk.state # "empty" /\ disk.image # loc[r].image
        /\ disk' = [state |-> "torn", image |-> EmptyImage]
  /\ Goto(r, loc[r].then)
  /\ SetLocal(r, [loc[r] EXCEPT !.image = EmptyImage, !.size = 0])
  /\ UNCHANGED <<store, process, found>>

-----------------------------------------------------------------------------
(* The server process *)

Crash ==
  /\ server = "up" /\ crashes < MaxCrashes
  /\ server' = "down" /\ crashes' = crashes + 1
  /\ live' = {} /\ heap' = [s \in SessionIds |-> NewSession]
  /\ pc' = [r \in Requests |-> IF r \in InFlight THEN "done" ELSE pc[r]]
  /\ loc' = [r \in Requests |->
               IF r \in InFlight
               THEN Ended(loc[r], "lost") ELSE loc[r]]
  /\ UNCHANGED <<issued, disk, index, found>>

\* SessionStore._load.  The index may have been rebuilt meanwhile.
Restart ==
  /\ server = "down"
  /\ index' \in SUBSET Chunks
  /\ CASE disk.state = "whole" ->
            server' = "up" /\ live' = disk.image.live /\ heap' = disk.image.heap
       [] disk.state = "absent" -> server' = "up" /\ UNCHANGED <<live, heap>>
       [] OTHER -> server' = "refused" /\ UNCHANGED <<live, heap>>
  /\ UNCHANGED <<issued, disk, pc, loc, found, crashes>>

-----------------------------------------------------------------------------

Handle(r) ==
  \/ CheckSession(r) \/ ImportTurn(r) \/ CreateSession(r) \/ LookupSession(r)
  \/ ResetSession(r) \/ RemoveEphemeral(r) \/ Reply(r)
  \/ AnswerWithoutRetrieval(r) \/ RejectMode(r) \/ ResolveContext(r)
  \/ GatherEvidence(r) \/ RejectPremise(r) \/ FailRetrieval(r)
  \/ GenerateAnswer(r) \/ StreamAnswer(r) \/ BreakStream(r)
  \/ RecordTurn(r) \/ CheckLimit(r) \/ EvictTurn(r) \/ AssignSummary(r)
  \/ RecordEvidence(r) \/ TrimEvidence(r) \/ UpdateContext(r)
  \/ BeginSave(r) \/ OpenFile(r) \/ WriteFile(r)

Next == (\E r \in Requests : Arrive(r) \/ Handle(r)) \/ Crash \/ Restart

Spec == Init /\ [][Next]_vars

-----------------------------------------------------------------------------
(* Properties *)

\* Every variable keeps the shape its code gives it.
TypeOK ==
  /\ live \subseteq SessionIds /\ issued \subseteq SessionIds
  /\ heap \in [SessionIds -> Session]
  /\ disk \in [state: {"absent", "empty", "torn", "whole"}, image: Image]
  /\ server \in {"up", "down", "refused"}
  /\ index \subseteq Chunks
  /\ pc \in [Requests -> Labels]
  /\ loc \in [Requests -> Local]
  /\ found \in [SessionIds -> SUBSET Chunks]
  /\ crashes \in 0..MaxCrashes

Recording(s, labels) == {r \in Requests : pc[r] \in labels /\ SessionOf(r) = s}

\* add_turn and add_evidence_turn keep the last max_turns entries although
\* several threads append to one session before any of them has trimmed it:
\* whatever is over the limit is still owed by a thread that will remove it.
WindowsBounded ==
  \A s \in SessionIds :
    /\ Len(heap[s].turns) <= MaxTurns + Cardinality(Recording(s, {"limit", "pop"}))
    /\ Len(heap[s].evidence) <= MaxTurns + Cardinality(Recording(s, {"window"}))

Entries(session) ==
  {session.turns[i].by : i \in DOMAIN session.turns} \cup
  {session.summary[i].by : i \in DOMAIN session.summary} \cup
  {session.evidence[i].by : i \in DOMAIN session.evidence}

\* No interleaving, file race or restart puts what one conversation said or
\* found (turns, summary, evidence) into another one, in memory or on disk.
SessionIsolation ==
  \A s \in SessionIds :
    \A r \in Entries(heap[s]) \cup Entries(disk.image.heap[s]) :
      s \in {loc[r].sid, loc[r].target}

\* _remembered_evidence recovers "only chunks that retrieval actually returned
\* in an earlier turn", and evidence turns hold "only identifiers of chunks
\* actually returned by retrieval": whatever a request answers from is in the
\* loaded index and was once found for this very conversation.
Grounded ==
  /\ \A s \in SessionIds : \A i \in DOMAIN heap[s].evidence :
       heap[s].evidence[i].chunks \subseteq found[s]
  /\ \A r \in InFlight : loc[r].chunks # {} =>
       loc[r].chunks \subseteq index \cap found[SessionOf(r)]

\* A subject becomes the anchor of later follow-ups only in a conversation for
\* which retrieval has returned something.
AnchorNeedsEvidence ==
  \A s \in SessionIds : heap[s].anchor # NoSubject => found[s] # {}

\* answer() without a session_id makes a session for one request and removes
\* it however the request ends: nothing of it stays once the caller has its
\* reply or its error.
EphemeralGone ==
  \A r \in Requests :
    loc[r].kind = "oneshot" /\ pc[r] = "done" /\ loc[r].outcome # "lost"
      => loc[r].sid \notin live

\* A session that reset reported as removed never comes back.
ResetIsFinal ==
  \A r \in Requests :
    loc[r].kind = "reset" /\ pc[r] = "done" /\ loc[r].outcome = "answered"
      => loc[r].target \notin live

\* Between requests the session file holds exactly the sessions in memory, so
\* a restart at that moment loses and revives nothing.
Durable ==
  server = "up" /\ InFlight = {} =>
    \/ disk.state = "absent" /\ live = {}
    \/ disk.state = "whole" /\ disk.image = Snapshot
=============================================================================

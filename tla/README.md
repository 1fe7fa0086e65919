# A TLA+ model of history_chatbot

This directory is the formal model of the program in `src/src/history_chatbot`
(a Korean-history chatbot: retrieval over a reviewed corpus, multi-turn chat,
a demo journey and a web page). It holds TLA+ modules, TLC configurations and
TLAPS proofs. Paths below are relative to `src/src/history_chatbot` unless they
start with `src/`.

    tlc -workers 2 -config ChatSequential.cfg MCChatServer     # one run
    tlapm ChatServerProofs.tla                                 # one proof module

`PROJECT.json` names, for every definition that models code, the lines it
stands for; for every run its properties; and for every property a fault of the
code that the property notices.

## 1. The system

### Parts

| Part | Code | State it keeps | Operations |
|---|---|---|---|
| Conversation sessions | `chat/session.py` | `_sessions`: id to turns, summary, evidence turns, subject, anchor; a JSON file rewritten by every change | create, get_or_create, add_turn, add_evidence_turn, update_context, reset, `_load`, `_save` |
| Chat requests | `chat/orchestrator.py` | none of its own; works on a session across retrieval and the model call | ask, stream, reset, `_prepare_turn_evidence` |
| Application service | `chat/service.py` | none; one-shot sessions while a request lasts | answer, chat, create_session, reset, readiness |
| HTTP API | `chat/api.py`, `api_models.py` | none | /v1/chat, /api/session, /api/session/{id}/journey-action, /api/chat/transition, /api/chat/piece, /api/chat/free, /sessions, /sessions/{id} |
| Demo journey | `chat/demo_journey.py` | `_states`: id to piece, completed pieces, UI state, mode, pending question, temporary context; an RLock | create, get, apply_action, `_go_next` |
| Web page | `web/static/app.js` | session id, app status, request state, last request, panel, hint; sessionStorage | initialize, sendPiece, sendFree, journeyAction, openFree, closeFree, a 700 ms timer |
| Context resolution | `chat/context_resolver.py`, `retrieval/query_normalizer.py` | none (functions of session and question) | resolve |
| Dialogue and track policy | `dialogue/` | none | situation, persona, track |
| Provisional data | `provisional/service.py`, `cli.py` | manifest, chunks, raw files, index, snapshots, removal log | select, prepare_manifest, collect, reprocess_local, remove, expire, rebuild_index, purge_all, validate |
| Vector store and index versions | `retrieval/qdrant_store.py`, `retrieval/service.py` | collection file, snapshots, loaded copy, metadata | replace, rollback, build_index, validate_index, search |
| Scoring, fusion, thresholds | `retrieval/` | none | search and ranking |
| Index preparation | `indexing/` | chunks.jsonl, manifest, tombstones | prepare, validate, eligibility |
| Ingestion and review | `ingestion/` | a document's review state and files | ingest, clean, validate, review |
| Remote LLM client | `models/remote.py`, `factory.py` | none; deadlines of a call | complete, stream_complete, readiness, retries |
| Evidence and fact packets | `chat/remote_safe.py` | none | direct evidence, fact packet, remote prompt |
| Candidate collection | `history_collection/phase_a.py`, `collectors/public_history_batch.py`, `src/scripts/collect_history_candidates_300.py`, `..._round2.py` | `data/history_candidates`: manifest, catalogs, reports, raw and extracted files | collect, exact, campaign, round2 |
| Settings and modes | `runtime.py`, `settings.py`, `app.py` | read once at start | |
| GPU worker | `src/scripts/gpu_llm_server.py` | the loaded model; one connection at a time | load, complete, health |
| Other scripts, evaluation | `src/scripts`, `evaluation/` | offline | |

### How they interact

- FastAPI runs every synchronous handler in a thread of a pool. All handlers
  share one `SessionStore`, one orchestrator, one retrieval service and one
  journey provider. Only the journey provider has a lock.
- `answer()` (the v1 API) calls the store, then `ask`, then the store again in
  its `finally`. `ask` and `stream` look the session up themselves, keep the
  object in a local variable, and call the store three times at the end of a
  turn (turn, evidence, context), each with a rewrite of the session file.
- The journey provider hands its live state object to the handlers. They
  serialise it, compare it, and in `_chat` assign to it, outside the lock.
- Conversation and journey share a session id but no life cycle:
  `DELETE /sessions/{id}` ends the conversation and leaves the journey.
- The page keeps the session id in sessionStorage and learns the server's state
  only from replies. The request state (`idle`, `loading`, ...) is its guard
  against a second request while one is under way.
- The CLI commands of `provisional/`, `ingestion/`, `indexing/` and `retrieval/`
  rewrite files that a running server has already loaded. A search compares the
  loaded index with the files first.
- The orchestrator prepares the evidence of a question (resolver, search,
  selection, fact packet), sends what it may to a remote model, and checks the
  reply against the fact packet. What it remembers of the turn (subject, people,
  record ids) is what the next question is read with.
- The remote client talks to a worker that handles one connection at a time,
  those of callers that gave up too.
- Four collectors share one directory of candidates. The two threaded ones have
  a worker per source, a bounded queue, and a main thread.

### What is hard, and what correctness means

| Part | Hard behaviour | Correct when |
|---|---|---|
| Sessions | threads interleave inside add_turn and `_save`; a session can be reset under a handler; the file is emptied before it is written; crash in between | windows stay bounded; a conversation holds only its own content, in memory and in the file; reset is final; between requests the file equals memory |
| Chat requests | state is read before retrieval and used after it; a turn is several store calls; remembered chunk ids outlive the index | an answer rests on chunks found for this conversation and still indexed; the anchor follows evidence only |
| A conversation's content | what a reference means comes from earlier turns; records are trimmed after the facts were gathered; prompt and check are put together in two places; names easily confused | what is told stands in what is cited and is about the right facility; only the client introduces referents; a rewording keeps its records |
| One-shot requests | errors at any point, resets meanwhile | nothing of the session is left after the reply |
| Demo journey | two GO_NEXT at once; readers without the lock; attribution of a change | pieces are completed one by one in order; no reply shows a piece ahead of its predecessors; who moved the journey is told so |
| Web page | timer against later requests; reload; lost replies; a question handed from one chat to the other | one request at a time; page and server agree when nothing is under way; never disabled for ever; no piece completed unseen |
| Provisional data, reviewed corpus, indexes | several files per command, exceptions and kills between them, a server with old data loaded | withdrawn or unreviewed data never answers; a later command repairs what a killed one left |
| Remote LLM | retries, deadlines, broken streams, a worker behind a queue | a completed answer is whole; every call ends; nothing fails by itself |
| Candidate collection | atomic replacement of many files undone or killed halfway; workers blocked on a queue; shares per publisher decided on arrival | the ledger is appended to only; rows have their evidence; shares hold and nothing fitting is lost; every command ends |

The hazards are listed line by line in `PROJECT.json`, with the properties that
would notice them, or why there is none.

## 2. Modules

    SessionStore            values of a conversation, pure operators
      ChatServer            requests, file, crash and restart  (EXTENDS SessionStore)
        MCChatServer        TLC instances
        ChatServerProofs    types, bounded windows, isolation, evidence, the file,
                            reset and one-shot sessions
    Lists                   selecting from sequences and sorting them
      Conversation          how a question is read: the context resolver
        Evidence            search, selection, fact packets, checks of an answer
          Dialogue          one conversation, turn after turn
            MCDialogue
            DialogueProofs  what is told, cited, sent and carried on
    DemoJourney             journey provider and its handlers
      MCDemoJourney
      DemoJourneyProofs     types, the order of the pieces, what replies show and report
      WebClient             page, network and user             (EXTENDS DemoJourney)
        MCWebClient
        WebClientProofs     what the page sends, shows and hands over
    Withdrawals             abstract: what a corpus that loses documents promises
    ProvisionalData         provisional documents, operator, server  (implements Withdrawals)
      MCProvisionalData
      ProvisionalDataProofs     removals, repairs, implements Withdrawals
    ReviewedIndex           review, preparation, index, server       (implements Withdrawals)
      MCReviewedIndex
      ReviewedIndexProofs       reviews, manifests, implements Withdrawals
    RemoteLLM               calls, worker, network
      MCRemoteLLM
      RemoteLLMProofs       whole answers, unharmed calls
    CandidateLedger         abstract: what candidates.jsonl promises
    CandidateLane           the candidate files and atomic_write
      CandidateBatch        the sequential collectors
        CandidateCampaign   the threaded collectors           (implements CandidateLedger)
          MCCollection
          CandidateProofs   files, shares, nothing lost, implements CandidateLedger

An operator under a comment "Fault:" or "Mutant:" is what a plausible bug would
make of the operator after it; `PROJECT.json` pairs them with the property that
notices.

### SessionStore, ChatServer

`SessionStore` defines the value of one conversation and what each statement of
`add_turn` and `add_evidence_turn` makes of it. `ChatServer` runs requests over
a function `heap` of such values; `live` is the key set of `_sessions`. An
object removed from `live` stays in `heap`, because a handler may still hold it.

A request is a thread with a label `pc[r]` and locals `loc[r]`. One action is
one stretch of code that touches shared state once:

| Code | Actions |
|---|---|
| handler entry, reply | `Arrive`, `Reply` |
| `answer()`: check, history import, `finally` | `CheckSession`, `ImportTurn`, `RemoveEphemeral` |
| `create`, `get_or_create`, `reset` | `CreateSession`, `LookupSession`, `ResetSession` |
| `ask`, `stream` up to generation | `AnswerWithoutRetrieval`, `RejectMode`, `ResolveContext`, `GatherEvidence`, `RejectPremise`, `FailRetrieval` |
| the answer | `GenerateAnswer`, `StreamAnswer`, `BreakStream` |
| `add_turn` | `RecordTurn` (append), `CheckLimit`, `EvictTurn` (pop and compute), `AssignSummary` |
| `add_evidence_turn`, `update_context` | `RecordEvidence`, `TrimEvidence`, `UpdateContext` |
| `_save` | `BeginSave` (start of the iteration), `OpenFile` (payload done, file emptied), `WriteFile` |
| process | `Crash`, `Restart` (`_load`, perhaps with a rebuilt index) |

Where a method raises (a session reset meanwhile: KeyError; the dictionary
resized during `_save`: RuntimeError) the action's other branch is `Raise`,
which leads to `finally` when the request is inside the `try` of `answer()`.

Texts are abstract. A turn is known by the request that recorded it and by
whether it is longer than the summary's allowance. Which branch a text takes
(situation, follow-up, comparison, unsupported premise, ...) is a choice over
all branches; what each branch does to the session is exact. Retrieval returns
any set of at most `top_k` chunks of the loaded index. The texts of answers,
guards and citations are left out.

Two writers at once give "whole" or "torn" text, as either may win or the longer
one may show through; `Restart` refuses a torn or empty file, as `_load` does.

`found` is a history variable: what retrieval returned for each conversation.

### DemoJourney, WebClient

`DemoJourney` has the same shape: request threads over `journeys`, with `lock`
for the provider's RLock. `_go_next` is three actions (`CompletePiece`,
`AdvancePiece`, `AnnouncePiece`), because readers without the lock can see the
states between them. `ReadView` is `to_dict` in the order in which it reads;
`ReadBefore` and `Compare` are the two snapshots of `journey_action`;
`MergeContext` and `StoreContext` are the read and the assignment of `_chat`.
Current piece `LastPiece + 1` is the `None` of a finished journey. `chat_mode`
and `free_ui_state` change together and are one field. Clients of `DemoJourney`
alone send anything at any time.

`WebClient` replaces those clients by the page. Each asynchronous function of
`app.js` is an action that sends (up to its `await`) and one that handles the
reply (the rest, with its `catch` and `finally`); `call[r]` is the continuation.
`StartSession` is `initialize` after its `await`s, including the fallback from a
saved session that the server no longer knows; `Earlier` are the sessions of a
server that was restarted before the page opens. `Reload` drops the continuations
and keeps sessionStorage; the server finishes what it has received.
`LoseRequest` is a network error before or after the server has acted.
`Rendered` is what `renderSession` shows. `seen` (pieces shown) and `owed`
(questions handed over, not yet asked) are history variables.

A `Patient` user waits for the timer before the next click and reloads only a
quiet page. The run assumes one; what a hasty one can do is said below.

### Conversation, Evidence, Dialogue

These three have the content that `ChatServer` leaves open. A question is a
*text*: the names it holds, in order, and its cues (the turns of phrase and the
facets that the regular expressions recognise, and the periods it names). A
record is a chunk of the corpus, made of clauses with the names, facets, persons
and dates in them. So what the resolver, the search and the checks tell apart is
kept, and Korean morphology is not.

`Conversation.Resolve` is `ConversationContextResolver.resolve`: kind of the
question, intent, place, person, subject, carried terms, search query. `Evidence`
has the search in hashing mode (`Search`, `SubjectAwareSearch`, `Find`), the
selection, `Assess` and `Packet` of `remote_safe.py`, `RemotePrompt`, and the
checks of a generated answer (`Stabilize`, `Matches`, `Extractive`).

`Dialogue` runs the requests of one conversation one after the other.
`Ask` is `ask`, `Stream` is `stream`, `Talk` an answer without retrieval; each
takes one of `Results`: the answers that may come of a question, with the model
free to tell any clause, nothing, something uncertain, to fail or to break off.
`Prepared` is `_prepare_turn_evidence`, `Remember` what the turn leaves in the
session. `Withdraw` takes a record off the disk under the running server (its
searches then find nothing, but remembered chunks are still used), `Restart`
loads what is there. `said` and `doubtful` are history variables: names the
client has brought up, and those it brought up only where nothing was found.

### ProvisionalData, ReviewedIndex, Withdrawals

`ProvisionalData` runs one operator command at a time over six files, next to a
server. A command is a chain of actions, one per file operation, with its step in
`pc` and its locals in `draft`, `acc`, `saved`. `Fault` is an exception: a removal
then undoes its files one by one (`UndoManifest` ... `UndoRest`), another command
stops. `Kill` ends the process between two operations, or inside the one write
that is not an atomic replacement. `ServerStart`, `ServerBuild`, `ServerReplace`
are a start that builds the index when it does not fit; `AskValidate` and
`AskAnswer` are `validate_index` and the rest of `search`.

`ReviewedIndex` is the other corpus, in the same form: `process`, `approve`,
`reject`, `register`; `prepare` (chunks, then manifest, both in place);
`build_index` with its backup; `rollback`; a server that refuses an index that
does not fit. `EditSource` and `EditTerms` are changes by hand. Files opened with
"w" are emptied first, so a kill leaves them as they were, empty or cut.

`Withdrawals` says in four actions what both promise: a document withdrawn before
a search begins is not in its answer. The mapping is the identity on history
variables: `withdrawn` changes when the removal log is written, or when a finished
prepare leaves a document out, and back when a command takes it in again.

### RemoteLLM

A call is one `LLMRequest`, with its attempt, the cause of the last failure and the
pieces received. Time is whether a call's deadline has passed (`Expire`). Each
client action is what happens between two looks at the clock or the socket:
`Attempt`, `WaitTimeout`, `ConnectionLost`, `ReadReply`, `Sleep`; `ReadPiece`,
`ReadEnd`, `ReadCut`, `ReadRaises`, `StreamLost` for a stream; `Disconnect` for a
closed generator. The worker (`Refuse`, `Generate`, `Respond`, `Kill`, `Launch`)
serves the head of its queue, whoever still waits for it. The streaming of the
project format has no server in the repository; `SendPiece` and `StopSending`
model it from how the client reads it. `config` is chosen once among the
environments that `validate` accepts. `readiness` is the probe.

### CandidateLane, CandidateBatch, CandidateCampaign, CandidateLedger

`CandidateLane` has the files and `atomic_write`: contents are staged, then put in
place one after the other (`ReplaceFile`); a failure undoes the done ones last
first (`RestoreFile`). `CandidateBatch` has `PhaseAExecutor.collect` and
`collect_exact` over `BatchPipeline.execute` and `RequestController`;
`CandidateCampaign` the campaign and round2: worker threads of three kinds
(`HostFetch`, `BulkList`, `JsonSearch`, `JsonFetch`, `ItemList`, `HtmlFetch`),
`Put` on the bounded queue, the main thread (`CampaignTakes`, `Round2Takes`,
`DrainDeferred`) and the writes at the end or at checkpoints. The drain stores one
deferred page a step; a pass that reaches the target breaks off, but the next one still
begins. `Kill` may stop
everything between two replacements.

`CandidateLedger` says what reviewers rely on: rows are appended, those of a run
together, and a page is accepted once. Its `ledger` is the manifest without what a
write in progress may still undo (`Ledger`).

## 3. Runs

| Run | What it covers | Result |
|---|---|---|
| `ChatConcurrent` | 3 requests, 2 at a time: create, ask, v1 with history import, reset; no file | `TypeOK`, `WindowsBounded`, `SessionIsolation`, `AnchorNeedsEvidence` hold (1.1 M states) |
| `ChatOneShot` | v1 without a session, streams, resets, 2 at a time | `EphemeralGone` holds (0.8 M) |
| `ChatSequential` | ask, stream, reset one at a time, file, one crash at any step, restart with a smaller index | `Durable`, `ResetIsFinal`, `Grounded` hold (2.0 M) |
| `ChatResetRace` | 2 at a time with the file, one crash, a reset | `ResetIsFinal` violated |
| `Dialogue` | a conversation over 6 records: one of 10 openings, any of 24 questions, one of 12 that use what came before; a record withdrawn, restarts | `CitedFacts`, `NoRivalFacts`, `ReferentsFromUsers`, `SentIsChecked`, `SufficientIsDirect`, `TransformKeepsEvidence` hold (0.09 M) |
| `DialogueTrust` | the same with the questions of one test | `NotInherited` violated |
| `JourneyServer` | 4 requests of any kind, 2 at a time, one journey, one restart | `TypeOK`, `InOrder`, `ViewNeverAhead`, `MutationReported` hold (1.9 M) |
| `JourneyPatient` | page and server, patient user, a session of an earlier server, 3 pieces, one reload or one lost call | `SingleFlight`, `FreshView`, `QuestionRestored`, `SeenBeforeCompleted`, `LoadingEnds` hold (0.21 M) |
| `ProvisionalLife` | 3 commands on 2 documents that may share a passage, one exception or kill, one start of the server, one search | `WithdrawnLeftChunks`, `CollectRepairs`, `ReprocessRepairs`, `ImplementsWithdrawals` hold (1.5 M) |
| `ReviewedIndexLife` | 5 commands on 2 documents, one kill, one edit by hand, one search | `ReviewedText`, `PreparedLoads`, `TombstonesRemember`, `ImplementsWithdrawals` hold (2.0 M) |
| `RemoteCalls` | a plain and a streamed call at one worker, one retry, one kill, one probe, four accepted environments | `AnswerWhole`, `UnharmedCompletes`, `CallsEnd` hold (0.18 M) |
| `Collection` | 2 commands out of the four, 3 sources, 4 pages, one failure, broken thread or kill | `RowsMatchEvidence`, `ReportsFollowRows`, `PublisherShare`, `NothingForgotten`, `ImplementsLedger`, `CommandsEnd` hold (0.2 M) |

Exceptions that the properties name are behaviours of the code: facts may be told
of records trimmed from the citation (`CitedFacts`); a rewording, a question for
persons or a place that is told a place, and a trimmed prompt are checked against other facts
than were sent (`SentIsChecked`); a rewording that compares, or that asks for a role
its records say nothing of, may search again, and only the first `TopK` records of the
latest answer count (`TransformKeepsEvidence`); a process
killed between its two files leaves new text under an old approval
(`ReviewedText`, until a kill); a collect run over a page of an earlier one
replaces that page's files (`RowsMatchEvidence`); streams of an
OpenAI-compatible server always fail (`UnharmedCompletes`); a worker thread that
dies of an error nobody catches is waited for for ever (`CommandsEnd`); a lost
call leaves the page behind the server (the `lost = 0` of `WebClient`).

### Where the code and its documents differ

Shown by a run:

- **A reset session comes back** (`chat/session.py:210`, `ChatResetRace`).
  `_save` builds its payload and writes it without a lock. A payload built before
  a reset can be written after the reset's own, and a restart then revives the
  session. With one request at a time the property holds (`ChatSequential`).
- **A topic is inherited from a refused premise** (`chat/context_resolver.py:533`,
  `DialogueTrust`). Whether the last turn can be trusted is read off the wording of
  its answer, and none of the orchestrator's refusals contains that wording.

Seen while modelling; the model has the behaviour, and a property that the
documents state would not hold:

- `chat/session.py:87`: a session saved between another thread's append and its pop
  is restored with more than `max_turns` turns and stays so, since `add_turn` pops
  at most once (docs/SESSION_MANAGEMENT.md:10).
- `chat/session.py:96`: a turn longer than the summary's allowance empties the
  summary when it leaves the window (docs/SESSION_MANAGEMENT.md:11).
- `chat/service.py:210`: `answer()` checks the id, `ask` looks it up again with
  `get_or_create`; a DELETE in between makes a new session (docs/CHAT_API.md:107).
- `web/static/app.js:279`: a timer enables the page while a later request is under
  way; a user who clicks within 700 ms sends two at once (docs/WEB_UI.md:80).
- `provisional/service.py:644`: a removal unlinks the saved sessions, but a running
  server writes them back from memory (docs/PROVISIONAL_DATA_REMOVAL.md:13).
- `chat/orchestrator.py:1866`: `_llm_request` never asks for a stream, so the
  OpenAI-compatible adapter takes the plain completion for a closing line and every
  stream of it ends in an error event (docs/CHAT_API.md:62). `UnharmedCompletes`
  leaves these streams out.
- `models/remote.py:475`: a stream that ends without its closing line is reported as
  not retryable, docs/LLM_SERVER_CONTRACT.md:33 says it is. A socket timeout or a
  cut body while reading is no `TransportError` and leaves the generator raw.
- `collectors/public_history_batch.py`: docstrings say that a rejected redirect and a
  safety error must stop the run; `execute` catches their base class and goes on.
- `phase_a.py:124`: exact and campaign runs count a rejected page as a new unique one.
- `src/scripts/collect_history_candidates_300.py:604, 710`: an error that a worker does
  not catch kills its thread without its last message, and the main thread waits for
  ever (docs/COLLECTION_POLICY.md:12).
- `chat/context_resolver.py:189`: a bare short name before "관련" counts as a person
  although the comment says that such names are no referents.
- `chat/orchestrator.py:393`: the budget may pass over an item in the middle, but the
  evidence is cut from the end, and the fact packet is not made again
  (docs/PRODUCTION_READINESS.md:30).

Without a document that says otherwise:

- With a session file and a second request under way, `create()` can raise from
  `_save` before `answer()` reaches its `try`; the one-shot session then stays.
  `EphemeralGone` is therefore checked without a file. So are errors of
  `add_turn` during the history import, which are outside the `try` too.
- A refused mode leaves an orphan session (`RejectMode`). Two evictions at once
  lose one summary entry (`EvictTurn`, `AssignSummary`). `_chat` can drop a context
  entry that an action has just added (`MergeContext`, `StoreContext`). A stream
  that breaks off records nothing, an LLM error in `ask` records an empty turn.
- A refused premise without a verified subject keeps the person and the period it
  named. After a rewording the last intent is "transform", so a second rewording
  is told the overview. Words that are no subject are searched for as one.
- After a kill between manifest and chunks, repeating the removal finds nothing to do;
  reprocessing repairs it (`ReprocessRepairs`). Removing the owner of a shared
  passage loses it for the other document until then.
- A build that starts while the index file is replaced backs it up under the name of
  the index it had loaded; a backup that was cut is not made again, and a rollback
  installs it. A kill that empties `sources.jsonl` makes the next prepare withdraw
  every document.
- A worker generates for callers that have given up, and looks unreachable to a
  readiness probe meanwhile. A retried 5xx or lost reply generates twice. The
  project format's `is_ready` does not look at the model.
- The drain of a campaign looks at the stop event only after it has tried a page, and
  begins another pass while the last one stored something: it can store pages beyond the
  target (`src/scripts/collect_history_candidates_300.py:1021`, `DrainDeferred`).
- A page that could not be read leaves a row whose URL makes later fetches
  duplicates. A stage's budget is looked at before the first attempt only. A kill
  uses up the name of an exact batch.

### Bounds

- *Requests* (3, or 4 in `JourneyServer`) and *at a time* (2): every hazard listed
  is a race of two handlers plus a request that set the scene. Requests are
  interchangeable, chunks too; sessions of the chat model are not treated so.
- *One chunk, one subject, `MaxTurns` 1, `SummaryRoom` 1*: the smallest values at
  which windows overflow, evidence is dropped and an index loses a chunk. Long
  turns are in no run; the theorems cover them, and all values.
- *`MaxImport` 1*: pairs of an imported history; the loop body is one action per
  pair. *One crash* reaches every file state; *one restart* of the journey server,
  *one reload*, *one loss* likewise. *No questions* in `JourneyServer`: a pending
  question is only stored there. *`MaxTimers`*: timers running at once.
- *Dialogue*: three requests are a premise or a topic, a follow-up, and one that
  uses what the follow-up left; `Asked` says what may be asked in each place. Six records: two facilities easily confused, one
  of whose records tells of the other; a person whose date stands apart; a second,
  disputed date. `PerDocument` 1, `TopK` 3, `Room` 5, `TurnCost` 1, `MaxItems` 2
  make selection, trimming and the prompt's limit all bite. One record may be
  withdrawn.
- *ProvisionalLife*: a document is collected, removed and touched again in three
  commands; two documents can share a passage. *ReviewedIndexLife*: five commands
  are what it takes to prepare, leave a document out, and prepare and build again.
  One incident, kill, edit, start and search: each property is about the first one,
  and kills leave nothing but files.
- *RemoteCalls*: two calls are one behind the other at the worker; two pieces have a
  middle to be cut at; one retry has a first and a last attempt.
- *Collection*: one source per kind of worker; two publishers, two pages with the
  same text, one in the baseline, one marked. Two commands, because each reads what
  the other wrote; queue size 1 blocks workers. A worker takes its pages in one
  order. Request retries are one step with their request, a campaign's global
  ceiling is not reached by its sources and left out, a failing restore is left out.
- *`CHECK_DEADLOCK FALSE`* everywhere: requests, commands and clicks are finite in
  number, and a server with an unreadable file stays down.

### Fairness

Three runs assume any:

- `JourneyPatient` (`LoadingEnds`): weak fairness of each request's server thread
  (threads are scheduled; none waits for anything but the lock, held for a few
  assignments) and of each handler of a reply (a fetch ends with a reply or an
  error, and the event loop runs its continuation).
- `RemoteCalls` (`CallsEnd`): of each call's own steps and of time passing its
  deadline; nothing of the worker, the network or the operator.
- `Collection` (`CommandsEnd`): of the commands and worker threads that are not
  dead; nothing of failures, kills or the operator.

Nothing is assumed of clicks, timers, losses, restarts, models or users. Everything
else is safety under `Spec`.

## 4. Proofs

For every number of requests, sessions, chunks, pieces, documents, commands, calls,
retries, crashes and restarts, for any corpus, names and questions, and for all limits:

| Theorem | Module | States |
|---|---|---|
| `Invariance` | `ChatServerProofs` | `Spec => []Inv` |
| `TypeCorrect` | `ChatServerProofs` | `Spec => []TypeOK` |
| `WindowsHold` | `ChatServerProofs` | without crashes, `[]WindowsBounded` |
| `Isolation` | `ChatServerProofs` | `Spec => []SessionIsolation` |
| `EvidenceIsGrounded` | `ChatServerProofs` | `Spec => []Grounded` |
| `AnchorsRestOnEvidence` | `ChatServerProofs` | `Spec => []AnchorNeedsEvidence` |
| `SequentialDurability` | `ChatServerProofs` | with a file and one request at a time, `[]Durable` |
| `EphemeralRemoved` | `ChatServerProofs` | without a file, or one request at a time, `[]EphemeralGone` |
| `ResetLasts` | `ChatServerProofs` | without a file, or one request at a time, `[]ResetIsFinal` |
| `ResetLastsWhileUp` | `ChatServerProofs` | `Spec => [](crashes = 0 => ResetIsFinal)` |
| `Invariance` | `DialogueProofs` | `Spec => []Inv` |
| `OnlyUsersMakeReferents` | `DialogueProofs` | `Spec => []ReferentsFromUsers` |
| `ToldIsCited` | `DialogueProofs` | `Spec => []CitedFacts` |
| `RivalsAreKeptApart` | `DialogueProofs` | `Spec => []NoRivalFacts` |
| `CheckedIsSent` | `DialogueProofs` | `Spec => []SentIsChecked` |
| `SufficiencyIsDirect` | `DialogueProofs` | `Spec => []SufficientIsDirect` |
| `RewordingsKeepEvidence` | `DialogueProofs` | `Spec => TransformKeepsEvidence` |
| `Invariance` | `DemoJourneyProofs` | `Spec => []Inv` |
| `TypeCorrect` | `DemoJourneyProofs` | `Spec => []TypeOK` |
| `PiecesInOrder` | `DemoJourneyProofs` | `Spec => []InOrder` |
| `ViewsNeverAhead` | `DemoJourneyProofs` | `Spec => []ViewNeverAhead` |
| `MutationsReported` | `DemoJourneyProofs` | `Spec => []MutationReported` |
| `PageInvariance` | `WebClientProofs` | for a patient user, `ClientSpec => []PageInv` |
| `OneRequestAtATime` | `WebClientProofs` | for a patient user, `[]SingleFlight` |
| `PageIsFresh` | `WebClientProofs` | for a patient user, `[](restarts = 0 => FreshView)` |
| `QuestionsRestored` | `WebClientProofs` | for a patient user, `[](restarts = 0 => QuestionRestored)` |
| `ShownBeforeCompleted` | `WebClientProofs` | for a patient user, `[]SeenBeforeCompleted` |
| `Invariance` | `ProvisionalDataProofs` | `Spec => []Inv` |
| `RemovalsLast` | `ProvisionalDataProofs` | `Spec => []WithdrawnLeftChunks` |
| `CollectionsRepair` | `ProvisionalDataProofs` | `Spec => []CollectRepairs` |
| `ReprocessingRepairs` | `ProvisionalDataProofs` | `Spec => []ReprocessRepairs` |
| `SearchesKeepPromise` | `ProvisionalDataProofs` | `Spec => ImplementsWithdrawals` |
| `Invariance` | `ReviewedIndexProofs` | `Spec => []Inv` |
| `TypeCorrect` | `ReviewedIndexProofs` | `Spec => []TypeOK` |
| `TextsReviewed` | `ReviewedIndexProofs` | `Spec => []ReviewedText` |
| `PreparedLoad` | `ReviewedIndexProofs` | `Spec => []PreparedLoads` |
| `TombstonesLast` | `ReviewedIndexProofs` | `Spec => []TombstonesRemember` |
| `SearchesKeepPromise` | `ReviewedIndexProofs` | `Spec => ImplementsWithdrawals` |
| `Invariance` | `RemoteLLMProofs` | `Spec => []Inv` |
| `AnswersWhole` | `RemoteLLMProofs` | `Spec => []AnswerWhole` |
| `UnharmedAnswered` | `RemoteLLMProofs` | `Spec => []UnharmedCompletes` |
| `CollInvariance` | `CandidateProofs` | `Spec => []CollInv` |
| `EvidenceFollowsRows` | `CandidateProofs` | `Spec => []RowsMatchEvidence` |
| `ReportsAreBacked` | `CandidateProofs` | `Spec => []ReportsFollowRows` |
| `SharesAreKept` | `CandidateProofs` | `Spec => []PublisherShare` |
| `NothingIsForgotten` | `CandidateProofs` | `Spec => []NothingForgotten` |
| `LedgerRefined` | `CandidateProofs` | `Spec => ImplementsLedger` |

Assumptions: those named in the modules that declare the constants
(`LimitsAssumption`, `KindsAssumption`, `SessionAssumption`,
`FinitenessAssumption`, `BoundsAssumption`, `JourneyAssumption`, `ClientAssumption`,
`OrderAssumption`,
`BoundAssumption`, `ConfigAssumption`; for the dialogue `NamesAssumption`,
`RecordsAssumption` - a list of records, each with its own place as its id, a title
that is a name, and clauses of names and dates -, `BoundsAssumption` of `Evidence`, by
which a search may return something (`retrieval/service.py:96`), and
`DialogueAssumption`, by which the questions are texts; `ValueAssumption`, which says that the values
standing for no file and for a cut file are none of the values of a file; and for
the collectors `PageAssumption` - finitely many pages and sources, apart from each
other and from `None`, every page in the list of its source -, `LaneBounds`,
`GradeAssumption`, `BatchBounds` and `CampaignAssumption`, by which the share of a
publisher never falls as candidates are added, as `publisher_cap` has it). Every run
of such a module evaluates them.

**Types.** `TypeOK` alone is not inductive: `EvictTurn` takes the head of a
sequence of turns, so the sequence must not be empty at label `pop`; a handler
past `create` must have a session. `Inv` adds what each label says of the locals
(`ThreadInv`), that live and saved ids were issued (`StoreInv`), and that nothing
runs while the server is down (`DownInv`).

**Bounded windows.** `OwedTurns` counts: turns over the limit are owed by the
threads at `limit` or `pop`. It is inductive because an append adds one turn and
one such thread, a pop removes one of each, and a thread leaves `limit` without a
pop only when it has seen the window within its limit at that moment. After a
crash the file may hold a state whose owing threads are gone, hence the condition
`crashes = 0` (see the deviations above). The steps
that touch neither windows nor owing threads are dismissed by one lemma.

**Isolation.** Whatever a conversation, the file, a payload not yet written, or a
summary not yet assigned holds was recorded by a request whose own session it is
(`Pure`, in four parts). Each store call adds entries of the acting request to
the session named in its locals only; a save copies pure values; a torn file holds
nothing; a restart loads a pure file. The locals that name the session never
change once content is recorded.

**Evidence.** `Grounded` is about chunks, and what a turn stores was gathered several
store calls earlier. So `EvidenceInv` speaks of every place a conversation may be
kept in - memory, the file, a payload not yet written (`Backed`) - and of every
request (`ThreadBacked`): it has no chunks before it has gathered some, afterwards
they are chunks found for its session and of the loaded index, and it comes to the
point where the context is set only with some. That the index is loaded only at a
start, when no request is under way, is why chunks stay within it. The anchor is set
at that point only (`AnchorsRestOnEvidence`).

**The file.** Between two requests the file equals memory only because the request
before has finished its save, so `FileInv` follows that save: sessions differ from the
file only while a thread is where it will save (`Dirty`), the payload it is about to
write is memory as it is (`Orderly`), and a restart loads what the file holds. With two
requests at a time this is false, as `ChatResetRace` shows; the hypothesis
`MaxInFlight <= 1` cannot be dropped.

**Gone sessions.** No other request knows the id that `answer()` made for one request
(`Private`); so only its own `finally` can remove it, and nothing can make it again
(`OneShot`). A reset that has been answered leaves its id outside memory and, when
requests come one by one, outside the file (`Resetting`, `Gone`). With a file and several
requests a payload can be older than the reset; then `ResetLastsWhileUp` is what is left:
until the server crashes, what was reset stays away.

**A conversation's content.** Between requests little has to be known: `Inv` says that
the session is of its type and stands for names the client has brought up - the topics
of its evidence turns too, since a question may return to one (`SessionSaid`).
`OnlyUsersMakeReferents` is then immediate; the work is that a request keeps it. The
resolver takes names from the question and the session only (`ResolvedSaid`), a subject
that was verified in a title is the one the question asked about (`PreparedIn`), and the
persons a turn adds are those of the question and the session (`RememberIn`). `Dialogue`
would lose this if persons of an answer were remembered.

The properties of the reply are about one request, from what each part of it hands to
the next. Whatever is searched, retried, recalled or merged, the chunks are `ChosenOK`:
each once, few of a document, and selected again they stay the same, which is why a
selection may be made twice on the way. A packet has only clauses of its chunks that are
facts about the subject (`PacketOK`), the packet of the scoped chunks is the packet of
all of them (`ScopedPacket`), and the best packet has *all* the facts of the chunks it
comes with (`BestOK`, `EvidenceOK`): this gives `CheckedIsSent`, since the remote prompt
scopes the chunks before it takes facts from them. What an answer may tell is
the facts, those of the facet nearby, those of a comparison, or clauses of the model that
match the facts (`ToldFrom`, `OutcomeTells`); for each, `ToldStands` has the names and
dates in the chunks and `ExtractiveKeepsApart` and `MatchesStand` keep the rival out.
`SufficiencyIsDirect` needs none of it: sufficiency is judged after the trimming.
`RewordingsKeepEvidence` is a property of steps: `RecallIn` says what a rewording recalls
and that it is not empty while a record of the latest answer is loaded, `GatheredIn` that
it then does not search, and `BestIn` that only a role changes its chunks.

The first part of `DialogueProofs` is lemmas on lists (`PickIn`, `SelectIn`, `HeaviestIn`,
`FlattenIn`: what a selection or a sort holds, and that an empty one comes from an empty
list), each by induction up to a length (`UpFrom`). What a sort's *order* is, the proofs
never use: no theorem rests on which record is found first.

**Order of the pieces.** `InOrder` says nothing of a journey that a thread is moving,
so it is not inductive. `OrderInv` says what such a journey looks like after each
assignment of `_go_next`; `MutexInv` (a thread is inside the lock exactly when it
holds it) gives that nobody else moves it meanwhile; `ThreadInv` gives that the
session a handler works on exists. Steps outside the lock that leave the journeys
alone are covered by one lemma (`Proceed`), steps inside it by `Release` and
`Continue`.

**Replies.** A journey only moves forward (`Forward`) as long as the server lives, so
what an unlocked read found stays true: the pieces before the one read first are
completed when the completed pieces are read last (`ViewOK`), and a journey that
this request has moved is further than the one it read before (`MovedOK`). Every
step keeps what the other threads rely on (`OthersKept`); each action is then left
with its own thread. `OnlyCreated` rules out that a session id is given to a journey
that is there already.

**The page.** All of it is for a patient user, the hypothesis `Patient` of these theorems:
without it the timer lets a second request out (see the deviations above). `Flow` says how
the page's own fields exclude a second request: whoever waits has the request state
"loading" or an application still starting, and no timer runs. `Sent` ties each waiting
function to its handler at the server: the labels the handler can be at (`Route`), and
the session and question that were sent. With `Inv` of the journey these are inductive
(`PageInv`), for any faults: `OneRequestAtATime` follows.

The other three are about a page with no call lost, and need to know what the only request
under way has done so far. `Shows`: until its handler changes the journey (`Quiet`), the page
shows it as it is, and what the reply will show is read after the change (`ReplyShows`); no
handler runs that nobody waits for, as a patient user does not reload during a request.
`Carried`: a question that is owed is that of the "open" under way, and that one succeeds.
`Traced`: what is completed was on the page, since completing a piece needs a request from
the page that shows it. After a restart the server has lost its journeys (`Kept` says that
until then it has not), so a reply is an error and the page stays behind; hence
`restarts = 0` in two of them. `JourneyPatient` has no restart. That nothing is completed
unseen holds over restarts too.

**Provisional data.** `WithdrawnOK` is the heart: a withdrawn document is inactive
in the manifest and owns no passage of the chunks file. A command replaces the
files one by one, so it must hold of what the command is about to write as well:
`CollectOK` says that a collection's draft has the active documents of the manifest
and its gathered chunks no withdrawn owner; `RemovalOK` that the draft, and each
file once it is written, leaves the removed documents out, and that the copies a
failing removal restores are clean of all that was withdrawn before it. That is why
a kill or an exception anywhere is harmless. `Gathered` carries the agreement of
page, hash and passage through the loop to the end of a collection. For
`ImplementsWithdrawals`, `SearchOK` says that a search under way has a loaded index
within what was permitted when it began: `Fits` compares it with the chunks file at
that moment, and afterwards only the server itself changes what it has loaded.

**Reviewed corpus.** Every index, on disk, among the backups or in the server's
memory, holds no document outside the snapshot it names (`IndexOK`); a manifest
lists what is not withdrawn and remembers what it has lost (`ManifestOK`); a search
begins only while the snapshot of the loaded index is that of the manifest. Together
these give `ImplementsWithdrawals` with no condition on kills. `ReviewOK` holds
until a kill: outside a `process` command between its two files, a document marked
reviewed has the text that was approved.

**Remote answers.** The pieces read on a connection are never more than those sent,
and the line that completes a stream is sent after the last piece (`CallOK`); so a
reader that sees the line has, or is still to read, all of them. An attempt starts
with nothing read, which rules out a mixture of two attempts.

**Collection.** A command's writes are a plan known from its step (`Plan`), and
`atomic_write` is at every moment some way into it, forwards or backwards (`Progress`).
`Ledger`, the manifest without what may still be undone, lies between the manifest the
command read and the one it will leave (`LedgerInv`), so each step appends a portion of a
run or nothing: the refinement. Evidence and reports are judged against the ledger until
the manifest is replaced and against the whole from then on, and what would be restored
is as good as what replaced it (`FilesInv`, `ReportsInv`); an order of the writes in
which a row comes before its evidence breaks this, which is why round2's rows are left
out of `RowsMatchEvidence`. `RowsInv` has what makes a page accepted once: rows of the run
are none of those before it. All of it is proved for any list of pages, any number of
sources, budgets and failures.

`GoodHold` is what the main thread of a campaign holds between two pages: rows of its
run, all known, each counted, no publisher above its share. It is inductive because a row
adds one to its publisher and to the total, and the share never falls as the total grows.
`ThreadInv` follows a page from the worker that fetched it: it is with the worker, in the
queue, or stored, deferred or unwanted (`Seen`). A worker that has reported has nothing left
to put (`Careful`), so that when the loop is over nothing is in between; and a drain that is
over has tried each deferred page last since the last one it stored.

**Model-checked only.** `LoadingEnds`, `CallsEnd` and `CommandsEnd` are liveness under
fairness, which this prover does not treat, and stay with TLC; so do the two runs that
end in a violation. Every other property of a passing run is a theorem, under
the conditions of the table. What the functions of
`Conversation` and `Evidence` compute for a given text (which facet, which subject, which
order of records) is checked only where a property of `Dialogue` depends on it.

## 5. Not modelled

- **Scores.** `retrieval/` fuses dense, sparse and keyword scores and compares them
  with thresholds. `Evidence` has the order the hashing mode gives; that the
  thresholds suit the corpus is a matter of measurement (`evaluation/`), not of states.
- **Wording.** Personas, tracks, templates, style rewrites, citations' text, the
  masking of personal data, the text of prompts: pure functions of one request, and
  no property here is about words. `dialogue/` appears as the action `Talk`.
- **Korean morphology and page parsing.** Which words a regular expression takes
  from a sentence, and what text an HTML page yields, are inputs of the model.
- **Settings** are read once at start. The part that decides whether a remote model
  may be asked is `Accepted` of `RemoteLLM`; paths and sizes are constants.
- **Reports.** Readiness and preflight reports, `verified_corpus.py`, `checkpoint.py`,
  the evaluation scripts and report writers read finished files and change nothing
  that another part reads.
- **One-shot downloads** (`collectors/` TourAPI and base classes): one request, one
  file, no state kept between runs.

## 6. What could follow

The liveness properties, with a prover that has them. `Dialogue` with a second
conversation would add nothing: conversations share no content (`Isolation`).

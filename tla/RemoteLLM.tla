------------------------------ MODULE RemoteLLM ------------------------------
(***************************************************************************)
(* Answers generated by a remote model: RemoteLLMBackend.complete and      *)
(* stream_complete with their deadline and retries, readiness(), and the   *)
(* GPU worker they talk to, which serves one connection at a time.  The    *)
(* network may refuse, cut or delay a connection, replies may be cut short *)
(* or unreadable, and the worker may be killed and launched again.         *)
(* A call is one LLMRequest of one chat request; calls overlap.  Time is   *)
(* abstracted to whether a call's deadline has passed, and a text to how   *)
(* many of its Length pieces have arrived.                                 *)
(***************************************************************************)
EXTENDS Naturals, Sequences, FiniteSets, SequencesExt

CONSTANTS
  Calls,        \* requests to generate an answer
  Streamed,     \* those of them made for /api/chat/stream
  Settings,     \* the environments the process may be started with
  MaxRetries,   \* config.max_retries
  Length,       \* pieces of a generated text
  Backlog,      \* connections the worker's listening socket holds
  MaxKills,     \* bound: kills of the worker
  MaxProbes     \* bound: readiness probes

Hosts == {"local", "listed", "unlisted"}
AllSettings ==
  [production: BOOLEAN, api: {"openai", "project"}, configured: BOOLEAN,
   host: Hosts, tls: BOOLEAN, probing: BOOLEAN]

ASSUME ConfigAssumption ==
  /\ MaxRetries \in 0..3
  /\ Length \in Nat \ {0} /\ {Backlog, MaxKills, MaxProbes} \subseteq Nat
  /\ Streamed \subseteq Calls /\ Settings \subseteq AllSettings

VARIABLES
  config,    \* the settings the process started with
  call,      \* the state of each call
  expired,   \* calls whose deadline has passed
  harmed,    \* history: calls some fault of worker, network or time reached
  queue,     \* connections accepted but not yet handled, as <<call, attempt>>
  job,       \* the connection being handled, or NoJob
  worker,    \* "down", "free", "busy": generating, "sending": streaming
  served,    \* the model the worker has loaded
  wire,      \* what the worker has sent on each call's connection
  probe,     \* readiness(): the request it waits for, or what it reported
  kills, probes

vars == <<config, call, expired, harmed, queue, job, worker, served,
          wire, probe, kills, probes>>
serving == <<queue, job, worker, served>>
probing == <<probe, probes>>

NoJob == <<>>

-----------------------------------------------------------------------------
(* Settings.  A process that rejects its settings does not start.          *)

\* RemoteLLMConfig.validate; without a URL or model only production's factory
\* goes on, with UnconfiguredRemoteLLMBackend.
Accepted(s) ==
  s.configured /\ s.production /\ s.host # "local"
     => s.host = "listed" /\ s.tls


\* _llm_request builds every LLMRequest with the default of its stream field,
\* for stream_complete too.
StreamField == FALSE

-----------------------------------------------------------------------------
(* Calls *)

\* What can go wrong with an attempt: no connection, no answer in time, an
\* HTTP status, an answer that cannot be parsed, an error line of a stream.
Causes == {"none", "connection", "timeout", "s400", "s401", "s404", "s429",
           "s500", "s503", "invalid", "line"}
NoReply == [status |-> "none", sent |-> 0, whole |-> FALSE]
Reply == [status: {"s200"} \cup Causes, sent: 0..Length, whole: BOOLEAN]

Call ==
  [ pc: {"idle", "attempt", "wait", "sleep", "read", "done"},
    n: 0..MaxRetries,          \* the attempt
    cause: Causes,             \* why the last attempt failed
    got: 0..Length,            \* pieces received
    end: {"none", "completed", "error", "raised", "closed"} ]

NewCall == [pc |-> "idle", n |-> 0, cause |-> "none",
            got |-> 0, end |-> "none"]

At(c, l) == call[c].pc = l
Set(c, k) == call' = [call EXCEPT ![c] = k]
Continue(c, k) == Set(c, k) /\ UNCHANGED <<expired, harmed, wire>>

\* The end of a call; its connection is closed.
Over(c, end, harm) ==
  /\ Set(c, [NewCall EXCEPT !.pc = "done", !.end = end,
                            !.got = IF end = "completed" THEN call[c].got ELSE 0])
  /\ expired' = expired \ {c}
  /\ harmed' = IF harm THEN harmed \cup {c} ELSE harmed
  /\ wire' = [wire EXCEPT ![c] = NoReply]
Fail(c) == Over(c, "error", TRUE)

Init ==
  /\ config \in {s \in Settings : Accepted(s)}
  /\ call = [c \in Calls |-> NewCall]
  /\ expired = {} /\ harmed = {}
  /\ queue = <<>> /\ job = NoJob /\ worker = "down" /\ served = "none"
  /\ wire = [c \in Calls |-> NoReply]
  /\ probe = "none"
  /\ kills = 0 /\ probes = 0

\* An unconfigured backend raises, or sends an error event without a start.
Start(c) ==
  /\ At(c, "idle")
  /\ \E pc \in {"attempt", "done"} :
       /\ pc = IF config.configured THEN "attempt" ELSE "done"
       /\ Set(c, [NewCall EXCEPT !.pc = pc, !.end = IF pc = "done" THEN "error" ELSE "none"])
  /\ harmed' = IF config.configured THEN harmed ELSE harmed \cup {c}
  /\ UNCHANGED <<config, expired, serving, wire, probing, kills>>

\* _raise_for_status and _normalize_transport_error.
Retryable(cause) == cause \in {"connection", "s500", "s503"}

LastAttempt(c) == call[c].n >= MaxRetries

AttemptFails(c, cause) ==
  IF Retryable(cause) /\ ~LastAttempt(c)
  THEN /\ Set(c, [call[c] EXCEPT !.pc = "sleep", !.n = @ + 1, !.cause = cause])
       /\ harmed' = harmed \cup {c}
       /\ wire' = [wire EXCEPT ![c] = NoReply]
       /\ UNCHANGED expired
  ELSE Fail(c)

\* Whether the listening socket takes another connection.
Room == worker # "down" /\ Len(queue) < Backlog
Connected(c) == <<c, call[c].n>> \in Range(queue) \cup {job}

\* The top of the retry loop: give up past the deadline, otherwise connect and
\* send the request.  With a full backlog the connection just hangs.
Attempt(c) ==
  /\ At(c, "attempt")
  /\ CASE c \in expired -> Fail(c) /\ UNCHANGED queue
       [] c \notin expired /\ worker = "down" ->
            AttemptFails(c, "connection") /\ UNCHANGED queue
       [] OTHER ->
            /\ Continue(c, [call[c] EXCEPT !.pc = "wait", !.cause = "none"])
            /\ queue' = IF Room THEN Append(queue, <<c, call[c].n>>) ELSE queue
  /\ UNCHANGED <<config, job, worker, served, probing, kills>>

\* The client's other steps leave the worker alone.
ClientOnly == UNCHANGED <<config, serving, probing, kills>>

Sleep(c) ==
  /\ At(c, "sleep")
  /\ Continue(c, [call[c] EXCEPT !.pc = "attempt"])
  /\ ClientOnly

Expire(c) ==
  /\ call[c].pc \notin {"idle", "done"} /\ c \notin expired
  /\ expired' = expired \cup {c} /\ harmed' = harmed \cup {c}
  /\ UNCHANGED <<call, wire>>
  /\ ClientOnly

\* Fault: the request is sent without a timeout.
NeverTimesOut(c) == FALSE /\ UNCHANGED vars
\* The socket timeout.  urllib reports one while connecting as a URLError, so
\* it counts as a connection error, and one while waiting as a timeout.
WaitTimeout(c) ==
  /\ At(c, "wait") /\ c \in expired /\ wire[c] = NoReply
  /\ AttemptFails(c, IF Connected(c) THEN "timeout" ELSE "connection")
  /\ ClientOnly


\* The connection is cut before a reply, by the network or a killed worker.
ConnectionLost(c) ==
  /\ At(c, "wait") /\ wire[c] = NoReply
  /\ AttemptFails(c, "connection")
  /\ ClientOnly

\* A whole completion, or one whose fields or JSON are wrong, or whose body
\* breaks off (http.client's IncompleteRead, which nothing converts).
ReadReply(c) ==
  /\ At(c, "wait") /\ wire[c] # NoReply
  /\ CASE wire[c].status # "s200" -> AttemptFails(c, wire[c].status)
       [] wire[c].status = "s200" /\ c \in Streamed ->
            Continue(c, [call[c] EXCEPT !.pc = "read"])
       [] OTHER ->
            IF wire[c].whole
            THEN /\ Set(c, [NewCall EXCEPT !.pc = "done", !.got = Length, !.end = "completed"])
                 /\ expired' = expired \ {c}
                 /\ wire' = [wire EXCEPT ![c] = NoReply]
                 /\ UNCHANGED harmed
            ELSE \E end \in {"error", "raised"} : Over(c, end, TRUE)
  /\ ClientOnly

-----------------------------------------------------------------------------
(* Reading a stream: its lines arrive one by one.                          *)

\* Fault: the token events of the stream are not recognised.
PieceUnknown(c) == FALSE
\* Lines of the project format; a completion in one body has none of them.
Piece(c) == config.api = "project" /\ call[c].got < wire[c].sent

\* The deadline is looked at when a line has arrived.
ReadPiece(c) ==
  /\ At(c, "read") /\ Piece(c)
  /\ IF c \in expired THEN Fail(c) ELSE Continue(c, [call[c] EXCEPT !.got = @ + 1])
  /\ ClientOnly

\* The line that ends a stream.  parse_stream_line takes the body of a plain
\* completion for one: it has a finish_reason and no delta.
EndLine(c) == wire[c].whole

\* An answer without any text is refused.
ReadEnd(c) ==
  /\ At(c, "read") /\ ~Piece(c) /\ EndLine(c)
  /\ CASE c \in expired -> Fail(c)
       [] c \notin expired /\ call[c].got = 0 -> Over(c, "error", FALSE)
       [] OTHER -> Over(c, "completed", FALSE)
  /\ ClientOnly

\* Fault: the loop's else branch is missing.
EndOfInputIgnored == "completed"
\* A stream that stops without that line, after an error line or a cut.
EndOfInput == "error"

ReadCut(c) ==
  /\ At(c, "read") /\ ~Piece(c) /\ ~EndLine(c) /\ ~Connected(c)
  /\ Over(c, EndOfInput, TRUE)
  /\ ClientOnly

\* A socket timeout or a cut chunk while iterating over the lines is no
\* Transport error: it leaves the generator as an exception, without an event.
ReadRaises(c) ==
  /\ At(c, "read") /\ ~Piece(c) /\ ~EndLine(c)
  /\ c \in expired \/ ~Connected(c)
  /\ Over(c, "raised", TRUE)
  /\ ClientOnly

\* The connection is cut while the stream is read, the lines in flight with it.
StreamLost(c) ==
  /\ At(c, "read")
  /\ \E end \in {EndOfInput, "raised"} : Over(c, end, TRUE)
  /\ ClientOnly

\* The browser goes away and the generator is closed.
Disconnect(c) ==
  /\ At(c, "read")
  /\ Over(c, "closed", TRUE)
  /\ ClientOnly

-----------------------------------------------------------------------------
(* The worker: HTTPServer handles the accepted connections one at a time,  *)
(* those of callers that gave up too.                                      *)

Launch(m) ==
  /\ worker = "down" /\ worker' = "free" /\ served' = m
  /\ UNCHANGED <<config, call, expired, harmed, queue, job, wire, probing, kills>>

Listening(c, n) == At(c, "wait") /\ call[c].n = n
Answer(c, n, status, whole) ==
  wire' = IF Listening(c, n)
          THEN [wire EXCEPT ![c] = [status |-> status, sent |-> 0, whole |-> whole]]
          ELSE wire

\* do_POST and _validate_payload before the model runs; the project server's
\* refusals are the same statuses.
Refusals(c) ==
  {"s401", "s429"} \cup (IF served # "configured" THEN {"s404"} ELSE {})
                   \cup (IF StreamField THEN {"s400"} ELSE {})

Refuse ==
  /\ worker = "free" /\ queue # <<>>
  /\ LET c == Head(queue)[1]  n == Head(queue)[2] IN
       \E s \in Refusals(c) : Answer(c, n, s, TRUE)
  /\ queue' = Tail(queue)
  /\ UNCHANGED <<config, call, expired, harmed, job, worker, served, probing, kills>>

Generate ==
  /\ worker = "free" /\ queue # <<>> /\ served = "configured"
  /\ job' = Head(queue) /\ queue' = Tail(queue) /\ worker' = "busy"
  /\ UNCHANGED <<config, call, expired, harmed, served, wire, probing, kills>>

\* The reply of a finished generation: a completion, an error, or something
\* unreadable.  The project server answers a stream at once and then sends it.
Respond ==
  /\ worker = "busy"
  /\ LET c == job[1]  n == job[2]
         streams == config.api = "project" /\ c \in Streamed IN
       \/ /\ streams
          /\ Answer(c, n, "s200", FALSE)
          /\ worker' = "sending" /\ UNCHANGED job
       \/ /\ ~streams
          /\ \E w \in BOOLEAN : Answer(c, n, "s200", w)
          /\ worker' = "free" /\ job' = NoJob
       \/ /\ \E s \in {"s500", "s503"} : Answer(c, n, s, TRUE)
          /\ worker' = "free" /\ job' = NoJob
  /\ UNCHANGED <<config, call, expired, harmed, queue, served, probing, kills>>

\* Streaming to an attempt that is still read.
Reads(c, n) == call[c].n = n /\ call[c].pc \in {"wait", "read"} /\ wire[c].status = "s200"
SendPiece ==
  /\ worker = "sending"
  /\ LET c == job[1] IN
       /\ Reads(c, job[2]) /\ wire[c].sent < Length
       /\ wire' = [wire EXCEPT ![c].sent = @ + 1]
  /\ UNCHANGED <<config, call, expired, harmed, serving, probing, kills>>

\* The completed line, or an error line or a closed connection before it.
StopSending ==
  /\ worker = "sending"
  /\ LET c == job[1] IN
       wire' = IF Reads(c, job[2]) /\ wire[c].sent = Length
               THEN [wire EXCEPT ![c].whole = TRUE] ELSE wire
  /\ worker' = "free" /\ job' = NoJob
  /\ UNCHANGED <<config, call, expired, harmed, queue, served, probing, kills>>

\* The job on the cluster ends: every connection is closed.
Kill ==
  /\ worker # "down" /\ kills < MaxKills
  /\ worker' = "down" /\ queue' = <<>> /\ job' = NoJob /\ served' = "none"
  /\ kills' = kills + 1
  /\ UNCHANGED <<config, call, expired, harmed, wire, probing>>

-----------------------------------------------------------------------------
(* readiness(): /health, then the model list, then /ready of the worker.   *)

Waiting == {"health", "models"}
Reports == {"unconfigured", "unverified", "unreachable", "not_ready", "ready"}
Observe(p) ==
  /\ probe' = p
  /\ UNCHANGED <<config, call, expired, harmed, serving, wire, kills>>

StartProbe ==
  /\ probe \notin Waiting /\ probes < MaxProbes
  /\ probes' = probes + 1
  /\ Observe(CASE ~config.configured -> "unconfigured"
              [] config.configured /\ ~config.probing -> "unverified"
              [] OTHER -> "health")

\* A probe waits three seconds: a worker that generates is unreachable.
ProbeFails == probe \in Waiting /\ Observe("unreachable") /\ UNCHANGED probes

HealthOk ==
  probe = "health" /\ worker = "free" /\ Observe("models") /\ UNCHANGED probes

\* is_ready: the project format does not look at the model.
ModelReady == config.api = "project" \/ served = "configured"

ModelsOk ==
  /\ probe = "models" /\ worker = "free"
  /\ Observe(IF ModelReady THEN "ready" ELSE "not_ready")
  /\ UNCHANGED probes

-----------------------------------------------------------------------------
Client(c) ==
  \/ Attempt(c) \/ Sleep(c) \/ WaitTimeout(c) \/ ReadReply(c)
  \/ ReadPiece(c) \/ ReadEnd(c) \/ ReadCut(c) \/ ReadRaises(c)

Worker == Refuse \/ Generate \/ Respond \/ SendPiece \/ StopSending

CallStep(c) ==
  Start(c) \/ Client(c) \/ Expire(c)
               \/ ConnectionLost(c) \/ StreamLost(c) \/ Disconnect(c)
WorkerStep == Worker \/ Kill \/ \E m \in {"configured", "other"} : Launch(m)
ProbeStep == StartProbe \/ ProbeFails \/ HealthOk \/ ModelsOk

Next == (\E c \in Calls : CallStep(c)) \/ WorkerStep \/ ProbeStep

\* The client's threads run and time passes; nothing is promised of the
\* worker, the network or the operator.
Fairness == \A c \in Calls : WF_vars(Client(c)) /\ WF_vars(Expire(c))

Spec == Init /\ [][Next]_vars /\ Fairness

-----------------------------------------------------------------------------
(* Properties *)

TypeOK ==
  /\ config \in Settings
  /\ call \in [Calls -> Call]
  /\ expired \subseteq Calls /\ harmed \subseteq Calls
  /\ Range(queue) \cup {job} \subseteq (Calls \X (0..MaxRetries)) \cup {NoJob}
  /\ worker \in {"down", "free", "busy", "sending"}
  /\ served \in {"none", "configured", "other"}
  /\ wire \in [Calls -> Reply]
  /\ probe \in {"none"} \cup Waiting \cup Reports

\* An answer that is handed on as completed is the whole text the model
\* generated, wherever the connection was cut and however often it was retried.
AnswerWhole == \A c \in Calls : call[c].end = "completed" => call[c].got = Length

\* A call that nothing went wrong with, neither the worker, the connection nor
\* the time, is answered; streams of an OpenAI-compatible server apart.
UnharmedCompletes ==
  \A c \in Calls :
    At(c, "done") /\ c \notin harmed /\ (config.api = "project" \/ c \notin Streamed)
      => call[c].end = "completed"

\* Every call comes to an end, whatever the worker does and never does.
CallsEnd == \A c \in Calls : ~At(c, "idle") ~> At(c, "done")
=============================================================================

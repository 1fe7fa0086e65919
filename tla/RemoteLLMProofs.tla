--------------------------- MODULE RemoteLLMProofs ---------------------------
(***************************************************************************)
(* Proofs about RemoteLLM: types, that an answer handed on as completed is *)
(* the whole text, and that a call no fault reached is answered.  Both     *)
(* rest on what a reply on the wire says of the stream behind it.          *)
(***************************************************************************)
EXTENDS RemoteLLM, TLAPS

Attempts == Calls \X (0..MaxRetries)

WorkerOK ==
  /\ queue \in Seq(Attempts) /\ job \in Attempts \cup {NoJob}
  /\ worker \in {"busy", "sending"} => job \in Attempts
  /\ worker = "sending" => config.api = "project" /\ job[1] \in Streamed

Types ==
  /\ config \in Settings /\ call \in [Calls -> Call]
  /\ expired \subseteq Calls /\ harmed \subseteq Calls
  /\ worker \in {"down", "free", "busy", "sending"}
  /\ served \in {"none", "configured", "other"}
  /\ wire \in [Calls -> Reply]
  /\ probe \in {"none"} \cup Waiting \cup Reports

\* The calls that UnharmedCompletes is about.
Answerable(api, c) == api = "project" \/ c \notin Streamed

\* A call k and what has arrived on its connection w: nothing was read before
\* the reply; what was read is part of what was sent; the line that completes
\* a stream comes after all of it; an end that is no answer has a cause.
CallOK(api, c, k, w, hurt) ==
  /\ k.pc \in {"idle", "attempt", "wait", "sleep"} => k.got = 0
  /\ k.pc = "read" => c \in Streamed
  /\ k.pc = "read" /\ api = "project" => w.status = "s200" /\ k.got <= w.sent
  /\ k.pc = "read" /\ api # "project" => k.got = 0
  /\ c \in Streamed /\ api = "project" /\ w.status = "s200" /\ w.whole =>
       w.sent = Length
  /\ k.end = "completed" => k.pc = "done" /\ k.got = Length
  /\ k.pc = "done" /\ c \notin hurt /\ Answerable(api, c) => k.end = "completed"

CallsOK == \A c \in Calls : CallOK(config.api, c, call[c], wire[c], harmed)

Inv == Types /\ WorkerOK /\ CallsOK

-----------------------------------------------------------------------------
(* What the steps of a client have in common *)

LEMMA Fresh == NewCall \in Call /\ NoReply \in Reply
BY ConfigAssumption DEF NewCall, Call, Causes, NoReply, Reply

LEMMA ClientKeepsWorker ==
  ASSUME WorkerOK, UNCHANGED <<config, serving>>
  PROVE  WorkerOK'
BY DEF WorkerOK, serving

\* A fault more leaves a call in order.
LEMMA MoreHarm ==
  ASSUME NEW api, NEW c, NEW k, NEW w, NEW S, NEW T, S \subseteq T,
         CallOK(api, c, k, w, S)
  PROVE  CallOK(api, c, k, w, T)
BY DEF CallOK

\* One call changes, with what is on its wire.
LEMMA OneCall ==
  ASSUME Inv, NEW c \in Calls, NEW k \in Call, NEW w \in Reply,
         call' = [call EXCEPT ![c] = k], wire' = [wire EXCEPT ![c] = w],
         harmed \subseteq harmed', harmed' \subseteq Calls, expired' \subseteq Calls,
         UNCHANGED <<config, worker, served, probe>>, WorkerOK',
         CallOK(config.api, c, k, w, harmed')
  PROVE  Inv'
<1>1. Types'
  BY DEF Inv, Types
<1>2. ASSUME NEW d \in Calls
      PROVE  CallOK(config.api, d, call'[d], wire'[d], harmed')
  <2>1. CASE d = c
    BY <2>1 DEF Inv, Types
  <2>2. CASE d # c
    <3>1. call'[d] = call[d] /\ wire'[d] = wire[d]
      BY <2>2 DEF Inv, Types
    <3>2. CallOK(config.api, d, call[d], wire[d], harmed)
      BY DEF Inv, CallsOK
    <3>. QED  BY <3>1, <3>2, MoreHarm
  <2>. QED  BY <2>1, <2>2
<1>3. CallsOK'
  BY <1>2 DEF CallsOK
<1>. QED  BY <1>1, <1>3 DEF Inv

LEMMA OverStep ==
  ASSUME Inv, ClientOnly, NEW c \in Calls,
         NEW end \in {"completed", "error", "raised", "closed"}, NEW harm \in BOOLEAN,
         Over(c, end, harm),
         end = "completed" => call[c].got = Length,
         end # "completed" => harm \/ ~Answerable(config.api, c)
  PROVE  Inv'
<1>. DEFINE got == IF end = "completed" THEN call[c].got ELSE 0
            k == [NewCall EXCEPT !.pc = "done", !.end = end, !.got = got]
<1>0. got \in 0..Length
  BY ConfigAssumption DEF Inv, Types, Call
<1>. HIDE DEF got
<1>1. k \in Call /\ k.pc = "done" /\ k.end = end /\ k.got = got
  <2>. DEFINE k1 == [NewCall EXCEPT !.pc = "done"]
              k2 == [k1 EXCEPT !.end = end]
  <2>1. k1 \in Call /\ k1.pc = "done"
    BY Fresh DEF Call
  <2>. HIDE DEF k1
  <2>2. k2 \in Call /\ k2.pc = "done" /\ k2.end = end
    BY <2>1 DEF Call
  <2>. HIDE DEF k2
  <2>3. LET k3 == [k2 EXCEPT !.got = got]
        IN  k3 \in Call /\ k3.pc = "done" /\ k3.end = end /\ k3.got = got
    BY <2>2, <1>0 DEF Call
  <2>. QED  BY <2>3 DEF k1, k2
<1>4. /\ call' = [call EXCEPT ![c] = k] /\ wire' = [wire EXCEPT ![c] = NoReply]
      /\ harmed' \subseteq Calls /\ harmed \subseteq harmed' /\ expired' \subseteq Calls
      /\ harm => c \in harmed'
  BY DEF Over, Set, Inv, Types, got
<1>5. UNCHANGED <<config, worker, served, probe>> /\ WorkerOK'
  BY ClientKeepsWorker DEF ClientOnly, serving, probing, Inv
<1>6. CallOK(config.api, c, k, NoReply, harmed')
  <2>1. k.pc = "done" /\ k.end = end /\ (end = "completed" => k.got = Length)
    BY <1>1 DEF got
  <2>. HIDE DEF k
  <2>3. NoReply.status = "none"
    BY DEF NoReply
  <2>. QED  BY <2>1, <2>3, <1>4 DEF CallOK
<1>. HIDE DEF k
<1>. QED  BY <1>1, <1>4, <1>5, <1>6, Fresh, OneCall

\* A call goes on, with the same reply.
LEMMA ContinueStep ==
  ASSUME Inv, NEW c \in Calls, NEW k \in Call, Continue(c, k),
         UNCHANGED <<config, worker, served, probe>>, WorkerOK',
         CallOK(config.api, c, k, wire[c], harmed)
  PROVE  Inv'
<1>1. wire[c] \in Reply /\ wire' = [wire EXCEPT ![c] = wire[c]]
  BY DEF Continue, Inv, Types
<1>. QED
  BY <1>1, OneCall DEF Continue, Set, Inv, Types

\* A failed attempt ends the call or waits for the next one.
LEMMA AttemptFailsStep ==
  ASSUME Inv, ClientOnly, NEW c \in Calls, NEW cause \in Causes,
         AttemptFails(c, cause), call[c].pc \in {"attempt", "wait"}
  PROVE  Inv'
<1>1. CASE Retryable(cause) /\ ~LastAttempt(c)
  <2>. DEFINE k == [call[c] EXCEPT !.pc = "sleep", !.n = @ + 1, !.cause = cause]
  <2>1. call[c] \in Call /\ CallOK(config.api, c, call[c], wire[c], harmed)
    BY DEF Inv, Types, CallsOK
  <2>2. call[c].n + 1 \in 0..MaxRetries
    BY <1>1, <2>1, ConfigAssumption DEF LastAttempt, Call
  <2>3. k \in Call
    BY <2>1, <2>2 DEF Call
  <2>4. k.pc = "sleep" /\ k.got = call[c].got /\ k.end = call[c].end
    BY <2>1 DEF Call
  <2>5. call' = [call EXCEPT ![c] = k] /\ wire' = [wire EXCEPT ![c] = NoReply]
        /\ harmed' = harmed \cup {c} /\ expired' = expired
    BY <1>1 DEF AttemptFails, Set
  <2>. HIDE DEF k
  <2>6. CallOK(config.api, c, k, NoReply, harmed')
    BY <2>1, <2>4 DEF CallOK, NoReply
  <2>7. UNCHANGED <<config, worker, served, probe>> /\ WorkerOK'
    BY ClientKeepsWorker DEF ClientOnly, serving, probing, Inv
  <2>8. harmed' \subseteq Calls /\ expired' \subseteq Calls /\ harmed \subseteq harmed'
    BY <2>5 DEF Inv, Types
  <2>. QED  BY <2>3, <2>5, <2>6, <2>7, <2>8, Fresh, OneCall
<1>2. CASE ~(Retryable(cause) /\ ~LastAttempt(c))
  BY <1>2, OverStep DEF AttemptFails, Fail
<1>. QED  BY <1>1, <1>2

-----------------------------------------------------------------------------
(* The client *)

LEMMA StartStep ==
  ASSUME Inv, NEW c \in Calls, Start(c)
  PROVE  Inv'
<1>. DEFINE ready == config.configured
            pc == IF ready THEN "attempt" ELSE "done"
            k1 == [NewCall EXCEPT !.pc = pc]
            k == [k1 EXCEPT !.end = IF pc = "done" THEN "error" ELSE "none"]
<1>1. k1 \in Call /\ k1.pc = pc /\ k1.got = 0
  BY Fresh DEF Call, NewCall
<1>2. k \in Call /\ k.pc = pc /\ k.got = 0 /\ k.end \in {"error", "none"}
  <2>. HIDE DEF k1, pc
  <2>. QED  BY <1>1 DEF Call
<1>3. call' = [call EXCEPT ![c] = k]
  BY DEF Start, Set
<1>4. /\ harmed' = IF ready THEN harmed ELSE harmed \cup {c}
      /\ UNCHANGED <<config, expired, serving, wire, probing, kills>>
  BY DEF Start
<1>. HIDE DEF k, k1
<1>5. wire[c] \in Reply /\ wire' = [wire EXCEPT ![c] = wire[c]]
  BY <1>4 DEF Inv, Types
<1>6. CallOK(config.api, c, k, wire[c], harmed')
  <2>1. CallOK(config.api, c, call[c], wire[c], harmed)
    BY DEF Inv, CallsOK
  <2>. QED  BY <1>2, <1>4, <2>1 DEF CallOK
<1>7. WorkerOK' /\ UNCHANGED <<config, worker, served, probe>>
  BY <1>4, ClientKeepsWorker DEF Inv, serving, probing
<1>8. harmed \subseteq harmed' /\ harmed' \subseteq Calls /\ expired' \subseteq Calls
  BY <1>4 DEF Inv, Types
<1>. QED  BY <1>2, <1>3, <1>5, <1>6, <1>7, <1>8, OneCall

LEMMA AttemptStep ==
  ASSUME Inv, NEW c \in Calls, Attempt(c)
  PROVE  Inv'
<1>. USE DEF At
<1>1. CASE c \in expired
  <2>1. Fail(c) /\ ClientOnly
    BY <1>1 DEF Attempt, ClientOnly, serving
  <2>. QED  BY <2>1, OverStep DEF Fail
<1>2. CASE c \notin expired /\ worker = "down"
  <2>1. AttemptFails(c, "connection") /\ ClientOnly
    BY <1>2 DEF Attempt, ClientOnly, serving
  <2>. QED  BY <2>1, AttemptFailsStep DEF Attempt, Causes
<1>3. CASE c \notin expired /\ worker # "down"
  <2>. DEFINE k1 == [call[c] EXCEPT !.pc = "wait"]
              k == [k1 EXCEPT !.cause = "none"]
  <2>1. /\ call' = [call EXCEPT ![c] = k] /\ UNCHANGED <<expired, harmed, wire>>
        /\ queue' = IF Room THEN Append(queue, <<c, call[c].n>>) ELSE queue
        /\ UNCHANGED <<config, job, worker, served, probing, kills>>
    BY <1>3 DEF Attempt, Continue, Set
  <2>2. call[c] \in Call /\ CallOK(config.api, c, call[c], wire[c], harmed)
        /\ call[c].pc = "attempt"
    BY DEF Inv, Types, CallsOK, Attempt
  <2>3. k1 \in Call /\ k1.pc = "wait" /\ k1.got = call[c].got /\ k1.end = call[c].end
    BY <2>2 DEF Call
  <2>. HIDE DEF k1
  <2>4. k \in Call /\ k.pc = "wait" /\ k.got = call[c].got /\ k.end = call[c].end
    BY <2>3 DEF Call, Causes
  <2>. HIDE DEF k
  <2>5. CallOK(config.api, c, k, wire[c], harmed)
    BY <2>2, <2>4 DEF CallOK
  <2>6. WorkerOK'
    <3>1. <<c, call[c].n>> \in Attempts
      BY <2>2 DEF Attempts, Call
    <3>2. queue' \in Seq(Attempts)
      BY <2>1, <3>1 DEF Inv, WorkerOK
    <3>. QED  BY <2>1, <3>2 DEF Inv, WorkerOK
  <2>7. Continue(c, k) /\ UNCHANGED <<config, worker, served, probe>>
    BY <2>1 DEF Continue, Set, probing
  <2>. QED  BY <2>4, <2>5, <2>6, <2>7, ContinueStep
<1>. QED  BY <1>1, <1>2, <1>3

LEMMA SleepStep ==
  ASSUME Inv, NEW c \in Calls, Sleep(c)
  PROVE  Inv'
<1>. DEFINE k == [call[c] EXCEPT !.pc = "attempt"]
<1>1. call[c] \in Call /\ CallOK(config.api, c, call[c], wire[c], harmed)
      /\ call[c].pc = "sleep"
  BY DEF Inv, Types, CallsOK, Sleep, At
<1>2. k \in Call /\ k.pc = "attempt" /\ k.got = call[c].got /\ k.end = call[c].end
  BY <1>1 DEF Call
<1>3. Continue(c, k) /\ ClientOnly
  BY DEF Sleep
<1>. HIDE DEF k
<1>4. CallOK(config.api, c, k, wire[c], harmed)
  BY <1>1, <1>2 DEF CallOK
<1>5. WorkerOK' /\ UNCHANGED <<config, worker, served, probe>>
  BY <1>3, ClientKeepsWorker DEF ClientOnly, serving, probing, Inv
<1>. QED  BY <1>2, <1>3, <1>4, <1>5, ContinueStep

LEMMA ExpireStep ==
  ASSUME Inv, NEW c \in Calls, Expire(c)
  PROVE  Inv'
<1>1. /\ UNCHANGED <<call, wire, config, worker, served, probe>>
      /\ expired' = expired \cup {c} /\ harmed' = harmed \cup {c}
  BY DEF Expire, ClientOnly, serving, probing
<1>2. Types'
  BY <1>1 DEF Inv, Types
<1>3. WorkerOK'
  BY ClientKeepsWorker DEF Expire, ClientOnly, Inv
<1>4. CallsOK'
  BY <1>1, MoreHarm DEF Inv, CallsOK
<1>. QED  BY <1>2, <1>3, <1>4 DEF Inv

LEMMA LostStep ==
  ASSUME Inv, NEW c \in Calls, WaitTimeout(c) \/ ConnectionLost(c)
  PROVE  Inv'
<1>1. PICK cause \in {"timeout", "connection"} : AttemptFails(c, cause)
  BY DEF WaitTimeout, ConnectionLost
<1>2. call[c].pc = "wait" /\ ClientOnly
  BY DEF WaitTimeout, ConnectionLost, At
<1>. QED  BY <1>1, <1>2, AttemptFailsStep DEF Causes

LEMMA ReadReplyStep ==
  ASSUME Inv, NEW c \in Calls, ReadReply(c)
  PROVE  Inv'
<1>0. /\ call[c] \in Call /\ wire[c] \in Reply
      /\ CallOK(config.api, c, call[c], wire[c], harmed)
      /\ call[c].pc = "wait" /\ ClientOnly
  BY DEF Inv, Types, CallsOK, ReadReply, At
<1>1. CASE wire[c].status # "s200"
  <2>1. AttemptFails(c, wire[c].status)
    BY <1>1 DEF ReadReply
  <2>2. wire[c].status \in Causes
    BY <1>0, <1>1 DEF Reply
  <2>. QED  BY <1>0, <2>1, <2>2, AttemptFailsStep
<1>2. CASE wire[c].status = "s200" /\ c \in Streamed
  <2>. DEFINE k == [call[c] EXCEPT !.pc = "read"]
  <2>1. Continue(c, k)
    BY <1>2 DEF ReadReply
  <2>2. k \in Call /\ k.pc = "read" /\ k.got = call[c].got /\ k.end = call[c].end
    BY <1>0 DEF Call
  <2>. HIDE DEF k
  <2>3. CallOK(config.api, c, k, wire[c], harmed)
    BY <1>0, <1>2, <2>2 DEF CallOK, Reply
  <2>4. WorkerOK' /\ UNCHANGED <<config, worker, served, probe>>
    BY <1>0, ClientKeepsWorker DEF ClientOnly, serving, probing, Inv
  <2>. QED  BY <2>1, <2>2, <2>3, <2>4, ContinueStep
<1>3. CASE wire[c].status = "s200" /\ c \notin Streamed /\ wire[c].whole
  <2>. DEFINE k1 == [NewCall EXCEPT !.pc = "done"]
              k2 == [k1 EXCEPT !.got = Length]
              k == [k2 EXCEPT !.end = "completed"]
  <2>1. /\ call' = [call EXCEPT ![c] = k] /\ expired' = expired \ {c}
        /\ wire' = [wire EXCEPT ![c] = NoReply] /\ harmed' = harmed
    BY <1>3 DEF ReadReply, Set
  <2>2. k1 \in Call /\ k1.pc = "done"
    BY Fresh DEF Call
  <2>. HIDE DEF k1
  <2>3. k2 \in Call /\ k2.pc = "done" /\ k2.got = Length
    BY <2>2, ConfigAssumption DEF Call
  <2>. HIDE DEF k2
  <2>4. k \in Call /\ k.pc = "done" /\ k.got = Length /\ k.end = "completed"
    BY <2>3 DEF Call
  <2>. HIDE DEF k
  <2>5. CallOK(config.api, c, k, NoReply, harmed')
    BY <2>4 DEF CallOK, NoReply
  <2>6. WorkerOK' /\ UNCHANGED <<config, worker, served, probe>>
    BY <1>0, ClientKeepsWorker DEF ClientOnly, serving, probing, Inv
  <2>7. harmed \subseteq harmed' /\ harmed' \subseteq Calls /\ expired' \subseteq Calls
    BY <2>1 DEF Inv, Types
  <2>. QED  BY <2>1, <2>4, <2>5, <2>6, <2>7, Fresh, OneCall
<1>4. CASE wire[c].status = "s200" /\ c \notin Streamed /\ ~wire[c].whole
  <2>1. PICK end \in {"error", "raised"} : Over(c, end, TRUE)
    BY <1>4 DEF ReadReply
  <2>. QED  BY <1>0, <2>1, OverStep
<1>. QED  BY <1>1, <1>2, <1>3, <1>4

LEMMA ReadPieceStep ==
  ASSUME Inv, NEW c \in Calls, ReadPiece(c)
  PROVE  Inv'
<1>0. /\ call[c] \in Call /\ wire[c] \in Reply
      /\ CallOK(config.api, c, call[c], wire[c], harmed)
      /\ call[c].pc = "read" /\ ClientOnly
      /\ config.api = "project" /\ call[c].got < wire[c].sent
  BY DEF Inv, Types, CallsOK, ReadPiece, At, Piece
<1>1. CASE c \in expired
  BY <1>0, <1>1, OverStep DEF ReadPiece, Fail
<1>2. CASE c \notin expired
  <2>. DEFINE k == [call[c] EXCEPT !.got = @ + 1]
  <2>1. Continue(c, k)
    BY <1>2 DEF ReadPiece
  <2>2. call[c].got + 1 \in 0..Length /\ call[c].got + 1 <= wire[c].sent
    BY <1>0, ConfigAssumption DEF Call, Reply
  <2>3. k \in Call /\ k.pc = "read" /\ k.got = call[c].got + 1 /\ k.end = call[c].end
    BY <1>0, <2>2 DEF Call
  <2>. HIDE DEF k
  <2>4. CallOK(config.api, c, k, wire[c], harmed)
    BY <1>0, <2>2, <2>3 DEF CallOK
  <2>5. WorkerOK' /\ UNCHANGED <<config, worker, served, probe>>
    BY <1>0, ClientKeepsWorker DEF ClientOnly, serving, probing, Inv
  <2>. QED  BY <2>1, <2>3, <2>4, <2>5, ContinueStep
<1>. QED  BY <1>1, <1>2

\* The line that ends a stream has all of the text before it.
LEMMA ReadEndStep ==
  ASSUME Inv, NEW c \in Calls, ReadEnd(c)
  PROVE  Inv'
<1>0. /\ call[c] \in Call /\ wire[c] \in Reply
      /\ CallOK(config.api, c, call[c], wire[c], harmed)
      /\ call[c].pc = "read" /\ ClientOnly /\ wire[c].whole
      /\ config.api = "project" => ~(call[c].got < wire[c].sent)
  BY DEF Inv, Types, CallsOK, ReadEnd, At, Piece, EndLine
<1>1. c \in Streamed /\ (config.api = "project" => call[c].got = Length)
      /\ (config.api # "project" => call[c].got = 0)
  BY <1>0, ConfigAssumption DEF CallOK, Call, Reply
<1>2. CASE c \in expired
  BY <1>0, <1>2, OverStep DEF ReadEnd, Fail
<1>3. CASE c \notin expired /\ call[c].got = 0
  <2>1. ~Answerable(config.api, c)
    BY <1>1, <1>3, ConfigAssumption DEF Answerable
  <2>. QED  BY <1>0, <1>3, <2>1, OverStep DEF ReadEnd
<1>4. CASE c \notin expired /\ call[c].got # 0
  <2>1. Over(c, "completed", FALSE) /\ call[c].got = Length
    BY <1>1, <1>4 DEF ReadEnd
  <2>. QED  BY <1>0, <2>1, OverStep
<1>. QED  BY <1>2, <1>3, <1>4

LEMMA BrokenStep ==
  ASSUME Inv, NEW c \in Calls,
         ReadCut(c) \/ ReadRaises(c) \/ StreamLost(c) \/ Disconnect(c)
  PROVE  Inv'
<1>1. PICK end \in {"error", "raised", "closed"} : Over(c, end, TRUE)
  BY DEF ReadCut, ReadRaises, StreamLost, Disconnect, EndOfInput
<1>2. ClientOnly
  BY DEF ReadCut, ReadRaises, StreamLost, Disconnect
<1>. QED  BY <1>1, <1>2, OverStep

-----------------------------------------------------------------------------
(* The worker and the probe *)

\* What the worker puts on the wire of a call that waits or reads.
LEMMA WireStep ==
  ASSUME Inv, NEW c \in Calls, NEW w \in Reply,
         wire' = [wire EXCEPT ![c] = w], UNCHANGED <<config, call, expired, harmed, probe>>,
         worker' \in {"down", "free", "busy", "sending"}, UNCHANGED served, WorkerOK',
         call[c].pc = "wait" \/ (w.status = "s200" /\ wire[c].sent <= w.sent),
         c \in Streamed /\ config.api = "project" /\ w.status = "s200" /\ w.whole =>
           w.sent = Length
  PROVE  Inv'
<1>1. Types'
  BY DEF Inv, Types
<1>2. ASSUME NEW d \in Calls
      PROVE  CallOK(config.api, d, call[d], wire'[d], harmed)
  <2>1. CallOK(config.api, d, call[d], wire[d], harmed)
    BY DEF Inv, CallsOK
  <2>2. CASE d # c
    BY <2>1, <2>2 DEF Inv, Types
  <2>3. CASE d = c
    <3>1. wire'[d] = w /\ wire[c] \in Reply /\ call[c] \in Call
      BY <2>3 DEF Inv, Types
    <3>. QED  BY <2>1, <2>3, <3>1, ConfigAssumption DEF CallOK, Reply, Call
  <2>. QED  BY <2>2, <2>3
<1>. QED  BY <1>1, <1>2 DEF Inv, CallsOK

\* A step of worker or operator that puts nothing on a wire.
LEMMA QuietStep ==
  ASSUME Inv, UNCHANGED <<config, call, expired, harmed, wire>>, WorkerOK',
         worker' \in {"down", "free", "busy", "sending"},
         served' \in {"none", "configured", "other"},
         probe' \in {"none"} \cup Waiting \cup Reports
  PROVE  Inv'
<1>1. Types'
  BY DEF Inv, Types
<1>2. CallsOK'
  BY DEF Inv, CallsOK
<1>. QED  BY <1>1, <1>2 DEF Inv

LEMMA AnswerStep ==
  ASSUME Inv, NEW a \in Attempts,
         NEW status \in {"s200", "s400", "s401", "s404", "s429", "s500", "s503"},
         NEW whole \in BOOLEAN,
         Answer(a[1], a[2], status, whole),
         status = "s200" /\ whole => ~(config.api = "project" /\ a[1] \in Streamed),
         UNCHANGED <<config, call, expired, harmed, probe, served>>,
         worker' \in {"down", "free", "busy", "sending"}, WorkerOK'
  PROVE  Inv'
<1>. DEFINE w == [status |-> status, sent |-> 0, whole |-> whole]
<1>0. a[1] \in Calls
  BY DEF Attempts
<1>1. CASE Listening(a[1], a[2])
  <2>1. wire' = [wire EXCEPT ![a[1]] = w] /\ call[a[1]].pc = "wait"
    BY <1>1 DEF Answer, Listening, At
  <2>2. w \in Reply
    BY ConfigAssumption DEF Reply, Causes
  <2>3. w.status = status /\ w.whole = whole
    OBVIOUS
  <2>. HIDE DEF w
  <2>. QED  BY <1>0, <2>1, <2>2, <2>3, WireStep
<1>2. CASE ~Listening(a[1], a[2])
  <2>1. wire' = wire
    BY <1>2 DEF Answer
  <2>. QED  BY <2>1, QuietStep DEF Inv, Types
<1>. QED  BY <1>1, <1>2

LEMMA LaunchStep ==
  ASSUME Inv, NEW m \in {"configured", "other"}, Launch(m)
  PROVE  Inv'
BY QuietStep DEF Launch, probing, Inv, Types, WorkerOK

LEMMA QueueHead ==
  ASSUME Inv, queue # <<>>
  PROVE  Head(queue) \in Attempts /\ Tail(queue) \in Seq(Attempts)
BY DEF Inv, WorkerOK

LEMMA RefuseStep ==
  ASSUME Inv, Refuse
  PROVE  Inv'
<1>1. PICK s \in Refusals(Head(queue)[1]) : Answer(Head(queue)[1], Head(queue)[2], s, TRUE)
  BY DEF Refuse
<1>2. s \in {"s400", "s401", "s404", "s429"}
  BY <1>1 DEF Refusals
<1>3. Head(queue) \in Attempts /\ Tail(queue) \in Seq(Attempts)
  BY QueueHead DEF Refuse
<1>4. /\ UNCHANGED <<config, call, expired, harmed, probe, served, worker, job>>
      /\ queue' = Tail(queue)
  BY DEF Refuse, probing
<1>5. WorkerOK'
  BY <1>3, <1>4 DEF Inv, WorkerOK
<1>. QED  BY <1>1, <1>2, <1>3, <1>4, <1>5, AnswerStep DEF Inv, Types

LEMMA GenerateStep ==
  ASSUME Inv, Generate
  PROVE  Inv'
<1>1. WorkerOK'
  BY QueueHead DEF Generate, Inv, WorkerOK
<1>. QED  BY <1>1, QuietStep DEF Generate, probing, Inv, Types

LEMMA RespondStep ==
  ASSUME Inv, Respond
  PROVE  Inv'
<1>. DEFINE streams == config.api = "project" /\ job[1] \in Streamed
<1>0. job \in Attempts
  BY DEF Respond, Inv, WorkerOK
<1>1. UNCHANGED <<config, call, expired, harmed, probe, served, queue>>
  BY DEF Respond, probing
<1>2. CASE /\ streams /\ Answer(job[1], job[2], "s200", FALSE)
           /\ worker' = "sending" /\ UNCHANGED job
  <2>1. WorkerOK'
    BY <1>0, <1>1, <1>2 DEF Inv, WorkerOK
  <2>. QED  BY <1>0, <1>1, <1>2, <2>1, AnswerStep
<1>3. CASE worker' = "free" /\ job' = NoJob
  <2>1. WorkerOK'
    BY <1>1, <1>3 DEF Inv, WorkerOK
  <2>2. CASE ~streams /\ \E w \in BOOLEAN : Answer(job[1], job[2], "s200", w)
    BY <1>0, <1>1, <1>3, <2>1, <2>2, AnswerStep
  <2>3. CASE \E s \in {"s500", "s503"} : Answer(job[1], job[2], s, TRUE)
    BY <1>0, <1>1, <1>3, <2>1, <2>3, AnswerStep
  <2>. QED  BY <1>3, <2>2, <2>3 DEF Respond
<1>. QED  BY <1>2, <1>3 DEF Respond

LEMMA SendingStep ==
  ASSUME Inv, SendPiece \/ StopSending
  PROVE  Inv'
<1>. DEFINE c == job[1]
<1>0. job \in Attempts /\ c \in Calls /\ wire[c] \in Reply
  BY DEF SendPiece, StopSending, Inv, WorkerOK, Types, Attempts
<1>1. CASE SendPiece
  <2>. DEFINE w == [wire[c] EXCEPT !.sent = @ + 1]
  <2>1. wire' = [wire EXCEPT ![c] = w] /\ wire[c].status = "s200" /\ wire[c].sent < Length
    BY <1>1 DEF SendPiece, Reads
  <2>2. w \in Reply /\ w.status = "s200" /\ w.sent = wire[c].sent + 1 /\ w.whole = wire[c].whole
    BY <1>0, <2>1, ConfigAssumption DEF Reply
  <2>3. UNCHANGED <<config, call, expired, harmed, probe, served, worker>> /\ WorkerOK'
    BY <1>1 DEF SendPiece, serving, probing, Inv, WorkerOK
  <2>4. CallOK(config.api, c, call[c], wire[c], harmed)
    BY <1>0 DEF Inv, CallsOK
  <2>5. c \in Streamed /\ config.api = "project" => ~wire[c].whole
    BY <2>1, <2>4, <1>0, ConfigAssumption DEF CallOK, Reply
  <2>6. wire[c].sent <= w.sent
    BY <1>0, <2>2 DEF Reply
  <2>. HIDE DEF w, c
  <2>. QED  BY <1>0, <2>1, <2>2, <2>3, <2>5, <2>6, WireStep DEF Inv, Types
<1>2. CASE StopSending
  <2>1. UNCHANGED <<config, call, expired, harmed, probe, served>> /\ worker' = "free" /\ WorkerOK'
    BY <1>2 DEF StopSending, probing, Inv, WorkerOK
  <2>2. CASE Reads(c, job[2]) /\ wire[c].sent = Length
    <3>. DEFINE w == [wire[c] EXCEPT !.whole = TRUE]
    <3>1. wire' = [wire EXCEPT ![c] = w] /\ wire[c].status = "s200"
      BY <1>2, <2>2 DEF StopSending, Reads
    <3>2. w \in Reply /\ w.status = "s200" /\ w.sent = Length
      BY <1>0, <2>2, <3>1 DEF Reply
    <3>3. wire[c].sent <= w.sent
      BY <1>0, <2>2, <3>2, ConfigAssumption DEF Reply
    <3>. HIDE DEF w, c
    <3>. QED  BY <1>0, <2>1, <3>1, <3>2, <3>3, WireStep
  <2>3. CASE ~(Reads(c, job[2]) /\ wire[c].sent = Length)
    <3>1. wire' = wire
      BY <1>2, <2>3 DEF StopSending
    <3>. QED  BY <2>1, <3>1, QuietStep DEF Inv, Types
  <2>. QED  BY <2>2, <2>3
<1>. QED  BY <1>1, <1>2

LEMMA KillStep ==
  ASSUME Inv, Kill
  PROVE  Inv'
<1>1. WorkerOK'
  BY DEF Kill, Inv, WorkerOK
<1>. QED  BY <1>1, QuietStep DEF Kill, probing, Inv, Types

LEMMA ProbeSteps ==
  ASSUME Inv, ProbeStep
  PROVE  Inv'
<1>1. PICK p \in Waiting \cup Reports : Observe(p)
  <2>1. CASE StartProbe
    BY <2>1 DEF StartProbe, Waiting, Reports
  <2>2. CASE ProbeFails \/ HealthOk \/ ModelsOk
    BY <2>2 DEF ProbeFails, HealthOk, ModelsOk, Waiting, Reports
  <2>. QED  BY <2>1, <2>2 DEF ProbeStep
<1>2. WorkerOK'
  BY <1>1, ClientKeepsWorker DEF Observe, Inv
<1>. QED  BY <1>1, <1>2, QuietStep DEF Observe, serving, Inv, Types

-----------------------------------------------------------------------------
(* Theorems *)

LEMMA Initially == Init => Inv
<1>. SUFFICES ASSUME Init
              PROVE  Inv
  OBVIOUS
<1>1. Types
  BY Fresh DEF Init, Types
<1>2. WorkerOK
  BY DEF Init, WorkerOK
<1>3. ASSUME NEW c \in Calls
      PROVE  CallOK(config.api, c, call[c], wire[c], harmed)
  <2>1. call[c] = NewCall /\ wire[c] = NoReply
    BY DEF Init
  <2>. QED  BY <2>1 DEF CallOK, NewCall, NoReply
<1>. QED  BY <1>1, <1>2, <1>3 DEF Inv, CallsOK

LEMMA Step ==
  ASSUME Inv, [Next]_vars
  PROVE  Inv'
<1>1. ASSUME NEW c \in Calls, CallStep(c)
      PROVE  Inv'
  BY <1>1, StartStep, AttemptStep, SleepStep, ExpireStep, LostStep, ReadReplyStep,
     ReadPieceStep, ReadEndStep, BrokenStep DEF CallStep, Client
<1>2. CASE WorkerStep
  BY <1>2, LaunchStep, RefuseStep, GenerateStep, RespondStep, SendingStep, KillStep
     DEF WorkerStep, Worker
<1>3. CASE ProbeStep
  BY <1>3, ProbeSteps
<1>4. CASE UNCHANGED vars
  <2>1. WorkerOK'
    BY <1>4, ClientKeepsWorker DEF vars, serving, Inv
  <2>. QED  BY <1>4, <2>1, QuietStep DEF vars, Inv, Types
<1>. QED  BY <1>1, <1>2, <1>3, <1>4 DEF Next

\* The invariant holds in every reachable state.
THEOREM Invariance == Spec => []Inv
<1>1. Init => Inv
  BY Initially
<1>2. Inv /\ [Next]_vars => Inv'
  BY Step
<1>. QED  BY <1>1, <1>2, PTL DEF Spec

\* An answer handed on as completed is the whole text, wherever connections
\* were cut and however often the call was retried.
THEOREM AnswersWhole == Spec => []AnswerWhole
<1>1. Inv => AnswerWhole
  BY DEF Inv, CallsOK, CallOK, AnswerWhole
<1>. QED  BY <1>1, Invariance, PTL

\* A call that neither worker, nor connection, nor time has harmed is answered.
THEOREM UnharmedAnswered == Spec => []UnharmedCompletes
<1>1. Inv => UnharmedCompletes
  BY DEF Inv, CallsOK, CallOK, Answerable, At, UnharmedCompletes
<1>. QED  BY <1>1, Invariance, PTL
=============================================================================

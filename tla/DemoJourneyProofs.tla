------------------------- MODULE DemoJourneyProofs --------------------------
(***************************************************************************)
(* Proofs about DemoJourney, for any number of requests, sessions, pieces  *)
(* and restarts: every variable keeps its type, and GO_NEXT_PIECE          *)
(* completes the pieces in order.  The invariant relates the lock of the   *)
(* provider to the threads, and says what a journey looks like between the *)
(* assignments of _go_next.  The second part is about the replies, which   *)
(* are put together without the provider's lock: none shows a piece ahead  *)
(* of the completed ones, and a request that moved the journey on says so. *)
(* Both rest on the fact that a journey only moves forward.                *)
(***************************************************************************)
EXTENDS DemoJourney, TLAPS

\* Labels inside "with self._lock", and those after a session was found.
Locked == {"apply", "complete", "advance", "announce"}
Serving == Labels \ {"idle", "create", "find", "done"}

\* What a handler at label l with request q relies on.
ThreadOK(l, q) ==
  /\ l \in Serving => q.sid \in SessionIds /\ journeys[q.sid] \in Journey
  /\ l = "find" => q.kind # "create"
  /\ l = "apply" => q.action \notin {"next", "other"}
  /\ l \in {"view2", "view3"} => q.view \in Journey

ThreadInv == \A r \in Requests : ThreadOK(pc[r], req[r])

MutexInv == \A r \in Requests : pc[r] \in Locked <=> lock = r

Settled(j) == j.completed = 1..(j.piece - 1) /\ j.step = j.piece
Completed(j) == j.piece \in Pieces /\ j.completed = 1..j.piece /\ j.step = j.piece
Advanced(j) == j.piece \in Pieces \cup {Finished} /\ j.completed = 1..(j.piece - 1)

\* Between the assignments of _go_next the journey is not settled, and the
\* thread that moves it knows how far it got.
OrderInv ==
  /\ \A s \in SessionIds : journeys[s] \in Journey /\ ~Moving(s) => Settled(journeys[s])
  /\ \A r \in Requests :
       /\ pc[r] = "advance" => Completed(journeys[req[r].sid])
       /\ pc[r] = "announce" => Advanced(journeys[req[r].sid])

Inv == TypeOK /\ ThreadInv /\ MutexInv /\ OrderInv

-----------------------------------------------------------------------------
(* The values of a journey *)

\* A session without a state is told from every journey.
LEMMA JourneyFacts ==
  /\ Finished \in Nat /\ Finished = LastPiece + 1 /\ LastPiece \in Nat \ {0}
  /\ FreshJourney \in Journey
  /\ NoJourney \notin Journey
  /\ \A j \in Journey \cup {NoJourney} : j \in Journey <=> j # NoJourney
  /\ Settled(FreshJourney)
<1>1. Finished \in Nat /\ Finished = LastPiece + 1 /\ LastPiece \in Nat \ {0}
  BY JourneyAssumption DEF Finished
<1>2. FreshJourney \in Journey
  BY <1>1 DEF FreshJourney, Journey, PieceUi, Pieces
<1>3. NoJourney \notin Journey
  BY <1>1 DEF NoJourney, FreshJourney, Journey
<1>4. Settled(FreshJourney)
  BY DEF Settled, FreshJourney
<1> QED BY <1>1, <1>2, <1>3, <1>4

\* Every action of apply_action leaves a journey, as far along as before.
LEMMA EffectFacts ==
  ASSUME NEW j \in Journey, NEW action \in Actions \ {"next", "other"},
         NEW question \in Questions \cup {NoQuestion}
  PROVE  /\ Effect(j, action, question) \in Journey
         /\ Effect(j, action, question).piece = j.piece
         /\ Effect(j, action, question).completed = j.completed
         /\ Effect(j, action, question).step = j.step
<1> USE DEF Journey, PieceUi, AllTags
<1>1. CASE action = "skip"
  <2>1. Effect(j, action, question) =
          [j EXCEPT !.ui = "skipped"]
    BY <1>1, Zenon DEF Effect
  <2> QED BY <2>1
<1>2. CASE action = "pause"
  <2>1. Effect(j, action, question) =
          [j EXCEPT !.ui = "paused", !.context = @ \cup {"current_fatigue"}]
    BY <1>2, Zenon DEF Effect
  <2> QED BY <2>1
<1>3. CASE action = "short"
  <2>1. Effect(j, action, question) =
          [j EXCEPT !.ui = "responding", !.context = @ \cup {"prefers_short_current"}]
    BY <1>3, Zenon DEF Effect
  <2> QED BY <2>1
<1>4. CASE action = "open"
  <2>1. Effect(j, action, question) =
          [j EXCEPT !.mode = "free", !.pending = question]
    BY <1>4, Zenon DEF Effect
  <2> QED BY <2>1
<1>5. CASE action = "return"
  <2>1. Effect(j, action, question) =
          [j EXCEPT !.mode = "piece", !.pending = NoQuestion]
    BY <1>5, Zenon DEF Effect
  <2> QED BY <2>1
<1> QED BY <1>1, <1>2, <1>3, <1>4, <1>5 DEF Actions

-----------------------------------------------------------------------------
(* The initial states *)

THEOREM InitInv == ServerInit => Inv
<1> SUFFICES ASSUME ServerInit PROVE Inv
  OBVIOUS
<1> USE JourneyFacts DEF ServerInit
<1>1. NewRequest("read", NoSession, "other", NoQuestion) \in Request
  BY DEF NewRequest, Request, Kinds, Actions
<1>2. TypeOK
  BY <1>1, JourneyAssumption DEF TypeOK, Labels
<1>3. ThreadInv
  BY DEF ThreadInv, ThreadOK, Serving
<1>4. MutexInv
  BY JourneyAssumption DEF MutexInv, Locked
<1>5. OrderInv
  BY DEF OrderInv
<1> QED BY <1>2, <1>3, <1>4, <1>5 DEF Inv

-----------------------------------------------------------------------------
(* Steps of one thread outside the lock that leave the journeys alone *)

LEMMA Proceed ==
  ASSUME Inv, NEW r \in Requests, NEW l \in Labels \ Locked, NEW q \in Request,
         pc[r] \notin Locked, ThreadOK(l, q),
         Goto(r, l), SetRequest(r, q),
         UNCHANGED <<journeys, lock, restarts>>,
         created' \subseteq SessionIds
  PROVE  Inv'
<1> USE DEF Inv, Goto, SetRequest
<1>1. TypeOK'
  BY DEF TypeOK
<1>2. pc' = [pc EXCEPT ![r] = l] /\ req' = [req EXCEPT ![r] = q]
  OBVIOUS
<1>3. \A t \in Requests : pc'[t] = (IF t = r THEN l ELSE pc[t])
                       /\ req'[t] = (IF t = r THEN q ELSE req[t])
  BY <1>2 DEF TypeOK
<1>4. ThreadInv'
  BY <1>3 DEF ThreadInv, ThreadOK
<1>5. MutexInv'
  BY <1>3 DEF MutexInv
<1>6. \A t \in Requests : pc'[t] \in Locked => pc'[t] = pc[t] /\ req'[t] = req[t]
  BY <1>3
<1>7. ASSUME NEW s \in SessionIds PROVE Moving(s)' <=> Moving(s)
  BY <1>3 DEF Moving, Locked
<1>8. OrderInv'
  BY <1>6, <1>7 DEF OrderInv, Locked, Settled, Completed, Advanced
<1> QED BY <1>1, <1>4, <1>5, <1>8

LEMMA ArriveInv ==
  ASSUME Inv, NEW r \in Requests, Arrive(r)
  PROVE  Inv'
<1>1. PICK kind \in Kinds, s \in created \cup {NoSession}, action \in Actions,
          question \in Questions \cup {NoQuestion} :
          (kind = "create" <=> s = NoSession) /\ Start(r, kind, s, action, question)
  BY DEF Arrive
<1> DEFINE q == NewRequest(kind, s, action, question)
<1> DEFINE l == IF kind = "create" THEN "create" ELSE "find"
<1>2. q \in Request
  BY <1>1, JourneyFacts DEF Inv, TypeOK, NewRequest, Request
<1>3. ThreadOK(l, q)
  BY DEF ThreadOK, Serving, NewRequest
<1>4. l \in Labels \ Locked
  BY DEF Labels, Locked
<1>5. pc[r] \notin Locked /\ UNCHANGED <<journeys, created, lock, restarts>>
  BY DEF Arrive, Locked
<1>6. Goto(r, l) /\ SetRequest(r, q)
  BY <1>1 DEF Start
<1> HIDE DEF q, l
<1> QED BY <1>2, <1>3, <1>4, <1>5, <1>6, Proceed DEF Inv, TypeOK

\* A reply without a session in it ends a request.
LEMMA AnswerInv ==
  ASSUME Inv, NEW r \in Requests, pc[r] \notin Locked,
         NEW outcome \in {"ok", "missing", "refused", "failed", "lost"},
         Answer(r, outcome), UNCHANGED <<journeys, created, lock, restarts>>
  PROVE  Inv'
<1> DEFINE q == [req[r] EXCEPT !.outcome = outcome]
<1>1. q \in Request
  BY DEF Inv, TypeOK, Request
<1>2. ThreadOK("done", q)
  BY DEF ThreadOK, Serving
<1>3. Goto(r, "done") /\ SetRequest(r, q)
  BY DEF Answer
<1>4. "done" \in Labels \ Locked
  BY DEF Labels, Locked
<1> HIDE DEF q
<1> QED BY <1>1, <1>2, <1>3, <1>4, Proceed DEF Inv, TypeOK

\* A step that only moves a thread on, from one label without the lock to
\* another.
LEMMA MoveOn ==
  ASSUME Inv, NEW r \in Requests, NEW l \in Labels \ Locked,
         pc[r] \notin Locked, ThreadOK(l, req[r]),
         Goto(r, l), UNCHANGED <<journeys, created, lock, req, restarts>>
  PROVE  Inv'
<1>1. req[r] \in Request /\ SetRequest(r, req[r])
  BY DEF Inv, TypeOK, SetRequest
<1> QED BY <1>1, Proceed DEF Inv, TypeOK

LEMMA FindJourneyInv ==
  ASSUME Inv, NEW r \in Requests, FindJourney(r)
  PROVE  Inv'
<1>1. pc[r] = "find" /\ UNCHANGED <<journeys, created, lock, restarts>>
  BY DEF FindJourney
<1>2. pc[r] \notin Locked
  BY <1>1 DEF Locked
<1>3. CASE Answer(r, "missing") \/ Answer(r, "refused")
  BY <1>1, <1>2, <1>3, AnswerInv
<1>4. CASE Known(req[r].sid) /\ Goto(r, AfterFind[req[r].kind]) /\ UNCHANGED req
  <2> DEFINE l == AfterFind[req[r].kind]
  <2>1. req[r].kind \in Kinds \ {"create"}
    BY <1>1 DEF Inv, ThreadInv, ThreadOK, TypeOK, Request
  <2>2. l \in {"view", "before", "lock", "chat"}
    BY <2>1 DEF Kinds, AfterFind
  <2>3. l \in Labels \ Locked
    BY <2>2 DEF Labels, Locked
  <2>4. req[r].sid \in SessionIds /\ journeys[req[r].sid] \in Journey
    BY <1>4, JourneyFacts DEF Known, Inv, TypeOK
  <2>5. ThreadOK(l, req[r])
    BY <2>2, <2>4 DEF ThreadOK
  <2> HIDE DEF l
  <2>6. Goto(r, l)
    BY <1>4 DEF l
  <2> QED BY <1>1, <1>2, <1>4, <2>3, <2>5, <2>6, MoveOn
<1> QED BY <1>3, <1>4 DEF FindJourney

LEMMA ReadBeforeInv ==
  ASSUME Inv, NEW r \in Requests, ReadBefore(r)
  PROVE  Inv'
<1>1. pc[r] \in {"before", "before2"} /\ UNCHANGED <<journeys, created, lock, restarts>>
  BY DEF ReadBefore
<1>2. pc[r] \notin Locked /\ pc[r] \in Serving
  BY <1>1 DEF Locked, Serving, Labels
<1>3. req[r] \in Request /\ StateOf(r) \in Journey
  BY <1>2 DEF Inv, ThreadInv, ThreadOK, TypeOK, StateOf
<1>4. StateOf(r).piece \in 0..Finished /\ StateOf(r).completed \in SUBSET Pieces
  BY <1>3, JourneyFacts DEF Journey
<1>5. PICK l \in {"before2", "lock"}, q \in Request :
        Goto(r, l) /\ SetRequest(r, q) /\ q.sid = req[r].sid
  BY <1>3, <1>4 DEF ReadBefore, Request
<1>6. l \in Labels \ Locked /\ ThreadOK(l, q)
  BY <1>2, <1>5 DEF Labels, Locked, Inv, ThreadInv, ThreadOK
<1> QED BY <1>1, <1>2, <1>5, <1>6, Proceed DEF Inv, TypeOK

LEMMA CompareInv ==
  ASSUME Inv, NEW r \in Requests, Compare(r)
  PROVE  Inv'
<1> DEFINE q == [req[r] EXCEPT !.changed =
       \/ req[r].before.piece # StateOf(r).piece
       \/ req[r].before.completed # StateOf(r).completed]
<1>1. pc[r] = "compare" /\ UNCHANGED <<journeys, created, lock, restarts>>
  BY DEF Compare
<1>2. pc[r] \notin Locked /\ pc[r] \in Serving
  BY <1>1 DEF Locked, Serving, Labels
<1>3. q \in Request /\ q.sid = req[r].sid
  BY DEF Inv, TypeOK, Request
<1>4. "view" \in Labels \ Locked /\ ThreadOK("view", q)
  BY <1>2, <1>3 DEF Labels, Locked, Inv, ThreadInv, ThreadOK
<1>5. Goto(r, "view") /\ SetRequest(r, q)
  BY DEF Compare
<1> HIDE DEF q
<1> QED BY <1>1, <1>2, <1>3, <1>4, <1>5, Proceed DEF Inv, TypeOK

LEMMA ReadViewInv ==
  ASSUME Inv, NEW r \in Requests, ReadView(r)
  PROVE  Inv'
<1> DEFINE state == StateOf(r)
<1>1. pc[r] \in {"view", "view2", "view3"} /\ UNCHANGED <<journeys, created, lock, restarts>>
  BY DEF ReadView
<1>2. pc[r] \notin Locked /\ pc[r] \in Serving
  BY <1>1 DEF Locked, Serving, Labels
<1>3. req[r] \in Request /\ state \in Journey
  BY <1>2 DEF Inv, ThreadInv, ThreadOK, TypeOK, StateOf
<1>4. pc[r] \in {"view2", "view3"} => req[r].view \in Journey
  BY DEF Inv, ThreadInv, ThreadOK
<1>5. CASE pc[r] = "view"
  <2> DEFINE v == [state EXCEPT !.completed = {}]
             q == [req[r] EXCEPT !.view = v]
  <2>1. v \in Journey
    BY <1>3 DEF Journey
  <2>2. q \in Request /\ q.sid = req[r].sid /\ q.view \in Journey
    BY <1>3, <2>1 DEF Request
  <2>3. "view2" \in Labels \ Locked /\ ThreadOK("view2", q)
    BY <1>2, <2>2 DEF Labels, Locked, Inv, ThreadInv, ThreadOK
  <2>4. Goto(r, "view2") /\ SetRequest(r, q)
    BY <1>5 DEF ReadView
  <2> HIDE DEF q
  <2> QED BY <1>1, <1>2, <2>2, <2>3, <2>4, Proceed DEF Inv, TypeOK
<1>6. CASE pc[r] = "view2"
  <2> DEFINE v == [state EXCEPT !.piece = req[r].view.piece, !.completed = {}]
             q == [req[r] EXCEPT !.view = v]
  <2>1. v \in Journey
    BY <1>3, <1>4, <1>6 DEF Journey
  <2>2. q \in Request /\ q.sid = req[r].sid /\ q.view \in Journey
    BY <1>3, <2>1 DEF Request
  <2>3. "view3" \in Labels \ Locked /\ ThreadOK("view3", q)
    BY <1>2, <2>2 DEF Labels, Locked, Inv, ThreadInv, ThreadOK
  <2>4. Goto(r, "view3") /\ SetRequest(r, q)
    BY <1>6 DEF ReadView
  <2> HIDE DEF q
  <2> QED BY <1>1, <1>2, <2>2, <2>3, <2>4, Proceed DEF Inv, TypeOK
<1>7. CASE pc[r] = "view3"
  <2> DEFINE v == [req[r].view EXCEPT !.completed = state.completed]
             q == [req[r] EXCEPT !.view = v, !.outcome = "ok"]
  <2>1. v \in Journey
    BY <1>3, <1>4, <1>7 DEF Journey
  <2>2. q \in Request /\ ThreadOK("done", q)
    BY <1>3, <2>1 DEF Request, ThreadOK, Serving
  <2>3. q = [req[r] EXCEPT !.view.completed = state.completed, !.outcome = "ok"]
    BY <1>3, <1>4, <1>7 DEF Request
  <2>4. Goto(r, "done") /\ SetRequest(r, q) /\ "done" \in Labels \ Locked
    BY <1>7, <2>3 DEF ReadView, Labels, Locked
  <2> HIDE DEF q
  <2> QED BY <1>1, <1>2, <2>2, <2>4, Proceed DEF Inv, TypeOK
<1> QED BY <1>1, <1>5, <1>6, <1>7

LEMMA ChatInv ==
  ASSUME Inv, NEW r \in Requests, Chat(r)
  PROVE  Inv'
<1>1. pc[r] = "chat" /\ UNCHANGED <<journeys, created, lock, restarts>>
  BY DEF Chat
<1>2. pc[r] \notin Locked /\ pc[r] \in Serving
  BY <1>1 DEF Locked, Serving, Labels
<1>3. CASE Answer(r, "failed")
  BY <1>1, <1>2, <1>3, AnswerInv
<1>4. ASSUME NEW tags \in SUBSET Tags,
             Goto(r, "merge"), SetRequest(r, [req[r] EXCEPT !.tags = tags])
      PROVE  Inv'
  <2> DEFINE q == [req[r] EXCEPT !.tags = tags]
  <2>0. tags \in SUBSET AllTags
    BY DEF AllTags
  <2>1. q \in Request /\ q.sid = req[r].sid
    BY <2>0 DEF Inv, TypeOK, Request
  <2>2. "merge" \in Labels \ Locked /\ ThreadOK("merge", q)
    BY <1>2, <2>1 DEF Labels, Locked, Inv, ThreadInv, ThreadOK
  <2>3. SetRequest(r, q)
    BY <1>4
  <2> HIDE DEF q
  <2> QED BY <1>1, <1>2, <1>4, <2>1, <2>2, <2>3, Proceed DEF Inv, TypeOK
<1> QED BY <1>3, <1>4 DEF Chat

LEMMA MergeContextInv ==
  ASSUME Inv, NEW r \in Requests, MergeContext(r)
  PROVE  Inv'
<1> DEFINE q == [req[r] EXCEPT !.tags = @ \cup StateOf(r).context]
<1>1. pc[r] = "merge" /\ UNCHANGED <<journeys, created, lock, restarts>>
  BY DEF MergeContext
<1>2. pc[r] \notin Locked /\ pc[r] \in Serving
  BY <1>1 DEF Locked, Serving, Labels
<1>3. StateOf(r).context \in SUBSET AllTags
  BY <1>2 DEF Inv, ThreadInv, ThreadOK, StateOf, Journey
<1>4. q \in Request /\ q.sid = req[r].sid
  BY <1>3 DEF Inv, TypeOK, Request
<1>5. "store" \in Labels \ Locked /\ ThreadOK("store", q)
  BY <1>2, <1>4 DEF Labels, Locked, Inv, ThreadInv, ThreadOK
<1>6. Goto(r, "store") /\ SetRequest(r, q)
  BY DEF MergeContext
<1> HIDE DEF q
<1> QED BY <1>1, <1>2, <1>4, <1>5, <1>6, Proceed DEF Inv, TypeOK

LEMMA TakeLockInv ==
  ASSUME Inv, NEW r \in Requests, TakeLock(r)
  PROVE  Inv'
<1> USE DEF Goto, SetRequest
<1>1. pc[r] = "lock" /\ UNCHANGED <<journeys, created, restarts>>
  BY DEF TakeLock
<1>2. pc[r] \notin Locked /\ pc[r] \in Serving
  BY <1>1 DEF Locked, Serving, Labels
<1>3. CASE req[r].action = "other"
  <2>1. Answer(r, "refused") /\ UNCHANGED lock
    BY <1>3 DEF TakeLock
  <2> QED BY <1>1, <1>2, <2>1, AnswerInv
<1>4. CASE req[r].action # "other"
  <2> DEFINE l == IF req[r].action = "next" THEN "complete" ELSE "apply"
  <2>1. lock = "free" /\ lock' = r /\ pc' = [pc EXCEPT ![r] = l] /\ UNCHANGED req
    BY <1>4 DEF TakeLock
  <2>2. l \in {"complete", "apply"} /\ (l = "apply" => req[r].action # "next")
    OBVIOUS
  <2>3. \A t \in Requests : pc'[t] = (IF t = r THEN l ELSE pc[t])
    BY <2>1 DEF Inv, TypeOK
  <2> HIDE DEF l
  <2>4. \A t \in Requests : pc[t] \notin Locked
    BY <2>1, JourneyAssumption DEF Inv, MutexInv
  <2>5. TypeOK'
    BY <1>1, <2>1, <2>2 DEF Inv, TypeOK, Labels
  <2>6. ThreadInv'
    BY <1>1, <1>2, <1>4, <2>1, <2>2, <2>3 DEF Inv, ThreadInv, ThreadOK
  <2>7. MutexInv'
    BY <2>1, <2>2, <2>3, <2>4 DEF MutexInv, Locked
  <2>8. \A s \in SessionIds : ~Moving(s)
    BY <2>4 DEF Moving, Locked
  <2>9. \A t \in Requests : pc'[t] \notin {"advance", "announce"}
    BY <2>2, <2>3, <2>4 DEF Locked
  <2>10. OrderInv'
    BY <1>1, <2>8, <2>9 DEF Inv, OrderInv, Settled
  <2> QED BY <2>5, <2>6, <2>7, <2>10 DEF Inv
<1> QED BY <1>3, <1>4

-----------------------------------------------------------------------------
(* Steps that change a journey *)

LEMMA CreateJourneyInv ==
  ASSUME Inv, NEW r \in Requests, CreateJourney(r)
  PROVE  Inv'
<1>1. PICK s \in SessionIds \ created :
        /\ created' = created \cup {s}
        /\ journeys' = [journeys EXCEPT ![s] = FreshJourney]
        /\ SetRequest(r, [req[r] EXCEPT !.sid = s])
  BY DEF CreateJourney
<1> DEFINE q == [req[r] EXCEPT !.sid = s]
<1>2. pc[r] = "create" /\ lock = "free" /\ UNCHANGED <<lock, restarts>>
  BY DEF CreateJourney
<1>3. pc' = [pc EXCEPT ![r] = "view"] /\ req' = [req EXCEPT ![r] = q]
  BY <1>1 DEF CreateJourney, Goto, SetRequest
<1>4. q \in Request /\ q.sid = s
  BY DEF Inv, TypeOK, Request
<1> HIDE DEF q
<1>5. \A t \in Requests : /\ pc'[t] = (IF t = r THEN "view" ELSE pc[t])
                          /\ req'[t] = (IF t = r THEN q ELSE req[t])
  BY <1>3 DEF Inv, TypeOK
<1>6. \A t \in Requests : pc[t] \notin Locked /\ pc'[t] \notin Locked
  BY <1>2, <1>5, JourneyAssumption DEF Inv, MutexInv, Locked
<1>7. TypeOK'
  BY <1>1, <1>2, <1>3, <1>4, JourneyFacts DEF Inv, TypeOK, Labels
<1>8. journeys'[s] \in Journey
  BY <1>1, JourneyFacts DEF Inv, TypeOK
<1>9. ThreadInv'
  <2> SUFFICES ASSUME NEW t \in Requests PROVE ThreadOK(pc[t], req[t])'
    BY DEF ThreadInv
  <2>1. CASE t = r
    BY <1>4, <1>5, <1>8, <2>1 DEF ThreadOK
  <2>2. CASE t # r
    BY <1>1, <1>5, <2>2, JourneyFacts DEF Inv, TypeOK, ThreadInv, ThreadOK
  <2> QED BY <2>1, <2>2
<1>10. MutexInv'
  BY <1>2, <1>6, JourneyAssumption DEF MutexInv
<1>11. \A u \in SessionIds : ~Moving(u)
  BY <1>6 DEF Moving, Locked
<1>12. OrderInv'
  BY <1>1, <1>6, <1>11, JourneyFacts DEF Inv, TypeOK, OrderInv, Locked, Settled
<1> QED BY <1>7, <1>9, <1>10, <1>12 DEF Inv

\* A step that replaces the journey of r's session by j and takes r to l;
\* the order of the pieces is left to show.
LEMMA ChangeJourney ==
  ASSUME Inv, NEW r \in Requests, pc[r] \in Serving, NEW j \in Journey,
         NEW l \in Labels, NEW q \in Request, q.sid = req[r].sid,
         l \notin {"find", "apply", "view2", "view3"},
         SetState(r, j), Goto(r, l), SetRequest(r, q),
         UNCHANGED <<created, restarts>>
  PROVE  /\ journeys' = [journeys EXCEPT ![req[r].sid] = j]
         /\ req[r].sid \in SessionIds /\ journeys[req[r].sid] \in Journey
         /\ \A t \in Requests : /\ pc'[t] = (IF t = r THEN l ELSE pc[t])
                                /\ req'[t].sid = req[t].sid
                                /\ t # r => req'[t] = req[t]
         /\ lock' \in Requests \cup {"free"} => TypeOK'
         /\ ThreadInv'
<1>1. journeys' = [journeys EXCEPT ![req[r].sid] = j]
  BY DEF SetState
<1>2. req[r].sid \in SessionIds /\ journeys[req[r].sid] \in Journey
  BY DEF Inv, ThreadInv, ThreadOK
<1>3. pc' = [pc EXCEPT ![r] = l] /\ req' = [req EXCEPT ![r] = q]
  BY DEF Goto, SetRequest
<1>4. \A t \in Requests : /\ pc'[t] = (IF t = r THEN l ELSE pc[t])
                          /\ req'[t].sid = req[t].sid
                          /\ t # r => req'[t] = req[t]
  BY <1>3 DEF Inv, TypeOK
<1>5. ASSUME lock' \in Requests \cup {"free"} PROVE TypeOK'
  BY <1>1, <1>3, <1>5 DEF Inv, TypeOK
<1>6. ThreadInv'
  <2> SUFFICES ASSUME NEW t \in Requests PROVE ThreadOK(pc[t], req[t])'
    BY DEF ThreadInv
  <2>1. CASE t = r
    BY <1>1, <1>2, <1>4, <2>1 DEF ThreadOK, Inv, TypeOK
  <2>2. CASE t # r
    BY <1>1, <1>4, <2>2 DEF Inv, TypeOK, ThreadInv, ThreadOK
  <2> QED BY <2>1, <2>2
<1> QED BY <1>1, <1>2, <1>4, <1>5, <1>6

\* The thread that holds the lock is alone inside it.
LEMMA Alone ==
  ASSUME Inv, NEW r \in Requests, pc[r] \in Locked
  PROVE  lock = r /\ \A t \in Requests : t # r => pc[t] \notin Locked
BY DEF Inv, MutexInv

\* A thread leaves the lock with a settled journey.
LEMMA Release ==
  ASSUME Inv, NEW r \in Requests, pc[r] \in Locked,
         NEW j \in Journey, Settled(j), SetState(r, j), Unlock(r),
         UNCHANGED <<created, req, restarts>>
  PROVE  Inv'
<1> DEFINE l == NextLabel(r)
<1>1. l \in {"compare", "view"} /\ l \in Labels /\ l \notin Locked
  BY DEF NextLabel, Labels, Locked
<1>2. pc[r] \in Serving
  BY DEF Locked, Serving, Labels
<1>3. req[r] \in Request /\ SetRequest(r, req[r])
  BY DEF Inv, TypeOK, SetRequest
<1>4. Goto(r, l) /\ lock' = "free"
  BY DEF Unlock
<1> HIDE DEF l
<1>5. /\ journeys' = [journeys EXCEPT ![req[r].sid] = j]
      /\ req[r].sid \in SessionIds /\ journeys[req[r].sid] \in Journey
      /\ \A t \in Requests : pc'[t] = (IF t = r THEN l ELSE pc[t])
      /\ TypeOK' /\ ThreadInv'
  BY <1>1, <1>2, <1>3, <1>4, ChangeJourney
<1>6. \A t \in Requests : pc'[t] \notin Locked
  BY <1>1, <1>5, Alone
<1>7. MutexInv'
  BY <1>4, <1>6, JourneyAssumption DEF MutexInv
<1>8. \A s \in SessionIds \ {req[r].sid} : ~Moving(s)
  BY Alone DEF Moving, Locked
<1>9. OrderInv'
  BY <1>5, <1>6, <1>8 DEF Inv, TypeOK, OrderInv, Locked, Settled
<1> QED BY <1>5, <1>7, <1>9 DEF Inv

LEMMA ApplyActionInv ==
  ASSUME Inv, NEW r \in Requests, ApplyAction(r)
  PROVE  Inv'
<1> DEFINE s == req[r].sid
           j == Effect(StateOf(r), req[r].action, req[r].question)
<1>1. pc[r] = "apply" /\ pc[r] \in Locked /\ pc[r] \in Serving
  BY DEF ApplyAction, Locked, Serving, Labels
<1>2. s \in SessionIds /\ journeys[s] \in Journey /\ req[r].action \in Actions \ {"next", "other"}
  BY <1>1 DEF Inv, ThreadInv, ThreadOK, TypeOK, Request
<1>3. req[r].question \in Questions \cup {NoQuestion}
  BY DEF Inv, TypeOK, Request
<1>4. /\ j \in Journey /\ j.piece = journeys[s].piece
      /\ j.completed = journeys[s].completed /\ j.step = journeys[s].step
  BY <1>2, <1>3, EffectFacts DEF StateOf
<1>5. ~Moving(s)
  BY <1>1, Alone DEF Moving, Locked
<1>6. Settled(j)
  BY <1>2, <1>4, <1>5 DEF Inv, OrderInv, Settled
<1>7. SetState(r, j) /\ Unlock(r) /\ UNCHANGED <<created, req, restarts>>
  BY DEF ApplyAction
<1> HIDE DEF j, s
<1> QED BY <1>1, <1>4, <1>6, <1>7, Release

\* A thread goes on inside the lock, and says what it has done.
LEMMA Continue ==
  ASSUME Inv, NEW r \in Requests, pc[r] \in Locked,
         NEW j \in Journey, NEW l \in {"advance", "announce"},
         NEW q \in Request, q.sid = req[r].sid,
         l = "advance" => Completed(j), l = "announce" => Advanced(j),
         SetState(r, j), Goto(r, l), SetRequest(r, q),
         UNCHANGED <<created, lock, restarts>>
  PROVE  Inv'
<1>1. pc[r] \in Serving /\ l \in Labels
  BY DEF Locked, Serving, Labels
<1>2. lock' \in Requests \cup {"free"}
  BY DEF Inv, TypeOK
<1>3. /\ journeys' = [journeys EXCEPT ![req[r].sid] = j]
      /\ req[r].sid \in SessionIds /\ journeys[req[r].sid] \in Journey
      /\ \A t \in Requests : /\ pc'[t] = (IF t = r THEN l ELSE pc[t])
                             /\ req'[t].sid = req[t].sid
      /\ TypeOK' /\ ThreadInv'
  BY <1>1, <1>2, ChangeJourney
<1>4. \A t \in Requests : pc'[t] \in Locked <=> t = r
  BY <1>3, Alone DEF Locked
<1>5. MutexInv'
  BY <1>4, Alone DEF MutexInv
<1>6. \A s \in SessionIds \ {req[r].sid} : ~Moving(s)
  BY Alone DEF Moving, Locked
<1>7. Moving(req[r].sid)' /\ journeys'[req[r].sid] = j
  BY <1>3 DEF Moving, Inv, TypeOK
<1>8. \A s \in SessionIds : journeys'[s] \in Journey /\ ~Moving(s)' => Settled(journeys'[s])
  <2> TAKE s \in SessionIds
  <2>1. CASE s = req[r].sid
    BY <1>3, <1>7, <2>1 DEF Moving
  <2>2. CASE s # req[r].sid
    BY <1>3, <1>6, <2>2 DEF Inv, OrderInv, TypeOK
  <2> QED BY <2>1, <2>2
<1>9. OrderInv'
  <2>1. ASSUME NEW t \in Requests, pc'[t] \in {"advance", "announce"}
        PROVE  t = r
    BY <1>4, <2>1 DEF Locked
  <2>2. \A t \in Requests :
          /\ pc'[t] = "advance" => Completed(journeys'[req'[t].sid])
          /\ pc'[t] = "announce" => Advanced(journeys'[req'[t].sid])
    BY <1>3, <1>7, <2>1
  <2> QED BY <1>8, <2>2 DEF OrderInv, Settled, Completed, Advanced
<1> QED BY <1>3, <1>5, <1>9 DEF Inv

\* A journey found by a thread inside the lock is settled as long as the
\* thread has not begun to move it.
LEMMA SettledInside ==
  ASSUME Inv, NEW r \in Requests, pc[r] = "complete"
  PROVE  /\ req[r].sid \in SessionIds /\ StateOf(r) \in Journey /\ Settled(StateOf(r))
         /\ pc[r] \in Locked
<1>1. pc[r] \in Locked /\ pc[r] \in Serving
  BY DEF Locked, Serving, Labels
<1>2. req[r].sid \in SessionIds /\ StateOf(r) \in Journey
  BY <1>1 DEF Inv, ThreadInv, ThreadOK, StateOf
<1>3. ~Moving(req[r].sid)
  BY Alone, <1>1 DEF Moving, Locked
<1> QED BY <1>1, <1>2, <1>3 DEF Inv, OrderInv, StateOf

LEMMA CompletePieceInv ==
  ASSUME Inv, NEW r \in Requests, CompletePiece(r)
  PROVE  Inv'
<1> DEFINE s == req[r].sid
<1>1. pc[r] = "complete" /\ UNCHANGED <<created, restarts>>
  BY DEF CompletePiece
<1>2. /\ s \in SessionIds /\ StateOf(r) \in Journey /\ Settled(StateOf(r))
      /\ pc[r] \in Locked
  BY <1>1, SettledInside
<1>3. CASE StateOf(r).piece = Finished
  <2>1. Unlock(r) /\ UNCHANGED <<journeys, req>>
    BY <1>3 DEF CompletePiece
  <2>2. SetState(r, StateOf(r))
    BY <1>2, <2>1 DEF SetState, StateOf, Inv, TypeOK
  <2> QED BY <1>1, <1>2, <2>1, <2>2, Release
<1>4. CASE StateOf(r).piece # Finished
  <2> DEFINE j == [StateOf(r) EXCEPT !.completed = @ \cup {StateOf(r).piece}]
             q == [req[r] EXCEPT !.own = TRUE]
  <2>1. SetState(r, j) /\ SetRequest(r, q) /\ Goto(r, "advance") /\ UNCHANGED lock
    BY <1>4 DEF CompletePiece
  <2>2. StateOf(r).piece \in Pieces
    BY <1>2, <1>4, JourneyFacts DEF Journey, Pieces
  <2>3. j \in Journey /\ j.piece = StateOf(r).piece /\ j.step = StateOf(r).step
        /\ j.completed = StateOf(r).completed \cup {StateOf(r).piece}
    BY <1>2, <2>2 DEF Journey
  <2>4. Completed(j)
    BY <1>2, <2>2, <2>3 DEF Completed, Settled, Pieces
  <2>5. q \in Request /\ q.sid = s
    BY DEF Inv, TypeOK, Request
  <2> HIDE DEF j, q
  <2> QED BY <1>1, <1>2, <2>1, <2>3, <2>4, <2>5, Continue
<1> QED BY <1>3, <1>4

LEMMA AdvancePieceInv ==
  ASSUME Inv, NEW r \in Requests, AdvancePiece(r)
  PROVE  Inv'
<1> DEFINE j == [StateOf(r) EXCEPT !.piece = @ + 1]
<1>1. /\ pc[r] = "advance" /\ SetState(r, j) /\ Goto(r, "announce")
      /\ UNCHANGED <<created, lock, req, restarts>>
  BY DEF AdvancePiece
<1>2. pc[r] \in Locked /\ pc[r] \in Serving
  BY <1>1 DEF Locked, Serving, Labels
<1>3. StateOf(r) \in Journey /\ Completed(StateOf(r))
  BY <1>1, <1>2 DEF Inv, ThreadInv, ThreadOK, OrderInv, StateOf
<1>4. j \in Journey /\ j.piece = StateOf(r).piece + 1 /\ j.completed = StateOf(r).completed
  BY <1>3, JourneyFacts DEF Journey, Completed, Pieces
<1>5. Advanced(j)
  BY <1>3, <1>4, JourneyFacts DEF Completed, Advanced, Pieces
<1>6. req[r] \in Request /\ SetRequest(r, req[r])
  BY <1>1 DEF Inv, TypeOK, SetRequest
<1> HIDE DEF j
<1> QED BY <1>1, <1>2, <1>4, <1>5, <1>6, Continue

LEMMA AnnouncePieceInv ==
  ASSUME Inv, NEW r \in Requests, AnnouncePiece(r)
  PROVE  Inv'
<1> DEFINE ui == IF StateOf(r).piece = Finished THEN "hidden" ELSE "prompt"
           j == [StateOf(r) EXCEPT !.step = StateOf(r).piece, !.ui = ui]
<1>1. /\ pc[r] = "announce" /\ SetState(r, j) /\ Unlock(r)
      /\ UNCHANGED <<created, req, restarts>>
  BY DEF AnnouncePiece
<1>2. pc[r] \in Locked /\ pc[r] \in Serving
  BY <1>1 DEF Locked, Serving, Labels
<1>3. StateOf(r) \in Journey /\ Advanced(StateOf(r))
  BY <1>1, <1>2 DEF Inv, ThreadInv, ThreadOK, OrderInv, StateOf
<1>4. ui \in PieceUi
  BY DEF PieceUi
<1>5. j \in Journey /\ Settled(j)
  BY <1>3, <1>4 DEF Journey, Advanced, Settled
<1> HIDE DEF j
<1> QED BY <1>1, <1>2, <1>5, Release

LEMMA StoreContextInv ==
  ASSUME Inv, NEW r \in Requests, StoreContext(r)
  PROVE  Inv'
<1> DEFINE s == req[r].sid
           j == [StateOf(r) EXCEPT !.context = req[r].tags]
           q == [req[r] EXCEPT !.outcome = "ok"]
<1>1. /\ pc[r] = "store" /\ SetState(r, j) /\ Goto(r, "done") /\ SetRequest(r, q)
      /\ UNCHANGED <<created, lock, restarts>>
  BY DEF StoreContext, Answer
<1>2. pc[r] \notin Locked /\ pc[r] \in Serving
  BY <1>1 DEF Locked, Serving, Labels
<1>3. s \in SessionIds /\ StateOf(r) \in Journey /\ req[r].tags \in SUBSET AllTags
  BY <1>2 DEF Inv, ThreadInv, ThreadOK, StateOf, TypeOK, Request
<1>4. /\ j \in Journey /\ j.piece = journeys[s].piece
      /\ j.completed = journeys[s].completed /\ j.step = journeys[s].step
  BY <1>3 DEF Journey, StateOf
<1>5. q \in Request /\ q.sid = s /\ "done" \in Labels
  BY DEF Inv, TypeOK, Request, Labels
<1>6. lock' \in Requests \cup {"free"}
  BY <1>1 DEF Inv, TypeOK
<1> HIDE DEF j, q
<1>7. /\ journeys' = [journeys EXCEPT ![s] = j]
      /\ \A t \in Requests : /\ pc'[t] = (IF t = r THEN "done" ELSE pc[t])
                             /\ req'[t].sid = req[t].sid
      /\ TypeOK' /\ ThreadInv'
  BY <1>1, <1>2, <1>4, <1>5, <1>6, ChangeJourney
<1>8. MutexInv'
  BY <1>1, <1>2, <1>7 DEF Inv, MutexInv, Locked
<1>9. \A u \in SessionIds : (Moving(u)' <=> Moving(u))
  BY <1>2, <1>7 DEF Moving, Locked
<1>10. \A u \in SessionIds : /\ journeys'[u].piece = journeys[u].piece
                             /\ journeys'[u].completed = journeys[u].completed
                             /\ journeys'[u].step = journeys[u].step
                             /\ journeys'[u] \in Journey <=> journeys[u] \in Journey
  BY <1>3, <1>4, <1>7 DEF Inv, TypeOK, StateOf
<1>11. \A t \in Requests : pc'[t] \in {"advance", "announce"} =>
                             pc'[t] = pc[t] /\ req[t].sid \in SessionIds
  BY <1>7 DEF Inv, ThreadInv, ThreadOK, Serving, Labels
<1>12. OrderInv'
  BY <1>7, <1>9, <1>10, <1>11 DEF Inv, OrderInv, Settled, Completed, Advanced
<1> QED BY <1>7, <1>8, <1>12 DEF Inv

\* A restart leaves no journey and no running thread.
LEMMA RestartServerInv ==
  ASSUME Inv, RestartServer
  PROVE  Inv'
<1> USE DEF RestartServer
<1>1. \A t \in Requests : pc'[t] \in {"idle", "done"}
  BY DEF InFlight, Inv, TypeOK
<1>2. req' \in [Requests -> Request]
  <2>1. \A t \in Requests : req[t] \in Request /\ [req[t] EXCEPT !.outcome = "lost"] \in Request
    BY DEF Inv, TypeOK, Request
  <2> QED BY <2>1
<1>3. restarts' \in 0..MaxRestarts
  BY JourneyAssumption DEF Inv, TypeOK
<1>4. TypeOK'
  BY <1>1, <1>2, <1>3, JourneyAssumption DEF Inv, TypeOK, Labels
<1>5. ThreadInv'
  BY <1>1 DEF ThreadInv, ThreadOK, Serving
<1>6. MutexInv'
  BY <1>1, JourneyAssumption DEF MutexInv, Locked
<1>7. OrderInv'
  BY <1>1, JourneyFacts DEF OrderInv
<1> QED BY <1>4, <1>5, <1>6, <1>7 DEF Inv

-----------------------------------------------------------------------------
(* The theorems *)

LEMMA StepInv == Inv /\ [Next]_serverVars => Inv'
<1> SUFFICES ASSUME Inv, [Next]_serverVars PROVE Inv'
  OBVIOUS
<1>1. ASSUME NEW r \in Requests, Serve(r) PROVE Inv'
  BY <1>1, CreateJourneyInv, FindJourneyInv, ReadBeforeInv, TakeLockInv, ApplyActionInv,
     CompletePieceInv, AdvancePieceInv, AnnouncePieceInv, CompareInv, ReadViewInv, ChatInv,
     MergeContextInv, StoreContextInv DEF Serve
<1>2. CASE UNCHANGED serverVars
  BY <1>2 DEF serverVars, Inv, TypeOK, ThreadInv, ThreadOK, MutexInv, OrderInv, Moving,
              Settled, Completed, Advanced
<1> QED BY <1>1, <1>2, ArriveInv, RestartServerInv DEF Next, ServerNext

\* The lock of the provider, the threads and the journeys always agree.
THEOREM Invariance == Spec => []Inv
BY InitInv, StepInv, PTL DEF Spec

\* Every variable keeps its type.
THEOREM TypeCorrect == Spec => []TypeOK
<1>1. Inv => TypeOK
  BY DEF Inv
<1> QED BY <1>1, Invariance, PTL

\* Pieces are completed one by one and in order, however many requests for
\* the next one are served at once: unless a thread is between the
\* assignments of _go_next, the completed pieces are those before the current
\* one.
THEOREM PiecesInOrder == Spec => []InOrder
<1>1. Inv => InOrder
  BY JourneyFacts DEF Inv, TypeOK, OrderInv, InOrder, Settled
<1> QED BY <1>1, Invariance, PTL

-----------------------------------------------------------------------------
(* Replies *)

Forward(j, k) == j.piece <= k.piece /\ j.completed \subseteq k.completed

\* What the unlocked reads of a handler have found is still true of the
\* journey when the reply is complete.
ViewOK(l, q) ==
  /\ l = "create" => q.kind = "create"
  /\ l \in {"chat", "merge", "store"} => q.kind = "chat"
  /\ l \in {"view2", "view3"} => 1..(q.view.piece - 1) \subseteq journeys[q.sid].completed
  /\ l = "done" /\ q.outcome = "ok" /\ q.kind # "chat" =>
       1..(q.view.piece - 1) \subseteq q.view.completed

\* How far the journey is, compared with the state that journey_action read
\* before it applied its action.
MovedOK(l, q) ==
  q.kind = "action" =>
    /\ l \in {"find", "before", "before2", "lock", "apply", "complete"} => ~q.own
    /\ l \in {"before2", "lock", "complete", "advance"} =>
         q.before.piece <= journeys[q.sid].piece
    /\ l = "announce" => q.before.piece < journeys[q.sid].piece
    /\ l = "compare" /\ q.own => q.before.piece < journeys[q.sid].piece
    /\ l \in {"view", "view2", "view3"} /\ q.own => q.changed
    /\ l = "done" /\ q.outcome = "ok" /\ q.own => q.changed

ReplyOK(l, q) == ViewOK(l, q) /\ MovedOK(l, q)
Replies == \A r \in Requests : ReplyOK(pc[r], req[r])

\* No journey is there before its session id is handed out.
OnlyCreated == \A s \in SessionIds : journeys[s] \in Journey => s \in created

\* The step of one thread that leaves every other thread and, but for moving
\* them forward, the journeys alone.
StepOf(r) ==
  /\ \A t \in Requests : t # r => pc'[t] = pc[t] /\ req'[t] = req[t]
  /\ \A s \in SessionIds : journeys[s] \in Journey => Forward(journeys[s], journeys'[s])

-----------------------------------------------------------------------------

\* A current piece has all earlier ones among the completed pieces, whether
\* or not a thread is moving the journey.
LEMMA EarlierCompleted ==
  ASSUME Inv, NEW s \in SessionIds, journeys[s] \in Journey
  PROVE  1..(journeys[s].piece - 1) \subseteq journeys[s].completed
<1>1. journeys[s].piece \in Nat
  BY JourneyFacts DEF Journey
<1>2. CASE ~Moving(s)
  BY <1>2 DEF Inv, OrderInv, Settled
<1>3. CASE Moving(s)
  <2>1. PICK r \in Requests : pc[r] \in {"advance", "announce"} /\ req[r].sid = s
    BY <1>3 DEF Moving
  <2>2. Completed(journeys[s]) \/ Advanced(journeys[s])
    BY <2>1 DEF Inv, OrderInv
  <2> QED BY <1>1, <2>2 DEF Completed, Advanced
<1> QED BY <1>2, <1>3

\* What the other threads rely on survives a step.
LEMMA OthersKept ==
  ASSUME Inv, Inv', Replies, NEW r \in Requests, StepOf(r),
         NEW t \in Requests, t # r
  PROVE  ReplyOK(pc[t], req[t])'
<1>1. pc'[t] = pc[t] /\ req'[t] = req[t] /\ ReplyOK(pc[t], req[t])
  BY DEF StepOf, Replies
<1>2. CASE pc[t] \in Serving
  <2>1. req[t].sid \in SessionIds /\ journeys[req[t].sid] \in Journey
        /\ journeys'[req[t].sid] \in Journey
    BY <1>1, <1>2 DEF Inv, ThreadInv, ThreadOK
  <2>2. Forward(journeys[req[t].sid], journeys'[req[t].sid])
    BY <2>1 DEF StepOf
  <2>3. /\ req[t].before.piece \in Int
        /\ journeys[req[t].sid].piece \in Int /\ journeys'[req[t].sid].piece \in Int
    BY <2>1, JourneyFacts DEF Journey, Inv, TypeOK, Request
  <2>4. ViewOK(pc[t], req[t])'
    BY <1>1, <2>2 DEF ReplyOK, ViewOK, Forward
  <2>5. MovedOK(pc[t], req[t])'
    BY <1>1, <2>2, <2>3 DEF ReplyOK, MovedOK, Forward
  <2> QED BY <2>4, <2>5 DEF ReplyOK
<1>3. CASE pc[t] \in {"idle", "create", "find", "done"}
  BY <1>1, <1>3 DEF ReplyOK, ViewOK, MovedOK
<1> QED BY <1>2, <1>3 DEF Serving, Inv, TypeOK

\* So a step keeps Replies when the thread itself is all right after it.
LEMMA StepReplies ==
  ASSUME Inv, Inv', Replies, NEW r \in Requests, StepOf(r), ReplyOK(pc[r], req[r])'
  PROVE  Replies'
BY OthersKept DEF Replies

\* A step that leaves the journeys alone.
LEMMA StepReading ==
  ASSUME Inv, NEW r \in Requests, NEW l, NEW q, Goto(r, l), SetRequest(r, q),
         UNCHANGED journeys
  PROVE  StepOf(r) /\ pc'[r] = l /\ req'[r] = q
<1>1. \A s \in SessionIds : journeys[s] \in Journey => Forward(journeys[s], journeys'[s])
  BY JourneyFacts DEF Forward, Journey
<1>2. pc' = [pc EXCEPT ![r] = l] /\ req' = [req EXCEPT ![r] = q]
  BY DEF Goto, SetRequest
<1>3. pc \in [Requests -> Labels] /\ req \in [Requests -> Request]
  BY DEF Inv, TypeOK
<1> QED BY <1>1, <1>2, <1>3 DEF StepOf

\* A step that moves the journey of its thread forward.
LEMMA StepWriting ==
  ASSUME Inv, NEW r \in Requests, NEW l, NEW q, NEW j, pc[r] \in Serving,
         Goto(r, l), SetRequest(r, q), SetState(r, j), Forward(StateOf(r), j)
  PROVE  /\ StepOf(r) /\ pc'[r] = l /\ req'[r] = q
         /\ journeys'[req[r].sid] = j /\ StateOf(r) \in Journey
<1>1. req[r].sid \in SessionIds /\ StateOf(r) \in Journey
  BY DEF Inv, ThreadInv, ThreadOK, StateOf
<1>2. journeys' = [journeys EXCEPT ![req[r].sid] = j]
  BY DEF SetState
<1>3. \A s \in SessionIds : journeys[s] \in Journey => Forward(journeys[s], journeys'[s])
  BY <1>1, <1>2, JourneyFacts DEF Forward, Journey, StateOf, Inv, TypeOK
<1>4. pc' = [pc EXCEPT ![r] = l] /\ req' = [req EXCEPT ![r] = q]
  BY DEF Goto, SetRequest
<1>5. pc \in [Requests -> Labels] /\ req \in [Requests -> Request]
  BY DEF Inv, TypeOK
<1> QED BY <1>1, <1>2, <1>3, <1>4, <1>5 DEF StepOf, Inv, TypeOK

-----------------------------------------------------------------------------
(* The steps *)

LEMMA ArriveReplies ==
  ASSUME Inv, Inv', Replies, NEW r \in Requests, Arrive(r)
  PROVE  Replies'
<1>1. PICK kind \in Kinds, s \in created \cup {NoSession}, action \in Actions,
          question \in Questions \cup {NoQuestion} : Start(r, kind, s, action, question)
  BY DEF Arrive
<1> DEFINE q == NewRequest(kind, s, action, question)
           l == IF kind = "create" THEN "create" ELSE "find"
<1>2. Goto(r, l) /\ SetRequest(r, q) /\ UNCHANGED journeys
  BY <1>1 DEF Start, Arrive
<1>3. l \in {"create", "find"} /\ q.own = FALSE /\ (l = "create" => q.kind = "create")
  BY DEF NewRequest
<1> HIDE DEF l, q
<1>4. StepOf(r) /\ pc'[r] = l /\ req'[r] = q
  BY <1>2, StepReading
<1>5. ReplyOK(pc[r], req[r])'
  BY <1>3, <1>4 DEF ReplyOK, ViewOK, MovedOK
<1> QED BY <1>4, <1>5, StepReplies

\* An error reply says nothing.
LEMMA AnswerReplies ==
  ASSUME Inv, Inv', Replies, NEW r \in Requests, NEW outcome \in {"missing", "refused", "failed"},
         Answer(r, outcome), UNCHANGED journeys
  PROVE  Replies'
<1> DEFINE q == [req[r] EXCEPT !.outcome = outcome]
<1>1. Goto(r, "done") /\ SetRequest(r, q) /\ q.outcome # "ok"
  BY DEF Answer, Inv, TypeOK, Request
<1> HIDE DEF q
<1>2. StepOf(r) /\ pc'[r] = "done" /\ req'[r] = q
  BY <1>1, StepReading
<1>3. ReplyOK(pc[r], req[r])'
  BY <1>1, <1>2 DEF ReplyOK, ViewOK, MovedOK
<1> QED BY <1>2, <1>3, StepReplies

LEMMA CreateJourneyReplies ==
  ASSUME Inv, Inv', Replies, NEW r \in Requests, CreateJourney(r), OnlyCreated
  PROVE  Replies'
<1>1. PICK s \in SessionIds \ created :
        /\ journeys' = [journeys EXCEPT ![s] = FreshJourney]
        /\ SetRequest(r, [req[r] EXCEPT !.sid = s])
  BY DEF CreateJourney
<1> DEFINE q == [req[r] EXCEPT !.sid = s]
<1>2. pc' = [pc EXCEPT ![r] = "view"] /\ req' = [req EXCEPT ![r] = q]
  BY <1>1 DEF CreateJourney, Goto, SetRequest
<1>3. q.kind = "create"
  BY DEF CreateJourney, Replies, ReplyOK, ViewOK, Inv, TypeOK, Request
<1> HIDE DEF q
<1>4. pc'[r] = "view" /\ req'[r] = q
      /\ \A t \in Requests : t # r => pc'[t] = pc[t] /\ req'[t] = req[t]
  BY <1>2 DEF Inv, TypeOK
<1>5. \A u \in SessionIds : journeys[u] \in Journey => journeys'[u] = journeys[u]
  BY <1>1 DEF OnlyCreated, Inv, TypeOK
<1>6. StepOf(r)
  BY <1>4, <1>5, JourneyFacts DEF StepOf, Forward, Journey
<1>7. ReplyOK(pc[r], req[r])'
  BY <1>3, <1>4 DEF ReplyOK, ViewOK, MovedOK
<1> QED BY <1>6, <1>7, StepReplies

LEMMA FindJourneyReplies ==
  ASSUME Inv, Inv', Replies, NEW r \in Requests, FindJourney(r)
  PROVE  Replies'
<1>1. pc[r] = "find" /\ UNCHANGED journeys
  BY DEF FindJourney
<1>2. CASE Answer(r, "missing") \/ Answer(r, "refused")
  BY <1>1, <1>2, AnswerReplies
<1>3. CASE Goto(r, AfterFind[req[r].kind]) /\ UNCHANGED req
  <2> DEFINE l == AfterFind[req[r].kind]
  <2>1. req[r].kind \in Kinds \ {"create"} /\ SetRequest(r, req[r])
    BY <1>1, <1>3 DEF Inv, ThreadInv, ThreadOK, TypeOK, Request, SetRequest
  <2>2. /\ l \in {"view", "before", "lock", "chat"}
        /\ l = "chat" => req[r].kind = "chat"
        /\ req[r].kind = "action" => l = "before"
    BY <2>1 DEF Kinds, AfterFind
  <2> HIDE DEF l
  <2>3. Goto(r, l)
    BY <1>3 DEF l
  <2>4. StepOf(r) /\ pc'[r] = l /\ req'[r] = req[r]
    BY <1>1, <2>1, <2>3, StepReading
  <2>5. ReplyOK(pc[r], req[r])
    BY DEF Replies
  <2>6. ReplyOK(pc[r], req[r])'
    BY <1>1, <2>2, <2>4, <2>5 DEF ReplyOK, ViewOK, MovedOK
  <2> QED BY <2>4, <2>6, StepReplies
<1> QED BY <1>2, <1>3 DEF FindJourney

LEMMA ReadBeforeReplies ==
  ASSUME Inv, Inv', Replies, NEW r \in Requests, ReadBefore(r)
  PROVE  Replies'
<1>1. UNCHANGED journeys /\ ReplyOK(pc[r], req[r]) /\ req[r] \in Request
  BY DEF ReadBefore, Replies, Inv, TypeOK
<1>2. CASE pc[r] = "before"
  <2> DEFINE q == [req[r] EXCEPT !.before.piece = StateOf(r).piece]
  <2>1. Goto(r, "before2") /\ SetRequest(r, q)
    BY <1>2 DEF ReadBefore
  <2>2. q.kind = req[r].kind /\ q.own = req[r].own /\ q.sid = req[r].sid
        /\ q.before.piece = StateOf(r).piece
    BY <1>1 DEF Request
  <2> HIDE DEF q
  <2>3. StepOf(r) /\ pc'[r] = "before2" /\ req'[r] = q
    BY <1>1, <2>1, StepReading
  <2>4. StateOf(r).piece \in Int
    BY <1>2, JourneyFacts DEF Inv, ThreadInv, ThreadOK, Serving, Labels, StateOf, Journey
  <2>5. ReplyOK(pc[r], req[r])'
    BY <1>1, <1>2, <2>2, <2>3, <2>4 DEF ReplyOK, ViewOK, MovedOK, StateOf
  <2> QED BY <2>3, <2>5, StepReplies
<1>3. CASE pc[r] = "before2"
  <2> DEFINE q == [req[r] EXCEPT !.before.completed = StateOf(r).completed]
  <2>1. Goto(r, "lock") /\ SetRequest(r, q)
    BY <1>3 DEF ReadBefore
  <2>2. q.kind = req[r].kind /\ q.own = req[r].own /\ q.sid = req[r].sid
        /\ q.before.piece = req[r].before.piece
    BY <1>1 DEF Request
  <2> HIDE DEF q
  <2>3. StepOf(r) /\ pc'[r] = "lock" /\ req'[r] = q
    BY <1>1, <2>1, StepReading
  <2>4. ReplyOK(pc[r], req[r])'
    BY <1>1, <1>3, <2>2, <2>3 DEF ReplyOK, ViewOK, MovedOK
  <2> QED BY <2>3, <2>4, StepReplies
<1> QED BY <1>2, <1>3 DEF ReadBefore

LEMMA TakeLockReplies ==
  ASSUME Inv, Inv', Replies, NEW r \in Requests, TakeLock(r)
  PROVE  Replies'
<1>1. pc[r] = "lock" /\ UNCHANGED journeys /\ ReplyOK(pc[r], req[r])
  BY DEF TakeLock, Replies
<1>2. CASE Answer(r, "refused")
  BY <1>1, <1>2, AnswerReplies
<1>3. CASE /\ UNCHANGED req
           /\ Goto(r, IF req[r].action = "next" THEN "complete" ELSE "apply")
  <2> DEFINE l == IF req[r].action = "next" THEN "complete" ELSE "apply"
  <2>1. Goto(r, l) /\ SetRequest(r, req[r]) /\ l \in {"complete", "apply"}
    BY <1>3 DEF SetRequest, Inv, TypeOK
  <2> HIDE DEF l
  <2>2. StepOf(r) /\ pc'[r] = l /\ req'[r] = req[r]
    BY <1>1, <2>1, StepReading
  <2>3. ReplyOK(pc[r], req[r])'
    BY <1>1, <2>1, <2>2 DEF ReplyOK, ViewOK, MovedOK
  <2> QED BY <2>2, <2>3, StepReplies
<1> QED BY <1>2, <1>3 DEF TakeLock

LEMMA ApplyActionReplies ==
  ASSUME Inv, Inv', Replies, NEW r \in Requests, ApplyAction(r)
  PROVE  Replies'
<1> DEFINE j == Effect(StateOf(r), req[r].action, req[r].question)
           l == NextLabel(r)
<1>1. pc[r] = "apply" /\ pc[r] \in Serving /\ ReplyOK(pc[r], req[r])
  BY DEF ApplyAction, Serving, Labels, Replies
<1>2. StateOf(r) \in Journey /\ req[r].action \in Actions \ {"next", "other"}
      /\ req[r].question \in Questions \cup {NoQuestion}
  BY <1>1 DEF Inv, ThreadInv, ThreadOK, TypeOK, Request, StateOf
<1>3. j.piece = StateOf(r).piece /\ j.completed = StateOf(r).completed
  BY <1>2, EffectFacts
<1>4. Forward(StateOf(r), j)
  BY <1>2, <1>3, JourneyFacts DEF Forward, Journey
<1>5. SetState(r, j) /\ Goto(r, l) /\ SetRequest(r, req[r])
  BY DEF ApplyAction, Unlock, SetRequest, Inv, TypeOK
<1>6. l \in {"compare", "view"} /\ (l = "view" => req[r].kind # "action")
  BY DEF NextLabel
<1> HIDE DEF j, l
<1>7. StepOf(r) /\ pc'[r] = l /\ req'[r] = req[r]
  BY <1>1, <1>4, <1>5, StepWriting
<1>8. ReplyOK(pc[r], req[r])'
  BY <1>1, <1>6, <1>7 DEF ReplyOK, ViewOK, MovedOK
<1> QED BY <1>7, <1>8, StepReplies

LEMMA CompletePieceReplies ==
  ASSUME Inv, Inv', Replies, NEW r \in Requests, CompletePiece(r)
  PROVE  Replies'
<1>1. pc[r] = "complete" /\ ReplyOK(pc[r], req[r]) /\ req[r] \in Request
  BY DEF CompletePiece, Replies, Inv, TypeOK
<1>2. pc[r] \in Serving /\ StateOf(r) \in Journey
  BY <1>1, SettledInside DEF Serving, Labels
<1>3. CASE StateOf(r).piece = Finished
  <2> DEFINE l == NextLabel(r)
  <2>1. Goto(r, l) /\ SetRequest(r, req[r]) /\ UNCHANGED journeys
    BY <1>3 DEF CompletePiece, Unlock, SetRequest, Inv, TypeOK
  <2>2. l \in {"compare", "view"} /\ (l = "view" => req[r].kind # "action")
    BY DEF NextLabel
  <2> HIDE DEF l
  <2>3. StepOf(r) /\ pc'[r] = l /\ req'[r] = req[r]
    BY <2>1, StepReading
  <2>4. ReplyOK(pc[r], req[r])'
    BY <1>1, <2>2, <2>3 DEF ReplyOK, ViewOK, MovedOK
  <2> QED BY <2>3, <2>4, StepReplies
<1>4. CASE StateOf(r).piece # Finished
  <2> DEFINE j == [StateOf(r) EXCEPT !.completed = @ \cup {StateOf(r).piece}]
             q == [req[r] EXCEPT !.own = TRUE]
  <2>1. SetState(r, j) /\ SetRequest(r, q) /\ Goto(r, "advance")
    BY <1>4 DEF CompletePiece
  <2>2. j.piece = StateOf(r).piece /\ Forward(StateOf(r), j)
    BY <1>2, JourneyFacts DEF Journey, Forward
  <2>3. q.kind = req[r].kind /\ q.sid = req[r].sid /\ q.before = req[r].before
    BY <1>1 DEF Request
  <2> HIDE DEF j, q
  <2>4. StepOf(r) /\ pc'[r] = "advance" /\ req'[r] = q /\ journeys'[req[r].sid] = j
    BY <1>2, <2>1, <2>2, StepWriting
  <2>5. ReplyOK(pc[r], req[r])'
    BY <1>1, <2>2, <2>3, <2>4 DEF ReplyOK, ViewOK, MovedOK, StateOf
  <2> QED BY <2>4, <2>5, StepReplies
<1> QED BY <1>3, <1>4

LEMMA AdvancePieceReplies ==
  ASSUME Inv, Inv', Replies, NEW r \in Requests, AdvancePiece(r)
  PROVE  Replies'
<1> DEFINE j == [StateOf(r) EXCEPT !.piece = @ + 1]
<1>1. pc[r] = "advance" /\ pc[r] \in Serving /\ ReplyOK(pc[r], req[r])
  BY DEF AdvancePiece, Serving, Labels, Replies
<1>2. SetState(r, j) /\ SetRequest(r, req[r]) /\ Goto(r, "announce")
  BY DEF AdvancePiece, SetRequest, Inv, TypeOK
<1>3. StateOf(r) \in Journey
  BY <1>1 DEF Inv, ThreadInv, ThreadOK, StateOf
<1>4. j.piece = StateOf(r).piece + 1 /\ StateOf(r).piece \in Int /\ Forward(StateOf(r), j)
  BY <1>3, JourneyFacts DEF Journey, Forward
<1>5. req[r].before.piece \in Int
  BY JourneyFacts DEF Inv, TypeOK, Request
<1> HIDE DEF j
<1>6. StepOf(r) /\ pc'[r] = "announce" /\ req'[r] = req[r] /\ journeys'[req[r].sid] = j
  BY <1>1, <1>2, <1>4, StepWriting
<1>7. ReplyOK(pc[r], req[r])'
  BY <1>1, <1>4, <1>5, <1>6 DEF ReplyOK, ViewOK, MovedOK, StateOf
<1> QED BY <1>6, <1>7, StepReplies

LEMMA AnnouncePieceReplies ==
  ASSUME Inv, Inv', Replies, NEW r \in Requests, AnnouncePiece(r)
  PROVE  Replies'
<1> DEFINE j == [StateOf(r) EXCEPT !.step = StateOf(r).piece,
                     !.ui = IF StateOf(r).piece = Finished THEN "hidden" ELSE "prompt"]
           l == NextLabel(r)
<1>1. pc[r] = "announce" /\ pc[r] \in Serving /\ ReplyOK(pc[r], req[r])
  BY DEF AnnouncePiece, Serving, Labels, Replies
<1>2. SetState(r, j) /\ SetRequest(r, req[r]) /\ Goto(r, l)
  BY DEF AnnouncePiece, Unlock, SetRequest, Inv, TypeOK
<1>3. StateOf(r) \in Journey
  BY <1>1 DEF Inv, ThreadInv, ThreadOK, StateOf
<1>4. j.piece = StateOf(r).piece /\ Forward(StateOf(r), j)
  BY <1>3, JourneyFacts DEF Journey, Forward
<1>5. l \in {"compare", "view"} /\ (l = "view" => req[r].kind # "action")
  BY DEF NextLabel
<1> HIDE DEF j, l
<1>6. StepOf(r) /\ pc'[r] = l /\ req'[r] = req[r] /\ journeys'[req[r].sid] = j
  BY <1>1, <1>2, <1>4, StepWriting
<1>7. ReplyOK(pc[r], req[r])'
  BY <1>1, <1>4, <1>5, <1>6 DEF ReplyOK, ViewOK, MovedOK, StateOf
<1> QED BY <1>6, <1>7, StepReplies

LEMMA CompareReplies ==
  ASSUME Inv, Inv', Replies, NEW r \in Requests, Compare(r)
  PROVE  Replies'
<1> DEFINE q == [req[r] EXCEPT !.changed =
       \/ req[r].before.piece # StateOf(r).piece
       \/ req[r].before.completed # StateOf(r).completed]
<1>1. pc[r] = "compare" /\ UNCHANGED journeys /\ ReplyOK(pc[r], req[r])
  BY DEF Compare, Replies
<1>2. Goto(r, "view") /\ SetRequest(r, q)
  BY DEF Compare
<1>3. q.kind = req[r].kind /\ q.own = req[r].own
      /\ (req[r].before.piece # StateOf(r).piece => q.changed)
  BY DEF Inv, TypeOK, Request
<1>4. StateOf(r).piece \in Int /\ req[r].before.piece \in Int
  <2>1. StateOf(r) \in Journey
    BY <1>1 DEF Inv, ThreadInv, ThreadOK, Serving, Labels, StateOf
  <2>2. StateOf(r).piece \in Int
    BY <2>1, JourneyFacts DEF Journey
  <2>3. req[r].before.piece \in Int
    BY JourneyFacts DEF Inv, TypeOK, Request
  <2> QED BY <2>2, <2>3
<1> HIDE DEF q
<1>5. StepOf(r) /\ pc'[r] = "view" /\ req'[r] = q
  BY <1>1, <1>2, StepReading
<1>6. ReplyOK(pc[r], req[r])'
  BY <1>1, <1>3, <1>4, <1>5 DEF ReplyOK, ViewOK, MovedOK, StateOf
<1> QED BY <1>5, <1>6, StepReplies

LEMMA ReadViewReplies ==
  ASSUME Inv, Inv', Replies, NEW r \in Requests, ReadView(r)
  PROVE  Replies'
<1> DEFINE state == StateOf(r)
<1>1. /\ pc[r] \in {"view", "view2", "view3"} /\ UNCHANGED journeys
      /\ ReplyOK(pc[r], req[r]) /\ req[r] \in Request
  BY DEF ReadView, Replies, Inv, TypeOK
<1>2. req[r].sid \in SessionIds /\ state \in Journey
  BY <1>1 DEF Inv, ThreadInv, ThreadOK, Serving, Labels, StateOf
<1>3. 1..(state.piece - 1) \subseteq state.completed
  BY <1>2, EarlierCompleted DEF StateOf
<1>4. CASE pc[r] = "view"
  <2> DEFINE v == [state EXCEPT !.completed = {}]
             q == [req[r] EXCEPT !.view = v]
  <2>1. Goto(r, "view2") /\ SetRequest(r, q)
    BY <1>4 DEF ReadView
  <2>2. /\ q.kind = req[r].kind /\ q.sid = req[r].sid /\ q.own = req[r].own
        /\ q.changed = req[r].changed /\ q.view.piece = state.piece
    BY <1>1, <1>2 DEF Request, Journey
  <2> HIDE DEF q
  <2>3. StepOf(r) /\ pc'[r] = "view2" /\ req'[r] = q
    BY <1>1, <2>1, StepReading
  <2>4. ReplyOK(pc[r], req[r])'
    BY <1>1, <1>3, <1>4, <2>2, <2>3 DEF ReplyOK, ViewOK, MovedOK, StateOf
  <2> QED BY <2>3, <2>4, StepReplies
<1>5. CASE pc[r] = "view2"
  <2> DEFINE v == [state EXCEPT !.piece = req[r].view.piece, !.completed = {}]
             q == [req[r] EXCEPT !.view = v]
  <2>1. Goto(r, "view3") /\ SetRequest(r, q)
    BY <1>5 DEF ReadView
  <2>2. /\ q.kind = req[r].kind /\ q.sid = req[r].sid /\ q.own = req[r].own
        /\ q.changed = req[r].changed /\ q.view.piece = req[r].view.piece
    BY <1>1, <1>2 DEF Request, Journey
  <2> HIDE DEF q
  <2>3. StepOf(r) /\ pc'[r] = "view3" /\ req'[r] = q
    BY <1>1, <2>1, StepReading
  <2>4. ReplyOK(pc[r], req[r])'
    BY <1>1, <1>5, <2>2, <2>3 DEF ReplyOK, ViewOK, MovedOK
  <2> QED BY <2>3, <2>4, StepReplies
<1>6. CASE pc[r] = "view3"
  <2> DEFINE v == [req[r].view EXCEPT !.completed = state.completed]
             q == [req[r] EXCEPT !.view = v, !.outcome = "ok"]
  <2>1. q = [req[r] EXCEPT !.view.completed = state.completed, !.outcome = "ok"]
    BY <1>1 DEF Request
  <2>2. Goto(r, "done") /\ SetRequest(r, q)
    BY <1>6, <2>1 DEF ReadView
  <2>3. req[r].view \in Journey
    BY <1>6 DEF Inv, ThreadInv, ThreadOK
  <2>4. /\ q.kind = req[r].kind /\ q.own = req[r].own /\ q.changed = req[r].changed
        /\ q.view.piece = req[r].view.piece /\ q.view.completed = state.completed
    BY <1>1, <2>3 DEF Request, Journey
  <2> HIDE DEF q
  <2>5. StepOf(r) /\ pc'[r] = "done" /\ req'[r] = q
    BY <1>1, <2>2, StepReading
  <2>6. ReplyOK(pc[r], req[r])'
    BY <1>1, <1>6, <2>4, <2>5 DEF ReplyOK, ViewOK, MovedOK, StateOf
  <2> QED BY <2>5, <2>6, StepReplies
<1> QED BY <1>1, <1>4, <1>5, <1>6

LEMMA ChatReplies ==
  ASSUME Inv, Inv', Replies, NEW r \in Requests, Chat(r)
  PROVE  Replies'
<1>1. pc[r] = "chat" /\ UNCHANGED journeys /\ ReplyOK(pc[r], req[r])
  BY DEF Chat, Replies
<1>2. CASE Answer(r, "failed")
  BY <1>1, <1>2, AnswerReplies
<1>3. ASSUME NEW tags \in SUBSET Tags,
             Goto(r, "merge"), SetRequest(r, [req[r] EXCEPT !.tags = tags])
      PROVE  Replies'
  <2> DEFINE q == [req[r] EXCEPT !.tags = tags]
  <2>1. q.kind = req[r].kind /\ SetRequest(r, q)
    BY <1>3 DEF Inv, TypeOK, Request
  <2> HIDE DEF q
  <2>2. StepOf(r) /\ pc'[r] = "merge" /\ req'[r] = q
    BY <1>1, <1>3, <2>1, StepReading
  <2>3. ReplyOK(pc[r], req[r])'
    BY <1>1, <2>1, <2>2 DEF ReplyOK, ViewOK, MovedOK
  <2> QED BY <2>2, <2>3, StepReplies
<1> QED BY <1>2, <1>3 DEF Chat

LEMMA MergeContextReplies ==
  ASSUME Inv, Inv', Replies, NEW r \in Requests, MergeContext(r)
  PROVE  Replies'
<1> DEFINE q == [req[r] EXCEPT !.tags = @ \cup StateOf(r).context]
<1>1. pc[r] = "merge" /\ UNCHANGED journeys /\ ReplyOK(pc[r], req[r])
  BY DEF MergeContext, Replies
<1>2. Goto(r, "store") /\ SetRequest(r, q)
  BY DEF MergeContext
<1>3. q.kind = req[r].kind
  BY DEF Inv, TypeOK, Request
<1> HIDE DEF q
<1>4. StepOf(r) /\ pc'[r] = "store" /\ req'[r] = q
  BY <1>1, <1>2, StepReading
<1>5. ReplyOK(pc[r], req[r])'
  BY <1>1, <1>3, <1>4 DEF ReplyOK, ViewOK, MovedOK
<1> QED BY <1>4, <1>5, StepReplies

LEMMA StoreContextReplies ==
  ASSUME Inv, Inv', Replies, NEW r \in Requests, StoreContext(r)
  PROVE  Replies'
<1> DEFINE j == [StateOf(r) EXCEPT !.context = req[r].tags]
           q == [req[r] EXCEPT !.outcome = "ok"]
<1>1. pc[r] = "store" /\ pc[r] \in Serving /\ ReplyOK(pc[r], req[r])
  BY DEF StoreContext, Serving, Labels, Replies
<1>2. SetState(r, j) /\ Goto(r, "done") /\ SetRequest(r, q)
  BY DEF StoreContext, Answer
<1>3. StateOf(r) \in Journey
  BY <1>1 DEF Inv, ThreadInv, ThreadOK, StateOf
<1>4. Forward(StateOf(r), j)
  BY <1>3, JourneyFacts DEF Journey, Forward
<1>5. q.kind = req[r].kind
  BY DEF Inv, TypeOK, Request
<1> HIDE DEF j, q
<1>6. StepOf(r) /\ pc'[r] = "done" /\ req'[r] = q
  BY <1>1, <1>2, <1>4, StepWriting
<1>7. ReplyOK(pc[r], req[r])'
  BY <1>1, <1>5, <1>6 DEF ReplyOK, ViewOK, MovedOK
<1> QED BY <1>6, <1>7, StepReplies

\* After a restart every thread is idle, has replied before, or has lost its
\* request.
LEMMA RestartReplies ==
  ASSUME Inv, Inv', Replies, RestartServer
  PROVE  Replies'
<1> SUFFICES ASSUME NEW r \in Requests PROVE ReplyOK(pc[r], req[r])'
  BY DEF Replies
<1>1. ReplyOK(pc[r], req[r]) /\ req[r] \in Request
  BY DEF Replies, Inv, TypeOK
<1>2. CASE r \in InFlight
  <2>1. pc'[r] = "done" /\ req'[r].outcome = "lost"
    BY <1>1, <1>2 DEF RestartServer, Request
  <2> QED BY <2>1 DEF ReplyOK, ViewOK, MovedOK
<1>3. CASE r \notin InFlight
  <2>1. pc'[r] = pc[r] /\ req'[r] = req[r] /\ pc[r] \in {"idle", "done"}
    BY <1>3 DEF RestartServer, InFlight
  <2> QED BY <1>1, <2>1 DEF ReplyOK, ViewOK, MovedOK
<1> QED BY <1>2, <1>3

-----------------------------------------------------------------------------
(* The theorems *)

\* No step brings up a journey under an id that was not handed out.
LEMMA CreatedKept ==
  ASSUME Inv, OnlyCreated, [Next]_serverVars
  PROVE  OnlyCreated'
<1>1. CASE UNCHANGED journeys /\ created \subseteq created'
  BY <1>1 DEF OnlyCreated
<1>2. ASSUME NEW r \in Requests, pc[r] \in Serving, UNCHANGED created,
             NEW j, SetState(r, j)
      PROVE  OnlyCreated'
  BY <1>2 DEF OnlyCreated, SetState, Inv, TypeOK, ThreadInv, ThreadOK
<1>3. ASSUME NEW r \in Requests, CreateJourney(r) PROVE OnlyCreated'
  BY <1>3 DEF CreateJourney, OnlyCreated, Inv, TypeOK
<1>4. CASE RestartServer
  BY <1>4, JourneyFacts DEF RestartServer, OnlyCreated
<1>5. ASSUME NEW r \in Requests, ApplyAction(r) PROVE OnlyCreated'
  BY <1>2, <1>5 DEF ApplyAction, Serving, Labels
<1>6. ASSUME NEW r \in Requests, CompletePiece(r) PROVE OnlyCreated'
  BY <1>1, <1>2, <1>6 DEF CompletePiece, Serving, Labels
<1>7. ASSUME NEW r \in Requests, AdvancePiece(r) PROVE OnlyCreated'
  BY <1>2, <1>7 DEF AdvancePiece, Serving, Labels
<1>8. ASSUME NEW r \in Requests, AnnouncePiece(r) PROVE OnlyCreated'
  BY <1>2, <1>8 DEF AnnouncePiece, Serving, Labels
<1>9. ASSUME NEW r \in Requests, StoreContext(r) PROVE OnlyCreated'
  BY <1>2, <1>9 DEF StoreContext, Serving, Labels
<1>10. ASSUME NEW r \in Requests,
              \/ Arrive(r) \/ FindJourney(r) \/ ReadBefore(r) \/ TakeLock(r)
              \/ Compare(r) \/ ReadView(r) \/ Chat(r) \/ MergeContext(r)
       PROVE  OnlyCreated'
  BY <1>1, <1>10 DEF Arrive, FindJourney, ReadBefore, TakeLock, Compare, ReadView, Chat,
                     MergeContext
<1>11. CASE UNCHANGED serverVars
  BY <1>1, <1>11 DEF serverVars
<1> QED BY <1>3, <1>4, <1>5, <1>6, <1>7, <1>8, <1>9, <1>10, <1>11
        DEF Next, ServerNext, Serve

LEMMA RepliesKept ==
  ASSUME Inv, Inv', OnlyCreated, Replies, [Next]_serverVars
  PROVE  Replies'
<1>1. ASSUME NEW r \in Requests, Serve(r) PROVE Replies'
  BY <1>1, CreateJourneyReplies, FindJourneyReplies, ReadBeforeReplies, TakeLockReplies,
     ApplyActionReplies, CompletePieceReplies, AdvancePieceReplies, AnnouncePieceReplies,
     CompareReplies, ReadViewReplies, ChatReplies, MergeContextReplies, StoreContextReplies
     DEF Serve
<1>2. CASE UNCHANGED serverVars
  BY <1>2 DEF serverVars, Replies, ReplyOK, ViewOK, MovedOK
<1> QED BY <1>1, <1>2, ArriveReplies, RestartReplies DEF Next, ServerNext

LEMMA RepliesInvariant == Spec => [](Replies /\ OnlyCreated)
<1>1. ServerInit => Replies /\ OnlyCreated
  BY JourneyFacts DEF ServerInit, NewRequest, Replies, OnlyCreated, ReplyOK, ViewOK, MovedOK
<1>2. Inv /\ Inv' /\ Replies /\ OnlyCreated /\ [Next]_serverVars => (Replies /\ OnlyCreated)'
  BY RepliesKept, CreatedKept
<1> QED BY <1>1, <1>2, Invariance, PTL DEF Spec

\* A reply never shows a current piece with an earlier one missing among the
\* completed pieces, although to_dict reads the journey without the lock.
THEOREM ViewsNeverAhead == Spec => []ViewNeverAhead
<1>1. Replies => ViewNeverAhead
  BY DEF Replies, ReplyOK, ViewOK, ViewNeverAhead
<1> QED BY <1>1, RepliesInvariant, PTL

\* A request that moved the journey on says so in game_state_mutation,
\* whatever other requests did between its two reads.
THEOREM MutationsReported == Spec => []MutationReported
<1>1. Replies => MutationReported
  BY DEF Replies, ReplyOK, MovedOK, MutationReported
<1> QED BY <1>1, RepliesInvariant, PTL
=============================================================================

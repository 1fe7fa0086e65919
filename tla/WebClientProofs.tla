-------------------------- MODULE WebClientProofs ---------------------------
(***************************************************************************)
(* Proofs about WebClient, for any number of requests, sessions, pieces,   *)
(* questions, lost calls, reloads and restarts, and users who wait for the *)
(* timer (Patient): no second request goes out while one is under way; as  *)
(* long as no call was lost, the page shows what the server has, questions *)
(* handed over to the free chat are asked there, and no piece is completed *)
(* that was never shown.  The invariants say which handler serves which    *)
(* function of the page, and what the page knows of the journey until the  *)
(* handler changes it.                                                     *)
(***************************************************************************)
EXTENDS WebClient, DemoJourneyProofs, FiniteSetTheorems

ClientType ==
  /\ page \in Page /\ saved \in SessionIds \cup {NoSession}
  /\ call \in [Requests -> Calls] /\ lost \in Nat /\ reloads \in Nat
  /\ seen \subseteq Pieces /\ owed \subseteq Questions

\* One request at a time, and none while a timer runs: a page that waits has
\* its buttons disabled or no session yet.
Flow ==
  /\ \A r, q \in Outstanding : r = q
  /\ Outstanding # {} =>
       page.timers = 0 /\ (page.request = "loading" \/ page.app = "initializing")
  /\ page.session # NoSession <=> page.app = "ready"
  /\ page.freeOpen \/ page.timers > 0 => page.app = "ready"
  /\ page.app = "new" => Outstanding = {}
  /\ page.session # NoSession => saved = page.session
  /\ page.last # <<>> => \E r \in Outstanding : call[r] \in {"piece", "free"}

ViewLabels == {"view", "view2", "view3", "done"}

\* The labels of the handler that serves a function of the page.
Route ==
  [ create |-> {"create"} \cup ViewLabels, restore |-> {"find"} \cup ViewLabels,
    piece |-> {"find", "chat", "merge", "store", "done"},
    free |-> {"find", "chat", "merge", "store", "done"},
    action |-> Labels \ {"idle", "create", "chat", "merge", "store"},
    open |-> {"find", "lock", "apply"} \cup ViewLabels,
    close |-> {"find", "lock", "apply"} \cup ViewLabels ]

\* What a function of the page has sent.
SentAs(use, q) ==
  /\ use = "create" => q.kind = "create"
  /\ use = "restore" => q.kind = "read" /\ q.sid = saved
  /\ use \in {"piece", "free"} => q.kind = "chat" /\ q.question \in Questions
  /\ use = "action" => q.kind = "action"
  /\ use = "open" => q.kind = "transition" /\ q.action = "open"
  /\ use = "close" => q.kind = "transition" /\ q.action = "return"
  /\ use \notin {"create", "restore"} => q.sid = page.session

Starting == {"create", "restore"}

CallOK(use, l, q) ==
  /\ l \in Route[use] /\ SentAs(use, q)
  /\ use \in Starting <=> page.session = NoSession
  /\ use \in Starting /\ l = "done" /\ q.outcome = "ok" => q.sid \in SessionIds
  /\ use = "piece" => ~page.freeOpen

Sent == \A r \in Outstanding : CallOK(call[r], pc[r], req[r])

PageInv == Inv /\ ClientType /\ Flow /\ Sent

\* A journey is there until the server is restarted.
Kept ==
  restarts = 0 =>
    /\ page.session # NoSession => journeys[page.session] \in Journey
    /\ \A r \in Outstanding :
         call[r] \in Starting /\ pc[r] = "done" /\ req[r].outcome = "ok" =>
           journeys[req[r].sid] \in Journey

\* The handler has not changed the journey, or not as far as the page shows it.
Quiet(use, l, q) ==
  \/ use \in {"piece", "free"}
  \/ l \in {"find", "before", "before2", "lock", "apply", "complete"}
  \/ l = "done" /\ q.outcome # "ok"

\* What the reply shows, while it is put together and when it is complete.
ReplyShows(use, l, q) ==
  use \notin {"piece", "free"} =>
    /\ l \in {"view2", "view3"} => q.view = [journeys[q.sid] EXCEPT !.completed = {}]
    /\ l = "done" /\ q.outcome = "ok" /\ journeys[q.sid] \in Journey =>
         q.view = journeys[q.sid]

\* With no call lost, every running handler is waited for, and the page shows
\* the journey until the handler changes it.
Shows ==
  /\ \A r \in Requests : pc[r] \notin {"idle", "done"} => call[r] # "none"
  /\ /\ page.session # NoSession /\ journeys[page.session] \in Journey
     /\ \A r \in Outstanding : Quiet(call[r], pc[r], req[r])
     => page.view = Rendered(journeys[page.session])
  /\ \A r \in Outstanding : ReplyShows(call[r], pc[r], req[r])

\* With no call lost, what is completed was shown, of the journey of the
\* session that the page would restore.
Traced ==
  /\ saved # NoSession => journeys[saved].completed \subseteq seen
  /\ page.session # NoSession => {page.view.piece} \cap Pieces \subseteq seen
  /\ \A r \in Outstanding :
       /\ call[r] = "create" /\ pc[r] \in ViewLabels
       /\ pc[r] = "done" => req[r].outcome = "ok"
       => journeys[req[r].sid].completed = {}

\* With no call lost and no restart, a question that is owed is on its way.
Carried ==
  /\ \A question \in owed :
       \E r \in Outstanding : call[r] = "open" /\ req[r].question = question
  /\ \A r \in Outstanding :
       call[r] \in {"open", "close"} /\ pc[r] = "done" => req[r].outcome = "ok"

-----------------------------------------------------------------------------
(* Requests of the page, as the server sees them *)

\* What both parts of a step leave to say of the threads.
OthersStay(r) == \A q \in Requests : q # r => pc'[q] = pc[q] /\ req'[q] = req[q]

\* A thread that has just got its request.
Starts(r, kind, s, action, question) ==
  /\ pc'[r] = (IF kind = "create" THEN "create" ELSE "find")
  /\ req'[r].kind = kind /\ req'[r].sid = s /\ req'[r].action = action
  /\ req'[r].question = question /\ req'[r].outcome = "none"

LEMMA CallFacts ==
  /\ NoJourney \notin Journey /\ NoSession \notin SessionIds
  /\ \A question \in Questions : \A use : <<use, question>> # <<>>
BY JourneyFacts, JourneyAssumption

\* A request starts, on a thread that has nothing to do.
LEMMA StartKeeps ==
  ASSUME Inv, NEW r \in Requests, pc[r] \in {"idle", "done"},
         NEW kind \in Kinds, NEW s \in SessionIds \cup {NoSession}, NEW action \in Actions,
         NEW question \in Questions \cup {NoQuestion},
         Start(r, kind, s, action, question), UNCHANGED <<journeys, created, lock, restarts>>
  PROVE  Inv' /\ OthersStay(r) /\ Starts(r, kind, s, action, question)
<1> DEFINE q == NewRequest(kind, s, action, question)
           l == IF kind = "create" THEN "create" ELSE "find"
<1>1. q \in Request
  BY JourneyFacts DEF NewRequest, Request
<1>2. ThreadOK(l, q)
  BY DEF ThreadOK, Serving, NewRequest
<1>3. l \in Labels \ Locked /\ pc[r] \notin Locked
  BY DEF Labels, Locked
<1>4. Goto(r, l) /\ SetRequest(r, q)
  BY DEF Start
<1>5. /\ q.kind = kind /\ q.sid = s /\ q.action = action /\ q.question = question
      /\ q.outcome = "none"
  BY DEF NewRequest
<1>6. pc \in [Requests -> Labels] /\ req \in [Requests -> Request]
  BY DEF Inv, TypeOK
<1> HIDE DEF q, l
<1>7. OthersStay(r) /\ pc'[r] = l /\ req'[r] = q
  BY <1>4, <1>6 DEF OthersStay, Goto, SetRequest
<1>8. Inv'
  BY <1>1, <1>2, <1>3, <1>4, Proceed DEF Inv, TypeOK
<1> QED BY <1>5, <1>7, <1>8 DEF l, Starts

\* A request is forgotten when its function ends.
LEMMA FinishKeeps ==
  ASSUME Inv, NEW r \in Requests, pc[r] \notin Locked, NEW after, Finish(r, after)
  PROVE  Inv' /\ OthersStay(r) /\ pc'[r] = "idle"
<1> DEFINE q == NewRequest("read", NoSession, "other", NoQuestion)
<1>1. q \in Request /\ ThreadOK("idle", q)
  BY JourneyFacts DEF NewRequest, Request, Kinds, Actions, ThreadOK, Serving
<1>2. Goto(r, "idle") /\ SetRequest(r, q) /\ UNCHANGED <<journeys, created, lock, restarts>>
  BY DEF Finish, Goto
<1>3. "idle" \in Labels \ Locked
  BY DEF Labels, Locked
<1>4. pc \in [Requests -> Labels] /\ req \in [Requests -> Request]
  BY DEF Inv, TypeOK
<1> HIDE DEF q
<1>5. OthersStay(r) /\ pc'[r] = "idle"
  BY <1>2, <1>4 DEF OthersStay, Goto, SetRequest
<1> QED BY <1>1, <1>2, <1>3, <1>5, Proceed DEF Inv, TypeOK

-----------------------------------------------------------------------------
(* Steps of the page: every one sends a request, ends a function or waits *)

\* What one page says of its session, apart from the calls under way.
PageOK(p) ==
  /\ p \in Page
  /\ p.session # NoSession <=> p.app = "ready"
  /\ p.freeOpen \/ p.timers > 0 => p.app = "ready"

Only(r) == \A q \in Outstanding : q = r

\* The page has sent a request, and waits for nothing else.
Sends(r, use) ==
  /\ Outstanding' = {r} /\ OthersStay(r) /\ call'[r] = use
  /\ pc'[r] = (IF use = "create" THEN "create" ELSE "find")
  /\ UNCHANGED <<journeys, restarts>>

\* The page has ended a function, and waits for nothing.
Ends(r) ==
  /\ Outstanding' = {} /\ OthersStay(r) /\ pc'[r] = "idle"
  /\ UNCHANGED <<journeys, restarts>>

\* The session of the page and what is shown of it.
SameView == page'.session = page.session /\ page'.view = page.view /\ UNCHANGED <<saved, seen>>

LEMMA PageGood == PageInv => PageOK(page)
BY DEF PageInv, ClientType, Flow, PageOK

\* The page sends a request for the function use, with no other under way.
LEMMA Sending ==
  ASSUME PageInv, NEW r \in Requests, Only(r), pc[r] \in {"idle", "done"},
         NEW use \in Calls \ {"none"}, NEW kind \in Kinds,
         NEW s \in SessionIds \cup {NoSession}, NEW action \in Actions,
         NEW question \in Questions \cup {NoQuestion},
         Start(r, kind, s, action, question), UNCHANGED <<journeys, created, lock, restarts>>,
         call' = [call EXCEPT ![r] = use],
         PageOK(page'), page'.timers = 0, page'.app # "new",
         page'.request = "loading" \/ page'.app = "initializing",
         page'.session # NoSession => saved' = page'.session,
         page'.last # <<>> => use \in {"piece", "free"},
         use \in Starting <=> page'.session = NoSession,
         use = "piece" => ~page'.freeOpen,
         \/ use = "create" /\ kind = "create"
         \/ use = "restore" /\ kind = "read" /\ s = saved'
         \/ use \in {"piece", "free"} /\ kind = "chat" /\ s = page'.session
            /\ question \in Questions
         \/ use = "action" /\ kind = "action" /\ s = page'.session
         \/ use = "open" /\ kind = "transition" /\ action = "open" /\ s = page'.session
         \/ use = "close" /\ kind = "transition" /\ action = "return" /\ s = page'.session,
         saved' \in SessionIds \cup {NoSession}, lost' \in Nat, reloads' \in Nat,
         seen' \subseteq Pieces, owed' \subseteq Questions
  PROVE  PageInv' /\ Sends(r, use) /\ Starts(r, kind, s, action, question)
<1>0. Inv
  BY DEF PageInv
<1>1. Inv' /\ OthersStay(r) /\ Starts(r, kind, s, action, question)
  BY <1>0, StartKeeps
<1>2. call'[r] = use /\ \A q \in Requests : q # r => call'[q] = "none"
  BY DEF Only, Outstanding, PageInv, ClientType
<1>3. Outstanding' = {r}
  BY <1>2 DEF Outstanding
<1>4. ClientType'
  BY DEF ClientType, PageOK, PageInv
<1>5. Flow'
  <2>1. page'.last # <<>> => \E q \in Outstanding' : call'[q] \in {"piece", "free"}
    BY <1>2, <1>3
  <2> QED
    BY <1>3, <2>1 DEF Flow, PageOK
<1>6. CallOK(call[r], pc[r], req[r])'
  <2>1. pc'[r] \in Route[use] /\ pc'[r] # "done"
    BY <1>1 DEF Route, ViewLabels, Labels, Calls, Starting, Starts
  <2>2. SentAs(call[r], req[r])'
    BY <1>1, <1>2 DEF SentAs, Starting, Starts
  <2> QED
    BY <1>2, <2>1, <2>2 DEF CallOK, Route
<1>7. Sent'
  BY <1>2, <1>3, <1>6 DEF Sent
<1> QED
  BY <1>1, <1>2, <1>3, <1>4, <1>5, <1>7 DEF PageInv, Sends, Starts

\* A function of the page ends, with no other request under way.
LEMMA Finishing ==
  ASSUME PageInv, NEW r \in Requests, Only(r), pc[r] \notin Locked,
         NEW after, Finish(r, after), PageOK(after), after.last = <<>>,
         after.session # NoSession => saved' = after.session,
         saved' \in SessionIds \cup {NoSession}, lost' \in Nat, reloads' \in Nat,
         seen' \subseteq Pieces, owed' \subseteq Questions
  PROVE  PageInv' /\ Ends(r)
<1>1. Inv' /\ OthersStay(r) /\ pc'[r] = "idle"
  BY FinishKeeps DEF PageInv
<1>2. page' = after /\ \A q \in Requests : call'[q] = "none"
  BY DEF Finish, Only, Outstanding, PageInv, ClientType
<1>3. Outstanding' = {}
  BY <1>2 DEF Outstanding
<1>4. ClientType'
  BY <1>2 DEF Finish, ClientType, PageOK, PageInv, Calls
<1>5. Flow'
  BY <1>2, <1>3 DEF Flow, PageOK
<1>6. Sent'
  BY <1>3 DEF Sent
<1> QED
  BY <1>1, <1>3, <1>4, <1>5, <1>6 DEF PageInv, Ends, Finish

\* The page changes, with no request under way after the step.
LEMMA Resting ==
  ASSUME PageInv, UNCHANGED serverVars, \A q \in Requests : call'[q] = "none",
         call' \in [Requests -> Calls],
         PageOK(page'), page'.last = <<>>,
         page'.session # NoSession => saved' = page'.session,
         saved' \in SessionIds \cup {NoSession}, lost' \in Nat, reloads' \in Nat,
         seen' \subseteq Pieces, owed' \subseteq Questions
  PROVE  PageInv' /\ Outstanding' = {}
<1>1. Inv'
  BY StepInv DEF PageInv
<1>2. Outstanding' = {}
  BY DEF Outstanding
<1>3. ClientType'
  BY DEF ClientType, PageOK, PageInv
<1>4. Flow'
  BY <1>2 DEF Flow, PageOK
<1>5. Sent'
  BY <1>2 DEF Sent
<1> QED
  BY <1>1, <1>2, <1>3, <1>4, <1>5 DEF PageInv

-----------------------------------------------------------------------------
(* Loading the page *)

LEMMA InitializePage ==
  ASSUME PageInv, NEW r \in Requests, Initialize(r)
  PROVE  PageInv' /\ (\E use \in Starting : Sends(r, use)) /\ Outstanding = {} /\ SameView
<1>1. page.app = "new" /\ Outstanding = {} /\ pc[r] \in {"idle", "done"}
      /\ page.session = NoSession /\ page.last = <<>> /\ page \in Page
      /\ page.timers = 0 /\ ~page.freeOpen
  BY DEF Initialize, PageInv, Flow, Free, ClientType, Page
<1>2. PageOK(page') /\ page'.timers = 0 /\ page'.app = "initializing"
      /\ page'.session = NoSession /\ page'.last = <<>> /\ page'.view = page.view
  BY <1>1 DEF Initialize, Send, PageOK, Page
<1>3. UNCHANGED <<journeys, created, lock, restarts, saved, lost, reloads, seen, owed>>
  BY DEF Initialize, Send
<1>4. saved' \in SessionIds \cup {NoSession} /\ lost' \in Nat /\ reloads' \in Nat
      /\ seen' \subseteq Pieces /\ owed' \subseteq Questions
  BY <1>3 DEF PageInv, ClientType
<1>5. Only(r)
  BY <1>1 DEF Only
<1>6. CASE saved = NoSession
  <2>1. call' = [call EXCEPT ![r] = "create"]
        /\ Start(r, "create", NoSession, "other", NoQuestion)
    BY <1>1, <1>6 DEF Initialize, Send, Page
  <2>2. PageInv' /\ Sends(r, "create")
    BY <1>1, <1>2, <1>3, <1>4, <1>5, <2>1, Sending DEF Calls, Kinds, Actions, Starting
  <2> QED
    BY <1>1, <1>2, <1>3, <2>2 DEF SameView, Starting
<1>7. CASE saved # NoSession
  <2>1. call' = [call EXCEPT ![r] = "restore"]
        /\ Start(r, "read", saved, "other", NoQuestion)
        /\ saved \in SessionIds \cup {NoSession}
    BY <1>7 DEF Initialize, PageInv, ClientType
  <2>2. PageInv' /\ Sends(r, "restore")
    BY <1>1, <1>2, <1>3, <1>4, <1>5, <2>1, Sending DEF Calls, Kinds, Actions, Starting
  <2> QED
    BY <1>1, <1>2, <1>3, <2>2 DEF SameView, Starting
<1> QED
  BY <1>6, <1>7

LEMMA NewPageOK == PageOK(NewPage) /\ NewPage.last = <<>>
BY CallFacts DEF PageOK, NewPage, Page, RequestStates, PieceUi

LEMMA LoseHealthPage ==
  ASSUME PageInv, LoseHealth
  PROVE  PageInv' /\ Outstanding' = {}
<1>1. page.app = "new" /\ Outstanding = {} /\ page.last = <<>> /\ PageOK(page)
  BY PageGood DEF LoseHealth, PageInv, Flow
<1>2. PageOK(page') /\ page'.last = <<>> /\ page'.session = NoSession
  BY <1>1 DEF LoseHealth, Disconnected, PageOK, Page, RequestStates
<1>3. UNCHANGED <<serverVars, saved, call, reloads, seen, owed>> /\ lost' = lost + 1
  BY DEF LoseHealth
<1>4. /\ saved' \in SessionIds \cup {NoSession} /\ lost' \in Nat /\ reloads' \in Nat
      /\ seen' \subseteq Pieces /\ owed' \subseteq Questions /\ call' \in [Requests -> Calls]
  BY <1>3 DEF PageInv, ClientType
<1>5. \A q \in Requests : call'[q] = "none"
  BY <1>1, <1>3 DEF Outstanding
<1> QED
  BY <1>2, <1>3, <1>4, <1>5, Resting

LEMMA ReloadPage ==
  ASSUME Patient, PageInv, Reload
  PROVE  PageInv' /\ Outstanding' = {} /\ Outstanding = {}
<1>1. page' = NewPage /\ UNCHANGED <<serverVars, saved, lost, seen>> /\ Outstanding = {}
      /\ reloads' = reloads + 1 /\ owed' = {} /\ call' = [r \in Requests |-> "none"]
  BY DEF Reload
<1>2. /\ saved' \in SessionIds \cup {NoSession} /\ lost' \in Nat /\ reloads' \in Nat
      /\ seen' \subseteq Pieces /\ owed' \subseteq Questions /\ call' \in [Requests -> Calls]
  BY <1>1 DEF PageInv, ClientType, Calls
<1>3. PageOK(page') /\ page'.last = <<>> /\ page'.session = NoSession
  BY <1>1, NewPageOK DEF NewPage
<1> QED
  BY <1>1, <1>2, <1>3, Resting

-----------------------------------------------------------------------------
(* Clicks *)

\* A user who waits for the timer clicks with nothing under way.
LEMMA ClickAlone ==
  ASSUME Patient, PageInv, MayClick, page.session # NoSession
  PROVE  /\ Outstanding = {} /\ page.timers = 0 /\ page.app = "ready"
         /\ saved = page.session /\ page.session \in SessionIds /\ page.last = <<>>
BY DEF MayClick, MayAlwaysClick, PageInv, Flow, ClientType, Page

LEMMA ClickWithoutSessionPage ==
  ASSUME PageInv, ClickWithoutSession
  PROVE  PageInv' /\ Outstanding' = Outstanding
<1>1. page' = [page EXCEPT !.request = "error"] /\ page.session = NoSession /\ page.app # "new"
      /\ UNCHANGED <<serverVars, saved, call, lost, reloads, seen, owed>>
      /\ page.request # "loading"
  BY DEF ClickWithoutSession, MayClick, MayAlwaysClick
<1>2. page' \in Page
  BY <1>1 DEF PageInv, ClientType, Page, RequestStates
<1>3. /\ page'.session = page.session /\ page'.app = page.app /\ page'.timers = page.timers
      /\ page'.freeOpen = page.freeOpen /\ page'.last = page.last
  BY <1>1 DEF PageInv, ClientType, Page
<1>4. Inv' /\ ClientType'
  BY <1>1, <1>2, StepInv DEF PageInv, ClientType
<1>5. Outstanding' = Outstanding /\ UNCHANGED <<call, pc, req, saved>>
  BY <1>1 DEF Outstanding, serverVars
<1>6. Flow'
  BY <1>1, <1>3, <1>5 DEF PageInv, Flow
<1>7. Sent'
  BY <1>3, <1>5 DEF PageInv, Sent, CallOK, SentAs
<1> QED
  BY <1>4, <1>5, <1>6, <1>7 DEF PageInv

LEMMA TimerFiresPage ==
  ASSUME PageInv, TimerFires
  PROVE  PageInv' /\ Outstanding' = {} /\ Outstanding = {}
<1>1. page' = [page EXCEPT !.timers = @ - 1, !.request = "idle"] /\ page.timers > 0
      /\ UNCHANGED <<serverVars, saved, call, lost, reloads, seen, owed>>
  BY DEF TimerFires
<1>2. Outstanding = {} /\ PageOK(page) /\ page.last = <<>>
      /\ (page.session # NoSession => saved = page.session)
  BY <1>1, PageGood DEF PageInv, Flow, PageOK, Page
<1>3. PageOK(page') /\ page'.last = <<>> /\ page'.session = page.session
  <2> DEFINE fewer == page.timers - 1
  <2>1. fewer \in Nat /\ page' = [page EXCEPT !.timers = fewer, !.request = "idle"]
    BY <1>1, <1>2 DEF PageOK, Page
  <2>2. page.app = "ready"
    BY <1>1, <1>2 DEF PageOK
  <2> HIDE DEF fewer
  <2> QED
    BY <1>2, <2>1, <2>2 DEF PageOK, Page, RequestStates
<1>4. /\ saved' \in SessionIds \cup {NoSession} /\ lost' \in Nat /\ reloads' \in Nat
      /\ seen' \subseteq Pieces /\ owed' \subseteq Questions /\ call' \in [Requests -> Calls]
  BY <1>1 DEF PageInv, ClientType
<1>5. \A q \in Requests : call'[q] = "none"
  BY <1>1, <1>2 DEF Outstanding
<1> QED
  BY <1>1, <1>2, <1>3, <1>4, <1>5, Resting

LEMMA SendPiecePage ==
  ASSUME Patient, PageInv, NEW r \in Requests, NEW q \in Questions, SendPiece(r, q)
  PROVE  PageInv' /\ Sends(r, "piece") /\ Outstanding = {} /\ SameView
<1>1. MayClick /\ ~page.freeOpen /\ page.session # NoSession /\ r \in Free
      /\ Start(r, "chat", page'.session, "other", q) /\ call' = [call EXCEPT ![r] = "piece"]
      /\ page' = [page EXCEPT !.last = <<"piece", q>>, !.request = "loading"]
      /\ UNCHANGED <<journeys, created, lock, restarts, saved, lost, reloads, seen, owed>>
  BY DEF SendPiece, Send, Waiting
<1>2. PageOK(page) /\ page.app = "ready" /\ page.timers = 0 /\ Outstanding = {}
      /\ saved = page.session /\ page.session \in SessionIds
  BY <1>1, ClickAlone, PageGood
<1>3. PageOK(page') /\ SameView /\ page'.session = page.session
      /\ page'.app = "ready" /\ page'.timers = 0 /\ page'.request = "loading" /\ ~page'.freeOpen
  BY <1>1, <1>2 DEF SameView, PageOK, Page, RequestStates
<1>4. /\ saved' \in SessionIds \cup {NoSession} /\ lost' \in Nat /\ reloads' \in Nat
      /\ seen' \subseteq Pieces /\ owed' \subseteq Questions
  BY <1>1 DEF PageInv, ClientType
<1>5. Only(r) /\ pc[r] \in {"idle", "done"}
  BY <1>1, <1>2 DEF Only, Free
<1> QED
  BY <1>1, <1>2, <1>3, <1>4, <1>5, Sending DEF Calls, Kinds, Actions, Starting

LEMMA SendFreePage ==
  ASSUME Patient, PageInv, NEW r \in Requests, NEW q \in Questions, SendFree(r, q)
  PROVE  PageInv' /\ Sends(r, "free") /\ Outstanding = {} /\ SameView
<1>1. MayClick /\ page.freeOpen /\ r \in Free /\ owed' = owed \ {q}
      /\ Start(r, "chat", page'.session, "other", q) /\ call' = [call EXCEPT ![r] = "free"]
      /\ page' = [page EXCEPT !.last = <<"free", q>>, !.request = "loading"]
      /\ UNCHANGED <<journeys, created, lock, restarts, saved, lost, reloads, seen>>
  BY DEF SendFree, Send, Waiting
<1>2. PageOK(page) /\ page.app = "ready" /\ page.timers = 0 /\ Outstanding = {}
      /\ saved = page.session /\ page.session \in SessionIds /\ page.session # NoSession
  BY <1>1, ClickAlone, PageGood DEF PageOK
<1>3. PageOK(page') /\ SameView /\ page'.session = page.session
      /\ page'.app = "ready" /\ page'.timers = 0 /\ page'.request = "loading"
  BY <1>1, <1>2 DEF SameView, PageOK, Page, RequestStates
<1>4. /\ saved' \in SessionIds \cup {NoSession} /\ lost' \in Nat /\ reloads' \in Nat
      /\ seen' \subseteq Pieces /\ owed' \subseteq Questions
  BY <1>1 DEF PageInv, ClientType
<1>5. Only(r) /\ pc[r] \in {"idle", "done"}
  BY <1>1, <1>2 DEF Only, Free
<1> QED
  BY <1>1, <1>2, <1>3, <1>4, <1>5, Sending DEF Calls, Kinds, Actions, Starting

LEMMA JourneyActionPage ==
  ASSUME Patient, PageInv, NEW r \in Requests, NEW action \in Actions, JourneyAction(r, action)
  PROVE  PageInv' /\ Sends(r, "action") /\ Outstanding = {} /\ SameView
<1>1. MayClick /\ page.session # NoSession /\ r \in Free
      /\ Start(r, "action", page'.session, action, NoQuestion)
      /\ call' = [call EXCEPT ![r] = "action"] /\ page' = [page EXCEPT !.request = "loading"]
      /\ UNCHANGED <<journeys, created, lock, restarts, saved, lost, reloads, seen, owed>>
  BY DEF JourneyAction, Send, Waiting
<1>2. PageOK(page) /\ page.app = "ready" /\ page.timers = 0 /\ Outstanding = {}
      /\ saved = page.session /\ page.session \in SessionIds /\ page.last = <<>>
  BY <1>1, ClickAlone, PageGood
<1>3. PageOK(page') /\ SameView /\ page'.session = page.session
      /\ page'.app = "ready" /\ page'.timers = 0 /\ page'.request = "loading" /\ page'.last = <<>>
  BY <1>1, <1>2 DEF SameView, PageOK, Page, RequestStates
<1>4. /\ saved' \in SessionIds \cup {NoSession} /\ lost' \in Nat /\ reloads' \in Nat
      /\ seen' \subseteq Pieces /\ owed' \subseteq Questions
  BY <1>1 DEF PageInv, ClientType
<1>5. Only(r) /\ pc[r] \in {"idle", "done"}
  BY <1>1, <1>2 DEF Only, Free
<1> QED
  BY <1>1, <1>2, <1>3, <1>4, <1>5, Sending DEF Calls, Kinds, Starting

LEMMA OpenFreePage ==
  ASSUME Patient, PageInv, NEW r \in Requests, OpenFree(r)
  PROVE  PageInv' /\ Sends(r, "open") /\ Outstanding = {} /\ SameView
<1>1. /\ MayClick /\ page.session # NoSession /\ r \in Free
      /\ call' = [call EXCEPT ![r] = "open"]
      /\ page' = [page EXCEPT !.freeOpen = TRUE, !.request = "loading"]
      /\ UNCHANGED <<journeys, created, lock, restarts, saved, lost, reloads, seen, owed>>
  BY DEF OpenFree, Send, MayOpen, Opening, Waiting
<1>2. PICK q \in {NoQuestion} \cup Questions :
        Start(r, "transition", page'.session, "open", q)
  BY DEF OpenFree, Send
<1>3. PageOK(page) /\ page.app = "ready" /\ page.timers = 0 /\ Outstanding = {}
      /\ saved = page.session /\ page.session \in SessionIds /\ page.last = <<>>
  BY <1>1, ClickAlone, PageGood
<1>4. PageOK(page') /\ SameView /\ page'.session = page.session
      /\ page'.app = "ready" /\ page'.timers = 0 /\ page'.request = "loading" /\ page'.last = <<>>
  BY <1>1, <1>3 DEF SameView, PageOK, Page, RequestStates
<1>5. /\ saved' \in SessionIds \cup {NoSession} /\ lost' \in Nat /\ reloads' \in Nat
      /\ seen' \subseteq Pieces /\ owed' \subseteq Questions
  BY <1>1 DEF PageInv, ClientType
<1>6. Only(r) /\ pc[r] \in {"idle", "done"}
  BY <1>1, <1>3 DEF Only, Free
<1> QED
  BY <1>1, <1>2, <1>3, <1>4, <1>5, <1>6, Sending DEF Calls, Kinds, Actions, Starting

LEMMA CloseFreePage ==
  ASSUME Patient, PageInv, NEW r \in Requests, CloseFree(r)
  PROVE  PageInv' /\ Sends(r, "close") /\ Outstanding = {} /\ SameView
<1>1. MayClick /\ page.freeOpen /\ r \in Free
      /\ Start(r, "transition", page'.session, "return", NoQuestion)
      /\ call' = [call EXCEPT ![r] = "close"] /\ page' = [page EXCEPT !.request = "loading"]
      /\ UNCHANGED <<journeys, created, lock, restarts, saved, lost, reloads, seen, owed>>
  BY DEF CloseFree, Send, Waiting
<1>2. PageOK(page) /\ page.app = "ready" /\ page.timers = 0 /\ Outstanding = {}
      /\ saved = page.session /\ page.session \in SessionIds /\ page.session # NoSession
      /\ page.last = <<>>
  BY <1>1, ClickAlone, PageGood DEF PageOK
<1>3. PageOK(page') /\ SameView /\ page'.session = page.session
      /\ page'.app = "ready" /\ page'.timers = 0 /\ page'.request = "loading" /\ page'.last = <<>>
  BY <1>1, <1>2 DEF SameView, PageOK, Page, RequestStates
<1>4. /\ saved' \in SessionIds \cup {NoSession} /\ lost' \in Nat /\ reloads' \in Nat
      /\ seen' \subseteq Pieces /\ owed' \subseteq Questions
  BY <1>1 DEF PageInv, ClientType
<1>5. Only(r) /\ pc[r] \in {"idle", "done"}
  BY <1>1, <1>2 DEF Only, Free
<1> QED
  BY <1>1, <1>2, <1>3, <1>4, <1>5, Sending DEF Calls, Kinds, Actions, Starting

-----------------------------------------------------------------------------
(* Replies *)

\* The request whose reply has arrived is the only one under way.
LEMMA ArrivedAlone ==
  ASSUME PageInv, NEW r \in Requests, NEW use \in Calls \ {"none"}, Arrived(r, use)
  PROVE  /\ Outstanding = {r} /\ Only(r) /\ pc[r] = "done" /\ call[r] = use
         /\ CallOK(use, pc[r], req[r]) /\ PageOK(page) /\ page.timers = 0
         /\ page.session # NoSession => saved = page.session
         /\ use \notin {"piece", "free"} => page.last = <<>>
         /\ req[r] \in Request /\ page.app # "new"
<1>1. Outstanding = {r} /\ call[r] = use /\ pc[r] = "done" /\ PageOK(page)
  BY PageGood DEF Arrived, Outstanding, PageInv, Flow
<1>2. CallOK(use, pc[r], req[r]) /\ req[r] \in Request
  BY <1>1 DEF PageInv, Sent, Inv, TypeOK
<1> QED
  BY <1>1, <1>2 DEF Only, PageInv, Flow

LEMMA RenderedJourney ==
  ASSUME NEW journey \in Journey \cup {NoJourney}
  PROVE  Rendered(journey) \in Journey \cup {NoJourney}
         /\ Rendered(journey).piece = journey.piece
         /\ Rendered(journey).completed = journey.completed
<1>1. CASE journey \in Journey
  BY <1>1 DEF Rendered, Journey
<1>2. CASE journey = NoJourney
  <2>1. NoJourney = [ piece |-> 0, completed |-> {}, step |-> 1, ui |-> "prompt",
                      mode |-> "piece", pending |-> NoQuestion, context |-> {} ]
    BY DEF NoJourney, FreshJourney
  <2>2. [NoJourney EXCEPT !.pending = NoQuestion] = NoJourney
    BY <2>1
  <2>3. [NoJourney EXCEPT !.context = {}] = NoJourney
    BY <2>1
  <2>4. Rendered(NoJourney) = [[NoJourney EXCEPT !.pending = NoQuestion] EXCEPT !.context = {}]
    BY DEF Rendered
  <2> QED
    BY <1>2, <2>2, <2>3, <2>4
<1> QED
  BY <1>1, <1>2

\* The page that shows a reply.
LEMMA ShownPage ==
  ASSUME PageInv, NEW r \in Requests, NEW request \in RequestStates
  PROVE  /\ PageOK(Shown(r, request))
         /\ Shown(r, request).session = page.session /\ Shown(r, request).app = page.app
         /\ Shown(r, request).timers = page.timers /\ Shown(r, request).last = page.last
         /\ Shown(r, request).freeOpen = page.freeOpen
         /\ Shown(r, request).request = request
         /\ Shown(r, request).view = Rendered(req[r].view)
<1>1. Rendered(req[r].view) \in Journey \cup {NoJourney}
  BY RenderedJourney DEF PageInv, Inv, TypeOK, Request
<1>2. PageOK(page)
  BY PageGood
<1> QED
  BY <1>1, <1>2 DEF Shown, PageOK, Page

LEMMA FailedPage ==
  ASSUME NEW p, PageOK(p)
  PROVE  PageOK(Failed(p)) /\ Failed(p).session = p.session /\ Failed(p).last = p.last
         /\ Failed(p).view = p.view /\ Failed(p).freeOpen = p.freeOpen
         /\ Failed(p).app = p.app
BY DEF Failed, PageOK, Page, RequestStates

LEMMA StartSessionPage ==
  ASSUME Patient, PageInv, NEW r \in Requests, StartSession(r)
  PROVE  /\ PageInv' /\ Outstanding = {r} /\ call[r] \in Starting /\ pc[r] = "done"
         /\ IF Succeeded(r)
            THEN /\ Ends(r) /\ page'.session = req[r].sid /\ saved' = req[r].sid
                 /\ page'.view = Rendered(req[r].view)
            ELSE /\ page'.session = NoSession /\ UNCHANGED <<saved, seen>>
                 /\ Ends(r) \/ Sends(r, "create")
<1>1. PICK use \in Starting : Arrived(r, use)
  BY DEF StartSession, Starting
<1>2. /\ Outstanding = {r} /\ Only(r) /\ pc[r] = "done" /\ call[r] = use
      /\ CallOK(use, pc[r], req[r]) /\ PageOK(page) /\ page.timers = 0
      /\ page.last = <<>> /\ req[r] \in Request /\ page.app # "new"
  BY <1>1, ArrivedAlone DEF Starting, Calls
<1>3. page.session = NoSession /\ ~page.freeOpen
  BY <1>2 DEF CallOK, PageOK
<1>4. lost' \in Nat /\ reloads' \in Nat /\ owed' \subseteq Questions
  BY DEF StartSession, PageInv, ClientType
<1>5. pc[r] \notin Locked
  BY <1>2 DEF Locked
<1>6. CASE Succeeded(r)
  <2> DEFINE shown == Shown(r, "idle")
             after == [shown EXCEPT !.session = req[r].sid, !.app = "ready"]
  <2>1. req[r].sid \in SessionIds /\ NoSession \notin SessionIds
    BY <1>2, <1>6, CallFacts DEF CallOK, Succeeded
  <2>2. PageOK(shown) /\ shown.last = <<>> /\ shown.view = Rendered(req[r].view)
    BY <1>2, ShownPage DEF RequestStates
  <2>3. PageOK(after) /\ after.last = <<>> /\ after.session = req[r].sid
        /\ after.view = Rendered(req[r].view)
    <3> HIDE DEF shown
    <3> QED
      BY <2>1, <2>2 DEF PageOK, Page
  <2>4. Finish(r, after) /\ saved' = req[r].sid
    BY <1>6 DEF StartSession
  <2>5. seen' \subseteq Pieces
    BY <1>6 DEF StartSession, PageInv, ClientType
  <2>6. page' = after
    BY <2>4 DEF Finish
  <2> HIDE DEF shown, after
  <2> QED
    BY <1>2, <1>4, <1>5, <1>6, <2>1, <2>3, <2>4, <2>5, <2>6, Finishing
<1>7. CASE ~Succeeded(r) /\ use = "restore"
  <2>1. /\ Start(r, "create", NoSession, "other", NoQuestion)
        /\ call' = [call EXCEPT ![r] = "create"] /\ page' = page
        /\ UNCHANGED <<journeys, created, lock, restarts, saved, seen>>
    BY <1>2, <1>3, <1>7 DEF StartSession, Send
  <2>2. saved' \in SessionIds \cup {NoSession} /\ seen' \subseteq Pieces
    BY <2>1 DEF PageInv, ClientType
  <2>3. /\ PageOK(page') /\ page'.timers = 0 /\ page'.app # "new" /\ page'.last = <<>>
        /\ page'.request = "loading" \/ page'.app = "initializing"
        /\ page'.session = NoSession
    BY <1>2, <1>3, <2>1 DEF PageInv, Flow
  <2> QED
    BY <1>2, <1>3, <1>4, <1>7, <2>1, <2>2, <2>3, Sending DEF Calls, Kinds, Actions, Starting
<1>8. CASE ~Succeeded(r) /\ use = "create"
  <2> DEFINE after == Disconnected(page)
  <2>1. Finish(r, after) /\ UNCHANGED <<saved, seen>>
    BY <1>2, <1>8 DEF StartSession
  <2>2. PageOK(after) /\ after.session = NoSession /\ after.last = <<>>
    BY <1>2, <1>3 DEF Disconnected, PageOK, Page, RequestStates
  <2>3. saved' \in SessionIds \cup {NoSession} /\ seen' \subseteq Pieces
    BY <2>1 DEF PageInv, ClientType
  <2>4. page' = after
    BY <2>1 DEF Finish
  <2> HIDE DEF after
  <2> QED
    BY <1>2, <1>4, <1>5, <1>8, <2>1, <2>2, <2>3, <2>4, Finishing
<1> QED
  BY <1>6, <1>7, <1>8 DEF Starting

\* The answer of a chat leaves the journey of the page as it is shown.
LEMMA PieceReplyPage ==
  ASSUME Patient, PageInv, NEW r \in Requests, PieceReply(r)
  PROVE  /\ PageInv' /\ Outstanding = {r} /\ call[r] = "piece" /\ SameView
         /\ \/ Ends(r) /\ owed' = owed
            \/ Sends(r, "open") /\ owed' = owed \cup {req'[r].question}
<1> DEFINE q == req[r].question
           ended == [page EXCEPT !.last = <<>>]
<1>1. /\ Outstanding = {r} /\ Only(r) /\ pc[r] = "done" /\ call[r] = "piece"
      /\ CallOK("piece", pc[r], req[r]) /\ PageOK(page) /\ page.timers = 0
      /\ page.session # NoSession => saved = page.session
  BY ArrivedAlone DEF PieceReply, Calls
<1>2. q \in Questions /\ page.session # NoSession /\ ~page.freeOpen /\ page.app = "ready"
  BY <1>1 DEF CallOK, SentAs, Starting, PageOK
<1>3. UNCHANGED <<saved, lost, reloads, seen>>
  BY DEF PieceReply
<1>4. pc[r] \notin Locked
  BY <1>1 DEF Locked
<1>5. /\ PageOK(ended) /\ ended.last = <<>> /\ ended.session = page.session
      /\ ended.view = page.view /\ ended.app = "ready" /\ ended.timers = 0 /\ ~ended.freeOpen
  BY <1>1, <1>2 DEF PageOK, Page
<1>6. saved' \in SessionIds \cup {NoSession} /\ lost' \in Nat /\ reloads' \in Nat
      /\ seen' \subseteq Pieces /\ saved' = page.session
  BY <1>1, <1>2, <1>3 DEF PageInv, ClientType
<1>7. owed' \subseteq Questions
  BY <1>2 DEF PieceReply, PageInv, ClientType
<1>8. ASSUME NEW after, Finish(r, after), PageOK(after), after.last = <<>>,
             after.session = page.session, after.view = page.view, owed' = owed
      PROVE  /\ PageInv' /\ Ends(r)
             /\ page'.session = page.session /\ page'.view = page.view
  <2>1. page' = after
    BY <1>8 DEF Finish
  <2> QED
    BY <1>1, <1>4, <1>6, <1>7, <1>8, <2>1, Finishing
<1>9. CASE Finish(r, Failed(ended)) /\ UNCHANGED owed
  <2> DEFINE after == Failed(ended)
  <2>1. PageOK(after) /\ after.last = <<>> /\ after.session = page.session
        /\ after.view = page.view
    BY <1>5, FailedPage
  <2> HIDE DEF after, ended
  <2>2. Finish(r, after)
    BY <1>9 DEF after
  <2> QED
    BY <1>1, <1>3, <1>8, <1>9, <2>1, <2>2 DEF SameView
<1>10. ASSUME NEW request \in {"idle", "insufficient"},
              NEW hint \in {NoQuestion} \cup (Presses \cap {"short"}),
              Finish(r, [ended EXCEPT !.request = request, !.hint = hint]), UNCHANGED owed
       PROVE  /\ PageInv' /\ Ends(r)
              /\ page'.session = page.session /\ page'.view = page.view
  <2> DEFINE after == [ended EXCEPT !.request = request, !.hint = hint]
  <2> HIDE DEF ended
  <2>1. PageOK(after) /\ after.last = <<>> /\ after.session = page.session
        /\ after.view = page.view
    BY <1>5 DEF PageOK, Page, RequestStates
  <2>2. Finish(r, after)
    BY <1>10
  <2> HIDE DEF after
  <2> QED
    BY <1>8, <1>10, <2>1, <2>2
<1>11. CASE /\ owed' = owed \cup {q}
            /\ LET after == [ended EXCEPT !.request = "idle", !.hint = q] IN
               IF MayOpen(after)
               THEN Send(r, "open", "transition", "open", q, Opening(after))
               ELSE Finish(r, after)
  <2> DEFINE after == [ended EXCEPT !.request = "idle", !.hint = q]
  <2> HIDE DEF ended, q
  <2>1. PageOK(after) /\ after.last = <<>> /\ after.session = page.session
        /\ after.view = page.view /\ after.request = "idle" /\ after.app = "ready"
        /\ after.timers = 0 /\ ~after.freeOpen
    BY <1>2, <1>5 DEF PageOK, Page, RequestStates
  <2>2. MayOpen(after)
    BY <1>2, <2>1 DEF MayOpen
  <2>3. Send(r, "open", "transition", "open", q, Opening(after))
    BY <1>11, <2>2
  <2> HIDE DEF after
  <2> DEFINE opening == Opening(after)
  <2>4. /\ PageOK(opening) /\ opening.last = <<>> /\ opening.session = page.session
        /\ opening.view = page.view /\ opening.request = "loading" /\ opening.app = "ready"
        /\ opening.timers = 0
    BY <2>1 DEF Opening, Waiting, PageOK, Page, RequestStates
  <2>5. /\ page' = opening /\ Start(r, "transition", opening.session, "open", q)
        /\ call' = [call EXCEPT ![r] = "open"]
        /\ UNCHANGED <<journeys, created, lock, restarts>>
    BY <2>3 DEF Send
  <2> HIDE DEF opening
  <2>6. /\ PageInv' /\ Sends(r, "open")
        /\ Starts(r, "transition", page'.session, "open", q)
    <3>1. /\ PageOK(page') /\ page'.last = <<>> /\ page'.session = page.session
          /\ page'.request = "loading" /\ page'.app = "ready" /\ page'.timers = 0
      BY <2>4, <2>5
    <3>2. /\ Start(r, "transition", page'.session, "open", q)
          /\ page'.session \in SessionIds \cup {NoSession} /\ q \in Questions \cup {NoQuestion}
      BY <1>1, <1>2, <2>4, <2>5 DEF Page, PageOK
    <3>3. saved' = page'.session /\ page'.session # NoSession
      BY <1>2, <1>6, <3>1
    <3> QED
      BY <1>1, <1>6, <1>7, <2>5, <3>1, <3>2, <3>3, Sending
         DEF Calls, Kinds, Actions, Starting
  <2> QED
    BY <1>1, <1>3, <1>11, <2>4, <2>5, <2>6 DEF Starts, SameView, q
<1> QED
  BY <1>1, <1>3, <1>9, <1>10, <1>11 DEF PieceReply, SameView

LEMMA FreeReplyPage ==
  ASSUME Patient, PageInv, NEW r \in Requests, FreeReply(r)
  PROVE  /\ PageInv' /\ Ends(r) /\ Outstanding = {r} /\ call[r] = "free" /\ SameView
         /\ owed' = owed
<1>1. /\ Outstanding = {r} /\ Only(r) /\ pc[r] = "done" /\ call[r] = "free" /\ PageOK(page)
      /\ page.session # NoSession => saved = page.session
  BY ArrivedAlone DEF FreeReply, Calls
<1>2. PICK request \in {"success", "insufficient", "error"} :
        Finish(r, [page EXCEPT !.last = <<>>, !.request = request])
  BY DEF FreeReply
<1> DEFINE after == [page EXCEPT !.last = <<>>, !.request = request]
<1>3. PageOK(after) /\ after.last = <<>> /\ after.session = page.session
      /\ after.view = page.view
  BY <1>1 DEF PageOK, Page, RequestStates
<1>4. Finish(r, after)
  BY <1>2
<1> HIDE DEF after
<1>5. page' = after /\ UNCHANGED <<saved, seen, owed>>
  BY <1>4 DEF Finish, FreeReply
<1>6. saved' \in SessionIds \cup {NoSession} /\ lost' \in Nat /\ reloads' \in Nat
      /\ seen' \subseteq Pieces /\ owed' \subseteq Questions
  BY DEF FreeReply, PageInv, ClientType
<1>7. pc[r] \notin Locked
  BY <1>1 DEF Locked
<1> QED
  BY <1>1, <1>3, <1>4, <1>5, <1>6, <1>7, Finishing DEF SameView

\* What a reply with the session of the page in it changes.
Renders(r) ==
  IF Succeeded(r)
  THEN page'.view = Rendered(req[r].view) /\ seen' = seen \cup ({req[r].view.piece} \cap Pieces)
  ELSE page'.view = page.view /\ seen' = seen

LEMMA ActionReplyPage ==
  ASSUME Patient, PageInv, NEW r \in Requests, ActionReply(r)
  PROVE  /\ PageInv' /\ Ends(r) /\ Outstanding = {r} /\ call[r] = "action" /\ pc[r] = "done"
         /\ UNCHANGED <<saved, owed>> /\ page'.session = page.session /\ Renders(r)
<1>1. /\ Outstanding = {r} /\ Only(r) /\ pc[r] = "done" /\ call[r] = "action" /\ PageOK(page)
      /\ page.last = <<>> /\ page.session # NoSession
      /\ saved = page.session
  BY ArrivedAlone DEF ActionReply, Calls, CallOK, Starting
<1>2. /\ saved' \in SessionIds \cup {NoSession} /\ lost' \in Nat /\ reloads' \in Nat
      /\ owed' \subseteq Questions /\ UNCHANGED <<saved, owed>>
  BY DEF ActionReply, PageInv, ClientType
<1>3. pc[r] \notin Locked
  BY <1>1 DEF Locked
<1>4. CASE Succeeded(r)
  <2> DEFINE shown == Shown(r, "success")
             more == shown.timers + 1
             after == [shown EXCEPT !.hint = NoQuestion, !.timers = more]
  <2>1. /\ PageOK(shown) /\ shown.session = page.session /\ shown.app = page.app
        /\ shown.last = page.last /\ shown.view = Rendered(req[r].view)
    BY ShownPage DEF RequestStates
  <2>2. Finish(r, after)
    BY <1>4 DEF ActionReply
  <2>3. more \in Nat /\ shown.app = "ready"
    BY <1>1, <2>1 DEF PageOK, Page
  <2>4. seen' = seen \cup ({req[r].view.piece} \cap Pieces) /\ seen' \subseteq Pieces
    BY <1>4 DEF ActionReply, Show, PageInv, ClientType
  <2> HIDE DEF more, shown
  <2>5. PageOK(after) /\ after.last = <<>> /\ after.session = page.session
        /\ after.view = Rendered(req[r].view)
    BY <1>1, <2>1, <2>3 DEF PageOK, Page
  <2> HIDE DEF after
  <2>6. page' = after /\ UNCHANGED journeys
    BY <2>2 DEF Finish
  <2> QED
    BY <1>1, <1>2, <1>3, <1>4, <2>2, <2>4, <2>5, <2>6, Finishing DEF Renders
<1>5. CASE ~Succeeded(r)
  <2> DEFINE after == Failed(page)
  <2>1. PageOK(after) /\ after.last = <<>> /\ after.session = page.session
        /\ after.view = page.view
    BY <1>1, FailedPage
  <2>2. Finish(r, after) /\ UNCHANGED seen
    BY <1>5 DEF ActionReply
  <2> HIDE DEF after
  <2>3. page' = after /\ seen' \subseteq Pieces
    BY <2>2 DEF Finish, PageInv, ClientType
  <2> QED
    BY <1>1, <1>2, <1>3, <1>5, <2>1, <2>2, <2>3, Finishing DEF Renders
<1> QED
  BY <1>4, <1>5

LEMMA CloseReplyPage ==
  ASSUME Patient, PageInv, NEW r \in Requests, CloseReply(r)
  PROVE  /\ PageInv' /\ Ends(r) /\ Outstanding = {r} /\ call[r] = "close" /\ pc[r] = "done"
         /\ UNCHANGED <<saved, owed>> /\ page'.session = page.session /\ Renders(r)
<1>1. /\ Outstanding = {r} /\ Only(r) /\ pc[r] = "done" /\ call[r] = "close" /\ PageOK(page)
      /\ page.last = <<>> /\ page.session # NoSession /\ saved = page.session
  BY ArrivedAlone DEF CloseReply, Calls, CallOK, Starting
<1>2. /\ saved' \in SessionIds \cup {NoSession} /\ lost' \in Nat /\ reloads' \in Nat
      /\ owed' \subseteq Questions /\ UNCHANGED <<saved, owed>>
  BY DEF CloseReply, PageInv, ClientType
<1>3. pc[r] \notin Locked
  BY <1>1 DEF Locked
<1>4. CASE Succeeded(r)
  <2> DEFINE shown == Shown(r, "idle")
             after == [shown EXCEPT !.freeOpen = FALSE]
  <2>1. /\ PageOK(shown) /\ shown.session = page.session /\ shown.app = page.app
        /\ shown.last = page.last /\ shown.view = Rendered(req[r].view)
    BY ShownPage DEF RequestStates
  <2>2. Finish(r, after)
    BY <1>4 DEF CloseReply
  <2>4. seen' = seen \cup ({req[r].view.piece} \cap Pieces) /\ seen' \subseteq Pieces
    BY <1>4 DEF CloseReply, Show, PageInv, ClientType
  <2> HIDE DEF shown
  <2>5. PageOK(after) /\ after.last = <<>> /\ after.session = page.session
        /\ after.view = Rendered(req[r].view)
    BY <1>1, <2>1 DEF PageOK, Page
  <2> HIDE DEF after
  <2>6. page' = after /\ UNCHANGED journeys
    BY <2>2 DEF Finish
  <2> QED
    BY <1>1, <1>2, <1>3, <1>4, <2>2, <2>4, <2>5, <2>6, Finishing DEF Renders
<1>5. CASE ~Succeeded(r)
  <2> DEFINE after == Failed(page)
  <2>1. PageOK(after) /\ after.last = <<>> /\ after.session = page.session
        /\ after.view = page.view
    BY <1>1, FailedPage
  <2>2. Finish(r, after) /\ UNCHANGED seen
    BY <1>5 DEF CloseReply
  <2> HIDE DEF after
  <2>3. page' = after /\ seen' \subseteq Pieces
    BY <2>2 DEF Finish, PageInv, ClientType
  <2> QED
    BY <1>1, <1>2, <1>3, <1>5, <2>1, <2>2, <2>3, Finishing DEF Renders
<1> QED
  BY <1>4, <1>5

LEMMA OpenReplyPage ==
  ASSUME Patient, PageInv, NEW r \in Requests, OpenReply(r)
  PROVE  /\ PageInv' /\ Outstanding = {r} /\ call[r] = "open" /\ pc[r] = "done"
         /\ UNCHANGED saved /\ page'.session = page.session /\ Renders(r)
         /\ Ends(r) \/ Sends(r, "free")
         /\ Succeeded(r) => owed' = owed \ {req[r].question}
<1> DEFINE q == req[r].question
           after == Shown(r, "idle")
<1>1. /\ Outstanding = {r} /\ Only(r) /\ pc[r] = "done" /\ call[r] = "open" /\ PageOK(page)
      /\ page.last = <<>> /\ page.session # NoSession /\ saved = page.session
      /\ req[r] \in Request /\ page.timers = 0 /\ page.app = "ready"
  BY ArrivedAlone DEF OpenReply, Calls, CallOK, Starting, PageOK
<1>2. /\ saved' \in SessionIds \cup {NoSession} /\ lost' \in Nat /\ reloads' \in Nat
      /\ UNCHANGED saved
  BY DEF OpenReply, PageInv, ClientType
<1>3. pc[r] \notin Locked
  BY <1>1 DEF Locked
<1>4. CASE ~Succeeded(r)
  <2> DEFINE failed == Failed(page)
  <2>1. PageOK(failed) /\ failed.last = <<>> /\ failed.session = page.session
        /\ failed.view = page.view
    BY <1>1, FailedPage
  <2>2. Finish(r, failed) /\ UNCHANGED <<seen, owed>>
    BY <1>4 DEF OpenReply
  <2> HIDE DEF failed
  <2>3. page' = failed /\ seen' \subseteq Pieces /\ owed' \subseteq Questions
    BY <2>2 DEF Finish, PageInv, ClientType
  <2> QED
    BY <1>1, <1>2, <1>3, <1>4, <2>1, <2>2, <2>3, Finishing DEF Renders
<1>5. CASE Succeeded(r)
  <2>1. /\ PageOK(after) /\ after.session = page.session /\ after.app = page.app
        /\ after.last = <<>> /\ after.view = Rendered(req[r].view) /\ after.timers = 0
    BY <1>1, ShownPage DEF RequestStates
  <2>2. seen' = seen \cup ({req[r].view.piece} \cap Pieces) /\ seen' \subseteq Pieces
    BY <1>5 DEF OpenReply, Show, PageInv, ClientType
  <2>3. q \in Questions \cup {NoQuestion} /\ owed \subseteq Questions
        /\ NoQuestion \notin Questions
    BY <1>1, JourneyAssumption DEF Request, PageInv, ClientType
  <2>4. CASE q # NoQuestion
    <3> DEFINE asking == Waiting([after EXCEPT !.last = <<"free", q>>])
    <3>1. after.last # <<"free", q>>
      BY <2>1, <2>3, <2>4, CallFacts
    <3>2. Send(r, "free", "chat", "other", q, asking) /\ owed' = owed \ {q}
      BY <1>5, <2>4, <3>1 DEF OpenReply
    <3> HIDE DEF q, after
    <3>3. /\ PageOK(asking) /\ asking.session = page.session /\ asking.app = "ready"
          /\ asking.view = Rendered(req[r].view) /\ asking.timers = 0
          /\ asking.request = "loading"
      BY <1>1, <2>1, <2>3, <2>4 DEF Waiting, PageOK, Page, RequestStates
    <3>4. /\ page' = asking /\ Start(r, "chat", asking.session, "other", q)
          /\ call' = [call EXCEPT ![r] = "free"]
          /\ UNCHANGED <<journeys, created, lock, restarts>>
      BY <3>2 DEF Send
    <3> HIDE DEF asking
    <3>5. /\ PageOK(page') /\ page'.session = page.session /\ page'.app = "ready"
          /\ page'.timers = 0 /\ page'.request = "loading" /\ page'.view = Rendered(req[r].view)
          /\ Start(r, "chat", page'.session, "other", q)
      BY <3>3, <3>4
    <3>6. saved' = page'.session /\ page'.session # NoSession
          /\ page'.session \in SessionIds \cup {NoSession} /\ q \in Questions
          /\ owed' \subseteq Questions
      BY <1>1, <1>2, <2>3, <2>4, <3>2, <3>5
    <3>7. PageInv' /\ Sends(r, "free")
      BY <1>1, <1>2, <2>2, <3>4, <3>5, <3>6, Sending DEF Calls, Kinds, Actions, Starting
    <3> QED
      BY <1>1, <1>2, <1>5, <2>2, <3>2, <3>4, <3>5, <3>7 DEF Renders, q
  <2>5. CASE q = NoQuestion
    <3>1. Finish(r, after) /\ UNCHANGED owed
      BY <1>5, <2>5 DEF OpenReply
    <3> HIDE DEF after
    <3>2. page' = after /\ UNCHANGED journeys /\ owed' = owed \ {q} /\ owed' \subseteq Questions
      BY <2>3, <2>5, <3>1 DEF Finish
    <3> QED
      BY <1>1, <1>2, <1>3, <1>5, <2>1, <2>2, <3>1, <3>2, Finishing DEF Renders
  <2> QED
    BY <2>4, <2>5
<1> QED
  BY <1>4, <1>5

-----------------------------------------------------------------------------
(* Losses *)

LEMMA AfterFailurePage ==
  ASSUME PageInv, NEW r \in Requests, Outstanding = {r}
  PROVE  /\ PageOK(AfterFailure(r)) /\ AfterFailure(r).last = <<>>
         /\ AfterFailure(r).session # NoSession => saved = AfterFailure(r).session
         /\ AfterFailure(r).session = page.session
<1>1. PageOK(page) /\ (page.session # NoSession => saved = page.session)
      /\ CallOK(call[r], pc[r], req[r])
      /\ (call[r] \notin {"piece", "free"} => page.last = <<>>)
  BY PageGood DEF PageInv, Flow, Sent
<1>2. CASE call[r] \in {"piece", "free"}
  <2> DEFINE ended == [page EXCEPT !.last = <<>>]
  <2>1. PageOK(ended) /\ ended.last = <<>> /\ ended.session = page.session
    BY <1>1 DEF PageOK, Page
  <2>2. AfterFailure(r) = Failed(ended)
    BY <1>2 DEF AfterFailure
  <2> HIDE DEF ended
  <2> QED
    BY <1>1, <2>1, <2>2, FailedPage
<1>3. CASE call[r] = "create"
  <2>1. AfterFailure(r) = Disconnected(page)
    BY <1>3 DEF AfterFailure
  <2>2. page.session = NoSession /\ ~page.freeOpen /\ page.timers = 0 /\ page.last = <<>>
    BY <1>1, <1>3 DEF CallOK, Starting, PageInv, Flow
  <2> QED
    BY <1>1, <2>1, <2>2 DEF Disconnected, PageOK, Page, RequestStates
<1>4. CASE call[r] \notin {"piece", "free", "create"}
  <2>1. AfterFailure(r) = Failed(page)
    BY <1>4 DEF AfterFailure
  <2> QED
    BY <1>1, <1>4, <2>1, FailedPage
<1> QED
  BY <1>2, <1>3, <1>4

LEMMA LoseRequestPage ==
  ASSUME Patient, PageInv, NEW r \in Requests, LoseRequest(r)
  PROVE  /\ PageInv' /\ Outstanding' = {} /\ lost' = lost + 1
         /\ UNCHANGED <<journeys, restarts>> /\ page'.session = page.session
<1>1. Outstanding = {r} /\ Only(r)
  BY DEF LoseRequest, Outstanding, Only, PageInv, Flow
<1>2. lost' = lost + 1 /\ UNCHANGED <<saved, reloads, seen, owed>>
  BY DEF LoseRequest
<1>3. /\ saved' \in SessionIds \cup {NoSession} /\ lost' \in Nat /\ reloads' \in Nat
      /\ seen' \subseteq Pieces /\ owed' \subseteq Questions
  BY <1>2 DEF PageInv, ClientType
<1> DEFINE after == AfterFailure(r)
<1>4. /\ PageOK(after) /\ after.last = <<>>
      /\ after.session # NoSession => saved' = after.session
      /\ after.session = page.session
  BY <1>1, <1>2, AfterFailurePage
<1> HIDE DEF after
<1>5. CASE pc[r] \in {"find", "create", "done"} /\ Finish(r, after)
  <2>1. pc[r] \notin Locked
    BY <1>5 DEF Locked
  <2> QED
    BY <1>1, <1>2, <1>3, <1>4, <1>5, <2>1, Finishing DEF Ends, Finish
<1>6. CASE page' = after /\ call' = [call EXCEPT ![r] = "none"] /\ UNCHANGED serverVars
  <2>1. /\ \A q \in Requests : call'[q] = "none"
        /\ call' \in [Requests -> Calls]
    BY <1>1, <1>6 DEF Outstanding, PageInv, ClientType, Calls
  <2> QED
    BY <1>2, <1>3, <1>4, <1>6, <2>1, Resting DEF serverVars
<1> QED
  BY <1>5, <1>6 DEF LoseRequest, after

LEMMA LoseRestorePage ==
  ASSUME Patient, PageInv, NEW r \in Requests, NEW fresh \in Requests, LoseRestore(r, fresh)
  PROVE  PageInv' /\ Sends(fresh, "create") /\ lost' = lost + 1 /\ page' = page
<1>1. /\ call[r] = "restore" /\ call[fresh] = "none" /\ pc[fresh] \in {"idle", "done"}
      /\ lost' = lost + 1 /\ Start(fresh, "create", NoSession, "other", NoQuestion)
      /\ call' = [call EXCEPT ![r] = "none", ![fresh] = "create"]
      /\ UNCHANGED <<page, journeys, created, lock, restarts, saved, reloads, seen, owed>>
  BY DEF LoseRestore, Free
<1>2. Inv' /\ OthersStay(fresh) /\ Starts(fresh, "create", NoSession, "other", NoQuestion)
  <2>1. Inv /\ "create" \in Kinds /\ "other" \in Actions
    BY DEF PageInv, Kinds, Actions
  <2> QED
    BY <1>1, <2>1, StartKeeps
<1>3. Outstanding = {r} /\ CallOK(call[r], pc[r], req[r]) /\ page.last = <<>>
  BY <1>1 DEF PageInv, Flow, Sent, Outstanding
<1>4. call'[fresh] = "create" /\ \A q \in Requests : q # fresh => call'[q] = "none"
  BY <1>1, <1>3 DEF Outstanding, PageInv, ClientType
<1>5. Outstanding' = {fresh}
  BY <1>4 DEF Outstanding
<1>6. ClientType'
  BY <1>1 DEF PageInv, ClientType, Calls
<1>7. Flow'
  BY <1>1, <1>3, <1>5 DEF PageInv, Flow
<1>8. CallOK(call[fresh], pc[fresh], req[fresh])'
  BY <1>1, <1>2, <1>3, <1>4
     DEF CallOK, Route, SentAs, Starting, Starts
<1>9. Sent'
  BY <1>5, <1>8 DEF Sent
<1> QED
  BY <1>1, <1>2, <1>4, <1>5, <1>6, <1>7, <1>9 DEF PageInv, Sends, Starts

-----------------------------------------------------------------------------
(* The steps of a handler *)

\* A handler keeps what it was asked for, and touches one journey at most.
Moved(r) ==
  /\ OthersStay(r)
  /\ req'[r].kind = req[r].kind /\ req'[r].action = req[r].action
  /\ req'[r].question = req[r].question
  /\ pc[r] # "create" => req'[r].sid = req[r].sid
  /\ \A s \in SessionIds : s # req'[r].sid => journeys'[s] = journeys[s]

\* The same, of a handler that reads.
Asks(q, p) ==
  p.kind = q.kind /\ p.action = q.action /\ p.question = q.question /\ p.sid = q.sid

LEMMA ReadingMoves ==
  ASSUME Inv, NEW r \in Requests, NEW l, NEW q, Goto(r, l), SetRequest(r, q),
         UNCHANGED journeys, Asks(req[r], q)
  PROVE  Moved(r) /\ pc'[r] = l /\ req'[r] = q
<1>1. StepOf(r) /\ pc'[r] = l /\ req'[r] = q
  BY StepReading
<1> QED
  BY <1>1 DEF StepOf, Moved, OthersStay, Asks

LEMMA AnswerMoves ==
  ASSUME Inv, NEW r \in Requests, NEW outcome, Answer(r, outcome), UNCHANGED journeys
  PROVE  Moved(r) /\ pc'[r] = "done" /\ req'[r].outcome = outcome
<1> DEFINE q == [req[r] EXCEPT !.outcome = outcome]
<1>1. Goto(r, "done") /\ SetRequest(r, q) /\ Asks(req[r], q) /\ q.outcome = outcome
  BY DEF Answer, Asks, Inv, TypeOK, Request
<1> HIDE DEF q
<1> QED
  BY <1>1, ReadingMoves

\* A handler that only goes on.
LEMMA GotoMoves ==
  ASSUME Inv, NEW r \in Requests, NEW l, Goto(r, l), UNCHANGED <<journeys, req>>
  PROVE  Moved(r) /\ pc'[r] = l /\ req'[r] = req[r]
<1>1. SetRequest(r, req[r]) /\ Asks(req[r], req[r])
  BY DEF SetRequest, Asks, Inv, TypeOK
<1> QED
  BY <1>1, ReadingMoves

\* A handler that assigns to the journey of its session.
LEMMA WritingMoves ==
  ASSUME Inv, NEW r \in Requests, pc[r] \in Serving, NEW l, NEW q, NEW j,
         Goto(r, l), SetRequest(r, q), SetState(r, j), Asks(req[r], q)
  PROVE  /\ Moved(r) /\ pc'[r] = l /\ req'[r] = q
         /\ journeys'[req[r].sid] = j
<1>1. req[r].sid \in SessionIds
  BY DEF Inv, ThreadInv, ThreadOK
<1>2. journeys' = [journeys EXCEPT ![req[r].sid] = j]
  BY DEF SetState
<1>3. pc' = [pc EXCEPT ![r] = l] /\ req' = [req EXCEPT ![r] = q]
  BY DEF Goto, SetRequest
<1>4. pc \in [Requests -> Labels] /\ req \in [Requests -> Request]
      /\ journeys \in [SessionIds -> Journey \cup {NoJourney}]
  BY DEF Inv, TypeOK
<1> QED
  BY <1>1, <1>2, <1>3, <1>4 DEF Moved, OthersStay, Asks

LEMMA CreateJourneyMoves ==
  ASSUME Inv, NEW r \in Requests, CreateJourney(r)
  PROVE  /\ Moved(r) /\ pc[r] = "create" /\ pc'[r] = "view"
         /\ req'[r].sid \in SessionIds /\ journeys'[req'[r].sid] = FreshJourney
<1>1. PICK s \in SessionIds : /\ journeys' = [journeys EXCEPT ![s] = FreshJourney]
                              /\ SetRequest(r, [req[r] EXCEPT !.sid = s])
  BY DEF CreateJourney
<1> DEFINE q == [req[r] EXCEPT !.sid = s]
<1>2. q.sid = s /\ q.kind = req[r].kind /\ q.action = req[r].action
      /\ q.question = req[r].question
  BY DEF Inv, TypeOK, Request
<1> HIDE DEF q
<1>3. pc' = [pc EXCEPT ![r] = "view"] /\ req' = [req EXCEPT ![r] = q] /\ pc[r] = "create"
  BY <1>1 DEF CreateJourney, Goto, SetRequest, q
<1>4. pc \in [Requests -> Labels] /\ req \in [Requests -> Request]
      /\ journeys \in [SessionIds -> Journey \cup {NoJourney}]
  BY DEF Inv, TypeOK
<1> QED
  BY <1>1, <1>2, <1>3, <1>4 DEF Moved, OthersStay

LEMMA FindJourneyMoves ==
  ASSUME Inv, NEW r \in Requests, FindJourney(r)
  PROVE  /\ Moved(r) /\ pc[r] = "find" /\ UNCHANGED journeys
         /\ \/ pc'[r] = "done" /\ req'[r].outcome = "missing" /\ ~Known(req[r].sid)
            \/ pc'[r] = "done" /\ req'[r].outcome = "refused" /\ req[r].kind = "switch"
            \/ pc'[r] = AfterFind[req[r].kind] /\ req'[r] = req[r]
<1>1. pc[r] = "find" /\ UNCHANGED journeys
  BY DEF FindJourney
<1>2. CASE ~Known(req[r].sid)
  <2>1. Answer(r, "missing")
    BY <1>2 DEF FindJourney
  <2> QED
    BY <1>1, <1>2, <2>1, AnswerMoves
<1>3. CASE Known(req[r].sid) /\ req[r].kind = "switch" /\ Answer(r, "refused")
  BY <1>1, <1>3, AnswerMoves
<1>4. CASE Known(req[r].sid) /\ Goto(r, AfterFind[req[r].kind]) /\ UNCHANGED req
  BY <1>1, <1>4, GotoMoves
<1> QED
  BY <1>2, <1>3, <1>4 DEF FindJourney

LEMMA ReadBeforeMoves ==
  ASSUME Inv, NEW r \in Requests, ReadBefore(r)
  PROVE  /\ Moved(r) /\ pc[r] \in {"before", "before2"} /\ pc'[r] \in {"before2", "lock"}
         /\ UNCHANGED journeys
<1>1. pc[r] \in {"before", "before2"} /\ UNCHANGED journeys
  BY DEF ReadBefore
<1>2. CASE pc[r] = "before"
  <2> DEFINE q == [req[r] EXCEPT !.before.piece = StateOf(r).piece]
  <2>1. Goto(r, "before2") /\ SetRequest(r, q)
    BY <1>2 DEF ReadBefore
  <2>2. Asks(req[r], q)
    BY DEF Asks, Inv, TypeOK, Request
  <2> HIDE DEF q
  <2> QED
    BY <1>1, <2>1, <2>2, ReadingMoves
<1>3. CASE pc[r] = "before2"
  <2> DEFINE q == [req[r] EXCEPT !.before.completed = StateOf(r).completed]
  <2>1. Goto(r, "lock") /\ SetRequest(r, q)
    BY <1>3 DEF ReadBefore
  <2>2. Asks(req[r], q)
    BY DEF Asks, Inv, TypeOK, Request
  <2> HIDE DEF q
  <2> QED
    BY <1>1, <2>1, <2>2, ReadingMoves
<1> QED
  BY <1>1, <1>2, <1>3

LEMMA TakeLockMoves ==
  ASSUME Inv, NEW r \in Requests, TakeLock(r)
  PROVE  /\ Moved(r) /\ pc[r] = "lock" /\ UNCHANGED journeys
         /\ \/ pc'[r] = "done" /\ req'[r].outcome = "refused" /\ req[r].action = "other"
            \/ pc'[r] = (IF req[r].action = "next" THEN "complete" ELSE "apply")
<1>1. pc[r] = "lock" /\ UNCHANGED journeys
  BY DEF TakeLock
<1>2. CASE req[r].action = "other"
  <2>1. Answer(r, "refused")
    BY <1>2 DEF TakeLock
  <2> QED
    BY <1>1, <1>2, <2>1, AnswerMoves
<1>3. CASE req[r].action # "other"
  <2> DEFINE l == IF req[r].action = "next" THEN "complete" ELSE "apply"
  <2>1. Goto(r, l) /\ UNCHANGED req
    BY <1>3 DEF TakeLock
  <2> HIDE DEF l
  <2>2. Moved(r) /\ pc'[r] = l
    BY <1>1, <2>1, GotoMoves
  <2> QED
    BY <1>1, <2>2 DEF l
<1> QED
  BY <1>2, <1>3

LEMMA ApplyActionMoves ==
  ASSUME Inv, NEW r \in Requests, ApplyAction(r)
  PROVE  /\ Moved(r) /\ pc[r] = "apply" /\ pc'[r] = NextLabel(r)
         /\ journeys'[req[r].sid].completed = journeys[req[r].sid].completed
<1> DEFINE j == Effect(StateOf(r), req[r].action, req[r].question)
<1>1. pc[r] = "apply" /\ SetState(r, j) /\ Goto(r, NextLabel(r)) /\ UNCHANGED req
  BY DEF ApplyAction, Unlock
<1>2. pc[r] \in Serving /\ StateOf(r) \in Journey
      /\ req[r].action \in Actions \ {"next", "other"}
      /\ req[r].question \in Questions \cup {NoQuestion}
  BY <1>1 DEF Inv, TypeOK, ThreadInv, ThreadOK, Serving, Labels, StateOf, Request
<1>3. j.completed = StateOf(r).completed
  BY <1>2, EffectFacts
<1> HIDE DEF j
<1>4. SetRequest(r, req[r]) /\ Asks(req[r], req[r])
  BY <1>1 DEF SetRequest, Asks, Inv, TypeOK
<1>5. Moved(r) /\ pc'[r] = NextLabel(r) /\ journeys'[req[r].sid] = j
  BY <1>1, <1>2, <1>4, WritingMoves
<1> QED
  BY <1>1, <1>3, <1>5 DEF StateOf

LEMMA CompletePieceMoves ==
  ASSUME Inv, NEW r \in Requests, CompletePiece(r)
  PROVE  /\ Moved(r) /\ pc[r] = "complete"
         /\ \/ UNCHANGED journeys /\ pc'[r] = NextLabel(r)
            \/ /\ pc'[r] = "advance" /\ journeys[req[r].sid].piece # Finished
               /\ journeys'[req[r].sid].completed
                    = journeys[req[r].sid].completed \cup {journeys[req[r].sid].piece}
<1>1. pc[r] = "complete" /\ pc[r] \in Serving
  BY DEF CompletePiece, Serving, Labels
<1>2. CASE StateOf(r).piece = Finished
  <2>1. Goto(r, NextLabel(r)) /\ UNCHANGED <<journeys, req>>
    BY <1>2 DEF CompletePiece, Unlock
  <2> QED
    BY <1>1, <2>1, GotoMoves
<1>3. CASE StateOf(r).piece # Finished
  <2> DEFINE j == [StateOf(r) EXCEPT !.completed = @ \cup {StateOf(r).piece}]
             q == [req[r] EXCEPT !.own = TRUE]
  <2>1. SetState(r, j) /\ SetRequest(r, q) /\ Goto(r, "advance")
    BY <1>3 DEF CompletePiece
  <2>2. Asks(req[r], q)
    BY DEF Asks, Inv, TypeOK, Request
  <2>3. j.completed = StateOf(r).completed \cup {StateOf(r).piece}
    BY <1>1 DEF Inv, ThreadInv, ThreadOK, StateOf, Journey
  <2> HIDE DEF j, q
  <2>4. Moved(r) /\ pc'[r] = "advance" /\ journeys'[req[r].sid] = j
    BY <1>1, <2>1, <2>2, WritingMoves
  <2> QED
    BY <1>1, <1>3, <2>3, <2>4 DEF StateOf
<1> QED
  BY <1>2, <1>3

LEMMA AdvancePieceMoves ==
  ASSUME Inv, NEW r \in Requests, AdvancePiece(r)
  PROVE  /\ Moved(r) /\ pc[r] = "advance" /\ pc'[r] = "announce"
         /\ journeys'[req[r].sid].completed = journeys[req[r].sid].completed
<1> DEFINE j == [StateOf(r) EXCEPT !.piece = @ + 1]
<1>1. pc[r] = "advance" /\ pc[r] \in Serving /\ SetState(r, j) /\ Goto(r, "announce")
      /\ UNCHANGED req
  BY DEF AdvancePiece, Serving, Labels
<1>2. j.completed = StateOf(r).completed
  BY <1>1 DEF Inv, ThreadInv, ThreadOK, StateOf, Journey
<1> HIDE DEF j
<1>3. SetRequest(r, req[r]) /\ Asks(req[r], req[r])
  BY <1>1 DEF SetRequest, Asks, Inv, TypeOK
<1>4. Moved(r) /\ pc'[r] = "announce" /\ journeys'[req[r].sid] = j
  BY <1>1, <1>3, WritingMoves
<1> QED
  BY <1>1, <1>2, <1>4 DEF StateOf

LEMMA AnnouncePieceMoves ==
  ASSUME Inv, NEW r \in Requests, AnnouncePiece(r)
  PROVE  /\ Moved(r) /\ pc[r] = "announce" /\ pc'[r] = NextLabel(r)
         /\ journeys'[req[r].sid].completed = journeys[req[r].sid].completed
<1> DEFINE ui == IF StateOf(r).piece = Finished THEN "hidden" ELSE "prompt"
           j == [StateOf(r) EXCEPT !.step = StateOf(r).piece, !.ui = ui]
<1>1. pc[r] = "announce" /\ pc[r] \in Serving /\ SetState(r, j) /\ Goto(r, NextLabel(r))
      /\ UNCHANGED req
  BY DEF AnnouncePiece, Unlock, Serving, Labels
<1>2. j.completed = StateOf(r).completed
  BY <1>1 DEF Inv, ThreadInv, ThreadOK, StateOf, Journey
<1> HIDE DEF j
<1>3. SetRequest(r, req[r]) /\ Asks(req[r], req[r])
  BY <1>1 DEF SetRequest, Asks, Inv, TypeOK
<1>4. Moved(r) /\ pc'[r] = NextLabel(r) /\ journeys'[req[r].sid] = j
  BY <1>1, <1>3, WritingMoves
<1> QED
  BY <1>1, <1>2, <1>4 DEF StateOf

LEMMA CompareMoves ==
  ASSUME Inv, NEW r \in Requests, Compare(r)
  PROVE  Moved(r) /\ pc[r] = "compare" /\ pc'[r] = "view" /\ UNCHANGED journeys
<1> DEFINE q == [req[r] EXCEPT !.changed =
       \/ req[r].before.piece # StateOf(r).piece
       \/ req[r].before.completed # StateOf(r).completed]
<1>1. pc[r] = "compare" /\ Goto(r, "view") /\ SetRequest(r, q) /\ UNCHANGED journeys
  BY DEF Compare
<1>2. Asks(req[r], q)
  BY DEF Asks, Inv, TypeOK, Request
<1> HIDE DEF q
<1> QED
  BY <1>1, <1>2, ReadingMoves

LEMMA ReadViewMoves ==
  ASSUME Inv, NEW r \in Requests, ReadView(r)
  PROVE  /\ Moved(r) /\ UNCHANGED journeys /\ req[r].sid \in SessionIds
         /\ journeys[req[r].sid] \in Journey
         /\ \/ /\ pc[r] = "view" /\ pc'[r] = "view2"
               /\ req'[r].view = [StateOf(r) EXCEPT !.completed = {}]
            \/ /\ pc[r] = "view2" /\ pc'[r] = "view3"
               /\ req'[r].view = [StateOf(r) EXCEPT !.piece = req[r].view.piece, !.completed = {}]
            \/ /\ pc[r] = "view3" /\ pc'[r] = "done" /\ req'[r].outcome = "ok"
               /\ req'[r].view = [req[r].view EXCEPT !.completed = StateOf(r).completed]
<1>1. pc[r] \in {"view", "view2", "view3"} /\ UNCHANGED journeys
  BY DEF ReadView
<1>2. req[r].sid \in SessionIds /\ journeys[req[r].sid] \in Journey /\ req[r] \in Request
  BY <1>1 DEF Inv, TypeOK, ThreadInv, ThreadOK, Serving, Labels
<1>3. CASE pc[r] = "view"
  <2> DEFINE v == [StateOf(r) EXCEPT !.completed = {}]
             q == [req[r] EXCEPT !.view = v]
  <2>1. Goto(r, "view2") /\ SetRequest(r, q)
    BY <1>3 DEF ReadView
  <2> HIDE DEF v
  <2>2. Asks(req[r], q) /\ q.view = v
    BY <1>2 DEF Asks, Request
  <2> HIDE DEF q
  <2>3. Moved(r) /\ pc'[r] = "view2" /\ req'[r] = q
    BY <1>1, <2>1, <2>2, ReadingMoves
  <2> QED
    BY <1>1, <1>2, <1>3, <2>2, <2>3 DEF v
<1>4. CASE pc[r] = "view2"
  <2> DEFINE v == [StateOf(r) EXCEPT !.piece = req[r].view.piece, !.completed = {}]
             q == [req[r] EXCEPT !.view = v]
  <2>1. Goto(r, "view3") /\ SetRequest(r, q)
    BY <1>4 DEF ReadView
  <2> HIDE DEF v
  <2>2. Asks(req[r], q) /\ q.view = v
    BY <1>2 DEF Asks, Request
  <2> HIDE DEF q
  <2>3. Moved(r) /\ pc'[r] = "view3" /\ req'[r] = q
    BY <1>1, <2>1, <2>2, ReadingMoves
  <2> QED
    BY <1>1, <1>2, <1>4, <2>2, <2>3 DEF v
<1>5. CASE pc[r] = "view3"
  <2> DEFINE v == [req[r].view EXCEPT !.completed = StateOf(r).completed]
             q == [req[r] EXCEPT !.view = v, !.outcome = "ok"]
  <2>1. q = [req[r] EXCEPT !.view.completed = StateOf(r).completed, !.outcome = "ok"]
    BY <1>2 DEF Request
  <2>2. Goto(r, "done") /\ SetRequest(r, q)
    BY <1>5, <2>1 DEF ReadView
  <2> HIDE DEF v
  <2>3. Asks(req[r], q) /\ q.view = v /\ q.outcome = "ok"
    BY <1>2 DEF Asks, Request
  <2> HIDE DEF q
  <2>4. Moved(r) /\ pc'[r] = "done" /\ req'[r] = q
    BY <1>1, <2>2, <2>3, ReadingMoves
  <2> QED
    BY <1>1, <1>2, <1>5, <2>3, <2>4 DEF v
<1> QED
  BY <1>1, <1>3, <1>4, <1>5

LEMMA ChatMoves ==
  ASSUME Inv, NEW r \in Requests, Chat(r)
  PROVE  /\ Moved(r) /\ pc[r] = "chat" /\ UNCHANGED journeys
         /\ \/ pc'[r] = "done" /\ req'[r].outcome = "failed"
            \/ pc'[r] = "merge"
<1>1. pc[r] = "chat" /\ UNCHANGED journeys
  BY DEF Chat
<1>2. CASE Answer(r, "failed")
  BY <1>1, <1>2, AnswerMoves
<1>3. ASSUME NEW tags \in SUBSET Tags,
             Goto(r, "merge"), SetRequest(r, [req[r] EXCEPT !.tags = tags])
      PROVE  Moved(r) /\ pc'[r] = "merge"
  <2> DEFINE q == [req[r] EXCEPT !.tags = tags]
  <2>1. Asks(req[r], q) /\ SetRequest(r, q)
    BY <1>3 DEF Asks, Inv, TypeOK, Request
  <2> HIDE DEF q
  <2> QED
    BY <1>1, <1>3, <2>1, ReadingMoves
<1> QED
  BY <1>1, <1>2, <1>3 DEF Chat

LEMMA MergeContextMoves ==
  ASSUME Inv, NEW r \in Requests, MergeContext(r)
  PROVE  Moved(r) /\ pc[r] = "merge" /\ pc'[r] = "store" /\ UNCHANGED journeys
<1> DEFINE q == [req[r] EXCEPT !.tags = @ \cup StateOf(r).context]
<1>1. pc[r] = "merge" /\ Goto(r, "store") /\ SetRequest(r, q) /\ UNCHANGED journeys
  BY DEF MergeContext
<1>2. Asks(req[r], q)
  BY DEF Asks, Inv, TypeOK, Request
<1> HIDE DEF q
<1> QED
  BY <1>1, <1>2, ReadingMoves

LEMMA StoreContextMoves ==
  ASSUME Inv, NEW r \in Requests, StoreContext(r)
  PROVE  /\ Moved(r) /\ pc[r] = "store" /\ pc'[r] = "done"
         /\ Rendered(journeys'[req[r].sid]) = Rendered(journeys[req[r].sid])
         /\ journeys'[req[r].sid].completed = journeys[req[r].sid].completed
         /\ req[r].sid \in SessionIds /\ journeys'[req[r].sid] \in Journey
<1> DEFINE j == [StateOf(r) EXCEPT !.context = req[r].tags]
           q == [req[r] EXCEPT !.outcome = "ok"]
<1>1. pc[r] = "store" /\ pc[r] \in Serving /\ Goto(r, "done") /\ SetRequest(r, q)
      /\ SetState(r, j)
  BY DEF StoreContext, Answer, Serving, Labels
<1>2. Asks(req[r], q)
  BY DEF Asks, Inv, TypeOK, Request
<1>3. j.completed = StateOf(r).completed /\ Rendered(j) = Rendered(StateOf(r))
  BY <1>1 DEF Inv, ThreadInv, ThreadOK, StateOf, Journey, Rendered
<1>5. j \in Journey /\ req[r].sid \in SessionIds
  BY <1>1 DEF Inv, TypeOK, ThreadInv, ThreadOK, StateOf, Journey, Request
<1> HIDE DEF j, q
<1>4. Moved(r) /\ pc'[r] = "done" /\ journeys'[req[r].sid] = j
  BY <1>1, <1>2, WritingMoves
<1> QED
  BY <1>1, <1>3, <1>4, <1>5 DEF StateOf

-----------------------------------------------------------------------------
(* The page while the server works *)

\* A step of a handler keeps what is said of the page, when it takes the
\* handler on along the route of the function that waits for it.
LEMMA OnRoute ==
  ASSUME PageInv, Inv', NEW r \in Requests, Moved(r), UNCHANGED clientVars,
         r \in Outstanding =>
           /\ pc'[r] \in Route[call[r]]
           /\ pc[r] = "create" => call[r] = "create"
           /\ call[r] \in Starting /\ pc'[r] = "done" /\ req'[r].outcome = "ok" =>
                req'[r].sid \in SessionIds
  PROVE  PageInv' /\ Outstanding' = Outstanding
<1>1. UNCHANGED <<page, saved, call, lost, reloads, seen, owed>>
  BY DEF clientVars
<1>2. Outstanding' = Outstanding /\ ClientType' /\ Flow'
  BY <1>1 DEF Outstanding, PageInv, ClientType, Flow
<1>3. ASSUME NEW q \in Outstanding' PROVE CallOK(call[q], pc[q], req[q])'
  <2>1. q \in Outstanding /\ q \in Requests /\ CallOK(call[q], pc[q], req[q])
    BY <1>2 DEF PageInv, Sent, Outstanding
  <2>2. CASE q # r
    <3>1. pc'[q] = pc[q] /\ req'[q] = req[q]
      BY <2>1, <2>2 DEF Moved, OthersStay
    <3> QED
      BY <1>1, <2>1, <3>1 DEF CallOK, SentAs
  <2>3. CASE q = r
    <3>1. SentAs(call[q], req[q])'
      BY <1>1, <2>1, <2>3 DEF CallOK, SentAs, Moved
    <3> QED
      BY <1>1, <2>1, <2>3, <3>1 DEF CallOK
  <2> QED
    BY <2>2, <2>3
<1> QED
  BY <1>2, <1>3 DEF PageInv, Sent

LEMMA ServePage ==
  ASSUME PageInv, NEW r \in Requests, Serve(r), UNCHANGED clientVars
  PROVE  PageInv' /\ Outstanding' = Outstanding
<1>0. Inv /\ Inv'
  BY StepInv DEF PageInv, Next, ServerNext
<1>1. r \in Outstanding =>
        /\ call[r] \in Calls \ {"none"} /\ pc[r] \in Route[call[r]] /\ SentAs(call[r], req[r])
  BY DEF PageInv, ClientType, Sent, CallOK, Outstanding
<1> USE DEF Calls, Route, SentAs, ViewLabels, Labels, Starting
<1>2. CASE CreateJourney(r)
  BY <1>0, <1>1, <1>2, CreateJourneyMoves, OnRoute
<1>3. CASE FindJourney(r)
  <2>1. r \in Outstanding => pc'[r] \in Route[call[r]]
    BY <1>0, <1>1, <1>3, FindJourneyMoves DEF AfterFind
  <2>2. pc[r] = "find" /\ Moved(r)
    BY <1>0, <1>3, FindJourneyMoves
  <2>3. pc'[r] = "done" => req'[r].outcome # "ok"
    <3>1. AfterFind[req[r].kind] # "done"
      BY <1>0, <2>2 DEF AfterFind, Kinds, Inv, ThreadInv, ThreadOK, TypeOK, Request
    <3> QED
      BY <1>0, <1>3, <3>1, FindJourneyMoves
  <2> QED
    BY <1>0, <1>1, <2>1, <2>2, <2>3, OnRoute
<1>4. CASE ReadBefore(r)
  BY <1>0, <1>1, <1>4, ReadBeforeMoves, OnRoute
<1>5. CASE TakeLock(r)
  BY <1>0, <1>1, <1>5, TakeLockMoves, OnRoute
<1>6. CASE ApplyAction(r)
  BY <1>0, <1>1, <1>6, ApplyActionMoves, OnRoute DEF NextLabel
<1>7. CASE CompletePiece(r)
  BY <1>0, <1>1, <1>7, CompletePieceMoves, OnRoute DEF NextLabel
<1>8. CASE AdvancePiece(r)
  BY <1>0, <1>1, <1>8, AdvancePieceMoves, OnRoute
<1>9. CASE AnnouncePiece(r)
  BY <1>0, <1>1, <1>9, AnnouncePieceMoves, OnRoute DEF NextLabel
<1>10. CASE Compare(r)
  BY <1>0, <1>1, <1>10, CompareMoves, OnRoute
<1>11. CASE ReadView(r)
  <2>1. req'[r].sid = req[r].sid /\ req[r].sid \in SessionIds
    BY <1>0, <1>11, ReadViewMoves DEF Moved
  <2>2. /\ Moved(r) /\ pc[r] \in {"view", "view2", "view3"}
        /\ pc'[r] \in {"view2", "view3", "done"}
    BY <1>0, <1>11, ReadViewMoves
  <2>3. r \in Outstanding => pc'[r] \in Route[call[r]]
    BY <1>1, <2>2
  <2> QED
    BY <1>0, <2>1, <2>2, <2>3, OnRoute
<1>12. CASE Chat(r)
  BY <1>0, <1>1, <1>12, ChatMoves, OnRoute
<1>13. CASE MergeContext(r)
  BY <1>0, <1>1, <1>13, MergeContextMoves, OnRoute
<1>14. CASE StoreContext(r)
  BY <1>0, <1>1, <1>14, StoreContextMoves, OnRoute
<1> QED
  BY <1>2, <1>3, <1>4, <1>5, <1>6, <1>7, <1>8, <1>9, <1>10, <1>11, <1>12, <1>13, <1>14
     DEF Serve

\* A restart answers nobody.
LEMMA RestartPage ==
  ASSUME PageInv, RestartServer, UNCHANGED clientVars
  PROVE  /\ PageInv' /\ Outstanding' = Outstanding
         /\ \A s \in SessionIds : journeys'[s] = NoJourney
         /\ \A q \in Requests : /\ pc'[q] \in {"idle", "done"}
                                /\ q \in Outstanding => req'[q].outcome = "lost" \/ req'[q] = req[q]
<1>1. UNCHANGED <<page, saved, call, lost, reloads, seen, owed>>
  BY DEF clientVars
<1>2. Outstanding' = Outstanding /\ ClientType' /\ Flow'
  BY <1>1 DEF Outstanding, PageInv, ClientType, Flow
<1>3. Inv /\ Inv'
  BY StepInv DEF PageInv, Next, ServerNext
<1>4. ASSUME NEW q \in Requests
      PROVE  /\ Asks(req[q], req'[q])
             /\ \/ pc'[q] = "done" /\ req'[q].outcome = "lost"
                \/ pc'[q] = pc[q] /\ req'[q] = req[q] /\ pc[q] \in {"idle", "done"}
  <2>1. req[q] \in Request /\ pc[q] \in Labels
    BY <1>3 DEF Inv, TypeOK
  <2>2. CASE q \in InFlight
    <3> DEFINE gone == [req[q] EXCEPT !.outcome = "lost"]
    <3>1. Asks(req[q], gone) /\ gone.outcome = "lost"
      BY <2>1 DEF Asks, Request
    <3>2. pc'[q] = "done" /\ req'[q] = gone
      BY <2>2 DEF RestartServer
    <3> QED
      BY <3>1, <3>2
  <2>3. CASE q \notin InFlight
    <3>1. pc'[q] = pc[q] /\ req'[q] = req[q]
      BY <2>3 DEF RestartServer
    <3> QED
      BY <2>3, <3>1 DEF InFlight, Asks
  <2> QED
    BY <2>2, <2>3
<1>5. ASSUME NEW q \in Outstanding' PROVE CallOK(call[q], pc[q], req[q])'
  <2>1. q \in Outstanding /\ q \in Requests /\ CallOK(call[q], pc[q], req[q])
        /\ call[q] \in Calls \ {"none"}
    BY <1>2 DEF PageInv, Sent, Outstanding, ClientType
  <2>2. SentAs(call[q], req[q])'
    BY <1>1, <1>4, <2>1 DEF CallOK, SentAs, Asks
  <2>3. pc'[q] \in Route[call[q]]
    BY <1>4, <2>1 DEF CallOK, Route, Calls, ViewLabels, Labels
  <2> QED
    BY <1>1, <1>4, <2>1, <2>2, <2>3 DEF CallOK, Asks
<1> QED
  BY <1>2, <1>3, <1>4, <1>5 DEF PageInv, Sent, RestartServer

-----------------------------------------------------------------------------
(* One request at a time *)

LEMMA ClientInitInv == ClientInit => PageInv
<1> SUFFICES ASSUME ClientInit PROVE PageInv
  OBVIOUS
<1> USE DEF ClientInit
<1>1. NewRequest("read", NoSession, "other", NoQuestion) \in Request
  BY JourneyFacts DEF NewRequest, Request, Kinds, Actions
<1>2. TypeOK
  BY <1>1, JourneyAssumption, ClientAssumption DEF TypeOK, Labels
<1>3. ThreadInv /\ MutexInv /\ OrderInv
  BY JourneyFacts, JourneyAssumption DEF ThreadInv, ThreadOK, Serving, MutexInv, Locked, OrderInv
<1>4. ClientType
  BY NewPageOK, ClientAssumption DEF ClientType, PageOK, Calls
<1>5. Outstanding = {}
  BY DEF Outstanding
<1>6. Flow /\ Sent
  BY <1>5 DEF Flow, Sent, NewPage
<1> QED
  BY <1>2, <1>3, <1>4, <1>6 DEF PageInv, Inv

LEMMA ClientStutter ==
  ASSUME PageInv, UNCHANGED allVars
  PROVE  PageInv' /\ Outstanding' = Outstanding
<1>1. UNCHANGED serverVars /\ UNCHANGED clientVars
  BY DEF allVars
<1>2. Inv'
  BY <1>1, StepInv DEF PageInv
<1>3. UNCHANGED <<pc, req, page, saved, call, lost, reloads, seen, owed>>
  BY <1>1 DEF serverVars, clientVars
<1>4. Outstanding' = Outstanding /\ ClientType' /\ Flow' /\ Sent'
  BY <1>3 DEF Outstanding, PageInv, ClientType, Flow, Sent, CallOK, SentAs
<1> QED
  BY <1>2, <1>4 DEF PageInv

LEMMA PageStep == Patient /\ PageInv /\ [ClientNext]_allVars => PageInv'
<1> SUFFICES ASSUME Patient, PageInv, [ClientNext]_allVars PROVE PageInv'
  OBVIOUS
<1>1. ASSUME NEW r \in Requests, Initialize(r) \/ Click(r) \/ Receive(r) \/ LoseRequest(r)
      PROVE  PageInv'
  BY <1>1, InitializePage, SendPiecePage, SendFreePage, JourneyActionPage, OpenFreePage,
     CloseFreePage, StartSessionPage, PieceReplyPage, FreeReplyPage, ActionReplyPage,
     OpenReplyPage, CloseReplyPage, LoseRequestPage DEF Click, Receive
<1>2. CASE ServerNext /\ UNCHANGED clientVars
  BY <1>2, ServePage, RestartPage DEF ServerNext
<1> QED
  BY <1>1, <1>2, LoseRestorePage, ReloadPage, LoseHealthPage, ClickWithoutSessionPage,
     TimerFiresPage, ClientStutter DEF ClientNext

\* The page, the functions under way in it and the handlers that serve them
\* always agree.
THEOREM PageInvariance ==
  ASSUME Patient
  PROVE  ClientSpec => []PageInv
BY ClientInitInv, PageStep, PTL DEF ClientSpec

\* Whatever is pressed, lost, reloaded or restarted: a user who lets the
\* timer reset the request state never has two requests under way.
THEOREM OneRequestAtATime ==
  ASSUME Patient
  PROVE  ClientSpec => []SingleFlight
<1>1. PageInv => SingleFlight
  <2> SUFFICES ASSUME PageInv PROVE Cardinality(Outstanding) <= 1
    BY DEF SingleFlight
  <2>1. CASE Outstanding = {}
    BY <2>1, FS_EmptySet
  <2>2. CASE Outstanding # {}
    <3>1. PICK r \in Outstanding : Outstanding = {r}
      BY <2>2 DEF PageInv, Flow
    <3> QED
      BY <3>1, FS_Singleton
  <2> QED
    BY <2>1, <2>2
<1> QED
  BY <1>1, PageInvariance, PTL

-----------------------------------------------------------------------------
(* A journey is there until a restart *)

\* A step of the page after which the only request is new, or none is, or all
\* are as they were.
Waits ==
  \/ Outstanding' = {}
  \/ \E r \in Requests, use \in Calls : Sends(r, use)
  \/ Outstanding' = Outstanding /\ UNCHANGED <<call, pc, req>>

LEMMA WaitingKept ==
  ASSUME Kept, Waits, UNCHANGED <<journeys, restarts>>,
         page'.session # NoSession => page'.session = page.session
  PROVE  Kept'
<1>1. CASE Outstanding' = {}
  BY <1>1 DEF Kept
<1>2. ASSUME NEW r \in Requests, NEW use \in Calls, Sends(r, use) PROVE Kept'
  BY <1>2 DEF Kept, Sends
<1>3. CASE Outstanding' = Outstanding /\ UNCHANGED <<call, pc, req>>
  BY <1>3 DEF Kept
<1> QED
  BY <1>1, <1>2, <1>3 DEF Waits

\* No step of a handler takes a journey away, and a reply that is all right
\* comes from a journey that is there.
LEMMA ServeJourneys ==
  ASSUME Inv, Inv', NEW r \in Requests, Serve(r)
  PROVE  /\ Moved(r) /\ restarts' = restarts /\ pc[r] # "done"
         /\ \A s \in SessionIds : journeys[s] \in Journey => journeys'[s] \in Journey
         /\ pc'[r] = "done" /\ req'[r].outcome = "ok" =>
              req'[r].sid \in SessionIds /\ journeys'[req'[r].sid] \in Journey
<1> DEFINE Goal == /\ Moved(r) /\ pc[r] # "done"
                   /\ \/ UNCHANGED journeys
                      \/ req'[r].sid \in SessionIds /\ journeys'[req'[r].sid] \in Journey
                   /\ pc'[r] = "done" /\ req'[r].outcome = "ok" =>
                        req'[r].sid \in SessionIds /\ journeys'[req'[r].sid] \in Journey
<1>1. pc'[r] \in Serving => req'[r].sid \in SessionIds /\ journeys'[req'[r].sid] \in Journey
  BY DEF Inv, ThreadInv, ThreadOK
<1> USE DEF Serving, Labels
<1>2. Goal
  <2>1. CASE CreateJourney(r)
    BY <1>1, <2>1, CreateJourneyMoves
  <2>2. CASE FindJourney(r)
    <3>1. req[r].kind \in Kinds \ {"create"}
      BY <2>2 DEF FindJourney, Inv, ThreadInv, ThreadOK, TypeOK, Request
    <3>2. AfterFind[req[r].kind] # "done"
      BY <3>1 DEF AfterFind, Kinds
    <3> QED
      BY <2>2, <3>2, FindJourneyMoves
  <2>3. CASE ReadBefore(r)
    BY <2>3, ReadBeforeMoves
  <2>4. CASE TakeLock(r)
    BY <2>4, TakeLockMoves
  <2>5. CASE ApplyAction(r)
    BY <1>1, <2>5, ApplyActionMoves DEF NextLabel
  <2>6. CASE CompletePiece(r)
    BY <1>1, <2>6, CompletePieceMoves DEF NextLabel
  <2>7. CASE AdvancePiece(r)
    BY <1>1, <2>7, AdvancePieceMoves
  <2>8. CASE AnnouncePiece(r)
    BY <1>1, <2>8, AnnouncePieceMoves DEF NextLabel
  <2>9. CASE Compare(r)
    BY <2>9, CompareMoves
  <2>10. CASE ReadView(r)
    BY <2>10, ReadViewMoves DEF Moved
  <2>11. CASE Chat(r)
    BY <2>11, ChatMoves
  <2>12. CASE MergeContext(r)
    BY <2>12, MergeContextMoves
  <2>13. CASE StoreContext(r)
    BY <2>13, StoreContextMoves DEF Moved
  <2> QED
    BY <2>1, <2>2, <2>3, <2>4, <2>5, <2>6, <2>7, <2>8, <2>9, <2>10, <2>11, <2>12, <2>13 DEF Serve
<1>3. restarts' = restarts
  BY DEF Serve, CreateJourney, FindJourney, ReadBefore, TakeLock, ApplyAction, CompletePiece,
         AdvancePiece, AnnouncePiece, Compare, ReadView, Chat, MergeContext, StoreContext
<1> QED
  BY <1>2, <1>3 DEF Moved

LEMMA SendsWait ==
  ASSUME NEW r \in Requests, NEW use \in Calls, Sends(r, use)
  PROVE  Waits /\ UNCHANGED <<journeys, restarts>>
BY DEF Waits, Sends

LEMMA EndsWait ==
  ASSUME NEW r \in Requests, Ends(r)
  PROVE  Waits /\ UNCHANGED <<journeys, restarts>>
BY DEF Waits, Ends

LEMMA ClickKept ==
  ASSUME Patient, PageInv, Kept, NEW r \in Requests, Initialize(r) \/ Click(r)
  PROVE  Kept'
<1>1. PICK use \in Calls : Sends(r, use) /\ SameView
  BY InitializePage, SendPiecePage, SendFreePage, JourneyActionPage, OpenFreePage, CloseFreePage
     DEF Click, Calls, Starting
<1> QED
  BY <1>1, SendsWait, WaitingKept DEF SameView

LEMMA ReceiveKept ==
  ASSUME Patient, PageInv, Kept, NEW r \in Requests, Receive(r)
  PROVE  Kept'
<1>1. CASE StartSession(r)
  <2>1. CASE Succeeded(r)
    <3>1. /\ Outstanding' = {} /\ UNCHANGED <<journeys, restarts>>
          /\ page'.session = req[r].sid /\ r \in Outstanding /\ call[r] \in Starting
          /\ pc[r] = "done" /\ req[r].outcome = "ok"
      BY <1>1, <2>1, StartSessionPage DEF Ends, Succeeded
    <3> QED
      BY <3>1 DEF Kept
  <2>2. CASE ~Succeeded(r)
    BY <1>1, <2>2, StartSessionPage, SendsWait, EndsWait, WaitingKept DEF Calls
  <2> QED
    BY <2>1, <2>2
<1>2. CASE PieceReply(r)
  BY <1>2, PieceReplyPage, SendsWait, EndsWait, WaitingKept DEF Calls, SameView
<1>3. CASE FreeReply(r)
  BY <1>3, FreeReplyPage, EndsWait, WaitingKept DEF SameView
<1>4. CASE ActionReply(r)
  BY <1>4, ActionReplyPage, EndsWait, WaitingKept
<1>5. CASE OpenReply(r)
  BY <1>5, OpenReplyPage, SendsWait, EndsWait, WaitingKept DEF Calls
<1>6. CASE CloseReply(r)
  BY <1>6, CloseReplyPage, EndsWait, WaitingKept
<1> QED
  BY <1>1, <1>2, <1>3, <1>4, <1>5, <1>6 DEF Receive

\* The steps of the page that neither send nor receive.
LEMMA IdleKept ==
  ASSUME Patient, PageInv, Kept, Reload \/ LoseHealth \/ ClickWithoutSession \/ TimerFires
  PROVE  Kept'
<1>1. UNCHANGED <<journeys, restarts, pc, req>>
  BY DEF Reload, LoseHealth, ClickWithoutSession, TimerFires, serverVars
<1>2. Waits
  BY <1>1, ReloadPage, LoseHealthPage, ClickWithoutSessionPage, TimerFiresPage
     DEF Waits, ClickWithoutSession
<1>3. CASE Reload
  BY <1>1, <1>2, <1>3, WaitingKept DEF Reload, NewPage
<1>4. CASE LoseHealth \/ ClickWithoutSession \/ TimerFires
  <2>1. page'.session = page.session
    BY <1>4 DEF LoseHealth, ClickWithoutSession, TimerFires, Disconnected, PageInv, ClientType,
                Page
  <2> QED
    BY <1>1, <1>2, <2>1, WaitingKept
<1> QED
  BY <1>3, <1>4

LEMMA ServeKept ==
  ASSUME PageInv, PageInv', Kept, NEW r \in Requests, Serve(r), UNCHANGED clientVars
  PROVE  Kept'
<1>1. /\ Moved(r) /\ restarts' = restarts
      /\ \A s \in SessionIds : journeys[s] \in Journey => journeys'[s] \in Journey
      /\ pc'[r] = "done" /\ req'[r].outcome = "ok" =>
           req'[r].sid \in SessionIds /\ journeys'[req'[r].sid] \in Journey
  BY ServeJourneys DEF PageInv
<1>2. page' = page /\ call' = call /\ Outstanding' = Outstanding
  BY DEF clientVars, Outstanding
<1>3. page.session \in SessionIds \cup {NoSession}
  BY DEF PageInv, ClientType, Page
<1>4. ASSUME restarts = 0, NEW q \in Outstanding, q # r,
             call[q] \in Starting, pc'[q] = "done", req'[q].outcome = "ok"
      PROVE  journeys'[req'[q].sid] \in Journey
  <2>1. pc'[q] = pc[q] /\ req'[q] = req[q] /\ q \in Requests
    BY <1>4, <1>1 DEF Moved, OthersStay, Outstanding
  <2>2. req[q].sid \in SessionIds
    BY <1>4, <2>1 DEF PageInv, Sent, CallOK
  <2> QED
    BY <1>1, <1>4, <2>1, <2>2 DEF Kept
<1> QED
  BY <1>1, <1>2, <1>3, <1>4 DEF Kept

LEMMA KeptStep ==
  ASSUME Patient, PageInv, PageInv', Kept, [ClientNext]_allVars
  PROVE  Kept'
<1>1. ASSUME NEW r \in Requests, LoseRequest(r) PROVE Kept'
  BY <1>1, LoseRequestPage, WaitingKept DEF Waits
<1>2. ASSUME NEW r \in Requests, NEW fresh \in Requests, LoseRestore(r, fresh) PROVE Kept'
  BY <1>2, LoseRestorePage, SendsWait, WaitingKept DEF Calls
<1>3. CASE RestartServer /\ UNCHANGED clientVars
  <2>1. restarts' # 0
    BY <1>3 DEF RestartServer, PageInv, Inv, TypeOK
  <2> QED
    BY <2>1 DEF Kept
<1>4. CASE UNCHANGED allVars
  <2>1. UNCHANGED <<journeys, restarts, page, call, pc, req>>
    BY <1>4 DEF allVars, serverVars, clientVars
  <2> QED
    BY <1>4, <2>1, ClientStutter, WaitingKept DEF Waits
<1>5. CASE ServerNext /\ UNCHANGED clientVars
  BY <1>3, <1>5, ServeKept DEF ServerNext
<1> QED
  BY <1>1, <1>2, <1>4, <1>5, ClickKept, ReceiveKept, IdleKept DEF ClientNext

\* Losses and restarts are counted.
LEMMA CountsGrow ==
  ASSUME PageInv, [ClientNext]_allVars
  PROVE  (lost' = 0 => lost = 0) /\ (restarts' = 0 => restarts = 0)
<1>1. lost \in Nat /\ restarts \in Nat
  BY DEF PageInv, ClientType, Inv, TypeOK
<1>2. lost' \in {lost, lost + 1} /\ restarts' \in {restarts, restarts + 1}
  <2>1. ASSUME NEW r \in Requests, Initialize(r) \/ Click(r) \/ Receive(r) \/ LoseRequest(r)
        PROVE  lost' \in {lost, lost + 1} /\ restarts' = restarts
    BY <2>1 DEF Initialize, Click, SendPiece, SendFree, JourneyAction, OpenFree, CloseFree,
       Receive, StartSession, PieceReply, FreeReply, ActionReply, OpenReply, CloseReply,
       LoseRequest, Send, Finish, serverVars
  <2>2. ASSUME NEW r \in Requests, NEW fresh \in Requests, LoseRestore(r, fresh)
        PROVE  lost' \in {lost, lost + 1} /\ restarts' = restarts
    BY <2>2 DEF LoseRestore
  <2>3. ASSUME Reload \/ LoseHealth \/ ClickWithoutSession \/ TimerFires \/ UNCHANGED allVars
        PROVE  lost' \in {lost, lost + 1} /\ restarts' = restarts
    BY <2>3 DEF Reload, LoseHealth, ClickWithoutSession, TimerFires, allVars, serverVars,
                clientVars
  <2>4. ASSUME NEW r \in Requests, Serve(r), UNCHANGED clientVars
        PROVE  lost' = lost /\ restarts' = restarts
    <3>1. Inv /\ Inv'
      BY <2>4, StepInv DEF PageInv, Next, ServerNext
    <3> QED
      BY <2>4, <3>1, ServeJourneys DEF clientVars
  <2>5. ASSUME RestartServer, UNCHANGED clientVars
        PROVE  lost' = lost /\ restarts' = restarts + 1
    BY <2>5 DEF RestartServer, clientVars
  <2> QED
    BY <2>1, <2>2, <2>3, <2>4, <2>5 DEF ClientNext, ServerNext
<1> QED
  BY <1>1, <1>2

-----------------------------------------------------------------------------
(* Questions handed over to the free chat *)

\* A request that has just been sent has no reply.
LEMMA SendsCarry ==
  ASSUME NEW r \in Requests, NEW use \in Calls, Sends(r, use),
         owed' \subseteq (IF use = "open" THEN {req'[r].question} ELSE {})
  PROVE  Carried'
BY DEF Carried, Sends

LEMMA NothingOwed ==
  ASSUME Carried, \A r \in Outstanding : call[r] # "open"
  PROVE  owed = {}
BY DEF Carried

LEMMA ClickCarried ==
  ASSUME Patient, PageInv, Carried, NEW r \in Requests, Initialize(r) \/ Click(r)
  PROVE  Carried'
<1>1. PICK use \in Calls : Sends(r, use) /\ Outstanding = {}
  BY InitializePage, SendPiecePage, SendFreePage, JourneyActionPage, OpenFreePage, CloseFreePage
     DEF Click, Calls, Starting
<1>2. owed' \subseteq owed
  BY DEF Initialize, Click, SendPiece, SendFree, JourneyAction, OpenFree, CloseFree
<1> QED
  BY <1>1, <1>2, NothingOwed, SendsCarry

LEMMA ReceiveCarried ==
  ASSUME Patient, PageInv, Carried, NEW r \in Requests, Receive(r)
  PROVE  Carried'
<1>1. ASSUME Ends(r), owed' = {} PROVE Carried'
  BY <1>1 DEF Carried, Ends
<1>2. CASE StartSession(r)
  <2>1. Outstanding = {r} /\ call[r] # "open" /\ (Ends(r) \/ Sends(r, "create"))
    BY <1>2, StartSessionPage DEF Starting
  <2>2. owed' = {}
    BY <1>2, <2>1, NothingOwed DEF StartSession
  <2> QED
    BY <1>1, <2>1, <2>2, SendsCarry DEF Calls
<1>3. CASE PieceReply(r)
  <2>1. owed = {}
    BY <1>3, PieceReplyPage, NothingOwed
  <2> QED
    BY <1>1, <1>3, <2>1, PieceReplyPage, SendsCarry DEF Calls
<1>4. CASE FreeReply(r)
  <2>1. owed = {}
    BY <1>4, FreeReplyPage, NothingOwed
  <2> QED
    BY <1>1, <1>4, <2>1, FreeReplyPage
<1>5. CASE ActionReply(r)
  <2>1. owed = {}
    BY <1>5, ActionReplyPage, NothingOwed
  <2> QED
    BY <1>1, <1>5, <2>1, ActionReplyPage
<1>6. CASE OpenReply(r)
  <2>1. Outstanding = {r} /\ call[r] = "open" /\ pc[r] = "done"
    BY <1>6, OpenReplyPage
  <2>2. Succeeded(r) /\ \A question \in owed : req[r].question = question
    BY <2>1 DEF Carried, Succeeded
  <2>3. owed' = {} /\ (Ends(r) \/ Sends(r, "free"))
    BY <1>6, <2>2, OpenReplyPage
  <2> QED
    BY <1>1, <2>3, SendsCarry DEF Calls
<1>7. CASE CloseReply(r)
  <2>1. owed = {}
    BY <1>7, CloseReplyPage, NothingOwed
  <2> QED
    BY <1>1, <1>7, <2>1, CloseReplyPage
<1> QED
  BY <1>2, <1>3, <1>4, <1>5, <1>6, <1>7 DEF Receive

\* The handler of a transition does not fail while the journey is there.
LEMMA ServeCarried ==
  ASSUME PageInv, PageInv', Kept, restarts = 0, Carried, NEW r \in Requests, Serve(r),
         UNCHANGED clientVars
  PROVE  Carried'
<1>1. Moved(r) /\ pc[r] # "done"
  BY ServeJourneys DEF PageInv
<1>2. call' = call /\ owed' = owed /\ Outstanding' = Outstanding
  BY DEF clientVars, Outstanding
<1>3. \A q \in Requests : req'[q].question = req[q].question
  BY <1>1 DEF Moved, OthersStay
<1>4. ASSUME r \in Outstanding, call[r] \in {"open", "close"}, pc'[r] = "done"
      PROVE  req'[r].outcome = "ok"
  <2>1. /\ req[r].kind = "transition" /\ req[r].action \in {"open", "return"}
        /\ req[r].sid = page.session /\ page.session # NoSession
        /\ pc[r] \in {"find", "lock", "apply", "view", "view2", "view3"}
    BY <1>1, <1>4 DEF PageInv, Sent, CallOK, SentAs, Starting, Route, ViewLabels
  <2>2. Known(req[r].sid)
    BY <2>1, CallFacts DEF Kept, Known, PageInv, ClientType, Page
  <2>3. CASE FindJourney(r)
    <3>1. AfterFind[req[r].kind] # "done"
      BY <2>1 DEF AfterFind
    <3> QED
      BY <1>4, <2>1, <2>2, <2>3, <3>1, FindJourneyMoves DEF PageInv
  <2>4. CASE TakeLock(r)
    BY <1>4, <2>1, <2>4, TakeLockMoves DEF PageInv
  <2>5. CASE ApplyAction(r)
    BY <1>4, <2>5, ApplyActionMoves DEF PageInv, NextLabel
  <2>6. CASE ReadView(r)
    BY <1>4, <2>6, ReadViewMoves DEF PageInv
  <2> QED
    BY <2>1, <2>3, <2>4, <2>5, <2>6 DEF Serve, CreateJourney, ReadBefore, CompletePiece,
       AdvancePiece, AnnouncePiece, Compare, Chat, MergeContext, StoreContext
<1>5. ASSUME NEW q \in Outstanding, q # r, call[q] \in {"open", "close"}, pc'[q] = "done"
      PROVE  req'[q].outcome = "ok"
  <2>1. pc'[q] = pc[q] /\ req'[q] = req[q]
    BY <1>1, <1>5 DEF Moved, OthersStay, Outstanding
  <2> QED
    BY <1>5, <2>1 DEF Carried
<1>6. \A question \in owed' :
        \E q \in Outstanding' : call'[q] = "open" /\ req'[q].question = question
  BY <1>2, <1>3 DEF Carried, Outstanding
<1> QED
  BY <1>2, <1>4, <1>5, <1>6 DEF Carried

LEMMA CarriedStep ==
  ASSUME Patient, PageInv, PageInv', Kept, Carried, lost = 0, restarts = 0,
         lost' = 0, restarts' = 0, [ClientNext]_allVars
  PROVE  Carried'
<1>1. ASSUME NEW r \in Requests
      PROVE  ~LoseRequest(r) /\ \A fresh \in Requests : ~LoseRestore(r, fresh)
  BY DEF LoseRequest, LoseRestore
<1>2. ~LoseHealth /\ ~RestartServer
  BY DEF LoseHealth, RestartServer
<1>3. CASE Reload
  BY <1>3, ReloadPage DEF Carried, Reload
<1>4. CASE ClickWithoutSession \/ TimerFires \/ UNCHANGED allVars
  <2>1. UNCHANGED <<call, pc, req, owed>> /\ Outstanding' = Outstanding
    BY <1>4 DEF ClickWithoutSession, TimerFires, allVars, serverVars, clientVars, Outstanding
  <2> QED
    BY <2>1 DEF Carried
<1>5. CASE ServerNext /\ UNCHANGED clientVars
  BY <1>2, <1>5, ServeCarried DEF ServerNext
<1> QED
  BY <1>1, <1>2, <1>3, <1>4, <1>5, ClickCarried, ReceiveCarried DEF ClientNext

\* As long as no call was lost and the server was not restarted, a question
\* that is handed over to the free chat is asked there.
THEOREM QuestionsRestored ==
  ASSUME Patient
  PROVE  ClientSpec => [](restarts = 0 => QuestionRestored)
<1> DEFINE Always == PageInv /\ Kept
           OwedInv == lost = 0 /\ restarts = 0 => Carried
<1>1. ClientInit => Kept /\ OwedInv
  <2> SUFFICES ASSUME ClientInit PROVE Kept /\ Carried
    OBVIOUS
  <2>1. Outstanding = {} /\ owed = {} /\ page.session = NoSession
    BY DEF ClientInit, Outstanding, NewPage
  <2> QED
    BY <2>1 DEF Kept, Carried
<1>2. Always /\ OwedInv /\ [ClientNext]_allVars => Always' /\ OwedInv'
  BY PageStep, KeptStep, CountsGrow, CarriedStep
<1>3. Always /\ OwedInv => (restarts = 0 => QuestionRestored)
  BY DEF QuestionRestored, Carried
<1> QED
  BY ClientInitInv, <1>1, <1>2, <1>3, PTL DEF ClientSpec

-----------------------------------------------------------------------------
(* What the page shows *)

\* The parts of a journey that ReadView puts together, while nobody changes it.
LEMMA ViewParts ==
  ASSUME NEW j \in Journey
  PROVE  /\ [j EXCEPT !.completed = {}].piece = j.piece
         /\ [j EXCEPT !.piece = j.piece, !.completed = {}] = [j EXCEPT !.completed = {}]
         /\ [[j EXCEPT !.completed = {}] EXCEPT !.completed = j.completed] = j
<1>1. [j EXCEPT !.piece = j.piece] = j
  BY DEF Journey
<1>2. [j EXCEPT !.piece = j.piece, !.completed = {}]
        = [[j EXCEPT !.piece = j.piece] EXCEPT !.completed = {}]
  BY Zenon
<1>3. [j EXCEPT !.completed = {}].piece = j.piece
  BY DEF Journey
<1>4. [[j EXCEPT !.completed = {}] EXCEPT !.completed = j.completed] = j
  BY DEF Journey
<1> QED
  BY <1>1, <1>2, <1>3, <1>4

\* With nothing under way but r, no other handler runs.
LEMMA NobodyElse ==
  ASSUME Shows, NEW r, Only(r), NEW q \in Requests, q # r
  PROVE  pc[q] \in {"idle", "done"}
BY DEF Shows, Only, Outstanding

\* After a step of the page the view is that of the session, or there is none.
ViewFits ==
  page'.session # NoSession /\ journeys'[page'.session] \in Journey =>
    page'.view = Rendered(journeys'[page'.session])

LEMMA SendsShow ==
  ASSUME Shows, NEW r \in Requests, NEW use \in Calls \ {"none"}, Only(r), Sends(r, use), ViewFits
  PROVE  Shows'
<1>1. \A q \in Requests : pc'[q] \notin {"idle", "done"} => q = r
  BY NobodyElse DEF Sends, OthersStay
<1> QED
  BY <1>1 DEF Shows, Sends, ReplyShows, ViewFits

LEMMA EndsShow ==
  ASSUME Shows, NEW r \in Requests, Only(r), Ends(r), ViewFits
  PROVE  Shows'
<1>1. \A q \in Requests : pc'[q] \in {"idle", "done"}
  BY NobodyElse DEF Ends, OthersStay
<1> QED
  BY <1>1 DEF Shows, Ends, ViewFits

LEMMA ClickShows ==
  ASSUME Patient, PageInv, Shows, NEW r \in Requests, Initialize(r) \/ Click(r)
  PROVE  Shows'
<1>1. PICK use \in Calls \ {"none"} : Sends(r, use) /\ Outstanding = {} /\ SameView
  BY InitializePage, SendPiecePage, SendFreePage, JourneyActionPage, OpenFreePage, CloseFreePage
     DEF Click, Calls, Starting
<1>2. ViewFits
  BY <1>1 DEF Shows, ViewFits, Sends, SameView
<1> QED
  BY <1>1, <1>2, SendsShow DEF Only

\* A chat leaves the page as it is, and so does a failure.
LEMMA QuietFits ==
  ASSUME Shows, NEW r \in Requests, Outstanding = {r}, Quiet(call[r], pc[r], req[r]),
         page'.session = page.session, page'.view = page.view, UNCHANGED journeys
  PROVE  ViewFits
BY DEF Shows, ViewFits

\* A complete reply is what the server has.
LEMMA RenderFits ==
  ASSUME PageInv, Shows, NEW r \in Requests, Outstanding = {r}, Succeeded(r), pc[r] = "done",
         call[r] \notin {"piece", "free"}, page'.session = req[r].sid,
         page'.view = Rendered(req[r].view), UNCHANGED journeys
  PROVE  ViewFits
BY DEF Shows, ViewFits, ReplyShows, Succeeded

LEMMA ReceiveShows ==
  ASSUME Patient, PageInv, Shows, NEW r \in Requests, Receive(r)
  PROVE  Shows'
<1>0. Outstanding = {r} => Only(r)
  BY DEF Only
<1>1. CASE StartSession(r)
  <2>1. CASE Succeeded(r)
    <3>1. /\ Outstanding = {r} /\ pc[r] = "done" /\ call[r] \notin {"piece", "free"} /\ Ends(r)
          /\ page'.session = req[r].sid /\ page'.view = Rendered(req[r].view)
      BY <1>1, <2>1, StartSessionPage DEF Starting
    <3>2. UNCHANGED journeys
      BY <3>1 DEF Ends
    <3> QED
      BY <1>0, <2>1, <3>1, <3>2, RenderFits, EndsShow
  <2>2. CASE ~Succeeded(r)
    <3>1. Outstanding = {r} /\ page'.session = NoSession /\ (Ends(r) \/ Sends(r, "create"))
      BY <1>1, <2>2, StartSessionPage
    <3>2. ViewFits
      BY <3>1 DEF ViewFits
    <3> QED
      BY <1>0, <3>1, <3>2, EndsShow, SendsShow DEF Calls
  <2> QED
    BY <2>1, <2>2
<1>2. CASE PieceReply(r) \/ FreeReply(r)
  <2>1. /\ Outstanding = {r} /\ call[r] \in {"piece", "free"} /\ SameView
        /\ Ends(r) \/ Sends(r, "open")
    BY <1>2, PieceReplyPage, FreeReplyPage
  <2>2. UNCHANGED journeys
    BY <2>1 DEF Ends, Sends
  <2>3. ViewFits
    BY <2>1, <2>2, QuietFits DEF SameView, Quiet
  <2> QED
    BY <1>0, <2>1, <2>3, EndsShow, SendsShow DEF Calls
<1>3. CASE ActionReply(r) \/ OpenReply(r) \/ CloseReply(r)
  <2>1. /\ Outstanding = {r} /\ call[r] \in {"action", "open", "close"} /\ pc[r] = "done"
        /\ page'.session = page.session /\ Renders(r)
        /\ Ends(r) \/ Sends(r, "free")
    BY <1>3, ActionReplyPage, OpenReplyPage, CloseReplyPage
  <2>2. UNCHANGED journeys
    BY <2>1 DEF Ends, Sends
  <2>3. req[r].sid = page.session
    BY <2>1 DEF PageInv, Sent, CallOK, SentAs, Starting
  <2>4. ViewFits
    <3>1. CASE Succeeded(r)
      BY <2>1, <2>2, <2>3, <3>1, RenderFits DEF Renders
    <3>2. CASE ~Succeeded(r)
      BY <2>1, <2>2, <3>2, QuietFits DEF Renders, Quiet, Succeeded
    <3> QED
      BY <3>1, <3>2
  <2> QED
    BY <1>0, <2>1, <2>4, EndsShow, SendsShow DEF Calls
<1> QED
  BY <1>1, <1>2, <1>3 DEF Receive

\* Handlers that run while no other does.  The one of a chat changes nothing
\* that is shown.
LEMMA ServeShows ==
  ASSUME PageInv, PageInv', Shows, NEW r \in Requests, Serve(r), UNCHANGED clientVars
  PROVE  Shows'
<1>1. Moved(r) /\ pc[r] # "done" /\ Inv /\ Inv'
  BY ServeJourneys DEF PageInv
<1>2. call' = call /\ page' = page /\ Outstanding' = Outstanding
  BY DEF clientVars, Outstanding
<1>3. pc[r] # "idle"
  BY DEF Serve, CreateJourney, FindJourney, ReadBefore, TakeLock, ApplyAction, CompletePiece,
         AdvancePiece, AnnouncePiece, Compare, ReadView, Chat, MergeContext, StoreContext
<1>4. Outstanding = {r} /\ call[r] # "none"
  BY <1>1, <1>3 DEF Shows, Outstanding, PageInv, Flow
<1>5. \A q \in Requests : pc'[q] \notin {"idle", "done"} => call'[q] # "none"
  BY <1>1, <1>2, <1>4 DEF Shows, Moved, OthersStay
<1>6. /\ call[r] \in Calls \ {"none"} /\ pc[r] \in Route[call[r]] /\ SentAs(call[r], req[r])
      /\ call[r] \in Starting <=> page.session = NoSession
      /\ page.session \in SessionIds \cup {NoSession}
  BY <1>4 DEF PageInv, Sent, CallOK, ClientType, Page
<1>7. CASE call[r] \in {"piece", "free"}
  <2>1. req[r].sid = page.session /\ pc[r] \in {"find", "chat", "merge", "store"}
        /\ page.session \in SessionIds
    BY <1>1, <1>6, <1>7 DEF SentAs, Route, Starting
  <2>2. \/ UNCHANGED journeys
        \/ Rendered(journeys'[page.session]) = Rendered(journeys[page.session])
    BY <1>1, <2>1, FindJourneyMoves, ChatMoves, MergeContextMoves, StoreContextMoves
       DEF Serve, CreateJourney, ReadBefore, TakeLock, ApplyAction, CompletePiece, AdvancePiece,
           AnnouncePiece, Compare, ReadView
  <2>3. journeys'[page.session] \in Journey => journeys[page.session] \in Journey
    <3>1. CASE pc[r] \in {"find", "chat", "merge"}
      BY <1>1, <2>1, <3>1, FindJourneyMoves, ChatMoves, MergeContextMoves
         DEF Serve, CreateJourney, ReadBefore, TakeLock, ApplyAction, CompletePiece, AdvancePiece,
             AnnouncePiece, Compare, ReadView, StoreContext
    <3>2. CASE pc[r] = "store"
      BY <1>1, <2>1, <3>2 DEF Inv, ThreadInv, ThreadOK, Serving, Labels
    <3> QED
      BY <2>1, <3>1, <3>2
  <2>4. page.session # NoSession /\ journeys[page.session] \in Journey =>
          page.view = Rendered(journeys[page.session])
    BY <1>4, <1>7 DEF Shows, Quiet
  <2>5. ViewFits
    BY <1>2, <2>2, <2>3, <2>4 DEF ViewFits
  <2> QED
    BY <1>2, <1>4, <1>5, <1>7, <2>5 DEF Shows, ReplyShows, ViewFits
<1>8. CASE call[r] \notin {"piece", "free"}
  <2>1. ReplyShows(call[r], pc[r], req[r])
    BY <1>4 DEF Shows
  <2>2. pc[r] \notin {"chat", "merge", "store"}
    BY <1>6, <1>8 DEF Route, Calls, ViewLabels
  <2>3. ReplyShows(call[r], pc[r], req[r])'
    <3>1. CASE ReadView(r)
      <4> DEFINE j == journeys[req[r].sid]
      <4>1. /\ j \in Journey /\ UNCHANGED journeys /\ req'[r].sid = req[r].sid
            /\ \/ pc[r] = "view" /\ pc'[r] = "view2" /\ req'[r].view = [j EXCEPT !.completed = {}]
               \/ /\ pc[r] = "view2" /\ pc'[r] = "view3"
                  /\ req'[r].view = [j EXCEPT !.piece = req[r].view.piece, !.completed = {}]
               \/ /\ pc[r] = "view3" /\ pc'[r] = "done"
                  /\ req'[r].view = [req[r].view EXCEPT !.completed = j.completed]
        BY <1>1, <3>1, ReadViewMoves DEF StateOf, Moved
      <4>2. pc[r] \in {"view2", "view3"} => req[r].view = [j EXCEPT !.completed = {}]
        BY <1>8, <2>1 DEF ReplyShows
      <4> HIDE DEF j
      <4>3. IF pc'[r] = "done" THEN req'[r].view = j
                               ELSE req'[r].view = [j EXCEPT !.completed = {}]
        BY <4>1, <4>2, ViewParts
      <4>4. j = journeys'[req'[r].sid]
        BY <4>1 DEF j
      <4> QED
        BY <4>1, <4>3, <4>4 DEF ReplyShows
    <3>2. CASE ~ReadView(r)
      <4>1. CASE FindJourney(r)
        <5>1. AfterFind[req[r].kind] \in {"view", "before", "lock", "chat"}
          BY <1>1, <4>1 DEF FindJourney, AfterFind, Kinds, Inv, TypeOK, ThreadInv, ThreadOK,
             Request
        <5> QED
          BY <1>1, <4>1, <5>1, FindJourneyMoves DEF ReplyShows
      <4>2. CASE TakeLock(r)
        BY <1>1, <4>2, TakeLockMoves DEF ReplyShows
      <4>3. CASE ~FindJourney(r) /\ ~TakeLock(r)
        <5>1. pc'[r] \notin {"view2", "view3", "done"}
          BY <1>1, <2>2, <3>2, <4>3, CreateJourneyMoves, ReadBeforeMoves, ApplyActionMoves,
             CompletePieceMoves, AdvancePieceMoves, AnnouncePieceMoves, CompareMoves
             DEF Serve, Chat, MergeContext, StoreContext, NextLabel
        <5> QED
          BY <5>1 DEF ReplyShows
      <4> QED
        BY <4>1, <4>2, <4>3
    <3> QED
      BY <3>1, <3>2
  <2>4. Quiet(call[r], pc[r], req[r])' => Quiet(call[r], pc[r], req[r]) /\ UNCHANGED journeys
    BY <1>1, <1>2, <1>8, <2>2, CreateJourneyMoves, FindJourneyMoves, ReadBeforeMoves,
       TakeLockMoves, ApplyActionMoves, CompletePieceMoves, AdvancePieceMoves,
       AnnouncePieceMoves, CompareMoves, ReadViewMoves
       DEF Serve, Chat, MergeContext, StoreContext, NextLabel, Quiet
  <2> QED
    BY <1>2, <1>4, <1>5, <2>3, <2>4 DEF Shows
<1> QED
  BY <1>7, <1>8

LEMMA RestartShows ==
  ASSUME PageInv, PageInv', Shows, RestartServer, UNCHANGED clientVars
  PROVE  Shows'
<1>1. /\ \A s \in SessionIds : journeys'[s] \notin Journey
      /\ \A q \in Requests : pc'[q] \in {"idle", "done"}
  BY RestartPage, CallFacts
<1>2. page'.session \in SessionIds \cup {NoSession}
  BY DEF PageInv, ClientType, Page
<1>3. ASSUME NEW q \in Outstanding' PROVE ReplyShows(call[q], pc[q], req[q])'
  <2>1. pc'[q] \in {"idle", "done"} /\ CallOK(call[q], pc[q], req[q])'
    BY <1>1, <1>3 DEF PageInv, Sent, Outstanding
  <2>2. pc'[q] = "done" /\ req'[q].outcome = "ok" => req'[q].sid \in SessionIds
    BY <1>2, <2>1 DEF CallOK, SentAs, Starting
  <2> QED
    BY <1>1, <2>1, <2>2 DEF ReplyShows
<1> QED
  BY <1>1, <1>2, <1>3 DEF Shows

LEMMA ShowsStep ==
  ASSUME Patient, PageInv, PageInv', Shows, lost = 0, lost' = 0, [ClientNext]_allVars
  PROVE  Shows'
<1>1. ASSUME NEW r \in Requests
      PROVE  ~LoseRequest(r) /\ \A fresh \in Requests : ~LoseRestore(r, fresh)
  BY DEF LoseRequest, LoseRestore
<1>2. ~LoseHealth
  BY DEF LoseHealth
<1>3. CASE Reload
  <2>1. Outstanding = {} /\ Outstanding' = {} /\ page'.session = NoSession /\ pc' = pc
    BY <1>3, ReloadPage DEF Reload, NewPage, serverVars
  <2> QED
    BY <2>1 DEF Shows, Outstanding
<1>4. CASE ClickWithoutSession \/ TimerFires \/ UNCHANGED allVars
  <2>1. UNCHANGED <<call, pc, req, journeys>> /\ Outstanding' = Outstanding
        /\ page'.session = page.session /\ page'.view = page.view
    BY <1>4 DEF ClickWithoutSession, TimerFires, allVars, serverVars, clientVars, Outstanding,
                PageInv, ClientType, Page
  <2> QED
    BY <2>1 DEF Shows, ReplyShows
<1>5. CASE ServerNext /\ UNCHANGED clientVars
  BY <1>5, ServeShows, RestartShows DEF ServerNext
<1> QED
  BY <1>1, <1>2, <1>3, <1>4, <1>5, ClickShows, ReceiveShows DEF ClientNext

LEMMA ShowsInit == ClientInit => Shows
BY DEF ClientInit, Shows, Outstanding, NewPage

\* With nothing under way, no call lost and no restart, the page shows what
\* the server has, whichever of its functions rendered last.
THEOREM PageIsFresh ==
  ASSUME Patient
  PROVE  ClientSpec => [](restarts = 0 => FreshView)
<1> DEFINE Invs == PageInv /\ Kept /\ (lost = 0 => Shows)
<1>1. ClientInit => Invs
  <2>1. ClientInit => Kept
    BY DEF ClientInit, Outstanding, NewPage, Kept
  <2> QED
    BY <2>1, ClientInitInv, ShowsInit
<1>2. Invs /\ [ClientNext]_allVars => Invs'
  BY PageStep, KeptStep, CountsGrow, ShowsStep
<1>3. Invs => (restarts = 0 => FreshView)
  BY DEF FreshView, Shows, Kept
<1> QED
  BY <1>1, <1>2, <1>3, PTL DEF ClientSpec

-----------------------------------------------------------------------------
(* What the traveller has seen *)

\* A step of the page that leaves the journeys and what was seen of them.
LEMMA WaitingTraced ==
  ASSUME Traced, Waits, UNCHANGED <<journeys, saved>>, seen \subseteq seen',
         page'.session # NoSession => {page'.view.piece} \cap Pieces \subseteq seen'
  PROVE  Traced'
<1>1. saved' # NoSession => journeys'[saved'].completed \subseteq seen'
  BY DEF Traced
<1>2. CASE Outstanding' = {}
  BY <1>1, <1>2 DEF Traced
<1>3. ASSUME NEW r \in Requests, NEW use \in Calls, Sends(r, use) PROVE Traced'
  BY <1>1, <1>3 DEF Traced, Sends, ViewLabels
<1>4. CASE Outstanding' = Outstanding /\ UNCHANGED <<call, pc, req>>
  BY <1>1, <1>4 DEF Traced
<1> QED
  BY <1>2, <1>3, <1>4 DEF Waits

LEMMA ClickTraced ==
  ASSUME Patient, PageInv, Traced, NEW r \in Requests, Initialize(r) \/ Click(r)
  PROVE  Traced'
<1>1. PICK use \in Calls : Sends(r, use) /\ SameView
  BY InitializePage, SendPiecePage, SendFreePage, JourneyActionPage, OpenFreePage, CloseFreePage
     DEF Click, Calls, Starting
<1>2. page'.session # NoSession => {page'.view.piece} \cap Pieces \subseteq seen'
  BY <1>1 DEF Traced, SameView
<1> QED
  BY <1>1, <1>2, SendsWait, WaitingTraced DEF SameView

LEMMA StartSessionTraced ==
  ASSUME Patient, PageInv, Traced, NEW r \in Requests, StartSession(r)
  PROVE  Traced'
<1>1. Outstanding = {r} /\ call[r] \in Starting /\ pc[r] = "done"
  BY StartSessionPage
<1>2. CASE ~Succeeded(r)
  <2>1. page'.session = NoSession /\ UNCHANGED <<saved, seen>>
        /\ (Ends(r) \/ Sends(r, "create"))
    BY <1>2, StartSessionPage
  <2>2. Waits /\ UNCHANGED journeys
    BY <2>1, SendsWait, EndsWait DEF Calls
  <2> QED
    BY <2>1, <2>2, WaitingTraced
<1>3. CASE Succeeded(r)
  <2>1. /\ Outstanding' = {} /\ UNCHANGED journeys
        /\ page'.session = req[r].sid /\ saved' = req[r].sid
        /\ page'.view = Rendered(req[r].view)
    BY <1>3, StartSessionPage DEF Ends
  <2>2. seen' = (IF req[r].sid = saved THEN seen ELSE {}) \cup ({req[r].view.piece} \cap Pieces)
    BY <1>3 DEF StartSession
  <2>3. page'.view.piece = req[r].view.piece
    BY <2>1, RenderedJourney DEF PageInv, Inv, TypeOK, Request
  <2>4. journeys[req[r].sid].completed \subseteq seen'
    <3>1. CASE call[r] = "create"
      BY <1>1, <1>3, <3>1 DEF Traced, ViewLabels, Succeeded
    <3>2. CASE call[r] = "restore"
      <4>1. req[r].sid = saved /\ req[r].sid \in SessionIds
        BY <1>1, <1>3, <3>2 DEF PageInv, Sent, CallOK, SentAs, Starting, Succeeded
      <4> QED
        BY <2>2, <4>1, CallFacts DEF Traced
    <3> QED
      BY <1>1, <3>1, <3>2 DEF Starting
  <2> QED
    BY <2>1, <2>2, <2>3, <2>4 DEF Traced
<1> QED
  BY <1>2, <1>3

LEMMA ReceiveTraced ==
  ASSUME Patient, PageInv, Traced, NEW r \in Requests, Receive(r)
  PROVE  Traced'
<1>1. CASE PieceReply(r) \/ FreeReply(r)
  <2>1. /\ SameView
        /\ Ends(r) \/ Sends(r, "open")
    BY <1>1, PieceReplyPage, FreeReplyPage
  <2>2. Waits /\ UNCHANGED journeys
    BY <2>1, SendsWait, EndsWait DEF Calls
  <2>3. page'.session # NoSession => {page'.view.piece} \cap Pieces \subseteq seen'
    BY <2>1 DEF Traced, SameView
  <2> QED
    BY <2>1, <2>2, <2>3, WaitingTraced DEF SameView
<1>2. CASE ActionReply(r) \/ OpenReply(r) \/ CloseReply(r)
  <2>1. /\ UNCHANGED saved /\ page'.session = page.session /\ Renders(r)
        /\ Ends(r) \/ Sends(r, "free")
    BY <1>2, ActionReplyPage, OpenReplyPage, CloseReplyPage
  <2>2. Waits /\ UNCHANGED journeys
    BY <2>1, SendsWait, EndsWait DEF Calls
  <2>3. Rendered(req[r].view).piece = req[r].view.piece
    BY RenderedJourney DEF PageInv, Inv, TypeOK, Request
  <2>4. /\ page'.session # NoSession => {page'.view.piece} \cap Pieces \subseteq seen'
        /\ seen \subseteq seen'
    BY <2>1, <2>3 DEF Renders, Traced
  <2> QED
    BY <2>1, <2>2, <2>4, WaitingTraced
<1> QED
  BY <1>1, <1>2, StartSessionTraced DEF Receive

\* Only GO_NEXT_PIECE completes a piece: the one that the page shows, because
\* nothing else has touched the journey since.
LEMMA ServeCompletes ==
  ASSUME PageInv, Shows, Traced, NEW r \in Requests, Serve(r),
         saved # NoSession
  PROVE  journeys'[saved].completed \subseteq seen
<1>0. saved \in SessionIds /\ Inv /\ journeys[saved].completed \subseteq seen
  BY DEF PageInv, ClientType, Traced
<1>1. CASE CreateJourney(r)
  BY <1>0, <1>1, CreateJourneyMoves DEF Moved, FreshJourney
<1>2. CASE ApplyAction(r) \/ AdvancePiece(r) \/ AnnouncePiece(r) \/ StoreContext(r)
  <2>1. /\ Moved(r) /\ pc[r] # "create"
        /\ journeys'[req[r].sid].completed = journeys[req[r].sid].completed
    BY <1>0, <1>2, ApplyActionMoves, AdvancePieceMoves, AnnouncePieceMoves, StoreContextMoves
  <2> QED
    BY <1>0, <2>1 DEF Moved
<1>3. CASE CompletePiece(r)
  <2>1. Moved(r) /\ pc[r] = "complete"
    BY <1>0, <1>3, CompletePieceMoves
  <2>2. CASE journeys' = journeys
    BY <1>0, <2>2
  <2>3. CASE journeys' # journeys
    <3> DEFINE piece == journeys[req[r].sid].piece
    <3>1. /\ piece # Finished /\ req[r].sid \in SessionIds /\ journeys[req[r].sid] \in Journey
          /\ journeys'[req[r].sid].completed = journeys[req[r].sid].completed \cup {piece}
      BY <1>0, <1>3, <2>1, <2>3, CompletePieceMoves
         DEF Inv, ThreadInv, ThreadOK, Serving, Labels
    <3>2. piece \in Pieces
      BY <3>1, JourneyFacts DEF Journey, Pieces
    <3>3. Outstanding = {r}
      BY <2>1 DEF Shows, Outstanding, PageInv, Flow
    <3>4. call[r] = "action" /\ req[r].sid = page.session /\ page.session = saved
      BY <2>1, <3>1, <3>3, CallFacts
         DEF PageInv, Sent, CallOK, SentAs, Starting, Route, ViewLabels, Flow, ClientType, Calls,
             Outstanding
    <3>5. page.view = Rendered(journeys[saved])
      BY <2>1, <3>1, <3>3, <3>4, CallFacts DEF Shows, Quiet
    <3>6. piece \in seen
      <4>1. page.view.piece = piece
        BY <3>1, <3>4, <3>5, RenderedJourney
      <4> QED
        BY <3>1, <3>2, <3>4, <4>1, CallFacts DEF Traced
    <3> QED
      BY <1>0, <2>1, <3>1, <3>4, <3>6 DEF Moved
  <2> QED
    BY <2>2, <2>3
<1>4. CASE FindJourney(r) \/ ReadBefore(r) \/ TakeLock(r) \/ Compare(r) \/ ReadView(r) \/ Chat(r)
             \/ MergeContext(r)
  <2>1. UNCHANGED journeys
    BY <1>4 DEF FindJourney, ReadBefore, TakeLock, Compare, ReadView, Chat, MergeContext
  <2> QED
    BY <1>0, <2>1
<1> QED
  BY <1>1, <1>2, <1>3, <1>4 DEF Serve

LEMMA ServeTraced ==
  ASSUME PageInv, Shows, Traced, NEW r \in Requests, Serve(r), UNCHANGED clientVars
  PROVE  Traced'
<1>1. Moved(r) /\ pc[r] # "done" /\ Inv
  <2>1. Inv /\ Inv'
    BY StepInv DEF PageInv, Next, ServerNext
  <2> QED
    BY <2>1, ServeJourneys
<1>2. UNCHANGED <<page, saved, seen, call>> /\ Outstanding' = Outstanding
  BY DEF clientVars, Outstanding
<1>3. pc[r] # "idle"
  BY DEF Serve, CreateJourney, FindJourney, ReadBefore, TakeLock, ApplyAction, CompletePiece,
         AdvancePiece, AnnouncePiece, Compare, ReadView, Chat, MergeContext, StoreContext
<1>4. Outstanding = {r} /\ call[r] # "none"
  BY <1>1, <1>3 DEF Shows, Outstanding, PageInv, Flow
<1>5. ASSUME call[r] = "create", pc'[r] \in ViewLabels
      PROVE  journeys'[req'[r].sid].completed = {}
  <2>1. pc[r] \in {"create", "view", "view2", "view3"}
    BY <1>1, <1>4, <1>5 DEF PageInv, Sent, CallOK, Route, ViewLabels
  <2>2. CASE CreateJourney(r)
    BY <1>1, <2>2, CreateJourneyMoves DEF FreshJourney
  <2>3. CASE ReadView(r)
    <3>1. UNCHANGED journeys /\ req'[r].sid = req[r].sid /\ pc[r] \in {"view", "view2", "view3"}
      BY <1>1, <2>3, ReadViewMoves DEF Moved
    <3> QED
      BY <1>4, <1>5, <3>1 DEF Traced, ViewLabels
  <2> QED
    BY <2>1, <2>2, <2>3 DEF Serve, FindJourney, ReadBefore, TakeLock, ApplyAction, CompletePiece,
       AdvancePiece, AnnouncePiece, Compare, Chat, MergeContext, StoreContext
<1>6. saved' # NoSession => journeys'[saved'].completed \subseteq seen'
  BY <1>2, ServeCompletes
<1> QED
  BY <1>2, <1>4, <1>5, <1>6 DEF Traced

LEMMA RestartTraced ==
  ASSUME PageInv, PageInv', Traced, RestartServer, UNCHANGED clientVars
  PROVE  Traced'
<1>1. /\ \A s \in SessionIds : journeys'[s].completed = {}
      /\ \A q \in Requests : pc'[q] \in {"idle", "done"}
  BY RestartPage DEF NoJourney, FreshJourney
<1>2. UNCHANGED <<page, saved, seen, call>> /\ Outstanding' = Outstanding
  BY DEF clientVars, Outstanding
<1>3. saved \in SessionIds \cup {NoSession}
  BY DEF PageInv, ClientType
<1>4. ASSUME NEW q \in Outstanding', call'[q] = "create", pc'[q] \in ViewLabels,
             pc'[q] = "done" => req'[q].outcome = "ok"
      PROVE  journeys'[req'[q].sid].completed = {}
  <2>1. pc'[q] = "done" /\ CallOK(call[q], pc[q], req[q])'
    BY <1>1, <1>4 DEF ViewLabels, PageInv, Sent, Outstanding
  <2> QED
    BY <1>1, <1>4, <2>1 DEF CallOK, Starting
<1> QED
  BY <1>1, <1>2, <1>3, <1>4 DEF Traced

LEMMA TracedStep ==
  ASSUME Patient, PageInv, PageInv', Shows, Traced, lost = 0, lost' = 0, [ClientNext]_allVars
  PROVE  Traced'
<1>1. ASSUME NEW r \in Requests
      PROVE  ~LoseRequest(r) /\ \A fresh \in Requests : ~LoseRestore(r, fresh)
  BY DEF LoseRequest, LoseRestore
<1>2. ~LoseHealth
  BY DEF LoseHealth
<1>3. CASE Reload \/ ClickWithoutSession \/ TimerFires \/ UNCHANGED allVars
  <2>1. UNCHANGED <<journeys, saved, seen, pc, req>>
    BY <1>3 DEF Reload, ClickWithoutSession, TimerFires, allVars, serverVars, clientVars
  <2>2. Waits
    <3>1. CASE Reload
      BY <3>1, ReloadPage DEF Waits
    <3>2. CASE ~Reload
      <4>1. UNCHANGED call
        BY <1>3, <3>2 DEF ClickWithoutSession, TimerFires, allVars, clientVars
      <4> QED
        BY <2>1, <4>1 DEF Waits, Outstanding
    <3> QED
      BY <3>1, <3>2
  <2>3. page'.session # NoSession => page'.session = page.session /\ page'.view = page.view
    <3>1. CASE Reload
      BY <3>1 DEF Reload, NewPage
    <3>2. CASE ~Reload
      BY <1>3, <3>2 DEF ClickWithoutSession, TimerFires, allVars, clientVars, PageInv,
                        ClientType, Page
    <3> QED
      BY <3>1, <3>2
  <2> QED
    BY <2>1, <2>2, <2>3, WaitingTraced DEF Traced
<1>4. CASE ServerNext /\ UNCHANGED clientVars
  BY <1>4, ServeTraced, RestartTraced DEF ServerNext
<1> QED
  BY <1>1, <1>2, <1>3, <1>4, ClickTraced, ReceiveTraced DEF ClientNext

\* As long as no call was lost, no piece is completed that the traveller was
\* never shown, restarts and reloads included.
THEOREM ShownBeforeCompleted ==
  ASSUME Patient
  PROVE  ClientSpec => []SeenBeforeCompleted
<1> DEFINE Invs == PageInv /\ (lost = 0 => Shows /\ Traced)
<1>1. ClientInit => Invs
  <2> SUFFICES ASSUME ClientInit PROVE Invs
    OBVIOUS
  <2>1. Outstanding = {} /\ page.session = NoSession
    BY DEF ClientInit, Outstanding, NewPage
  <2>2. \A s \in SessionIds : journeys[s].completed = {}
    BY DEF ClientInit, NoJourney, FreshJourney
  <2>3. saved \in SessionIds \cup {NoSession}
    BY ClientAssumption DEF ClientInit
  <2>4. Traced
    BY <2>1, <2>2, <2>3 DEF Traced
  <2> QED
    BY <2>4, ClientInitInv, ShowsInit
<1>2. Invs /\ [ClientNext]_allVars => Invs'
  BY PageStep, CountsGrow, ShowsStep, TracedStep
<1>3. Invs => SeenBeforeCompleted
  BY DEF SeenBeforeCompleted, Traced, PageInv, Flow
<1> QED
  BY <1>1, <1>2, <1>3, PTL DEF ClientSpec

=============================================================================

----------------------------- MODULE WebClient ------------------------------
(***************************************************************************)
(* The page of the web interface (web/static/app.js) together with the     *)
(* journey server it talks to.  A user clicks, the page's asynchronous     *)
(* functions each send one request and go on when its reply is there, a    *)
(* timer resets the request state, replies can be lost, and the page and   *)
(* the server can be reloaded at any time.                                 *)
(***************************************************************************)
EXTENDS DemoJourney

CONSTANTS
  Earlier,       \* sessions of a server that was restarted before the page opens
  Presses,       \* the journey actions that users press
  Patient,       \* users wait until the timer has reset the request state, and
                 \* reload only a page with nothing under way
  MaxFaults,     \* bound: requests or replies lost by the network, and reloads of the page
  MaxTimers      \* bound: timers running at the same time

ASSUME ClientAssumption ==
  /\ Earlier \subseteq SessionIds /\ Presses \subseteq Actions
  /\ Patient \in BOOLEAN /\ {MaxFaults, MaxTimers} \subseteq Nat

VARIABLES
  page,          \* the page's variables
  saved,         \* sessionStorage
  call,          \* what the page does with the reply to each request
  lost, reloads, \* count losses and reloads, for the bounds
  seen, owed     \* history: pieces shown; questions to be asked in free chat

clientVars == <<page, saved, call, lost, reloads, seen, owed>>
allVars == <<serverVars, clientVars>>

Calls == {"none", "restore", "create", "piece", "free", "action", "open", "close"}
RequestStates == {"idle", "loading", "success", "insufficient", "error"}

\* state of app.js.  last is lastRequest: the track and the question.  hint is
\* what the button of the action hint would do, of the things that no other
\* button does.
Page ==
  [ app: {"new", "initializing", "ready", "disconnected"},
    session: SessionIds \cup {NoSession}, request: RequestStates, freeOpen: BOOLEAN,
    last: {<<>>} \cup ({"piece", "free"} \X Questions),
    view: Journey \cup {NoJourney},    \* the session as renderSession shows it
    hint: Questions \cup {NoQuestion, "short"},
    timers: Nat ]

NewPage ==
  [ app |-> "new", session |-> NoSession, request |-> "idle", freeOpen |-> FALSE, last |-> <<>>,
    view |-> NoJourney, hint |-> NoQuestion, timers |-> 0 ]

Outstanding == {r \in Requests : call[r] # "none"}
Free == {r \in Requests : call[r] = "none" /\ pc[r] \in {"idle", "done"}}

\* A request of the page, for the function named by use.
Send(r, use, kind, action, question, after) ==
  /\ Start(r, kind, after.session, action, question)
  /\ call' = [call EXCEPT ![r] = use]
  /\ page' = after
  /\ UNCHANGED <<journeys, created, lock, restarts>>

Waiting(p) == [p EXCEPT !.request = "loading"]

\* The page opens with no session saved, or with one that the server lost.
ClientInit ==
  /\ journeys = [s \in SessionIds |-> NoJourney] /\ created = Earlier
  /\ pc = [r \in Requests |-> "idle"] /\ lock = "free" /\ restarts = 0
  /\ req = [r \in Requests |-> NewRequest("read", NoSession, "other", NoQuestion)]
  /\ page = NewPage /\ saved \in {NoSession} \cup Earlier
  /\ call = [r \in Requests |-> "none"]
  /\ lost = 0 /\ reloads = 0 /\ seen = {} /\ owed = {}

-----------------------------------------------------------------------------
(* Loading the page: initialize *)

Initialize(r) ==
  /\ page.app = "new" /\ r \in Free
  /\ LET started == [page EXCEPT !.app = "initializing"] IN
     IF saved = NoSession
     THEN Send(r, "create", "create", "other", NoQuestion, started)
     ELSE /\ Start(r, "read", saved, "other", NoQuestion)
          /\ call' = [call EXCEPT ![r] = "restore"]
          /\ page' = started
          /\ UNCHANGED <<journeys, created, lock, restarts>>
  /\ UNCHANGED <<saved, lost, reloads, seen, owed>>

Disconnected(p) == [p EXCEPT !.app = "disconnected", !.request = "error"]

\* The health check fails.
LoseHealth ==
  /\ page.app = "new" /\ lost + reloads < MaxFaults /\ lost' = lost + 1
  /\ page' = Disconnected(page)
  /\ UNCHANGED <<serverVars, saved, call, reloads, seen, owed>>

\* Functions of the old page end with it; the server serves what it has got.
Reload ==
  /\ lost + reloads < MaxFaults /\ reloads' = reloads + 1
  /\ Patient => Outstanding = {} /\ page.timers = 0
  /\ page' = NewPage /\ owed' = {}
  /\ call' = [r \in Requests |-> "none"]
  /\ UNCHANGED <<serverVars, saved, lost, seen>>

-----------------------------------------------------------------------------
(* Clicks.  Buttons and fields are disabled while request is "loading".  With
   the free chat open, its backdrop covers the controls of the page. *)

\* Fault: the guard against a second request forgotten.
MayAlwaysClick == page.app # "new" /\ (Patient => page.timers = 0)

MayClick == MayAlwaysClick /\ page.request # "loading"

\* Without a session the functions fail on reading its id.
ClickWithoutSession ==
  /\ MayClick /\ page.session = NoSession
  /\ page' = [page EXCEPT !.request = "error"]
  /\ UNCHANGED <<serverVars, saved, call, lost, reloads, seen, owed>>

SendPiece(r, q) ==
  /\ MayClick /\ ~page.freeOpen /\ page.session # NoSession /\ r \in Free
  /\ page.last # <<"piece", q>>
  /\ Send(r, "piece", "chat", "other", q, Waiting([page EXCEPT !.last = <<"piece", q>>]))
  /\ UNCHANGED <<saved, lost, reloads, seen, owed>>

SendFree(r, q) ==
  /\ MayClick /\ page.freeOpen /\ r \in Free
  /\ page.last # <<"free", q>>
  /\ Send(r, "free", "chat", "other", q, Waiting([page EXCEPT !.last = <<"free", q>>]))
  /\ owed' = owed \ {q}
  /\ UNCHANGED <<saved, lost, reloads, seen>>

\* setRequestState enables every button again after renderSession has disabled
\* GO_NEXT_PIECE, so it can be pressed at the end of the journey too.
JourneyAction(r, action) ==
  /\ MayClick /\ ~page.freeOpen /\ page.session # NoSession /\ r \in Free
  /\ Cardinality({q \in Requests : call[q] = "action"}) + page.timers < MaxTimers
  /\ action \in Presses \cap ({"next", "skip", "pause"} \cup {page.hint})
  /\ Send(r, "action", "action", action, NoQuestion, Waiting(page))
  /\ UNCHANGED <<saved, lost, reloads, seen, owed>>

\* Fault: openFree called by sendPiece before it has reset the request state.
MayOpenStale(p) == page.session # NoSession /\ page.request # "loading" /\ ~page.freeOpen

MayOpen(p) == p.session # NoSession /\ p.request # "loading" /\ ~p.freeOpen
Opening(p) == Waiting([p EXCEPT !.freeOpen = TRUE])

OpenFree(r) ==
  /\ MayClick /\ MayOpen(page) /\ r \in Free
  /\ \E q \in {NoQuestion} \cup ({page.hint} \cap Questions) :
       Send(r, "open", "transition", "open", q, Opening(page))
  /\ UNCHANGED <<saved, lost, reloads, seen, owed>>

CloseFree(r) ==
  /\ MayClick /\ page.freeOpen /\ r \in Free
  /\ Send(r, "close", "transition", "return", NoQuestion, Waiting(page))
  /\ UNCHANGED <<saved, lost, reloads, seen, owed>>

\* window.setTimeout(() => setRequestState("idle"), 700)
TimerFires ==
  /\ page.timers > 0
  /\ page' = [page EXCEPT !.timers = @ - 1, !.request = "idle"]
  /\ UNCHANGED <<serverVars, saved, call, lost, reloads, seen, owed>>

-----------------------------------------------------------------------------
(* Replies *)

Arrived(r, use) == call[r] = use /\ pc[r] = "done"
Succeeded(r) == req[r].outcome = "ok"

\* The function ends; its request is forgotten.
Finish(r, after) ==
  /\ page' = after
  /\ call' = [call EXCEPT ![r] = "none"]
  /\ pc' = [pc EXCEPT ![r] = "idle"]
  /\ SetRequest(r, NewRequest("read", NoSession, "other", NoQuestion))
  /\ UNCHANGED <<journeys, created, lock, restarts>>

\* renderSession leaves out the transition and the context of the session.
Rendered(journey) == [journey EXCEPT !.pending = NoQuestion, !.context = {}]
Shown(r, request) == [page EXCEPT !.view = Rendered(req[r].view), !.request = request]
Show(r) == seen' = seen \cup ({req[r].view.piece} \cap Pieces)

Failed(p) == [p EXCEPT !.request = "error"]

StartSession(r) ==
  /\ Arrived(r, "create") \/ Arrived(r, "restore")
  /\ IF Succeeded(r)
     THEN /\ Finish(r, [Shown(r, "idle") EXCEPT !.session = req[r].sid, !.app = "ready"])
          /\ saved' = req[r].sid
          /\ seen' = (IF req[r].sid = saved THEN seen ELSE {})
                       \cup ({req[r].view.piece} \cap Pieces)
     ELSE /\ IF call[r] = "restore"
             THEN Send(r, "create", "create", "other", NoQuestion, page)
             ELSE Finish(r, Disconnected(page))
          /\ UNCHANGED <<saved, seen>>
  /\ UNCHANGED <<lost, reloads, owed>>

\* sendPiece's reply; the answer may be an error, or move to free chat.
PieceReply(r) ==
  /\ Arrived(r, "piece")
  /\ LET q == req[r].question
         ended == [page EXCEPT !.last = <<>>] IN
     \/ /\ Finish(r, Failed(ended)) /\ UNCHANGED owed
     \/ /\ Succeeded(r) /\ UNCHANGED owed
        /\ \E request \in {"idle", "insufficient"}, hint \in {NoQuestion} \cup (Presses \cap {"short"}) :
             Finish(r, [ended EXCEPT !.request = request, !.hint = hint])
     \/ /\ Succeeded(r) /\ owed' = owed \cup {q}
        /\ LET after == [ended EXCEPT !.request = "idle", !.hint = q] IN
           IF MayOpen(after)
           THEN Send(r, "open", "transition", "open", q, Opening(after))
           ELSE Finish(r, after)
  /\ UNCHANGED <<saved, lost, reloads, seen>>

FreeReply(r) ==
  /\ Arrived(r, "free")
  /\ \E request \in {"success", "insufficient", "error"} :
       /\ request # "error" => Succeeded(r)
       /\ Finish(r, [page EXCEPT !.last = <<>>, !.request = request])
  /\ UNCHANGED <<saved, lost, reloads, seen, owed>>

\* Fault: the reply of an action is not rendered.
ActionReplyUnrendered(r) ==
  /\ Arrived(r, "action")
  /\ Finish(r, IF Succeeded(r)
                THEN [page EXCEPT !.request = "success", !.hint = NoQuestion, !.timers = @ + 1]
                ELSE Failed(page))
  /\ UNCHANGED <<saved, lost, reloads, seen, owed>>

ActionReply(r) ==
  /\ Arrived(r, "action")
  /\ IF Succeeded(r)
     THEN /\ Finish(r, [Shown(r, "success") EXCEPT !.hint = NoQuestion, !.timers = @ + 1])
          /\ Show(r)
     ELSE Finish(r, Failed(page)) /\ UNCHANGED seen
  /\ UNCHANGED <<saved, lost, reloads, owed>>

OpenReply(r) ==
  /\ Arrived(r, "open")
  /\ LET q == req[r].question
         after == Shown(r, "idle") IN
     IF ~Succeeded(r)
     THEN Finish(r, Failed(page)) /\ UNCHANGED <<seen, owed>>
     ELSE /\ Show(r)
          /\ IF q # NoQuestion /\ after.last # <<"free", q>>
             THEN /\ Send(r, "free", "chat", "other", q,
                          Waiting([after EXCEPT !.last = <<"free", q>>]))
                  /\ owed' = owed \ {q}
             ELSE Finish(r, after) /\ UNCHANGED owed
  /\ UNCHANGED <<saved, lost, reloads>>

\* Fault: the session in the reply is not rendered.
CloseReplyUnrendered(r) ==
  /\ Arrived(r, "close")
  /\ Finish(r, IF Succeeded(r) THEN [page EXCEPT !.freeOpen = FALSE, !.request = "idle"]
                ELSE Failed(page))
  /\ UNCHANGED <<saved, lost, reloads, seen, owed>>

CloseReply(r) ==
  /\ Arrived(r, "close")
  /\ IF Succeeded(r)
     THEN Finish(r, [Shown(r, "idle") EXCEPT !.freeOpen = FALSE]) /\ Show(r)
     ELSE Finish(r, Failed(page)) /\ UNCHANGED seen
  /\ UNCHANGED <<saved, lost, reloads, owed>>

\* The network fails: the request is lost before the server sees it, or the
\* page gives up while the server goes on with it.
AfterFailure(r) ==
  CASE call[r] \in {"piece", "free"} -> Failed([page EXCEPT !.last = <<>>])
    [] call[r] = "create" -> Disconnected(page)
    [] OTHER -> Failed(page)

LoseRequest(r) ==
  /\ call[r] # "none" /\ call[r] # "restore"
  /\ lost + reloads < MaxFaults /\ lost' = lost + 1
  /\ \/ pc[r] \in {"find", "create", "done"} /\ Finish(r, AfterFailure(r))
     \/ /\ pc[r] # "done"
        /\ page' = AfterFailure(r) /\ call' = [call EXCEPT ![r] = "none"]
        /\ UNCHANGED serverVars
  /\ UNCHANGED <<saved, reloads, seen, owed>>

\* A saved session that cannot be read is given up for a new one.
LoseRestore(r, fresh) ==
  /\ call[r] = "restore" /\ fresh \in Free
  /\ lost + reloads < MaxFaults /\ lost' = lost + 1
  /\ Start(fresh, "create", NoSession, "other", NoQuestion)
  /\ call' = [call EXCEPT ![r] = "none", ![fresh] = "create"]
  /\ UNCHANGED <<page, journeys, created, lock, restarts, saved, reloads, seen, owed>>

-----------------------------------------------------------------------------

Click(r) ==
  \/ \E q \in Questions : SendPiece(r, q) \/ SendFree(r, q)
  \/ \E action \in Actions : JourneyAction(r, action)
  \/ OpenFree(r) \/ CloseFree(r)

Receive(r) ==
  \/ StartSession(r) \/ PieceReply(r) \/ FreeReply(r)
  \/ ActionReply(r) \/ OpenReply(r) \/ CloseReply(r)

ClientNext ==
  \/ \E r \in Requests : Initialize(r) \/ Click(r) \/ Receive(r) \/ LoseRequest(r)
  \/ \E r, fresh \in Requests : LoseRestore(r, fresh)
  \/ Reload \/ LoseHealth \/ ClickWithoutSession \/ TimerFires
  \/ ServerNext /\ UNCHANGED clientVars

ClientSpec == ClientInit /\ [][ClientNext]_allVars

\* The server's threads run, and a fetch ends with a reply or an error.
FairClientSpec ==
  /\ ClientSpec
  /\ \A r \in Requests :
       /\ WF_allVars(Serve(r) /\ UNCHANGED clientVars)
       /\ WF_allVars(Receive(r))

-----------------------------------------------------------------------------
(* Properties *)

\* "Inputs and buttons are disabled during a request" (docs/WEB_UI.md:80): no
\* second request of the page's user goes out while one is under way.  It
\* takes a user who lets the 700 ms timer fire first (Patient, app.js:279).
SingleFlight == Cardinality(Outstanding) <= 1

\* With nothing under way, and as long as no call was lost, the page shows what
\* the server has, whichever of its functions rendered last (app.js:82-100).
FreshView ==
  lost = 0 /\ Outstanding = {} /\ page.session # NoSession =>
    page.view = Rendered(journeys[page.session])

\* As long as no call was lost, a question that a piece chat hands over to the
\* free chat is asked there (app.js:234, 283-302).
QuestionRestored == lost = 0 /\ Outstanding = {} => owed = {}

\* As long as no call was lost, no piece is completed that the traveller was
\* never shown (app.js:265-280 with demo_journey.py:130-145).
SeenBeforeCompleted ==
  lost = 0 /\ page.session # NoSession => journeys[page.session].completed \subseteq seen

\* The page does not stay disabled for ever, lost calls included: every path of
\* every asynchronous function sets the request state again (app.js:44-57).
LoadingEnds == page.request = "loading" ~> page.request # "loading"
=============================================================================

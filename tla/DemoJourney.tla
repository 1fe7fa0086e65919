---------------------------- MODULE DemoJourney -----------------------------
(***************************************************************************)
(* The demo journey of the web interface: InMemoryDemoJourneyProvider      *)
(* (chat/demo_journey.py) and the handlers of chat/api.py that use it.     *)
(* FastAPI runs the handlers in worker threads.  The provider changes a    *)
(* state under its lock, but hands the state object itself to the          *)
(* handlers, which read it, and in one place write it, without the lock.   *)
(*                                                                         *)
(* Pieces are numbered; LastPiece + 1 stands for current_piece_id None.    *)
(* A state's chat_mode and free_ui_state always change together and are    *)
(* one field here.                                                         *)
(***************************************************************************)
EXTENDS Integers, FiniteSets

CONSTANTS
  Requests,      \* HTTP requests, each handled once by one worker thread
  SessionIds, NoSession,
  LastPiece,     \* the number of DEMO_PIECES (3 in the program)
  Questions, NoQuestion,
  Tags,          \* temporary context entries that an answer may bring
  MaxInFlight,   \* bound: requests handled at the same time
  MaxRestarts    \* bound: restarts of the server process

ASSUME JourneyAssumption ==
  /\ LastPiece \in Nat \ {0} /\ {MaxInFlight, MaxRestarts} \subseteq Nat
  /\ NoSession \notin SessionIds /\ NoQuestion \notin Questions
  /\ IsFiniteSet(Requests) /\ "free" \notin Requests

VARIABLES
  journeys,      \* _states: the state of each session, or NoJourney
  created,       \* session ids handed out
  lock,          \* the thread that holds the provider's lock, or "free"
  pc, req,       \* the request threads
  restarts       \* counts restarts, for the bound

serverVars == <<journeys, created, lock, pc, req, restarts>>

-----------------------------------------------------------------------------

Pieces == 1..LastPiece
Finished == LastPiece + 1
PieceUi == {"prompt", "skipped", "paused", "responding", "hidden"}
AllTags == Tags \cup {"current_fatigue", "prefers_short_current"}

Journey ==
  [ piece: 1..Finished, completed: SUBSET Pieces, step: 1..Finished,
    ui: PieceUi, mode: {"piece", "free"}, pending: Questions \cup {NoQuestion},
    context: SUBSET AllTags ]

FreshJourney ==
  [ piece |-> 1, completed |-> {}, step |-> 1, ui |-> "prompt",
    mode |-> "piece", pending |-> NoQuestion, context |-> {} ]

\* A session without a state: it was never created or the server restarted.
NoJourney == [FreshJourney EXCEPT !.piece = 0]

KnownWithoutState(s) == s \in SessionIds   \* fault: a missing state is not noticed
Known(s) == s \in SessionIds /\ journeys[s] # NoJourney

\* OPEN_FREE_CHAT and RETURN_TO_GAME (CLOSE_FREE_CHAT does the same) also
\* arrive through /api/chat/transition; "other" is outside the capabilities.
Actions == {"next", "skip", "pause", "short", "open", "return", "other"}

\* "switch" is a transition without a from_mode: the state's mode stands for it.
Kinds == {"create", "read", "action", "transition", "switch", "chat"}

Labels ==
  { "idle", "create", "find", "before", "before2", "lock", "apply", "complete",
    "advance", "announce", "compare", "view", "view2", "view3",
    "chat", "merge", "store", "done" }

Request ==
  [ kind: Kinds, sid: SessionIds \cup {NoSession}, action: Actions,
    question: Questions \cup {NoQuestion},
    before: [piece: 0..Finished, completed: SUBSET Pieces],
    changed: BOOLEAN,                      \* game_state_mutation
    own: BOOLEAN,                          \* history: this request moved on
    tags: SUBSET AllTags,
    view: Journey \cup {NoJourney},        \* the session in the reply
    outcome: {"none", "ok", "missing", "refused", "failed", "lost"} ]

NewRequest(kind, s, action, question) ==
  [ kind |-> kind, sid |-> s, action |-> action, question |-> question,
    before |-> [piece |-> 0, completed |-> {}], changed |-> FALSE,
    own |-> FALSE, tags |-> {}, view |-> NoJourney, outcome |-> "none" ]

InFlight == {r \in Requests : pc[r] \notin {"idle", "done"}}
StateOf(r) == journeys[req[r].sid]
Goto(r, l) == pc' = [pc EXCEPT ![r] = l]
SetRequest(r, value) == req' = [req EXCEPT ![r] = value]
SetState(r, value) == journeys' = [journeys EXCEPT ![req[r].sid] = value]
Answer(r, outcome) == Goto(r, "done") /\ SetRequest(r, [req[r] EXCEPT !.outcome = outcome])

ServerInit ==
  /\ journeys = [s \in SessionIds |-> NoJourney]
  /\ created = {} /\ lock = "free"
  /\ pc = [r \in Requests |-> "idle"]
  /\ req = [r \in Requests |-> NewRequest("read", NoSession, "other", NoQuestion)]
  /\ restarts = 0

-----------------------------------------------------------------------------

Start(r, kind, s, action, question) ==
  /\ Goto(r, IF kind = "create" THEN "create" ELSE "find")
  /\ SetRequest(r, NewRequest(kind, s, action, question))

\* Any client may send any request at any time.
Arrive(r) ==
  /\ pc[r] = "idle" /\ Cardinality(InFlight) < MaxInFlight
  /\ \E kind \in Kinds, s \in created \cup {NoSession}, action \in Actions,
        question \in Questions \cup {NoQuestion} :
       /\ (kind = "create") <=> (s = NoSession)
       /\ kind \in {"create", "read", "chat"} => action = "other"
       /\ kind \in {"transition", "switch"} => action \in {"open", "return"}
       /\ action # "open" => question = NoQuestion
       /\ Start(r, kind, s, action, question)
  /\ UNCHANGED <<journeys, created, lock, restarts>>

\* POST /api/session
CreateJourney(r) ==
  /\ pc[r] = "create" /\ lock = "free"
  /\ \E s \in SessionIds \ created :
       /\ created' = created \cup {s}
       /\ journeys' = [journeys EXCEPT ![s] = FreshJourney]
       /\ SetRequest(r, [req[r] EXCEPT !.sid = s])
  /\ Goto(r, "view")
  /\ UNCHANGED <<lock, restarts>>

AfterFind ==
  [ read |-> "view", action |-> "before", transition |-> "lock",
    switch |-> "lock", chat |-> "chat" ]

SourceMode(action) == IF action = "open" THEN "piece" ELSE "free"

\* JourneyProvider.get, and for a transition the choice of its action.
FindJourney(r) ==
  /\ pc[r] = "find" /\ lock = "free"
  /\ IF ~Known(req[r].sid)
     THEN Answer(r, "missing")
     ELSE IF req[r].kind = "switch" /\ StateOf(r).mode # SourceMode(req[r].action)
     THEN Answer(r, "refused")
     ELSE Goto(r, AfterFind[req[r].kind]) /\ UNCHANGED req
  /\ UNCHANGED <<journeys, created, lock, restarts>>

\* journey_action: before = get(...).to_dict()
ReadBefore(r) ==
  /\ \/ /\ pc[r] = "before" /\ Goto(r, "before2")
        /\ SetRequest(r, [req[r] EXCEPT !.before.piece = StateOf(r).piece])
     \/ /\ pc[r] = "before2" /\ Goto(r, "lock")
        /\ SetRequest(r, [req[r] EXCEPT !.before.completed = StateOf(r).completed])
  /\ UNCHANGED <<journeys, created, lock, restarts>>

\* Fault: the lock is not taken.
TakeNoLock(r) ==
  /\ pc[r] = "lock" /\ req[r].action # "other"
  /\ Goto(r, IF req[r].action = "next" THEN "complete" ELSE "apply")
  /\ UNCHANGED <<journeys, created, lock, req, restarts>>

\* apply_action up to "with self._lock"
TakeLock(r) ==
  /\ pc[r] = "lock"
  /\ IF req[r].action = "other"
     THEN Answer(r, "refused") /\ UNCHANGED lock
     ELSE /\ lock = "free" /\ lock' = r
          /\ Goto(r, IF req[r].action = "next" THEN "complete" ELSE "apply")
          /\ UNCHANGED req
  /\ UNCHANGED <<journeys, created, restarts>>

NextLabel(r) == IF req[r].kind = "action" THEN "compare" ELSE "view"
UnlockForgotten(r) == Goto(r, NextLabel(r)) /\ UNCHANGED lock   \* fault
Unlock(r) == Goto(r, NextLabel(r)) /\ lock' = "free"

Effect(state, action, question) ==
  CASE action = "skip" -> [state EXCEPT !.ui = "skipped"]
    [] action = "pause" -> [state EXCEPT !.ui = "paused", !.context = @ \cup {"current_fatigue"}]
    [] action = "short" -> [state EXCEPT !.ui = "responding",
                                         !.context = @ \cup {"prefers_short_current"}]
    [] action = "open" -> [state EXCEPT !.mode = "free", !.pending = question]
    [] action = "return" -> [state EXCEPT !.mode = "piece", !.pending = NoQuestion]

ApplyAction(r) ==
  /\ pc[r] = "apply"
  /\ SetState(r, Effect(StateOf(r), req[r].action, req[r].question))
  /\ Unlock(r)
  /\ UNCHANGED <<created, req, restarts>>

\* _go_next, with the unlocked readers of other threads between its steps.
CompletePiece(r) ==
  /\ pc[r] = "complete"
  /\ IF StateOf(r).piece = Finished
     THEN Unlock(r) /\ UNCHANGED <<journeys, req>>
     ELSE /\ SetState(r, [StateOf(r) EXCEPT !.completed = @ \cup {StateOf(r).piece}])
          /\ SetRequest(r, [req[r] EXCEPT !.own = TRUE])
          /\ Goto(r, "advance") /\ UNCHANGED lock
  /\ UNCHANGED <<created, restarts>>

AdvancePiece(r) ==
  /\ pc[r] = "advance"
  /\ SetState(r, [StateOf(r) EXCEPT !.piece = @ + 1])
  /\ Goto(r, "announce")
  /\ UNCHANGED <<created, lock, req, restarts>>

AnnouncePiece(r) ==
  /\ pc[r] = "announce"
  /\ SetState(r, [StateOf(r) EXCEPT !.step = StateOf(r).piece,
                     !.ui = IF StateOf(r).piece = Finished THEN "hidden" ELSE "prompt"])
  /\ Unlock(r)
  /\ UNCHANGED <<created, req, restarts>>

\* Fault: before is the state object itself and not a copy of it.
CompareWithItself(r) ==
  /\ pc[r] = "compare" /\ Goto(r, "view")
  /\ UNCHANGED <<journeys, created, lock, req, restarts>>

\* journey_action: changed, from the state object without the lock.
Compare(r) ==
  /\ pc[r] = "compare"
  /\ SetRequest(r, [req[r] EXCEPT !.changed =
       \/ req[r].before.piece # StateOf(r).piece
       \/ req[r].before.completed # StateOf(r).completed])
  /\ Goto(r, "view")
  /\ UNCHANGED <<journeys, created, lock, restarts>>

\* Fault: the completed pieces are read before the current one.
ReadViewBackwards(r) ==
  /\ LET state == StateOf(r) IN
     \/ /\ pc[r] = "view" /\ Goto(r, "view3")
        /\ SetRequest(r, [req[r] EXCEPT !.view = state])
     \/ /\ pc[r] = "view3" /\ Goto(r, "done")
        /\ SetRequest(r, [req[r] EXCEPT !.view.piece = state.piece, !.outcome = "ok"])
  /\ UNCHANGED <<journeys, created, lock, restarts>>

\* to_dict without the lock: asdict copies field after field, then
\* completed_piece_ids is read again.
ReadView(r) ==
  /\ LET state == StateOf(r) IN
     \/ /\ pc[r] = "view" /\ Goto(r, "view2")
        /\ SetRequest(r, [req[r] EXCEPT !.view = [state EXCEPT !.completed = {}]])
     \/ /\ pc[r] = "view2" /\ Goto(r, "view3")
        /\ SetRequest(r, [req[r] EXCEPT !.view =
             [state EXCEPT !.piece = req[r].view.piece, !.completed = {}]])
     \/ /\ pc[r] = "view3" /\ Goto(r, "done")
        /\ SetRequest(r, [req[r] EXCEPT !.view.completed = state.completed, !.outcome = "ok"])
  /\ UNCHANGED <<journeys, created, lock, restarts>>

\* _chat: the answer, or an error from the chat service.
Chat(r) ==
  /\ pc[r] = "chat"
  /\ \/ Answer(r, "failed")
     \/ \E tags \in SUBSET Tags :
          Goto(r, "merge") /\ SetRequest(r, [req[r] EXCEPT !.tags = tags])
  /\ UNCHANGED <<journeys, created, lock, restarts>>

\* temporary_context_state is read, joined with the answer's entries ...
MergeContext(r) ==
  /\ pc[r] = "merge"
  /\ SetRequest(r, [req[r] EXCEPT !.tags = @ \cup StateOf(r).context])
  /\ Goto(r, "store")
  /\ UNCHANGED <<journeys, created, lock, restarts>>

\* ... and assigned.
StoreContext(r) ==
  /\ pc[r] = "store"
  /\ SetState(r, [StateOf(r) EXCEPT !.context = req[r].tags])
  /\ Answer(r, "ok")
  /\ UNCHANGED <<created, lock, restarts>>

\* The states and the running requests are lost.
RestartServer ==
  /\ restarts < MaxRestarts /\ restarts' = restarts + 1
  /\ journeys' = [s \in SessionIds |-> NoJourney]
  /\ lock' = "free"
  /\ pc' = [r \in Requests |-> IF r \in InFlight THEN "done" ELSE pc[r]]
  /\ req' = [r \in Requests |->
               IF r \in InFlight THEN [req[r] EXCEPT !.outcome = "lost"] ELSE req[r]]
  /\ UNCHANGED created

Serve(r) ==
  \/ CreateJourney(r) \/ FindJourney(r) \/ ReadBefore(r) \/ TakeLock(r)
  \/ ApplyAction(r) \/ CompletePiece(r) \/ AdvancePiece(r) \/ AnnouncePiece(r)
  \/ Compare(r) \/ ReadView(r) \/ Chat(r) \/ MergeContext(r) \/ StoreContext(r)

ServerNext == (\E r \in Requests : Serve(r)) \/ RestartServer

Next == (\E r \in Requests : Arrive(r)) \/ ServerNext
Spec == ServerInit /\ [][Next]_serverVars

-----------------------------------------------------------------------------
(* Properties *)

\* Every variable keeps the shape its code gives it.
TypeOK ==
  /\ journeys \in [SessionIds -> Journey \cup {NoJourney}]
  /\ created \subseteq SessionIds
  /\ lock \in Requests \cup {"free"}
  /\ pc \in [Requests -> Labels] /\ req \in [Requests -> Request]
  /\ restarts \in 0..MaxRestarts

Moving(s) == \E r \in Requests : pc[r] \in {"advance", "announce"} /\ req[r].sid = s

\* GO_NEXT_PIECE completes the pieces one by one and in order, however many
\* clients ask for it at once: unless a thread is moving the journey on, the
\* completed pieces are those before the current one.
InOrder ==
  \A s \in SessionIds : journeys[s] # NoJourney /\ ~Moving(s) =>
    /\ journeys[s].completed = 1..(journeys[s].piece - 1)
    /\ journeys[s].step = journeys[s].piece

\* A reply is put together without the lock, but it never shows a current
\* piece with an earlier one missing among the completed pieces.
ViewNeverAhead ==
  \A r \in Requests : pc[r] = "done" /\ req[r].outcome = "ok" /\ req[r].kind # "chat" =>
    1..(req[r].view.piece - 1) \subseteq req[r].view.completed

\* A request that moved the journey on says so in game_state_mutation.
MutationReported ==
  \A r \in Requests : pc[r] = "done" /\ req[r].outcome = "ok" /\ req[r].kind = "action" =>
    (req[r].own => req[r].changed)
=============================================================================

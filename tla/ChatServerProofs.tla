-------------------------- MODULE ChatServerProofs --------------------------
(***************************************************************************)
(* Theorems about ChatServer for every set of requests, sessions and       *)
(* chunks, every limit and every number of crashes: first Inv, on which    *)
(* the rest is built, then what becomes of a session, four invariants with *)
(* the strengthening each needs:                                           *)
(*   Pure         no interleaving of the unlocked store, no race on its    *)
(*                file and no restart mixes two conversations;             *)
(*   EvidenceInv  what a session records was handed out by retrieval to a  *)
(*                request of that session;                                 *)
(*   FileInv      one request at a time, an idle server's file is its      *)
(*                memory;                                                  *)
(*   GoneInv      a session that was reset, or that was made for one       *)
(*                answer, is gone from memory and file.                    *)
(***************************************************************************)
EXTENDS ChatServer, SequenceTheorems, FiniteSetTheorems, TLAPS

-----------------------------------------------------------------------------
(* The operators on session objects *)

\* The last n entries of a sequence: at most n of them, all from it.
LEMMA LastOfProperties ==
  ASSUME NEW S, NEW s \in Seq(S), NEW n \in Nat
  PROVE  /\ LastOf(s, n) \in Seq(S)
         /\ Len(LastOf(s, n)) <= n
         /\ Len(LastOf(s, n)) <= Len(s)
         /\ \A i \in DOMAIN LastOf(s, n) :
              \E j \in DOMAIN s : LastOf(s, n)[i] = s[j]
<1>1. CASE Len(s) <= n
  BY <1>1 DEF LastOf
<1>2. CASE Len(s) > n
  <2>1. LastOf(s, n) = SubSeq(s, Len(s) - n + 1, Len(s))
    BY <1>2 DEF LastOf
  <2>2. /\ Len(s) - n + 1 \in 1..(Len(s) + 1)
        /\ Len(s) \in (Len(s) - n)..Len(s)
    BY <1>2
  <2>3. /\ SubSeq(s, Len(s) - n + 1, Len(s)) \in Seq(S)
        /\ Len(SubSeq(s, Len(s) - n + 1, Len(s))) = n
        /\ \A i \in 1..n : SubSeq(s, Len(s) - n + 1, Len(s))[i] = s[Len(s) - n + i]
    BY <1>2, <2>2
  <2>4. ASSUME NEW i \in DOMAIN LastOf(s, n)
        PROVE  \E j \in DOMAIN s : LastOf(s, n)[i] = s[j]
    <3>1. i \in 1..n
      BY <2>1, <2>3
    <3>2. Len(s) - n + i \in DOMAIN s
      BY <1>2, <3>1
    <3> QED
      BY <2>1, <2>3, <3>1, <3>2
  <2> QED
    BY <1>2, <2>1, <2>3, <2>4
<1> QED
  BY <1>1, <1>2

LEMMA NewSessionShape == NewSession \in Session
BY DEF NewSession, Session, Focus

LEMMA SessionFields ==
  ASSUME NEW v \in Session
  PROVE  /\ v.turns \in Seq(Turn) /\ v.summary \in Seq(Turn)
         /\ v.evidence \in Seq(EvidenceTurn) /\ v.focus \in Focus /\ v.anchor \in Focus
BY DEF Session

\* add_turn leaves a session object of the shape it found.
LEMMA TurnShape ==
  ASSUME NEW v \in Session, NEW t \in Turn
  PROVE  /\ AppendTurn(v, t) \in Session
         /\ v.turns # <<>> => PopOldest(v) \in Session /\ Head(v.turns) \in Turn
         /\ Summarised(v.summary, t) \in Seq(Turn)
<1>1. AppendTurn(v, t) \in Session
  <2>1. Append(v.turns, t) \in Seq(Turn)
    BY SessionFields, AppendProperties
  <2> QED
    BY <2>1 DEF AppendTurn, Session
<1>2. v.turns # <<>> => PopOldest(v) \in Session /\ Head(v.turns) \in Turn
  <2>1. v.turns # <<>> => Tail(v.turns) \in Seq(Turn) /\ Head(v.turns) \in Turn
    BY SessionFields, HeadTailProperties
  <2> QED
    BY <2>1 DEF PopOldest, Session
<1>3. Summarised(v.summary, t) \in Seq(Turn)
  <2>1. Append(v.summary, t) \in Seq(Turn)
    BY SessionFields, AppendProperties
  <2>2. LastOf(Append(v.summary, t), SummaryRoom) \in Seq(Turn)
    BY <2>1, LimitsAssumption, LastOfProperties
  <2> QED
    BY <2>2 DEF Summarised
<1> QED
  BY <1>1, <1>2, <1>3

\* So does add_evidence_turn.
LEMMA EvidenceShape ==
  ASSUME NEW v \in Session
  PROVE  /\ KeepRecentEvidence(v) \in Session
         /\ \A e \in EvidenceTurn : AppendEvidence(v, e) \in Session
<1>1. KeepRecentEvidence(v) \in Session
  <2>1. LastOf(v.evidence, MaxTurns) \in Seq(EvidenceTurn)
    BY SessionFields, LimitsAssumption, LastOfProperties
  <2> QED
    BY <2>1 DEF KeepRecentEvidence, Session
<1>2. ASSUME NEW e \in EvidenceTurn
      PROVE  AppendEvidence(v, e) \in Session
  <2>1. Append(v.evidence, e) \in Seq(EvidenceTurn)
    BY SessionFields, AppendProperties
  <2> QED
    BY <2>1 DEF AppendEvidence, Session
<1> QED
  BY <1>1, <1>2

-----------------------------------------------------------------------------
(* The inductive invariant *)

\* The labels at which a request may not have a session yet.
Unassigned == {"idle", "check", "create", "lookup", "reset", "reply", "done"}

\* Where a handler can go on after the store method it is in.
Continuations ==
  {"import", "route", "resolve", "gather", "generate", "evidence", "context",
   "cleanup", "reply", "done"}

\* Which session a request works in, at each point of its handler, when the
\* uuids ids have been issued.
Placed(label, l, ids) ==
  /\ l.sid \in ids \cup {NoSession} /\ l.target \in ids \cup {NoSession}
  /\ l.then \in Continuations
  /\ l.sid = NoSession => label \in Unassigned /\ ~l.guarded
  /\ label \in {"idle", "check", "reset"} => l.sid = NoSession
  /\ label = "idle" => l.target = NoSession
  /\ label \in {"check", "reset"} => l.target # NoSession
  /\ label \in {"create", "lookup"} => l.sid \in {NoSession, l.target}
  /\ label = "import" \/ l.then = "import" => l.target \in {NoSession, l.sid}

ThreadInv == \A r \in Requests : Placed(pc[r], loc[r], issued)

\* Sessions in memory, on disk and in a payload have been issued.
StoreInv ==
  /\ live \subseteq issued /\ disk.image.live \subseteq issued
  /\ \A r \in Requests : loc[r].image.live \subseteq issued

\* No handler survives the server, and only a crash stops it.
DownInv == server # "up" => InFlight = {} /\ crashes > 0

\* Every thread that is about to trim a session has appended a turn that is
\* still there to be removed.
OwedTurns ==
  \A s \in SessionIds :
    Cardinality(Recording(s, {"limit", "pop"})) <= Len(heap[s].turns)

Inv == TypeOK /\ ThreadInv /\ StoreInv /\ DownInv /\ OwedTurns

-----------------------------------------------------------------------------
(* Type correctness *)

\* The sets of recording threads are finite.
LEMMA RecordingFinite ==
  ASSUME NEW s, NEW L
  PROVE  /\ IsFiniteSet(Recording(s, L))
         /\ Cardinality(Recording(s, L)) \in Nat
<1>1. Recording(s, L) \subseteq Requests
  BY DEF Recording
<1> QED
  BY <1>1, FinitenessAssumption, FS_Subset, FS_CardinalityType

\* A thread that is about to pop finds a turn to pop.
LEMMA TurnToEvict ==
  ASSUME Inv, NEW r \in Requests, pc[r] = "pop"
  PROVE  /\ SessionOf(r) \in SessionIds
         /\ heap[SessionOf(r)].turns # <<>>
<1> DEFINE s == SessionOf(r)
<1>1. s \in SessionIds
  BY DEF Inv, ThreadInv, Placed, TypeOK, Unassigned, SessionOf, Local
<1>2. r \in Recording(s, {"limit", "pop"})
  BY DEF Recording
<1>3. Cardinality(Recording(s, {"limit", "pop"})) # 0
  BY <1>2, RecordingFinite, FS_EmptySet
<1>4. Len(heap[s].turns) # 0
  BY <1>1, <1>3, RecordingFinite DEF Inv, OwedTurns, TypeOK, Session
<1> QED
  BY <1>1, <1>4

\* A request with a session works in one of the ids.
LEMMA SessionAssigned ==
  ASSUME Inv, NEW r \in Requests, pc[r] \notin Unassigned
  PROVE  loc[r].sid \in SessionIds
BY DEF Inv, ThreadInv, Placed, TypeOK, Local

LEMMA CardinalityOfSessions ==
  ASSUME NEW S \in SUBSET SessionIds
  PROVE  Cardinality(S) \in Nat
BY FinitenessAssumption, FS_Subset, FS_CardinalityType

LEMMA IdleShape == EmptyImage \in Image /\ IdleLocal \in Local
<1>1. EmptyImage \in Image
  BY NewSessionShape DEF EmptyImage, Image
<1>2. 0 \in 0..MaxImport
  BY BoundsAssumption
<1> QED
  BY <1>1, <1>2 DEF IdleLocal, Local, Outcomes, Labels, AllKinds, Focus

LEMMA ArriveType ==
  ASSUME Inv, NEW r \in Requests, Arrive(r)
  PROVE  TypeOK'
<1> USE DEF Inv, TypeOK
<1> PICK kind \in Kinds, target \in Known \cup {NoSession},
        valid \in BOOLEAN, long \in Lengths :
       /\ Goto(r, FirstLabel[kind])
       /\ SetLocal(r, [IdleLocal EXCEPT !.kind = kind, !.target = target,
                                        !.valid = valid, !.long = long])
  BY DEF Arrive
<1>1. target \in SessionIds \cup {NoSession}
  BY DEF Known, Local
<1>2. FirstLabel[kind] \in Labels
  BY KindsAssumption DEF FirstLabel, AllKinds, Labels
<1>3. kind \in AllKinds /\ long \in BOOLEAN
  BY KindsAssumption
<1>4. [IdleLocal EXCEPT !.kind = kind, !.target = target,
                        !.valid = valid, !.long = long] \in Local
  BY <1>1, <1>3, IdleShape DEF Local
<1> QED
  BY <1>2, <1>4 DEF Arrive, Goto, SetLocal, store, process

\* The building blocks of the actions keep the types of the thread variables.
LEMMA ThreadTypes ==
  ASSUME TypeOK, NEW r \in Requests, NEW l \in Local, NEW label \in Labels,
         NEW outcome \in Outcomes
  PROVE  /\ Goto(r, label) => pc' \in [Requests -> Labels]
         /\ SetLocal(r, l) => loc' \in [Requests -> Local]
         /\ Leave(r, outcome) => pc' \in [Requests -> Labels] /\ loc' \in [Requests -> Local]
         /\ SaveThen(r, label, l) =>
              pc' \in [Requests -> Labels] /\ loc' \in [Requests -> Local]
<1> USE DEF TypeOK
<1>1. loc[r] \in Local /\ [loc[r] EXCEPT !.outcome = outcome] \in Local
  BY DEF Local
<1>2. [l EXCEPT !.then = label] \in Local
  BY DEF Local
<1>3. {"save", "cleanup", "reply"} \subseteq Labels
  BY DEF Labels
<1> QED
  BY <1>1, <1>2, <1>3 DEF Goto, SetLocal, Leave, SaveThen, End

LEMMA HeapType ==
  ASSUME TypeOK, NEW s \in SessionIds, NEW v \in Session, SetSession(s, v)
  PROVE  heap' \in [SessionIds -> Session]
BY DEF TypeOK, SetSession

LEMMA RaiseType ==
  ASSUME TypeOK, NEW r \in Requests, Raise(r)
  PROVE  /\ pc' \in [Requests -> Labels] /\ loc' \in [Requests -> Local]
         /\ UNCHANGED store
<1>1. "failed" \in Outcomes /\ "done" \in Labels
  BY DEF Outcomes, Labels
<1> QED
  BY <1>1, IdleShape, ThreadTypes DEF Raise

LEMMA CheckSessionType ==
  ASSUME Inv, NEW r \in Requests, CheckSession(r)
  PROVE  TypeOK'
<1> USE DEF Inv
<1>1. "rejected" \in Outcomes /\ "import" \in Labels
  BY DEF Outcomes, Labels
<1>2. loc[r] \in Local
  BY DEF TypeOK
<1>3. ASSUME NEW n \in 0..MaxImport
      PROVE  [loc[r] EXCEPT !.sid = loc[r].target, !.left = n] \in Local
  BY <1>2 DEF Local
<1>4. pc' \in [Requests -> Labels] /\ loc' \in [Requests -> Local]
  BY <1>1, <1>2, <1>3, ThreadTypes DEF CheckSession
<1> QED
  BY <1>4 DEF CheckSession, TypeOK, store, process

LEMMA ImportTurnType ==
  ASSUME Inv, NEW r \in Requests, ImportTurn(r)
  PROVE  TypeOK'
<1> USE DEF Inv
<1> DEFINE s == SessionOf(r)
<1>1. s \in SessionIds /\ loc[r] \in Local /\ heap[s] \in Session
  BY SessionAssigned DEF ImportTurn, At, Unassigned, TypeOK, SessionOf
<1>2. CASE HistoryImported(loc[r])
  <2>1. /\ [loc[r] EXCEPT !.target = s, !.guarded = loc[r].kind = "oneshot"] \in Local
        /\ "lookup" \in Labels
    BY <1>1 DEF Local, Labels
  <2>2. pc' \in [Requests -> Labels] /\ loc' \in [Requests -> Local] /\ UNCHANGED store
    BY <1>2, <2>1, ThreadTypes, IdleShape DEF ImportTurn, Outcomes
  <2> QED
    BY <2>2 DEF ImportTurn, TypeOK, store, process
<1>3. CASE ~HistoryImported(loc[r]) /\ s \notin live
  <2>1. Raise(r)
    BY <1>3 DEF ImportTurn
  <2> QED
    BY <2>1, RaiseType DEF ImportTurn, TypeOK, store, process
<1>4. CASE ~HistoryImported(loc[r]) /\ s \in live
  <2>1. [by |-> r, imported |-> TRUE, long |-> FALSE] \in Turn
    BY DEF Turn
  <2>2. AppendTurn(heap[s], [by |-> r, imported |-> TRUE, long |-> FALSE]) \in Session
    BY <1>1, <2>1, TurnShape
  <2>3. heap' \in [SessionIds -> Session]
    BY <1>1, <1>4, <2>2, HeapType DEF ImportTurn
  <2>4. loc[r].left - 1 \in 0..MaxImport
    BY <1>1, <1>4, BoundsAssumption DEF HistoryImported, Local
  <2>5. /\ [loc[r] EXCEPT !.left = @ - 1, !.then = "import"] \in Local
        /\ "limit" \in Labels
    BY <1>1, <2>4 DEF Local, Labels
  <2>6. pc' \in [Requests -> Labels] /\ loc' \in [Requests -> Local]
    BY <1>4, <2>5, ThreadTypes DEF ImportTurn, Outcomes
  <2> QED
    BY <1>4, <2>3, <2>6 DEF ImportTurn, TypeOK, store, process
<1> QED
  BY <1>2, <1>3, <1>4

LEMMA CreateSessionType ==
  ASSUME Inv, NEW r \in Requests, CreateSession(r)
  PROVE  TypeOK'
<1> USE DEF Inv
<1> DEFINE next == CASE loc[r].kind = "open" -> "reply"
                     [] loc[r].kind = "oneshot" /\ loc[r].target = NoSession -> "import"
                     [] loc[r].kind = "stream" -> "resolve"
                     [] OTHER -> "route"
           after(s, n) == [loc[r] EXCEPT !.sid = s, !.left = n,
                             !.outcome = IF loc[r].kind = "open" THEN "answered" ELSE @]
<1> PICK s \in SessionIds \ issued, n \in 0..MaxImport :
       /\ live' = live \cup {s} /\ issued' = issued \cup {s}
       /\ SetSession(s, NewSession)
       /\ SaveThen(r, next, after(s, n))
  BY DEF CreateSession
<1>1. next \in Labels
  BY DEF Labels
<1>a. loc[r] \in Local
  BY DEF TypeOK
<1>2. after(s, n) \in Local
  BY <1>a DEF Local, Outcomes
<1>3. pc' \in [Requests -> Labels] /\ loc' \in [Requests -> Local]
  <2> HIDE DEF next, after
  <2> QED
    BY <1>1, <1>2, ThreadTypes DEF Outcomes
<1>4. heap' \in [SessionIds -> Session]
  BY NewSessionShape, HeapType
<1> QED
  BY <1>3, <1>4 DEF CreateSession, TypeOK, process

LEMMA LookupSessionType ==
  ASSUME Inv, NEW r \in Requests, LookupSession(r)
  PROVE  TypeOK'
<1> USE DEF Inv
<1>1. {"resolve", "route", "create"} \subseteq Labels /\ "rejected" \in Outcomes
  BY DEF Labels, Outcomes
<1>a. loc[r] \in Local
  BY DEF TypeOK
<1>2. loc[r] \in Local /\ [loc[r] EXCEPT !.sid = loc[r].target] \in Local
  BY <1>a DEF Local
<1>3. pc' \in [Requests -> Labels] /\ loc' \in [Requests -> Local]
  <2>1. CASE ~loc[r].valid
    BY <1>1, <1>2, <2>1, ThreadTypes DEF LookupSession
  <2>2. CASE loc[r].valid /\ loc[r].target \in live
    BY <1>1, <1>2, <2>2, ThreadTypes DEF LookupSession
  <2>3. CASE loc[r].valid /\ loc[r].target \notin live
    BY <1>1, <1>2, <2>3, ThreadTypes DEF LookupSession, TypeOK
  <2> QED
    BY <2>1, <2>2, <2>3
<1> QED
  BY <1>3 DEF LookupSession, TypeOK, store, process

\* Reset, the cleanup of answer() and the reply.
LEMMA EndingTypes ==
  ASSUME Inv, NEW r \in Requests,
         ResetSession(r) \/ RemoveEphemeral(r) \/ Reply(r)
  PROVE  TypeOK'
<1> USE DEF Inv
<1>1. {"reply", "done"} \subseteq Labels /\ "answered" \in Outcomes
  BY DEF Labels, Outcomes
<1>2. loc[r] \in Local
  BY DEF TypeOK
<1>3. /\ [loc[r] EXCEPT !.outcome = "answered", !.sid = loc[r].target] \in Local
      /\ [loc[r] EXCEPT !.guarded = FALSE] \in Local
  BY <1>1, <1>2 DEF Local
<1>4. Ended(loc[r], loc[r].outcome) \in Local
  BY <1>2, IdleShape DEF Ended, Local
<1>5. pc' \in [Requests -> Labels] /\ loc' \in [Requests -> Local]
  <2>1. CASE ResetSession(r)
    BY <1>1, <1>3, <2>1, ThreadTypes DEF ResetSession
  <2>2. CASE RemoveEphemeral(r)
    BY <1>1, <1>3, <2>2, ThreadTypes DEF RemoveEphemeral
  <2>3. CASE Reply(r)
    BY <1>1, <1>4, <2>3, ThreadTypes DEF Reply
  <2> QED
    BY <2>1, <2>2, <2>3
<1> QED
  BY <1>5 DEF ResetSession, RemoveEphemeral, Reply, TypeOK, store, process

LEMMA AnswerWithoutRetrievalType ==
  ASSUME Inv, NEW r \in Requests, AnswerWithoutRetrieval(r)
  PROVE  TypeOK'
<1> USE DEF Inv
<1>1. loc[r] \in Local /\ "append" \in Labels /\ "answered" \in Outcomes
  BY DEF TypeOK, Labels, Outcomes
<1>2. [loc[r] EXCEPT !.outcome = "answered"] \in Local
  BY <1>1 DEF Local
<1> QED
  BY <1>1, <1>2, ThreadTypes DEF AnswerWithoutRetrieval, TypeOK, store, process

LEMMA ResolveContextType ==
  ASSUME Inv, NEW r \in Requests, ResolveContext(r)
  PROVE  TypeOK'
<1> USE DEF Inv
<1> DEFINE s == SessionOf(r)
<1>1. s \in SessionIds /\ loc[r] \in Local /\ heap[s] \in Session
  BY SessionAssigned DEF ResolveContext, At, Unassigned, TypeOK, SessionOf
<1>2. CASE s \notin live
  <2>1. Raise(r)
    BY <1>2 DEF ResolveContext
  <2> QED
    BY <2>1, RaiseType DEF ResolveContext, TypeOK, store, process
<1>3. CASE s \in live
  <2> PICK subject \in Subjects \cup {heap[s].focus, heap[s].anchor} :
         /\ SetSession(s, [heap[s] EXCEPT !.focus = subject])
         /\ SaveThen(r, "gather", [loc[r] EXCEPT !.subject = subject])
    BY <1>3 DEF ResolveContext
  <2>1. subject \in Focus
    BY <1>1, SessionFields DEF Focus
  <2>2. [heap[s] EXCEPT !.focus = subject] \in Session
    BY <1>1, <2>1 DEF Session
  <2>3. [loc[r] EXCEPT !.subject = subject] \in Local /\ "gather" \in Labels
    BY <1>1, <2>1 DEF Local, Labels
  <2>4. heap' \in [SessionIds -> Session]
    BY <1>1, <2>2, HeapType
  <2>5. pc' \in [Requests -> Labels] /\ loc' \in [Requests -> Local]
    BY <2>3, ThreadTypes DEF Outcomes
  <2> QED
    BY <1>3, <2>4, <2>5 DEF ResolveContext, TypeOK, store, process
<1> QED
  BY <1>2, <1>3

\* What is remembered or found is a set of indexed chunks.
LEMMA EvidenceIndexed ==
  ASSUME Inv, NEW hits \in Hits, NEW late \in Hits, NEW chosen,
         NEW remembered \in Remembered(chosen), NEW v, NEW older \in Recalled(v)
  PROVE  Composed(remembered, hits, older) \cup late \subseteq index
BY DEF Hits, Remembered, Recalled, Composed

LEMMA GatherEvidenceType ==
  ASSUME Inv, NEW r \in Requests, GatherEvidence(r)
  PROVE  TypeOK'
<1> USE DEF Inv
<1>1. SessionOf(r) \in SessionIds /\ loc[r] \in Local /\ index \subseteq Chunks
  BY SessionAssigned DEF GatherEvidence, At, Unassigned, TypeOK, SessionOf
<1>2. PICK reuse \in Reuses, detailed \in BOOLEAN, hits \in Hits, late \in Hits,
           remembered \in Remembered(LatestEvidence(heap[SessionOf(r)])),
           older \in Recalled(heap[SessionOf(r)]) :
        LET fresh == NeedsNew(reuse, remembered, detailed) IN
        /\ reuse = "no" => remembered = {}
        /\ ~fresh => hits = {}
        /\ found' = [found EXCEPT ![SessionOf(r)] = @ \cup hits \cup late]
        /\ \E chunks \in SUBSET (Composed(remembered, hits, older) \cup late) :
             SetLocal(r, [loc[r] EXCEPT !.chunks = chunks, !.fresh = fresh])
  BY Zenon DEF GatherEvidence
<1> DEFINE fresh == NeedsNew(reuse, remembered, detailed)
<1>3. PICK chunks \in SUBSET (Composed(remembered, hits, older) \cup late) :
        SetLocal(r, [loc[r] EXCEPT !.chunks = chunks, !.fresh = fresh])
  BY <1>2
<1>4. chunks \subseteq Chunks
  BY <1>1, EvidenceIndexed
<1>5. hits \subseteq Chunks /\ late \subseteq Chunks
  BY <1>1 DEF Hits
<1>6. fresh \in BOOLEAN
  BY DEF NeedsNew
<1>7. [loc[r] EXCEPT !.chunks = chunks, !.fresh = fresh] \in Local
  <2> HIDE DEF fresh
  <2> QED
    BY <1>1, <1>4, <1>6 DEF Local
<1>8. pc' \in [Requests -> Labels] /\ loc' \in [Requests -> Local]
  <2> HIDE DEF fresh
  <2> QED
    BY <1>3, <1>7, ThreadTypes DEF GatherEvidence, Labels, Outcomes
<1>9. found' \in [SessionIds -> SUBSET Chunks]
  BY <1>1, <1>2, <1>5 DEF TypeOK
<1> QED
  BY <1>8, <1>9 DEF GatherEvidence, TypeOK, store, process

LEMMA RejectPremiseType ==
  ASSUME Inv, NEW r \in Requests, RejectPremise(r)
  PROVE  TypeOK'
<1> USE DEF Inv
<1>1. /\ SessionOf(r) \in SessionIds /\ loc[r] \in Local /\ index \subseteq Chunks
      /\ heap[SessionOf(r)] \in Session
  BY SessionAssigned DEF RejectPremise, At, Unassigned, TypeOK, SessionOf
<1>2. PICK hits \in Hits, late \in Hits, older \in Recalled(heap[SessionOf(r)]),
           verified \in BOOLEAN :
        \E chunks \in SUBSET late :
          LET l == [loc[r] EXCEPT !.chunks = chunks, !.fresh = TRUE] IN
          /\ Composed({}, hits, older) # {}
          /\ verified => l.subject # NoSubject
          /\ found' = [found EXCEPT ![SessionOf(r)] = @ \cup hits \cup late]
          /\ IF ~verified
             THEN Goto(r, "generate") /\ SetLocal(r, l) /\ UNCHANGED store
             ELSE IF SessionOf(r) \notin live
             THEN Raise(r)
             ELSE /\ SetSession(SessionOf(r), [heap[SessionOf(r)] EXCEPT
                                                 !.focus = l.subject, !.anchor = l.subject])
                  /\ SaveThen(r, "generate", l)
                  /\ UNCHANGED <<live, issued>>
  BY Zenon DEF RejectPremise
<1>3. PICK chunks \in SUBSET late :
          LET l == [loc[r] EXCEPT !.chunks = chunks, !.fresh = TRUE] IN
          /\ found' = [found EXCEPT ![SessionOf(r)] = @ \cup hits \cup late]
          /\ IF ~verified
             THEN Goto(r, "generate") /\ SetLocal(r, l) /\ UNCHANGED store
             ELSE IF SessionOf(r) \notin live
             THEN Raise(r)
             ELSE /\ SetSession(SessionOf(r), [heap[SessionOf(r)] EXCEPT
                                                 !.focus = l.subject, !.anchor = l.subject])
                  /\ SaveThen(r, "generate", l)
                  /\ UNCHANGED <<live, issued>>
  BY <1>2
<1> DEFINE l == [loc[r] EXCEPT !.chunks = chunks, !.fresh = TRUE]
<1>4. hits \subseteq Chunks /\ late \subseteq Chunks
  BY <1>1 DEF Hits
<1>5. l \in Local /\ l.subject \in Focus
  BY <1>1, <1>4 DEF Local
<1>6. found' \in [SessionIds -> SUBSET Chunks]
  BY <1>1, <1>3, <1>4 DEF TypeOK
<1>7. /\ pc' \in [Requests -> Labels] /\ loc' \in [Requests -> Local]
      /\ heap' \in [SessionIds -> Session] /\ UNCHANGED <<live, issued>>
  <2>1. CASE ~verified
    <3>1. Goto(r, "generate") /\ SetLocal(r, l) /\ UNCHANGED store
      BY <1>3, <2>1
    <3> HIDE DEF l
    <3> QED
      BY <1>5, <3>1, ThreadTypes DEF Labels, Outcomes, store, TypeOK
  <2>2. CASE verified /\ SessionOf(r) \notin live
    <3>1. Raise(r)
      BY <1>3, <2>2
    <3> QED
      BY <3>1, RaiseType DEF store, TypeOK
  <2>3. CASE verified /\ SessionOf(r) \in live
    <3> DEFINE v == [heap[SessionOf(r)] EXCEPT !.focus = l.subject, !.anchor = l.subject]
    <3>1. SetSession(SessionOf(r), v) /\ SaveThen(r, "generate", l) /\ UNCHANGED <<live, issued>>
      BY <1>3, <2>3
    <3>2. v \in Session
      <4> HIDE DEF l
      <4> QED
        BY <1>1, <1>5 DEF Session
    <3> HIDE DEF l, v
    <3>3. heap' \in [SessionIds -> Session]
      BY <1>1, <3>1, <3>2, HeapType
    <3>4. pc' \in [Requests -> Labels] /\ loc' \in [Requests -> Local]
      BY <1>5, <3>1, ThreadTypes DEF Labels, Outcomes
    <3> QED
      BY <3>1, <3>3, <3>4
  <2> QED
    BY <2>1, <2>2, <2>3
<1> QED
  BY <1>6, <1>7 DEF RejectPremise, TypeOK, process

\* The ways evidence and generation end.
LEMMA GenerationTypes ==
  ASSUME Inv, NEW r \in Requests,
         \/ FailRetrieval(r) \/ GenerateAnswer(r) \/ StreamAnswer(r) \/ BreakStream(r)
         \/ RejectMode(r)
  PROVE  TypeOK'
<1> USE DEF Inv
<1>1. loc[r] \in Local /\ "append" \in Labels /\ {"answered", "errored", "failed", "rejected"} \subseteq Outcomes
  BY DEF TypeOK, Labels, Outcomes
<1>2. CASE FailRetrieval(r)
  BY <1>2, RaiseType DEF FailRetrieval, TypeOK, store, process
<1>3. CASE GenerateAnswer(r)
  <2>1. PICK outcome \in {"answered", "errored"} :
          SetLocal(r, [loc[r] EXCEPT !.outcome = outcome,
            !.toEvidence = loc[r].chunks # {} /\ loc[r].fresh,
            !.toContext = loc[r].chunks # {}])
    BY <1>3 DEF GenerateAnswer
  <2>2. [loc[r] EXCEPT !.outcome = outcome,
            !.toEvidence = loc[r].chunks # {} /\ loc[r].fresh,
            !.toContext = loc[r].chunks # {}] \in Local
    BY <1>1 DEF Local
  <2>3. pc' \in [Requests -> Labels] /\ loc' \in [Requests -> Local]
    BY <1>1, <1>3, <2>1, <2>2, ThreadTypes DEF GenerateAnswer
  <2> QED
    BY <1>3, <2>3 DEF GenerateAnswer, TypeOK, store, process
<1>4. CASE StreamAnswer(r)
  <2>1. PICK ending \in Endings :
          SetLocal(r, [loc[r] EXCEPT
            !.outcome = IF ending = "error" THEN "errored" ELSE "answered",
            !.toEvidence = ending \in {"related", "completed"} /\ loc[r].fresh,
            !.toContext = ending = "completed"])
    BY <1>4 DEF StreamAnswer
  <2>2. [loc[r] EXCEPT
            !.outcome = IF ending = "error" THEN "errored" ELSE "answered",
            !.toEvidence = ending \in {"related", "completed"} /\ loc[r].fresh,
            !.toContext = ending = "completed"] \in Local
    BY <1>1 DEF Local
  <2>3. pc' \in [Requests -> Labels] /\ loc' \in [Requests -> Local]
    BY <1>1, <1>4, <2>1, <2>2, ThreadTypes DEF StreamAnswer
  <2> QED
    BY <1>4, <2>3 DEF StreamAnswer, TypeOK, store, process
<1>5. CASE BreakStream(r)
  BY <1>1, <1>5, ThreadTypes DEF BreakStream, TypeOK, store, process
<1>6. CASE RejectMode(r)
  BY <1>1, <1>6, ThreadTypes DEF RejectMode, TypeOK, store, process
<1> QED
  BY <1>2, <1>3, <1>4, <1>5, <1>6

\* The labels a handler goes on to after the turn.
LEMMA NextLabels ==
  ASSUME NEW l
  PROVE  End(l) \in Labels /\ AfterEvidence(l) \in Labels /\ AfterTurn(l) \in Labels
BY DEF End, AfterEvidence, AfterTurn, Labels

\* add_turn, up to the first _save.
LEMMA TurnTypes ==
  ASSUME Inv, NEW r \in Requests,
         RecordTurn(r) \/ CheckLimit(r) \/ EvictTurn(r) \/ AssignSummary(r)
  PROVE  TypeOK'
<1> USE DEF Inv
<1>1. loc[r] \in Local /\ {"limit", "pop", "summary"} \subseteq Labels /\ "failed" \in Outcomes
  BY DEF TypeOK, Labels, Outcomes
<1>2. SessionOf(r) \in SessionIds /\ heap[SessionOf(r)] \in Session
  BY SessionAssigned
     DEF RecordTurn, CheckLimit, EvictTurn, AssignSummary, At, Unassigned, TypeOK, SessionOf
<1>3. CASE RecordTurn(r)
  <2>1. CASE SessionOf(r) \notin live
    <3>1. Raise(r)
      BY <1>3, <2>1 DEF RecordTurn
    <3> QED
      BY <1>3, <3>1, RaiseType DEF RecordTurn, TypeOK, store, process
  <2>2. CASE SessionOf(r) \in live
    <3> DEFINE t == [by |-> r, imported |-> FALSE, long |-> loc[r].long]
    <3>1. t \in Turn
      BY <1>1 DEF Turn, Local
    <3>2. heap' \in [SessionIds -> Session]
      BY <1>2, <1>3, <2>2, <3>1, TurnShape, HeapType DEF RecordTurn
    <3>3. [loc[r] EXCEPT !.then = AfterTurn(loc[r])] \in Local
      BY <1>1, NextLabels DEF Local
    <3>4. pc' \in [Requests -> Labels] /\ loc' \in [Requests -> Local]
      BY <1>1, <1>3, <2>2, <3>3, ThreadTypes DEF RecordTurn
    <3> QED
      BY <1>3, <2>2, <3>2, <3>4 DEF RecordTurn, TypeOK, process
  <2> QED
    BY <2>1, <2>2
<1>4. CASE CheckLimit(r)
  <2>1. loc[r].then \in Labels
    BY <1>1 DEF Local
  <2>2. pc' \in [Requests -> Labels] /\ loc' \in [Requests -> Local]
    <3>1. CASE OverLimit(heap[SessionOf(r)])
      BY <1>1, <1>4, <3>1, ThreadTypes DEF CheckLimit, TypeOK
    <3>2. CASE ~OverLimit(heap[SessionOf(r)])
      BY <1>1, <1>4, <2>1, <3>2, ThreadTypes DEF CheckLimit
    <3> QED
      BY <3>1, <3>2
  <2> QED
    BY <1>4, <2>2 DEF CheckLimit, TypeOK, store, process
<1>5. CASE EvictTurn(r)
  <2> DEFINE v == heap[SessionOf(r)]
             summary == Summarised(v.summary, Head(v.turns))
  <2>1. v.turns # <<>>
    BY <1>5, TurnToEvict DEF EvictTurn, At
  <2>2. PopOldest(v) \in Session /\ summary \in Seq(Turn)
    <3>1. Head(v.turns) \in Turn
      BY <1>2, <2>1, SessionFields, HeadTailProperties
    <3> QED
      BY <1>2, <2>1, <3>1, TurnShape
  <2>3. heap' \in [SessionIds -> Session]
    BY <1>2, <1>5, <2>2, HeapType DEF EvictTurn
  <2>4. [loc[r] EXCEPT !.summary = summary] \in Local
    <3> HIDE DEF summary
    <3> QED
      BY <1>1, <2>2 DEF Local
  <2>5. pc' \in [Requests -> Labels] /\ loc' \in [Requests -> Local]
    BY <1>1, <1>5, <2>4, ThreadTypes DEF EvictTurn
  <2> QED
    BY <1>5, <2>3, <2>5 DEF EvictTurn, TypeOK, process
<1>6. CASE AssignSummary(r)
  <2>1. loc[r].then \in Labels /\ loc[r].summary \in Seq(Turn)
    BY <1>1 DEF Local
  <2>2. [heap[SessionOf(r)] EXCEPT !.summary = loc[r].summary] \in Session
    BY <1>2, <2>1 DEF Session
  <2>3. heap' \in [SessionIds -> Session]
    BY <1>2, <1>6, <2>2, HeapType DEF AssignSummary
  <2>4. pc' \in [Requests -> Labels] /\ loc' \in [Requests -> Local]
    BY <1>1, <1>6, <2>1, ThreadTypes DEF AssignSummary
  <2> QED
    BY <1>6, <2>3, <2>4 DEF AssignSummary, TypeOK, process
<1> QED
  BY <1>3, <1>4, <1>5, <1>6

\* add_evidence_turn and update_context.
LEMMA RecordTypes ==
  ASSUME Inv, NEW r \in Requests,
         RecordEvidence(r) \/ TrimEvidence(r) \/ UpdateContext(r)
  PROVE  TypeOK'
<1> USE DEF Inv
<1>1. loc[r] \in Local /\ "window" \in Labels /\ "failed" \in Outcomes
  BY DEF TypeOK, Labels, Outcomes
<1>2. SessionOf(r) \in SessionIds /\ heap[SessionOf(r)] \in Session
  BY SessionAssigned
     DEF RecordEvidence, TrimEvidence, UpdateContext, At, Unassigned, TypeOK, SessionOf
<1>3. CASE RecordEvidence(r)
  <2>1. CASE SessionOf(r) \notin live
    <3>1. Raise(r)
      BY <1>3, <2>1 DEF RecordEvidence
    <3> QED
      BY <1>3, <3>1, RaiseType DEF RecordEvidence, TypeOK, store, process
  <2>2. CASE SessionOf(r) \in live
    <3>1. [by |-> r, chunks |-> loc[r].chunks] \in EvidenceTurn
      BY <1>1 DEF EvidenceTurn, Local
    <3>2. heap' \in [SessionIds -> Session]
      BY <1>2, <1>3, <2>2, <3>1, EvidenceShape, HeapType DEF RecordEvidence
    <3>3. pc' \in [Requests -> Labels]
      BY <1>1, <1>3, <2>2, ThreadTypes DEF RecordEvidence
    <3> QED
      BY <1>3, <2>2, <3>2, <3>3 DEF RecordEvidence, TypeOK, process
  <2> QED
    BY <2>1, <2>2
<1>4. CASE TrimEvidence(r)
  <2>1. heap' \in [SessionIds -> Session]
    BY <1>2, <1>4, EvidenceShape, HeapType DEF TrimEvidence
  <2>2. pc' \in [Requests -> Labels] /\ loc' \in [Requests -> Local]
    BY <1>1, <1>4, NextLabels, ThreadTypes DEF TrimEvidence
  <2> QED
    BY <1>4, <2>1, <2>2 DEF TrimEvidence, TypeOK, process
<1>5. CASE UpdateContext(r)
  <2>1. CASE SessionOf(r) \notin live
    <3>1. Raise(r)
      BY <1>5, <2>1 DEF UpdateContext
    <3> QED
      BY <1>5, <3>1, RaiseType DEF UpdateContext, TypeOK, store, process
  <2>2. CASE SessionOf(r) \in live
    <3>1. loc[r].subject \in Focus
      BY <1>1 DEF Local
    <3>2. [heap[SessionOf(r)] EXCEPT !.focus = loc[r].subject,
                                     !.anchor = loc[r].subject] \in Session
      BY <1>2, <3>1 DEF Session
    <3>3. heap' \in [SessionIds -> Session]
      BY <1>2, <1>5, <2>2, <3>2, HeapType DEF UpdateContext
    <3>4. pc' \in [Requests -> Labels] /\ loc' \in [Requests -> Local]
      BY <1>1, <1>5, <2>2, NextLabels, ThreadTypes DEF UpdateContext
    <3> QED
      BY <1>5, <2>2, <3>3, <3>4 DEF UpdateContext, TypeOK, process
  <2> QED
    BY <2>1, <2>2
<1> QED
  BY <1>3, <1>4, <1>5

LEMMA SnapshotShape ==
  ASSUME TypeOK
  PROVE  Snapshot \in Image
BY NewSessionShape DEF TypeOK, Snapshot, Image

\* _save.
LEMMA SaveTypes ==
  ASSUME Inv, NEW r \in Requests, BeginSave(r) \/ OpenFile(r) \/ WriteFile(r)
  PROVE  TypeOK'
<1> USE DEF Inv
<1>1. /\ loc[r] \in Local /\ {"open", "write"} \subseteq Labels /\ "failed" \in Outcomes
      /\ loc[r].then \in Labels /\ loc[r].image \in Image
  <2>1. loc[r] \in Local
    BY DEF TypeOK
  <2> QED
    BY <2>1 DEF Local, Labels, Outcomes
<1>2. CASE BeginSave(r)
  <2>1. Cardinality(live) \in Nat
    BY CardinalityOfSessions DEF TypeOK
  <2>2. [loc[r] EXCEPT !.size = Cardinality(live)] \in Local
    BY <1>1, <2>1 DEF Local
  <2>3. pc' \in [Requests -> Labels] /\ loc' \in [Requests -> Local]
    BY <1>1, <1>2, <2>2, ThreadTypes DEF BeginSave
  <2> QED
    BY <1>2, <2>3 DEF BeginSave, TypeOK, store, process
<1>3. CASE OpenFile(r)
  <2>1. CASE Cardinality(live) # loc[r].size
    <3>1. Raise(r) /\ UNCHANGED disk
      BY <1>3, <2>1 DEF OpenFile
    <3> QED
      BY <1>3, <3>1, RaiseType DEF OpenFile, TypeOK, store, process
  <2>2. CASE Cardinality(live) = loc[r].size
    <3>1. [loc[r] EXCEPT !.image = Snapshot] \in Local
      BY <1>1, SnapshotShape DEF Local
    <3>2. pc' \in [Requests -> Labels] /\ loc' \in [Requests -> Local]
      BY <1>1, <1>3, <2>2, <3>1, ThreadTypes DEF OpenFile
    <3>3. disk' \in [state: {"absent", "empty", "torn", "whole"}, image: Image]
      BY <1>3, <2>2, IdleShape DEF OpenFile
    <3> QED
      BY <1>3, <2>2, <3>2, <3>3 DEF OpenFile, TypeOK, store, process
  <2> QED
    BY <2>1, <2>2
<1>4. CASE WriteFile(r)
  <2>1. [loc[r] EXCEPT !.image = EmptyImage, !.size = 0] \in Local
    BY <1>1, IdleShape DEF Local
  <2>2. pc' \in [Requests -> Labels] /\ loc' \in [Requests -> Local]
    BY <1>1, <1>4, <2>1, ThreadTypes DEF WriteFile
  <2>3. disk' \in [state: {"absent", "empty", "torn", "whole"}, image: Image]
    BY <1>1, <1>4, IdleShape DEF WriteFile
  <2> QED
    BY <1>4, <2>2, <2>3 DEF WriteFile, TypeOK, store, process
<1> QED
  BY <1>2, <1>3, <1>4

\* The server process.
LEMMA ProcessTypes ==
  ASSUME Inv, Crash \/ Restart
  PROVE  TypeOK'
<1> USE DEF Inv
<1>1. CASE Crash
  <2>1. \A r \in Requests : Ended(loc[r], "lost") \in Local /\ loc[r] \in Local
    <3> TAKE r \in Requests
    <3>1. loc[r] \in Local
      BY DEF TypeOK
    <3> QED
      BY <3>1, IdleShape DEF Ended, Local, Outcomes
  <2>2. pc' \in [Requests -> Labels] /\ loc' \in [Requests -> Local]
    BY <1>1, <2>1 DEF Crash, TypeOK, Labels
  <2>3. heap' \in [SessionIds -> Session] /\ live' \subseteq SessionIds
    BY <1>1, NewSessionShape DEF Crash
  <2>4. crashes' \in 0..MaxCrashes
    BY <1>1, BoundsAssumption DEF Crash, TypeOK
  <2> QED
    BY <1>1, <2>2, <2>3, <2>4 DEF Crash, TypeOK
<1>2. CASE Restart
  <2>1. disk.image.live \subseteq SessionIds /\ disk.image.heap \in [SessionIds -> Session]
    BY DEF TypeOK, Image
  <2>2. /\ live' \subseteq SessionIds /\ heap' \in [SessionIds -> Session]
        /\ server' \in {"up", "down", "refused"}
    <3>1. CASE disk.state = "whole"
      BY <1>2, <2>1, <3>1 DEF Restart
    <3>2. CASE disk.state = "absent"
      BY <1>2, <3>2 DEF Restart, TypeOK
    <3>3. CASE disk.state \notin {"whole", "absent"}
      BY <1>2, <3>3 DEF Restart, TypeOK
    <3> QED
      BY <3>1, <3>2, <3>3
  <2> QED
    BY <1>2, <2>2 DEF Restart, TypeOK
<1> QED
  BY <1>1, <1>2

\* No step takes a variable out of its type.
LEMMA TypePreserved ==
  ASSUME Inv, [Next]_vars
  PROVE  TypeOK'
<1>1. CASE UNCHANGED vars
  BY <1>1 DEF vars, Inv, TypeOK
<1>2. CASE Crash \/ Restart
  BY <1>2, ProcessTypes
<1>3. ASSUME NEW r \in Requests, Arrive(r)
      PROVE  TypeOK'
  BY <1>3, ArriveType
<1>4. ASSUME NEW r \in Requests, Handle(r)
      PROVE  TypeOK'
  BY <1>4, CheckSessionType, ImportTurnType, CreateSessionType, LookupSessionType,
     EndingTypes, AnswerWithoutRetrievalType, ResolveContextType, GatherEvidenceType,
     RejectPremiseType, GenerationTypes, TurnTypes, RecordTypes, SaveTypes
     DEF Handle
<1> QED
  BY <1>1, <1>2, <1>3, <1>4 DEF Next

-----------------------------------------------------------------------------
(* Every handler works in a session that was issued *)

LEMMA ArrivePlaced ==
  ASSUME Inv, NEW r \in Requests, Arrive(r)
  PROVE  Placed(pc'[r], loc'[r], issued')
<1> PICK kind \in Kinds, target \in Known \cup {NoSession},
        valid \in BOOLEAN, long \in Lengths :
       /\ kind \in {"answer", "reset"} => target # NoSession
       /\ kind \in {"open", "oneshot"} => target = NoSession
       /\ Goto(r, FirstLabel[kind])
       /\ SetLocal(r, [IdleLocal EXCEPT !.kind = kind, !.target = target,
                                        !.valid = valid, !.long = long])
  BY DEF Arrive
<1>1. target \in issued \cup {NoSession} /\ issued' = issued
  BY DEF Known, Inv, ThreadInv, Placed, Arrive, store
<1>2. pc'[r] = FirstLabel[kind]
  BY DEF Goto, Inv, TypeOK
<1>3. loc'[r] = [IdleLocal EXCEPT !.kind = kind, !.target = target,
                                  !.valid = valid, !.long = long]
  BY DEF SetLocal, Inv, TypeOK
<1>4. /\ loc'[r].sid = NoSession /\ loc'[r].target = target /\ loc'[r].then = "done"
      /\ ~loc'[r].guarded
  BY <1>3 DEF IdleLocal
<1>5. /\ pc'[r] \in {"check", "create", "lookup", "reset"}
      /\ pc'[r] \in {"check", "reset"} => kind \in {"answer", "reset"}
  BY <1>2, KindsAssumption DEF FirstLabel, AllKinds
<1> QED
  BY <1>1, <1>4, <1>5 DEF Placed, Unassigned, Continuations

\* The steps that end a request or leave its session as it is.
LEMMA LeavePlaced ==
  ASSUME Inv, NEW r \in Requests, NEW outcome, Leave(r, outcome), issued \subseteq issued'
  PROVE  Placed(pc'[r], loc'[r], issued')
<1>1. pc'[r] = End(loc[r]) /\ loc'[r] = [loc[r] EXCEPT !.outcome = outcome]
  BY DEF Leave, Goto, SetLocal, Inv, TypeOK
<1>2. loc[r] \in Local
  BY DEF Inv, TypeOK
<1>3. /\ loc'[r].sid = loc[r].sid /\ loc'[r].target = loc[r].target
      /\ loc'[r].then = loc[r].then /\ loc'[r].guarded = loc[r].guarded
  BY <1>1, <1>2 DEF Local
<1> QED
  BY <1>1, <1>3 DEF End, Placed, Inv, ThreadInv, Unassigned

LEMMA SavePlaced ==
  ASSUME Inv, NEW r \in Requests, NEW l \in Local, NEW next \in Continuations,
         SaveThen(r, next, l), NEW ids,
         l.sid \in ids /\ l.target \in ids \cup {NoSession},
         next = "import" => l.target \in {NoSession, l.sid},
         NoSession \notin ids
  PROVE  Placed(pc'[r], loc'[r], ids)
<1>1. loc'[r] = [l EXCEPT !.then = next] /\ pc'[r] \in {"save", next}
  BY DEF SaveThen, Goto, SetLocal, Inv, TypeOK
<1>2. /\ loc'[r].sid = l.sid /\ loc'[r].target = l.target
      /\ loc'[r].then = next /\ loc'[r].guarded = l.guarded
  BY <1>1 DEF Local
<1> QED
  BY <1>1, <1>2 DEF Placed, Unassigned, Continuations

LEMMA EntryPlaced ==
  ASSUME Inv, NEW r \in Requests,
         CheckSession(r) \/ ImportTurn(r) \/ CreateSession(r) \/ LookupSession(r)
  PROVE  Placed(pc'[r], loc'[r], issued')
<1>1. loc[r] \in Local /\ Placed(pc[r], loc[r], issued) /\ NoSession \notin SessionIds
  BY SessionAssumption DEF Inv, TypeOK, ThreadInv
<1>2. CASE CheckSession(r)
  <2>1. CASE loc[r].target \notin live
    <3>1. Leave(r, "rejected") /\ issued' = issued
      BY <1>2, <2>1 DEF CheckSession, store
    <3> QED
      BY <3>1, LeavePlaced
  <2>2. CASE loc[r].target \in live
    <3>1. PICK n \in 0..MaxImport :
            SetLocal(r, [loc[r] EXCEPT !.sid = loc[r].target, !.left = n])
      BY <1>2, <2>2 DEF CheckSession
    <3>2. loc'[r] = [loc[r] EXCEPT !.sid = loc[r].target, !.left = n]
      BY <3>1 DEF SetLocal, Inv, TypeOK
    <3>3. /\ loc'[r].sid = loc[r].target /\ loc'[r].target = loc[r].target
          /\ loc'[r].then = loc[r].then /\ loc'[r].guarded = loc[r].guarded
      BY <1>1, <3>2 DEF Local
    <3>4. pc[r] = "check" /\ pc'[r] = "import" /\ issued' = issued
      BY <1>2, <2>2 DEF CheckSession, Goto, At, Inv, TypeOK, store
    <3> QED
      BY <1>1, <3>3, <3>4 DEF Placed
  <2> QED
    BY <2>1, <2>2
<1>3. CASE ImportTurn(r)
  <2>0. pc[r] = "import" /\ issued' = issued
    BY <1>3 DEF ImportTurn, At, store, Raise
  <2>1. CASE HistoryImported(loc[r])
    <3>1. /\ pc'[r] = "lookup"
          /\ loc'[r] = [loc[r] EXCEPT !.target = loc[r].sid,
                                      !.guarded = loc[r].kind = "oneshot"]
      BY <1>3, <2>1 DEF ImportTurn, Goto, SetLocal, SessionOf, Inv, TypeOK
    <3>2. /\ loc'[r].sid = loc[r].sid /\ loc'[r].target = loc[r].sid
          /\ loc'[r].then = loc[r].then
      BY <1>1, <3>1 DEF Local
    <3> QED
      BY <1>1, <2>0, <3>1, <3>2 DEF Placed, Unassigned
  <2>2. CASE ~HistoryImported(loc[r]) /\ SessionOf(r) \notin live
    <3>1. Leave(r, "failed")
      BY <1>3, <2>2 DEF ImportTurn, Raise
    <3> QED
      BY <2>0, <3>1, LeavePlaced
  <2>3. CASE ~HistoryImported(loc[r]) /\ SessionOf(r) \in live
    <3>1. /\ pc'[r] = "limit"
          /\ loc'[r] = [loc[r] EXCEPT !.left = @ - 1, !.then = "import"]
      BY <1>3, <2>3 DEF ImportTurn, Goto, SetLocal, Inv, TypeOK
    <3>2. /\ loc'[r].sid = loc[r].sid /\ loc'[r].target = loc[r].target
          /\ loc'[r].then = "import" /\ loc'[r].guarded = loc[r].guarded
      BY <1>1, <3>1 DEF Local
    <3> QED
      BY <1>1, <2>0, <3>1, <3>2 DEF Placed, Unassigned, Continuations
  <2> QED
    BY <2>1, <2>2, <2>3
<1>4. CASE CreateSession(r)
  <2> DEFINE next == CASE loc[r].kind = "open" -> "reply"
                       [] loc[r].kind = "oneshot" /\ loc[r].target = NoSession -> "import"
                       [] loc[r].kind = "stream" -> "resolve"
                       [] OTHER -> "route"
             after(s, n) == [loc[r] EXCEPT !.sid = s, !.left = n,
                               !.outcome = IF loc[r].kind = "open" THEN "answered" ELSE @]
  <2> PICK s \in SessionIds \ issued, n \in 0..MaxImport :
         issued' = issued \cup {s} /\ SaveThen(r, next, after(s, n))
    BY <1>4 DEF CreateSession
  <2>1. next \in Continuations /\ (next = "import" => loc[r].target = NoSession)
    BY DEF Continuations
  <2>2. after(s, n) \in Local /\ after(s, n).sid = s /\ after(s, n).target = loc[r].target
    BY <1>1 DEF Local, Outcomes
  <2>3. loc[r].target \in issued' \cup {NoSession} /\ s \in issued' /\ NoSession \notin issued'
    BY <1>1 DEF Placed, Inv, TypeOK
  <2> HIDE DEF next, after
  <2> QED
    BY <2>1, <2>2, <2>3, SavePlaced
<1>5. CASE LookupSession(r)
  <2>0. pc[r] = "lookup" /\ issued' = issued
    BY <1>5 DEF LookupSession, At, store
  <2>1. CASE ~loc[r].valid
    <3>1. Leave(r, "rejected")
      BY <1>5, <2>1 DEF LookupSession
    <3> QED
      BY <2>0, <3>1, LeavePlaced
  <2>2. CASE loc[r].valid /\ loc[r].target \in live
    <3>1. /\ pc'[r] \in {"resolve", "route"}
          /\ loc'[r] = [loc[r] EXCEPT !.sid = loc[r].target]
      BY <1>5, <2>2 DEF LookupSession, Goto, SetLocal, Inv, TypeOK
    <3>2. /\ loc'[r].sid = loc[r].target /\ loc'[r].target = loc[r].target
          /\ loc'[r].then = loc[r].then
      BY <1>1, <3>1 DEF Local
    <3>3. loc[r].target # NoSession
      BY <1>1, <2>2 DEF Inv, TypeOK
    <3> QED
      BY <1>1, <2>0, <3>1, <3>2, <3>3 DEF Placed, Unassigned
  <2>3. CASE loc[r].valid /\ loc[r].target \notin live
    <3>1. pc'[r] = "create" /\ loc'[r] = loc[r]
      BY <1>5, <2>3 DEF LookupSession, Goto, Inv, TypeOK
    <3> QED
      BY <1>1, <2>0, <3>1 DEF Placed, Unassigned
  <2> QED
    BY <2>1, <2>2, <2>3
<1> QED
  BY <1>2, <1>3, <1>4, <1>5

LEMMA EndingPlaced ==
  ASSUME Inv, NEW r \in Requests,
         ResetSession(r) \/ RemoveEphemeral(r) \/ Reply(r)
  PROVE  Placed(pc'[r], loc'[r], issued')
<1>1. /\ loc[r] \in Local /\ Placed(pc[r], loc[r], issued) /\ NoSession \notin issued
      /\ issued' = issued
  BY SessionAssumption
     DEF Inv, TypeOK, ThreadInv, ResetSession, RemoveEphemeral, Reply, store
<1>2. CASE ResetSession(r)
  <2> DEFINE l == [loc[r] EXCEPT !.outcome = "answered", !.sid = loc[r].target]
  <2>1. l \in Local /\ l.sid = loc[r].target /\ l.target = loc[r].target /\ l.then = loc[r].then
    BY <1>1 DEF Local, Outcomes
  <2>2. l.sid \in issued
    BY <1>1, <1>2, <2>1 DEF ResetSession, At, Placed
  <2>3. CASE SaveThen(r, "reply", l)
    <3> HIDE DEF l
    <3> QED
      BY <1>1, <2>1, <2>2, <2>3, SavePlaced DEF Continuations
  <2>4. CASE Goto(r, "reply") /\ SetLocal(r, l)
    <3>1. pc'[r] = "reply" /\ loc'[r] = l
      BY <2>4 DEF Goto, SetLocal, Inv, TypeOK
    <3> QED
      BY <1>1, <2>1, <2>2, <3>1 DEF Placed
  <2> QED
    BY <1>2, <2>3, <2>4 DEF ResetSession
<1>3. CASE RemoveEphemeral(r)
  <2> DEFINE l == [loc[r] EXCEPT !.guarded = FALSE]
  <2>1. l \in Local /\ l.sid = loc[r].sid /\ l.target = loc[r].target /\ l.then = loc[r].then
    BY <1>1 DEF Local
  <2>2. l.sid \in issued
    BY <1>1, <1>3, <2>1 DEF RemoveEphemeral, At, Placed, Unassigned
  <2>3. CASE SaveThen(r, "reply", l)
    <3> HIDE DEF l
    <3> QED
      BY <1>1, <2>1, <2>2, <2>3, SavePlaced DEF Placed, Continuations
  <2>4. CASE Goto(r, "reply") /\ SetLocal(r, l)
    <3>1. pc'[r] = "reply" /\ loc'[r] = l
      BY <2>4 DEF Goto, SetLocal, Inv, TypeOK
    <3> QED
      BY <1>1, <2>1, <2>2, <3>1 DEF Placed
  <2> QED
    BY <1>3, <2>3, <2>4 DEF RemoveEphemeral
<1>4. CASE Reply(r)
  <2>1. pc'[r] = "done" /\ loc'[r] = Ended(loc[r], loc[r].outcome)
    BY <1>4 DEF Reply, Goto, SetLocal, Inv, TypeOK
  <2>2. /\ loc'[r].sid = loc[r].sid /\ loc'[r].target = loc[r].target
        /\ loc'[r].then = "done" /\ ~loc'[r].guarded
    BY <2>1 DEF Ended, IdleLocal
  <2> QED
    BY <1>1, <2>1, <2>2 DEF Placed, Unassigned, Continuations
<1> QED
  BY <1>2, <1>3, <1>4

\* The steps between the lookup and the reply.
LEMMA WorkPlaced ==
  ASSUME Inv, NEW r \in Requests, pc[r] \notin Unassigned,
         pc'[r] \notin Unassigned \cup {"import"}, issued' = issued,
         loc'[r].sid = loc[r].sid, loc'[r].target = loc[r].target,
         loc'[r].then = loc[r].then \/ loc'[r].then \in Continuations \ {"import"}
  PROVE  Placed(pc'[r], loc'[r], issued')
BY DEF Inv, ThreadInv, Placed, Unassigned

LEMMA NextContinuations ==
  ASSUME NEW l
  PROVE  /\ {End(l), AfterEvidence(l), AfterTurn(l)} \subseteq Continuations \ {"import"}
BY DEF End, AfterEvidence, AfterTurn, Continuations

LEMMA AnswerPlaced ==
  ASSUME Inv, NEW r \in Requests,
         \/ AnswerWithoutRetrieval(r) \/ ResolveContext(r) \/ GatherEvidence(r)
         \/ RejectPremise(r) \/ FailRetrieval(r) \/ GenerateAnswer(r)
         \/ StreamAnswer(r) \/ BreakStream(r) \/ RejectMode(r)
  PROVE  Placed(pc'[r], loc'[r], issued')
<1>1. /\ loc[r] \in Local /\ Placed(pc[r], loc[r], issued) /\ NoSession \notin issued
  BY SessionAssumption DEF Inv, TypeOK, ThreadInv
<1>2. /\ issued' = issued /\ pc[r] \notin Unassigned
      /\ loc[r].sid \in issued /\ loc[r].target \in issued \cup {NoSession}
  <2>1. issued' = issued
    BY DEF AnswerWithoutRetrieval, ResolveContext, GatherEvidence, RejectPremise,
           FailRetrieval, GenerateAnswer, StreamAnswer, BreakStream, RejectMode, Raise, store
  <2>2. pc[r] \notin Unassigned
    BY DEF AnswerWithoutRetrieval, ResolveContext, GatherEvidence, RejectPremise,
           FailRetrieval, GenerateAnswer, StreamAnswer, BreakStream, RejectMode, At, Unassigned
  <2> QED
    BY <1>1, <2>1, <2>2 DEF Placed
<1>3. ASSUME Raise(r) \/ (\E outcome : Leave(r, outcome)) PROVE Placed(pc'[r], loc'[r], issued')
  BY <1>2, <1>3, LeavePlaced DEF Raise
<1>4. ASSUME pc'[r] \in {"append", "generate"}, loc'[r].sid = loc[r].sid,
             loc'[r].target = loc[r].target, loc'[r].then = loc[r].then
      PROVE Placed(pc'[r], loc'[r], issued')
  BY <1>2, <1>4, WorkPlaced DEF Unassigned
<1>5. ASSUME NEW l, NEW label \in {"gather", "generate"}, SaveThen(r, label, l),
             l \in Local, l.sid = loc[r].sid, l.target = loc[r].target
      PROVE Placed(pc'[r], loc'[r], issued')
  BY <1>1, <1>2, <1>5, SavePlaced DEF Continuations
<1>6. CASE AnswerWithoutRetrieval(r)
  <2>1. pc'[r] = "append" /\ loc'[r] = [loc[r] EXCEPT !.outcome = "answered"]
    BY <1>6 DEF AnswerWithoutRetrieval, Goto, SetLocal, Inv, TypeOK
  <2> QED
    BY <1>1, <1>4, <2>1 DEF Local
<1>7. CASE ResolveContext(r)
  <2>1. CASE Raise(r)
    BY <1>3, <2>1
  <2>2. CASE ~Raise(r)
    <3>1. PICK subject \in Subjects \cup {heap[SessionOf(r)].focus, heap[SessionOf(r)].anchor} :
            SaveThen(r, "gather", [loc[r] EXCEPT !.subject = subject])
      BY <1>7, <2>2 DEF ResolveContext
    <3> DEFINE l == [loc[r] EXCEPT !.subject = subject]
    <3>2. SessionOf(r) \in SessionIds /\ heap[SessionOf(r)] \in Session
      BY <1>2, SessionAssigned DEF SessionOf, Inv, TypeOK
    <3>3. subject \in Focus
      BY <3>2, SessionFields DEF Focus
    <3>4. l \in Local /\ l.sid = loc[r].sid /\ l.target = loc[r].target
      BY <1>1, <3>3 DEF Local
    <3>5. SaveThen(r, "gather", l)
      BY <3>1
    <3> HIDE DEF l
    <3> QED
      BY <1>5, <3>4, <3>5
  <2> QED
    BY <2>1, <2>2
<1>8. CASE GatherEvidence(r)
  <2>1. PICK chunks, fresh : SetLocal(r, [loc[r] EXCEPT !.chunks = chunks, !.fresh = fresh])
    BY <1>8, Zenon DEF GatherEvidence
  <2>2. pc'[r] = "generate" /\ loc'[r] = [loc[r] EXCEPT !.chunks = chunks, !.fresh = fresh]
    BY <1>8, <2>1 DEF GatherEvidence, Goto, SetLocal, Inv, TypeOK
  <2> QED
    BY <1>1, <1>4, <2>2 DEF Local
<1>9. CASE RejectPremise(r)
  <2>1. PICK late \in Hits : \E chunks \in SUBSET late :
          LET l == [loc[r] EXCEPT !.chunks = chunks, !.fresh = TRUE] IN
          \/ Goto(r, "generate") /\ SetLocal(r, l)
          \/ Raise(r)
          \/ SaveThen(r, "generate", l)
    BY <1>9, Zenon DEF RejectPremise
  <2>2. PICK chunks \in SUBSET late :
          LET l == [loc[r] EXCEPT !.chunks = chunks, !.fresh = TRUE] IN
          \/ Goto(r, "generate") /\ SetLocal(r, l)
          \/ Raise(r)
          \/ SaveThen(r, "generate", l)
    BY <2>1
  <2> DEFINE l == [loc[r] EXCEPT !.chunks = chunks, !.fresh = TRUE]
  <2>3. l \in Local /\ l.sid = loc[r].sid /\ l.target = loc[r].target /\ l.then = loc[r].then
    BY <1>1 DEF Local, Hits, Inv, TypeOK
  <2>4. CASE Goto(r, "generate") /\ SetLocal(r, l)
    <3>1. pc'[r] = "generate" /\ loc'[r] = l
      BY <2>4 DEF Goto, SetLocal, Inv, TypeOK
    <3> QED
      BY <1>4, <2>3, <3>1
  <2>5. CASE SaveThen(r, "generate", l)
    <3> HIDE DEF l
    <3> QED
      BY <1>5, <2>3, <2>5
  <2> QED
    BY <1>3, <2>2, <2>4, <2>5
<1>10. CASE FailRetrieval(r) \/ BreakStream(r) \/ RejectMode(r)
  BY <1>3, <1>10 DEF FailRetrieval, BreakStream, RejectMode
<1>11. CASE GenerateAnswer(r) \/ StreamAnswer(r)
  <2>1. PICK outcome, toEvidence, toContext :
          SetLocal(r, [loc[r] EXCEPT !.outcome = outcome, !.toEvidence = toEvidence,
                                     !.toContext = toContext])
    BY <1>11, Zenon DEF GenerateAnswer, StreamAnswer
  <2>2. /\ pc'[r] = "append"
        /\ loc'[r] = [loc[r] EXCEPT !.outcome = outcome, !.toEvidence = toEvidence,
                                    !.toContext = toContext]
    BY <1>11, <2>1 DEF GenerateAnswer, StreamAnswer, Goto, SetLocal, Inv, TypeOK
  <2> QED
    BY <1>1, <1>4, <2>2 DEF Local
<1> QED
  BY <1>6, <1>7, <1>8, <1>9, <1>10, <1>11

LEMMA RecordPlaced ==
  ASSUME Inv, NEW r \in Requests,
         \/ RecordTurn(r) \/ CheckLimit(r) \/ EvictTurn(r) \/ AssignSummary(r)
         \/ RecordEvidence(r) \/ TrimEvidence(r) \/ UpdateContext(r)
         \/ BeginSave(r) \/ OpenFile(r) \/ WriteFile(r)
  PROVE  Placed(pc'[r], loc'[r], issued')
<1>1. /\ loc[r] \in Local /\ Placed(pc[r], loc[r], issued) /\ NoSession \notin issued
  BY SessionAssumption DEF Inv, TypeOK, ThreadInv
<1>2. /\ issued' = issued /\ pc[r] \notin Unassigned
      /\ loc[r].sid \in issued /\ loc[r].target \in issued \cup {NoSession}
  <2>1. issued' = issued
    BY DEF RecordTurn, CheckLimit, EvictTurn, AssignSummary, RecordEvidence, TrimEvidence,
           UpdateContext, BeginSave, OpenFile, WriteFile, Raise, store
  <2>2. pc[r] \notin Unassigned
    BY DEF RecordTurn, CheckLimit, EvictTurn, AssignSummary, RecordEvidence, TrimEvidence,
           UpdateContext, BeginSave, OpenFile, WriteFile, At, Unassigned
  <2> QED
    BY <1>1, <2>1, <2>2 DEF Placed
<1>3. ASSUME Raise(r) PROVE Placed(pc'[r], loc'[r], issued')
  BY <1>2, <1>3, LeavePlaced DEF Raise
<1>4. ASSUME NEW label \in Continuations, SaveThen(r, label, loc[r]),
             label = "import" => loc[r].then = "import"
      PROVE Placed(pc'[r], loc'[r], issued')
  BY <1>1, <1>2, <1>4, SavePlaced DEF Placed
<1>5. CASE RecordTurn(r)
  <2>1. CASE ~Raise(r)
    <3>1. pc'[r] = "limit" /\ loc'[r] = [loc[r] EXCEPT !.then = AfterTurn(loc[r])]
      BY <1>5, <2>1 DEF RecordTurn, Goto, SetLocal, Inv, TypeOK
    <3> QED
      BY <1>1, <1>2, <3>1, NextContinuations, WorkPlaced DEF Local, Unassigned
  <2> QED
    BY <1>3, <2>1
<1>6. CASE CheckLimit(r)
  <2>1. CASE Goto(r, "pop") /\ UNCHANGED loc
    <3>1. pc'[r] = "pop" /\ loc'[r] = loc[r]
      BY <2>1 DEF Goto, Inv, TypeOK
    <3> QED
      BY <1>2, <3>1, WorkPlaced DEF Unassigned
  <2>2. CASE SaveThen(r, loc[r].then, loc[r])
    BY <1>1, <1>4, <2>2 DEF Placed
  <2> QED
    BY <1>6, <2>1, <2>2 DEF CheckLimit
<1>7. CASE EvictTurn(r)
  <2>1. PICK summary : loc' = [loc EXCEPT ![r] = [loc[r] EXCEPT !.summary = summary]]
    BY <1>7 DEF EvictTurn, SetLocal
  <2>2. pc'[r] = "summary" /\ loc'[r] = [loc[r] EXCEPT !.summary = summary]
    BY <1>7, <2>1 DEF EvictTurn, Goto, Inv, TypeOK
  <2> QED
    BY <1>1, <1>2, <2>2, WorkPlaced DEF Local, Unassigned
<1>8. CASE AssignSummary(r)
  BY <1>1, <1>4, <1>8 DEF AssignSummary, Placed
<1>9. CASE RecordEvidence(r)
  <2>1. CASE ~Raise(r)
    <3>1. pc'[r] = "window" /\ loc'[r] = loc[r]
      BY <1>9, <2>1 DEF RecordEvidence, Goto, Inv, TypeOK
    <3> QED
      BY <1>2, <3>1, WorkPlaced DEF Unassigned
  <2> QED
    BY <1>3, <2>1
<1>10. CASE TrimEvidence(r)
  BY <1>4, <1>10, NextContinuations DEF TrimEvidence
<1>11. CASE UpdateContext(r)
  BY <1>3, <1>4, <1>11, NextContinuations DEF UpdateContext
<1>12. CASE BeginSave(r)
  <2>1. pc'[r] = "open" /\ loc'[r] = [loc[r] EXCEPT !.size = Cardinality(live)]
    BY <1>12 DEF BeginSave, Goto, SetLocal, Inv, TypeOK
  <2> QED
    BY <1>1, <1>2, <2>1, WorkPlaced DEF Local, Unassigned
<1>13. CASE OpenFile(r)
  <2>1. CASE ~Raise(r)
    <3>1. pc'[r] = "write" /\ loc'[r] = [loc[r] EXCEPT !.image = Snapshot]
      BY <1>13, <2>1 DEF OpenFile, Goto, SetLocal, Inv, TypeOK
    <3> QED
      BY <1>1, <1>2, <3>1, WorkPlaced DEF Local, Unassigned
  <2> QED
    BY <1>3, <2>1
<1>14. CASE WriteFile(r)
  <2>1. pc'[r] = loc[r].then /\ loc'[r] = [loc[r] EXCEPT !.image = EmptyImage, !.size = 0]
    BY <1>14 DEF WriteFile, Goto, SetLocal, Inv, TypeOK
  <2>2. /\ loc'[r].sid = loc[r].sid /\ loc'[r].target = loc[r].target
        /\ loc'[r].then = loc[r].then
    BY <1>1, <2>1 DEF Local
  <2> QED
    BY <1>1, <1>2, <2>1, <2>2 DEF Placed, Continuations
<1> QED
  BY <1>5, <1>6, <1>7, <1>8, <1>9, <1>10, <1>11, <1>12, <1>13, <1>14

-----------------------------------------------------------------------------
(* What a step does to its own thread and to the others *)

LEMMA HandlerFrame ==
  ASSUME Inv, NEW r \in Requests, Arrive(r) \/ Handle(r)
  PROVE  /\ server' = server /\ server = "up" /\ crashes' = crashes
         /\ issued \subseteq issued'
         /\ \A q \in Requests \ {r} : pc'[q] = pc[q] /\ loc'[q] = loc[q]
<1> USE DEF Inv, TypeOK
<1>1. ASSUME Arrive(r) \/ CheckSession(r) \/ ImportTurn(r) \/ CreateSession(r) \/ LookupSession(r)
      PROVE  /\ server' = server /\ server = "up" /\ crashes' = crashes /\ issued \subseteq issued'
             /\ \A q \in Requests \ {r} : pc'[q] = pc[q] /\ loc'[q] = loc[q]
  BY <1>1 DEF Arrive, CheckSession, ImportTurn, CreateSession, LookupSession, At, Goto,
              SetLocal, Leave, Raise, SaveThen, store, process
<1>2. ASSUME ResetSession(r) \/ RemoveEphemeral(r) \/ Reply(r) \/ AnswerWithoutRetrieval(r)
               \/ ResolveContext(r)
      PROVE  /\ server' = server /\ server = "up" /\ crashes' = crashes /\ issued \subseteq issued'
             /\ \A q \in Requests \ {r} : pc'[q] = pc[q] /\ loc'[q] = loc[q]
  BY <1>2 DEF ResetSession, RemoveEphemeral, Reply, AnswerWithoutRetrieval, ResolveContext,
              At, Goto, SetLocal, Leave, Raise, SaveThen, store, process
<1>3. ASSUME GatherEvidence(r)
      PROVE  /\ server' = server /\ server = "up" /\ crashes' = crashes /\ issued \subseteq issued'
             /\ \A q \in Requests \ {r} : pc'[q] = pc[q] /\ loc'[q] = loc[q]
  <2>1. PICK l : SetLocal(r, l)
    BY <1>3, Zenon DEF GatherEvidence
  <2> QED
    BY <1>3, <2>1 DEF GatherEvidence, At, Goto, SetLocal, store, process
<1>4. ASSUME RejectPremise(r)
      PROVE  /\ server' = server /\ server = "up" /\ crashes' = crashes /\ issued \subseteq issued'
             /\ \A q \in Requests \ {r} : pc'[q] = pc[q] /\ loc'[q] = loc[q]
  <2>1. PICK l : \/ Goto(r, "generate") /\ SetLocal(r, l) /\ UNCHANGED store
                 \/ Raise(r)
                 \/ SaveThen(r, "generate", l) /\ UNCHANGED <<live, issued>>
    BY <1>4, Zenon DEF RejectPremise
  <2> QED
    BY <1>4, <2>1 DEF RejectPremise, At, Goto, SetLocal, Leave, Raise, SaveThen, store, process
<1>5. ASSUME RejectMode(r) \/ FailRetrieval(r) \/ GenerateAnswer(r) \/ StreamAnswer(r) \/ BreakStream(r)
               \/ RecordTurn(r) \/ CheckLimit(r) \/ EvictTurn(r) \/ AssignSummary(r)
      PROVE  /\ server' = server /\ server = "up" /\ crashes' = crashes /\ issued \subseteq issued'
             /\ \A q \in Requests \ {r} : pc'[q] = pc[q] /\ loc'[q] = loc[q]
  BY <1>5 DEF RejectMode, FailRetrieval, GenerateAnswer, StreamAnswer, BreakStream, RecordTurn, CheckLimit,
              EvictTurn, AssignSummary, At, Goto, SetLocal, Leave, Raise, SaveThen, store, process
<1>6. ASSUME RecordEvidence(r) \/ TrimEvidence(r) \/ UpdateContext(r) \/ BeginSave(r)
               \/ OpenFile(r) \/ WriteFile(r)
      PROVE  /\ server' = server /\ server = "up" /\ crashes' = crashes /\ issued \subseteq issued'
             /\ \A q \in Requests \ {r} : pc'[q] = pc[q] /\ loc'[q] = loc[q]
  BY <1>6 DEF RecordEvidence, TrimEvidence, UpdateContext, BeginSave, OpenFile, WriteFile,
              At, Goto, SetLocal, Leave, Raise, SaveThen, store, process
<1> QED
  BY <1>1, <1>2, <1>3, <1>4, <1>5, <1>6 DEF Handle

\* A request that has worked in a session keeps its id as sid or as target; its
\* payload is what it was, nothing, or what is in memory now; and only pop(0)
\* computes a new summary.
Kept(r) ==
  /\ \A s \in SessionIds :
       s \in {loc[r].sid, loc[r].target} => s \in {loc'[r].sid, loc'[r].target}
  /\ loc'[r].image \in {loc[r].image, EmptyImage, Snapshot}
  /\ loc'[r].summary \in {loc[r].summary, <<>>} \/ EvictTurn(r)

LEMMA SaveKeeps ==
  ASSUME Inv, NEW r \in Requests, NEW l \in Local, NEW next, SaveThen(r, next, l)
  PROVE  /\ loc'[r].sid = l.sid /\ loc'[r].target = l.target
         /\ loc'[r].image = l.image /\ loc'[r].summary = l.summary
<1>1. loc'[r] = [l EXCEPT !.then = next]
  BY DEF SaveThen, SetLocal, Inv, TypeOK
<1> QED
  BY <1>1 DEF Local

LEMMA LeaveKeeps ==
  ASSUME Inv, NEW r \in Requests, NEW outcome, Leave(r, outcome)
  PROVE  Kept(r)
<1>1. loc[r] \in Local /\ loc'[r] = [loc[r] EXCEPT !.outcome = outcome]
  BY DEF Leave, SetLocal, Inv, TypeOK
<1> QED
  BY <1>1 DEF Local, Kept

LEMMA EntryKeeps ==
  ASSUME Inv, NEW r \in Requests,
         Arrive(r) \/ CheckSession(r) \/ ImportTurn(r) \/ CreateSession(r) \/ LookupSession(r)
  PROVE  Kept(r)
<1>1. loc[r] \in Local /\ Placed(pc[r], loc[r], issued) /\ NoSession \notin SessionIds
  BY SessionAssumption DEF Inv, TypeOK, ThreadInv
<1>2. CASE Arrive(r)
  <2>1. PICK kind, target, valid, long :
          SetLocal(r, [IdleLocal EXCEPT !.kind = kind, !.target = target,
                                        !.valid = valid, !.long = long])
    BY <1>2, Zenon DEF Arrive
  <2>2. loc'[r].image = EmptyImage /\ loc'[r].summary = <<>>
    BY <2>1 DEF SetLocal, IdleLocal, Inv, TypeOK
  <2>3. loc[r].sid = NoSession /\ loc[r].target = NoSession
    BY <1>1, <1>2 DEF Arrive, At, Placed
  <2> QED
    BY <1>1, <2>2, <2>3 DEF Kept
<1>3. CASE CheckSession(r)
  <2>1. loc[r].sid = NoSession
    BY <1>1, <1>3 DEF CheckSession, At, Placed
  <2>2. CASE Leave(r, "rejected")
    BY <2>2, LeaveKeeps
  <2>3. CASE ~Leave(r, "rejected")
    <3>1. PICK n : SetLocal(r, [loc[r] EXCEPT !.sid = loc[r].target, !.left = n])
      BY <1>3, <2>3 DEF CheckSession
    <3>2. loc'[r] = [loc[r] EXCEPT !.sid = loc[r].target, !.left = n]
      BY <3>1 DEF SetLocal, Inv, TypeOK
    <3> QED
      BY <1>1, <2>1, <3>2 DEF Local, Kept
  <2> QED
    BY <2>2, <2>3
<1>4. CASE ImportTurn(r)
  <2>1. pc[r] = "import" /\ loc[r].target \in {NoSession, loc[r].sid}
    BY <1>1, <1>4 DEF ImportTurn, At, Placed
  <2>2. CASE Raise(r)
    BY <2>2, LeaveKeeps DEF Raise
  <2>3. CASE ~Raise(r)
    <3>1. \/ loc'[r] = [loc[r] EXCEPT !.target = loc[r].sid, !.guarded = loc[r].kind = "oneshot"]
          \/ loc'[r] = [loc[r] EXCEPT !.left = @ - 1, !.then = "import"]
      BY <1>4, <2>3 DEF ImportTurn, SetLocal, SessionOf, Inv, TypeOK
    <3>2. /\ loc'[r].sid = loc[r].sid /\ loc'[r].target \in {loc[r].target, loc[r].sid}
          /\ loc'[r].image = loc[r].image /\ loc'[r].summary = loc[r].summary
      BY <1>1, <3>1 DEF Local
    <3> QED
      BY <1>1, <2>1, <3>2 DEF Kept
  <2> QED
    BY <2>2, <2>3
<1>5. CASE CreateSession(r)
  <2> DEFINE after(s, n) == [loc[r] EXCEPT !.sid = s, !.left = n,
                               !.outcome = IF loc[r].kind = "open" THEN "answered" ELSE @]
  <2>0. PICK s \in SessionIds, n \in 0..MaxImport : \E next : SaveThen(r, next, after(s, n))
    BY <1>5, Zenon DEF CreateSession
  <2>1. PICK next : SaveThen(r, next, after(s, n))
    BY <2>0
  <2>2. /\ after(s, n) \in Local /\ after(s, n).sid = s /\ after(s, n).target = loc[r].target
        /\ after(s, n).image = loc[r].image /\ after(s, n).summary = loc[r].summary
    BY <1>1 DEF Local, Outcomes
  <2>3. loc[r].sid \in {NoSession, loc[r].target}
    BY <1>1, <1>5 DEF CreateSession, At, Placed
  <2> HIDE DEF after
  <2>4. /\ loc'[r].target = loc[r].target /\ loc'[r].image = loc[r].image
        /\ loc'[r].summary = loc[r].summary
    BY <2>1, <2>2, SaveKeeps
  <2> QED
    BY <1>1, <2>3, <2>4 DEF Kept
<1>6. CASE LookupSession(r)
  <2>1. loc[r].sid \in {NoSession, loc[r].target}
    BY <1>1, <1>6 DEF LookupSession, At, Placed
  <2>2. CASE Leave(r, "rejected")
    BY <2>2, LeaveKeeps
  <2>3. CASE ~Leave(r, "rejected")
    <3>1. loc'[r] \in {loc[r], [loc[r] EXCEPT !.sid = loc[r].target]}
      BY <1>6, <2>3 DEF LookupSession, SetLocal, Inv, TypeOK
    <3> QED
      BY <1>1, <2>1, <3>1 DEF Local, Kept
  <2> QED
    BY <2>2, <2>3
<1> QED
  BY <1>2, <1>3, <1>4, <1>5, <1>6

LEMMA EndingKeeps ==
  ASSUME Inv, NEW r \in Requests, ResetSession(r) \/ RemoveEphemeral(r) \/ Reply(r)
  PROVE  Kept(r)
<1>1. loc[r] \in Local /\ Placed(pc[r], loc[r], issued) /\ NoSession \notin SessionIds
  BY SessionAssumption DEF Inv, TypeOK, ThreadInv
<1>2. CASE ResetSession(r)
  <2> DEFINE l == [loc[r] EXCEPT !.outcome = "answered", !.sid = loc[r].target]
  <2>1. /\ l \in Local /\ l.sid = loc[r].target /\ l.target = loc[r].target
        /\ l.image = loc[r].image /\ l.summary = loc[r].summary
    BY <1>1 DEF Local, Outcomes
  <2>2. loc[r].sid = NoSession
    BY <1>1, <1>2 DEF ResetSession, At, Placed
  <2>3. SaveThen(r, "reply", l) \/ loc'[r] = l
    BY <1>2 DEF ResetSession, SetLocal, Inv, TypeOK
  <2> HIDE DEF l
  <2> QED
    BY <1>1, <2>1, <2>2, <2>3, SaveKeeps DEF Kept
<1>3. CASE RemoveEphemeral(r)
  <2> DEFINE l == [loc[r] EXCEPT !.guarded = FALSE]
  <2>1. /\ l \in Local /\ l.sid = loc[r].sid /\ l.target = loc[r].target
        /\ l.image = loc[r].image /\ l.summary = loc[r].summary
    BY <1>1 DEF Local
  <2>2. SaveThen(r, "reply", l) \/ loc'[r] = l
    BY <1>3 DEF RemoveEphemeral, SetLocal, Inv, TypeOK
  <2> HIDE DEF l
  <2> QED
    BY <1>1, <2>1, <2>2, SaveKeeps DEF Kept
<1>4. CASE Reply(r)
  <2>1. loc'[r] = Ended(loc[r], loc[r].outcome)
    BY <1>4 DEF Reply, SetLocal, Inv, TypeOK
  <2> QED
    BY <2>1 DEF Ended, IdleLocal, Kept
<1> QED
  BY <1>2, <1>3, <1>4

LEMMA AnswerKeeps ==
  ASSUME Inv, NEW r \in Requests,
         \/ AnswerWithoutRetrieval(r) \/ ResolveContext(r) \/ GatherEvidence(r)
         \/ RejectPremise(r) \/ FailRetrieval(r) \/ GenerateAnswer(r)
         \/ StreamAnswer(r) \/ BreakStream(r) \/ RejectMode(r)
  PROVE  Kept(r)
<1>1. loc[r] \in Local
  BY DEF Inv, TypeOK
<1>2. ASSUME Raise(r) \/ (\E outcome : Leave(r, outcome)) PROVE Kept(r)
  BY <1>2, LeaveKeeps DEF Raise
<1>3. CASE AnswerWithoutRetrieval(r)
  <2>1. loc'[r] = [loc[r] EXCEPT !.outcome = "answered"]
    BY <1>3 DEF AnswerWithoutRetrieval, SetLocal, Inv, TypeOK
  <2> QED
    BY <1>1, <2>1 DEF Local, Kept
<1>4. CASE ResolveContext(r)
  <2>1. CASE ~Raise(r)
    <3>1. PICK subject : SaveThen(r, "gather", [loc[r] EXCEPT !.subject = subject])
      BY <1>4, <2>1 DEF ResolveContext
    <3>2. loc'[r] = [[loc[r] EXCEPT !.subject = subject] EXCEPT !.then = "gather"]
      BY <3>1 DEF SaveThen, SetLocal, Inv, TypeOK
    <3> QED
      BY <1>1, <3>2 DEF Local, Kept
  <2> QED
    BY <1>2, <2>1
<1>5. CASE GatherEvidence(r)
  <2>1. PICK chunks, fresh : SetLocal(r, [loc[r] EXCEPT !.chunks = chunks, !.fresh = fresh])
    BY <1>5, Zenon DEF GatherEvidence
  <2>2. loc'[r] = [loc[r] EXCEPT !.chunks = chunks, !.fresh = fresh]
    BY <2>1 DEF SetLocal, Inv, TypeOK
  <2> QED
    BY <1>1, <2>2 DEF Local, Kept
<1>6. CASE RejectPremise(r)
  <2>1. PICK chunks :
          LET l == [loc[r] EXCEPT !.chunks = chunks, !.fresh = TRUE] IN
          SetLocal(r, l) \/ Raise(r) \/ SaveThen(r, "generate", l)
    BY <1>6, Zenon DEF RejectPremise
  <2> DEFINE l == [loc[r] EXCEPT !.chunks = chunks, !.fresh = TRUE]
  <2>2. CASE Raise(r)
    BY <1>2, <2>2
  <2>3. CASE ~Raise(r)
    <3>1. loc'[r] = l \/ loc'[r] = [l EXCEPT !.then = "generate"]
      BY <2>1, <2>3 DEF SaveThen, SetLocal, Inv, TypeOK
    <3> QED
      BY <1>1, <3>1 DEF Local, Kept
  <2> QED
    BY <2>2, <2>3
<1>7. CASE FailRetrieval(r) \/ BreakStream(r) \/ RejectMode(r)
  BY <1>2, <1>7 DEF FailRetrieval, BreakStream, RejectMode
<1>8. CASE GenerateAnswer(r) \/ StreamAnswer(r)
  <2>1. PICK outcome, toEvidence, toContext :
          SetLocal(r, [loc[r] EXCEPT !.outcome = outcome, !.toEvidence = toEvidence,
                                     !.toContext = toContext])
    BY <1>8, Zenon DEF GenerateAnswer, StreamAnswer
  <2>2. loc'[r] = [loc[r] EXCEPT !.outcome = outcome, !.toEvidence = toEvidence,
                                 !.toContext = toContext]
    BY <2>1 DEF SetLocal, Inv, TypeOK
  <2> QED
    BY <1>1, <2>2 DEF Local, Kept
<1> QED
  BY <1>3, <1>4, <1>5, <1>6, <1>7, <1>8

LEMMA RecordKeeps ==
  ASSUME Inv, NEW r \in Requests,
         \/ RecordTurn(r) \/ CheckLimit(r) \/ EvictTurn(r) \/ AssignSummary(r)
         \/ RecordEvidence(r) \/ TrimEvidence(r) \/ UpdateContext(r)
         \/ BeginSave(r) \/ OpenFile(r) \/ WriteFile(r)
  PROVE  Kept(r)
<1>1. loc[r] \in Local
  BY DEF Inv, TypeOK
<1>2. ASSUME Raise(r) PROVE Kept(r)
  BY <1>2, LeaveKeeps DEF Raise
<1>3. ASSUME loc'[r] = loc[r] \/ (\E label : SaveThen(r, label, loc[r])) PROVE Kept(r)
  BY <1>1, <1>3, SaveKeeps DEF Kept
<1>4. CASE RecordTurn(r)
  <2>1. CASE ~Raise(r)
    <3>1. loc'[r] = [loc[r] EXCEPT !.then = AfterTurn(loc[r])]
      BY <1>4, <2>1 DEF RecordTurn, SetLocal, Inv, TypeOK
    <3> QED
      BY <1>1, <3>1 DEF Local, Kept
  <2> QED
    BY <1>2, <2>1
<1>5. CASE CheckLimit(r) \/ AssignSummary(r) \/ TrimEvidence(r)
  BY <1>3, <1>5 DEF CheckLimit, AssignSummary, TrimEvidence
<1>6. CASE EvictTurn(r)
  <2>1. PICK summary : loc'[r] = [loc[r] EXCEPT !.summary = summary]
    BY <1>6 DEF EvictTurn, SetLocal, Inv, TypeOK
  <2> QED
    BY <1>1, <1>6, <2>1 DEF Local, Kept
<1>7. CASE RecordEvidence(r)
  BY <1>2, <1>3, <1>7 DEF RecordEvidence
<1>8. CASE UpdateContext(r)
  BY <1>2, <1>3, <1>8 DEF UpdateContext
<1>9. CASE BeginSave(r)
  <2>1. loc'[r] = [loc[r] EXCEPT !.size = Cardinality(live)]
    BY <1>9 DEF BeginSave, SetLocal, Inv, TypeOK
  <2> QED
    BY <1>1, <2>1 DEF Local, Kept
<1>10. CASE OpenFile(r)
  <2>1. CASE ~Raise(r)
    <3>1. loc'[r] = [loc[r] EXCEPT !.image = Snapshot]
      BY <1>10, <2>1 DEF OpenFile, SetLocal, Inv, TypeOK
    <3> QED
      BY <1>1, <3>1 DEF Local, Kept
  <2> QED
    BY <1>2, <2>1
<1>11. CASE WriteFile(r)
  <2>1. loc'[r] = [loc[r] EXCEPT !.image = EmptyImage, !.size = 0]
    BY <1>11 DEF WriteFile, SetLocal, Inv, TypeOK
  <2> QED
    BY <1>1, <2>1 DEF Local, Kept
<1> QED
  BY <1>4, <1>5, <1>6, <1>7, <1>8, <1>9, <1>10, <1>11

LEMMA HandlerKeeps ==
  ASSUME Inv, NEW r \in Requests, Arrive(r) \/ Handle(r)
  PROVE  Kept(r) /\ Placed(pc'[r], loc'[r], issued')
BY ArrivePlaced, EntryPlaced, EndingPlaced, AnswerPlaced, RecordPlaced,
   EntryKeeps, EndingKeeps, AnswerKeeps, RecordKeeps DEF Handle

\* The file holds what it held, nothing, or the payload of its last writer; and
\* only issued uuids become keys.
LEMMA StoreFrame ==
  ASSUME Inv, NEW r \in Requests, Arrive(r) \/ Handle(r)
  PROVE  /\ disk'.image \in {disk.image, EmptyImage, loc[r].image}
         /\ live' \subseteq live \cup issued'
<1>1. CASE Arrive(r) \/ CheckSession(r) \/ ImportTurn(r) \/ LookupSession(r) \/ Reply(r)
             \/ AnswerWithoutRetrieval(r) \/ ResolveContext(r) \/ GatherEvidence(r)
  BY <1>1 DEF Arrive, CheckSession, ImportTurn, LookupSession, Reply, AnswerWithoutRetrieval,
              ResolveContext, GatherEvidence, Raise, store
<1>2. CASE RejectPremise(r)
  <2>1. UNCHANGED live
    BY <1>2, Zenon DEF RejectPremise, Raise, store
  <2> QED
    BY <1>2, <2>1 DEF RejectPremise
<1>3. CASE CreateSession(r) \/ ResetSession(r) \/ RemoveEphemeral(r)
  BY <1>3 DEF CreateSession, ResetSession, RemoveEphemeral
<1>4. CASE RejectMode(r) \/ FailRetrieval(r) \/ GenerateAnswer(r) \/ StreamAnswer(r) \/ BreakStream(r)
             \/ RecordTurn(r) \/ CheckLimit(r) \/ EvictTurn(r) \/ AssignSummary(r)
  BY <1>4 DEF RejectMode, FailRetrieval, GenerateAnswer, StreamAnswer, BreakStream, RecordTurn, CheckLimit,
              EvictTurn, AssignSummary, Raise, store
<1>5. CASE RecordEvidence(r) \/ TrimEvidence(r) \/ UpdateContext(r) \/ BeginSave(r)
             \/ OpenFile(r) \/ WriteFile(r)
  BY <1>5 DEF RecordEvidence, TrimEvidence, UpdateContext, BeginSave, OpenFile, WriteFile,
              Raise, store
<1> QED
  BY <1>1, <1>2, <1>3, <1>4, <1>5 DEF Handle

LEMMA ThreadPreserved ==
  ASSUME Inv, [Next]_vars
  PROVE  ThreadInv'
<1>0. ThreadInv /\ NoSession \notin issued
  BY SessionAssumption DEF Inv, TypeOK
<1>1. CASE UNCHANGED vars
  BY <1>0, <1>1 DEF vars, ThreadInv
<1>2. CASE Restart
  BY <1>0, <1>2 DEF Restart, ThreadInv
<1>3. CASE Crash
  <2>1. ASSUME NEW r \in Requests
        PROVE  Placed(pc'[r], loc'[r], issued')
    <3>1. Placed(pc[r], loc[r], issued) /\ issued' = issued
      BY <1>0, <1>3 DEF ThreadInv, Crash
    <3>2. CASE r \in InFlight
      <4>1. pc'[r] = "done" /\ loc'[r] = Ended(loc[r], "lost")
        BY <1>3, <3>2 DEF Crash
      <4>2. /\ loc'[r].sid = loc[r].sid /\ loc'[r].target = loc[r].target
            /\ loc'[r].then = "done" /\ ~loc'[r].guarded
        BY <4>1 DEF Ended, IdleLocal
      <4> QED
        BY <3>1, <4>1, <4>2 DEF Placed, Unassigned, Continuations
    <3>3. CASE r \notin InFlight
      BY <1>3, <3>1, <3>3 DEF Crash
    <3> QED
      BY <3>2, <3>3
  <2> QED
    BY <2>1 DEF ThreadInv
<1>4. ASSUME NEW r \in Requests, Arrive(r) \/ Handle(r)
      PROVE  ThreadInv'
  <2>1. Placed(pc'[r], loc'[r], issued')
    BY <1>4, HandlerKeeps
  <2>2. ASSUME NEW q \in Requests \ {r}
        PROVE  Placed(pc'[q], loc'[q], issued')
    <3>1. pc'[q] = pc[q] /\ loc'[q] = loc[q] /\ issued \subseteq issued'
      BY <1>4, HandlerFrame
    <3>2. Placed(pc[q], loc[q], issued)
      BY <1>0 DEF ThreadInv
    <3> QED
      BY <3>1, <3>2 DEF Placed
  <2> QED
    BY <2>1, <2>2 DEF ThreadInv
<1> QED
  BY <1>1, <1>2, <1>3, <1>4 DEF Next

LEMMA StorePreserved ==
  ASSUME Inv, [Next]_vars
  PROVE  StoreInv' /\ DownInv'
<1>0. StoreInv /\ DownInv
  BY DEF Inv
<1>1. CASE UNCHANGED vars
  BY <1>0, <1>1 DEF vars, StoreInv, DownInv, InFlight
<1>2. CASE Restart
  BY <1>0, <1>2 DEF Restart, StoreInv, DownInv, InFlight
<1>3. CASE Crash
  <2>1. \A r \in Requests : loc'[r].image \in {loc[r].image, EmptyImage}
    BY <1>3 DEF Crash, Ended, IdleLocal
  <2>2. \A r \in Requests : loc'[r].image.live \subseteq issued
    BY <1>0, <2>1 DEF StoreInv, EmptyImage
  <2>3. StoreInv'
    BY <1>0, <1>3, <2>2 DEF Crash, StoreInv
  <2>4. InFlight' = {}
    BY <1>3 DEF Crash, InFlight
  <2>5. crashes' > 0
    BY <1>3, BoundsAssumption DEF Crash, Inv, TypeOK
  <2> QED
    BY <2>3, <2>4, <2>5 DEF DownInv
<1>4. ASSUME NEW r \in Requests, Arrive(r) \/ Handle(r)
      PROVE  StoreInv' /\ DownInv'
  <2>1. server' = "up" /\ issued \subseteq issued'
    BY <1>4, HandlerFrame
  <2>2. Snapshot.live \subseteq issued /\ EmptyImage.live = {}
    BY <1>0 DEF Snapshot, EmptyImage, StoreInv
  <2>3. live' \subseteq issued' /\ disk'.image.live \subseteq issued'
    BY <1>0, <1>4, <2>1, <2>2, StoreFrame DEF StoreInv
  <2>4. loc'[r].image.live \subseteq issued
    BY <1>0, <1>4, <2>2, HandlerKeeps DEF Kept, StoreInv
  <2>5. \A q \in Requests \ {r} : loc'[q].image.live \subseteq issued
    BY <1>0, <1>4, HandlerFrame DEF StoreInv
  <2> QED
    BY <2>1, <2>3, <2>4, <2>5 DEF StoreInv, DownInv
<1> QED
  BY <1>1, <1>2, <1>3, <1>4 DEF Next

-----------------------------------------------------------------------------
(* What a step does to the session objects *)

Recorded(v) == <<v.turns, v.summary, v.evidence>>
Busy == {"limit", "pop", "summary", "window"}

\* A step that records nothing.
Quiet(r) ==
  /\ \A s \in SessionIds : Recorded(heap'[s]) = Recorded(heap[s])
  /\ pc[r] \notin Busy /\ pc'[r] \notin Busy

LEMMA FocusQuiet ==
  ASSUME Inv, NEW s \in SessionIds, NEW v, SetSession(s, v),
         Recorded(v) = Recorded(heap[s])
  PROVE  \A t \in SessionIds : Recorded(heap'[t]) = Recorded(heap[t])
BY DEF SetSession, Inv, TypeOK

LEMMA RaiseQuiet ==
  ASSUME Inv, NEW r \in Requests, Raise(r), pc[r] \notin Busy
  PROVE  Quiet(r)
<1>1. heap' = heap /\ pc'[r] = End(loc[r])
  BY DEF Raise, Leave, Goto, store, Inv, TypeOK
<1> QED
  BY <1>1 DEF Quiet, End, Busy

LEMMA QuietEntries ==
  ASSUME Inv, NEW r \in Requests,
         \/ Arrive(r) \/ CheckSession(r) \/ LookupSession(r) \/ ResetSession(r)
         \/ RemoveEphemeral(r) \/ Reply(r)
  PROVE  Quiet(r)
<1>1. heap' = heap
  BY DEF Arrive, CheckSession, LookupSession, ResetSession, RemoveEphemeral, Reply, store
<1>2. pc[r] \notin Busy
  BY DEF Arrive, CheckSession, LookupSession, ResetSession, RemoveEphemeral, Reply, At, Busy
<1>3. pc'[r] \notin Busy
  <2>1. CASE Arrive(r)
    <3>1. PICK kind \in Kinds : Goto(r, FirstLabel[kind])
      BY <2>1, Zenon DEF Arrive
    <3> QED
      BY <3>1, KindsAssumption DEF Goto, FirstLabel, AllKinds, Busy, Inv, TypeOK
  <2>2. CASE ~Arrive(r)
    BY <2>2 DEF CheckSession, LookupSession, ResetSession, RemoveEphemeral, Reply, Leave, End,
                SaveThen, Goto, Busy, Inv, TypeOK
  <2> QED
    BY <2>1, <2>2
<1> QED
  BY <1>1, <1>2, <1>3 DEF Quiet

LEMMA QuietAnswers ==
  ASSUME Inv, NEW r \in Requests,
         \/ AnswerWithoutRetrieval(r) \/ ResolveContext(r) \/ GatherEvidence(r)
         \/ RejectPremise(r) \/ FailRetrieval(r) \/ GenerateAnswer(r)
         \/ StreamAnswer(r) \/ BreakStream(r) \/ RejectMode(r)
  PROVE  Quiet(r)
<1>1. pc[r] \notin Busy /\ pc[r] \notin Unassigned
  BY DEF AnswerWithoutRetrieval, ResolveContext, GatherEvidence, RejectPremise, FailRetrieval,
         GenerateAnswer, StreamAnswer, BreakStream, RejectMode, At, Busy, Unassigned
<1>2. SessionOf(r) \in SessionIds /\ heap[SessionOf(r)] \in Session
  BY <1>1, SessionAssigned DEF SessionOf, Inv, TypeOK
<1>3. ASSUME Raise(r) PROVE Quiet(r)
  BY <1>1, <1>3, RaiseQuiet
<1>4. CASE AnswerWithoutRetrieval(r) \/ GenerateAnswer(r) \/ StreamAnswer(r) \/ BreakStream(r)
             \/ GatherEvidence(r) \/ RejectMode(r)
  <2>1. heap' = heap
    BY <1>4 DEF AnswerWithoutRetrieval, GenerateAnswer, StreamAnswer, BreakStream,
                GatherEvidence, RejectMode, store
  <2>2. pc'[r] \notin Busy
    BY <1>4 DEF AnswerWithoutRetrieval, GenerateAnswer, StreamAnswer, BreakStream,
                GatherEvidence, RejectMode, Leave, End, Goto, Busy, Inv, TypeOK
  <2> QED
    BY <1>1, <2>1, <2>2 DEF Quiet
<1>5. ASSUME NEW focus, NEW anchor,
             SetSession(SessionOf(r), [heap[SessionOf(r)] EXCEPT !.focus = focus, !.anchor = anchor])
      PROVE  \A t \in SessionIds : Recorded(heap'[t]) = Recorded(heap[t])
  <2> DEFINE v == [heap[SessionOf(r)] EXCEPT !.focus = focus, !.anchor = anchor]
  <2>1. Recorded(v) = Recorded(heap[SessionOf(r)])
    BY <1>2 DEF Recorded, Session
  <2>2. SetSession(SessionOf(r), v)
    BY <1>5
  <2> HIDE DEF v
  <2> QED
    BY <1>2, <2>1, <2>2, FocusQuiet
<1>6. CASE ResolveContext(r)
  <2>1. CASE ~Raise(r)
    <3>1. PICK subject, l :
            /\ SetSession(SessionOf(r), [heap[SessionOf(r)] EXCEPT !.focus = subject])
            /\ SaveThen(r, "gather", l)
      BY <1>6, <2>1 DEF ResolveContext
    <3> DEFINE v == [heap[SessionOf(r)] EXCEPT !.focus = subject]
    <3>2. Recorded(v) = Recorded(heap[SessionOf(r)])
      BY <1>2 DEF Recorded, Session
    <3>3. SetSession(SessionOf(r), v)
      BY <3>1
    <3>4. \A t \in SessionIds : Recorded(heap'[t]) = Recorded(heap[t])
      <4> HIDE DEF v
      <4> QED
        BY <1>2, <3>2, <3>3, FocusQuiet
    <3>5. pc'[r] \notin Busy
      BY <3>1 DEF SaveThen, Goto, Busy, Inv, TypeOK
    <3> QED
      BY <1>1, <3>4, <3>5 DEF Quiet
  <2> QED
    BY <1>3, <2>1
<1>7. CASE RejectPremise(r)
  <2>1. PICK subject, l :
          \/ Goto(r, "generate") /\ UNCHANGED store
          \/ Raise(r)
          \/ /\ SetSession(SessionOf(r), [heap[SessionOf(r)] EXCEPT !.focus = subject,
                                                                    !.anchor = subject])
             /\ SaveThen(r, "generate", l)
    BY <1>7, Zenon DEF RejectPremise
  <2>2. CASE Goto(r, "generate") /\ UNCHANGED store
    BY <1>1, <2>2 DEF Goto, Quiet, Busy, store, Inv, TypeOK
  <2>3. CASE SetSession(SessionOf(r), [heap[SessionOf(r)] EXCEPT !.focus = subject,
                                                                 !.anchor = subject])
             /\ SaveThen(r, "generate", l)
    <3>1. pc'[r] \notin Busy
      BY <2>3 DEF SaveThen, Goto, Busy, Inv, TypeOK
    <3> QED
      BY <1>1, <1>5, <2>3, <3>1 DEF Quiet
  <2> QED
    BY <1>3, <2>1, <2>2, <2>3
<1>8. CASE FailRetrieval(r)
  BY <1>3, <1>8 DEF FailRetrieval
<1> QED
  BY <1>4, <1>6, <1>7, <1>8

LEMMA QuietRecords ==
  ASSUME Inv, NEW r \in Requests,
         UpdateContext(r) \/ BeginSave(r) \/ OpenFile(r) \/ WriteFile(r)
  PROVE  Quiet(r)
<1>1. pc[r] \notin Busy /\ pc[r] \notin Unassigned
  BY DEF UpdateContext, BeginSave, OpenFile, WriteFile, At, Busy, Unassigned
<1>2. /\ SessionOf(r) \in SessionIds /\ heap[SessionOf(r)] \in Session
      /\ loc[r].then \in Continuations
  BY <1>1, SessionAssigned DEF SessionOf, Inv, TypeOK, ThreadInv, Placed
<1>3. CASE Raise(r)
  BY <1>1, <1>3, RaiseQuiet
<1>4. CASE UpdateContext(r) /\ ~Raise(r)
  <2> DEFINE v == [heap[SessionOf(r)] EXCEPT !.focus = loc[r].subject, !.anchor = loc[r].subject]
  <2>1. SetSession(SessionOf(r), v)
    BY <1>4 DEF UpdateContext
  <2>2. Recorded(v) = Recorded(heap[SessionOf(r)])
    BY <1>2 DEF Recorded, Session
  <2>3. pc'[r] \notin Busy
    BY <1>4 DEF UpdateContext, SaveThen, End, Goto, Busy, Inv, TypeOK
  <2>4. \A t \in SessionIds : Recorded(heap'[t]) = Recorded(heap[t])
    <3> HIDE DEF v
    <3> QED
      BY <1>2, <2>1, <2>2, FocusQuiet
  <2> QED
    BY <1>1, <2>3, <2>4 DEF Quiet
<1>5. CASE BeginSave(r) \/ (OpenFile(r) /\ ~Raise(r)) \/ WriteFile(r)
  <2>1. heap' = heap
    BY <1>5 DEF BeginSave, OpenFile, WriteFile, store
  <2>2. pc'[r] \notin Busy
    BY <1>2, <1>5 DEF BeginSave, OpenFile, WriteFile, Goto, Busy, Continuations, Inv, TypeOK
  <2> QED
    BY <1>1, <2>1, <2>2 DEF Quiet
<1> QED
  BY <1>3, <1>4, <1>5

-----------------------------------------------------------------------------
(* Counting the threads that are recording *)

LEMMA RecordingStep ==
  ASSUME Inv, NEW r \in Requests, Arrive(r) \/ Handle(r), NEW s \in SessionIds, NEW L
  PROVE  LET old == Recording(s, L)
             new == Recording(s, L)'
         IN /\ Cardinality(old) \in Nat /\ Cardinality(new) \in Nat
            /\ (r \in old <=> r \in new) => Cardinality(new) = Cardinality(old)
            /\ r \in old /\ r \notin new => Cardinality(new) = Cardinality(old) - 1
            /\ r \notin old /\ r \in new => Cardinality(new) = Cardinality(old) + 1
<1> DEFINE old == Recording(s, L)
           new == Recording(s, L)'
<1>1. old \subseteq Requests /\ new \subseteq Requests
  BY DEF Recording
<1>2. IsFiniteSet(old) /\ IsFiniteSet(new)
  BY <1>1, FinitenessAssumption, FS_Subset
<1>3. old \ {r} = new \ {r}
  <2>1. \A q \in Requests \ {r} : q \in old <=> q \in new
    BY HandlerFrame DEF Recording, SessionOf
  <2> QED
    BY <1>1, <2>1
<1>4. /\ Cardinality(old \ {r}) = IF r \in old THEN Cardinality(old) - 1 ELSE Cardinality(old)
      /\ Cardinality(new \ {r}) = IF r \in new THEN Cardinality(new) - 1 ELSE Cardinality(new)
  BY <1>2, FS_RemoveElement
<1>5. Cardinality(old) \in Nat /\ Cardinality(new) \in Nat
  BY <1>2, FS_CardinalityType
<1> HIDE DEF old, new
<1>6. /\ (r \in old <=> r \in new) => Cardinality(new) = Cardinality(old)
      /\ r \in old /\ r \notin new => Cardinality(new) = Cardinality(old) - 1
      /\ r \notin old /\ r \in new => Cardinality(new) = Cardinality(old) + 1
  BY <1>3, <1>4, <1>5
<1> QED
  BY <1>5, <1>6 DEF old, new

LEMMA NobodyRecords ==
  ASSUME NEW s, NEW L, {"idle", "done"} \cap L = {}, InFlight = {}
  PROVE  Cardinality(Recording(s, L)) = 0
<1>1. Recording(s, L) = {}
  BY DEF Recording, InFlight
<1> QED
  BY <1>1, FS_EmptySet

\* The lengths of the two windows and the number of threads still to trim them.
TurnsOf(s) == Len(heap[s].turns)
EvidenceOf(s) == Len(heap[s].evidence)
Appenders(s) == Cardinality(Recording(s, {"limit", "pop"}))
Trimmers(s) == Cardinality(Recording(s, {"window"}))

\* How one handler step moves them.
Moves(s) ==
  /\ \/ TurnsOf(s)' - Appenders(s)' = TurnsOf(s) - Appenders(s)
     \/ TurnsOf(s) <= MaxTurns /\ TurnsOf(s)' = TurnsOf(s) /\ Appenders(s)' = Appenders(s) - 1
     \/ TurnsOf(s)' = 0 /\ Appenders(s)' = 0
  /\ \/ EvidenceOf(s)' - Trimmers(s)' = EvidenceOf(s) - Trimmers(s)
     \/ EvidenceOf(s)' <= MaxTurns

LEMMA MeasureTypes ==
  ASSUME Inv, TypeOK', NEW s \in SessionIds
  PROVE  /\ TurnsOf(s) \in Nat /\ EvidenceOf(s) \in Nat
         /\ Appenders(s) \in Nat /\ Trimmers(s) \in Nat
         /\ TurnsOf(s)' \in Nat /\ EvidenceOf(s)' \in Nat
         /\ Appenders(s)' \in Nat /\ Trimmers(s)' \in Nat
<1>1. heap[s] \in Session /\ heap'[s] \in Session
  BY DEF Inv, TypeOK
<1>2. /\ TurnsOf(s) \in Nat /\ EvidenceOf(s) \in Nat
      /\ TurnsOf(s)' \in Nat /\ EvidenceOf(s)' \in Nat
  BY <1>1, SessionFields, LenProperties DEF TurnsOf, EvidenceOf
<1>3. ASSUME NEW L
      PROVE  Cardinality(Recording(s, L)) \in Nat /\ Cardinality(Recording(s, L)') \in Nat
  <2>1. Recording(s, L) \subseteq Requests /\ Recording(s, L)' \subseteq Requests
    BY DEF Recording
  <2> QED
    BY <2>1, FinitenessAssumption, FS_Subset, FS_CardinalityType
<1> QED
  BY <1>2, <1>3 DEF Appenders, Trimmers

LEMMA QuietMoves ==
  ASSUME Inv, TypeOK', NEW r \in Requests, Arrive(r) \/ Handle(r), Quiet(r), NEW s \in SessionIds
  PROVE  Moves(s)
<1>1. TurnsOf(s)' = TurnsOf(s) /\ EvidenceOf(s)' = EvidenceOf(s)
  BY DEF Quiet, Recorded, TurnsOf, EvidenceOf
<1>2. ASSUME NEW L \in {{"limit", "pop"}, {"window"}}
      PROVE  r \notin Recording(s, L) /\ r \notin Recording(s, L)'
  BY <1>2 DEF Quiet, Busy, Recording
<1>3. Appenders(s)' = Appenders(s) /\ Trimmers(s)' = Trimmers(s)
  BY <1>2, RecordingStep DEF Appenders, Trimmers
<1> QED
  BY <1>1, <1>3, MeasureTypes DEF Moves

LEMMA AppendMoves ==
  ASSUME Inv, TypeOK', NEW r \in Requests, Handle(r), NEW t \in Turn,
         pc[r] \notin Busy, pc'[r] = "limit", loc'[r].sid = loc[r].sid,
         loc[r].sid \in SessionIds, SetSession(loc[r].sid, AppendTurn(heap[loc[r].sid], t)),
         NEW s \in SessionIds
  PROVE  Moves(s)
<1>1. heap[s] \in Session
  BY DEF Inv, TypeOK
<1>2. /\ TurnsOf(s)' = IF s = loc[r].sid THEN TurnsOf(s) + 1 ELSE TurnsOf(s)
      /\ EvidenceOf(s)' = EvidenceOf(s)
  <2>1. CASE s = loc[r].sid
    <3>1. heap'[s] = [heap[s] EXCEPT !.turns = Append(heap[s].turns, t)]
      BY <2>1 DEF SetSession, AppendTurn, Inv, TypeOK
    <3>2. Len(Append(heap[s].turns, t)) = Len(heap[s].turns) + 1
      BY <1>1, SessionFields, AppendProperties
    <3> QED
      BY <1>1, <2>1, <3>1, <3>2 DEF TurnsOf, EvidenceOf, Session
  <2>2. CASE s # loc[r].sid
    BY <2>2 DEF SetSession, TurnsOf, EvidenceOf, Inv, TypeOK
  <2> QED
    BY <2>1, <2>2
<1>3. /\ r \notin Recording(s, {"window"}) /\ r \notin Recording(s, {"window"})'
      /\ r \notin Recording(s, {"limit", "pop"})
      /\ r \in Recording(s, {"limit", "pop"})' <=> s = loc[r].sid
  BY DEF Recording, SessionOf, Busy
<1>4. /\ Trimmers(s)' = Trimmers(s)
      /\ Appenders(s)' = IF s = loc[r].sid THEN Appenders(s) + 1 ELSE Appenders(s)
  BY <1>3, RecordingStep DEF Appenders, Trimmers
<1> QED
  BY <1>2, <1>4, MeasureTypes DEF Moves

LEMMA TurnMoves ==
  ASSUME Inv, TypeOK', NEW r \in Requests, Handle(r), NEW s \in SessionIds,
         RecordTurn(r) \/ ImportTurn(r)
  PROVE  Moves(s)
<1>1. /\ loc[r] \in Local /\ pc[r] \notin Busy /\ loc[r].sid \in SessionIds
  <2>1. pc[r] \in {"append", "import"}
    BY DEF RecordTurn, ImportTurn, At
  <2> QED
    BY <2>1, SessionAssigned DEF Busy, Unassigned, Inv, TypeOK
<1>2. CASE Raise(r)
  BY <1>1, <1>2, RaiseQuiet, QuietMoves
<1>3. CASE RecordTurn(r) /\ ~Raise(r)
  <2> DEFINE t == [by |-> r, imported |-> FALSE, long |-> loc[r].long]
  <2>1. t \in Turn
    BY <1>1 DEF Turn, Local
  <2>2. /\ SetSession(loc[r].sid, AppendTurn(heap[loc[r].sid], t)) /\ pc'[r] = "limit"
        /\ loc'[r] = [loc[r] EXCEPT !.then = AfterTurn(loc[r])]
    BY <1>3 DEF RecordTurn, SessionOf, Goto, SetLocal, Inv, TypeOK
  <2>3. loc'[r].sid = loc[r].sid
    BY <1>1, <2>2 DEF Local
  <2> HIDE DEF t
  <2> QED
    BY <1>1, <2>1, <2>2, <2>3, AppendMoves
<1>4. CASE ImportTurn(r) /\ ~Raise(r)
  <2>1. CASE HistoryImported(loc[r])
    <3>1. heap' = heap /\ pc'[r] = "lookup"
      BY <1>4, <2>1 DEF ImportTurn, Goto, store, Inv, TypeOK
    <3>2. Quiet(r)
      BY <1>1, <3>1 DEF Quiet, Busy
    <3> QED
      BY <3>2, QuietMoves
  <2>2. CASE ~HistoryImported(loc[r])
    <3> DEFINE t == [by |-> r, imported |-> TRUE, long |-> FALSE]
    <3>1. t \in Turn
      BY DEF Turn
    <3>2. /\ SetSession(loc[r].sid, AppendTurn(heap[loc[r].sid], t)) /\ pc'[r] = "limit"
          /\ loc'[r] = [loc[r] EXCEPT !.left = @ - 1, !.then = "import"]
      BY <1>4, <2>2 DEF ImportTurn, SessionOf, Goto, SetLocal, Inv, TypeOK
    <3>3. loc'[r].sid = loc[r].sid
      BY <1>1, <3>2 DEF Local
    <3> HIDE DEF t
    <3> QED
      BY <1>1, <3>1, <3>2, <3>3, AppendMoves
  <2> QED
    BY <2>1, <2>2
<1> QED
  BY <1>2, <1>3, <1>4

LEMMA LimitMoves ==
  ASSUME Inv, TypeOK', NEW r \in Requests, Handle(r), NEW s \in SessionIds, CheckLimit(r)
  PROVE  Moves(s)
<1>1. loc[r] \in Local /\ loc[r].then \in Continuations /\ pc[r] = "limit" /\ heap' = heap
  BY DEF Inv, TypeOK, ThreadInv, Placed, CheckLimit, At, store
<1>2. TurnsOf(s)' = TurnsOf(s) /\ EvidenceOf(s)' = EvidenceOf(s)
  BY <1>1 DEF TurnsOf, EvidenceOf
<1>3. CASE OverLimit(heap[SessionOf(r)])
  <2>1. pc'[r] = "pop" /\ loc'[r] = loc[r]
    BY <1>3 DEF CheckLimit, Goto, Inv, TypeOK
  <2>2. /\ r \notin Recording(s, {"window"}) /\ r \notin Recording(s, {"window"})'
        /\ r \in Recording(s, {"limit", "pop"}) <=> r \in Recording(s, {"limit", "pop"})'
    BY <1>1, <2>1 DEF Recording, SessionOf
  <2>3. Appenders(s)' = Appenders(s) /\ Trimmers(s)' = Trimmers(s)
    BY <2>2, RecordingStep DEF Appenders, Trimmers
  <2> QED
    BY <1>2, <2>3, MeasureTypes DEF Moves
<1>4. CASE ~OverLimit(heap[SessionOf(r)])
  <2>1. SaveThen(r, loc[r].then, loc[r])
    BY <1>4 DEF CheckLimit
  <2>2. pc'[r] \notin Busy
    BY <1>1, <2>1 DEF SaveThen, Goto, Busy, Continuations, Inv, TypeOK
  <2>3. /\ r \notin Recording(s, {"window"}) /\ r \notin Recording(s, {"window"})'
        /\ r \notin Recording(s, {"limit", "pop"})'
        /\ r \in Recording(s, {"limit", "pop"}) <=> s = SessionOf(r)
    BY <1>1, <2>2 DEF Recording, SessionOf, Busy
  <2>4. /\ Trimmers(s)' = Trimmers(s)
        /\ Appenders(s)' = IF s = SessionOf(r) THEN Appenders(s) - 1 ELSE Appenders(s)
    BY <2>3, RecordingStep DEF Appenders, Trimmers
  <2>5. s = SessionOf(r) => TurnsOf(s) <= MaxTurns
    BY <1>4, MeasureTypes, LimitsAssumption DEF OverLimit, TurnsOf
  <2> QED
    BY <1>2, <2>4, <2>5, MeasureTypes DEF Moves
<1> QED
  BY <1>3, <1>4

LEMMA EvictMoves ==
  ASSUME Inv, TypeOK', NEW r \in Requests, Handle(r), NEW s \in SessionIds, EvictTurn(r)
  PROVE  Moves(s)
<1>1. loc[r] \in Local /\ pc[r] = "pop" /\ heap[s] \in Session
  BY DEF Inv, TypeOK, EvictTurn, At
<1>2. SessionOf(r) \in SessionIds /\ heap[SessionOf(r)].turns # <<>>
  BY <1>1, TurnToEvict
<1>3. /\ TurnsOf(s)' = IF s = SessionOf(r) THEN TurnsOf(s) - 1 ELSE TurnsOf(s)
      /\ EvidenceOf(s)' = EvidenceOf(s)
  <2>1. CASE s = SessionOf(r)
    <3>1. heap'[s] = [heap[s] EXCEPT !.turns = Tail(heap[s].turns)]
      BY <2>1 DEF EvictTurn, SetSession, PopOldest, Inv, TypeOK
    <3>2. Len(Tail(heap[s].turns)) = Len(heap[s].turns) - 1
      BY <1>1, <1>2, <2>1, SessionFields, HeadTailProperties
    <3> QED
      BY <1>1, <2>1, <3>1, <3>2 DEF TurnsOf, EvidenceOf, Session
  <2>2. CASE s # SessionOf(r)
    BY <2>2 DEF EvictTurn, SetSession, TurnsOf, EvidenceOf, Inv, TypeOK
  <2> QED
    BY <2>1, <2>2
<1>4. pc'[r] = "summary"
  BY DEF EvictTurn, Goto, Inv, TypeOK
<1>5. /\ r \notin Recording(s, {"window"}) /\ r \notin Recording(s, {"window"})'
      /\ r \notin Recording(s, {"limit", "pop"})'
      /\ r \in Recording(s, {"limit", "pop"}) <=> s = SessionOf(r)
  BY <1>1, <1>4 DEF Recording, SessionOf
<1>6. /\ Trimmers(s)' = Trimmers(s)
      /\ Appenders(s)' = IF s = SessionOf(r) THEN Appenders(s) - 1 ELSE Appenders(s)
  BY <1>5, RecordingStep DEF Appenders, Trimmers
<1> QED
  BY <1>3, <1>6, MeasureTypes DEF Moves

LEMMA SummaryMoves ==
  ASSUME Inv, TypeOK', NEW r \in Requests, Handle(r), NEW s \in SessionIds, AssignSummary(r)
  PROVE  Moves(s)
<1>1. pc[r] = "summary" /\ heap[s] \in Session /\ loc[r].then \in Continuations
  BY DEF Inv, TypeOK, ThreadInv, Placed, AssignSummary, At
<1>2. TurnsOf(s)' = TurnsOf(s) /\ EvidenceOf(s)' = EvidenceOf(s)
  <2>1. heap'[s] \in {heap[s], [heap[s] EXCEPT !.summary = loc[r].summary]}
    BY DEF AssignSummary, SetSession, Inv, TypeOK
  <2> QED
    BY <1>1, <2>1 DEF TurnsOf, EvidenceOf, Session
<1>3. pc'[r] \notin Busy
  BY <1>1 DEF AssignSummary, SaveThen, Goto, Busy, Continuations, Inv, TypeOK
<1>4. ASSUME NEW L \in {{"limit", "pop"}, {"window"}}
      PROVE  r \notin Recording(s, L) /\ r \notin Recording(s, L)'
  BY <1>1, <1>3, <1>4 DEF Busy, Recording
<1>5. Appenders(s)' = Appenders(s) /\ Trimmers(s)' = Trimmers(s)
  BY <1>4, RecordingStep DEF Appenders, Trimmers
<1> QED
  BY <1>2, <1>5, MeasureTypes DEF Moves

LEMMA EvidenceMoves ==
  ASSUME Inv, TypeOK', NEW r \in Requests, Handle(r), NEW s \in SessionIds,
         RecordEvidence(r) \/ TrimEvidence(r)
  PROVE  Moves(s)
<1>1. /\ loc[r] \in Local /\ pc[r] \in {"evidence", "window"} /\ heap[s] \in Session
  BY DEF Inv, TypeOK, RecordEvidence, TrimEvidence, At
<1>2. SessionOf(r) \in SessionIds
  BY <1>1, SessionAssigned DEF SessionOf, Unassigned
<1>3. ASSUME NEW value, SetSession(SessionOf(r), [heap[SessionOf(r)] EXCEPT !.evidence = value])
      PROVE  /\ TurnsOf(s)' = TurnsOf(s)
             /\ EvidenceOf(s)' = IF s = SessionOf(r) THEN Len(value) ELSE EvidenceOf(s)
  <2>1. heap'[s] = IF s = SessionOf(r) THEN [heap[s] EXCEPT !.evidence = value] ELSE heap[s]
    BY <1>3 DEF SetSession, Inv, TypeOK
  <2> QED
    BY <1>1, <2>1 DEF TurnsOf, EvidenceOf, Session
<1>4. ASSUME pc'[r] \notin {"limit", "pop"}
      PROVE  Appenders(s)' = Appenders(s)
  <2>1. r \notin Recording(s, {"limit", "pop"}) /\ r \notin Recording(s, {"limit", "pop"})'
    BY <1>1, <1>4 DEF Recording
  <2> QED
    BY <2>1, RecordingStep DEF Appenders
<1>5. CASE RecordEvidence(r) /\ Raise(r)
  <2>1. pc[r] = "evidence"
    BY <1>5 DEF RecordEvidence, At
  <2> QED
    BY <1>5, <2>1, RaiseQuiet, QuietMoves DEF Busy
<1>6. CASE RecordEvidence(r) /\ ~Raise(r)
  <2> DEFINE e == [by |-> r, chunks |-> loc[r].chunks]
             value == Append(heap[SessionOf(r)].evidence, e)
  <2>1. e \in EvidenceTurn /\ heap[SessionOf(r)] \in Session
    BY <1>1, <1>2 DEF EvidenceTurn, Local, Inv, TypeOK
  <2>2. Len(value) = EvidenceOf(SessionOf(r)) + 1
    <3> HIDE DEF e
    <3> QED
      BY <2>1, SessionFields, AppendProperties DEF EvidenceOf
  <2>3. SetSession(SessionOf(r), [heap[SessionOf(r)] EXCEPT !.evidence = value])
    BY <1>6 DEF RecordEvidence, AppendEvidence
  <2>4. pc[r] = "evidence" /\ pc'[r] = "window" /\ loc'[r] = loc[r]
    BY <1>6 DEF RecordEvidence, At, Goto, Inv, TypeOK
  <2> HIDE DEF e, value
  <2>5. /\ TurnsOf(s)' = TurnsOf(s) /\ Appenders(s)' = Appenders(s)
        /\ EvidenceOf(s)' = IF s = SessionOf(r) THEN EvidenceOf(s) + 1 ELSE EvidenceOf(s)
    BY <1>3, <1>4, <2>2, <2>3, <2>4
  <2>6. r \notin Recording(s, {"window"}) /\ (r \in Recording(s, {"window"})' <=> s = SessionOf(r))
    BY <2>4 DEF Recording, SessionOf
  <2>7. Trimmers(s)' = IF s = SessionOf(r) THEN Trimmers(s) + 1 ELSE Trimmers(s)
    BY <2>6, RecordingStep DEF Trimmers
  <2> QED
    BY <2>5, <2>7, MeasureTypes DEF Moves
<1>7. CASE TrimEvidence(r)
  <2> DEFINE value == LastOf(heap[SessionOf(r)].evidence, MaxTurns)
  <2>1. Len(value) <= MaxTurns
    BY <1>2, LimitsAssumption, SessionFields, LastOfProperties DEF Inv, TypeOK
  <2>2. SetSession(SessionOf(r), [heap[SessionOf(r)] EXCEPT !.evidence = value])
    BY <1>7 DEF TrimEvidence, KeepRecentEvidence
  <2>3. pc[r] = "window" /\ pc'[r] \notin Busy
    BY <1>7 DEF TrimEvidence, At, SaveThen, AfterEvidence, End, Goto, Busy, Inv, TypeOK
  <2> HIDE DEF value
  <2>4. /\ TurnsOf(s)' = TurnsOf(s) /\ Appenders(s)' = Appenders(s)
        /\ EvidenceOf(s)' = IF s = SessionOf(r) THEN Len(value) ELSE EvidenceOf(s)
    BY <1>3, <1>4, <2>2, <2>3 DEF Busy
  <2>5. CASE s = SessionOf(r)
    BY <2>1, <2>4, <2>5, MeasureTypes DEF Moves
  <2>6. CASE s # SessionOf(r)
    <3>1. r \notin Recording(s, {"window"})
      BY <2>6 DEF Recording
    <3>2. r \notin Recording(s, {"window"})'
      BY <2>3 DEF Recording, Busy
    <3>3. Trimmers(s)' = Trimmers(s)
      BY <3>1, <3>2, RecordingStep DEF Trimmers
    <3> QED
      BY <2>4, <2>6, <3>3, MeasureTypes DEF Moves
  <2> QED
    BY <2>5, <2>6
<1> QED
  BY <1>5, <1>6, <1>7

LEMMA CreateMoves ==
  ASSUME Inv, TypeOK', NEW r \in Requests, Handle(r), NEW s \in SessionIds, CreateSession(r)
  PROVE  Moves(s)
<1>1. PICK new \in SessionIds \ issued : SetSession(new, NewSession)
  BY Zenon DEF CreateSession
<1>2. pc[r] \notin Busy /\ pc'[r] \notin Busy
  <2>1. PICK next \in Continuations : \E l : SaveThen(r, next, l)
    <3> DEFINE next == CASE loc[r].kind = "open" -> "reply"
                         [] loc[r].kind = "oneshot" /\ loc[r].target = NoSession -> "import"
                         [] loc[r].kind = "stream" -> "resolve"
                         [] OTHER -> "route"
    <3>1. next \in Continuations
      BY DEF Continuations
    <3>2. \E l : SaveThen(r, next, l)
      BY Zenon DEF CreateSession
    <3> QED
      BY <3>1, <3>2
  <2> QED
    BY <2>1 DEF CreateSession, At, SaveThen, Goto, Busy, Continuations, Inv, TypeOK
<1>3. ASSUME NEW L \in {{"limit", "pop"}, {"window"}}
      PROVE  r \notin Recording(s, L) /\ r \notin Recording(s, L)'
  BY <1>2, <1>3 DEF Busy, Recording
<1>4. Appenders(s)' = Appenders(s) /\ Trimmers(s)' = Trimmers(s)
  BY <1>3, RecordingStep DEF Appenders, Trimmers
<1>5. CASE s = new
  <2>1. TurnsOf(s)' = 0 /\ EvidenceOf(s)' = 0
    BY <1>1, <1>5 DEF SetSession, NewSession, TurnsOf, EvidenceOf, Inv, TypeOK
  <2>2. Recording(s, {"limit", "pop"}) = {}
    <3>1. \A q \in Requests : loc[q].sid # s
      BY <1>1, <1>5, SessionAssumption DEF Inv, ThreadInv, Placed
    <3> QED
      BY <3>1 DEF Recording, SessionOf
  <2>3. Appenders(s) = 0
    BY <2>2, FS_EmptySet DEF Appenders
  <2> QED
    BY <1>4, <2>1, <2>3, LimitsAssumption DEF Moves
<1>6. CASE s # new
  <2>1. TurnsOf(s)' = TurnsOf(s) /\ EvidenceOf(s)' = EvidenceOf(s)
    BY <1>1, <1>6 DEF SetSession, TurnsOf, EvidenceOf, Inv, TypeOK
  <2> QED
    BY <1>4, <2>1, MeasureTypes DEF Moves
<1> QED
  BY <1>5, <1>6

LEMMA HandlerMoves ==
  ASSUME Inv, TypeOK', NEW r \in Requests, Arrive(r) \/ Handle(r), NEW s \in SessionIds
  PROVE  Moves(s)
<1>1. CASE Arrive(r)
  BY <1>1, QuietEntries, QuietMoves
<1>2. CASE Handle(r) /\ (CheckSession(r) \/ LookupSession(r) \/ ResetSession(r)
                           \/ RemoveEphemeral(r) \/ Reply(r))
  BY <1>2, QuietEntries, QuietMoves
<1>3. CASE Handle(r) /\ (AnswerWithoutRetrieval(r) \/ ResolveContext(r) \/ GatherEvidence(r)
                           \/ RejectPremise(r) \/ FailRetrieval(r) \/ GenerateAnswer(r)
                           \/ StreamAnswer(r) \/ BreakStream(r) \/ RejectMode(r))
  BY <1>3, QuietAnswers, QuietMoves
<1>4. CASE Handle(r) /\ (UpdateContext(r) \/ BeginSave(r) \/ OpenFile(r) \/ WriteFile(r))
  BY <1>4, QuietRecords, QuietMoves
<1>5. CASE Handle(r) /\ (RecordTurn(r) \/ ImportTurn(r) \/ CheckLimit(r) \/ EvictTurn(r)
                           \/ AssignSummary(r) \/ RecordEvidence(r) \/ TrimEvidence(r)
                           \/ CreateSession(r))
  BY <1>5, TurnMoves, LimitMoves, EvictMoves, SummaryMoves, EvidenceMoves, CreateMoves
<1> QED
  BY <1>1, <1>2, <1>3, <1>4, <1>5 DEF Handle

LEMMA OwedPreserved ==
  ASSUME Inv, TypeOK', [Next]_vars
  PROVE  OwedTurns'
<1> SUFFICES ASSUME NEW s \in SessionIds
             PROVE  Appenders(s)' <= TurnsOf(s)'
  BY DEF OwedTurns, Appenders, TurnsOf
<1>0. Appenders(s) <= TurnsOf(s)
  BY DEF Inv, OwedTurns, Appenders, TurnsOf
<1>1. CASE UNCHANGED vars
  <2>1. Recording(s, {"limit", "pop"})' = Recording(s, {"limit", "pop"})
    BY <1>1 DEF vars, Recording, SessionOf
  <2> QED
    BY <1>0, <1>1, <2>1 DEF vars, Appenders, TurnsOf
<1>2. CASE Crash \/ Restart
  <2>1. InFlight' = {}
    BY <1>2 DEF Crash, Restart, InFlight, Inv, DownInv
  <2>2. Recording(s, {"limit", "pop"})' = {}
    BY <2>1 DEF Recording, InFlight
  <2>3. Appenders(s)' = 0
    BY <2>2, FS_EmptySet DEF Appenders
  <2> QED
    BY <2>3, MeasureTypes
<1>3. ASSUME NEW r \in Requests, Arrive(r) \/ Handle(r)
      PROVE  Appenders(s)' <= TurnsOf(s)'
  <2>1. Moves(s)
    BY <1>3, HandlerMoves
  <2> QED
    BY <1>0, <2>1, MeasureTypes DEF Moves
<1> QED
  BY <1>1, <1>2, <1>3 DEF Next

-----------------------------------------------------------------------------
(* The theorems *)

LEMMA Initially ==
  ASSUME Init
  PROVE  Inv
<1>1. TypeOK
  BY NewSessionShape, IdleShape, BoundsAssumption DEF Init, TypeOK, Labels
<1>2. ThreadInv
  BY DEF Init, ThreadInv, Placed, IdleLocal, Unassigned, Continuations
<1>3. InFlight = {}
  BY DEF Init, InFlight
<1>4. StoreInv /\ DownInv
  BY <1>3 DEF Init, StoreInv, DownInv, EmptyImage, IdleLocal
<1>5. OwedTurns
  <2> SUFFICES ASSUME NEW s \in SessionIds
               PROVE  Cardinality(Recording(s, {"limit", "pop"})) <= Len(heap[s].turns)
    BY DEF OwedTurns
  <2>1. Cardinality(Recording(s, {"limit", "pop"})) = 0
    BY <1>3, NobodyRecords
  <2>2. Len(heap[s].turns) = 0
    BY DEF Init, NewSession
  <2> QED
    BY <2>1, <2>2
<1> QED
  BY <1>1, <1>2, <1>4, <1>5 DEF Inv

LEMMA InvPreserved ==
  ASSUME Inv, [Next]_vars
  PROVE  Inv'
BY TypePreserved, ThreadPreserved, StorePreserved, OwedPreserved DEF Inv

\* Inv, the inductive invariant, holds in every state of the server.
THEOREM Invariance == Spec => []Inv
BY Initially, InvPreserved, PTL DEF Spec

\* Every variable keeps the shape the code gives it: in particular add_turn's
\* pop(0) never meets an empty list, however many threads append and evict in
\* one session at once, and whatever a restart loads from the file.
THEOREM TypeCorrect == Spec => []TypeOK
BY Invariance, PTL DEF Inv

\* add_turn and add_evidence_turn keep their windows: until a first crash, what
\* a session holds over max_turns is owed by threads that are about to trim it,
\* for every number of threads and every interleaving.
THEOREM WindowsHold == Spec => [](crashes = 0 => WindowsBounded)
<1> DEFINE W == crashes = 0 => WindowsBounded
<1>1. Init => W
  <2> SUFFICES ASSUME Init, NEW s \in SessionIds
               PROVE  /\ Len(heap[s].turns) <= MaxTurns + Cardinality(Recording(s, {"limit", "pop"}))
                      /\ Len(heap[s].evidence) <= MaxTurns + Cardinality(Recording(s, {"window"}))
    BY DEF WindowsBounded
  <2>1. Len(heap[s].turns) = 0 /\ Len(heap[s].evidence) = 0
    BY DEF Init, NewSession
  <2> QED
    BY <2>1, RecordingFinite, LimitsAssumption
<1>2. Inv /\ Inv' /\ W /\ [Next]_vars => W'
  <2> SUFFICES ASSUME Inv, Inv', W, [Next]_vars, crashes' = 0, NEW s \in SessionIds
               PROVE  /\ TurnsOf(s)' <= MaxTurns + Appenders(s)'
                      /\ EvidenceOf(s)' <= MaxTurns + Trimmers(s)'
    BY DEF WindowsBounded, TurnsOf, EvidenceOf, Appenders, Trimmers
  <2>0. TypeOK' /\ crashes \in Nat /\ MaxTurns \in Nat
    BY LimitsAssumption, BoundsAssumption DEF Inv, TypeOK
  <2>1. CASE UNCHANGED vars
    <3>1. \A L : Recording(s, L)' = Recording(s, L)
      BY <2>1 DEF vars, Recording, SessionOf
    <3> QED
      BY <2>1, <3>1 DEF vars, WindowsBounded, TurnsOf, EvidenceOf, Appenders, Trimmers
  <2>2. CASE Crash
    BY <2>0, <2>2 DEF Crash
  <2>3. CASE Restart
    BY <2>0, <2>3 DEF Restart, Inv, DownInv
  <2>4. ASSUME NEW r \in Requests, Arrive(r) \/ Handle(r)
        PROVE  /\ TurnsOf(s)' <= MaxTurns + Appenders(s)'
               /\ EvidenceOf(s)' <= MaxTurns + Trimmers(s)'
    <3>1. Moves(s)
      BY <2>0, <2>4, HandlerMoves
    <3>2. crashes = 0
      BY <2>0, <2>4, HandlerFrame
    <3>3. TurnsOf(s) <= MaxTurns + Appenders(s) /\ EvidenceOf(s) <= MaxTurns + Trimmers(s)
      BY <3>2 DEF WindowsBounded, TurnsOf, EvidenceOf, Appenders, Trimmers
    <3> QED
      BY <2>0, <3>1, <3>3, MeasureTypes DEF Moves
  <2> QED
    BY <2>1, <2>2, <2>3, <2>4 DEF Next
<1> QED
  BY <1>1, <1>2, Invariance, PTL DEF Spec

-----------------------------------------------------------------------------
(* Whose entries a session object holds *)

LEMMA NoEntries == Entries(NewSession) = {}
BY DEF Entries, NewSession

LEMMA EntriesOfRecorded ==
  ASSUME NEW v, NEW w, Recorded(v) = Recorded(w)
  PROVE  Entries(v) = Entries(w)
BY DEF Recorded, Entries

LEMMA TurnEntries ==
  ASSUME NEW v \in Session, NEW t \in Turn
  PROVE  Entries(AppendTurn(v, t)) \subseteq Entries(v) \cup {t.by}
<1> DEFINE w == [v EXCEPT !.turns = Append(v.turns, t)]
<1>1. /\ w.turns = Append(v.turns, t) /\ w.summary = v.summary /\ w.evidence = v.evidence
  BY DEF Session
<1>2. \A i \in DOMAIN w.turns : w.turns[i] = t \/ \E j \in DOMAIN v.turns : w.turns[i] = v.turns[j]
  <2>1. v.turns \in Seq(Turn)
    BY SessionFields
  <2>2. /\ DOMAIN Append(v.turns, t) = 1..(Len(v.turns) + 1) /\ DOMAIN v.turns = 1..Len(v.turns)
        /\ \A i \in 1..Len(v.turns) : Append(v.turns, t)[i] = v.turns[i]
        /\ Append(v.turns, t)[Len(v.turns) + 1] = t
    BY <2>1, AppendProperties
  <2>3. \A i \in 1..(Len(v.turns) + 1) : i \in 1..Len(v.turns) \/ i = Len(v.turns) + 1
    BY <2>1
  <2> QED
    BY <1>1, <2>2, <2>3
<1>3. Entries(w) \subseteq Entries(v) \cup {t.by}
  <2> HIDE DEF w
  <2> QED
    BY <1>1, <1>2 DEF Entries
<1> QED
  BY <1>3 DEF AppendTurn

\* Evicting a turn drops it; the new summary is made of it and the old summary.
LEMMA EvictEntries ==
  ASSUME NEW v \in Session, v.turns # <<>>
  PROVE  /\ Entries(PopOldest(v)) \subseteq Entries(v)
         /\ LET summary == Summarised(v.summary, Head(v.turns)) IN
            \A i \in DOMAIN summary : summary[i].by \in Entries(v)
<1>0. v.turns \in Seq(Turn) /\ v.summary \in Seq(Turn) /\ Head(v.turns) \in Turn
  BY SessionFields, HeadTailProperties
<1>1. Entries(PopOldest(v)) \subseteq Entries(v)
  <2> DEFINE w == [v EXCEPT !.turns = Tail(v.turns)]
  <2>1. w.turns = Tail(v.turns) /\ w.summary = v.summary /\ w.evidence = v.evidence
    BY DEF Session
  <2>2. \A i \in DOMAIN w.turns : \E j \in DOMAIN v.turns : w.turns[i] = v.turns[j]
    <3>1. \A i \in DOMAIN Tail(v.turns) : i + 1 \in DOMAIN v.turns /\ Tail(v.turns)[i] = v.turns[i + 1]
      BY <1>0, HeadTailProperties
    <3> QED
      BY <2>1, <3>1
  <2>3. Entries(w) \subseteq Entries(v)
    <3> HIDE DEF w
    <3> QED
      BY <2>1, <2>2 DEF Entries
  <2> QED
    BY <2>3 DEF PopOldest
<1>2. ASSUME NEW i \in DOMAIN Summarised(v.summary, Head(v.turns))
      PROVE  Summarised(v.summary, Head(v.turns))[i].by \in Entries(v)
  <2> DEFINE all == Append(v.summary, Head(v.turns))
  <2>1. all \in Seq(Turn)
    BY <1>0, AppendProperties
  <2>2. CASE Head(v.turns).long
    BY <1>2, <2>2 DEF Summarised
  <2>3. CASE ~Head(v.turns).long
    <3>1. Summarised(v.summary, Head(v.turns)) = LastOf(all, SummaryRoom)
      BY <2>3 DEF Summarised
    <3>2. PICK j \in DOMAIN all : Summarised(v.summary, Head(v.turns))[i] = all[j]
      <4> HIDE DEF all
      <4> QED
        BY <1>2, <2>1, <3>1, LimitsAssumption, LastOfProperties
    <3>3. all[j] = Head(v.turns) \/ \E k \in DOMAIN v.summary : all[j] = v.summary[k]
      <4>1. /\ \A k \in 1..Len(v.summary) : all[k] = v.summary[k]
            /\ all[Len(v.summary) + 1] = Head(v.turns)
            /\ DOMAIN all = 1..(Len(v.summary) + 1) /\ DOMAIN v.summary = 1..Len(v.summary)
        BY <1>0, AppendProperties
      <4>2. j \in 1..Len(v.summary) \/ j = Len(v.summary) + 1
        BY <1>0, <4>1
      <4> QED
        BY <4>1, <4>2
    <3>4. Head(v.turns).by \in Entries(v)
      <4>1. Head(v.turns) = v.turns[1] /\ 1 \in DOMAIN v.turns
        BY <1>0
      <4> QED
        BY <4>1 DEF Entries
    <3> HIDE DEF all
    <3> QED
      BY <3>2, <3>3, <3>4 DEF Entries
  <2> QED
    BY <2>2, <2>3
<1> QED
  BY <1>1, <1>2

LEMMA EvidenceEntries ==
  ASSUME NEW v \in Session, NEW e \in EvidenceTurn
  PROVE  /\ Entries(AppendEvidence(v, e)) \subseteq Entries(v) \cup {e.by}
         /\ Entries(KeepRecentEvidence(v)) \subseteq Entries(v)
<1>0. v.evidence \in Seq(EvidenceTurn)
  BY SessionFields
<1>1. Entries(AppendEvidence(v, e)) \subseteq Entries(v) \cup {e.by}
  <2> DEFINE w == [v EXCEPT !.evidence = Append(v.evidence, e)]
  <2>1. w.evidence = Append(v.evidence, e) /\ w.summary = v.summary /\ w.turns = v.turns
    BY DEF Session
  <2>2. \A i \in DOMAIN w.evidence :
          w.evidence[i] = e \/ \E j \in DOMAIN v.evidence : w.evidence[i] = v.evidence[j]
    <3>1. /\ DOMAIN Append(v.evidence, e) = 1..(Len(v.evidence) + 1)
          /\ DOMAIN v.evidence = 1..Len(v.evidence)
          /\ \A i \in 1..Len(v.evidence) : Append(v.evidence, e)[i] = v.evidence[i]
          /\ Append(v.evidence, e)[Len(v.evidence) + 1] = e
      BY <1>0, AppendProperties
    <3>2. \A i \in 1..(Len(v.evidence) + 1) : i \in 1..Len(v.evidence) \/ i = Len(v.evidence) + 1
      BY <1>0
    <3> QED
      BY <2>1, <3>1, <3>2
  <2>3. Entries(w) \subseteq Entries(v) \cup {e.by}
    <3> HIDE DEF w
    <3> QED
      BY <2>1, <2>2 DEF Entries
  <2> QED
    BY <2>3 DEF AppendEvidence
<1>2. Entries(KeepRecentEvidence(v)) \subseteq Entries(v)
  <2> DEFINE w == [v EXCEPT !.evidence = LastOf(v.evidence, MaxTurns)]
  <2>1. w.evidence = LastOf(v.evidence, MaxTurns) /\ w.summary = v.summary /\ w.turns = v.turns
    BY DEF Session
  <2>2. \A i \in DOMAIN w.evidence : \E j \in DOMAIN v.evidence : w.evidence[i] = v.evidence[j]
    BY <1>0, <2>1, LimitsAssumption, LastOfProperties
  <2>3. Entries(w) \subseteq Entries(v)
    <3> HIDE DEF w
    <3> QED
      BY <2>1, <2>2 DEF Entries
  <2> QED
    BY <2>3 DEF KeepRecentEvidence
<1> QED
  BY <1>1, <1>2

-----------------------------------------------------------------------------
(* The strengthened invariant *)

\* Request r works, or has worked, in session s.
WorksIn(r, s) == s \in {loc[r].sid, loc[r].target}

\* Besides memory and file, the payload a thread has serialised and the summary
\* it is about to assign hold entries of the right conversation only.
PureStore == \A s \in SessionIds : \A q \in Entries(heap[s]) : WorksIn(q, s)
PureFile == \A s \in SessionIds : \A q \in Entries(disk.image.heap[s]) : WorksIn(q, s)
PurePayloads ==
  \A r \in Requests, s \in SessionIds : \A q \in Entries(loc[r].image.heap[s]) : WorksIn(q, s)
PureSummary(r) ==
  pc[r] = "summary" =>
    \A i \in DOMAIN loc[r].summary : WorksIn(loc[r].summary[i].by, SessionOf(r))
PureSummaries == \A r \in Requests : PureSummary(r)

Pure == PureStore /\ PureFile /\ PurePayloads /\ PureSummaries

LEMMA EntriesAreRequests ==
  ASSUME NEW v \in Session
  PROVE  Entries(v) \subseteq Requests
<1>1. /\ \A i \in DOMAIN v.turns : v.turns[i] \in Turn
      /\ \A i \in DOMAIN v.summary : v.summary[i] \in Turn
      /\ \A i \in DOMAIN v.evidence : v.evidence[i] \in EvidenceTurn
  BY SessionFields
<1> QED
  BY <1>1 DEF Entries, Turn, EvidenceTurn

\* No step takes a request away from a session it has worked in.
LEMMA WorkLasts ==
  ASSUME Inv, NEW r \in Requests, Arrive(r) \/ Handle(r),
         NEW q \in Requests, NEW s \in SessionIds, WorksIn(q, s)
  PROVE  WorksIn(q, s)'
<1>1. CASE q = r
  BY <1>1, HandlerKeeps DEF Kept, WorksIn
<1>2. CASE q # r
  BY <1>2, HandlerFrame DEF WorksIn
<1> QED
  BY <1>1, <1>2

\* A step leaves in a session the entries it found and those of its own request.
Adds(r, s) == Entries(heap'[s]) \subseteq Entries(heap[s]) \cup {q \in {r} : WorksIn(q, s)}

LEMMA SetAdds ==
  ASSUME Inv, NEW r \in Requests, loc[r].sid \in SessionIds, NEW v,
         SetSession(loc[r].sid, v),
         Entries(v) \subseteq Entries(heap[loc[r].sid]) \cup {r}, NEW s \in SessionIds
  PROVE  Adds(r, s)
<1>1. CASE s = loc[r].sid
  <2>1. heap'[s] = v /\ WorksIn(r, s)
    BY <1>1 DEF SetSession, WorksIn, Inv, TypeOK
  <2> QED
    BY <1>1, <2>1 DEF Adds
<1>2. CASE s # loc[r].sid
  BY <1>2 DEF SetSession, Adds, Inv, TypeOK
<1> QED
  BY <1>1, <1>2

LEMMA RecordAdds ==
  ASSUME Inv, NEW r \in Requests, NEW s \in SessionIds,
         ImportTurn(r) \/ RecordTurn(r) \/ EvictTurn(r) \/ RecordEvidence(r) \/ TrimEvidence(r)
  PROVE  Adds(r, s)
<1>1. /\ loc[r] \in Local /\ loc[r].sid \in SessionIds /\ heap[loc[r].sid] \in Session
      /\ SessionOf(r) = loc[r].sid
  <2>1. pc[r] \notin Unassigned
    BY DEF ImportTurn, RecordTurn, EvictTurn, RecordEvidence, TrimEvidence, At, Unassigned
  <2> QED
    BY <2>1, SessionAssigned DEF Inv, TypeOK, SessionOf
<1>2. CASE UNCHANGED heap
  BY <1>2 DEF Adds
<1>3. CASE ImportTurn(r) /\ ~UNCHANGED heap
  <2> DEFINE t == [by |-> r, imported |-> TRUE, long |-> FALSE]
  <2>1. t \in Turn /\ t.by = r
    BY DEF Turn
  <2>2. SetSession(loc[r].sid, AppendTurn(heap[loc[r].sid], t))
    BY <1>1, <1>3 DEF ImportTurn, Raise, store
  <2> HIDE DEF t
  <2> QED
    BY <1>1, <2>1, <2>2, TurnEntries, SetAdds
<1>4. CASE RecordTurn(r) /\ ~UNCHANGED heap
  <2> DEFINE t == [by |-> r, imported |-> FALSE, long |-> loc[r].long]
  <2>1. t \in Turn /\ t.by = r
    BY <1>1 DEF Turn, Local
  <2>2. SetSession(loc[r].sid, AppendTurn(heap[loc[r].sid], t))
    BY <1>1, <1>4 DEF RecordTurn, Raise, store
  <2> HIDE DEF t
  <2> QED
    BY <1>1, <2>1, <2>2, TurnEntries, SetAdds
<1>5. CASE EvictTurn(r)
  <2>1. heap[loc[r].sid].turns # <<>>
    BY <1>1, <1>5, TurnToEvict DEF EvictTurn, At
  <2>2. SetSession(loc[r].sid, PopOldest(heap[loc[r].sid]))
    BY <1>1, <1>5 DEF EvictTurn
  <2> QED
    BY <1>1, <2>1, <2>2, EvictEntries, SetAdds
<1>6. CASE RecordEvidence(r) /\ ~UNCHANGED heap
  <2> DEFINE e == [by |-> r, chunks |-> loc[r].chunks]
  <2>1. e \in EvidenceTurn /\ e.by = r
    BY <1>1 DEF EvidenceTurn, Local
  <2>2. SetSession(loc[r].sid, AppendEvidence(heap[loc[r].sid], e))
    BY <1>1, <1>6 DEF RecordEvidence, Raise, store
  <2> HIDE DEF e
  <2> QED
    BY <1>1, <2>1, <2>2, EvidenceEntries, SetAdds
<1>7. CASE TrimEvidence(r)
  <2>1. SetSession(loc[r].sid, KeepRecentEvidence(heap[loc[r].sid]))
    BY <1>1, <1>7 DEF TrimEvidence
  <2>2. [by |-> r, chunks |-> {}] \in EvidenceTurn
    BY DEF EvidenceTurn
  <2> QED
    BY <1>1, <2>1, <2>2, EvidenceEntries, SetAdds
<1> QED
  BY <1>2, <1>3, <1>4, <1>5, <1>6, <1>7

LEMMA SummaryPure ==
  ASSUME Inv, PureStore, PureSummaries, NEW r \in Requests, AssignSummary(r), NEW s \in SessionIds,
         NEW q \in Entries(heap'[s])
  PROVE  WorksIn(q, s)
<1>1. pc[r] = "summary" /\ SessionOf(r) \in SessionIds /\ heap[s] \in Session
  BY SessionAssigned DEF AssignSummary, At, Unassigned, SessionOf, Inv, TypeOK
<1>2. CASE s = SessionOf(r)
  <2> DEFINE w == [heap[s] EXCEPT !.summary = loc[r].summary]
  <2>1. heap'[s] = w
    BY <1>1, <1>2 DEF AssignSummary, SetSession, Inv, TypeOK
  <2>2. w.turns = heap[s].turns /\ w.evidence = heap[s].evidence /\ w.summary = loc[r].summary
    BY <1>1 DEF Session
  <2>3. q \in Entries(heap[s]) \/ \E i \in DOMAIN loc[r].summary : q = loc[r].summary[i].by
    <3> HIDE DEF w
    <3> QED
      BY <2>1, <2>2 DEF Entries
  <2> QED
    BY <1>1, <1>2, <2>3 DEF PureStore, PureSummaries, PureSummary
<1>3. CASE s # SessionOf(r)
  <2>1. heap'[s] = heap[s]
    BY <1>3 DEF AssignSummary, SetSession, Inv, TypeOK
  <2> QED
    BY <2>1 DEF PureStore
<1> QED
  BY <1>2, <1>3

\* Whatever a handler step leaves in memory was recorded by a request that
\* works in the session it is in.
LEMMA StorePure ==
  ASSUME Inv, PureStore, PureSummaries, NEW r \in Requests, Arrive(r) \/ Handle(r),
         NEW s \in SessionIds, NEW q \in Entries(heap'[s])
  PROVE  WorksIn(q, s)
<1>1. CASE Entries(heap'[s]) = Entries(heap[s])
  BY <1>1 DEF PureStore
<1>2. CASE Quiet(r)
  BY <1>1, <1>2, EntriesOfRecorded DEF Quiet
<1>3. CASE Adds(r, s)
  BY <1>3 DEF Adds, PureStore
<1>4. CASE CreateSession(r)
  <2>1. PICK new \in SessionIds : SetSession(new, NewSession)
    BY <1>4, Zenon DEF CreateSession
  <2>2. s = new => heap'[s] = NewSession
    BY <2>1 DEF SetSession, Inv, TypeOK
  <2>3. s # new => heap'[s] = heap[s]
    BY <2>1 DEF SetSession, Inv, TypeOK
  <2> QED
    BY <1>1, <2>2, <2>3, NoEntries
<1>5. CASE CheckLimit(r)
  BY <1>1, <1>5 DEF CheckLimit, store
<1>6. CASE AssignSummary(r)
  BY <1>6, SummaryPure
<1>7. CASE Arrive(r) \/ CheckSession(r) \/ LookupSession(r) \/ ResetSession(r)
             \/ RemoveEphemeral(r) \/ Reply(r)
  BY <1>2, <1>7, QuietEntries
<1>8. CASE AnswerWithoutRetrieval(r) \/ ResolveContext(r) \/ GatherEvidence(r)
             \/ RejectPremise(r) \/ FailRetrieval(r) \/ GenerateAnswer(r)
             \/ StreamAnswer(r) \/ BreakStream(r) \/ RejectMode(r)
  BY <1>2, <1>8, QuietAnswers
<1>9. CASE UpdateContext(r) \/ BeginSave(r) \/ OpenFile(r) \/ WriteFile(r)
  BY <1>2, <1>9, QuietRecords
<1>10. CASE ImportTurn(r) \/ RecordTurn(r) \/ EvictTurn(r) \/ RecordEvidence(r) \/ TrimEvidence(r)
  BY <1>3, <1>10, RecordAdds
<1> QED
  BY <1>4, <1>5, <1>6, <1>7, <1>8, <1>9, <1>10 DEF Handle

\* Only pop(0) leads to the assignment of a summary.
LEMMA SummaryAfterPop ==
  ASSUME Inv, NEW r \in Requests, Arrive(r) \/ Handle(r), pc'[r] = "summary"
  PROVE  EvictTurn(r)
<1>1. CASE Quiet(r)
  BY <1>1 DEF Quiet, Busy
<1>2. CASE Arrive(r) \/ CheckSession(r) \/ LookupSession(r) \/ ResetSession(r)
             \/ RemoveEphemeral(r) \/ Reply(r)
  BY <1>1, <1>2, QuietEntries
<1>3. CASE AnswerWithoutRetrieval(r) \/ ResolveContext(r) \/ GatherEvidence(r)
             \/ RejectPremise(r) \/ FailRetrieval(r) \/ GenerateAnswer(r)
             \/ StreamAnswer(r) \/ BreakStream(r) \/ RejectMode(r)
  BY <1>1, <1>3, QuietAnswers
<1>4. CASE UpdateContext(r) \/ BeginSave(r) \/ OpenFile(r) \/ WriteFile(r)
  BY <1>1, <1>4, QuietRecords
<1>5. loc[r].then \in Continuations
  BY DEF Inv, ThreadInv, Placed
<1>6. CASE ImportTurn(r) \/ RecordTurn(r) \/ CheckLimit(r) \/ AssignSummary(r)
             \/ RecordEvidence(r) \/ TrimEvidence(r)
  BY <1>5, <1>6 DEF ImportTurn, RecordTurn, CheckLimit, AssignSummary, RecordEvidence,
                    TrimEvidence, Raise, Leave, SaveThen, Goto, End, AfterEvidence,
                    Continuations, Inv, TypeOK
<1>7. CASE CreateSession(r)
  <2> DEFINE next == CASE loc[r].kind = "open" -> "reply"
                       [] loc[r].kind = "oneshot" /\ loc[r].target = NoSession -> "import"
                       [] loc[r].kind = "stream" -> "resolve"
                       [] OTHER -> "route"
  <2>1. \E l : SaveThen(r, next, l)
    BY <1>7, Zenon DEF CreateSession
  <2>2. next # "summary"
    OBVIOUS
  <2> HIDE DEF next
  <2> QED
    BY <2>1, <2>2 DEF SaveThen, Goto, Inv, TypeOK
<1> QED
  BY <1>2, <1>3, <1>4, <1>6, <1>7 DEF Handle

LEMMA SummariesPreserved ==
  ASSUME Inv, Inv', Pure, NEW r \in Requests, Arrive(r) \/ Handle(r), NEW q \in Requests
  PROVE  PureSummary(q)'
<1> SUFFICES ASSUME pc'[q] = "summary", NEW i \in DOMAIN loc'[q].summary,
                    NEW who, who = loc'[q].summary[i].by, NEW s, s = loc'[q].sid
             PROVE  WorksIn(who, s)'
  <2>1. PureSummary(q)' <=> (pc'[q] = "summary" =>
          \A i \in DOMAIN loc'[q].summary :
            loc'[q].sid \in {loc'[loc'[q].summary[i].by].sid, loc'[loc'[q].summary[i].by].target})
    BY DEF PureSummary, SessionOf, WorksIn
  <2> QED
    BY <2>1 DEF WorksIn
<1>1. who \in Requests /\ s \in SessionIds
  <2>1. loc'[q] \in Local /\ Placed(pc'[q], loc'[q], issued')
    BY DEF Inv, TypeOK, ThreadInv
  <2>2. loc'[q].summary \in Seq(Turn) /\ loc'[q].sid \in SessionIds \cup {NoSession}
    BY <2>1 DEF Local
  <2>3. loc'[q].summary[i] \in Turn
    BY <2>2
  <2> QED
    BY <2>1, <2>2, <2>3 DEF Placed, Unassigned, Turn
<1>2. WorksIn(who, s)
  <2>1. CASE q # r
    <3>1. pc'[q] = pc[q] /\ loc'[q] = loc[q]
      BY <2>1, HandlerFrame
    <3> QED
      BY <3>1 DEF Pure, PureSummaries, PureSummary, SessionOf
  <2>2. CASE q = r
    <3>1. EvictTurn(r)
      BY <2>2, SummaryAfterPop
    <3> DEFINE v == heap[loc[r].sid]
               summary == Summarised(v.summary, Head(v.turns))
    <3>2. /\ pc[r] = "pop" /\ loc[r] \in Local /\ loc[r].sid \in SessionIds
          /\ v \in Session /\ v.turns # <<>>
      BY <3>1, TurnToEvict DEF EvictTurn, At, SessionOf, Inv, TypeOK
    <3>3. loc'[r] = [loc[r] EXCEPT !.summary = summary]
      BY <3>1 DEF EvictTurn, SetLocal, SessionOf, Inv, TypeOK
    <3>4. loc'[r].summary = summary /\ loc'[r].sid = loc[r].sid
      <4> HIDE DEF summary
      <4> QED
        BY <3>2, <3>3 DEF Local
    <3>5. summary[i].by \in Entries(v)
      BY <2>2, <3>2, <3>4, EvictEntries
    <3> QED
      BY <2>2, <3>2, <3>4, <3>5 DEF Pure, PureStore
  <2> QED
    BY <2>1, <2>2
<1> QED
  BY <1>1, <1>2, WorkLasts

LEMMA HandlerPure ==
  ASSUME Inv, Inv', Pure, NEW r \in Requests, Arrive(r) \/ Handle(r)
  PROVE  Pure'
<1>1. ASSUME NEW s \in SessionIds, NEW q \in Requests, WorksIn(q, s)
      PROVE  WorksIn(q, s)'
  BY <1>1, WorkLasts
<1>2. PureStore'
  <2> SUFFICES ASSUME NEW s \in SessionIds, NEW q \in Entries(heap'[s])
               PROVE  WorksIn(q, s)'
    BY DEF PureStore, Entries
  <2>1. WorksIn(q, s)
    BY StorePure DEF Pure
  <2>2. heap'[s] \in Session
    BY DEF Inv, TypeOK
  <2>3. q \in Requests
    BY <2>2, EntriesAreRequests
  <2> QED
    BY <1>1, <2>1, <2>3
\* An image is pure if it is the file, a payload, nothing or what is in memory.
<1>3. ASSUME NEW image \in {disk.image, EmptyImage, Snapshot} \cup {loc[q].image : q \in Requests},
             NEW s \in SessionIds, NEW q \in Entries(image.heap[s])
      PROVE  WorksIn(q, s)'
  <2>1. image \in Image
    <3>1. disk.image \in Image /\ Snapshot \in Image /\ EmptyImage \in Image
      BY IdleShape, SnapshotShape DEF Inv, TypeOK
    <3>2. \A p \in Requests : loc[p].image \in Image
      <4> TAKE p \in Requests
      <4>1. loc[p] \in Local
        BY DEF Inv, TypeOK
      <4> QED
        BY <4>1 DEF Local
    <3> QED
      BY <3>1, <3>2
  <2>2. image.heap[s] \in Session
    BY <2>1 DEF Image
  <2>3. q \in Requests
    BY <2>2, EntriesAreRequests
  <2>4. WorksIn(q, s)
    <3>1. CASE image = disk.image
      BY <3>1 DEF Pure, PureFile
    <3>2. CASE image = EmptyImage
      BY <3>2, NoEntries DEF EmptyImage
    <3>3. CASE image = Snapshot
      <4>1. image.heap[s] \in {heap[s], NewSession}
        BY <3>3 DEF Snapshot
      <4> QED
        BY <4>1, NoEntries DEF Pure, PureStore
    <3>4. CASE image \in {loc[p].image : p \in Requests}
      BY <3>4 DEF Pure, PurePayloads
    <3> QED
      BY <3>1, <3>2, <3>3, <3>4
  <2> QED
    BY <1>1, <2>3, <2>4
<1>4. PureFile'
  <2> SUFFICES ASSUME NEW s \in SessionIds, NEW q \in Entries(disk'.image.heap[s])
               PROVE  WorksIn(q, s)'
    BY DEF PureFile, Entries
  <2>1. disk'.image \in {disk.image, EmptyImage, Snapshot} \cup {loc[p].image : p \in Requests}
    BY StoreFrame
  <2> QED
    BY <1>3, <2>1
<1>5. PurePayloads'
  <2> SUFFICES ASSUME NEW p \in Requests, NEW s \in SessionIds,
                      NEW q \in Entries(loc'[p].image.heap[s])
               PROVE  WorksIn(q, s)'
    BY DEF PurePayloads, Entries
  <2>1. loc'[p].image \in {disk.image, EmptyImage, Snapshot} \cup {loc[x].image : x \in Requests}
    <3>1. CASE p = r
      BY <3>1, HandlerKeeps DEF Kept
    <3>2. CASE p # r
      BY <3>2, HandlerFrame
    <3> QED
      BY <3>1, <3>2
  <2> QED
    BY <1>3, <2>1
<1>6. PureSummaries'
  BY SummariesPreserved DEF PureSummaries
<1> QED
  BY <1>2, <1>4, <1>5, <1>6 DEF Pure

LEMMA ProcessPure ==
  ASSUME Inv, Inv', Pure, Crash \/ Restart
  PROVE  Pure'
<1>1. \A q \in Requests, s \in SessionIds : WorksIn(q, s)' <=> WorksIn(q, s)
  <2> SUFFICES ASSUME NEW q \in Requests
               PROVE  loc'[q].sid = loc[q].sid /\ loc'[q].target = loc[q].target
    BY DEF WorksIn
  <2>1. loc'[q] = loc[q] \/ loc'[q] = Ended(loc[q], "lost")
    BY DEF Crash, Restart
  <2> QED
    BY <2>1 DEF Ended, IdleLocal
<1>2. \A r \in Requests : /\ loc'[r].image \in {loc[r].image, EmptyImage}
                          /\ pc'[r] # "summary"
  BY DEF Crash, Restart, Ended, IdleLocal, InFlight, Inv, DownInv
<1>3. \A s \in SessionIds :
        /\ heap'[s] \in {heap[s], NewSession, disk.image.heap[s]}
        /\ disk' = disk
  BY DEF Crash, Restart
<1>4. /\ \A s \in SessionIds : heap[s] \in Session /\ disk.image.heap[s] \in Session
      /\ \A r \in Requests, s \in SessionIds : loc[r].image.heap[s] \in Session
  <2>1. \A r \in Requests : loc[r] \in Local
    BY DEF Inv, TypeOK
  <2> QED
    BY <2>1 DEF Inv, TypeOK, Local, Image
<1>5. PureStore'
  <2> SUFFICES ASSUME NEW s \in SessionIds, NEW q \in Entries(heap'[s])
               PROVE  WorksIn(q, s)'
    BY DEF PureStore, Entries
  <2> QED
    BY <1>1, <1>3, <1>4, NoEntries, EntriesAreRequests DEF Pure, PureStore, PureFile
<1>6. PureFile'
  <2> SUFFICES ASSUME NEW s \in SessionIds, NEW q \in Entries(disk'.image.heap[s])
               PROVE  WorksIn(q, s)'
    BY DEF PureFile, Entries
  <2> QED
    BY <1>1, <1>3, <1>4, EntriesAreRequests DEF Pure, PureFile
<1>7. PurePayloads'
  <2> SUFFICES ASSUME NEW p \in Requests, NEW s \in SessionIds,
                      NEW q \in Entries(loc'[p].image.heap[s])
               PROVE  WorksIn(q, s)'
    BY DEF PurePayloads, Entries
  <2>1. loc'[p].image.heap[s] \in {loc[p].image.heap[s], NewSession}
    BY <1>2 DEF EmptyImage
  <2> QED
    BY <1>1, <1>4, <2>1, NoEntries, EntriesAreRequests DEF Pure, PurePayloads
<1>8. PureSummaries'
  BY <1>2 DEF PureSummaries, PureSummary
<1> QED
  BY <1>5, <1>6, <1>7, <1>8 DEF Pure

LEMMA PurePreserved ==
  ASSUME Inv, Inv', Pure, [Next]_vars
  PROVE  Pure'
<1>1. CASE UNCHANGED vars
  <2>1. heap' = heap /\ disk' = disk /\ loc' = loc /\ pc' = pc
    BY <1>1 DEF vars
  <2>2. PureStore'
    <3>1. SUFFICES ASSUME NEW s \in SessionIds, NEW q \in Entries(heap'[s])
                   PROVE  WorksIn(q, s)'
      BY DEF PureStore, Entries
    <3>2. WorksIn(q, s)
      BY <2>1, <3>1 DEF Pure, PureStore
    <3> QED
      BY <2>1, <3>2 DEF WorksIn
  <2>3. PureFile'
    <3>1. SUFFICES ASSUME NEW s \in SessionIds, NEW q \in Entries(disk'.image.heap[s])
                   PROVE  WorksIn(q, s)'
      BY DEF PureFile, Entries
    <3>2. WorksIn(q, s)
      BY <2>1, <3>1 DEF Pure, PureFile
    <3> QED
      BY <2>1, <3>2 DEF WorksIn
  <2>4. PurePayloads'
    <3>1. SUFFICES ASSUME NEW p \in Requests, NEW s \in SessionIds,
                          NEW q \in Entries(loc'[p].image.heap[s])
                   PROVE  WorksIn(q, s)'
      BY DEF PurePayloads, Entries
    <3>2. q \in Entries(loc[p].image.heap[s])
      BY <2>1, <3>1
    <3>3. WorksIn(q, s)
      BY <3>2 DEF Pure, PurePayloads
    <3> QED
      BY <2>1, <3>3 DEF WorksIn
  <2>5. PureSummaries'
    BY <2>1 DEF Pure, PureSummaries, PureSummary, WorksIn, SessionOf
  <2> QED
    BY <2>2, <2>3, <2>4, <2>5 DEF Pure
<1>2. CASE Crash \/ Restart
  BY <1>2, ProcessPure
<1>3. ASSUME NEW r \in Requests, Arrive(r) \/ Handle(r)
      PROVE  Pure'
  BY <1>3, HandlerPure
<1> QED
  BY <1>1, <1>2, <1>3 DEF Next

\* No interleaving, race on the file, crash or restart puts what one request
\* said or found into the turns, summary or evidence of a session that it never
\* worked in, in memory or on disk.
THEOREM Isolation == Spec => []SessionIsolation
<1>1. Init => Pure
  BY NoEntries DEF Init, Pure, PureStore, PureFile, PurePayloads, PureSummaries, PureSummary,
                   IdleLocal, EmptyImage
<1>2. Pure => SessionIsolation
  BY DEF Pure, PureStore, PureFile, WorksIn, SessionIsolation
<1> QED
  BY <1>1, <1>2, PurePreserved, Invariance, PTL DEF Spec

-----------------------------------------------------------------------------
(* What each step does to the local variables of its thread *)

Fields ==
  {"kind", "target", "sid", "guarded", "subject", "chunks", "toContext", "then", "outcome",
   "size", "image"}

Stays(r, fields) == \A f \in fields : loc'[r][f] = loc[r][f]

LEMMA LocalValue ==
  ASSUME Inv, NEW r \in Requests, NEW l, SetLocal(r, l)
  PROVE  loc'[r] = l /\ loc[r] \in Local
BY DEF SetLocal, Inv, TypeOK

LEMMA LabelValue ==
  ASSUME Inv, NEW r \in Requests, NEW label, Goto(r, label)
  PROVE  pc'[r] = label
BY DEF Goto, Inv, TypeOK

LEMMA LeaveMoves ==
  ASSUME Inv, NEW r \in Requests, NEW outcome, Leave(r, outcome)
  PROVE  /\ pc'[r] = End(loc[r]) /\ loc'[r].outcome = outcome
         /\ Stays(r, Fields \ {"outcome"})
<1>1. loc'[r] = [loc[r] EXCEPT !.outcome = outcome] /\ loc[r] \in Local
  BY LocalValue DEF Leave
<1>2. pc'[r] = End(loc[r])
  BY LabelValue DEF Leave
<1> QED
  BY <1>1, <1>2 DEF Local, Stays, Fields

LEMMA RaiseMoves ==
  ASSUME Inv, NEW r \in Requests, Raise(r)
  PROVE  /\ pc'[r] = End(loc[r]) /\ loc'[r].outcome = "failed"
         /\ Stays(r, Fields \ {"outcome"}) /\ UNCHANGED store
BY LeaveMoves DEF Raise

LEMMA SaveMoves ==
  ASSUME Inv, NEW r \in Requests, NEW l \in Local, NEW next, SaveThen(r, next, l)
  PROVE  /\ pc'[r] = (IF Persistent THEN "save" ELSE next) /\ loc'[r].then = next
         /\ \A f \in Fields \ {"then"} : loc'[r][f] = l[f]
<1>1. loc'[r] = [l EXCEPT !.then = next]
  BY LocalValue DEF SaveThen
<1>2. pc'[r] = IF Persistent THEN "save" ELSE next
  BY LabelValue DEF SaveThen
<1> QED
  BY <1>1, <1>2 DEF Local, Fields

LEMMA ArriveMoves ==
  ASSUME Inv, NEW r \in Requests, Arrive(r)
  PROVE  /\ pc[r] = "idle" /\ Cardinality(InFlight) < MaxInFlight
         /\ loc'[r].kind \in AllKinds /\ pc'[r] \in {"check", "create", "lookup", "reset"}
         /\ pc'[r] = "check" <=> loc'[r].kind = "answer"
         /\ pc'[r] = "create" <=> loc'[r].kind \in {"open", "oneshot"}
         /\ pc'[r] = "reset" <=> loc'[r].kind = "reset"
         /\ loc'[r].target \in Known \cup {NoSession}
         /\ loc'[r].kind \in {"open", "oneshot"} => loc'[r].target = NoSession
         /\ \A f \in Fields \ {"kind", "target"} : loc'[r][f] = IdleLocal[f]
         /\ UNCHANGED <<store, disk, process, found>>
<1>1. PICK kind \in Kinds, target \in Known \cup {NoSession}, valid \in BOOLEAN, long \in Lengths :
        /\ kind \in {"open", "oneshot"} => target = NoSession
        /\ Goto(r, FirstLabel[kind])
        /\ SetLocal(r, [IdleLocal EXCEPT !.kind = kind, !.target = target,
                                         !.valid = valid, !.long = long])
  BY DEF Arrive
<1>2. /\ pc'[r] = FirstLabel[kind]
      /\ loc'[r] = [IdleLocal EXCEPT !.kind = kind, !.target = target,
                                     !.valid = valid, !.long = long]
  BY <1>1, LocalValue, LabelValue
<1>3. /\ loc'[r].kind = kind /\ loc'[r].target = target
      /\ \A f \in Fields \ {"kind", "target"} : loc'[r][f] = IdleLocal[f]
  BY <1>2 DEF IdleLocal, Fields
<1>4. /\ kind \in AllKinds /\ pc'[r] \in {"check", "create", "lookup", "reset"}
      /\ pc'[r] = "check" <=> kind = "answer"
      /\ pc'[r] = "create" <=> kind \in {"open", "oneshot"}
      /\ pc'[r] = "reset" <=> kind = "reset"
  BY <1>2, KindsAssumption DEF FirstLabel, AllKinds
<1> QED
  BY <1>1, <1>3, <1>4 DEF Arrive, At

LEMMA CheckMoves ==
  ASSUME Inv, NEW r \in Requests, CheckSession(r)
  PROVE  /\ pc[r] = "check" /\ UNCHANGED <<store, disk, process, found>>
         /\ \/ loc[r].target \notin live /\ Leave(r, "rejected")
            \/ /\ loc[r].target \in live /\ pc'[r] = "import" /\ loc'[r].sid = loc[r].target
               /\ Stays(r, Fields \ {"sid"})
<1>1. CASE loc[r].target \in live
  <2>1. PICK n : SetLocal(r, [loc[r] EXCEPT !.sid = loc[r].target, !.left = n])
    BY <1>1 DEF CheckSession
  <2>2. loc'[r] = [loc[r] EXCEPT !.sid = loc[r].target, !.left = n] /\ loc[r] \in Local
    BY <2>1, LocalValue
  <2>3. loc'[r].sid = loc[r].target /\ Stays(r, Fields \ {"sid"})
    BY <2>2 DEF Local, Stays, Fields
  <2> QED
    BY <1>1, <2>3, LabelValue DEF CheckSession, At
<1> QED
  BY <1>1 DEF CheckSession, At

LEMMA ImportMoves ==
  ASSUME Inv, NEW r \in Requests, ImportTurn(r)
  PROVE  /\ pc[r] = "import" /\ loc[r].sid \in SessionIds /\ UNCHANGED <<disk, process, found>>
         /\ \/ /\ pc'[r] = "lookup" /\ loc'[r].target = loc[r].sid
               /\ loc'[r].guarded = (loc[r].kind = "oneshot")
               /\ Stays(r, Fields \ {"target", "guarded"}) /\ UNCHANGED store
            \/ Raise(r) /\ loc[r].sid \notin live
            \/ /\ pc'[r] = "limit" /\ loc'[r].then = "import" /\ loc[r].sid \in live
               /\ Stays(r, Fields \ {"then"}) /\ UNCHANGED <<live, issued>>
               /\ SetSession(loc[r].sid, AppendTurn(heap[loc[r].sid],
                      [by |-> r, imported |-> TRUE, long |-> FALSE]))
<1>0. pc[r] = "import" /\ loc[r].sid \in SessionIds /\ loc[r] \in Local
  BY SessionAssigned DEF ImportTurn, At, Unassigned, Inv, TypeOK
<1>1. CASE HistoryImported(loc[r])
  <2>1. loc'[r] = [loc[r] EXCEPT !.target = loc[r].sid, !.guarded = loc[r].kind = "oneshot"]
    BY <1>1, LocalValue DEF ImportTurn, SessionOf
  <2>2. /\ loc'[r].target = loc[r].sid /\ loc'[r].guarded = (loc[r].kind = "oneshot")
        /\ Stays(r, Fields \ {"target", "guarded"})
    BY <1>0, <2>1 DEF Local, Stays, Fields
  <2> QED
    BY <1>0, <1>1, <2>2, LabelValue DEF ImportTurn
<1>2. CASE ~HistoryImported(loc[r]) /\ loc[r].sid \in live
  <2>1. loc'[r] = [loc[r] EXCEPT !.left = @ - 1, !.then = "import"]
    BY <1>2, LocalValue DEF ImportTurn, SessionOf
  <2>2. loc'[r].then = "import" /\ Stays(r, Fields \ {"then"})
    BY <1>0, <2>1 DEF Local, Stays, Fields
  <2> QED
    BY <1>0, <1>2, <2>2, LabelValue DEF ImportTurn, SessionOf
<1> QED
  BY <1>0, <1>1, <1>2 DEF ImportTurn, SessionOf

LEMMA CreateMovesThread ==
  ASSUME Inv, NEW r \in Requests, CreateSession(r)
  PROVE  /\ pc[r] = "create" /\ UNCHANGED <<disk, process, found>>
         /\ loc'[r].sid \in SessionIds \ issued
         /\ live' = live \cup {loc'[r].sid} /\ issued' = issued \cup {loc'[r].sid}
         /\ SetSession(loc'[r].sid, NewSession)
         /\ pc'[r] = (IF Persistent THEN "save" ELSE loc'[r].then)
         /\ loc'[r].then \in {"reply", "import", "resolve", "route"}
         /\ loc'[r].then = "reply" <=> loc[r].kind = "open"
         /\ loc'[r].then = "import" <=> loc[r].kind = "oneshot" /\ loc[r].target = NoSession
         /\ loc[r].kind # "open" => loc'[r].outcome = loc[r].outcome
         /\ Stays(r, Fields \ {"sid", "then", "outcome"})
<1> DEFINE next == CASE loc[r].kind = "open" -> "reply"
                     [] loc[r].kind = "oneshot" /\ loc[r].target = NoSession -> "import"
                     [] loc[r].kind = "stream" -> "resolve"
                     [] OTHER -> "route"
           after(s, n) == [loc[r] EXCEPT !.sid = s, !.left = n,
                             !.outcome = IF loc[r].kind = "open" THEN "answered" ELSE @]
<1>0. pc[r] = "create" /\ loc[r] \in Local
  BY DEF CreateSession, At, Inv, TypeOK
<1>1. PICK s \in SessionIds \ issued, n \in 0..MaxImport :
        /\ live' = live \cup {s} /\ issued' = issued \cup {s}
        /\ SetSession(s, NewSession) /\ SaveThen(r, next, after(s, n))
  BY DEF CreateSession
<1>2. /\ after(s, n) \in Local /\ after(s, n).sid = s
      /\ \A f \in Fields \ {"sid", "outcome"} : after(s, n)[f] = loc[r][f]
      /\ loc[r].kind # "open" => after(s, n).outcome = loc[r].outcome
  BY <1>0 DEF Local, Outcomes, Fields
<1>3. /\ next \in {"reply", "import", "resolve", "route"}
      /\ next = "reply" <=> loc[r].kind = "open"
      /\ next = "import" <=> loc[r].kind = "oneshot" /\ loc[r].target = NoSession
  OBVIOUS
<1> HIDE DEF next, after
<1>4. /\ pc'[r] = (IF Persistent THEN "save" ELSE next) /\ loc'[r].then = next
      /\ \A f \in Fields \ {"then"} : loc'[r][f] = after(s, n)[f]
  BY <1>1, <1>2, SaveMoves
<1>5. loc'[r].sid = s /\ (loc[r].kind # "open" => loc'[r].outcome = loc[r].outcome)
  BY <1>2, <1>4 DEF Fields
<1>6. Stays(r, Fields \ {"sid", "then", "outcome"})
  BY <1>2, <1>4 DEF Stays
<1> QED
  BY <1>0, <1>1, <1>3, <1>4, <1>5, <1>6 DEF CreateSession

LEMMA LookupMoves ==
  ASSUME Inv, NEW r \in Requests, LookupSession(r)
  PROVE  /\ pc[r] = "lookup" /\ UNCHANGED <<store, disk, process, found>>
         /\ \/ Leave(r, "rejected")
            \/ /\ loc[r].target \in live /\ pc'[r] \in {"resolve", "route"}
               /\ loc'[r].sid = loc[r].target /\ Stays(r, Fields \ {"sid"})
            \/ loc[r].target \notin live /\ pc'[r] = "create" /\ loc'[r] = loc[r]
<1>1. CASE loc[r].valid /\ loc[r].target \in live
  <2>1. loc'[r] = [loc[r] EXCEPT !.sid = loc[r].target] /\ loc[r] \in Local
    BY <1>1, LocalValue DEF LookupSession
  <2>2. loc'[r].sid = loc[r].target /\ Stays(r, Fields \ {"sid"})
    BY <2>1 DEF Local, Stays, Fields
  <2> QED
    BY <1>1, <2>2, LabelValue DEF LookupSession, At
<1> QED
  BY <1>1, LabelValue DEF LookupSession, At

LEMMA ResetMoves ==
  ASSUME Inv, NEW r \in Requests, ResetSession(r)
  PROVE  /\ pc[r] = "reset" /\ UNCHANGED <<heap, issued, disk, process, found>>
         /\ live' = live \ {loc[r].target}
         /\ loc'[r].outcome = "answered" /\ loc'[r].sid = loc[r].target
         /\ Stays(r, Fields \ {"outcome", "sid", "then"})
         /\ \/ /\ loc[r].target \in live /\ loc'[r].then = "reply"
               /\ pc'[r] = (IF Persistent THEN "save" ELSE "reply")
            \/ loc[r].target \notin live /\ pc'[r] = "reply" /\ Stays(r, {"then"})
<1> DEFINE l == [loc[r] EXCEPT !.outcome = "answered", !.sid = loc[r].target]
<1>0. loc[r] \in Local
  BY DEF Inv, TypeOK
<1>1. /\ l \in Local /\ l.sid = loc[r].target /\ l.outcome = "answered"
      /\ \A f \in Fields \ {"outcome", "sid"} : l[f] = loc[r][f]
  BY <1>0 DEF Local, Outcomes, Fields
<1>2. CASE loc[r].target \in live
  <2>1. live' = live \ {loc[r].target} /\ SaveThen(r, "reply", l)
    BY <1>2 DEF ResetSession
  <2> HIDE DEF l
  <2>2. /\ pc'[r] = (IF Persistent THEN "save" ELSE "reply") /\ loc'[r].then = "reply"
        /\ \A f \in Fields \ {"then"} : loc'[r][f] = l[f]
    BY <1>1, <2>1, SaveMoves
  <2>3. /\ loc'[r].outcome = "answered" /\ loc'[r].sid = loc[r].target
        /\ Stays(r, Fields \ {"outcome", "sid", "then"})
    BY <1>1, <2>2 DEF Fields, Stays
  <2> QED
    BY <1>2, <2>1, <2>2, <2>3 DEF ResetSession, At
<1>3. CASE loc[r].target \notin live
  <2>1. live' = live /\ pc'[r] = "reply" /\ loc'[r] = l
    BY <1>3, LabelValue, LocalValue DEF ResetSession
  <2> HIDE DEF l
  <2>2. /\ loc'[r].outcome = "answered" /\ loc'[r].sid = loc[r].target
        /\ Stays(r, Fields \ {"outcome", "sid"})
    BY <1>1, <2>1 DEF Fields, Stays
  <2> QED
    BY <1>3, <2>1, <2>2 DEF ResetSession, At, Stays, Fields
<1> QED
  BY <1>2, <1>3

LEMMA CleanupMoves ==
  ASSUME Inv, NEW r \in Requests, RemoveEphemeral(r)
  PROVE  /\ pc[r] = "cleanup" /\ UNCHANGED <<heap, issued, disk, process, found>>
         /\ live' = live \ {loc[r].target}
         /\ Stays(r, Fields \ {"guarded", "then"}) /\ ~loc'[r].guarded
         /\ \/ /\ loc[r].target \in live /\ loc'[r].then = "reply"
               /\ pc'[r] = (IF Persistent THEN "save" ELSE "reply")
            \/ loc[r].target \notin live /\ pc'[r] = "reply" /\ Stays(r, {"then"})
<1> DEFINE l == [loc[r] EXCEPT !.guarded = FALSE]
<1>0. loc[r] \in Local
  BY DEF Inv, TypeOK
<1>1. /\ l \in Local /\ ~l.guarded
      /\ \A f \in Fields \ {"guarded"} : l[f] = loc[r][f]
  BY <1>0 DEF Local, Fields
<1>2. CASE loc[r].target \in live
  <2>1. live' = live \ {loc[r].target} /\ SaveThen(r, "reply", l)
    BY <1>2 DEF RemoveEphemeral
  <2> HIDE DEF l
  <2>2. /\ pc'[r] = (IF Persistent THEN "save" ELSE "reply") /\ loc'[r].then = "reply"
        /\ \A f \in Fields \ {"then"} : loc'[r][f] = l[f]
    BY <1>1, <2>1, SaveMoves
  <2>3. ~loc'[r].guarded /\ Stays(r, Fields \ {"guarded", "then"})
    BY <1>1, <2>2 DEF Fields, Stays
  <2> QED
    BY <1>2, <2>1, <2>2, <2>3 DEF RemoveEphemeral, At
<1>3. CASE loc[r].target \notin live
  <2>1. live' = live /\ pc'[r] = "reply" /\ loc'[r] = l
    BY <1>3, LabelValue, LocalValue DEF RemoveEphemeral
  <2> HIDE DEF l
  <2>2. ~loc'[r].guarded /\ Stays(r, Fields \ {"guarded"})
    BY <1>1, <2>1 DEF Fields, Stays
  <2> QED
    BY <1>3, <2>1, <2>2 DEF RemoveEphemeral, At, Stays, Fields
<1> QED
  BY <1>2, <1>3

LEMMA ReplyMoves ==
  ASSUME Inv, NEW r \in Requests, Reply(r)
  PROVE  /\ pc[r] = "reply" /\ pc'[r] = "done" /\ UNCHANGED <<store, disk, process, found>>
         /\ Stays(r, {"kind", "target", "sid", "outcome"})
         /\ \A f \in Fields \ {"kind", "target", "sid", "outcome"} : loc'[r][f] = IdleLocal[f]
<1>1. loc'[r] = Ended(loc[r], loc[r].outcome)
  BY LocalValue DEF Reply
<1>2. /\ Stays(r, {"kind", "target", "sid", "outcome"})
      /\ \A f \in Fields \ {"kind", "target", "sid", "outcome"} : loc'[r][f] = IdleLocal[f]
  BY <1>1 DEF Ended, IdleLocal, Stays, Fields
<1> QED
  BY <1>2, LabelValue DEF Reply, At

LEMMA PlainMoves ==
  ASSUME Inv, NEW r \in Requests, AnswerWithoutRetrieval(r) \/ GenerateAnswer(r) \/ StreamAnswer(r)
  PROVE  /\ pc[r] \in {"route", "generate"} /\ pc'[r] = "append"
         /\ UNCHANGED <<store, disk, process, found>>
         /\ Stays(r, Fields \ {"outcome", "toContext"})
         /\ loc'[r].toContext => loc[r].toContext \/ loc[r].chunks # {}
         /\ pc[r] = "route" => Stays(r, {"toContext"})
<1>0. loc[r] \in Local
  BY DEF Inv, TypeOK
<1>1. CASE AnswerWithoutRetrieval(r)
  <2>1. loc'[r] = [loc[r] EXCEPT !.outcome = "answered"]
    BY <1>1, LocalValue DEF AnswerWithoutRetrieval
  <2>2. Stays(r, Fields \ {"outcome"})
    BY <1>0, <2>1 DEF Local, Stays, Fields
  <2> QED
    BY <1>1, <2>2, LabelValue DEF AnswerWithoutRetrieval, At, Stays, Fields
<1>2. CASE GenerateAnswer(r) \/ StreamAnswer(r)
  <2>1. PICK outcome, toEvidence, toContext :
          /\ SetLocal(r, [loc[r] EXCEPT !.outcome = outcome, !.toEvidence = toEvidence,
                                        !.toContext = toContext])
          /\ toContext => loc[r].chunks # {}
    BY <1>2, Zenon DEF GenerateAnswer, StreamAnswer, Endings
  <2>2. loc'[r] = [loc[r] EXCEPT !.outcome = outcome, !.toEvidence = toEvidence,
                                 !.toContext = toContext]
    BY <2>1, LocalValue
  <2>3. Stays(r, Fields \ {"outcome", "toContext"}) /\ loc'[r].toContext = toContext
    BY <1>0, <2>2 DEF Local, Stays, Fields
  <2>4. pc[r] = "generate" /\ pc'[r] = "append" /\ UNCHANGED <<store, disk, process, found>>
    BY <1>2, LabelValue DEF GenerateAnswer, StreamAnswer, At
  <2> QED
    BY <2>1, <2>3, <2>4
<1> QED
  BY <1>1, <1>2

LEMMA ResolveMoves ==
  ASSUME Inv, NEW r \in Requests, ResolveContext(r)
  PROVE  /\ pc[r] \in {"route", "resolve"} /\ loc[r].sid \in SessionIds
         /\ UNCHANGED <<disk, process, found>>
         /\ \/ Raise(r) /\ loc[r].sid \notin live
            \/ /\ loc[r].sid \in live /\ UNCHANGED <<live, issued>>
               /\ pc'[r] = (IF Persistent THEN "save" ELSE "gather") /\ loc'[r].then = "gather"
               /\ Stays(r, Fields \ {"then", "subject"})
               /\ SetSession(loc[r].sid, [heap[loc[r].sid] EXCEPT !.focus = loc'[r].subject])
<1>0. /\ pc[r] \in {"route", "resolve"} /\ loc[r].sid \in SessionIds /\ loc[r] \in Local
      /\ heap[loc[r].sid] \in Session
  BY SessionAssigned DEF ResolveContext, At, Unassigned, Inv, TypeOK
<1>1. CASE loc[r].sid \in live
  <2>1. PICK subject \in Subjects \cup {heap[loc[r].sid].focus, heap[loc[r].sid].anchor} :
          /\ SetSession(loc[r].sid, [heap[loc[r].sid] EXCEPT !.focus = subject])
          /\ SaveThen(r, "gather", [loc[r] EXCEPT !.subject = subject])
    BY <1>1 DEF ResolveContext, SessionOf
  <2> DEFINE l == [loc[r] EXCEPT !.subject = subject]
  <2>2. subject \in Focus
    BY <1>0, SessionFields DEF Focus
  <2>3. l \in Local /\ l.subject = subject /\ \A f \in Fields \ {"subject"} : l[f] = loc[r][f]
    BY <1>0, <2>2 DEF Local, Fields
  <2>4. SaveThen(r, "gather", l)
    BY <2>1
  <2> HIDE DEF l
  <2>5. /\ pc'[r] = (IF Persistent THEN "save" ELSE "gather") /\ loc'[r].then = "gather"
        /\ \A f \in Fields \ {"then"} : loc'[r][f] = l[f]
    BY <2>3, <2>4, SaveMoves
  <2>6. loc'[r].subject = subject /\ Stays(r, Fields \ {"then", "subject"})
    BY <2>3, <2>5 DEF Fields, Stays
  <2> QED
    BY <1>0, <1>1, <2>1, <2>5, <2>6 DEF ResolveContext, SessionOf
<1> QED
  BY <1>0, <1>1 DEF ResolveContext, SessionOf

\* What a request gathers was found for its session now, or comes from the
\* evidence the session keeps.
LEMMA GatherMoves ==
  ASSUME Inv, NEW r \in Requests, GatherEvidence(r)
  PROVE  /\ pc[r] = "gather" /\ pc'[r] = "generate" /\ loc[r].sid \in SessionIds
         /\ UNCHANGED <<store, disk, process>> /\ Stays(r, Fields \ {"chunks"})
         /\ \E hits \in Hits, late \in Hits,
               remembered \in Remembered(LatestEvidence(heap[loc[r].sid])),
               older \in Recalled(heap[loc[r].sid]) :
              /\ found' = [found EXCEPT ![loc[r].sid] = @ \cup hits \cup late]
              /\ loc'[r].chunks \subseteq Composed(remembered, hits, older) \cup late
<1>0. pc[r] = "gather" /\ loc[r].sid \in SessionIds /\ loc[r] \in Local
  BY SessionAssigned DEF GatherEvidence, At, Unassigned, Inv, TypeOK
<1>1. PICK hits \in Hits, late \in Hits,
           remembered \in Remembered(LatestEvidence(heap[loc[r].sid])),
           older \in Recalled(heap[loc[r].sid]) :
        /\ found' = [found EXCEPT ![loc[r].sid] = @ \cup hits \cup late]
        /\ \E fresh : \E chunks \in SUBSET (Composed(remembered, hits, older) \cup late) :
             SetLocal(r, [loc[r] EXCEPT !.chunks = chunks, !.fresh = fresh])
  BY Zenon DEF GatherEvidence, SessionOf
<1>2. PICK fresh : \E chunks \in SUBSET (Composed(remembered, hits, older) \cup late) :
        SetLocal(r, [loc[r] EXCEPT !.chunks = chunks, !.fresh = fresh])
  BY <1>1
<1>3. PICK chunks \in SUBSET (Composed(remembered, hits, older) \cup late) :
        SetLocal(r, [loc[r] EXCEPT !.chunks = chunks, !.fresh = fresh])
  BY <1>2
<1>4. loc'[r] = [loc[r] EXCEPT !.chunks = chunks, !.fresh = fresh]
  BY <1>3, LocalValue
<1>5. loc'[r].chunks = chunks /\ Stays(r, Fields \ {"chunks"})
  BY <1>0, <1>4 DEF Local, Stays, Fields
<1>6. pc'[r] = "generate" /\ UNCHANGED <<store, disk, process>>
  BY LabelValue DEF GatherEvidence
<1> QED
  BY <1>0, <1>1, <1>5, <1>6

LEMMA PremiseMoves ==
  ASSUME Inv, NEW r \in Requests, RejectPremise(r)
  PROVE  /\ pc[r] = "gather" /\ loc[r].sid \in SessionIds /\ UNCHANGED <<disk, process>>
         /\ \E hits \in Hits, late \in Hits, older \in Recalled(heap[loc[r].sid]) :
              /\ Composed({}, hits, older) # {}
              /\ found' = [found EXCEPT ![loc[r].sid] = @ \cup hits \cup late]
              /\ Raise(r) \/ loc'[r].chunks \subseteq late
         /\ \/ /\ pc'[r] = "generate" /\ UNCHANGED store /\ Stays(r, Fields \ {"chunks"})
            \/ Raise(r)
            \/ /\ loc[r].sid \in live /\ UNCHANGED <<live, issued>>
               /\ pc'[r] = (IF Persistent THEN "save" ELSE "generate")
               /\ loc'[r].then = "generate" /\ Stays(r, Fields \ {"chunks", "then"})
               /\ SetSession(loc[r].sid, [heap[loc[r].sid] EXCEPT !.focus = loc[r].subject,
                                                                  !.anchor = loc[r].subject])
<1>0. pc[r] = "gather" /\ loc[r].sid \in SessionIds /\ loc[r] \in Local /\ index \subseteq Chunks
  BY SessionAssigned DEF RejectPremise, At, Unassigned, Inv, TypeOK
<1>1. PICK hits \in Hits, late \in Hits, older \in Recalled(heap[loc[r].sid]),
           verified \in BOOLEAN :
        \E chunks \in SUBSET late :
          LET l == [loc[r] EXCEPT !.chunks = chunks, !.fresh = TRUE] IN
          /\ Composed({}, hits, older) # {}
          /\ found' = [found EXCEPT ![loc[r].sid] = @ \cup hits \cup late]
          /\ IF ~verified
             THEN Goto(r, "generate") /\ SetLocal(r, l) /\ UNCHANGED store
             ELSE IF loc[r].sid \notin live
             THEN Raise(r)
             ELSE /\ SetSession(loc[r].sid, [heap[loc[r].sid] EXCEPT
                                                 !.focus = l.subject, !.anchor = l.subject])
                  /\ SaveThen(r, "generate", l)
                  /\ UNCHANGED <<live, issued>>
  BY Zenon DEF RejectPremise, SessionOf
<1>2. PICK chunks \in SUBSET late :
          LET l == [loc[r] EXCEPT !.chunks = chunks, !.fresh = TRUE] IN
          /\ Composed({}, hits, older) # {}
          /\ found' = [found EXCEPT ![loc[r].sid] = @ \cup hits \cup late]
          /\ IF ~verified
             THEN Goto(r, "generate") /\ SetLocal(r, l) /\ UNCHANGED store
             ELSE IF loc[r].sid \notin live
             THEN Raise(r)
             ELSE /\ SetSession(loc[r].sid, [heap[loc[r].sid] EXCEPT
                                                 !.focus = l.subject, !.anchor = l.subject])
                  /\ SaveThen(r, "generate", l)
                  /\ UNCHANGED <<live, issued>>
  BY <1>1
<1> DEFINE l == [loc[r] EXCEPT !.chunks = chunks, !.fresh = TRUE]
<1>3. /\ l \in Local /\ l.chunks = chunks /\ l.subject = loc[r].subject
      /\ \A f \in Fields \ {"chunks"} : l[f] = loc[r][f]
  BY <1>0 DEF Local, Hits, Fields
<1>4. CASE Goto(r, "generate") /\ SetLocal(r, l) /\ UNCHANGED store
  <2>1. pc'[r] = "generate" /\ loc'[r] = l
    BY <1>4, LabelValue, LocalValue
  <2> HIDE DEF l
  <2>2. loc'[r].chunks = chunks /\ Stays(r, Fields \ {"chunks"})
    BY <1>3, <2>1 DEF Stays
  <2> QED
    BY <1>0, <1>2, <1>4, <2>1, <2>2 DEF RejectPremise
<1>5. CASE Raise(r)
  BY <1>0, <1>2, <1>5 DEF RejectPremise
<1>6. CASE /\ SetSession(loc[r].sid, [heap[loc[r].sid] EXCEPT
                                         !.focus = l.subject, !.anchor = l.subject])
           /\ SaveThen(r, "generate", l) /\ UNCHANGED <<live, issued>> /\ loc[r].sid \in live
  <2>1. SetSession(loc[r].sid, [heap[loc[r].sid] EXCEPT !.focus = loc[r].subject,
                                                        !.anchor = loc[r].subject])
    BY <1>3, <1>6
  <2>2. SaveThen(r, "generate", l)
    BY <1>6
  <2> HIDE DEF l
  <2>3. /\ pc'[r] = (IF Persistent THEN "save" ELSE "generate") /\ loc'[r].then = "generate"
        /\ \A f \in Fields \ {"then"} : loc'[r][f] = l[f]
    BY <1>3, <2>2, SaveMoves
  <2>4. loc'[r].chunks = chunks /\ Stays(r, Fields \ {"chunks", "then"})
    BY <1>3, <2>3 DEF Stays, Fields
  <2> QED
    BY <1>0, <1>2, <1>6, <2>1, <2>3, <2>4 DEF RejectPremise
<1>7. \/ Goto(r, "generate") /\ SetLocal(r, l) /\ UNCHANGED store
      \/ Raise(r)
      \/ /\ SetSession(loc[r].sid, [heap[loc[r].sid] EXCEPT
                                         !.focus = l.subject, !.anchor = l.subject])
         /\ SaveThen(r, "generate", l) /\ UNCHANGED <<live, issued>> /\ loc[r].sid \in live
  BY <1>2
<1> QED
  BY <1>4, <1>5, <1>6, <1>7

\* The requests that are refused or break.
LEMMA FailureMoves ==
  ASSUME Inv, NEW r \in Requests, RejectMode(r) \/ FailRetrieval(r) \/ BreakStream(r)
  PROVE  /\ pc[r] \in {"route", "gather", "generate"} /\ UNCHANGED <<store, disk, process, found>>
         /\ pc'[r] = End(loc[r]) /\ Stays(r, Fields \ {"outcome"})
         /\ loc'[r].outcome \in {"rejected", "failed"}
<1>1. PICK outcome \in {"rejected", "failed"} : Leave(r, outcome)
  BY DEF RejectMode, FailRetrieval, BreakStream, Raise
<1> QED
  BY <1>1, LeaveMoves DEF RejectMode, FailRetrieval, BreakStream, Raise, At

LEMMA AppendMovesThread ==
  ASSUME Inv, NEW r \in Requests, RecordTurn(r)
  PROVE  /\ pc[r] = "append" /\ loc[r].sid \in SessionIds /\ UNCHANGED <<disk, process, found>>
         /\ \/ Raise(r) /\ loc[r].sid \notin live
            \/ /\ pc'[r] = "limit" /\ loc'[r].then = AfterTurn(loc[r]) /\ loc[r].sid \in live
               /\ Stays(r, Fields \ {"then"}) /\ UNCHANGED <<live, issued>>
               /\ SetSession(loc[r].sid, AppendTurn(heap[loc[r].sid],
                      [by |-> r, imported |-> FALSE, long |-> loc[r].long]))
<1>0. pc[r] = "append" /\ loc[r].sid \in SessionIds /\ loc[r] \in Local
  BY SessionAssigned DEF RecordTurn, At, Unassigned, Inv, TypeOK
<1>1. CASE loc[r].sid \in live
  <2>1. loc'[r] = [loc[r] EXCEPT !.then = AfterTurn(loc[r])]
    BY <1>1, LocalValue DEF RecordTurn, SessionOf
  <2>2. loc'[r].then = AfterTurn(loc[r]) /\ Stays(r, Fields \ {"then"})
    BY <1>0, <2>1 DEF Local, Stays, Fields
  <2> QED
    BY <1>0, <1>1, <2>2, LabelValue DEF RecordTurn, SessionOf
<1> QED
  BY <1>0, <1>1 DEF RecordTurn, SessionOf

\* The rest of add_turn touches nothing but the turns and the summary.
LEMMA LimitMovesThread ==
  ASSUME Inv, NEW r \in Requests, CheckLimit(r) \/ EvictTurn(r) \/ AssignSummary(r)
  PROVE  /\ pc[r] \in {"limit", "pop", "summary"} /\ loc[r].sid \in SessionIds
         /\ UNCHANGED <<live, issued, disk, process, found>>
         /\ Stays(r, Fields)
         /\ pc'[r] \in {"pop", "summary", IF Persistent THEN "save" ELSE loc[r].then}
         /\ \A s \in SessionIds \ {loc[r].sid} : heap'[s] = heap[s]
         /\ heap'[loc[r].sid].evidence = heap[loc[r].sid].evidence
         /\ heap'[loc[r].sid].anchor = heap[loc[r].sid].anchor
<1>0. pc[r] \in {"limit", "pop", "summary"} /\ loc[r].sid \in SessionIds /\ loc[r] \in Local
  BY SessionAssigned DEF CheckLimit, EvictTurn, AssignSummary, At, Unassigned, Inv, TypeOK
<1>1. heap[loc[r].sid] \in Session /\ heap \in [SessionIds -> Session]
  BY <1>0 DEF Inv, TypeOK
<1>2. CASE CheckLimit(r)
  <2>1. UNCHANGED heap
    BY <1>2 DEF CheckLimit, store
  <2>2. Stays(r, Fields) /\ pc'[r] \in {"pop", IF Persistent THEN "save" ELSE loc[r].then}
    <3>1. CASE SaveThen(r, loc[r].then, loc[r])
      <4>1. /\ pc'[r] = (IF Persistent THEN "save" ELSE loc[r].then) /\ loc'[r].then = loc[r].then
            /\ \A f \in Fields \ {"then"} : loc'[r][f] = loc[r][f]
        BY <1>0, <3>1, SaveMoves
      <4> QED
        BY <4>1 DEF Stays, Fields
    <3>2. CASE Goto(r, "pop") /\ UNCHANGED loc
      BY <3>2, LabelValue DEF Stays
    <3> QED
      BY <1>2, <3>1, <3>2 DEF CheckLimit
  <2> QED
    BY <1>0, <1>2, <2>1, <2>2 DEF CheckLimit, store
<1>3. CASE EvictTurn(r)
  <2>1. PICK summary : SetLocal(r, [loc[r] EXCEPT !.summary = summary])
    BY <1>3 DEF EvictTurn
  <2>2. loc'[r] = [loc[r] EXCEPT !.summary = summary]
    BY <2>1, LocalValue
  <2>3. Stays(r, Fields)
    BY <1>0, <2>2 DEF Local, Stays, Fields
  <2> DEFINE v == PopOldest(heap[loc[r].sid])
  <2>4. v.evidence = heap[loc[r].sid].evidence /\ v.anchor = heap[loc[r].sid].anchor
    BY <1>1 DEF PopOldest, Session
  <2>5. SetSession(loc[r].sid, v)
    BY <1>3 DEF EvictTurn, SessionOf
  <2> HIDE DEF v
  <2>6. heap'[loc[r].sid] = v /\ \A s \in SessionIds \ {loc[r].sid} : heap'[s] = heap[s]
    BY <1>0, <1>1, <2>5 DEF SetSession
  <2> QED
    BY <1>0, <1>3, <2>3, <2>4, <2>6, LabelValue DEF EvictTurn
<1>4. CASE AssignSummary(r)
  <2> DEFINE v == [heap[loc[r].sid] EXCEPT !.summary = loc[r].summary]
  <2>1. v.evidence = heap[loc[r].sid].evidence /\ v.anchor = heap[loc[r].sid].anchor
    BY <1>1 DEF Session
  <2>2. SetSession(loc[r].sid, v)
    BY <1>4 DEF AssignSummary, SessionOf
  <2> HIDE DEF v
  <2>3. heap'[loc[r].sid] = v /\ \A s \in SessionIds \ {loc[r].sid} : heap'[s] = heap[s]
    BY <1>0, <1>1, <2>2 DEF SetSession
  <2>4. /\ pc'[r] = (IF Persistent THEN "save" ELSE loc[r].then) /\ loc'[r].then = loc[r].then
        /\ \A f \in Fields \ {"then"} : loc'[r][f] = loc[r][f]
    BY <1>0, <1>4, SaveMoves DEF AssignSummary
  <2>5. Stays(r, Fields)
    BY <2>4 DEF Stays, Fields
  <2> QED
    BY <1>0, <1>4, <2>1, <2>3, <2>4, <2>5 DEF AssignSummary
<1> QED
  BY <1>2, <1>3, <1>4

LEMMA EvidenceMovesThread ==
  ASSUME Inv, NEW r \in Requests, RecordEvidence(r)
  PROVE  /\ pc[r] = "evidence" /\ loc[r].sid \in SessionIds /\ UNCHANGED <<disk, process, found>>
         /\ \/ Raise(r) /\ loc[r].sid \notin live
            \/ /\ pc'[r] = "window" /\ loc[r].sid \in live /\ Stays(r, Fields)
               /\ UNCHANGED <<live, issued>>
               /\ SetSession(loc[r].sid, AppendEvidence(heap[loc[r].sid],
                      [by |-> r, chunks |-> loc[r].chunks]))
<1>0. pc[r] = "evidence" /\ loc[r].sid \in SessionIds
  BY SessionAssigned DEF RecordEvidence, At, Unassigned, Inv, TypeOK
<1> QED
  BY <1>0, LabelValue DEF RecordEvidence, SessionOf, Stays

LEMMA WindowMoves ==
  ASSUME Inv, NEW r \in Requests, TrimEvidence(r)
  PROVE  /\ pc[r] = "window" /\ loc[r].sid \in SessionIds
         /\ UNCHANGED <<live, issued, disk, process, found>>
         /\ pc'[r] = (IF Persistent THEN "save" ELSE loc'[r].then)
         /\ loc'[r].then = AfterEvidence(loc[r]) /\ Stays(r, Fields \ {"then"})
         /\ SetSession(loc[r].sid, KeepRecentEvidence(heap[loc[r].sid]))
<1>0. pc[r] = "window" /\ loc[r].sid \in SessionIds /\ loc[r] \in Local
  BY SessionAssigned DEF TrimEvidence, At, Unassigned, Inv, TypeOK
<1>1. /\ pc'[r] = (IF Persistent THEN "save" ELSE AfterEvidence(loc[r]))
      /\ loc'[r].then = AfterEvidence(loc[r])
      /\ \A f \in Fields \ {"then"} : loc'[r][f] = loc[r][f]
  BY <1>0, SaveMoves DEF TrimEvidence
<1> QED
  BY <1>0, <1>1 DEF TrimEvidence, SessionOf, Stays

LEMMA ContextMoves ==
  ASSUME Inv, NEW r \in Requests, UpdateContext(r)
  PROVE  /\ pc[r] = "context" /\ loc[r].sid \in SessionIds /\ UNCHANGED <<disk, process, found>>
         /\ \/ Raise(r) /\ loc[r].sid \notin live
            \/ /\ loc[r].sid \in live /\ UNCHANGED <<live, issued>>
               /\ pc'[r] = (IF Persistent THEN "save" ELSE loc'[r].then)
               /\ loc'[r].then = End(loc[r]) /\ Stays(r, Fields \ {"then"})
               /\ SetSession(loc[r].sid, [heap[loc[r].sid] EXCEPT !.focus = loc[r].subject,
                                                                  !.anchor = loc[r].subject])
<1>0. pc[r] = "context" /\ loc[r].sid \in SessionIds /\ loc[r] \in Local
  BY SessionAssigned DEF UpdateContext, At, Unassigned, Inv, TypeOK
<1>1. CASE loc[r].sid \in live
  <2>1. /\ pc'[r] = (IF Persistent THEN "save" ELSE End(loc[r]))
        /\ loc'[r].then = End(loc[r])
        /\ \A f \in Fields \ {"then"} : loc'[r][f] = loc[r][f]
    BY <1>0, <1>1, SaveMoves DEF UpdateContext, SessionOf
  <2> QED
    BY <1>0, <1>1, <2>1 DEF UpdateContext, SessionOf, Stays
<1> QED
  BY <1>0, <1>1 DEF UpdateContext, SessionOf

LEMMA BeginSaveMoves ==
  ASSUME Inv, NEW r \in Requests, BeginSave(r)
  PROVE  /\ pc[r] = "save" /\ pc'[r] = "open" /\ UNCHANGED <<store, disk, process, found>>
         /\ loc'[r].size = Cardinality(live) /\ Stays(r, Fields \ {"size"})
<1>1. loc'[r] = [loc[r] EXCEPT !.size = Cardinality(live)] /\ loc[r] \in Local
  BY LocalValue DEF BeginSave
<1>2. loc'[r].size = Cardinality(live) /\ Stays(r, Fields \ {"size"})
  BY <1>1 DEF Local, Stays, Fields
<1> QED
  BY <1>2, LabelValue DEF BeginSave, At

LEMMA OpenMoves ==
  ASSUME Inv, NEW r \in Requests, OpenFile(r)
  PROVE  /\ pc[r] = "open" /\ UNCHANGED <<store, process, found>>
         /\ \/ Cardinality(live) # loc[r].size /\ Raise(r) /\ UNCHANGED disk
            \/ /\ Cardinality(live) = loc[r].size /\ pc'[r] = "write"
               /\ loc'[r].image = Snapshot /\ Stays(r, Fields \ {"image"})
               /\ disk' = [state |-> "empty", image |-> EmptyImage]
<1>1. CASE Cardinality(live) = loc[r].size
  <2>1. loc'[r] = [loc[r] EXCEPT !.image = Snapshot] /\ loc[r] \in Local
    BY <1>1, LocalValue DEF OpenFile
  <2>2. loc'[r].image = Snapshot /\ Stays(r, Fields \ {"image"})
    BY <2>1 DEF Local, Stays, Fields
  <2> QED
    BY <1>1, <2>2, LabelValue DEF OpenFile, At
<1> QED
  BY <1>1 DEF OpenFile, At, Raise

LEMMA WriteMoves ==
  ASSUME Inv, NEW r \in Requests, WriteFile(r)
  PROVE  /\ pc[r] = "write" /\ pc'[r] = loc[r].then /\ UNCHANGED <<store, process, found>>
         /\ loc'[r].image = EmptyImage /\ loc'[r].size = 0 /\ Stays(r, Fields \ {"image", "size"})
         /\ \/ disk' = [state |-> "whole", image |-> loc[r].image]
            \/ /\ disk.state # "empty" /\ disk.image # loc[r].image
               /\ disk' = [state |-> "torn", image |-> EmptyImage]
<1>1. loc'[r] = [loc[r] EXCEPT !.image = EmptyImage, !.size = 0] /\ loc[r] \in Local
  BY LocalValue DEF WriteFile
<1>2. /\ loc'[r].image = EmptyImage /\ loc'[r].size = 0
      /\ Stays(r, Fields \ {"image", "size"})
  BY <1>1 DEF Local, Stays, Fields
<1> QED
  BY <1>2, LabelValue DEF WriteFile, At

-----------------------------------------------------------------------------
(* Evidence: the strengthened invariant *)

\* A session object whose evidence, and whose anchor, rest on the chunks f.
Backed(v, f) ==
  /\ \A i \in DOMAIN v.evidence : v.evidence[i].chunks \subseteq f
  /\ v.anchor # NoSubject => f # {}

\* A request has no evidence before it has gathered some; _save returns to the
\* point of the handler that called it.
Early ==
  {"idle", "check", "import", "create", "lookup", "reset", "route", "resolve", "gather", "done"}
Storing == {"limit", "pop", "summary", "save", "open", "write"}
EarlyPhase(r) == pc[r] \in Early \/ (pc[r] \in Storing /\ loc[r].then \in Early)

ThreadBacked(r) ==
  /\ EarlyPhase(r) => loc[r].chunks = {} /\ ~loc[r].toContext /\ loc[r].then # "context"
  /\ loc[r].toContext \/ "context" \in {pc[r], loc[r].then} => loc[r].chunks # {}
  /\ loc[r].chunks \subseteq index
  /\ loc[r].chunks # {} => loc[r].sid \in SessionIds /\ loc[r].chunks \subseteq found[loc[r].sid]

EvidenceInv ==
  /\ \A s \in SessionIds : Backed(heap[s], found[s])
  /\ \A s \in SessionIds : Backed(disk.image.heap[s], found[s])
  /\ \A r \in Requests, s \in SessionIds : Backed(loc[r].image.heap[s], found[s])
  /\ \A r \in Requests : ThreadBacked(r)

LEMMA BackedMore ==
  ASSUME NEW v, NEW f, NEW g, Backed(v, f), f \subseteq g
  PROVE  Backed(v, g)
BY DEF Backed

LEMMA BackedNew ==
  ASSUME NEW f
  PROVE  Backed(NewSession, f)
BY DEF Backed, NewSession

LEMMA BackedSame ==
  ASSUME NEW v, NEW w, NEW f, Backed(v, f), w.evidence = v.evidence, w.anchor = v.anchor
  PROVE  Backed(w, f)
BY DEF Backed

\* add_evidence_turn on a session object.
LEMMA BackedEvidence ==
  ASSUME NEW v \in Session, NEW f, Backed(v, f), NEW e \in EvidenceTurn
  PROVE  /\ e.chunks \subseteq f => Backed(AppendEvidence(v, e), f)
         /\ Backed(KeepRecentEvidence(v), f)
<1>0. v.evidence \in Seq(EvidenceTurn)
  BY SessionFields
<1>1. ASSUME e.chunks \subseteq f
      PROVE  Backed(AppendEvidence(v, e), f)
  <2> DEFINE w == [v EXCEPT !.evidence = Append(v.evidence, e)]
  <2>1. w.evidence = Append(v.evidence, e) /\ w.anchor = v.anchor
    BY DEF Session
  <2>2. \A i \in DOMAIN w.evidence :
          w.evidence[i] = e \/ \E j \in DOMAIN v.evidence : w.evidence[i] = v.evidence[j]
    <3>1. /\ DOMAIN Append(v.evidence, e) = 1..(Len(v.evidence) + 1)
          /\ DOMAIN v.evidence = 1..Len(v.evidence)
          /\ \A i \in 1..Len(v.evidence) : Append(v.evidence, e)[i] = v.evidence[i]
          /\ Append(v.evidence, e)[Len(v.evidence) + 1] = e
      BY <1>0, AppendProperties
    <3>2. \A i \in 1..(Len(v.evidence) + 1) : i \in 1..Len(v.evidence) \/ i = Len(v.evidence) + 1
      BY <1>0
    <3> QED
      BY <2>1, <3>1, <3>2
  <2>3. Backed(w, f)
    <3> HIDE DEF w
    <3> QED
      BY <1>1, <2>1, <2>2 DEF Backed
  <2> QED
    BY <2>3 DEF AppendEvidence
<1>2. Backed(KeepRecentEvidence(v), f)
  <2> DEFINE w == [v EXCEPT !.evidence = LastOf(v.evidence, MaxTurns)]
  <2>1. w.evidence = LastOf(v.evidence, MaxTurns) /\ w.anchor = v.anchor
    BY DEF Session
  <2>2. \A i \in DOMAIN w.evidence : \E j \in DOMAIN v.evidence : w.evidence[i] = v.evidence[j]
    BY <1>0, <2>1, LimitsAssumption, LastOfProperties
  <2>3. Backed(w, f)
    <3> HIDE DEF w
    <3> QED
      BY <2>1, <2>2 DEF Backed
  <2> QED
    BY <2>3 DEF KeepRecentEvidence
<1> QED
  BY <1>1, <1>2

\* Whatever retrieval and the remembered turns give was found for the session,
\* and is indexed.
LEMMA GatheredIsFound ==
  ASSUME Inv, NEW s \in SessionIds, Backed(heap[s], found[s]),
         NEW hits \in Hits, NEW late \in Hits,
         NEW remembered \in Remembered(LatestEvidence(heap[s])),
         NEW older \in Recalled(heap[s])
  PROVE  /\ Composed(remembered, hits, older) \cup late \subseteq index
         /\ Composed(remembered, hits, older) \cup late \subseteq found[s] \cup hits \cup late
         /\ Composed({}, hits, older) \subseteq found[s] \cup hits
<1>1. Composed(remembered, hits, older) \cup late \subseteq index
  BY EvidenceIndexed
<1>2. LatestEvidence(heap[s]) \subseteq found[s]
  <2>1. heap[s].evidence \in Seq(EvidenceTurn)
    BY SessionFields DEF Inv, TypeOK
  <2> QED
    BY <2>1 DEF LatestEvidence, Backed
<1>3. remembered \subseteq found[s]
  BY <1>2 DEF Remembered
<1>4. older \subseteq found[s]
  <2>1. PICK e \in EarlierEvidence(heap[s]) : older \in Remembered(e)
    BY DEF Recalled
  <2>2. e \subseteq found[s]
    BY <2>1 DEF EarlierEvidence, Backed
  <2> QED
    BY <2>1, <2>2 DEF Remembered
<1> QED
  BY <1>1, <1>3, <1>4 DEF Composed

\* The index stays loaded while the server runs.
LEMMA IndexStays ==
  ASSUME NEW r \in Requests, Arrive(r) \/ Handle(r)
  PROVE  index' = index
<1>1. CASE UNCHANGED process
  BY <1>1 DEF process
<1> QED
  BY <1>1 DEF Handle, Arrive, CheckSession, ImportTurn, CreateSession, LookupSession,
              ResetSession, RemoveEphemeral, Reply, AnswerWithoutRetrieval, RejectMode,
              ResolveContext, GatherEvidence, RejectPremise, FailRetrieval, GenerateAnswer,
              StreamAnswer, BreakStream, RecordTurn, CheckLimit, EvictTurn, AssignSummary,
              RecordEvidence, TrimEvidence, UpdateContext, BeginSave, OpenFile, WriteFile

\* Retrieval only adds to what was found.
LEMMA FoundGrows ==
  ASSUME Inv, NEW r \in Requests, Arrive(r) \/ Handle(r), NEW s \in SessionIds
  PROVE  found[s] \subseteq found'[s]
<1>1. CASE UNCHANGED <<process, found>>
  BY <1>1
<1>2. CASE GatherEvidence(r)
  <2>1. PICK hits \in Hits, late \in Hits :
          found' = [found EXCEPT ![loc[r].sid] = @ \cup hits \cup late]
    BY <1>2, GatherMoves
  <2> QED
    BY <2>1 DEF Inv, TypeOK
<1>3. CASE RejectPremise(r)
  <2>1. PICK hits \in Hits, late \in Hits :
          found' = [found EXCEPT ![loc[r].sid] = @ \cup hits \cup late]
    BY <1>3, PremiseMoves
  <2> QED
    BY <2>1 DEF Inv, TypeOK
<1>4. CASE \/ Arrive(r) \/ CheckSession(r) \/ ImportTurn(r) \/ CreateSession(r)
           \/ LookupSession(r) \/ ResetSession(r) \/ RemoveEphemeral(r) \/ Reply(r)
  BY <1>1, <1>4 DEF Arrive, CheckSession, ImportTurn, CreateSession, LookupSession,
                    ResetSession, RemoveEphemeral, Reply
<1>5. CASE \/ AnswerWithoutRetrieval(r) \/ RejectMode(r) \/ ResolveContext(r)
           \/ FailRetrieval(r) \/ GenerateAnswer(r) \/ StreamAnswer(r) \/ BreakStream(r)
  BY <1>1, <1>5 DEF AnswerWithoutRetrieval, RejectMode, ResolveContext, FailRetrieval,
                    GenerateAnswer, StreamAnswer, BreakStream
<1>6. CASE \/ RecordTurn(r) \/ CheckLimit(r) \/ EvictTurn(r) \/ AssignSummary(r)
           \/ RecordEvidence(r) \/ TrimEvidence(r) \/ UpdateContext(r)
           \/ BeginSave(r) \/ OpenFile(r) \/ WriteFile(r)
  BY <1>1, <1>6 DEF RecordTurn, CheckLimit, EvictTurn, AssignSummary, RecordEvidence,
                    TrimEvidence, UpdateContext, BeginSave, OpenFile, WriteFile
<1> QED
  BY <1>2, <1>3, <1>4, <1>5, <1>6 DEF Handle

-----------------------------------------------------------------------------
(* Evidence: what a step leaves in memory *)

LEMMA SetBacked ==
  ASSUME Inv, EvidenceInv, NEW t \in SessionIds, NEW v, SetSession(t, v), Backed(v, found'[t]),
         \A s \in SessionIds : found[s] \subseteq found'[s], NEW s \in SessionIds
  PROVE  Backed(heap'[s], found'[s])
<1>1. CASE s = t
  BY <1>1 DEF SetSession, Inv, TypeOK
<1>2. CASE s # t
  BY <1>2, BackedMore DEF SetSession, Inv, TypeOK, EvidenceInv
<1> QED
  BY <1>1, <1>2

LEMMA StoreBacked ==
  ASSUME Inv, EvidenceInv, NEW r \in Requests, Arrive(r) \/ Handle(r), NEW s \in SessionIds
  PROVE  Backed(heap'[s], found'[s])
<1>0. \A t \in SessionIds : /\ found[t] \subseteq found'[t]
                            /\ heap[t] \in Session /\ Backed(heap[t], found[t])
                            /\ Backed(heap[t], found'[t])
  BY FoundGrows, BackedMore DEF Inv, TypeOK, EvidenceInv
<1>1. CASE UNCHANGED heap
  BY <1>0, <1>1
<1>2. CASE \/ Arrive(r) \/ CheckSession(r) \/ LookupSession(r) \/ ResetSession(r)
           \/ RemoveEphemeral(r) \/ Reply(r)
  BY <1>1, <1>2 DEF Arrive, CheckSession, LookupSession, ResetSession, RemoveEphemeral, Reply,
                    store
<1>3. CASE \/ AnswerWithoutRetrieval(r) \/ GenerateAnswer(r) \/ StreamAnswer(r)
           \/ RejectMode(r) \/ FailRetrieval(r) \/ BreakStream(r) \/ GatherEvidence(r)
           \/ BeginSave(r) \/ OpenFile(r) \/ WriteFile(r)
  BY <1>1, <1>3, PlainMoves, FailureMoves, GatherMoves, BeginSaveMoves, OpenMoves, WriteMoves
     DEF store
<1>4. CASE Raise(r)
  BY <1>1, <1>4 DEF Raise, store
<1>5. ASSUME NEW t \in Turn, loc[r].sid \in SessionIds,
             SetSession(loc[r].sid, AppendTurn(heap[loc[r].sid], t))
      PROVE  Backed(heap'[s], found'[s])
  <2> DEFINE v == [heap[loc[r].sid] EXCEPT !.turns = Append(heap[loc[r].sid].turns, t)]
  <2>1. v.evidence = heap[loc[r].sid].evidence /\ v.anchor = heap[loc[r].sid].anchor
    BY <1>0, <1>5 DEF Session
  <2>2. SetSession(loc[r].sid, v)
    BY <1>5 DEF AppendTurn
  <2> HIDE DEF v
  <2> QED
    BY <1>0, <1>5, <2>1, <2>2, BackedSame, SetBacked
<1>6. CASE ImportTurn(r)
  <2>1. [by |-> r, imported |-> TRUE, long |-> FALSE] \in Turn
    BY DEF Turn
  <2> QED
    BY <1>1, <1>4, <1>5, <1>6, <2>1, ImportMoves DEF store
<1>7. CASE RecordTurn(r)
  <2>1. loc[r] \in Local
    BY DEF Inv, TypeOK
  <2>2. [by |-> r, imported |-> FALSE, long |-> loc[r].long] \in Turn
    BY <2>1 DEF Turn, Local
  <2> QED
    BY <1>4, <1>5, <1>7, <2>2, AppendMovesThread
<1>8. CASE CreateSession(r)
  BY <1>0, <1>8, CreateMovesThread, BackedNew, SetBacked
<1>9. CASE ResolveContext(r)
  <2>1. CASE ~Raise(r)
    <3> DEFINE v == [heap[loc[r].sid] EXCEPT !.focus = loc'[r].subject]
    <3>1. loc[r].sid \in SessionIds /\ SetSession(loc[r].sid, v)
      BY <1>9, <2>1, ResolveMoves
    <3>2. v.evidence = heap[loc[r].sid].evidence /\ v.anchor = heap[loc[r].sid].anchor
      BY <1>0, <3>1 DEF Session
    <3> HIDE DEF v
    <3> QED
      BY <1>0, <3>1, <3>2, BackedSame, SetBacked
  <2> QED
    BY <1>4, <2>1
\* The anchor follows evidence that the request has.
<1>10. ASSUME loc[r].sid \in SessionIds, found'[loc[r].sid] # {},
              SetSession(loc[r].sid, [heap[loc[r].sid] EXCEPT !.focus = loc[r].subject,
                                                              !.anchor = loc[r].subject])
       PROVE  Backed(heap'[s], found'[s])
  <2> DEFINE v == [heap[loc[r].sid] EXCEPT !.focus = loc[r].subject, !.anchor = loc[r].subject]
  <2>1. v.evidence = heap[loc[r].sid].evidence
    BY <1>0, <1>10 DEF Session
  <2>2. SetSession(loc[r].sid, v)
    BY <1>10
  <2> HIDE DEF v
  <2>3. Backed(v, found'[loc[r].sid])
    BY <1>0, <1>10, <2>1 DEF Backed
  <2> QED
    BY <1>0, <1>10, <2>2, <2>3, SetBacked
<1>11. CASE UpdateContext(r)
  <2>1. loc[r].chunks # {} /\ loc[r].chunks \subseteq found[loc[r].sid]
    BY <1>11, ContextMoves DEF EvidenceInv, ThreadBacked
  <2>2. found'[loc[r].sid] # {}
    BY <1>0, <1>11, <2>1, ContextMoves
  <2> QED
    BY <1>4, <1>10, <1>11, <2>2, ContextMoves
<1>12. CASE RejectPremise(r)
  <2>1. PICK hits \in Hits, late \in Hits, older \in Recalled(heap[loc[r].sid]) :
          /\ Composed({}, hits, older) # {}
          /\ found' = [found EXCEPT ![loc[r].sid] = @ \cup hits \cup late]
    BY <1>12, PremiseMoves
  <2>2. loc[r].sid \in SessionIds
    BY <1>12, PremiseMoves
  <2>3. Composed({}, hits, older) \subseteq found[loc[r].sid] \cup hits
    <3>1. {} \in Remembered(LatestEvidence(heap[loc[r].sid]))
      BY FS_EmptySet, BoundsAssumption DEF Remembered
    <3> QED
      BY <1>0, <2>1, <2>2, <3>1, GatheredIsFound
  <2>4. found'[loc[r].sid] = found[loc[r].sid] \cup hits \cup late
    BY <2>1, <2>2 DEF Inv, TypeOK
  <2>5. found'[loc[r].sid] # {}
    BY <2>1, <2>3, <2>4
  <2> QED
    BY <1>1, <1>4, <1>10, <1>12, <2>2, <2>5, PremiseMoves DEF store
<1>13. CASE CheckLimit(r) \/ EvictTurn(r) \/ AssignSummary(r)
  <2>1. CASE s = loc[r].sid
    BY <1>0, <1>13, <2>1, LimitMovesThread, BackedSame
  <2>2. CASE s # loc[r].sid
    BY <1>0, <1>13, <2>2, LimitMovesThread
  <2> QED
    BY <2>1, <2>2
<1>14. CASE RecordEvidence(r)
  <2> DEFINE e == [by |-> r, chunks |-> loc[r].chunks]
  <2>1. loc[r] \in Local /\ loc[r].sid \in SessionIds
    BY <1>14, EvidenceMovesThread DEF Inv, TypeOK
  <2>2. e \in EvidenceTurn /\ e.chunks = loc[r].chunks
    BY <2>1 DEF EvidenceTurn, Local
  <2>3. loc[r].chunks \subseteq found'[loc[r].sid]
    BY <1>0, <2>1 DEF EvidenceInv, ThreadBacked
  <2>4. Raise(r) \/ SetSession(loc[r].sid, AppendEvidence(heap[loc[r].sid], e))
    BY <1>14, EvidenceMovesThread
  <2> HIDE DEF e
  <2> QED
    BY <1>0, <1>4, <2>1, <2>2, <2>3, <2>4, BackedEvidence, SetBacked
<1>15. CASE TrimEvidence(r)
  <2>1. [by |-> r, chunks |-> {}] \in EvidenceTurn
    BY DEF EvidenceTurn
  <2> QED
    BY <1>0, <1>15, <2>1, WindowMoves, BackedEvidence, SetBacked
<1> QED
  BY <1>2, <1>3, <1>6, <1>7, <1>8, <1>9, <1>11, <1>12, <1>13, <1>14, <1>15 DEF Handle

-----------------------------------------------------------------------------
(* Evidence: what a step leaves in its thread *)

\* How a step changes what its thread knows: it starts or ends with nothing, it
\* gathers, or it keeps its chunks and goes on.
LEMMA ThreadStepBacked ==
  ASSUME Inv, EvidenceInv, NEW r \in Requests, Arrive(r) \/ Handle(r)
  PROVE  ThreadBacked(r)'
<1>0. /\ index' = index /\ ThreadBacked(r)
      /\ \A s \in SessionIds : found[s] \subseteq found'[s]
  <2>1. ThreadBacked(r)
    BY DEF EvidenceInv
  <2>2. \A s \in SessionIds : found[s] \subseteq found'[s]
    BY FoundGrows
  <2>3. index' = index
    BY IndexStays
  <2> QED
    BY <2>1, <2>2, <2>3
<1> USE DEF Fields
<1>a. End(loc[r]) \in {"cleanup", "reply"}
  BY DEF End
\* Keeping the chunks, a thread stays backed where its next label allows it.
<1>b. ASSUME loc'[r].chunks = loc[r].chunks, loc'[r].sid = loc[r].sid \/ loc[r].chunks = {},
             EarlyPhase(r)' => EarlyPhase(r) /\ loc'[r].then # "context",
             loc'[r].toContext => loc[r].toContext \/ (loc[r].chunks # {} /\ ~EarlyPhase(r)'),
             "context" \in {pc'[r], loc'[r].then} =>
               loc[r].toContext \/ "context" \in {pc[r], loc[r].then}
      PROVE  ThreadBacked(r)'
  BY <1>0, <1>b DEF ThreadBacked
<1>c. ASSUME loc'[r].chunks = {}, ~loc'[r].toContext, "context" \notin {pc'[r], loc'[r].then}
      PROVE  ThreadBacked(r)'
  BY <1>0, <1>c DEF ThreadBacked
<1>1. CASE Arrive(r)
  <2>1. pc'[r] # "context"
    BY <1>1, ArriveMoves
  <2>2. loc'[r].chunks = {} /\ ~loc'[r].toContext /\ loc'[r].then # "context"
    BY <1>1, ArriveMoves DEF IdleLocal
  <2> QED
    BY <1>c, <2>1, <2>2
<1>2. ASSUME pc'[r] = End(loc[r]), Stays(r, Fields \ {"outcome"})
      PROVE  ThreadBacked(r)'
  BY <1>a, <1>b, <1>2 DEF Stays, EarlyPhase, Early, Storing
<1>3. ASSUME Raise(r) \/ (\E outcome : Leave(r, outcome)) PROVE ThreadBacked(r)'
  BY <1>2, <1>3, RaiseMoves, LeaveMoves
<1>4. CASE CheckSession(r)
  BY <1>0, <1>b, <1>3, <1>4, CheckMoves DEF Stays, EarlyPhase, Early, Storing, ThreadBacked
<1>5. CASE ImportTurn(r)
  <2>1. /\ pc[r] = "import"
        /\ \/ Raise(r)
           \/ /\ pc'[r] \in {"lookup", "limit"} /\ loc'[r].then \in {loc[r].then, "import"}
              /\ Stays(r, {"chunks", "sid", "toContext"})
    BY <1>5, ImportMoves DEF Stays
  <2> QED
    BY <1>0, <1>b, <1>3, <2>1 DEF Stays, EarlyPhase, Early, ThreadBacked
<1>6. CASE CreateSession(r)
  BY <1>0, <1>b, <1>6, CreateMovesThread DEF Stays, EarlyPhase, Early, Storing, ThreadBacked
<1>7. CASE LookupSession(r)
  BY <1>0, <1>b, <1>3, <1>7, LookupMoves DEF Stays, EarlyPhase, Early, Storing, ThreadBacked
<1>8. CASE ResetSession(r)
  BY <1>0, <1>b, <1>8, ResetMoves DEF Stays, EarlyPhase, Early, Storing, ThreadBacked
<1>9. CASE RemoveEphemeral(r)
  BY <1>0, <1>b, <1>9, CleanupMoves DEF Stays, EarlyPhase, Early, Storing
<1>10. CASE Reply(r)
  <2>1. /\ pc'[r] # "context" /\ loc'[r].chunks = {} /\ ~loc'[r].toContext
        /\ loc'[r].then # "context"
    BY <1>10, ReplyMoves DEF IdleLocal
  <2> QED
    BY <1>c, <2>1
<1>11. CASE AnswerWithoutRetrieval(r) \/ GenerateAnswer(r) \/ StreamAnswer(r)
  BY <1>0, <1>b, <1>11, PlainMoves DEF Stays, EarlyPhase, Early, Storing, ThreadBacked
<1>12. CASE RejectMode(r) \/ FailRetrieval(r) \/ BreakStream(r)
  BY <1>2, <1>12, FailureMoves
<1>13. CASE ResolveContext(r)
  <2>1. /\ pc[r] \in {"route", "resolve"}
        /\ \/ Raise(r)
           \/ /\ pc'[r] \in {"save", "gather"} /\ loc'[r].then = "gather"
              /\ Stays(r, {"chunks", "sid", "toContext"})
    BY <1>13, ResolveMoves DEF Stays
  <2> QED
    BY <1>0, <1>b, <1>3, <2>1 DEF Stays, EarlyPhase, Early, ThreadBacked
<1>14. CASE GatherEvidence(r)
  <2>1. PICK hits \in Hits, late \in Hits,
             remembered \in Remembered(LatestEvidence(heap[loc[r].sid])),
             older \in Recalled(heap[loc[r].sid]) :
          /\ found' = [found EXCEPT ![loc[r].sid] = @ \cup hits \cup late]
          /\ loc'[r].chunks \subseteq Composed(remembered, hits, older) \cup late
    BY <1>14, GatherMoves
  <2>2. /\ pc[r] = "gather" /\ pc'[r] = "generate" /\ loc[r].sid \in SessionIds
        /\ loc'[r].sid = loc[r].sid /\ loc'[r].then = loc[r].then
        /\ loc'[r].toContext = loc[r].toContext
    BY <1>14, GatherMoves DEF Stays
  <2>3. loc'[r].chunks \subseteq index /\ loc'[r].chunks \subseteq found[loc[r].sid] \cup hits \cup late
    BY <2>1, <2>2, GatheredIsFound DEF EvidenceInv
  <2>4. found'[loc[r].sid] = found[loc[r].sid] \cup hits \cup late
    BY <2>1, <2>2 DEF Inv, TypeOK
  <2> QED
    BY <1>0, <2>2, <2>3, <2>4 DEF ThreadBacked, EarlyPhase, Early, Storing
<1>15. CASE RejectPremise(r)
  <2>1. CASE ~Raise(r)
    <3>1. PICK hits \in Hits, late \in Hits, older \in Recalled(heap[loc[r].sid]) :
            /\ found' = [found EXCEPT ![loc[r].sid] = @ \cup hits \cup late]
            /\ loc'[r].chunks \subseteq late
      BY <1>15, <2>1, PremiseMoves
    <3>2. /\ pc[r] = "gather" /\ pc'[r] \in {"generate", "save"} /\ loc[r].sid \in SessionIds
          /\ loc'[r].sid = loc[r].sid /\ loc'[r].then \in {loc[r].then, "generate"}
          /\ loc'[r].toContext = loc[r].toContext
          /\ pc'[r] = "save" => loc'[r].then = "generate"
      <4>1. CASE pc'[r] = "generate" /\ Stays(r, Fields \ {"chunks"})
        BY <1>15, <4>1, PremiseMoves DEF Stays
      <4>2. CASE /\ pc'[r] = (IF Persistent THEN "save" ELSE "generate")
                 /\ loc'[r].then = "generate" /\ Stays(r, Fields \ {"chunks", "then"})
        BY <1>15, <4>2, PremiseMoves DEF Stays
      <4> QED
        BY <1>15, <2>1, <4>1, <4>2, PremiseMoves
    <3>3. found'[loc[r].sid] = found[loc[r].sid] \cup hits \cup late /\ late \subseteq index
      BY <3>1, <3>2 DEF Inv, TypeOK, Hits
    <3> QED
      BY <1>0, <3>1, <3>2, <3>3 DEF ThreadBacked, EarlyPhase, Early, Storing
  <2> QED
    BY <1>3, <2>1
<1>16. CASE RecordTurn(r)
  BY <1>0, <1>b, <1>3, <1>16, AppendMovesThread
     DEF Stays, EarlyPhase, Early, Storing, AfterTurn, AfterEvidence, End
<1>17. CASE CheckLimit(r) \/ EvictTurn(r) \/ AssignSummary(r)
  BY <1>0, <1>b, <1>17, LimitMovesThread DEF Stays, EarlyPhase, Early, Storing, ThreadBacked
<1>18. CASE RecordEvidence(r)
  BY <1>0, <1>b, <1>3, <1>18, EvidenceMovesThread DEF Stays, EarlyPhase, Early, Storing
<1>19. CASE TrimEvidence(r)
  BY <1>0, <1>b, <1>19, WindowMoves
     DEF Stays, EarlyPhase, Early, Storing, AfterEvidence, End
<1>20. CASE UpdateContext(r)
  <2>1. \/ Raise(r)
        \/ /\ pc'[r] \in {"save", loc'[r].then} /\ loc'[r].then = End(loc[r])
           /\ Stays(r, {"chunks", "sid", "toContext"})
    BY <1>20, ContextMoves DEF Stays
  <2> QED
    BY <1>a, <1>b, <1>3, <2>1 DEF Stays, EarlyPhase, Early, Storing
<1>21. CASE BeginSave(r)
  BY <1>0, <1>b, <1>21, BeginSaveMoves DEF Stays, EarlyPhase, Early, Storing, ThreadBacked
<1>22. CASE OpenFile(r)
  BY <1>0, <1>b, <1>3, <1>22, OpenMoves DEF Stays, EarlyPhase, Early, Storing, ThreadBacked
<1>23. CASE WriteFile(r)
  BY <1>0, <1>b, <1>23, WriteMoves DEF Stays, EarlyPhase, Early, Storing, ThreadBacked
<1> QED
  BY <1>1, <1>4, <1>5, <1>6, <1>7, <1>8, <1>9, <1>10, <1>11, <1>12, <1>13, <1>14, <1>15,
     <1>16, <1>17, <1>18, <1>19, <1>20, <1>21, <1>22, <1>23 DEF Handle

-----------------------------------------------------------------------------
(* Evidence: the theorems *)

LEMMA HandlerBacked ==
  ASSUME Inv, Inv', EvidenceInv, NEW r \in Requests, Arrive(r) \/ Handle(r)
  PROVE  EvidenceInv'
<1>1. \A s \in SessionIds : Backed(heap'[s], found'[s])
  BY StoreBacked
<1>2. \A s \in SessionIds : found[s] \subseteq found'[s]
  BY FoundGrows
\* An image rests on what was found if it is the file, a payload, nothing or memory.
<1>3. ASSUME NEW image \in {disk.image, EmptyImage, Snapshot} \cup {loc[q].image : q \in Requests},
             NEW s \in SessionIds
      PROVE  Backed(image.heap[s], found'[s])
  <2>1. CASE image = disk.image
    BY <1>2, <2>1, BackedMore DEF EvidenceInv
  <2>2. CASE image = EmptyImage
    BY <2>2, BackedNew DEF EmptyImage
  <2>3. CASE image = Snapshot
    <3>1. image.heap[s] \in {heap[s], NewSession}
      BY <2>3 DEF Snapshot
    <3> QED
      BY <1>2, <3>1, BackedNew, BackedMore DEF EvidenceInv
  <2>4. CASE image \in {loc[q].image : q \in Requests}
    BY <1>2, <2>4, BackedMore DEF EvidenceInv
  <2> QED
    BY <2>1, <2>2, <2>3, <2>4
<1>4. \A s \in SessionIds : Backed(disk'.image.heap[s], found'[s])
  <2>1. disk'.image \in {disk.image, EmptyImage, Snapshot} \cup {loc[q].image : q \in Requests}
    BY StoreFrame
  <2> QED
    BY <1>3, <2>1
<1>5. \A q \in Requests, s \in SessionIds : Backed(loc'[q].image.heap[s], found'[s])
  <2> TAKE q \in Requests, s \in SessionIds
  <2>1. loc'[q].image \in {disk.image, EmptyImage, Snapshot} \cup {loc[x].image : x \in Requests}
    <3>1. CASE q = r
      BY <3>1, HandlerKeeps DEF Kept
    <3>2. CASE q # r
      BY <3>2, HandlerFrame
    <3> QED
      BY <3>1, <3>2
  <2> QED
    BY <1>3, <2>1
<1>6. \A q \in Requests : ThreadBacked(q)'
  <2> TAKE q \in Requests
  <2>1. CASE q = r
    BY <2>1, ThreadStepBacked
  <2>2. CASE q # r
    <3>1. pc'[q] = pc[q] /\ loc'[q] = loc[q] /\ index' = index
      BY <2>2, HandlerFrame, IndexStays
    <3>2. ThreadBacked(q)
      BY DEF EvidenceInv
    <3> QED
      BY <1>2, <3>1, <3>2 DEF ThreadBacked, EarlyPhase
  <2> QED
    BY <2>1, <2>2
<1> QED
  BY <1>1, <1>4, <1>5, <1>6 DEF EvidenceInv

\* A restart may load another index: no request is then in flight.
LEMMA ProcessBacked ==
  ASSUME Inv, Inv', EvidenceInv, Crash \/ Restart
  PROVE  EvidenceInv'
<1>1. found' = found /\ disk' = disk
  BY DEF Crash, Restart
<1>2. ASSUME NEW s \in SessionIds
      PROVE  heap'[s] \in {heap[s], NewSession, disk.image.heap[s]}
  BY DEF Crash, Restart
<1>3. \A s \in SessionIds : Backed(heap'[s], found'[s])
  BY <1>1, <1>2, BackedNew DEF EvidenceInv
<1>4. \A r \in Requests, s \in SessionIds : Backed(loc'[r].image.heap[s], found'[s])
  <2> TAKE r \in Requests, s \in SessionIds
  <2>1. loc'[r] = loc[r] \/ loc'[r] = Ended(loc[r], "lost")
    BY DEF Crash, Restart
  <2>2. loc'[r].image = loc[r].image \/ loc'[r].image = EmptyImage
    BY <2>1 DEF Ended, IdleLocal
  <2>3. EmptyImage.heap[s] = NewSession
    BY DEF EmptyImage
  <2> QED
    BY <1>1, <2>2, <2>3, BackedNew DEF EvidenceInv
<1>5. \A r \in Requests : ThreadBacked(r)'
  <2> TAKE r \in Requests
  <2>0. ThreadBacked(r)
    BY DEF EvidenceInv
  <2>1. CASE Crash
    <3>1. CASE r \in InFlight
      <4>1. loc'[r] = Ended(loc[r], "lost") /\ pc'[r] = "done"
        BY <2>1, <3>1 DEF Crash
      <4>2. loc'[r].chunks = {} /\ ~loc'[r].toContext /\ loc'[r].then = "done"
        BY <4>1 DEF Ended, IdleLocal
      <4> QED
        BY <4>1, <4>2 DEF ThreadBacked
    <3>2. CASE r \notin InFlight
      <4>1. loc'[r] = loc[r] /\ pc'[r] = pc[r] /\ index' = index
        BY <2>1, <3>2 DEF Crash
      <4> QED
        BY <1>1, <2>0, <4>1 DEF ThreadBacked, EarlyPhase
    <3> QED
      BY <3>1, <3>2
  <2>2. CASE Restart
    <3>1. pc[r] \in {"idle", "done"} /\ loc' = loc /\ pc' = pc
      BY <2>2 DEF Restart, Inv, DownInv, InFlight
    <3>2. loc[r].chunks = {}
      BY <2>0, <3>1 DEF ThreadBacked, EarlyPhase, Early
    <3> QED
      BY <1>1, <2>0, <3>1, <3>2 DEF ThreadBacked, EarlyPhase
  <2> QED
    BY <2>1, <2>2
<1> QED
  BY <1>1, <1>3, <1>4, <1>5 DEF EvidenceInv

\* EvidenceInv holds in every state: it is inductive together with Inv.
THEOREM EvidenceInvariance == Spec => []EvidenceInv
<1>1. Init => EvidenceInv
  BY BackedNew
     DEF Init, EvidenceInv, ThreadBacked, EarlyPhase, Early, IdleLocal, EmptyImage
<1>2. Inv /\ Inv' /\ EvidenceInv /\ [Next]_vars => EvidenceInv'
  <2> SUFFICES ASSUME Inv, Inv', EvidenceInv, [Next]_vars
               PROVE  EvidenceInv'
    OBVIOUS
  <2>1. CASE UNCHANGED vars
    BY <2>1 DEF vars, EvidenceInv, ThreadBacked, EarlyPhase
  <2> QED
    BY <2>1, HandlerBacked, ProcessBacked DEF Next
<1> QED
  BY <1>1, <1>2, Invariance, PTL DEF Spec

\* "Only chunks that retrieval actually returned in an earlier turn" are
\* recovered, and evidence turns hold nothing else: whatever a request answers
\* from is in the loaded index and was found for its own conversation, through
\* evictions, races on the file, crashes, and restarts over another index.
THEOREM EvidenceIsGrounded == Spec => []Grounded
<1>1. EvidenceInv => Grounded
  <2> SUFFICES ASSUME EvidenceInv
               PROVE  Grounded
    OBVIOUS
  <2>1. \A s \in SessionIds : \A i \in DOMAIN heap[s].evidence :
          heap[s].evidence[i].chunks \subseteq found[s]
    BY DEF EvidenceInv, Backed
  <2>2. ASSUME NEW r \in InFlight, loc[r].chunks # {}
        PROVE  loc[r].chunks \subseteq index \cap found[SessionOf(r)]
    <3>1. ThreadBacked(r)
      BY DEF InFlight, EvidenceInv
    <3> QED
      BY <2>2, <3>1 DEF ThreadBacked, SessionOf
  <2> QED
    BY <2>1, <2>2 DEF Grounded
<1> QED
  BY <1>1, EvidenceInvariance, PTL

\* No conversation gets an anchor for its follow-ups, from memory or from the
\* file, before retrieval has returned something for it.
THEOREM AnchorsRestOnEvidence == Spec => []AnchorNeedsEvidence
<1>1. EvidenceInv => AnchorNeedsEvidence
  BY DEF EvidenceInv, Backed, AnchorNeedsEvidence
<1> QED
  BY <1>1, EvidenceInvariance, PTL

-----------------------------------------------------------------------------
(* The session file: the strengthened invariant *)

Saving == {"save", "open", "write"}

\* Where a thread has changed the sessions and not yet written them.
Dirty == Busy \cup Saving

Saved ==
  \/ disk.state = "absent" /\ live = {}
  \/ disk.state = "whole" /\ disk.image = Snapshot

\* One request at a time: what it has changed is what it is about to write.
Orderly ==
  /\ \A r, q \in InFlight : r = q
  /\ server = "up" /\ (\A r \in Requests : pc[r] \notin Dirty) => Saved
  /\ \A r \in Requests : pc[r] = "open" => loc[r].size = Cardinality(live)
  /\ \A r \in Requests : pc[r] = "write" => disk.state = "empty" /\ loc[r].image = Snapshot
  /\ disk.state # "torn"
  /\ disk.state = "whole" =>
       \A s \in SessionIds \ disk.image.live : disk.image.heap[s] = NewSession

FileInv ==
  /\ server # "up" => live = {}
  /\ ~Persistent => disk.state = "absent" /\ \A r \in Requests : pc[r] \notin Saving
  /\ Persistent /\ MaxInFlight <= 1 => Orderly

\* Without a path nothing is saved.
LEMMA NothingSaved ==
  ASSUME Inv, ~Persistent, NEW r \in Requests, pc[r] \notin Saving, Arrive(r) \/ Handle(r)
  PROVE  pc'[r] \notin Saving /\ disk' = disk
<1>0. loc[r].then \in Continuations /\ loc'[r].then \in Continuations
  BY HandlerKeeps DEF Inv, ThreadInv, Placed
<1>a. End(loc[r]) \in {"cleanup", "reply"}
  BY DEF End
<1>b. ASSUME Raise(r) \/ (\E outcome : Leave(r, outcome))
      PROVE  pc'[r] \in {"cleanup", "reply"}
  BY <1>a, <1>b, RaiseMoves, LeaveMoves
<1> USE DEF Saving, Continuations
<1>1. CASE Arrive(r)
  BY <1>1, ArriveMoves
<1>2. CASE CheckSession(r) \/ ImportTurn(r) \/ LookupSession(r) \/ Reply(r)
  BY <1>b, <1>2, CheckMoves, ImportMoves, LookupMoves, ReplyMoves
<1>3. CASE CreateSession(r) \/ ResetSession(r) \/ RemoveEphemeral(r)
  BY <1>3, CreateMovesThread, ResetMoves, CleanupMoves
<1>4. CASE \/ AnswerWithoutRetrieval(r) \/ GenerateAnswer(r) \/ StreamAnswer(r)
           \/ RejectMode(r) \/ FailRetrieval(r) \/ BreakStream(r)
  BY <1>a, <1>4, PlainMoves, FailureMoves
<1>5. CASE ResolveContext(r)
  BY <1>b, <1>5, ResolveMoves
<1>6. CASE GatherEvidence(r)
  BY <1>6, GatherMoves
<1>7. CASE RejectPremise(r)
  BY <1>b, <1>7, PremiseMoves
<1>8. CASE RecordTurn(r)
  BY <1>b, <1>8, AppendMovesThread
<1>9. CASE CheckLimit(r) \/ EvictTurn(r) \/ AssignSummary(r)
  BY <1>0, <1>9, LimitMovesThread
<1>10. CASE RecordEvidence(r)
  BY <1>b, <1>10, EvidenceMovesThread
<1>11. CASE TrimEvidence(r)
  BY <1>0, <1>11, WindowMoves
<1>12. CASE UpdateContext(r)
  BY <1>0, <1>b, <1>12, ContextMoves
<1>13. CASE BeginSave(r) \/ OpenFile(r) \/ WriteFile(r)
  BY <1>13, BeginSaveMoves, OpenMoves, WriteMoves
<1> QED
  BY <1>1, <1>2, <1>3, <1>4, <1>5, <1>6, <1>7, <1>8, <1>9, <1>10, <1>11, <1>12, <1>13
     DEF Handle

\* With a path, a handler that has changed a session goes on to save it.
LEMMA ChangesAreSaved ==
  ASSUME Inv, Persistent, NEW r \in Requests, Arrive(r) \/ Handle(r),
         pc[r] \notin Saving
  PROVE  /\ disk' = disk
         /\ \/ pc'[r] \in Dirty \ {"open", "write"}
            \/ pc[r] \notin Dirty /\ pc'[r] \notin Dirty /\ live' = live /\ heap' = heap
<1>a. End(loc[r]) \in {"cleanup", "reply"}
  BY DEF End
<1>b. ASSUME Raise(r) \/ (UNCHANGED store /\ \E outcome : Leave(r, outcome))
      PROVE  pc'[r] \in {"cleanup", "reply"} /\ live' = live /\ heap' = heap
  BY <1>a, <1>b, RaiseMoves, LeaveMoves DEF store
<1> USE DEF Saving, Dirty, Busy, store
<1>1. CASE Arrive(r)
  BY <1>1, ArriveMoves
<1>2. CASE CheckSession(r) \/ ImportTurn(r) \/ LookupSession(r) \/ Reply(r)
  BY <1>b, <1>2, CheckMoves, ImportMoves, LookupMoves, ReplyMoves
<1>3. CASE CreateSession(r) \/ ResetSession(r) \/ RemoveEphemeral(r)
  BY <1>3, CreateMovesThread, ResetMoves, CleanupMoves
<1>4. CASE \/ AnswerWithoutRetrieval(r) \/ GenerateAnswer(r) \/ StreamAnswer(r)
           \/ RejectMode(r) \/ FailRetrieval(r) \/ BreakStream(r)
  BY <1>a, <1>4, PlainMoves, FailureMoves
<1>5. CASE ResolveContext(r)
  BY <1>b, <1>5, ResolveMoves
<1>6. CASE GatherEvidence(r)
  BY <1>6, GatherMoves
<1>7. CASE RejectPremise(r)
  BY <1>b, <1>7, PremiseMoves
<1>8. CASE RecordTurn(r)
  BY <1>b, <1>8, AppendMovesThread
<1>9. CASE CheckLimit(r) \/ EvictTurn(r) \/ AssignSummary(r)
  BY <1>9, LimitMovesThread
<1>10. CASE RecordEvidence(r)
  BY <1>b, <1>10, EvidenceMovesThread
<1>11. CASE TrimEvidence(r)
  BY <1>11, WindowMoves
<1>12. CASE UpdateContext(r)
  BY <1>b, <1>12, ContextMoves
<1>13. CASE BeginSave(r) \/ OpenFile(r) \/ WriteFile(r)
  BY <1>13, BeginSaveMoves, OpenMoves, WriteMoves
<1> QED
  BY <1>1, <1>2, <1>3, <1>4, <1>5, <1>6, <1>7, <1>8, <1>9, <1>10, <1>11, <1>12, <1>13
     DEF Handle

\* A handler step is a step of a request in flight.
LEMMA HandlerInFlight ==
  ASSUME Inv, NEW r \in Requests, Handle(r)
  PROVE  r \in InFlight
<1>1. CASE \/ CheckSession(r) \/ ImportTurn(r) \/ CreateSession(r) \/ LookupSession(r)
           \/ ResetSession(r) \/ RemoveEphemeral(r) \/ Reply(r)
  BY <1>1 DEF CheckSession, ImportTurn, CreateSession, LookupSession, ResetSession,
              RemoveEphemeral, Reply, At, InFlight
<1>2. CASE \/ AnswerWithoutRetrieval(r) \/ RejectMode(r) \/ ResolveContext(r)
           \/ GatherEvidence(r) \/ RejectPremise(r) \/ FailRetrieval(r)
           \/ GenerateAnswer(r) \/ StreamAnswer(r) \/ BreakStream(r)
  BY <1>2 DEF AnswerWithoutRetrieval, RejectMode, ResolveContext, GatherEvidence, RejectPremise,
              FailRetrieval, GenerateAnswer, StreamAnswer, BreakStream, At, InFlight
<1>3. CASE \/ RecordTurn(r) \/ CheckLimit(r) \/ EvictTurn(r) \/ AssignSummary(r)
           \/ RecordEvidence(r) \/ TrimEvidence(r) \/ UpdateContext(r)
           \/ BeginSave(r) \/ OpenFile(r) \/ WriteFile(r)
  BY <1>3 DEF RecordTurn, CheckLimit, EvictTurn, AssignSummary, RecordEvidence, TrimEvidence,
              UpdateContext, BeginSave, OpenFile, WriteFile, At, InFlight
<1> QED
  BY <1>1, <1>2, <1>3 DEF Handle

\* A request arrives, or works, where no other is in flight.
LEMMA AloneInFlight ==
  ASSUME Inv, MaxInFlight <= 1, \A p, q \in InFlight : p = q,
         NEW r \in Requests, Arrive(r) \/ Handle(r), NEW q \in Requests \ {r}
  PROVE  pc[q] \in {"idle", "done"} /\ pc'[q] = pc[q]
<1>1. pc'[q] = pc[q]
  BY HandlerFrame
<1>2. CASE Arrive(r)
  <2>1. IsFiniteSet(InFlight) /\ Cardinality(InFlight) \in Nat
    BY FinitenessAssumption, FS_Subset, FS_CardinalityType DEF InFlight
  <2>2. Cardinality(InFlight) = 0
    BY <1>2, <2>1, ArriveMoves, BoundsAssumption
  <2>3. InFlight = {}
    BY <2>1, <2>2, FS_EmptySet
  <2> QED
    BY <1>1, <2>3 DEF InFlight
<1>3. CASE Handle(r)
  <2>1. q \notin InFlight
    BY <1>3, HandlerInFlight
  <2> QED
    BY <1>1, <2>1 DEF InFlight
<1> QED
  BY <1>2, <1>3

\* In _save only the next step of _save can follow.
LEMMA SavingSteps ==
  ASSUME Inv, NEW r \in Requests, Arrive(r) \/ Handle(r), pc[r] \in Saving
  PROVE  BeginSave(r) \/ OpenFile(r) \/ WriteFile(r)
BY DEF Saving, Handle, Arrive, CheckSession, ImportTurn, CreateSession, LookupSession,
       ResetSession, RemoveEphemeral, Reply, AnswerWithoutRetrieval, RejectMode,
       ResolveContext, GatherEvidence, RejectPremise, FailRetrieval, GenerateAnswer,
       StreamAnswer, BreakStream, RecordTurn, CheckLimit, EvictTurn, AssignSummary,
       RecordEvidence, TrimEvidence, UpdateContext, At

LEMMA SnapshotNormal ==
  /\ Snapshot.live = live
  /\ \A s \in SessionIds \ live : Snapshot.heap[s] = NewSession
BY DEF Snapshot

LEMMA OrderlyStep ==
  ASSUME Inv, Inv', Persistent, MaxInFlight <= 1, Orderly, NEW r \in Requests,
         Arrive(r) \/ Handle(r)
  PROVE  Orderly'
<1>1. \A q \in Requests \ {r} : pc[q] \in {"idle", "done"} /\ pc'[q] = pc[q]
  BY AloneInFlight DEF Orderly
<1>2. \A p, q \in InFlight' : p = q
  BY <1>1 DEF InFlight
<1>3. \A q \in Requests \ {r} : pc[q] \notin Dirty /\ pc'[q] \notin Dirty
  BY <1>1 DEF Dirty, Busy, Saving
<1>4. server = "up" /\ server' = "up"
  BY HandlerFrame
<1>5. ASSUME disk' = disk, pc'[r] \notin {"open", "write"},
             pc'[r] \notin Dirty => pc[r] \notin Dirty /\ live' = live /\ heap' = heap
      PROVE  Orderly'
  <2>1. (\A q \in Requests : pc'[q] \notin Dirty) => Saved'
    <3>1. SUFFICES ASSUME pc'[r] \notin Dirty PROVE Saved'
      OBVIOUS
    <3>2. Saved /\ live' = live /\ heap' = heap /\ disk' = disk
      BY <1>3, <1>4, <1>5, <3>1 DEF Orderly
    <3> QED
      BY <3>2 DEF Saved, Snapshot
  <2>2. \A q \in Requests : pc'[q] \notin {"open", "write"}
    BY <1>1, <1>5
  <2> QED
    BY <1>2, <1>5, <2>1, <2>2 DEF Orderly
<1>6. CASE pc[r] \notin Saving
  BY <1>5, <1>6, ChangesAreSaved DEF Dirty, Saving
<1>7. CASE BeginSave(r)
  <2>1. pc'[r] = "open" /\ UNCHANGED <<store, disk>> /\ loc'[r].size = Cardinality(live)
    BY <1>7, BeginSaveMoves
  <2>2. \A q \in Requests : (pc'[q] = "open" => q = r) /\ pc'[q] # "write"
    BY <1>1, <2>1
  <2>3. pc'[r] \in Dirty /\ live' = live
    BY <2>1 DEF Dirty, Saving, store
  <2>4. \A q \in Requests : pc'[q] = "open" => loc'[q].size = Cardinality(live')
    BY <2>1, <2>2, <2>3
  <2> QED
    BY <1>2, <2>1, <2>2, <2>3, <2>4 DEF Orderly
<1>8. CASE OpenFile(r)
  <2>1. /\ pc'[r] = "write" /\ UNCHANGED store /\ loc'[r].image = Snapshot
        /\ disk' = [state |-> "empty", image |-> EmptyImage]
    BY <1>8, OpenMoves DEF Orderly
  <2>2. \A q \in Requests : (pc'[q] = "write" => q = r) /\ pc'[q] # "open"
    BY <1>1, <2>1
  <2>3. pc'[r] \in Dirty /\ Snapshot' = Snapshot /\ disk'.state = "empty"
    BY <2>1 DEF Dirty, Saving, store, Snapshot
  <2>4. \A q \in Requests : pc'[q] = "write" => disk'.state = "empty" /\ loc'[q].image = Snapshot'
    BY <2>1, <2>2, <2>3
  <2> QED
    BY <1>2, <2>2, <2>3, <2>4 DEF Orderly
<1>9. CASE WriteFile(r)
  <2>1. /\ pc[r] = "write" /\ pc'[r] = loc[r].then /\ UNCHANGED store
        /\ disk' = [state |-> "whole", image |-> Snapshot]
    BY <1>9, WriteMoves DEF Orderly
  <2>2. loc[r].then \notin {"open", "write"}
    BY DEF Inv, ThreadInv, Placed, Continuations
  <2>3. \A q \in Requests : pc'[q] \notin {"open", "write"}
    BY <1>1, <2>1, <2>2
  <2>4. /\ Snapshot' = Snapshot /\ disk'.state = "whole" /\ disk'.image = Snapshot
    BY <2>1 DEF store, Snapshot
  <2>5. Saved'
    BY <2>4 DEF Saved
  <2>6. \A s \in SessionIds \ disk'.image.live : disk'.image.heap[s] = NewSession
    BY <2>4, SnapshotNormal
  <2> QED
    BY <1>2, <2>3, <2>4, <2>5, <2>6 DEF Orderly
<1>10. CASE pc[r] \in Saving
  <2>1. Arrive(r) \/ Handle(r) => BeginSave(r) \/ OpenFile(r) \/ WriteFile(r)
    BY <1>10, SavingSteps
  <2> QED
    BY <1>7, <1>8, <1>9, <2>1
<1> QED
  BY <1>6, <1>10

LEMMA OrderlyProcess ==
  ASSUME Inv, Inv', FileInv, Persistent, MaxInFlight <= 1, Crash \/ Restart
  PROVE  Orderly'
<1>0. Orderly /\ (server # "up" => live = {})
  BY DEF FileInv
<1>a. ASSUME \A r \in Requests : pc'[r] \in {"idle", "done"}, disk' = disk,
             server' = "up" => Saved'
      PROVE  Orderly'
  <2>1. InFlight' = {} /\ \A r \in Requests : pc'[r] \notin {"open", "write"}
    BY <1>a DEF InFlight
  <2>2. /\ disk'.state # "torn"
        /\ disk'.state = "whole" =>
             \A s \in SessionIds \ disk'.image.live : disk'.image.heap[s] = NewSession
    BY <1>0, <1>a DEF Orderly
  <2> QED
    BY <1>a, <2>1, <2>2 DEF Orderly
<1>1. CASE Crash
  <2>1. (\A r \in Requests : pc'[r] \in {"idle", "done"}) /\ server' = "down" /\ disk' = disk
    BY <1>1 DEF Crash, InFlight
  <2> QED
    BY <1>a, <2>1
<1>2. CASE Restart
  <2>1. (\A r \in Requests : pc'[r] \in {"idle", "done"}) /\ disk' = disk
    BY <1>2 DEF Restart, Inv, DownInv, InFlight
  <2>2. server' = "up" => Saved'
    <3>1. CASE disk.state = "whole"
      <4>1. live' = disk.image.live /\ heap' = disk.image.heap
        BY <1>2, <3>1 DEF Restart
      <4>2. disk.image \in Image /\ \A s \in SessionIds \ disk.image.live : disk.image.heap[s] = NewSession
        BY <1>0, <3>1 DEF Orderly, Inv, TypeOK
      <4>3. disk.image = [live |-> disk.image.live, heap |-> disk.image.heap]
        BY <4>2 DEF Image
      <4>4. disk.image.heap = [s \in SessionIds |-> IF s \in disk.image.live THEN disk.image.heap[s]
                                                                             ELSE NewSession]
        BY <4>2 DEF Image
      <4>5. Snapshot' = disk.image
        BY <4>1, <4>3, <4>4 DEF Snapshot
      <4> QED
        BY <2>1, <3>1, <4>5 DEF Saved
    <3>2. CASE disk.state = "absent"
      <4>1. live' = {} /\ disk'.state = "absent"
        BY <1>0, <1>2, <3>2 DEF Restart
      <4> QED
        BY <4>1 DEF Saved
    <3>3. CASE disk.state \notin {"whole", "absent"}
      BY <1>2, <3>3 DEF Restart
    <3> QED
      BY <3>1, <3>2, <3>3
  <2> QED
    BY <1>a, <2>1, <2>2
<1> QED
  BY <1>1, <1>2

LEMMA FilePreserved ==
  ASSUME Inv, Inv', FileInv, [Next]_vars
  PROVE  FileInv'
<1>1. CASE UNCHANGED vars
  BY <1>1 DEF vars, FileInv, Orderly, InFlight, Saved, Snapshot
<1>2. ASSUME NEW r \in Requests, Arrive(r) \/ Handle(r)
      PROVE  FileInv'
  <2>1. server' = "up" /\ \A q \in Requests \ {r} : pc'[q] = pc[q]
    BY <1>2, HandlerFrame
  <2>2. ~Persistent => disk'.state = "absent" /\ \A q \in Requests : pc'[q] \notin Saving
    BY <1>2, <2>1, NothingSaved DEF FileInv
  <2>3. Persistent /\ MaxInFlight <= 1 => Orderly'
    BY <1>2, OrderlyStep DEF FileInv
  <2> QED
    BY <2>1, <2>2, <2>3 DEF FileInv
<1>3. CASE Crash \/ Restart
  <2>1. server' # "up" => live' = {}
    <3>1. CASE disk.state = "whole"
      BY <1>3, <3>1 DEF Crash, Restart
    <3>2. CASE disk.state # "whole"
      BY <1>3, <3>2 DEF Crash, Restart, FileInv
    <3> QED
      BY <3>1, <3>2
  <2>2. disk' = disk /\ \A q \in Requests : pc'[q] \in {pc[q], "done"}
    BY <1>3 DEF Crash, Restart
  <2>3. Persistent /\ MaxInFlight <= 1 => Orderly'
    BY <1>3, OrderlyProcess
  <2> QED
    BY <2>1, <2>2, <2>3 DEF FileInv, Saving
<1> QED
  BY <1>1, <1>2, <1>3 DEF Next

LEMMA FileInvariance == Spec => []FileInv
<1>1. Init => FileInv
  BY DEF Init, FileInv, Orderly, InFlight, Saved, Saving
<1> QED
  BY <1>1, FilePreserved, Invariance, PTL DEF Spec

\* With a path, and requests that come one after another, the session file holds
\* between two of them exactly the sessions in memory: a restart there, after
\* any earlier crash and restart, loses and revives nothing.
THEOREM SequentialDurability ==
  ASSUME Persistent, MaxInFlight <= 1
  PROVE  Spec => []Durable
<1>1. FileInv => Durable
  <2> SUFFICES ASSUME FileInv, server = "up", InFlight = {}
               PROVE  Saved
    BY DEF Durable, Saved
  <2>1. \A r \in Requests : pc[r] \notin Dirty
    BY DEF InFlight, Dirty, Busy, Saving
  <2> QED
    BY <2>1 DEF FileInv, Orderly
<1> QED
  BY <1>1, FileInvariance, PTL

-----------------------------------------------------------------------------
(* Sessions that are gone: the strengthened invariant *)

\* Requests cannot disturb each other's _save.
Alone == ~Persistent \/ MaxInFlight <= 1

\* Where a handler is, or will be when the store method it is in returns.
Phase(r) == IF pc[r] \in Storing THEN loc[r].then ELSE pc[r]
Working ==
  {"lookup", "route", "resolve", "gather", "generate", "append", "evidence", "window",
   "context", "cleanup"}

\* No other request knows the session that answer() made for one request.
Ids(r) == {loc[r].sid, loc[r].target}
Private(r) ==
  loc[r].kind = "oneshot" => \A q \in Requests \ {r} : Ids(r) \cap Ids(q) \subseteq {NoSession}

\* It is in memory until the finally of answer() has removed it.
OneShot(r) ==
  /\ Phase(r) \notin {"idle", "check", "reset"}
  /\ Phase(r) = "create" => loc[r].sid = NoSession /\ loc[r].target = NoSession /\ ~loc[r].guarded
  /\ Phase(r) = "import" => loc[r].sid \in live /\ loc[r].target = NoSession /\ ~loc[r].guarded
  /\ Phase(r) \in Working => loc[r].guarded /\ loc[r].target = loc[r].sid /\ loc[r].sid \in live
  /\ Phase(r) \in {"reply", "done"} => ~loc[r].guarded
  /\ Phase(r) = "reply" \/ (Phase(r) = "done" /\ loc[r].outcome # "lost") =>
       loc[r].sid \in issued \ live

Resetting(r) ==
  /\ Phase(r) \in {"reset", "reply", "done"} /\ ~loc[r].guarded
  /\ Phase(r) = "reset" => loc[r].outcome # "answered"
  /\ loc[r].outcome = "answered" =>
       /\ loc[r].sid = loc[r].target /\ loc[r].sid \in issued
       /\ crashes = 0 \/ Alone => loc[r].sid \notin live

\* A request that has removed its session, in memory and in the file.
Closed(r) ==
  /\ pc[r] \in {"reply", "done"}
  /\ \/ loc[r].kind = "reset" /\ loc[r].outcome = "answered"
     \/ loc[r].kind = "oneshot" /\ loc[r].outcome # "lost"
Gone(r) == disk.state = "whole" => loc[r].sid \notin disk.image.live

GoneInv ==
  \A r \in Requests :
    /\ Private(r)
    /\ Alone /\ loc[r].kind = "oneshot" => OneShot(r)
    /\ loc[r].kind = "reset" => Resetting(r)
    /\ Alone /\ Closed(r) => Gone(r)

-----------------------------------------------------------------------------
(* Which ids a step moves *)

\* What RejectPremise does to its thread, apart from what it found and set.
LEMMA PremiseMovesThread ==
  ASSUME Inv, NEW r \in Requests, RejectPremise(r)
  PROVE  /\ pc[r] = "gather" /\ UNCHANGED <<disk, process>>
         /\ \/ pc'[r] = "generate" /\ UNCHANGED store /\ Stays(r, Fields \ {"chunks"})
            \/ Raise(r)
            \/ /\ loc[r].sid \in live /\ UNCHANGED <<live, issued>>
               /\ pc'[r] = (IF Persistent THEN "save" ELSE "generate")
               /\ loc'[r].then = "generate" /\ Stays(r, Fields \ {"chunks", "then"})
BY PremiseMoves

\* No handler brings an issued id back, and only reset and cleanup remove one.
LEMMA LiveFrame ==
  ASSUME Inv, NEW r \in Requests, Arrive(r) \/ Handle(r)
  PROVE  /\ live' \cap issued \subseteq live /\ issued \subseteq issued'
         /\ \/ live \subseteq live'
            \/ pc[r] \in {"reset", "cleanup"} /\ live' = live \ {loc[r].target}
<1>0. issued \subseteq issued'
  BY HandlerFrame
<1>1. CASE live' = live
  BY <1>0, <1>1
<1>2. CASE \/ Arrive(r) \/ CheckSession(r) \/ ImportTurn(r) \/ LookupSession(r) \/ Reply(r)
           \/ AnswerWithoutRetrieval(r) \/ GenerateAnswer(r) \/ StreamAnswer(r)
           \/ RejectMode(r) \/ FailRetrieval(r) \/ BreakStream(r)
  BY <1>1, <1>2, ArriveMoves, CheckMoves, ImportMoves, LookupMoves, ReplyMoves, PlainMoves,
     FailureMoves DEF store, Raise
<1>3. CASE CreateSession(r)
  BY <1>0, <1>3, CreateMovesThread
<1>4. CASE ResetSession(r) \/ RemoveEphemeral(r)
  BY <1>0, <1>4, ResetMoves, CleanupMoves
<1>5. CASE ResolveContext(r) \/ GatherEvidence(r) \/ RejectPremise(r)
  BY <1>1, <1>5, ResolveMoves, GatherMoves, PremiseMoves DEF store, Raise
<1>6. CASE \/ RecordTurn(r) \/ CheckLimit(r) \/ EvictTurn(r) \/ AssignSummary(r)
           \/ RecordEvidence(r) \/ TrimEvidence(r) \/ UpdateContext(r)
           \/ BeginSave(r) \/ OpenFile(r) \/ WriteFile(r)
  BY <1>1, <1>6, AppendMovesThread, LimitMovesThread, EvidenceMovesThread, WindowMoves,
     ContextMoves, BeginSaveMoves, OpenMoves, WriteMoves DEF store, Raise
<1> QED
  BY <1>2, <1>3, <1>4, <1>5, <1>6 DEF Handle

\* A handler works with the ids it has or with a new one.
LEMMA IdsFrame ==
  ASSUME Inv, NEW r \in Requests, Handle(r)
  PROVE  /\ loc'[r].kind = loc[r].kind
         /\ loc'[r].sid \in {loc[r].sid, loc[r].target} \cup (SessionIds \ issued)
         /\ loc'[r].target \in {loc[r].sid, loc[r].target}
<1> USE DEF Stays, Fields
<1>a. ASSUME Raise(r) \/ (\E outcome : Leave(r, outcome))
      PROVE  Stays(r, {"kind", "sid", "target"})
  BY <1>a, RaiseMoves, LeaveMoves
<1>2. CASE CheckSession(r)
  BY <1>2, <1>a, CheckMoves
<1>3. CASE ImportTurn(r)
  BY <1>3, <1>a, ImportMoves
<1>4. CASE CreateSession(r) \/ ResetSession(r) \/ RemoveEphemeral(r) \/ Reply(r)
  BY <1>4, CreateMovesThread, ResetMoves, CleanupMoves, ReplyMoves
<1>5. CASE LookupSession(r)
  BY <1>5, <1>a, LookupMoves
<1>6. CASE \/ AnswerWithoutRetrieval(r) \/ GenerateAnswer(r) \/ StreamAnswer(r)
           \/ RejectMode(r) \/ FailRetrieval(r) \/ BreakStream(r) \/ GatherEvidence(r)
  BY <1>6, PlainMoves, FailureMoves, GatherMoves
<1>7. CASE ResolveContext(r)
  BY <1>7, <1>a, ResolveMoves
<1>8. CASE RejectPremise(r)
  BY <1>8, <1>a, PremiseMovesThread
<1>9. CASE RecordTurn(r)
  BY <1>9, <1>a, AppendMovesThread
<1>10. CASE CheckLimit(r) \/ EvictTurn(r) \/ AssignSummary(r) \/ TrimEvidence(r)
  BY <1>10, LimitMovesThread, WindowMoves
<1>11. CASE RecordEvidence(r)
  BY <1>11, <1>a, EvidenceMovesThread
<1>12. CASE UpdateContext(r)
  BY <1>12, <1>a, ContextMoves
<1>13. CASE BeginSave(r) \/ OpenFile(r) \/ WriteFile(r)
  BY <1>13, <1>a, BeginSaveMoves, OpenMoves, WriteMoves
<1> QED
  BY <1>2, <1>3, <1>4, <1>5, <1>6, <1>7, <1>8, <1>9, <1>10, <1>11, <1>12, <1>13 DEF Handle

\* A uuid that a client knows is no private one.
LEMMA KnownPublic ==
  ASSUME GoneInv, NEW r \in Requests, loc[r].kind = "oneshot"
  PROVE  Ids(r) \cap Known \subseteq {NoSession}
<1>1. SUFFICES ASSUME NEW q \in Requests, loc[q].kind \in {"open", "ask", "stream"}
               PROVE  Ids(r) \cap {loc[q].sid} \subseteq {NoSession}
  BY DEF Known
<1> QED
  BY <1>1 DEF GoneInv, Private, Ids

LEMMA PrivateKept ==
  ASSUME Inv, GoneInv, NEW r \in Requests, Arrive(r) \/ Handle(r), NEW p \in Requests
  PROVE  Private(p)'
<1>0. \A q \in Requests : Ids(q) \subseteq issued \cup {NoSession}
  BY DEF Inv, ThreadInv, Placed, Ids
<1>1. \A q \in Requests \ {r} : loc'[q] = loc[q]
  BY HandlerFrame
<1>2. CASE Arrive(r)
  <2>1. loc'[r].sid = NoSession /\ loc'[r].target \in Known \cup {NoSession}
        /\ (loc'[r].kind = "oneshot" => loc'[r].target = NoSession)
    BY <1>2, ArriveMoves DEF Fields, IdleLocal
  <2> SUFFICES ASSUME loc'[p].kind = "oneshot", NEW q \in Requests \ {p}
               PROVE  Ids(p)' \cap Ids(q)' \subseteq {NoSession}
    BY DEF Private
  <2>2. CASE p = r
    BY <2>1, <2>2 DEF Ids
  <2>3. CASE p # r /\ q = r
    BY <1>1, <2>1, <2>3, KnownPublic DEF Ids
  <2>4. CASE p # r /\ q # r
    BY <1>1, <2>4 DEF GoneInv, Private, Ids
  <2> QED
    BY <2>2, <2>3, <2>4
<1>3. CASE Handle(r)
  <2>1. loc'[r].kind = loc[r].kind /\ Ids(r)' \subseteq Ids(r) \cup (SessionIds \ issued)
    BY <1>3, IdsFrame DEF Ids
  <2> SUFFICES ASSUME loc'[p].kind = "oneshot", NEW q \in Requests \ {p}
               PROVE  Ids(p)' \cap Ids(q)' \subseteq {NoSession}
    BY DEF Private
  <2>2. loc[p].kind = "oneshot"
    BY <1>1, <2>1
  <2>3. Ids(p) \cap Ids(q) \subseteq {NoSession}
    BY <2>2 DEF GoneInv, Private
  <2>4. CASE p = r
    <3>1. Ids(q)' = Ids(q) /\ Ids(p)' \subseteq Ids(p) \cup (SessionIds \ issued)
      BY <1>1, <2>1, <2>4 DEF Ids
    <3> QED
      BY <1>0, <2>3, <3>1
  <2>5. CASE q = r
    <3>1. Ids(p)' = Ids(p) /\ Ids(q)' \subseteq Ids(q) \cup (SessionIds \ issued)
      BY <1>1, <2>1, <2>5 DEF Ids
    <3> QED
      BY <1>0, <2>3, <3>1
  <2>6. CASE p # r /\ q # r
    BY <1>1, <2>3, <2>6 DEF Ids
  <2> QED
    BY <2>4, <2>5, <2>6
<1> QED
  BY <1>2, <1>3

-----------------------------------------------------------------------------
(* The request with a session of its own *)

\* Where no other _save interferes, _save does not raise.
LEMMA SaveSucceeds ==
  ASSUME Inv, FileInv, Alone, NEW r \in Requests, OpenFile(r)
  PROVE  /\ pc'[r] = "write" /\ live' = live /\ issued' = issued
         /\ Stays(r, Fields \ {"image"}) /\ disk'.state = "empty"
<1>1. pc[r] = "open"
  BY OpenMoves
<1>2. Persistent /\ MaxInFlight <= 1
  BY <1>1 DEF FileInv, Alone, Saving
<1>3. Cardinality(live) = loc[r].size
  BY <1>1, <1>2 DEF FileInv, Orderly
<1> QED
  BY <1>3, OpenMoves DEF store

LEMMA OneShotStep ==
  ASSUME Inv, FileInv, GoneInv, Alone, NEW r \in Requests, Handle(r), loc[r].kind = "oneshot"
  PROVE  OneShot(r)'
<1>0. OneShot(r) /\ live \subseteq issued
  BY DEF GoneInv, Inv, StoreInv
<1> USE DEF Stays, Fields, Storing, Working, store
<1>a. Persistent \in BOOLEAN
  BY KindsAssumption
<1>b. ASSUME pc[r] \in Working, Raise(r) \/ (UNCHANGED store /\ \E outcome : Leave(r, outcome))
      PROVE  OneShot(r)'
  <2>1. loc[r].guarded /\ loc[r].target = loc[r].sid /\ loc[r].sid \in live
    BY <1>0, <1>b DEF OneShot, Phase
  <2>2. /\ pc'[r] = "cleanup" /\ Stays(r, {"sid", "target", "guarded"}) /\ live' = live
    BY <1>b, <2>1, RaiseMoves, LeaveMoves DEF End
  <2> QED
    BY <2>1, <2>2 DEF OneShot, Phase
<1>c. ASSUME pc[r] \in Working, Phase(r)' \in Working, live' = live,
             Stays(r, {"sid", "target", "guarded"})
      PROVE  OneShot(r)'
  BY <1>0, <1>c DEF OneShot, Phase
<1>d. ASSUME Phase(r)' = Phase(r), live' = live, issued' = issued,
             Stays(r, {"sid", "target", "guarded", "outcome"})
      PROVE  OneShot(r)'
  BY <1>0, <1>d DEF OneShot
<1>1. CASE CheckSession(r) \/ ResetSession(r)
  BY <1>0, <1>1, CheckMoves, ResetMoves DEF OneShot, Phase
<1>2. CASE ImportTurn(r)
  <2>1. pc[r] = "import" /\ loc[r].sid \in live /\ loc[r].target = NoSession /\ ~loc[r].guarded
    BY <1>0, <1>2, ImportMoves DEF OneShot, Phase
  <2>2. CASE pc'[r] = "limit"
    <3>1. loc'[r].then = "import" /\ Stays(r, {"sid", "target", "guarded"}) /\ live' = live
      BY <1>2, <2>1, <2>2, ImportMoves DEF Raise, Leave, End
    <3> QED
      BY <2>1, <2>2, <3>1 DEF OneShot, Phase
  <2>3. CASE pc'[r] # "limit"
    <3>1. /\ pc'[r] = "lookup" /\ loc'[r].target = loc[r].sid /\ loc'[r].guarded
          /\ loc'[r].sid = loc[r].sid /\ live' = live
      BY <1>2, <2>1, <2>3, ImportMoves
    <3> QED
      BY <2>1, <3>1 DEF OneShot, Phase
  <2> QED
    BY <2>2, <2>3
<1>3. CASE CreateSession(r)
  <2>1. loc[r].sid = NoSession /\ loc[r].target = NoSession /\ ~loc[r].guarded
    BY <1>0, <1>3, CreateMovesThread DEF OneShot, Phase
  <2>2. loc'[r].then = "import" /\ pc'[r] \in {"save", "import"} /\ loc'[r].sid \in live'
        /\ loc'[r].target = NoSession /\ ~loc'[r].guarded
    BY <1>3, <2>1, CreateMovesThread
  <2> QED
    BY <2>2 DEF OneShot, Phase
<1>4. CASE LookupSession(r)
  <2>1. pc[r] = "lookup" /\ loc[r].target = loc[r].sid /\ loc[r].sid \in live
    BY <1>0, <1>4, LookupMoves DEF OneShot, Phase
  <2>2. CASE Leave(r, "rejected")
    BY <1>4, <1>b, <2>1, <2>2, LookupMoves
  <2>3. CASE ~Leave(r, "rejected")
    <3>1. pc'[r] \in {"resolve", "route"} /\ Stays(r, {"sid", "target", "guarded"}) /\ live' = live
      BY <1>4, <2>1, <2>3, LookupMoves
    <3> QED
      BY <1>c, <2>1, <3>1 DEF Phase
  <2> QED
    BY <2>2, <2>3
<1>5. CASE RemoveEphemeral(r)
  <2>1. loc[r].target = loc[r].sid /\ loc[r].sid \in live
    BY <1>0, <1>5, CleanupMoves DEF OneShot, Phase
  <2>2. /\ loc'[r].then = "reply" /\ pc'[r] \in {"save", "reply"} /\ ~loc'[r].guarded
        /\ loc'[r].sid \in issued' \ live'
    BY <1>0, <1>5, <2>1, CleanupMoves
  <2> QED
    BY <2>2 DEF OneShot, Phase
<1>6. CASE Reply(r)
  <2>1. pc[r] = "reply" /\ loc[r].sid \in issued \ live
    BY <1>0, <1>6, ReplyMoves DEF OneShot, Phase
  <2>2. pc'[r] = "done" /\ loc'[r].sid \in issued' \ live' /\ ~loc'[r].guarded
    BY <1>6, <2>1, ReplyMoves DEF IdleLocal
  <2> QED
    BY <2>2 DEF OneShot, Phase
<1>7. CASE \/ AnswerWithoutRetrieval(r) \/ GenerateAnswer(r) \/ StreamAnswer(r)
  BY <1>c, <1>7, PlainMoves DEF Phase
<1>8. CASE RejectMode(r) \/ FailRetrieval(r) \/ BreakStream(r)
  <2>1. pc[r] \in Working /\ loc[r].guarded
    BY <1>0, <1>8, FailureMoves DEF OneShot, Phase
  <2>2. pc'[r] = "cleanup" /\ live' = live /\ Stays(r, {"sid", "target", "guarded"})
    BY <1>8, <2>1, FailureMoves DEF End
  <2> QED
    BY <1>c, <2>1, <2>2 DEF Phase
<1>9. CASE ResolveContext(r)
  <2>1. CASE Raise(r)
    BY <1>9, <1>b, <2>1, ResolveMoves
  <2>2. CASE ~Raise(r)
    <3>1. /\ pc[r] \in Working /\ pc'[r] \in {"save", "gather"} /\ loc'[r].then = "gather"
          /\ live' = live /\ Stays(r, {"sid", "target", "guarded"})
      BY <1>9, <2>2, ResolveMoves
    <3> QED
      BY <1>c, <3>1 DEF Phase
  <2> QED
    BY <2>1, <2>2
<1>10. CASE GatherEvidence(r)
  <2>1. /\ pc[r] = "gather" /\ pc'[r] = "generate" /\ live' = live
        /\ Stays(r, {"sid", "target", "guarded"})
    BY <1>10, GatherMoves
  <2> QED
    BY <1>c, <2>1 DEF Phase
<1>11. CASE RejectPremise(r)
  <2>1. CASE Raise(r)
    BY <1>11, <1>b, <2>1, PremiseMoves
  <2>2. CASE ~Raise(r)
    <3>1. /\ pc[r] = "gather" /\ live' = live /\ Stays(r, {"sid", "target", "guarded"})
          /\ pc'[r] = "generate" \/ (pc'[r] \in {"save", "generate"} /\ loc'[r].then = "generate")
      BY <1>11, <2>2, PremiseMovesThread
    <3> QED
      BY <1>c, <3>1 DEF Phase
  <2> QED
    BY <2>1, <2>2
<1>12. CASE RecordTurn(r)
  <2>1. CASE Raise(r)
    BY <1>12, <1>b, <2>1, AppendMovesThread
  <2>2. CASE ~Raise(r)
    <3>1. /\ pc[r] = "append" /\ pc'[r] = "limit" /\ loc'[r].then = AfterTurn(loc[r])
          /\ live' = live /\ Stays(r, {"sid", "target", "guarded"})
      BY <1>12, <2>2, AppendMovesThread
    <3>2. AfterTurn(loc[r]) \in Working
      BY <1>0, <3>1 DEF OneShot, Phase, AfterTurn, AfterEvidence, End
    <3> QED
      BY <1>c, <3>1, <3>2 DEF Phase
  <2> QED
    BY <2>1, <2>2
<1>13. CASE CheckLimit(r) \/ EvictTurn(r) \/ AssignSummary(r)
  <2>1. /\ pc[r] \in Storing /\ pc'[r] \in {"pop", "summary", "save", loc[r].then}
        /\ Stays(r, Fields) /\ UNCHANGED <<live, issued>>
    BY <1>13, LimitMovesThread
  <2>2. loc[r].then \notin Storing
    BY DEF Inv, ThreadInv, Placed, Continuations
  <2>3. Phase(r)' = Phase(r)
    BY <2>1, <2>2 DEF Phase
  <2> QED
    BY <1>d, <2>1, <2>3
<1>14. CASE RecordEvidence(r)
  <2>1. CASE Raise(r)
    BY <1>14, <1>b, <2>1, EvidenceMovesThread
  <2>2. CASE ~Raise(r)
    <3>0. /\ pc[r] = "evidence" /\ pc'[r] = "window" /\ live' = live
          /\ Stays(r, Fields)
      BY <1>14, <2>2, EvidenceMovesThread
    <3>1. /\ pc[r] = "evidence" /\ pc'[r] = "window" /\ live' = live
          /\ Stays(r, {"sid", "target", "guarded"})
      BY <3>0 DEF Stays, Fields
    <3> QED
      BY <1>c, <3>1 DEF Phase
  <2> QED
    BY <2>1, <2>2
<1>15. CASE TrimEvidence(r)
  <2>1. /\ pc[r] = "window" /\ pc'[r] \in {"save", loc'[r].then} /\ live' = live
        /\ loc'[r].then = AfterEvidence(loc[r]) /\ Stays(r, {"sid", "target", "guarded"})
    BY <1>15, WindowMoves
  <2>2. AfterEvidence(loc[r]) \in {"context", "cleanup"}
    BY <1>0, <2>1 DEF OneShot, Phase, AfterEvidence, End
  <2> QED
    BY <1>c, <2>1, <2>2 DEF Phase
<1>16. CASE UpdateContext(r)
  <2>1. CASE Raise(r)
    BY <1>16, <1>b, <2>1, ContextMoves
  <2>2. CASE ~Raise(r)
    <3>1. /\ pc[r] = "context" /\ pc'[r] \in {"save", loc'[r].then} /\ live' = live
          /\ loc'[r].then = End(loc[r]) /\ Stays(r, {"sid", "target", "guarded"})
      BY <1>16, <2>2, ContextMoves
    <3>2. End(loc[r]) = "cleanup"
      BY <1>0, <3>1 DEF OneShot, Phase, End
    <3> QED
      BY <1>c, <3>1, <3>2 DEF Phase
  <2> QED
    BY <2>1, <2>2
<1>17. CASE BeginSave(r) \/ OpenFile(r)
  <2>1. /\ pc[r] \in Storing /\ pc'[r] \in Storing /\ UNCHANGED <<live, issued>>
        /\ Stays(r, Fields \ {"size", "image"})
    BY <1>17, BeginSaveMoves, OpenMoves, SaveSucceeds
  <2> QED
    BY <1>d, <2>1 DEF Phase
<1>18. CASE WriteFile(r)
  <2>1. /\ pc[r] = "write" /\ pc'[r] = loc[r].then /\ UNCHANGED <<live, issued>>
        /\ Stays(r, Fields \ {"size", "image"})
    BY <1>18, WriteMoves
  <2>2. loc[r].then \notin Storing
    BY DEF Inv, ThreadInv, Placed, Continuations
  <2> QED
    BY <1>d, <2>1, <2>2 DEF Phase
<1> QED
  BY <1>1, <1>2, <1>3, <1>4, <1>5, <1>6, <1>7, <1>8, <1>9, <1>10, <1>11, <1>12, <1>13, <1>14,
     <1>15, <1>16, <1>17, <1>18 DEF Handle

\* What other requests do leaves it alone.
LEMMA OneShotKept ==
  ASSUME Inv, GoneInv, NEW r \in Requests, Arrive(r) \/ Handle(r),
         NEW p \in Requests \ {r}, loc[p].kind = "oneshot", OneShot(p)
  PROVE  OneShot(p)'
<1>1. pc'[p] = pc[p] /\ loc'[p] = loc[p] /\ Phase(p)' = Phase(p)
  BY HandlerFrame DEF Phase
<1>2. loc[p].sid \in live => loc[p].sid \in live'
  <2>1. SUFFICES ASSUME loc[p].sid \in live, loc[p].sid = loc[r].target
                 PROVE  FALSE
    BY LiveFrame
  <2>2. loc[p].sid # NoSession
    BY <2>1, SessionAssumption DEF Inv, TypeOK
  <2> QED
    BY <2>1, <2>2 DEF GoneInv, Private, Ids
<1>3. loc[p].sid \in issued \ live => loc[p].sid \in issued' \ live'
  BY LiveFrame
<1> QED
  BY <1>1, <1>2, <1>3 DEF OneShot

LEMMA OneShotArrives ==
  ASSUME Inv, NEW r \in Requests, Arrive(r), loc'[r].kind = "oneshot"
  PROVE  OneShot(r)'
<1>1. /\ pc'[r] = "create" /\ loc'[r].sid = NoSession /\ loc'[r].target = NoSession
      /\ ~loc'[r].guarded
  BY ArriveMoves DEF Fields, IdleLocal
<1> QED
  BY <1>1 DEF OneShot, Phase, Storing, Working

-----------------------------------------------------------------------------
(* The request that resets a session *)

LEMMA ResettingStep ==
  ASSUME Inv, GoneInv, NEW r \in Requests, Handle(r), loc[r].kind = "reset"
  PROVE  Resetting(r)'
<1>0. Resetting(r) /\ crashes' = crashes
  BY HandlerFrame DEF GoneInv
<1> USE DEF Stays, Fields, Storing, store
<1>1. CASE pc[r] = "reset"
  <2>1. ResetSession(r)
    BY <1>1 DEF Handle, CheckSession, ImportTurn, CreateSession, LookupSession,
         RemoveEphemeral, Reply, AnswerWithoutRetrieval, RejectMode,
         ResolveContext, GatherEvidence, RejectPremise, FailRetrieval, GenerateAnswer,
         StreamAnswer, BreakStream, RecordTurn, CheckLimit, EvictTurn, AssignSummary,
         RecordEvidence, TrimEvidence, UpdateContext, BeginSave, OpenFile, WriteFile, At
  <2>2. loc[r].target \in issued /\ ~loc[r].guarded
    BY <1>0, <1>1 DEF Inv, ThreadInv, Placed, Resetting
  <2>3. /\ Phase(r)' = "reply" /\ ~loc'[r].guarded /\ loc'[r].sid = loc'[r].target
        /\ loc'[r].sid \in issued' \ live'
    BY <2>1, <2>2, ResetMoves DEF Phase
  <2> QED
    BY <2>3 DEF Resetting
<1>2. CASE pc[r] # "reset"
  <2>1. Phase(r) \in {"reply", "done"} /\ pc[r] \in Storing \cup {"reply", "done"}
    BY <1>0, <1>2 DEF Resetting, Phase, Inv, ThreadInv, Placed, Continuations
  <2>2. \/ Reply(r) \/ CheckLimit(r) \/ EvictTurn(r) \/ AssignSummary(r)
        \/ BeginSave(r) \/ OpenFile(r) \/ WriteFile(r)
    BY <2>1 DEF Handle, CheckSession, ImportTurn, CreateSession, LookupSession, ResetSession,
         RemoveEphemeral, AnswerWithoutRetrieval, RejectMode,
         ResolveContext, GatherEvidence, RejectPremise, FailRetrieval, GenerateAnswer,
         StreamAnswer, BreakStream, RecordTurn, RecordEvidence, TrimEvidence, UpdateContext, At
  <2>3. loc[r].then \notin Storing
    BY DEF Inv, ThreadInv, Placed, Continuations
  <2>4. UNCHANGED <<live, issued>> /\ Stays(r, {"sid", "target"})
    <3>1. CASE Reply(r) \/ BeginSave(r) \/ WriteFile(r)
      BY <3>1, ReplyMoves, BeginSaveMoves, WriteMoves
    <3>2. CASE CheckLimit(r) \/ EvictTurn(r) \/ AssignSummary(r)
      BY <3>2, LimitMovesThread
    <3>3. CASE OpenFile(r)
      BY <3>3, OpenMoves, RaiseMoves
    <3> QED
      BY <2>2, <3>1, <3>2, <3>3
  <2>5. CASE loc'[r].outcome = loc[r].outcome /\ Phase(r)' \in {"reply", "done"} /\ ~loc'[r].guarded
    BY <1>0, <2>4, <2>5 DEF Resetting
  <2>6. CASE Raise(r)
    <3>1. pc'[r] = "reply" /\ loc'[r].outcome = "failed" /\ ~loc'[r].guarded
      BY <1>0, <2>6, RaiseMoves DEF Resetting, End
    <3> QED
      BY <3>1 DEF Resetting, Phase
  <2>7. CASE Reply(r)
    BY <2>5, <2>7, ReplyMoves DEF Phase, IdleLocal
  <2>8. CASE CheckLimit(r) \/ EvictTurn(r) \/ AssignSummary(r)
    <3>1. pc[r] \in Storing /\ pc'[r] \in {"pop", "summary", "save", loc[r].then} /\ Stays(r, Fields)
      BY <2>8, LimitMovesThread, KindsAssumption
    <3> QED
      BY <1>0, <2>1, <2>3, <2>5, <3>1 DEF Phase, Resetting
  <2>9. CASE BeginSave(r)
    <3>1. pc[r] = "save" /\ pc'[r] = "open" /\ Stays(r, Fields \ {"size"})
      BY <2>9, BeginSaveMoves
    <3> QED
      BY <1>0, <2>1, <2>5, <3>1 DEF Phase, Resetting
  <2>10. CASE OpenFile(r) /\ ~Raise(r)
    <3>1. pc[r] = "open" /\ pc'[r] = "write" /\ Stays(r, Fields \ {"image"})
      BY <2>10, OpenMoves
    <3> QED
      BY <1>0, <2>1, <2>5, <3>1 DEF Phase, Resetting
  <2>11. CASE WriteFile(r)
    <3>1. pc[r] = "write" /\ pc'[r] = loc[r].then /\ Stays(r, Fields \ {"image", "size"})
      BY <2>11, WriteMoves
    <3> QED
      BY <1>0, <2>1, <2>3, <2>5, <3>1 DEF Phase, Resetting
  <2> QED
    BY <2>2, <2>6, <2>7, <2>8, <2>9, <2>10, <2>11
<1> QED
  BY <1>1, <1>2

LEMMA ResettingArrives ==
  ASSUME Inv, NEW r \in Requests, Arrive(r), loc'[r].kind = "reset"
  PROVE  Resetting(r)'
<1>1. pc'[r] = "reset" /\ ~loc'[r].guarded /\ loc'[r].outcome = "none"
  BY ArriveMoves DEF Fields, IdleLocal
<1> QED
  BY <1>1 DEF Resetting, Phase, Storing

LEMMA ResettingKept ==
  ASSUME Inv, GoneInv, NEW r \in Requests, Arrive(r) \/ Handle(r),
         NEW p \in Requests \ {r}, loc[p].kind = "reset"
  PROVE  Resetting(p)'
<1>1. pc'[p] = pc[p] /\ loc'[p] = loc[p] /\ crashes' = crashes /\ Phase(p)' = Phase(p)
  BY HandlerFrame DEF Phase
<1> QED
  BY <1>1, LiveFrame DEF GoneInv, Resetting

-----------------------------------------------------------------------------
(* A removed session leaves the file too *)

LEMMA GoneStep ==
  ASSUME Inv, FileInv, FileInv', GoneInv, Alone, NEW r \in Requests, Arrive(r) \/ Handle(r),
         NEW p \in Requests, Closed(p)', loc'[p].sid \notin live'
  PROVE  Gone(p)'
<1>1. CASE ~Persistent
  BY <1>1 DEF FileInv, Gone
<1>2. CASE Persistent /\ MaxInFlight <= 1
  <2>0. Orderly /\ Orderly' /\ server' = "up"
    BY <1>2, HandlerFrame DEF FileInv
  <2>1. CASE p # r
    <3>1. pc'[p] = pc[p] /\ loc'[p] = loc[p]
      BY <2>1, HandlerFrame
    <3>2. Gone(p)
      BY <3>1 DEF GoneInv, Closed
    <3>3. CASE disk' = disk
      BY <3>1, <3>2, <3>3 DEF Gone
    <3>4. CASE pc[r] \notin Saving
      BY <1>2, <3>3, <3>4, ChangesAreSaved
    <3>5. CASE pc[r] \in Saving
      <4>1. BeginSave(r) \/ OpenFile(r) \/ WriteFile(r)
        BY <3>5, SavingSteps
      <4>2. CASE BeginSave(r)
        BY <3>3, <4>2, BeginSaveMoves
      <4>3. CASE OpenFile(r)
        BY <4>3, SaveSucceeds DEF Gone
      <4>4. CASE WriteFile(r)
        <5>1. disk' = [state |-> "whole", image |-> Snapshot] /\ live' = live
          BY <2>0, <4>4, WriteMoves DEF Orderly, store
        <5> QED
          BY <5>1 DEF Gone, Snapshot
      <4> QED
        BY <4>1, <4>2, <4>3, <4>4
    <3> QED
      BY <3>4, <3>5
  <2>2. CASE p = r
    <3>1. \A q \in Requests \ {r} : pc'[q] \in {"idle", "done"}
      BY <1>2, <2>0, AloneInFlight DEF Orderly
    <3>2. \A q \in Requests : pc'[q] \notin Dirty
      BY <2>2, <3>1 DEF Closed, Dirty, Busy, Saving
    <3>3. Saved'
      BY <2>0, <3>2 DEF Orderly
    <3> QED
      BY <3>3 DEF Saved, Snapshot, Gone
  <2> QED
    BY <2>1, <2>2
<1> QED
  BY <1>1, <1>2 DEF Alone

LEMMA GoneProcess ==
  ASSUME Inv, FileInv, GoneInv, Crash \/ Restart
  PROVE  GoneInv'
<1> SUFFICES ASSUME NEW r \in Requests
             PROVE  /\ Private(r)'
                    /\ Alone /\ loc'[r].kind = "oneshot" => OneShot(r)'
                    /\ loc'[r].kind = "reset" => Resetting(r)'
                    /\ Alone /\ Closed(r)' => Gone(r)'
  BY DEF GoneInv
<1>0. disk' = disk /\ issued' = issued /\ loc[r].sid \in issued \cup {NoSession}
  BY DEF Crash, Restart, Inv, ThreadInv, Placed
<1>1. CASE Crash
  <2>1. /\ crashes' # 0 /\ live' = {}
        /\ \A q \in Requests : IF q \in InFlight
                               THEN pc'[q] = "done" /\ loc'[q] = Ended(loc[q], "lost")
                               ELSE pc'[q] = pc[q] /\ loc'[q] = loc[q]
    BY <1>1 DEF Crash, Inv, TypeOK
  <2>2. \A q \in Requests : loc'[q].kind = loc[q].kind /\ Ids(q)' = Ids(q)
    <3>1. \A q \in Requests : Ended(loc[q], "lost").kind = loc[q].kind
             /\ Ended(loc[q], "lost").sid = loc[q].sid /\ Ended(loc[q], "lost").target = loc[q].target
      BY DEF Ended, IdleLocal
    <3> QED
      BY <2>1, <3>1 DEF Ids
  <2>3. Private(r)'
    BY <2>2 DEF GoneInv, Private
  <2>4. CASE r \in InFlight
    <3>1. pc'[r] = "done" /\ ~loc'[r].guarded /\ loc'[r].outcome = "lost"
      BY <2>1, <2>4 DEF Ended, IdleLocal
    <3> QED
      BY <2>3, <3>1 DEF OneShot, Resetting, Closed, Phase, Storing, Working
  <2>5. CASE r \notin InFlight
    <3>1. pc'[r] = pc[r] /\ loc'[r] = loc[r] /\ Phase(r)' = Phase(r)
      BY <2>1, <2>5 DEF Phase
    <3>2. pc[r] \in {"idle", "done"} /\ Phase(r) = pc[r]
      BY <2>5 DEF InFlight, Phase, Storing
    <3>3. Alone /\ loc'[r].kind = "oneshot" => OneShot(r)'
      BY <1>0, <2>1, <3>1, <3>2 DEF GoneInv, OneShot, Working
    <3>4. loc'[r].kind = "reset" => Resetting(r)'
      BY <1>0, <2>1, <3>1 DEF GoneInv, Resetting
    <3>5. Alone /\ Closed(r)' => Gone(r)'
      BY <1>0, <3>1 DEF GoneInv, Closed, Gone
    <3> QED
      BY <2>3, <3>3, <3>4, <3>5
  <2> QED
    BY <2>4, <2>5
<1>2. CASE Restart
  <2>1. pc' = pc /\ loc' = loc /\ crashes' = crashes /\ crashes # 0 /\ pc[r] \in {"idle", "done"}
    BY <1>2 DEF Restart, Inv, TypeOK, DownInv, InFlight
  <2>2. Phase(r)' = Phase(r) /\ Phase(r) = pc[r]
    BY <2>1 DEF Phase, Storing
  <2>3. Alone /\ Closed(r) => loc[r].sid \notin live'
    <3>1. CASE disk.state = "whole"
      BY <1>2, <3>1 DEF Restart, GoneInv, Gone
    <3>2. CASE disk.state # "whole"
      BY <1>2, <3>2 DEF Restart, FileInv
    <3> QED
      BY <3>1, <3>2
  <2>4. Private(r)'
    BY <2>1 DEF GoneInv, Private, Ids
  <2>5. Alone /\ loc'[r].kind = "oneshot" => OneShot(r)'
    BY <1>0, <2>1, <2>2, <2>3 DEF GoneInv, OneShot, Closed, Working
  <2>6. loc'[r].kind = "reset" => Resetting(r)'
    BY <1>0, <2>1, <2>2, <2>3 DEF GoneInv, Resetting, Closed
  <2>7. Alone /\ Closed(r)' => Gone(r)'
    BY <1>0, <2>1 DEF GoneInv, Closed, Gone
  <2> QED
    BY <2>4, <2>5, <2>6, <2>7
<1> QED
  BY <1>1, <1>2

LEMMA GonePreserved ==
  ASSUME Inv, FileInv, FileInv', GoneInv, [Next]_vars
  PROVE  GoneInv'
<1>1. CASE UNCHANGED vars
  BY <1>1 DEF vars, GoneInv, Private, Ids, OneShot, Resetting, Closed, Gone, Phase
<1>2. ASSUME NEW r \in Requests, Arrive(r) \/ Handle(r)
      PROVE  GoneInv'
  <2> SUFFICES ASSUME NEW p \in Requests
               PROVE  /\ Private(p)'
                      /\ Alone /\ loc'[p].kind = "oneshot" => OneShot(p)'
                      /\ loc'[p].kind = "reset" => Resetting(p)'
                      /\ Alone /\ Closed(p)' => Gone(p)'
    BY DEF GoneInv
  <2>1. p # r => loc'[p] = loc[p]
    BY <1>2, HandlerFrame
  <2>2. Private(p)'
    BY <1>2, PrivateKept
  <2>3. Handle(r) => loc'[r].kind = loc[r].kind
    BY IdsFrame
  <2>4. Alone /\ loc'[p].kind = "oneshot" => OneShot(p)'
    BY <1>2, <2>1, <2>3, OneShotStep, OneShotKept, OneShotArrives DEF GoneInv
  <2>5. loc'[p].kind = "reset" => Resetting(p)'
    BY <1>2, <2>1, <2>3, ResettingStep, ResettingKept, ResettingArrives
  <2>6. Alone /\ Closed(p)' => Gone(p)'
    <3> SUFFICES ASSUME Alone, Closed(p)'
                 PROVE  Gone(p)'
      OBVIOUS
    <3>1. Phase(p)' = pc'[p]
      BY DEF Closed, Phase, Storing
    <3>2. loc'[p].sid \notin live'
      BY <2>4, <2>5, <3>1 DEF Closed, OneShot, Resetting
    <3> QED
      BY <1>2, <3>2, GoneStep
  <2> QED
    BY <2>2, <2>4, <2>5, <2>6
<1>3. CASE Crash \/ Restart
  BY <1>3, GoneProcess
<1> QED
  BY <1>1, <1>2, <1>3 DEF Next

LEMMA GoneInvariance == Spec => []GoneInv
<1>1. Init => GoneInv
  BY DEF Init, GoneInv, Private, Ids, Closed, IdleLocal
<1> QED
  BY <1>1, GonePreserved, Invariance, FileInvariance, PTL DEF Spec

-----------------------------------------------------------------------------

\* Nothing stays of a session that answer() made for one request.
THEOREM EphemeralRemoved ==
  ASSUME ~Persistent \/ MaxInFlight <= 1
  PROVE  Spec => []EphemeralGone
<1>1. GoneInv => EphemeralGone
  BY DEF GoneInv, Alone, OneShot, Phase, Storing, EphemeralGone
<1> QED
  BY <1>1, GoneInvariance, PTL

\* A session that reset reported as removed stays removed.
THEOREM ResetLasts ==
  ASSUME ~Persistent \/ MaxInFlight <= 1
  PROVE  Spec => []ResetIsFinal
<1>1. GoneInv => ResetIsFinal
  BY DEF GoneInv, Alone, Resetting, ResetIsFinal
<1> QED
  BY <1>1, GoneInvariance, PTL

\* Until a crash it does so whatever requests run at the same time.
THEOREM ResetLastsWhileUp == Spec => [](crashes = 0 => ResetIsFinal)
<1>1. GoneInv => (crashes = 0 => ResetIsFinal)
  BY DEF GoneInv, Resetting, ResetIsFinal
<1> QED
  BY <1>1, GoneInvariance, PTL
=============================================================================

------------------------------- MODULE Dialogue -------------------------------
(***************************************************************************)
(* One conversation with the orchestrator (chat/orchestrator.py): what a   *)
(* question retrieves, what of it is told and cited, and what the session  *)
(* remembers of it.  ask and stream share the preparation of the evidence; *)
(* they differ in what they write afterwards.  The model may answer        *)
(* anything, fail, or break off.                                           *)
(*                                                                         *)
(* The corpus on disk may lose records while the server runs (store is     *)
(* what it loaded); a search then finds nothing until the server is        *)
(* restarted with a new index, but remembered chunks are still used.       *)
(* The requests of a conversation come one at a time here; ChatServer has  *)
(* their interleavings.                                                    *)
(***************************************************************************)
EXTENDS Evidence

CONSTANTS
    Asked,          \* the requests of a conversation, one after the other: what
                    \* each may ask, a question and where the client is
    Streamed,       \* the questions that may be asked of stream
    Numbered,       \* the names that begin with a numbered date ("3.1 ...")
    Withdrawable    \* ids of the records that may be withdrawn

ASSUME DialogueAssumption ==
    /\ Asked \in Seq(Range(Asked))
    /\ \A i \in DOMAIN Asked : \A a \in Asked[i] :
           a.q \in Texts /\ a.here \in Places \cup {NoName}
    /\ Withdrawable \subseteq Ids

VARIABLES
    store,      \* ids of the chunks the server has loaded
    disk,       \* ids of the chunks of the corpus on disk
    session,    \* the ChatSession
    reply,      \* the latest answer, see Reply
    said,       \* history: the names the client has brought up
    doubtful,   \* history: those it brought up only where nothing was found
    turns       \* requests so far

vars == <<store, disk, session, reply, said, doubtful, turns>>

Clauses == UNION {{[id |-> id, n |-> i] : i \in DOMAIN Record(id).clauses} : id \in Ids}

NoReply == [status |-> "none", kind |-> "independent", subject |-> NoName,
            intent |-> "overview", asked |-> "overview", own |-> {}, search |-> {}, told |-> {},
            cited |-> {}, checked |-> {}, sent |-> {}, trimmed |-> FALSE,
            sufficient |-> FALSE]

(***************************************************************************)
(* _prepare_turn_evidence                                                  *)
(***************************************************************************)

\* What the session holds once a question is read, before anything is found.
Heard(s, ctx) ==
    [s EXCEPT !.place = ctx.place, !.topic = ctx.topic, !.subject = ctx.subject,
              !.person = ctx.person, !.entities = ctx.entities,
              !.people = ctx.people, !.event = ctx.event, !.period = ctx.period]

\* The search of a question and, when it finds nothing, of the subject and the
\* facet asked for, or of the subjects alone.
Retry(ctx) ==
    LET facet == [Term(ctx.subject) EXCEPT !.cues = {ctx.intent} \ {"overview"}]
    IN  IF ctx.kind = "followup" /\ facet # Blank THEN facet
        ELSE [Blank EXCEPT !.names = SubjectsOf(ctx.search)]
OrRetry(first, retry, search) ==
    IF first = <<>> /\ retry # Blank /\ retry # search
    THEN SubjectAwareSearch(store, store = disk, retry) ELSE first
SearchWithRetry(ctx) ==
    OrRetry(SubjectAwareSearch(store, store = disk, ctx.search), Retry(ctx), ctx.search)

ActiveAmong(ctx) ==
    IF ctx.place \in Range(ctx.search.names) THEN ctx.place ELSE NoName

\* The remembered chunks of the latest turn with evidence, or of all turns about
\* the same place or topic.
Recall(ctx, latest) ==
    Select(PlaceAware(Remembered(Heard(session, ctx), store, ctx.place, ctx.topic, latest),
                      ActiveAmong(ctx)), TopK)

\* A request to reword or to tell more starts from the remembered chunks; the
\* others search, and fall back on remembered ones when they find none.
GatheredWith(q, ctx, remembered) ==
    LET search == CASE ctx.kind = "expand" -> ~DetailSufficient(ctx.question, remembered)
                    [] ctx.kind = "transform" -> remembered = <<>>
                    [] OTHER -> TRUE
        mixed(found) ==
            IF remembered = <<>> THEN found
            ELSE Select(UpTo(remembered, 1) \o found
                        \o SubSeq(remembered, 2, Len(remembered)), TopK)
        completed(chunks) ==
            LET back == /\ chunks = <<>> /\ {"again", "first"} \cap q.cues = {}
                        /\ (ctx.kind # "independent" \/ Has(q, "inside"))
            IN  [chunks |-> IF back THEN Recall(ctx, FALSE) ELSE chunks,
                 recalled |-> remembered # <<>> \/ (back /\ Recall(ctx, FALSE) # <<>>),
                 searched |-> search]
    IN  completed(mixed(
            IF search THEN Select(PlaceAware(SearchWithRetry(ctx), ActiveAmong(ctx)), TopK)
            ELSE <<>>))

Gathered(q, ctx) ==
    GatheredWith(q, ctx,
        IF ctx.kind \in {"transform", "expand"} THEN Recall(ctx, TRUE) ELSE <<>>)

\* A claim that what was found does not support is refused as a whole.
Refused(ctx, chunks) ==
    ctx.kind = "independent" /\ Unsupported(ctx.question, chunks)

\* The facets tried when the one asked for has no fact.
NearbyOrder == <<"overview", "time", "people", "place", "role", "current", "result">>
Nearby(chunks, ctx, intent) ==
    LET packets == [i \in DOMAIN NearbyOrder |->
                       Packet(chunks, ctx.subject, NearbyOrder[i], ctx.question)]
        useful == Pick(packets, {i \in DOMAIN packets :
                      packets[i].intent # intent /\ packets[i].facts # <<>>})
    IN  IF useful = <<>> THEN NoPacket ELSE useful[1]

\* The two subjects of a comparison and, for each and each facet asked for,
\* what a search of its own finds.
Pair(q, ctx) ==
    LET doubt == Has(q, "doubt") /\ Len(ctx.entities) >= 2
        subjects == UpTo(IF doubt THEN ctx.entities ELSE SubjectsOf(ctx.search), 2)
    IN  IF (~Has(q, "compare") /\ ~doubt) \/ Len(subjects) < 2 THEN <<>> ELSE subjects
Side(n, f, text, chunks) == [chunks |-> chunks, packet |-> Packet(chunks, n, f, text)]
Compared(q, ctx, place) ==
    LET asked == Keep(<<"time", "people">>, q.cues)
        facets == IF asked = <<>> THEN <<"overview">> ELSE asked
        pair == Pair(q, ctx)
        text(n, f) == [Term(n) EXCEPT !.cues = {f} \ {"overview"}]
    IN  FlattenSeq([i \in DOMAIN pair |-> [j \in DOMAIN facets |->
            Side(pair[i], facets[j], text(pair[i], facets[j]),
                 Find(store, store = disk, text(pair[i], facets[j]), place))]])

AboutFacet(ctx, f) == [Term(ctx.subject) EXCEPT !.cues = {f}]
FactsOn(ctx, cs, f) == Packet(cs, ctx.subject, f, ctx.question)

\* The chunks and the facts that answer best: of the persons of a numbered event,
\* of what was found, of a place instead of a person, of a search for the role.
OrElse(first, second) == IF first.packet.facts # <<>> THEN first ELSE second
BestOf(plain, active, placed, played) ==
    IF VerifiedPeople(active.packet) # {} THEN active
    ELSE OrElse(plain, OrElse(placed, OrElse(played, plain)))
Best(q, ctx, intent, plain, actors, role) ==
    BestOf([chunks |-> plain, packet |-> FactsOn(ctx, plain, intent), again |-> FALSE],
           [chunks |-> Select(actors, TopK), packet |-> FactsOn(ctx, actors, "people"),
            again |-> FALSE],
           [chunks |-> plain, again |-> FALSE,
            packet |-> IF intent = "people" /\ Has(q, "orplace")
                       THEN FactsOn(ctx, plain, "place") ELSE NoPacket],
           [chunks |-> role, packet |-> FactsOn(ctx, role, "role"), again |-> TRUE])

\* The evidence of a question: its chunks and the facts in them, those of a
\* comparison, and of a facet nearby when there is no fact.
Evidenced(ctx, intent, g, refused, best, compared) ==
    [chunks |-> Dedup(best.chunks \o FlattenSeq([i \in DOMAIN compared |->
                                                     compared[i].chunks])),
     packet |-> best.packet,
     nearby |-> IF best.packet.facts # <<>> THEN NoPacket
                ELSE Nearby(best.chunks, ctx, best.packet.intent),
     compared |-> [i \in DOMAIN compared |-> compared[i].packet],
     intent |-> IF best.packet.facts = <<>> THEN intent ELSE best.packet.intent,
     partial |-> g.searched /\ g.recalled /\ ~refused /\ ~best.again,
     searched |-> g.searched, refused |-> refused,
     verified |-> IF refused THEN VerifiedSubject(ctx.subject, g.chunks) ELSE NoName]

\* A refused claim keeps no chunk.  Persons of a numbered event and a role are
\* searched for once more.
PreparedFrom(q, ctx, g, intent, actors) ==
    LET place == ActiveAmong(ctx)
        refused == Refused(ctx, g.chunks)
        found == IF refused THEN <<>> ELSE g.chunks
        plain == IF actors = <<>> THEN found
                 ELSE Select(PlaceAware(actors \o found, place), TopK)
    IN  Evidenced(ctx, intent, g, refused,
            Best(q, ctx, intent, plain, actors,
                 IF intent = "role" /\ ctx.subject # NoName
                 THEN Find(store, store = disk, AboutFacet(ctx, "role"), place)
                 ELSE <<>>),
            Compared(q, ctx, place))
Actors(ctx, g, intent) ==
    IF intent = "people" /\ ctx.subject \in Numbered /\ g.searched
    THEN SubjectAwareSearch(store, store = disk, AboutFacet(ctx, "people")) ELSE <<>>
PreparedWith(q, ctx, g, intent) == PreparedFrom(q, ctx, g, intent, Actors(ctx, g, intent))

\* A rewording is of what the latest answer was about.
Prepared(q, ctx) ==
    PreparedWith(q, ctx, Gathered(q, ctx),
        IF ctx.kind # "transform" THEN ctx.intent
        ELSE IF session.answered = NoName THEN "overview" ELSE session.answered)

\* The session after the preparation: of a refused claim only a subject some
\* record is about is kept, and the name it gave to anything else is dropped.
ContextOf(ctx, p) ==
    IF p.verified = NoName THEN Heard(session, ctx)
    ELSE [Heard(session, ctx) EXCEPT
              !.subject = p.verified, !.topic = p.verified, !.anchor = p.verified,
              !.person = NoName, !.period = NoName, !.event = NoName]

(***************************************************************************)
(* What is answered                                                        *)
(***************************************************************************)

\* The outcomes of a question once its evidence is cut to the context window.
\* The model tells any clause, true of the subject or not, or none, says that
\* it is not sure, fails, or breaks off (only a stream writes nothing then).
\* What it tells is limited when it is replaced.
Outcomes(ctx, p, chunks, streamed) ==
    LET plain(status, told) == [status |-> status, told |-> told,
                                trusted |-> TRUE, limited |-> TRUE]
        whole(told) == [plain("answer", told) EXCEPT !.limited = FALSE]
        dates == DatesOf(chunks)
        checked(told, f) == IF told = {f} THEN whole(told) ELSE plain("answer", told)
    IN  IF chunks = <<>> THEN {plain("insufficient", {})}
        ELSE IF Len(p.compared) >= 2
        THEN {plain("comparison", UNION {Extractive(k) : k \in Range(p.compared)})}
        ELSE IF p.packet.conflicting THEN {plain("conflicting", {})}
        ELSE IF p.packet.facts = <<>>
        THEN IF p.intent \notin {"people", "role"} /\ p.nearby.facts # <<>>
             THEN {plain("nearby", Extractive(p.nearby))}
             ELSE {plain("related", {})}
        ELSE {checked(Stabilize({f}, dates, p.packet, ctx.question), f) : f \in Clauses}
             \cup {plain("answer", {}), [plain("answer", {}) EXCEPT !.trusted = FALSE]}
             \cup (IF streamed THEN {plain("error", {}), plain("broken", {})}
                   ELSE {whole(Extractive(p.packet))})

\* Whether an answer is called sufficient: its evidence directly answers the
\* question, the detail asked for is in it, none of it is left from earlier,
\* and it is not a single record of a kind that never suffices alone.
Sufficient(q, ctx, p, chunks) ==
    /\ Sufficiency(chunks, Assess(chunks, ctx.subject, p.intent, ctx.question))
           = "sufficient"
    /\ SupportsDetail(q, p.chunks)
    /\ p.partial => ctx.kind = "transform"
    /\ Len(chunks) = 1 => chunks[1].alone

\* Fault: the persons of the records become referents.
RecentPeopleOfRecords(chunks, existing) ==
    UpTo(existing \o SetToSeq(UNION {Mentions(c) \cap People : c \in Range(chunks)}), 4)

\* _recent_people: no record makes a referent.
RecentPeople(chunks, existing) == UpTo(existing, 4)

\* add_turn, add_evidence_turn and update_context after an answer.  A stream
\* that compares or fails leaves the context as the question left it, one that
\* finds no fact keeps the chunks but no anchor, one broken off keeps nothing.
Remember(s, q, ctx, p, chunks, a, streamed) ==
    LET turn == [user |-> q, trusted |-> a.trusted]
        trace == [user |-> q, place |-> ctx.place, topic |-> ctx.topic,
                  chunks |-> [i \in DOMAIN chunks |-> chunks[i].id]]
        titles == [i \in DOMAIN chunks |-> chunks[i].title]
        kept == /\ chunks # <<>> /\ p.searched
                /\ streamed => a.status \in {"answer", "related", "nearby", "conflicting"}
        anchored == /\ chunks # <<>>
                    /\ streamed => a.status = "answer"
        heard == IF a.status = "broken" THEN s ELSE [s EXCEPT !.turns = <<turn>>]
        traced == IF kept THEN [heard EXCEPT !.evidence = Append(@, trace)] ELSE heard
    IN  IF ~anchored THEN traced
        ELSE [traced EXCEPT
                 !.subject = ctx.subject, !.person = ctx.person, !.people = RecentPeople(chunks, ctx.people),
                 !.anchor = ctx.subject, !.answered = ctx.intent,
                 !.entities = IF streamed THEN @
                              ELSE UpTo(Dedup(ctx.entities \o titles), 8)]

(***************************************************************************)
(* The requests                                                            *)
(***************************************************************************)

Init ==
    /\ store = Ids /\ disk = Ids
    /\ session = EmptySession /\ reply = NoReply
    /\ said = {} /\ doubtful = {} /\ turns = 0

\* What is cited: as much of the evidence as the context window has room for.
Fitting(p) == UpTo(p.chunks, Kept(p.chunks, session.turns # <<>>))

Answer(q, ctx, p, chunks) ==
    [NoReply EXCEPT
        !.kind = ctx.kind, !.subject = ctx.subject, !.intent = p.intent,
        !.asked = ctx.intent,
        !.own = Range(q.names), !.search = Range(ctx.search.names),
        !.cited = {c.id : c \in Range(chunks)},
        !.checked = {f.id : f \in Range(p.packet.facts)},
        !.trimmed = chunks # p.chunks]

\* Names brought up where nothing was found.
Suspect(q, p) ==
    IF p.chunks = <<>> THEN doubtful \cup (Range(q.names) \ (said \cup {p.verified}))
    ELSE doubtful \ Range(q.names)

\* What may come of a question: the answer, the session and the doubtful names.
\* A question that leaves no room in the context window is refused after the
\* session took it in.
ResultsOf(q, streamed, ctx, p, chunks, answer, sent, sufficient) ==
    IF Has(q, "long")
    THEN {[reply |-> NoReply, session |-> ContextOf(ctx, p), doubtful |-> Suspect(q, p)]}
    ELSE {[doubtful |-> Suspect(q, p),
           reply |-> [answer EXCEPT
                         !.status = a.status, !.told = a.told,
                         !.sent = IF a.status = "answer" THEN sent ELSE {},
                         !.sufficient = /\ a.status = "answer" /\ sufficient
                                        /\ ~streamed /\ ~a.limited],
           session |-> Remember(ContextOf(ctx, p), q, ctx, p, chunks, a, streamed)] :
              a \in Outcomes(ctx, p, chunks, streamed)}
ResultsFitting(q, streamed, ctx, p, chunks) ==
    ResultsOf(q, streamed, ctx, p, chunks, Answer(q, ctx, p, chunks),
              RemotePrompt(chunks, ctx.subject, ctx.intent, ctx.question),
              Sufficient(q, ctx, p, chunks))
ResultsPrepared(q, streamed, ctx, p) == ResultsFitting(q, streamed, ctx, p, Fitting(p))
ResultsRead(q, streamed, ctx) == ResultsPrepared(q, streamed, ctx, Prepared(q, ctx))
Results(q, here, streamed) == ResultsRead(q, streamed, Resolve(q, session, here))

Request(q, here, streamed) ==
    /\ reply = NoReply
    /\ turns' = turns + 1
    /\ said' = (said \cup Range(q.names) \cup {here} \cup Range(PlacesOf(q, session)))
               \ {NoName}
    /\ \E r \in Results(q, here, streamed) :
           reply' = r.reply /\ session' = r.session /\ doubtful' = r.doubtful
    /\ UNCHANGED <<store, disk>>

Now == IF turns < Len(Asked) THEN Asked[turns + 1] ELSE {}

\* ask and stream; only ask knows where the client is.
Ask == \E a \in Now : Request(a.q, a.here, FALSE)
Stream == \E a \in Now : a.q \in Streamed /\ a.here = NoName /\ Request(a.q, NoName, TRUE)

\* An answer that needs no record (a greeting, a service notice): only the turn
\* is kept.  Some notices use the wording the resolver distrusts.
Talk(trusted) ==
    /\ turns < Len(Asked) /\ reply = NoReply
    /\ session' = [session EXCEPT !.turns = <<[user |-> Blank, trusted |-> trusted]>>]
    /\ turns' = turns + 1
    /\ UNCHANGED <<store, disk, reply, said, doubtful>>

\* The client has read the answer.
Read ==
    /\ reply # NoReply
    /\ reply' = NoReply
    /\ UNCHANGED <<store, disk, session, said, doubtful, turns>>

\* A record leaves the corpus; the server keeps what it loaded.
Withdraw(id) ==
    /\ id \in disk /\ reply = NoReply
    /\ disk' = disk \ {id}
    /\ UNCHANGED <<store, session, reply, said, doubtful, turns>>

\* The index is rebuilt and the server restarted with its sessions.
Restart ==
    /\ store # disk /\ reply = NoReply
    /\ store' = disk
    /\ UNCHANGED <<disk, session, reply, said, doubtful, turns>>

Next ==
    \/ Ask
    \/ Stream
    \/ \E trusted \in BOOLEAN : Talk(trusted)
    \/ Read
    \/ \E id \in Withdrawable : Withdraw(id)
    \/ Restart

Spec == Init /\ [][Next]_vars

-----------------------------------------------------------------------------
(***************************************************************************)
(* Properties                                                              *)
(***************************************************************************)

\* The names and dates of all that is told stand in the records the answer
\* cites, whatever the model made up, as long as the context window had room
\* for all of them (the facts are not gathered again when it had not).
CitedFacts ==
    LET cited == {Record(id) : id \in reply.cited}
    IN  ~reply.trimmed =>
            \A f \in reply.told :
                /\ Clause(f).names \subseteq
                       {reply.subject} \cup UNION {Mentions(c) : c \in cited}
                /\ Clause(f).dates \subseteq
                       UNION {UNION {c.clauses[i].dates : i \in DOMAIN c.clauses} :
                                  c \in cited}

\* What is told of a facility is never about the one easily taken for it,
\* unless a comparison or the role of something was asked for.
NoRivalFacts ==
    reply.status # "comparison" /\ reply.subject \in Names /\ reply.intent # "role" =>
        \A f \in reply.told : Clause(f).names \cap Rival[reply.subject] = {}

\* Whatever a later reference may stand for, the client has brought it up:
\* no answer of the model and no record makes a referent of its own.
ReferentsFromUsers ==
    {session.place, session.topic, session.subject, session.person,
     session.anchor, session.event} \cup Range(session.people)
        \subseteq said \cup {NoName}

\* A generated answer is checked against facts of records that were sent, as
\* long as it answers what was asked (a rewording is of the facet the latest
\* answer had, and a place may be told where persons were asked for) and
\* nothing was trimmed.
SentIsChecked ==
    reply.status = "answer" /\ reply.intent = reply.asked /\ ~reply.trimmed =>
        reply.checked \subseteq reply.sent

\* An answer called sufficient cites a record with a clause that names the
\* subject and speaks of the facet asked for, also after records were trimmed.
SufficientIsDirect ==
    reply.sufficient =>
        \E id \in reply.cited :
            \E i \in DOMAIN Record(id).clauses :
                LET cl == Record(id).clauses[i]
                IN  /\ reply.subject \in cl.names
                    /\ IF reply.intent = "transform" THEN "overview" \in cl.says
                       ELSE reply.intent \in cl.says

\* A rewording stays with the records of the latest answer that found some (the
\* first TopK of them), as long as one of those is still loaded: it cites no other
\* record.  Only where it also compares, or a role was asked for and they say
\* nothing of it, the code searches again.
TransformKeepsEvidence ==
    [][LET latest == IF session.evidence = <<>> THEN {}
                     ELSE Range(UpTo(Last(session.evidence).chunks, TopK))
       IN  (/\ reply'.kind = "transform"
            /\ reply'.intent # "role" /\ reply'.status # "comparison"
            /\ latest \cap store # {})
               => reply'.cited \subseteq latest]_vars

\* tests/test_multiturn_conversation.py:171: a topic brought up only in a claim
\* nothing was found for is not carried into the search of a later question.
NotInherited == (reply.search \ reply.own) \cap doubtful = {}
=============================================================================

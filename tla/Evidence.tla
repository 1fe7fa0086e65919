------------------------------- MODULE Evidence -------------------------------
(***************************************************************************)
(* What is found for a question and what may be told of it: the search     *)
(* (retrieval/service.py with the hashing encoder), the selection of the   *)
(* orchestrator, the fact packet (chat/remote_safe.py) and the checks a    *)
(* generated answer must pass (chat/orchestrator.py).  Nothing here        *)
(* changes state.                                                          *)
(*                                                                         *)
(* A record is a chunk of the corpus: its document, the name its title     *)
(* gives, and its clauses.  A clause has the names it holds, the one it    *)
(* opens with (lead), the facets it speaks of, the persons it verifies (a  *)
(* name with its hanja, or after a title) and the dates in it.  A name     *)
(* stands for all the names of a facility (_subject_aliases).  cost is     *)
(* what a record takes of the context window, alone that it may suffice    *)
(* without another, conflict that its metadata reports a dispute.          *)
(*                                                                         *)
(* Scores and their thresholds are the order of Records, the sentences a   *)
(* clause is rejected for are left out of it, and data marked as a fixture *)
(* is not here: direct evidence is always enforced.                        *)
(***************************************************************************)
EXTENDS Conversation, FiniteSetsExt

CONSTANTS
    Records,        \* the corpus, in the order of the fused search scores
    Future,         \* the periods that are years to come
    PerDocument,    \* max_chunks_per_document
    TopK,           \* top_k of a request, final_top_k of the search
    Room,           \* what the context window leaves for the latest exchange
                    \* and the evidence
    TurnCost,       \* what an exchange takes of it
    MaxItems        \* excerpts a remote prompt has room for

\* A record's id is its place.
ASSUME RecordsAssumption ==
    /\ Records \in Seq(Range(Records))
    /\ \A i \in DOMAIN Records :
           LET c == Records[i]
           IN  /\ c.id = i /\ c.title \in Names /\ c.cost \in Nat
               /\ c.clauses \in Seq(Range(c.clauses))
               /\ \A j \in DOMAIN c.clauses :
                      /\ c.clauses[j].names \subseteq Names
                      /\ c.clauses[j].dates \subseteq Periods

ASSUME BoundsAssumption ==
    {PerDocument, TopK} \subseteq Nat \ {0} /\ {Room, TurnCost, MaxItems} \subseteq Nat

Ids == DOMAIN Records
Record(id) == Records[id]
Clause(f) == Record(f.id).clauses[f.n]
Mentions(c) == {c.title} \cup UNION {c.clauses[i].names : i \in DOMAIN c.clauses}
SaysSome(c, facets) == \E i \in DOMAIN c.clauses : c.clauses[i].says \cap facets # {}
DatesOf(cs) == UNION {UNION {c.clauses[i].dates : i \in DOMAIN c.clauses} : c \in Range(cs)}

(***************************************************************************)
(* Search and selection                                                    *)
(***************************************************************************)

\* _select: each chunk once, a few of a document, top_k in all.
Select(cs, k) ==
    LET once == Dedup(cs)
        rank(i) == Cardinality({j \in 1 .. i : once[j].doc = once[i].doc})
    IN  UpTo(Pick(once, {i \in DOMAIN once : rank(i) <= PerDocument}), k)

\* _requested_detail_matches
Details(t, c) ==
    Cardinality({f \in t.cues \cap {"time", "cause", "people", "result", "role"} :
                     SaysSome(c, {f})})

\* _hashing_result_order: the details asked for, then where the subject stands
\* (title, opening, anywhere), then the score.
SubjectStrength(n, c) ==
    IF c.title = n THEN 3
    ELSE IF n = c.clauses[1].lead THEN 2
    ELSE IF n \in Mentions(c) THEN 1 ELSE 0
Strength(subjects, c) == Max({SubjectStrength(n, c) : n \in subjects})
Order(t, subjects, c) ==
    100 * Details(t, c) + 10 * Strength(subjects, c) + Cardinality(subjects \cap {c.title})

\* _hashing_coverage: how many of the subjects the results must mention.
Covered(subjects, cs) ==
    LET found == {n \in subjects : \E c \in Range(cs) : n \in Mentions(c)}
        size == Cardinality(subjects)
    IN  Cardinality(found) >= IF size <= 2 THEN 1 ELSE size \div 2 + 1

\* search: nothing unless the loaded index is the one on disk (fresh).  The
\* chunks that mention a subject; for one subject and no detail, those about
\* it; nothing more for what the question calls fictitious.
Agreeing(store, subjects) ==
    Pick(Records, {id \in Ids \cap store : Mentions(Record(id)) \cap subjects # {}})
AboutThem(t, subjects, agreeing) ==
    LET titled == Pick(agreeing, {i \in DOMAIN agreeing : agreeing[i].title \in subjects})
        plain == t.cues \cap {"time", "cause", "role", "people", "place", "result"} = {}
    IN  IF titled # <<>> /\ Cardinality(subjects) = 1 /\ plain THEN titled
        ELSE IF Has(t, "fiction") THEN <<>> ELSE agreeing
BestOrdered(t, subjects, cs) ==
    HeaviestFirst(cs, [i \in DOMAIN cs |-> Order(t, subjects, cs[i])])
IfCovered(subjects, cs) == IF Covered(subjects, cs) THEN cs ELSE <<>>
Search(store, fresh, t) ==
    LET subjects == Range(SubjectsOf(t))
        kept == AboutThem(t, subjects, Agreeing(store, subjects))
    IN  IF ~fresh \/ subjects = {} THEN <<>>
        ELSE IfCovered(subjects, Select(BestOrdered(t, subjects, kept), TopK))

\* _subject_aware_search: the best result of each subject first.
BestFirst(batches) ==
    Select([i \in DOMAIN batches |-> batches[i][1]]
           \o FlattenSeq([i \in DOMAIN batches |-> Tail(batches[i])]), TopK)

Nonempty(batches) == Pick(batches, {i \in DOMAIN batches : batches[i] # <<>>})
SubjectAwareSearch(store, fresh, t) ==
    LET subjects == SubjectsOf(t)
    IN  IF t.cues \cap {"joint", "compare", "related", "both"} # {}
           /\ Len(subjects) \in 2 .. 3
        THEN BestFirst(Nonempty([i \in DOMAIN subjects |->
                                     Search(store, fresh, Term(subjects[i]))]))
        ELSE Search(store, fresh, t)

\* _place_aware_results: those that mention the place, unless none does.
PlaceAware(cs, place) ==
    LET exact == Pick(cs, {i \in DOMAIN cs : place \in Mentions(cs[i])})
    IN  IF place = NoName \/ exact = <<>> THEN cs ELSE exact

Find(store, fresh, t, place) ==
    Select(PlaceAware(SubjectAwareSearch(store, fresh, t), place), TopK)

\* _supports_requested_detail: an interior or a colour must be in the text.
SupportsDetail(q, cs) ==
    Has(q, "inside") => \E c \in Range(cs) : SaysSome(c, {"inside"})

\* Fault: a rewording takes the latest records about the same place or topic.
RememberedByTopic(s, store, place, topic, latest) ==
    LET i == SelectLastInSeq(s.evidence, LAMBDA t :
                 \/ place # NoName /\ t.place = place
                 \/ topic # NoName /\ t.topic = topic)
        ids == IF i = 0 THEN <<>> ELSE UpTo(s.evidence[i].chunks, TopK)
        loaded == Keep(ids, store)
    IN  [j \in DOMAIN loaded |-> Record(loaded[j])]

\* _remembered_evidence: the chunks of the latest turn with evidence, or of the
\* latest about the same place or topic, that are still loaded.
Remembered(s, store, place, topic, latest) ==
    LET i == SelectLastInSeq(s.evidence, LAMBDA t :
                 \/ latest
                 \/ place # NoName /\ t.place = place
                 \/ topic # NoName /\ t.topic = topic
                 \/ place = NoName /\ topic = NoName)
        ids == IF i = 0 THEN <<>> ELSE UpTo(s.evidence[i].chunks, TopK)
        loaded == Keep(ids, store)
    IN  [j \in DOMAIN loaded |-> Record(loaded[j])]

\* _unsupported_query_constraints: a claim is refused as a whole when one of
\* its names, numbers or years is not in what was found.
Unsupported(t, cs) ==
    LET years == t.cues \cap Periods
    IN  /\ cs # <<>>
        /\ \/ Has(t, "fiction")
           \/ /\ Has(t, "premise")
              /\ \/ ~(years \subseteq DatesOf(cs))
                 \/ \E n \in Range(t.names) :
                        \A c \in Range(cs) : n \notin Mentions(c)
           \/ years \cap Future # {} /\ years \cap Future \cap DatesOf(cs) = {}

\* _verified_retrieval_subject
VerifiedSubject(subject, cs) ==
    IF \E c \in Range(cs) : c.title = subject THEN subject ELSE NoName

\* _detail_evidence_sufficient: enough text, and every aspect asked for in it.
Aspects == {"cause", "result", "people", "time"}
DetailSufficient(t, cs) ==
    LET requested == t.cues \cap Aspects
        supported == {f \in Aspects : \E c \in Range(cs) : SaysSome(c, {f})}
        size == FoldLeft(LAMBDA n, c : n + Len(c.clauses), 0, cs)
    IN  /\ cs # <<>>
        /\ IF requested # {}
           THEN requested \subseteq supported /\ size >= 2
           ELSE size >= 3 /\ (Cardinality(supported) >= 3 \/ Len(cs) >= 2)

(***************************************************************************)
(* The facts found about a subject                                         *)
(***************************************************************************)

\* Fault: the other facility is told from the wording only.
CompetesByWording(cl, subject) == cl.lead # subject /\ "contrast" \in cl.says

\* _competitor_matches: the clause is about a facility easily taken for the
\* subject, or opens a comparison with something else.
Competes(cl, subject) ==
    IF subject \in Names /\ Rival[subject] # {}
    THEN cl.names \cap Rival[subject] # {}
    ELSE /\ cl.lead # subject
         /\ \/ "contrast" \in cl.says
            \/ cl.lead \in Events /\ subject \notin cl.names

\* _subject_scoped_chunks: without the chunks about an easily taken other,
\* as far as the best chunk allows.
Scoped(cs, subject) ==
    LET confusable == {n \in Names : Rival[n] # {}}
        others(c) == (Mentions(c) \cap confusable) \ {subject}
        clean == Pick(cs, {i \in DOMAIN cs :
                     /\ subject \in Mentions(cs[i])
                     /\ Mentions(cs[i]) \cap Rival[subject] = {}})
    IN  IF cs = <<>> \/ subject = NoName THEN cs
        ELSE IF subject \in confusable /\ clean # <<>> THEN clean
        ELSE IF others(cs[1]) # {} THEN cs
        ELSE Pick(cs, {i \in DOMAIN cs : others(cs[i]) = {}})

\* _verified_hanja_people
PersonsIn(cl, subject) == cl.who \ {subject}

\* _intent_matches: a question for persons needs one identified.
IntentMatches(cl, subject, intent, question) ==
    CASE intent \in {"overview", "transform"} -> "overview" \in cl.says
      [] intent = "people" /\ Has(question, "people") ->
             "people" \in cl.says /\ PersonsIn(cl, subject) # {}
      [] OTHER -> intent \in cl.says

Near(c, i, subject) ==
    \E j \in {i - 1, i, i + 1} \cap DOMAIN c.clauses :
        subject \in c.clauses[j].names

\* assess_direct_evidence
Assess(cs, subject, intent, question) ==
    LET all == {p \in Range(Scoped(cs, subject)) \X (1 .. Max({0} \cup
                    {Len(c.clauses) : c \in Range(cs)})) : p[2] \in DOMAIN p[1].clauses}
        about(p) == subject \in p[1].clauses[p[2]].names
        matches(p) == /\ ~Competes(p[1].clauses[p[2]], subject)
                      /\ IntentMatches(p[1].clauses[p[2]], subject, intent, question)
    IN  IF subject = NoName THEN "none"
        ELSE IF \E p \in all : about(p) /\ matches(p) THEN "direct"
        ELSE IF \E p \in all : Near(p[1], p[2], subject) /\ matches(p) THEN "partial"
        ELSE IF \E p \in all : about(p) THEN "related_only"
        ELSE "none"

\* A clause of a chunk is a fact about the subject when it names the subject,
\* stands next to one that does and gives a person or a place, or the title
\* names the subject and the clause does not open with something else.
TitleScoped(c, cl, subject, intent) ==
    /\ c.title = subject
    /\ \/ intent = "people" /\ PersonsIn(cl, subject) # {}
       \/ intent \in {"role", "place"} /\ intent \in cl.says
IsFact(c, i, subject, intent, question) ==
    LET cl == c.clauses[i]
        own == subject \in cl.names
        localPerson == /\ intent = "people" /\ Near(c, i, subject)
                       /\ PersonsIn(cl, subject) # {}
        localPlace == intent = "place" /\ Near(c, i, subject) /\ "place" \in cl.says
        scoped == /\ ~own /\ ~localPerson /\ ~localPlace
                  /\ TitleScoped(c, cl, subject, intent)
    IN  /\ \/ own \/ localPerson \/ localPlace \/ scoped
           \/ c.title = subject /\ intent \in {"overview", "time", "current"}
        /\ own \/ scoped \/ localPlace \/ cl.lead = NoName
        /\ (intent = "role" /\ scoped) \/ ~Competes(cl, subject)
        /\ IntentMatches(cl, subject, intent, question)
        /\ "scrap" \notin cl.says

\* build_grounded_fact_packet: the two best facts; those that identify persons
\* and those that open with the subject first.  Two dates conflict.
Weight(f, subject, intent) ==
    (IF intent = "people" THEN 2 * Cardinality(PersonsIn(Clause(f), subject)) ELSE 0)
    + IF Clause(f).lead = subject THEN 1 ELSE 0
Ranked(facts, subject, intent) ==
    HeaviestFirst(facts, [i \in DOMAIN facts |-> Weight(facts[i], subject, intent)])
FactsIn(c, subject, intent, question) ==
    Pick([i \in DOMAIN c.clauses |-> [id |-> c.id, n |-> i]],
         {i \in DOMAIN c.clauses : IsFact(c, i, subject, intent, question)})
PacketOf(best, subject, intent) ==
    [subject |-> subject, intent |-> intent, facts |-> best,
     conflicting |-> /\ intent = "time"
                     /\ Cardinality(UNION {Clause(f).dates : f \in Range(best)}) > 1]
PacketOfScoped(cs, subject, intent, question) ==
    PacketOf(UpTo(Ranked(FlattenSeq([k \in DOMAIN cs |->
                             FactsIn(cs[k], subject, intent, question)]),
                         subject, intent), 2),
             subject, intent)
Packet(cs, subject, intent, question) ==
    PacketOfScoped(Scoped(cs, subject), subject, intent, question)
NoPacket == [subject |-> NoName, intent |-> "overview", facts |-> <<>>,
             conflicting |-> FALSE]

\* The clause after a fact goes with it unless it is about a competitor.
Supporting(p) ==
    {f \in {[g EXCEPT !.n = @ + 1] : g \in Range(p.facts)} :
        /\ f.n \in DOMAIN Record(f.id).clauses
        /\ ~Competes(Clause(f), p.subject)}

(***************************************************************************)
(* What an answer tells                                                    *)
(***************************************************************************)

\* verified_person_facts
VerifiedPeople(p) == UNION {PersonsIn(Clause(f), p.subject) : f \in Range(p.facts)}

\* _extractive_fact_answer: the facts as they stand, but for those about a
\* competitor; a list of persons comes from all the facts.
Extractive(p) ==
    IF p.intent = "people" /\ VerifiedPeople(p) # {}
    THEN {f \in Range(p.facts) : PersonsIn(Clause(f), p.subject) # {}}
    ELSE {f \in Range(p.facts) : ~Competes(Clause(f), p.subject)}

\* Fault: names are not compared.
MatchesButNames(f, p, question) ==
    LET texts == {Clause(g) : g \in Range(p.facts) \cup Supporting(p)}
        cl == Clause(f)
    IN  /\ cl.dates \subseteq UNION {t.dates : t \in texts}
        /\ cl.says \cap Facets \subseteq UNION {t.says : t \in texts}

\* _generation_matches_fact_packet: what is told holds no name, date or
\* relation that the facts and what goes with them do not have.
Matches(f, p, question) ==
    LET texts == {Clause(g) : g \in Range(p.facts) \cup Supporting(p)}
        cl == Clause(f)
    IN  /\ cl.names \ {p.subject} \subseteq UNION {t.names : t \in texts}
        /\ cl.dates \subseteq UNION {t.dates : t \in texts}
        /\ cl.says \cap Facets \subseteq UNION {t.says : t \in texts}
        /\ (p.intent = "people" /\ Has(question, "people") /\ VerifiedPeople(p) # {})
               => cl.who \cap VerifiedPeople(p) # {}

\* _stabilize_grounded_answer: what is told of a generated answer.  Persons
\* asked for are listed from the facts; dates the evidence lacks are taken
\* out; what the facts do not bear is replaced by them.  An answer that tells
\* nothing is replaced by a limitation.
Stabilize(told, dates, p, question) ==
    LET dated == {f \in told : Clause(f).dates \subseteq dates}
    IN  IF p.intent = "people" /\ Has(question, "people") /\ VerifiedPeople(p) # {}
        THEN Extractive(p)
        ELSE IF dated = {} THEN IF told # {} THEN Extractive(p) ELSE {}
        ELSE IF p.facts # <<>> /\ \E f \in dated : ~Matches(f, p, question)
        THEN Extractive(p)
        ELSE dated

\* ContextBudgetManager.fit: how many items of evidence fit after the latest
\* exchange; an item too large is passed over and a later one may still fit.
Kept(cs, said) ==
    LET start == IF said /\ TurnCost <= Room THEN TurnCost ELSE 0
        fit[i \in 0 .. Len(cs)] ==
            IF i = 0 THEN [used |-> start, n |-> 0]
            ELSE IF fit[i - 1].used + cs[i].cost <= Room
            THEN [used |-> fit[i - 1].used + cs[i].cost, n |-> fit[i - 1].n + 1]
            ELSE fit[i - 1]
    IN  fit[Len(cs)].n

\* Fault: excerpts are sent, whatever the facts are.
RemotePromptOfExcerpts(cs, subject, intent, question) ==
    {c.id : c \in Range(UpTo(Scoped(cs, subject), MaxItems))}

\* serialize_remote_prompt: the records whose facts are sent or, when there is
\* no fact, those whose excerpts are, as long as there is room.
RemotePrompt(cs, subject, intent, question) ==
    LET scoped == Scoped(cs, subject)
        strong == {"direct", "partial"}
        useful == IF Assess(scoped, subject, intent, question) \in strong
                  THEN Pick(scoped, {i \in DOMAIN scoped :
                           Assess(<<scoped[i]>>, subject, intent, question) \in strong})
                  ELSE scoped
        facts == Packet(scoped, subject, intent, question).facts
    IN  IF facts # <<>> THEN {f.id : f \in Range(facts)}
        ELSE {c.id : c \in Range(UpTo(useful, MaxItems))}

\* Fault: partial support is taken for sufficient.
SufficiencyOfPartial(cs, support) ==
    IF cs = <<>> THEN "insufficient"
    ELSE IF \E c \in Range(cs) : c.conflict THEN "conflicting"
    ELSE IF support \in {"related_only", "none"} THEN "partial"
    ELSE "sufficient"

\* _source_sufficiency
Sufficiency(cs, support) ==
    IF cs = <<>> THEN "insufficient"
    ELSE IF \E c \in Range(cs) : c.conflict THEN "conflicting"
    ELSE IF support \in {"partial", "related_only", "none"} THEN "partial"
    ELSE "sufficient"
===============================================================================

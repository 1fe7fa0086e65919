----------------------------- MODULE Conversation -----------------------------
(***************************************************************************)
(* How a question of a conversation is read: what ConversationContext-     *)
(* Resolver (chat/context_resolver.py) makes of the text of a question and *)
(* of the context its session keeps.  Nothing here changes state.          *)
(*                                                                         *)
(* A text is what the resolver and the search look at: the names it holds, *)
(* in order, and its cues, the turns of phrase and the facets the regular  *)
(* expressions recognise, with the periods it names.  Joining texts joins  *)
(* both.  A question is a text.                                            *)
(***************************************************************************)
EXTENDS Lists

CONSTANTS
    Names,      \* what questions and records may name; no name holds another
    Places,     \* the names EXPLICIT_PLACE recognises
    People,     \* the names of persons
    Events,     \* the names EVENT recognises
    Short,      \* the names of two to four letters
    Noise,      \* words taken for a subject where nothing else is named
    Periods,    \* the years and eras PERIOD recognises
    Rival       \* [Names -> SUBSET Names]: facilities easily taken for another

NoName == ""

ASSUME NamesAssumption ==
    /\ NoName \notin Names
    /\ Places \cup People \cup Events \cup Short \cup Noise \subseteq Names
    /\ Places \cap People = {}
    /\ Rival \in [Names -> SUBSET Names]
    /\ \A n \in Names : n \notin Rival[n]
    /\ NoName \notin Periods

\* The facets of _intent in the order they are tried.
FacetOrder == <<"current", "time", "cause", "role", "people", "place", "result">>
Facets == Range(FacetOrder) \cup {"overview"}

\* The turns of phrase the regular expressions tell apart.
Phrases ==
    {"lead",        \* begins with a reference or a question word
     "then",        \* begins with "then ..."
     "bare",        \* nothing but a name
     "followup",    \* FOLLOWUP
     "elliptic",    \* ELLIPTICAL_FOLLOWUP
     "transform",   \* TRANSFORMATION: say it again, simpler
     "expand",      \* DETAIL_EXPANSION: tell me more
     "correct",     \* CORRECTION: no, I mean ...
     "there",       \* PLACE_REFERENCE
     "them",        \* PERSON_REFERENCE
     "related",     \* asks for the persons related to something
     "joint",       \* joins its names by "and", "with", "at"
     "orplace",     \* for persons or a place
     "compare",     \* asks for a difference
     "sibling",     \* names one of two numbered halls by its number only
     "both",        \* the two subjects of an earlier question
     "doubt",       \* what is not certain about them
     "relation",    \* why something is at a place
     "again",       \* back to ...
     "first",       \* back to the first topic
     "premise",     \* asserts something and asks whether it is so
     "fiction",     \* calls something fictitious or absent from the records
     "inside",      \* asks for an interior or a colour
     "long"}        \* leaves no room in the context window

Texts == [names : Seq(Names), cues : SUBSET (Facets \cup Phrases \cup Periods)]
Blank == [names |-> <<>>, cues |-> {}]
Term(n) == [Blank EXCEPT !.names = IF n = NoName THEN <<>> ELSE <<n>>]
Era(p) == [Blank EXCEPT !.cues = {p} \ {NoName}]
Has(t, cue) == cue \in t.cues

\* Joining texts; only the first one can make the whole begin with a reference.
Join(t, u) ==
    IF t = Blank THEN u
    ELSE [names |-> t.names \o u.names,
          cues |-> t.cues \cup (u.cues \ {"lead"})]
Within(t, u) ==
    IF t.names = <<>> THEN t.cues \subseteq u.cues
    ELSE Range(t.names) \subseteq Range(u.names)
Joined(ts, t) ==
    LET last[n \in 0 .. Len(ts)] ==
            IF n = 0 THEN t ELSE Join(Reverse(ts)[n], last[n - 1])
    IN  last[Len(ts)]
Filled(ts) == Pick(ts, {i \in DOMAIN ts : ts[i] # Blank})

Clean(s) == Pick(s, {i \in DOMAIN s : s[i] # NoName})
FirstOf(s) == IF Clean(s) = <<>> THEN NoName ELSE Clean(s)[1]

\* ChatSession as far as the dialogue uses it: the latest turn and whether its
\* answer is free of the wording the resolver distrusts, the turns that
\* retrieved something, and the conversation context.
EmptySession ==
    [turns |-> <<>>, evidence |-> <<>>, place |-> NoName, topic |-> NoName,
     subject |-> NoName, person |-> NoName, anchor |-> NoName,
     entities |-> <<>>, people |-> <<>>, event |-> NoName, period |-> NoName,
     answered |-> NoName]

(***************************************************************************)
(* The names of a question                                                 *)
(***************************************************************************)

\* explicit_subject_words: the subjects a text names, none when it begins
\* with a reference or a question word.
SubjectsOf(t) ==
    LET real == Keep(t.names, Names \ Noise)
    IN  IF Has(t, "lead") THEN <<>>
        ELSE Dedup(IF real = <<>> THEN t.names ELSE real)

\* _intent, but for a request to reword the latest answer.
Intent(q) ==
    LET asked == Keep(FacetOrder, q.cues)
    IN  IF asked = <<>> THEN "overview" ELSE asked[1]

\* The places of a question; a comparison with "the other hall" brings in the
\* active subject and its sibling.
PlacesOf(q, s) ==
    LET named == Keep(q.names, Places)
        sibling == IF {"compare", "sibling"} \subseteq q.cues
                      /\ s.subject \in Names
                   THEN Rival[s.subject] ELSE {}
    IN  IF sibling = {} THEN Dedup(named)
        ELSE Dedup(<<s.subject, CHOOSE n \in sibling : TRUE>> \o named)

\* The persons of a question.  None when it asks for the persons related to a
\* subject or refers to a person; a bare short name counts, whatever it names,
\* after "then" or once the conversation has named people.  In the end the
\* only short subject of a question about people or deeds is taken for one.
PeopleOf(q, s) ==
    LET named == IF {"related", "them"} \cap q.cues # {} THEN <<>>
                 ELSE IF ~Has(q, "bare")
                 THEN Dedup(Keep(q.names, People))
                 ELSE IF Has(q, "then") \/ s.people # <<>>
                 THEN Dedup(Keep(q.names, Short))
                 ELSE <<>>
        only == SubjectsOf(q)
    IN  IF /\ named = <<>>
           /\ ~Has(q, "there") /\ ~Has(q, "transform")
           /\ {"people", "role"} \cap q.cues # {}
           /\ Len(only) = 1 /\ only[1] \in Short
        THEN only
        ELSE named

\* _referenced_subjects: the two subjects of the latest question that had two.
ReferencedSubjects(q, s) ==
    LET i == SelectLastInSeq(s.evidence,
                             LAMBDA t : Len(SubjectsOf(t.user)) >= 2)
    IN  IF {"both", "doubt"} \cap q.cues # {} /\ i # 0
        THEN UpTo(SubjectsOf(s.evidence[i].user), 2) ELSE <<>>

(***************************************************************************)
(* What the context of the session contributes                             *)
(***************************************************************************)

\* _last_turn_context_is_trusted
Trusted(s) == s.turns # <<>> /\ s.turns[1].trusted

\* _validated_topic, _validated_place: kept when a turn with evidence had it
\* or the latest answer is trusted.
ValidTopic(s) ==
    IF \/ \E i \in DOMAIN s.evidence : s.evidence[i].topic = s.topic
       \/ Trusted(s)
    THEN s.topic ELSE NoName
ValidPlace(s) ==
    IF \/ \E i \in DOMAIN s.evidence : s.evidence[i].place = s.place
       \/ Trusted(s)
    THEN s.place ELSE NoName

\* _return_target: the latest topic, place or subject of a turn with evidence
\* the question names, or else the name it says to return to.
ReturnTarget(q, s) ==
    LET known == FlattenSeq([i \in 1 .. Len(s.evidence) |->
                     LET t == Reverse(s.evidence)[i]
                     IN  <<t.topic, t.place>> \o SubjectsOf(t.user)])
        named == Keep(known, Range(q.names))
    IN  IF Has(q, "again") THEN FirstOf(named \o q.names) ELSE NoName

\* _validated_evidence_user: the latest question with evidence about the same
\* place or topic, preferring one that names a subject.
EvidenceUser(s, place, topic) ==
    LET same(t) == \/ place # NoName /\ t.place = place
                   \/ topic # NoName /\ t.topic = topic
        subjects == SelectLastInSeq(s.evidence, LAMBDA t :
                        same(t) /\ SubjectsOf(t.user) # <<>>)
        any == SelectLastInSeq(s.evidence, same)
    IN  IF subjects # 0 THEN s.evidence[subjects].user
        ELSE IF any # 0 THEN s.evidence[any].user
        ELSE Blank

\* _referenced_person: the active person, a topic that is a person, or the
\* only person the conversation has named.
ReferencedPerson(s) ==
    IF s.person # NoName THEN s.person
    ELSE IF s.topic \in Range(s.people) THEN s.topic
    ELSE IF Len(s.people) = 1 THEN s.people[1]
    ELSE NoName

\* What a question without a name of its own stands for: the anchor, an earlier
\* question with evidence, the remembered context, or the latest question.
CarriedTerms(s) ==
    LET place == ValidPlace(s)
        topic == ValidTopic(s)
        user == IF s.anchor # NoName THEN Term(s.anchor)
                ELSE EvidenceUser(s, place, topic)
        context == Filled(<<Term(place), Term(s.event), Term(topic)>>)
    IN  IF user # Blank THEN <<user>>
        ELSE IF context # <<>> THEN context \o <<Era(s.period)>>
        ELSE IF Trusted(s) THEN <<s.turns[1].user>>
        ELSE <<>>

(***************************************************************************)
(* resolve                                                                 *)
(***************************************************************************)

\* What a question refers to: its names, the kind of request and the flags the
\* rest of resolve is guarded by.
Reading(q, s) ==
    LET said == s.turns # <<>>
        places == PlacesOf(q, s)
        people == PeopleOf(q, s)
        entities == Dedup(places \o people \o ReferencedSubjects(q, s)
                          \o SubjectsOf(q))
        elliptic == said /\ entities = <<>> /\ Has(q, "elliptic")
    IN  [places |-> places, people |-> people, entities |-> entities,
         elliptic |-> elliptic,
         kind |-> IF ~said THEN "independent"
                  ELSE IF Has(q, "transform") THEN "transform"
                  ELSE IF Has(q, "expand") THEN "expand"
                  ELSE IF Has(q, "correct") THEN "correct"
                  ELSE IF Has(q, "followup") \/ elliptic THEN "followup"
                  ELSE "independent",
         related |-> said /\ Has(q, "related") /\ q.names = <<>>,
         parallel |-> said /\ Has(q, "bare") /\ people # <<>>,
         first |-> Has(q, "first") /\ s.evidence # <<>>,
         target |-> ReturnTarget(q, s),
         relation |-> s.anchor # NoName /\ places # <<>> /\ Has(q, "relation"),
         referent |-> IF Has(q, "them") THEN ReferencedPerson(s) ELSE NoName]

ActivePlace(q, s, r, here) ==
    IF r.places # <<>> THEN r.places[1]
    ELSE IF r.entities # <<>> /\ r.kind = "independent" /\ ~Has(q, "there")
    THEN NoName
    ELSE IF here # NoName /\ Has(q, "there") THEN here
    ELSE FirstOf(<<s.place, here>>)

\* The terms put before the question, the first case that applies.
MainTerms(q, s, r, place) ==
    IF r.first THEN <<s.evidence[1].user>>
    ELSE IF r.target # NoName THEN <<Term(r.target)>>
    ELSE IF r.kind \in {"transform", "expand"}
    THEN <<Term(FirstOf(<<s.anchor, s.subject, s.topic, place>>))>>
    ELSE IF r.parallel
    THEN <<Term(r.people[1]), Term(s.event), Term(place)>>
    ELSE IF r.elliptic \/ r.related THEN CarriedTerms(s)
    ELSE IF r.relation
    THEN <<Term(s.anchor)>> \o [i \in DOMAIN r.places |-> Term(r.places[i])]
    ELSE IF r.entities # <<>> /\ r.kind # "independent"
    THEN <<Term(IF Has(q, "there") THEN place ELSE NoName)>>
         \o [i \in DOMAIN r.entities |-> Term(r.entities[i])]
         \o <<Term(IF Has(q, "related") THEN s.event ELSE NoName)>>
    ELSE IF /\ place # NoName /\ s.person = NoName
            /\ (r.kind # "independent" \/ Has(q, "there"))
            /\ (Has(q, "them") => Has(q, "there"))
    THEN <<Term(place)>>
    ELSE <<>>

\* What a follow-up without a name of its own adds to them.
MoreTerms(q, s, r, main) ==
    LET topic == IF r.referent = NoName THEN ValidTopic(s) ELSE NoName
        event == IF r.referent = NoName /\ Trusted(s) THEN s.event ELSE NoName
        named == (IF Has(q, "them") THEN <<Term(r.referent)>> ELSE <<>>)
                 \o Filled(<<Term(topic), Term(event), Era(s.period)>>)
    IN  IF \/ r.kind = "independent" \/ r.entities # <<>> \/ r.related
           \/ r.elliptic \/ r.target # NoName \/ r.first
        THEN <<>>
        ELSE IF main \o named = <<>> /\ Trusted(s)
        THEN <<s.turns[1].user>>
        ELSE named

\* The question with what it leaves out: the predicate of the latest question
\* for a bare person, the places compared, the last question with evidence,
\* the person referred to.
ResolvedQuestion(q, s, r, ordered) ==
    LET previous == s.turns[1].user
        subject == SelectInSeq(previous.names, LAMBDA n : n \in Short)
        asked ==
            IF r.kind = "expand"
            THEN Join(IF s.evidence # <<>> THEN Last(s.evidence).user
                      ELSE previous, q)
            ELSE IF Has(q, "compare") /\ Len(r.places) >= 2
            THEN Joined([i \in 1 .. 2 |-> Term(r.places[i])], q)
            ELSE IF r.parallel
            THEN IF subject = 0 THEN Join(Term(r.people[1]), previous)
                 ELSE [previous EXCEPT !.names[subject] = r.people[1]]
            ELSE q
        whole == IF r.referent = NoName THEN asked
                 ELSE [names |-> <<r.referent>> \o asked.names,
                       cues |-> asked.cues \ {"lead"}]
    IN  IF (r.kind = "correct" \/ r.elliptic) /\ whole = q
        THEN Joined(ordered, q) ELSE whole

SearchQuery(q, s, r, ordered, asked) ==
    LET missing == Pick(ordered, {i \in DOMAIN ordered :
                       \/ ordered[i] # asked /\ ~Within(ordered[i], asked)
                       \/ r.target # NoName /\ ordered[i] = Term(r.target)})
        detail == Keep(<<"place", "people", "time">>, q.cues)
    IN  IF r.first
        THEN Join(s.evidence[1].user, [Blank EXCEPT !.cues = Range(UpTo(detail, 1))])
        ELSE Joined(missing, asked)

ActiveSubject(q, s, r, person) ==
    LET events == Keep(q.names, Events)
        own == SubjectsOf(q)
    IN  IF r.kind = "transform" THEN FirstOf(<<s.anchor, s.subject, s.topic>>)
        ELSE IF r.relation THEN s.anchor
        ELSE IF r.people # <<>> \/ (Has(q, "them") /\ person # NoName)
        THEN person
        ELSE FirstOf(r.places \o events \o own
                     \o <<s.anchor, s.subject, s.topic>>)

Resolved(q, s, here, r) ==
    LET place == ActivePlace(q, s, r, here)
        main == MainTerms(q, s, r, place)
        ordered == Dedup(Filled(main \o MoreTerms(q, s, r, main)))
        asked == ResolvedQuestion(q, s, r, ordered)
        person == FirstOf(UpTo(r.people, 1) \o <<r.referent, s.person>>)
        subject == ActiveSubject(q, s, r, person)
        events == Keep(q.names, Events)
    IN  [search |-> SearchQuery(q, s, r, ordered, asked), question |-> asked,
         kind |-> r.kind,
         intent |-> IF r.kind = "transform" THEN "transform" ELSE Intent(q),
         place |-> place, subject |-> subject, person |-> person,
         topic |-> IF r.first THEN s.evidence[1].topic
                   ELSE IF r.target # NoName THEN r.target
                   ELSE FirstOf(<<subject>> \o events \o <<s.topic>>),
         entities |-> UpTo(Dedup(r.entities \o s.entities), 8),
         people |-> UpTo(Dedup(r.people \o s.people), 4),
         event |-> FirstOf(events \o <<s.event>>),
         period |-> IF q.cues \cap Periods = {} THEN s.period
                    ELSE CHOOSE p \in q.cues \cap Periods : TRUE,
         named |-> r.entities]

Resolve(q, s, here) == Resolved(q, s, here, Reading(q, s))
===============================================================================

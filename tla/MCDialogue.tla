------------------------------ MODULE MCDialogue ------------------------------
(***************************************************************************)
(* Instances of Dialogue: two facilities easily taken for each other, a    *)
(* station, a person, a movement with a numbered name, a word that is no   *)
(* subject, and a name no record knows; six records.                       *)
(***************************************************************************)
EXTENDS Dialogue

MCNames == {"station", "consul", "company", "lee", "march", "word", "ghost"}
MCPlaces == {"station", "consul", "company"}
MCPeople == {"lee"}
MCEvents == {"march"}
MCShort == {"station", "lee", "ghost"}
MCNoise == {"word"}
MCPeriods == {"1900", "1913", "1919", "2099"}
MCFuture == {"2099"}
MCRival == [n \in MCNames |-> CASE n = "consul" -> {"company"}
                                [] n = "company" -> {"consul"}
                                [] OTHER -> {}]

C(names, lead, says, who, dates) ==
    [names |-> names, lead |-> lead, says |-> says, who |-> who, dates |-> dates]
R(id, doc, title, cost, clauses) ==
    [id |-> id, doc |-> doc, title |-> title, clauses |-> clauses, cost |-> cost,
     conflict |-> id = 6, alone |-> id # 3]

\* The station and the person who came to it; each facility, one of them in a
\* record that also tells of the other; the person, whose date stands in a
\* clause without a name; the movement; a second date of the station in a
\* record of its own, which is marked as conflicting.
MCRecords ==
    <<R(1, "d1", "station", 1,
        <<C({"station"}, "station", {"overview", "time"}, {}, {"1913"}),
          C({"lee", "station"}, "lee", {"people", "role"}, {"lee"}, {}),
          C({"station"}, "", {"cause", "result"}, {}, {})>>),
      R(2, "d2", "consul", 2,
        <<C({"consul"}, "consul", {"overview", "time", "place"}, {}, {"1900"}),
          C({"company"}, "company", {"contrast", "role"}, {}, {}),
          C({"consul", "company"}, "consul", {"current", "time"}, {}, {"1919"})>>),
      R(3, "d3", "company", 1,
        <<C({"company"}, "company", {"overview", "role", "time"}, {}, {"1919"})>>),
      R(4, "d4", "lee", 1,
        <<C({"march"}, "march", {"cause"}, {}, {"1919"}),
          C({"lee"}, "lee", {"overview", "people"}, {"lee"}, {}),
          C({}, "", {"time"}, {}, {"1900"})>>),
      R(5, "d1", "march", 3,
        <<C({"march"}, "march", {"overview", "time", "cause"}, {}, {"1919"}),
          C({"march", "lee"}, "lee", {"people"}, {"lee"}, {}),
          C({"station"}, "", {"scrap", "place"}, {}, {})>>),
      R(6, "d6", "station", 2,
        <<C({"station"}, "station", {"time"}, {}, {"1900"})>>)>>

Q(names, cues) == [names |-> names, cues |-> cues]
whenStation == Q(<<"station">>, {"time"})
whenConsul == Q(<<"consul">>, {"time"})
roleCompany == Q(<<"company">>, {"role"})
ghost2099 == Q(<<"ghost">>, {"2099"})
station2099 == Q(<<"station">>, {"2099"})
why == Q(<<>>, {"lead", "elliptic", "cause"})
reword == Q(<<>>, {"transform"})
more == Q(<<>>, {"expand"})
thenLee == Q(<<"lee">>, {"lead", "then", "bare", "followup", "elliptic"})
leeAtStation == Q(<<"lee", "station">>, {"joint", "role"})
whoRelated == Q(<<>>, {"lead", "followup", "related", "joint", "people"})
whenThem == Q(<<>>, {"lead", "followup", "them", "time", "people"})
compare == Q(<<"consul", "company">>, {"joint", "compare"})
againStation == Q(<<"station">>, {"again"})
firstTopic == Q(<<"word">>, {"followup", "again", "first"})
hereWhen == Q(<<"word">>, {"followup", "there", "time"})
whoMarch == Q(<<"march">>, {"people"})
insideStation == Q(<<"station">>, {"inside"})
personOrPlace == Q(<<"consul">>, {"followup", "related", "joint", "people",
                                  "place", "orplace"})
noStation == Q(<<"station">>, {"correct"})
doubts == Q(<<>>, {"lead", "followup", "doubt"})
whyThere == Q(<<"station">>, {"followup", "relation", "cause"})
fictitious == Q(<<"ghost">>, {"fiction", "people"})
long == Q(<<"station">>, {"long"})

Far(qs) == {[q |-> q, here |-> NoName] : q \in qs}
MCOpening ==
    Far({whenStation, whenConsul, roleCompany, ghost2099, station2099, leeAtStation,
         compare, whoMarch, fictitious})
    \cup {[q |-> hereWhen, here |-> "station"]}
MCMiddle ==
    MCOpening \cup
    Far({why, reword, more, thenLee, whoRelated, whenThem, againStation, firstTopic,
         insideStation, personOrPlace, noStation, doubts, whyThere, long})
MCClosing ==
    Far({why, reword, more, thenLee, whoRelated, whenThem, compare, againStation,
         firstTopic, doubts, whyThere})
    \cup {[q |-> hereWhen, here |-> "station"]}
MCAsked == <<MCOpening, MCMiddle, MCClosing>>
MCStreamed == {whenConsul, roleCompany, why, reword, compare}

MCPremises == [i \in 1 .. 3 |-> Far({whenStation, ghost2099, why})]
===============================================================================

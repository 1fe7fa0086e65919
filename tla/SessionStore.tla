---------------------------- MODULE SessionStore ----------------------------
(***************************************************************************)
(* The conversation objects kept by SessionStore (chat/session.py) and the *)
(* value each of its methods leaves in one of them.  Python runs these     *)
(* methods from several request threads without a lock; where a method can *)
(* be interrupted, ChatServer splits it into the operators below.          *)
(*                                                                         *)
(* Texts are abstract.  A turn is known by the request that recorded it,   *)
(* by whether it came in with an imported history, and by whether it is    *)
(* longer than the summary's whole allowance (max_summary_chars).          *)
(***************************************************************************)
EXTENDS Integers, Sequences, FiniteSets

CONSTANTS
  Requests,      \* HTTP requests, each handled once by one worker thread
  Chunks,        \* retrieval chunk ids
  Subjects,      \* resolved conversation subjects
  NoSubject,     \* the empty string in active_subject and its anchor
  MaxTurns,      \* max_turns (8 in the program)
  SummaryRoom    \* how many ordinary turns fit in max_summary_chars

ASSUME LimitsAssumption == MaxTurns \in Nat \ {0} /\ SummaryRoom \in Nat

Turn == [by: Requests, imported: BOOLEAN, long: BOOLEAN]
EvidenceTurn == [by: Requests, chunks: SUBSET Chunks]
Focus == Subjects \cup {NoSubject}

Session ==
  [ turns: Seq(Turn), summary: Seq(Turn), evidence: Seq(EvidenceTurn),
    focus: Focus,      \* active_subject
    anchor: Focus ]    \* stable_evidence_anchor

NewSession ==
  [ turns |-> <<>>, summary |-> <<>>, evidence |-> <<>>,
    focus |-> NoSubject, anchor |-> NoSubject ]

LastOf(s, n) == IF Len(s) <= n THEN s ELSE SubSeq(s, Len(s) - n + 1, Len(s))

AppendTurn(s, t) == [s EXCEPT !.turns = Append(@, t)]
OverLimitByOne(s) == Len(s.turns) > MaxTurns + 1   \* fault: off by one
OverLimit(s) == Len(s.turns) > MaxTurns
PopOldest(s) == [s EXCEPT !.turns = Tail(@)]

\* The evicted turn is added behind the old entries, and entries are dropped
\* from the front while the whole is too long: a turn that does not fit alone
\* takes every older entry with it.
Summarised(summary, evicted) ==
  IF evicted.long THEN <<>> ELSE LastOf(Append(summary, evicted), SummaryRoom)

AppendEvidence(s, e) == [s EXCEPT !.evidence = Append(@, e)]
KeepRecentEvidence(s) == [s EXCEPT !.evidence = LastOf(@, MaxTurns)]

LatestEvidence(s) ==
  IF s.evidence = <<>> THEN {} ELSE s.evidence[Len(s.evidence)].chunks
=============================================================================

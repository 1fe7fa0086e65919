---------------------------- MODULE DialogueProofs ----------------------------
(***************************************************************************)
(* Theorems about Dialogue for every set of names, records, limits and     *)
(* questions, and whatever the model tells.                                *)
(*                                                                         *)
(* The argument.  Between requests, Inv: the session is of its type, and   *)
(* stands for names the client has brought up (SessionSaid), the topics of *)
(* the turns it may come back to among them.  Within a request, what each  *)
(* part of it hands to the next:                                           *)
(*   ContextOK, ContextSaid  what the question is resolved to              *)
(*   ChosenOK                what a search finds, or recalls               *)
(*   PacketOK                facts, each a clause of a chunk and about the *)
(*                           subject; BestOK and EvidenceOK say which of   *)
(*                           them come with all that answer the question   *)
(*   ToldFrom                what may be told of them                      *)
(*   Replied                 what the reply says of it                     *)
(* Each property of the replies follows from EvidenceOK and Replied; that  *)
(* a rewording keeps its records follows from the same and from what it    *)
(* recalls.                                                                *)
(***************************************************************************)
EXTENDS Dialogue, SequenceTheorems, FiniteSetTheorems, WellFoundedInduction, TLAPS

-----------------------------------------------------------------------------
(* Recursion up to a number *)

\* What is so of 0 and passes from each number up to N to the next is so of all of them:
\* induction up to a number, as a fact about a set.
LEMMA UpFrom ==
    ASSUME NEW N \in Nat, NEW S, 0 \in S, \A n \in 1 .. N : n - 1 \in S => n \in S
    PROVE  \A n \in 0 .. N : n \in S
<1> DEFINE T == {n \in 0 .. N : n \notin S}
<1> SUFFICES ASSUME T # {} PROVE FALSE
  OBVIOUS
<1>1. T \in SUBSET Nat
  OBVIOUS
<1>2. PICK m \in T : \A k \in T : <<k, m>> \notin OpToRel(<, Nat)
  <2> HIDE DEF T
  <2> QED
    BY <1>1, WFMin, NatLessThanWellFounded, Zenon
<1>3. m \in T /\ \A k \in T : ~(k < m)
  BY <1>1, <1>2, Zenon DEF OpToRel
<1>4. m \in 1 .. N /\ m - 1 \in 0 .. N /\ m - 1 < m
  BY <1>3
<1>5. m - 1 \in S
  BY <1>3, <1>4
<1> QED
  BY <1>3, <1>4, <1>5

\* A base value and a step from the value before to the next, for the numbers up to N.
IsStep(N, V, base, step) == N \in Nat /\ base \in V /\ step \in [(1 .. N) \X V -> V]
\* The values f that start at the base and follow the step.
Follows(f, N, V, base, step) ==
    f \in [0 .. N -> V] /\ f[0] = base /\ \A n \in 1 .. N : f[n] = step[<<n, f[n - 1]>>]

\* What each value makes of the one before it is a function of the numbers.
LEMMA Recursive ==
    ASSUME NEW N, NEW V, NEW base, NEW step, IsStep(N, V, base, step)
    PROVE  \E f : Follows(f, N, V, base, step)
<1> USE DEF IsStep
<1> DEFINE Good(m, f) == f[0] = base /\ \A n \in 1 .. m : f[n] = step[<<n, f[n - 1]>>]
           S == {m \in 0 .. N : \E f \in [0 .. m -> V] : Good(m, f)}
<1>1. 0 \in S
  <2> DEFINE f == [n \in 0 .. 0 |-> base]
  <2>1. f \in [0 .. 0 -> V] /\ Good(0, f)
    OBVIOUS
  <2>2. \E g \in [0 .. 0 -> V] : Good(0, g)
    <3> HIDE DEF Good, f
    <3> QED
      BY <2>1
  <2> QED
    BY <2>2
<1>2. ASSUME NEW m \in 1 .. N, m - 1 \in S PROVE m \in S
  <2>1. PICK g \in [0 .. m - 1 -> V] : Good(m - 1, g)
    BY <1>2
  <2> DEFINE f == [n \in 0 .. m |-> IF n = m THEN step[<<m, g[m - 1]>>] ELSE g[n]]
  <2>2. f \in [0 .. m -> V]
    OBVIOUS
  <2>3. f[0] = base
    BY <2>1
  <2>4. \A n \in 1 .. m : f[n] = step[<<n, f[n - 1]>>]
    <3> TAKE n \in 1 .. m
    <3>1. n - 1 \in 0 .. m /\ n - 1 # m /\ f[n - 1] = g[n - 1]
      OBVIOUS
    <3>2. CASE n = m
      BY <3>1, <3>2
    <3>3. CASE n # m
      <4>1. n \in 1 .. m - 1 /\ f[n] = g[n]
        BY <3>3
      <4> QED
        BY <2>1, <3>1, <4>1
    <3> QED
      BY <3>2, <3>3
  <2>5. \E h \in [0 .. m -> V] : Good(m, h)
    <3>1. Good(m, f)
      BY <2>3, <2>4
    <3> HIDE DEF Good, f
    <3> QED
      BY <2>2, <3>1
  <2> QED
    BY <2>5
<1>3. \A n \in 0 .. N : n \in S
  <2> HIDE DEF S
  <2> QED
    BY <1>1, <1>2, UpFrom
<1>4. N \in S
  BY <1>3
<1>5. PICK f \in [0 .. N -> V] : Good(N, f)
  BY <1>4
<1> QED
  BY <1>5 DEF Follows

-----------------------------------------------------------------------------
(* Lists *)

\* A sequence as a function: its domain, its elements and its range.
LEMMA SeqRange ==
    ASSUME NEW X, NEW s \in Seq(X)
    PROVE  /\ Len(s) \in Nat /\ DOMAIN s = 1 .. Len(s) /\ s \in [1 .. Len(s) -> X]
           /\ \A i \in DOMAIN s : s[i] \in Range(s) /\ s[i] \in X
           /\ \A x \in Range(s) : \E i \in DOMAIN s : x = s[i]
           /\ Range(s) \subseteq X /\ s \in Seq(Range(s))
           /\ (s = <<>> <=> Len(s) = 0) /\ (s = <<>> <=> Range(s) = {})
<1>1. Len(s) \in Nat /\ DOMAIN s = 1 .. Len(s) /\ s \in [1 .. Len(s) -> X]
  OBVIOUS
<1>2. \A i \in DOMAIN s : s[i] \in Range(s) /\ s[i] \in X
  BY <1>1 DEF Range
<1>3. \A x \in Range(s) : \E i \in DOMAIN s : x = s[i]
  BY DEF Range
<1>4. Range(s) \subseteq X
  BY <1>2, <1>3
<1>5. s \in Seq(Range(s))
  BY <1>1, <1>2
<1>6. s = <<>> <=> Len(s) = 0
  OBVIOUS
<1>7. s = <<>> <=> Range(s) = {}
  BY <1>1, <1>2, <1>3, <1>6
<1> QED
  BY <1>1, <1>2, <1>3, <1>4, <1>5, <1>6, <1>7

\* A sequence is one of any set that holds its elements.
LEMMA FunctionIsSeq ==
    ASSUME NEW X, NEW n \in Nat, NEW f \in [1 .. n -> X]
    PROVE  f \in Seq(X)
OBVIOUS

\* A sequence is one of any set that its elements are of.
LEMMA InSeqOf ==
    ASSUME NEW X, NEW s \in Seq(X), NEW Y, Range(s) \subseteq Y
    PROVE  s \in Seq(Y)
<1>1. \A i \in DOMAIN s : s[i] \in Range(s)
  BY Zenon DEF Range
<1>2. Len(s) \in Nat /\ s \in [1 .. Len(s) -> Y]
  BY <1>1
<1>3. Seq(Y) = UNION {[1 .. n -> Y] : n \in Nat}
  BY SeqDef
<1> QED
  BY <1>2, <1>3, Zenon

\* What a recursive selection does at each place.
LEMMA PickSteps ==
    ASSUME NEW X, NEW s \in Seq(X), NEW K
    PROVE  \E f \in [0 .. Len(s) -> Seq(X)] :
               /\ f[0] = <<>> /\ Pick(s, K) = f[Len(s)]
               /\ \A n \in 1 .. Len(s) :
                      f[n] = IF n \in K THEN Append(f[n - 1], s[n]) ELSE f[n - 1]
<1> DEFINE N == Len(s)
           step == [p \in (1 .. N) \X Seq(X) |->
                       IF p[1] \in K THEN Append(p[2], s[p[1]]) ELSE p[2]]
           Is(f) == f = [n \in 0 .. N |-> IF n = 0 THEN <<>>
                                          ELSE IF n \in K THEN Append(f[n - 1], s[n])
                                          ELSE f[n - 1]]
<1>1. N \in Nat /\ <<>> \in Seq(X)
  OBVIOUS
<1>2. step \in [(1 .. N) \X Seq(X) -> Seq(X)]
  <2>1. ASSUME NEW p \in (1 .. N) \X Seq(X)
        PROVE  (IF p[1] \in K THEN Append(p[2], s[p[1]]) ELSE p[2]) \in Seq(X)
    OBVIOUS
  <2> QED
    BY <2>1
<1>3. \E f : Is(f)
  <2> DEFINE V == Seq(X)
             nil == <<>>
  <2>1. IsStep(N, V, nil, step)
    BY <1>1, <1>2 DEF IsStep
  <2>2. PICK f : Follows(f, N, V, nil, step)
    <3> HIDE DEF step, N, V, nil
    <3> QED
      BY <2>1, Recursive
  <2>3. f \in [0 .. N -> V] /\ f[0] = nil /\ \A n \in 1 .. N : f[n] = step[<<n, f[n - 1]>>]
    BY <2>2 DEF Follows
  <2>4. ASSUME NEW n \in 1 .. N
        PROVE  f[n] = IF n \in K THEN Append(f[n - 1], s[n]) ELSE f[n - 1]
    <3>1. <<n, f[n - 1]>> \in (1 .. N) \X V
      <4> HIDE DEF V
      <4> QED
        BY <1>1, <2>3
    <3> QED
      BY <2>3, <3>1
  <2>5. f = [n \in 0 .. N |-> f[n]] /\ f[0] = nil
    BY <2>3
  <2>6. Is(f)
    BY <2>4, <2>5
  <2> QED
    BY <2>6
<1> DEFINE f == CHOOSE g : Is(g)
<1>4. Is(f)
  BY <1>3, Zenon
<1>5. Pick(s, K) = f[N]
  BY Zenon DEF Pick
<1> HIDE DEF f
<1>6. \A n \in 0 .. N : f[n] = IF n = 0 THEN <<>>
                              ELSE IF n \in K THEN Append(f[n - 1], s[n]) ELSE f[n - 1]
  <2> HIDE DEF N
  <2> QED
    BY <1>4, Zenon
<1>7. f[0] = <<>> /\ \A n \in 1 .. N : f[n] = IF n \in K THEN Append(f[n - 1], s[n]) ELSE f[n - 1]
  BY <1>1, <1>6
<1>8. f \in [0 .. N -> Seq(X)]
  <2> DEFINE S == {n \in 0 .. N : f[n] \in Seq(X)}
  <2>1. 0 \in S
    <3>1. f[0] \in Seq(X) /\ 0 \in 0 .. N
      BY <1>1, <1>7
    <3> QED
      BY <3>1
  <2>2. ASSUME NEW n \in 1 .. N, n - 1 \in S PROVE n \in S
    <3>1. f[n - 1] \in Seq(X) /\ s[n] \in X
      BY <2>2
    <3>2. Append(f[n - 1], s[n]) \in Seq(X) /\ n \in 0 .. N
      BY <1>1, <3>1
    <3>3. f[n] \in Seq(X)
      BY <1>7, <3>1, <3>2, Zenon
    <3> QED
      BY <3>2, <3>3
  <2>3. \A n \in 0 .. N : n \in S
    <3> HIDE DEF S, N
    <3> QED
      BY <1>1, <2>1, <2>2, UpFrom
  <2> QED
    BY <1>4, <2>3
<1> QED
  BY <1>5, <1>7, <1>8

\* The places picked, in their order.
Taken(p, s, K, n, m) ==
    /\ m \in [1 .. Len(p) -> K \cap (1 .. n)]
    /\ \A j, k \in 1 .. Len(p) : j < k => m[j] < m[k]
    /\ \A i \in K \cap (1 .. n) : \E j \in 1 .. Len(p) : m[j] = i
    /\ \A j \in 1 .. Len(p) : p[j] = s[m[j]]

\* An element at a place of K is taken after those before it.
LEMMA TakenNext ==
    ASSUME NEW X, NEW s \in Seq(X), NEW K, NEW n \in 1 .. Len(s), n \in K,
           NEW p \in Seq(X), NEW m, Taken(p, s, K, n - 1, m)
    PROVE  \E o : Taken(Append(p, s[n]), s, K, n, o)
<1> DEFINE q == Append(p, s[n])
           o == [j \in 1 .. Len(q) |-> IF j <= Len(p) THEN m[j] ELSE n]
<1>1. Len(p) \in Nat /\ Len(q) = Len(p) + 1 /\ q \in Seq(X)
  OBVIOUS
<1>2. \A j \in 1 .. Len(p) : m[j] \in K \cap (1 .. n - 1) /\ o[j] = m[j] /\ j \in 1 .. Len(q)
                             /\ q[j] = p[j]
  BY <1>1, SMTT(30) DEF Taken
<1>3. o[Len(q)] = n /\ q[Len(q)] = s[n] /\ Len(q) \in 1 .. Len(q)
  BY <1>1
<1>4. \A j \in 1 .. Len(q) : j \in 1 .. Len(p) \/ j = Len(q)
  BY <1>1
<1> HIDE DEF o, q
<1>5. o \in [1 .. Len(q) -> K \cap (1 .. n)]
  <2>1. \A j \in 1 .. Len(q) : o[j] \in K \cap (1 .. n)
    BY <1>2, <1>3, <1>4, SMTT(30)
  <2> QED
    BY <2>1 DEF o
<1>6. ASSUME NEW j \in 1 .. Len(q), NEW k \in 1 .. Len(q), j < k PROVE o[j] < o[k]
  <2>1. j \in 1 .. Len(p)
    BY <1>1, <1>6
  <2>2. CASE k \in 1 .. Len(p)
    BY <1>2, <1>6, <2>1, <2>2 DEF Taken
  <2>3. CASE k = Len(q)
    BY <1>2, <1>3, <2>1, <2>3
  <2> QED
    BY <1>4, <2>2, <2>3
<1>7. ASSUME NEW i \in K \cap (1 .. n) PROVE \E j \in 1 .. Len(q) : o[j] = i
  <2>1. CASE i = n
    BY <1>3, <2>1
  <2>2. CASE i # n
    <3>1. i \in K \cap (1 .. n - 1)
      BY <2>2
    <3>2. PICK j \in 1 .. Len(p) : m[j] = i
      BY <3>1 DEF Taken
    <3> QED
      BY <1>2, <3>2
  <2> QED
    BY <2>1, <2>2
<1>8. \A j \in 1 .. Len(q) : q[j] = s[o[j]]
  BY <1>2, <1>3, <1>4 DEF Taken
<1>9. Taken(q, s, K, n, o)
  BY <1>5, <1>6, <1>7, <1>8 DEF Taken
<1> QED
  BY <1>9 DEF q

\* An element at another place is not taken.
LEMMA TakenSame ==
    ASSUME NEW X, NEW s \in Seq(X), NEW K, NEW n \in 1 .. Len(s), n \notin K,
           NEW p, NEW m, Taken(p, s, K, n - 1, m)
    PROVE  Taken(p, s, K, n, m)
<1>1. K \cap (1 .. n) = K \cap (1 .. n - 1)
  OBVIOUS
<1> QED
  BY <1>1 DEF Taken

\* Pick takes the elements at the places of K, in their order.
LEMMA PickTakes ==
    ASSUME NEW X, NEW s \in Seq(X), NEW K
    PROVE  Pick(s, K) \in Seq(X) /\ \E m : Taken(Pick(s, K), s, K, Len(s), m)
<1> DEFINE N == Len(s)
<1>1. PICK f \in [0 .. N -> Seq(X)] :
          /\ f[0] = <<>> /\ Pick(s, K) = f[N]
          /\ \A n \in 1 .. N : f[n] = IF n \in K THEN Append(f[n - 1], s[n]) ELSE f[n - 1]
  BY PickSteps
<1>2. N \in Nat
  OBVIOUS
<1> DEFINE S == {n \in 0 .. N : \E m : Taken(f[n], s, K, n, m)}
<1>3. 0 \in S
  <2>1. Len(f[0]) = 0 /\ 0 \in 0 .. N
    BY <1>1
  <2>2. Taken(f[0], s, K, 0, [j \in 1 .. 0 |-> 0])
    BY <2>1 DEF Taken
  <2> QED
    BY <2>1, <2>2
<1>4. ASSUME NEW n \in 1 .. N, n - 1 \in S PROVE n \in S
  <2>1. PICK m : Taken(f[n - 1], s, K, n - 1, m)
    BY <1>4
  <2>2. f[n - 1] \in Seq(X) /\ n \in 1 .. Len(s)
    BY <1>1, <1>2
  <2>3. CASE n \in K
    <3>1. f[n] = Append(f[n - 1], s[n])
      BY <1>1, <2>3
    <3>2. \E o : Taken(Append(f[n - 1], s[n]), s, K, n, o)
      BY <2>1, <2>2, <2>3, TakenNext
    <3> QED
      BY <1>2, <3>1, <3>2
  <2>4. CASE n \notin K
    <3>1. f[n] = f[n - 1]
      BY <1>1, <2>4
    <3>2. Taken(f[n], s, K, n, m)
      BY <2>1, <2>2, <2>4, <3>1, TakenSame
    <3> QED
      BY <1>2, <3>2
  <2> QED
    BY <2>3, <2>4
<1>5. \A n \in 0 .. N : n \in S
  <2> HIDE DEF S, N
  <2> QED
    BY <1>2, <1>3, <1>4, UpFrom
<1>6. N \in S /\ f[N] \in Seq(X)
  BY <1>1, <1>2, <1>5
<1> QED
  BY <1>1, <1>6

\* What is picked: the elements at the places, and no other.
LEMMA PickIn ==
    ASSUME NEW X, NEW s \in Seq(X), NEW K
    PROVE  /\ Pick(s, K) \in Seq(X)
           /\ Range(Pick(s, K)) = {s[i] : i \in K \cap (1 .. Len(s))}
           /\ Range(Pick(s, K)) \subseteq Range(s)
<1> DEFINE p == Pick(s, K)
<1>1. p \in Seq(X)
  BY PickTakes
<1>2. PICK m : Taken(p, s, K, Len(s), m)
  BY PickTakes
<1> HIDE DEF p
<1>3. Range(p) = {p[j] : j \in 1 .. Len(p)} /\ Range(s) = {s[i] : i \in 1 .. Len(s)}
  BY <1>1 DEF Range
<1>4. \A j \in 1 .. Len(p) : m[j] \in K \cap (1 .. Len(s)) /\ p[j] = s[m[j]]
  BY <1>2 DEF Taken
<1>5. \A i \in K \cap (1 .. Len(s)) : \E j \in 1 .. Len(p) : p[j] = s[i]
  BY <1>2 DEF Taken
<1>6. Range(p) = {s[i] : i \in K \cap (1 .. Len(s))}
  BY <1>3, <1>4, <1>5
<1> QED
  BY <1>1, <1>3, <1>6 DEF p

\* To pick every place changes nothing.
LEMMA PickAll ==
    ASSUME NEW X, NEW s \in Seq(X), NEW K, 1 .. Len(s) \subseteq K
    PROVE  Pick(s, K) = s
<1> DEFINE N == Len(s)
<1>1. PICK f \in [0 .. N -> Seq(X)] :
          /\ f[0] = <<>> /\ Pick(s, K) = f[N]
          /\ \A n \in 1 .. N : f[n] = IF n \in K THEN Append(f[n - 1], s[n]) ELSE f[n - 1]
  BY PickSteps, ZenonT(30)
<1>2. N \in Nat
  OBVIOUS
<1> DEFINE S == {n \in 0 .. N : Len(f[n]) = n /\ \A j \in 1 .. n : f[n][j] = s[j]}
<1>3. 0 \in S
  BY <1>1, <1>2
<1>4. ASSUME NEW n \in 1 .. N, n - 1 \in S PROVE n \in S
  <2>0. n \in K /\ n \in 1 .. N /\ n - 1 \in 0 .. N
    BY <1>2
  <2>1. f[n] = Append(f[n - 1], s[n]) /\ f[n - 1] \in Seq(X)
    BY <1>1, <2>0
  <2>2. Len(f[n - 1]) = n - 1 /\ \A j \in 1 .. n - 1 : f[n - 1][j] = s[j]
    BY <1>4
  <2>3. Len(f[n]) = n
    BY <2>1, <2>2
  <2>4. \A j \in 1 .. n : f[n][j] = s[j]
    BY <2>1, <2>2
  <2> QED
    BY <1>2, <2>3, <2>4
<1>5. \A n \in 0 .. N : n \in S
  <2> HIDE DEF S, N
  <2> QED
    BY <1>2, <1>3, <1>4, UpFrom
<1>6. N \in S /\ f[N] \in Seq(X)
  BY <1>1, <1>2, <1>5
<1>7. Len(f[N]) = Len(s) /\ \A j \in 1 .. Len(f[N]) : f[N][j] = s[j]
  BY <1>6
<1>8. f[N] = s
  <2> DEFINE t == f[N]
  <2>1. t \in Seq(X) /\ Len(t) = Len(s) /\ \A j \in 1 .. Len(t) : t[j] = s[j]
    BY <1>6, <1>7
  <2> HIDE DEF t
  <2>2. t = s
    BY <2>1, SeqEqual
  <2> QED
    BY <2>2 DEF t
<1> QED
  BY <1>1, <1>8

\* What is kept of a sequence is its elements that are of S.
LEMMA KeepIn ==
    ASSUME NEW X, NEW s \in Seq(X), NEW S
    PROVE  Keep(s, S) \in Seq(X) /\ Range(Keep(s, S)) = Range(s) \cap S
<1> DEFINE K == {i \in DOMAIN s : s[i] \in S}
<1>1. /\ Pick(s, K) \in Seq(X)
      /\ Range(Pick(s, K)) = {s[i] : i \in K \cap (1 .. Len(s))}
  <2> HIDE DEF K
  <2> QED
    BY PickIn
<1>2. Range(s) \cap S = {s[i] : i \in K \cap (1 .. Len(s))}
  BY DEF Range
<1> QED
  BY <1>1, <1>2 DEF Keep

\* Each element once.
Once(s) == \A j, k \in DOMAIN s : s[j] = s[k] => j = k

\* Dedup keeps every element and none twice.
LEMMA DedupIn ==
    ASSUME NEW X, NEW s \in Seq(X)
    PROVE  Dedup(s) \in Seq(X) /\ Range(Dedup(s)) = Range(s) /\ Once(Dedup(s))
<1> DEFINE K == {i \in DOMAIN s : \A j \in 1 .. i - 1 : s[j] # s[i]}
           d == Pick(s, K)
<1>1. /\ d \in Seq(X)
      /\ Range(d) = {s[i] : i \in K \cap (1 .. Len(s))}
      /\ Range(d) \subseteq Range(s)
  <2> HIDE DEF K
  <2> QED
    BY PickIn
<1>2. PICK m : Taken(d, s, K, Len(s), m)
  <2> HIDE DEF K
  <2> QED
    BY PickTakes
<1>3. Dedup(s) = d
  BY DEF Dedup
<1>4. ASSUME NEW i \in 1 .. Len(s) PROVE \E k \in K : s[k] = s[i]
  <2> DEFINE T == {k \in 1 .. Len(s) : s[k] = s[i]}
  <2>1. T \in SUBSET Nat /\ i \in T
    OBVIOUS
  <2>2. PICK k \in T : \A j \in T : <<j, k>> \notin OpToRel(<, Nat)
    <3> HIDE DEF T
    <3> QED
      BY <2>1, WFMin, NatLessThanWellFounded, Zenon
  <2>3. k \in T /\ \A j \in T : ~(j < k)
    BY <2>1, <2>2, Zenon DEF OpToRel
  <2>4. k \in DOMAIN s /\ s[k] = s[i]
    BY <2>3
  <2>5. \A j \in 1 .. k - 1 : s[j] # s[k]
    <3> SUFFICES ASSUME NEW j \in 1 .. k - 1, s[j] = s[k] PROVE FALSE
      OBVIOUS
    <3>1. j \in T /\ j < k
      BY <2>4
    <3> QED
      BY <2>3, <3>1
  <2> QED
    BY <2>4, <2>5
<1>5. Range(s) \subseteq Range(d)
  <2> SUFFICES ASSUME NEW x \in Range(s) PROVE x \in Range(d)
    OBVIOUS
  <2>1. PICK i \in 1 .. Len(s) : x = s[i]
    BY DEF Range
  <2>2. PICK k \in K : s[k] = s[i]
    BY <1>4
  <2> QED
    BY <1>1, <2>1, <2>2
<1>6. ASSUME NEW j \in 1 .. Len(d), NEW k \in 1 .. Len(d), j < k, d[j] = d[k] PROVE FALSE
  <2>1. m[j] \in K /\ m[k] \in K /\ m[j] < m[k] /\ d[j] = s[m[j]] /\ d[k] = s[m[k]]
    BY <1>2, <1>6 DEF Taken
  <2>2. m[j] \in 1 .. m[k] - 1 /\ s[m[j]] = s[m[k]]
    BY <1>6, <2>1
  <2> QED
    BY <2>1, <2>2
<1>7. Once(d)
  <2> HIDE DEF d
  <2>1. DOMAIN d = 1 .. Len(d) /\ Len(d) \in Nat
    BY <1>1
  <2> QED
    BY <1>6, <2>1 DEF Once
<1> QED
  BY <1>1, <1>3, <1>5, <1>7

\* Dedup leaves a sequence without repetitions as it is.
LEMMA DedupSame ==
    ASSUME NEW X, NEW s \in Seq(X), Once(s)
    PROVE  Dedup(s) = s
<1> DEFINE K == {i \in DOMAIN s : \A j \in 1 .. i - 1 : s[j] # s[i]}
<1>1. 1 .. Len(s) \subseteq K
  BY DEF Once
<1>2. Pick(s, K) = s
  <2> HIDE DEF K
  <2> QED
    BY <1>1, PickAll
<1> QED
  BY <1>2 DEF Dedup

\* The first n elements of a sequence, or all of them.
LEMMA UpToIn ==
    ASSUME NEW X, NEW s \in Seq(X), NEW n \in Nat
    PROVE  /\ UpTo(s, n) \in Seq(X)
           /\ Len(UpTo(s, n)) = IF Len(s) < n THEN Len(s) ELSE n
           /\ \A j \in 1 .. Len(UpTo(s, n)) : UpTo(s, n)[j] = s[j]
           /\ Range(UpTo(s, n)) \subseteq Range(s)
           /\ Len(s) <= n => UpTo(s, n) = s
           /\ s # <<>> /\ n # 0 => UpTo(s, n) # <<>>
<1> DEFINE k == IF Len(s) < n THEN Len(s) ELSE n
           u == SubSeq(s, 1, k)
<1>1. k \in 0 .. Len(s) /\ Len(s) \in Nat
  OBVIOUS
<1>2. u = UpTo(s, n)
  BY DEF UpTo
<1>3. u \in Seq(X) /\ Len(u) = k /\ \A j \in 1 .. k : u[j] = s[j]
  <2> HIDE DEF k
  <2> QED
    BY <1>1
<1>4. Len(s) <= n => k = Len(s)
  OBVIOUS
<1>5. s # <<>> /\ n # 0 => k # 0
  OBVIOUS
<1> HIDE DEF u
<1>6. Range(u) \subseteq Range(s)
  <2> HIDE DEF k
  <2> QED
    BY <1>1, <1>3 DEF Range
<1>7. Len(s) <= n => u = s
  BY <1>3, <1>4, SeqEqual
<1>8. s # <<>> /\ n # 0 => u # <<>>
  BY <1>3, <1>5
<1> QED
  BY <1>2, <1>3, <1>6, <1>7, <1>8

\* The elements of two sequences put together.
LEMMA ConcatIn ==
    ASSUME NEW X, NEW s \in Seq(X), NEW t \in Seq(X)
    PROVE  s \o t \in Seq(X) /\ Range(s \o t) = Range(s) \cup Range(t)
<1> DEFINE c == s \o t
<1>1. /\ c \in Seq(X) /\ Len(c) = Len(s) + Len(t)
      /\ \A i \in 1 .. Len(c) : c[i] = IF i <= Len(s) THEN s[i] ELSE t[i - Len(s)]
  BY ConcatProperties
<1>2. Len(s) \in Nat /\ Len(t) \in Nat
  OBVIOUS
<1> HIDE DEF c
<1>3. /\ DOMAIN c = 1 .. Len(c) /\ DOMAIN s = 1 .. Len(s) /\ DOMAIN t = 1 .. Len(t)
      /\ Range(c) = {c[i] : i \in 1 .. Len(c)}
      /\ Range(s) = {s[i] : i \in 1 .. Len(s)}
      /\ Range(t) = {t[i] : i \in 1 .. Len(t)}
  <2>1. DOMAIN c = 1 .. Len(c) /\ DOMAIN s = 1 .. Len(s) /\ DOMAIN t = 1 .. Len(t)
    BY <1>1
  <2> QED
    BY <2>1, Zenon DEF Range
<1>4. ASSUME NEW i \in 1 .. Len(c) PROVE c[i] \in Range(s) \cup Range(t)
  <2>1. CASE i <= Len(s)
    BY <1>1, <1>2, <1>3, <2>1
  <2>2. CASE ~(i <= Len(s))
    <3>1. i - Len(s) \in 1 .. Len(t) /\ c[i] = t[i - Len(s)]
      BY <1>1, <1>2, <2>2
    <3> QED
      BY <1>3, <3>1
  <2> QED
    BY <2>1, <2>2
<1>5. ASSUME NEW i \in 1 .. Len(s) PROVE s[i] \in Range(c)
  <2>1. i \in 1 .. Len(c) /\ c[i] = s[i]
    BY <1>1, <1>2
  <2> QED
    BY <1>3, <2>1
<1>6. ASSUME NEW i \in 1 .. Len(t) PROVE t[i] \in Range(c)
  <2>1. i + Len(s) \in 1 .. Len(c) /\ ~(i + Len(s) <= Len(s)) /\ (i + Len(s)) - Len(s) = i
    BY <1>1, <1>2
  <2>2. c[i + Len(s)] = t[i]
    BY <1>1, <2>1
  <2> QED
    BY <1>3, <2>1, <2>2
<1>7. Range(c) = Range(s) \cup Range(t)
  BY <1>3, <1>4, <1>5, <1>6
<1> QED
  BY <1>1, <1>7 DEF c

\* The elements of a sequence of sequences, and how many there are at least.
LEMMA FlattenIn ==
    ASSUME NEW X, NEW ss \in Seq(Seq(X))
    PROVE  /\ FlattenSeq(ss) \in Seq(X)
           /\ \A x : x \in Range(FlattenSeq(ss)) <=> \E i \in DOMAIN ss : x \in Range(ss[i])
           /\ (\A i \in DOMAIN ss : ss[i] # <<>>) => Len(FlattenSeq(ss)) >= Len(ss)
<1> DEFINE N == Len(ss)
           V == Seq(X)
           nil == <<>>
           step == [p \in (1 .. N) \X V |-> p[2] \o ss[p[1]]]
           Is(f) == f = [i \in 1 .. N |-> IF i = 1 THEN ss[i] ELSE f[i - 1] \o ss[i]]
<1>1. N \in Nat /\ DOMAIN ss = 1 .. N /\ nil \in V /\ \A i \in 1 .. N : ss[i] \in V
  OBVIOUS
<1>2. CASE N = 0
  <2>1. FlattenSeq(ss) = ss /\ ss = <<>>
    BY <1>2 DEF FlattenSeq
  <2>2. ss \in Seq(X) /\ Range(ss) = {} /\ DOMAIN ss = {} /\ Len(ss) >= Len(ss)
    BY <1>2, <2>1 DEF Range
  <2> QED
    BY <2>1, <2>2
<1>3. CASE N # 0
  <2>1. step \in [(1 .. N) \X V -> V]
    <3>1. ASSUME NEW p \in (1 .. N) \X V PROVE p[2] \o ss[p[1]] \in V
      <4>1. p[2] \in Seq(X) /\ ss[p[1]] \in Seq(X)
        BY <1>1
      <4> QED
        BY <4>1, ConcatIn
    <3> HIDE DEF V, N
    <3> QED
      BY <3>1
  <2>2. IsStep(N, V, nil, step)
    BY <1>1, <2>1 DEF IsStep
  <2>3. PICK g : Follows(g, N, V, nil, step)
    <3> HIDE DEF step, N, V, nil
    <3> QED
      BY <2>2, Recursive
  <2>4. g \in [0 .. N -> V] /\ g[0] = nil /\ \A n \in 1 .. N : g[n] = step[<<n, g[n - 1]>>]
    BY <2>3 DEF Follows
  <2>5. ASSUME NEW n \in 1 .. N PROVE g[n] = g[n - 1] \o ss[n] /\ g[n - 1] \in V
    <3>1. <<n, g[n - 1]>> \in (1 .. N) \X V
      <4>1. n - 1 \in 0 .. N
        OBVIOUS
      <4> HIDE DEF V, N
      <4> QED
        BY <2>4, <4>1
    <3> QED
      BY <2>4, <3>1
  <2>6. ASSUME NEW n \in 1 .. N, n = 1 PROVE g[n] = ss[n]
    <3>1. n - 1 = 0 /\ ss[n] \in Seq(X)
      BY <1>1, <2>6
    <3>2. g[n] = <<>> \o ss[n]
      BY <2>4, <2>5, <3>1
    <3> QED
      BY <3>1, <3>2, ConcatEmptySeq
  <2> DEFINE h == [i \in 1 .. N |-> g[i]]
  <2>7. Is(h)
    <3>1. ASSUME NEW i \in 1 .. N
          PROVE  h[i] = IF i = 1 THEN ss[i] ELSE h[i - 1] \o ss[i]
      <4>1. CASE i = 1
        BY <2>6, <4>1
      <4>2. CASE i # 1
        <5>1. i - 1 \in 1 .. N
          BY <1>1, <4>2
        <5> QED
          BY <2>5, <4>2, <5>1
      <4> QED
        BY <4>1, <4>2
    <3>2. h = [i \in 1 .. N |-> h[i]]
      OBVIOUS
    <3> HIDE DEF h
    <3> QED
      BY <3>1, <3>2
  <2>8. \E f : Is(f)
    <3> HIDE DEF h, Is
    <3> QED
      BY <2>7
  <2> DEFINE f == CHOOSE q : Is(q)
  <2>9. Is(f)
    <3> HIDE DEF Is
    <3> QED
      BY <2>8, Zenon
  <2>10. FlattenSeq(ss) = f[N]
    BY <1>3, Zenon DEF FlattenSeq
  <2> HIDE DEF f
  <2>11. \A i \in 1 .. N : f[i] = IF i = 1 THEN ss[i] ELSE f[i - 1] \o ss[i]
    <3> HIDE DEF N
    <3> QED
      BY <2>9, Zenon
  <2> DEFINE Good(n) == /\ f[n] \in V
                        /\ \A x : x \in Range(f[n]) <=> \E i \in 1 .. n : x \in Range(ss[i])
                        /\ (\A i \in 1 .. N : ss[i] # <<>>) => Len(f[n]) >= n
             S == {n \in 0 .. N : n = 0 \/ Good(n)}
  <2>12. 0 \in S
    BY <1>1
  <2>13. ASSUME NEW n \in 1 .. N, n - 1 \in S PROVE n \in S
    <3>1. ss[n] \in Seq(X) /\ n \in 0 .. N
      BY <1>1
    <3>2. CASE n = 1
      <4>1. f[n] = ss[n]
        BY <2>11, <3>2
      <4>2. \A i \in 1 .. n : i = n
        BY <3>2
      <4>3. n \in 1 .. n
        BY <3>2
      <4>5. ss[n] # <<>> => Len(ss[n]) >= n
        BY <3>1, <3>2
      <4>4. Good(n)
        BY <3>1, <4>1, <4>2, <4>3, <4>5
      <4> HIDE DEF Good
      <4> QED
        BY <3>1, <4>4
    <3>3. CASE n # 1
      <4>0. n - 1 # 0 /\ n - 1 \in Nat
        BY <3>3
      <4>1. f[n] = f[n - 1] \o ss[n]
        BY <2>11, <3>3, Zenon
      <4>2. Good(n - 1)
        <5> HIDE DEF Good
        <5> QED
          BY <2>13, <4>0
      <4>3. f[n] \in V /\ Range(f[n]) = Range(f[n - 1]) \cup Range(ss[n])
        BY <3>1, <4>1, <4>2, ConcatIn
      <4>4. \A i \in 1 .. n : i \in 1 .. n - 1 \/ i = n
        OBVIOUS
      <4>6. Len(f[n]) = Len(f[n - 1]) + Len(ss[n]) /\ Len(f[n - 1]) \in Nat
        BY <3>1, <4>1, <4>2, LenProperties, ConcatProperties
      <4>7. ss[n] # <<>> => Len(ss[n]) \in Nat /\ Len(ss[n]) >= 1
        BY <3>1
      <4>8. (\A i \in 1 .. N : ss[i] # <<>>) => Len(f[n]) >= n
        <5> SUFFICES ASSUME \A i \in 1 .. N : ss[i] # <<>> PROVE Len(f[n]) >= n
          OBVIOUS
        <5>1. Len(f[n - 1]) >= n - 1
          BY <4>2, Zenon
        <5>2. Len(ss[n]) \in Nat /\ Len(ss[n]) >= 1
          BY <4>7
        <5> DEFINE a == Len(f[n - 1])
                   b == Len(ss[n])
                   c == Len(f[n])
        <5>3. n \in Int /\ a \in Nat /\ b \in Nat /\ c = a + b /\ a >= n - 1 /\ b >= 1
          BY <4>0, <4>6, <5>1, <5>2
        <5> HIDE DEF a, b, c
        <5>4. c >= n
          BY <5>3
        <5> QED
          BY <5>4 DEF c
      <4>5. Good(n)
        BY <4>2, <4>3, <4>4, <4>8, SMTT(30)
      <4> HIDE DEF Good
      <4> QED
        BY <3>1, <4>5
    <3> QED
      BY <3>2, <3>3
  <2>14. \A n \in 0 .. N : n \in S
    <3> HIDE DEF S, N
    <3> QED
      BY <1>1, <2>12, <2>13, UpFrom
  <2>15. Good(N)
    <3> HIDE DEF Good
    <3>1. N \in 0 .. N
      BY <1>1
    <3> QED
      BY <1>3, <2>14, <3>1
  <2>16. /\ f[N] \in V
         /\ \A x : x \in Range(f[N]) <=> \E i \in 1 .. N : x \in Range(ss[i])
         /\ (\A i \in 1 .. N : ss[i] # <<>>) => Len(f[N]) >= N
    BY <2>15, Zenon
  <2> QED
    BY <1>1, <2>10, <2>16, Zenon
<1> QED
  BY <1>2, <1>3

\* The heaviest first: the same elements in another order.
LEMMA HeaviestIn ==
    ASSUME NEW X, NEW s \in Seq(X), NEW weight
    PROVE  /\ HeaviestFirst(s, weight) \in Seq(X)
           /\ Range(HeaviestFirst(s, weight)) \subseteq Range(s)
<1> DEFINE N == Len(s)
           V == Seq(Nat)
           nil == <<>>
           after(o, n) == 1 + Cardinality({j \in DOMAIN o : weight[o[j]] >= weight[n]})
           step == [p \in (1 .. N) \X V |-> InsertAt(p[2], after(p[2], p[1]), p[1])]
           Is(f) == f = [n \in 0 .. N |-> IF n = 0 THEN <<>>
                                          ELSE InsertAt(f[n - 1], after(f[n - 1], n), n)]
<1>1. N \in Nat /\ nil \in V
  OBVIOUS
<1>2. ASSUME NEW n \in 1 .. N, NEW o \in V
      PROVE  /\ after(o, n) \in 1 .. Len(o) + 1 
             /\ Len(InsertAt(o, after(o, n), n)) = Len(o) + 1
             /\ InsertAt(o, after(o, n), n) \in V
             /\ Range(InsertAt(o, after(o, n), n)) \subseteq Range(o) \cup {n}
  <2> DEFINE T == {j \in DOMAIN o : weight[o[j]] >= weight[n]}
  <2>0. Len(o) \in Nat
    OBVIOUS
  <2>1. IsFiniteSet(1 .. Len(o)) /\ Cardinality(1 .. Len(o)) = Len(o) /\ Len(o) \in Nat
    <3> DEFINE l == Len(o)
    <3> HIDE DEF l
    <3>1. l \in Nat
      BY <2>0 DEF l
    <3>2. IsFiniteSet(1 .. l) /\ Cardinality(1 .. l) = l
      BY <3>1, FS_Interval
    <3> QED
      BY <3>1, <3>2 DEF l
  <2>2. T \subseteq 1 .. Len(o)
    OBVIOUS
  <2>3. Cardinality(T) \in 0 .. Len(o)
    <3> HIDE DEF T
    <3>1. IsFiniteSet(T) /\ Cardinality(T) <= Len(o)
      BY <2>1, <2>2, FS_Subset
    <3> QED
      BY <2>1, <3>1, FS_CardinalityType
  <2> DEFINE k == after(o, n)
  <2>4. k \in 1 .. Len(o) + 1
    BY <2>1, <2>3
  <2> HIDE DEF k, T, after
  <2> DEFINE u == SubSeq(o, 1, k - 1)
             w == SubSeq(o, k, Len(o))
             q == u \o <<n>> \o w
  <2>5. q = InsertAt(o, k, n)
    BY DEF InsertAt
  <2>6. /\ u \in Seq(Nat) /\ Len(u) = k - 1 /\ \A i \in 1 .. Len(u) : u[i] = o[i]
        /\ w \in Seq(Nat) /\ Len(w) = (Len(o) + 1) - k
        /\ \A i \in 1 .. Len(w) : w[i] = o[(k + i) - 1]
    BY <2>1, <2>4
  <2>7. Range(u) \subseteq Range(o)
    <3>1. \A i \in 1 .. Len(u) : i \in DOMAIN o
      BY <2>1, <2>4, <2>6
    <3> HIDE DEF u
    <3> QED
      BY <2>6, <3>1 DEF Range
  <2>8. Range(w) \subseteq Range(o)
    <3>1. \A i \in 1 .. Len(w) : (k + i) - 1 \in DOMAIN o
      BY <2>1, <2>4, <2>6
    <3> HIDE DEF w
    <3> QED
      BY <2>6, <3>1 DEF Range
  <2>9. <<n>> \in Seq(Nat) /\ Len(<<n>>) = 1 /\ Range(<<n>>) = {n}
    BY DEF Range
  <2> HIDE DEF u, w
  <2> DEFINE v == <<n>>
  <2> HIDE DEF v
  <2>10. v \in Seq(Nat) /\ Len(v) = 1 /\ Range(v) = {n}
    BY <2>9 DEF v
  <2>11. /\ u \o v \in Seq(Nat) /\ Len(u \o v) = Len(u) + Len(v)
         /\ Range(u \o v) = Range(u) \cup Range(v)
    <3>0. u \in Seq(Nat) /\ v \in Seq(Nat)
      BY <2>6, <2>10
    <3>1. u \o v \in Seq(Nat) /\ Len(u \o v) = Len(u) + Len(v)
      BY <3>0, ConcatProperties, Zenon
    <3>2. Range(u \o v) = Range(u) \cup Range(v)
      BY <3>0, ConcatIn
    <3> QED
      BY <3>1, <3>2, Zenon
  <2> DEFINE x == u \o v
  <2>12. x \in Seq(Nat) /\ Len(x) = Len(u) + 1 /\ Range(x) = Range(u) \cup {n}
    BY <2>10, <2>11
  <2>13. q = x \o w
    BY DEF v
  <2> HIDE DEF x, q
  <2>14. q \in Seq(Nat) /\ Len(q) = Len(x) + Len(w) /\ Range(q) = Range(x) \cup Range(w)
    <3>1. x \in Seq(Nat) /\ w \in Seq(Nat)
      BY <2>6, <2>12
    <3>2. q \in Seq(Nat) /\ Len(q) = Len(x) + Len(w)
      BY <2>13, <3>1, ConcatProperties
    <3>3. Range(q) = Range(x) \cup Range(w)
      BY <2>13, <3>1, ConcatIn
    <3> QED
      BY <3>2, <3>3
  <2>15. Range(q) \subseteq Range(o) \cup {n}
    BY <2>7, <2>8, <2>12, <2>14
  <2>16. Len(q) = Len(o) + 1
    BY <2>0, <2>4, <2>6, <2>12, <2>14
  <2> QED
    BY <2>4, <2>5, <2>14, <2>15, <2>16 DEF k
<1> HIDE DEF after
<1>3. step \in [(1 .. N) \X V -> V]
  <2>1. ASSUME NEW p \in (1 .. N) \X V PROVE InsertAt(p[2], after(p[2], p[1]), p[1]) \in V
    <3> HIDE DEF N, V
    <3>1. p[1] \in 1 .. N /\ p[2] \in V
      OBVIOUS
    <3> QED
      BY <1>2, <3>1
  <2> HIDE DEF N, V
  <2> QED
    BY <2>1
<1>4. \E f : Is(f)
  <2>1. IsStep(N, V, nil, step)
    BY <1>1, <1>3 DEF IsStep
  <2>2. PICK f : Follows(f, N, V, nil, step)
    <3> HIDE DEF step, N, V, nil
    <3> QED
      BY <2>1, Recursive
  <2>3. f \in [0 .. N -> V] /\ f[0] = nil /\ \A n \in 1 .. N : f[n] = step[<<n, f[n - 1]>>]
    BY <2>2 DEF Follows
  <2>4. ASSUME NEW n \in 1 .. N PROVE f[n] = InsertAt(f[n - 1], after(f[n - 1], n), n)
    <3>1. <<n, f[n - 1]>> \in (1 .. N) \X V
      <4> HIDE DEF V
      <4> QED
        BY <1>1, <2>3
    <3> HIDE DEF V, N
    <3> QED
      BY <2>3, <3>1
  <2>5. f = [n \in 0 .. N |-> f[n]] /\ f[0] = <<>>
    BY <2>3
  <2>6. Is(f)
    BY <2>4, <2>5
  <2> QED
    BY <2>6
<1> DEFINE f == CHOOSE g : Is(g)
<1>5. Is(f)
  BY <1>4, Zenon
<1>6. HeaviestFirst(s, weight) = [k \in DOMAIN s |-> s[f[N][k]]]
  BY Zenon DEF HeaviestFirst, Inserted, after
<1> HIDE DEF f
<1>7. \A n \in 0 .. N : f[n] = IF n = 0 THEN <<>>
                              ELSE InsertAt(f[n - 1], after(f[n - 1], n), n)
  <2> HIDE DEF N
  <2> QED
    BY <1>5, Zenon
<1> DEFINE Good(n) == f[n] \in V /\ Len(f[n]) = n /\ Range(f[n]) \subseteq 1 .. n
           S == {n \in 0 .. N : Good(n)}
<1>8. 0 \in S
  <2>1. f[0] = <<>> /\ 0 \in 0 .. N
    BY <1>1, <1>7
  <2>2. Good(0)
    BY <2>1 DEF Range
  <2> HIDE DEF Good
  <2> QED
    BY <2>1, <2>2
<1>9. ASSUME NEW n \in 1 .. N, n - 1 \in S PROVE n \in S
  <2>1. Good(n - 1) /\ n \in 0 .. N
    <3> HIDE DEF Good
    <3> QED
      BY <1>1, <1>9
  <2>2. f[n] = InsertAt(f[n - 1], after(f[n - 1], n), n)
    <3> HIDE DEF N
    <3>1. n \in 0 .. N /\ n # 0
      BY <1>1
    <3> QED
      BY <1>7, <3>1, Zenon
  <2>3. /\ f[n] \in V /\ Len(f[n]) = Len(f[n - 1]) + 1
        /\ Range(f[n]) \subseteq Range(f[n - 1]) \cup {n}
    <3> HIDE DEF V, N
    <3> QED
      BY <1>2, <2>1, <2>2
  <2>4. Good(n)
    <3> HIDE DEF V
    <3> QED
      BY <1>1, <2>1, <2>3
  <2> HIDE DEF Good
  <2> QED
    BY <2>1, <2>4
<1>10. \A n \in 0 .. N : n \in S
  <2> HIDE DEF S, N
  <2> QED
    BY <1>1, <1>8, <1>9, UpFrom
<1>11. Good(N)
  <2> HIDE DEF Good
  <2>1. N \in 0 .. N
    BY <1>1
  <2> QED
    BY <1>10, <2>1
<1> DEFINE h == [k \in 1 .. N |-> s[f[N][k]]]
<1>12. h = HeaviestFirst(s, weight)
  BY <1>6
<1>13. ASSUME NEW k \in 1 .. N PROVE s[f[N][k]] \in Range(s)
  <2>1. k \in DOMAIN f[N]
    BY <1>11
  <2>2. f[N][k] \in 1 .. N
    BY <1>11, <2>1 DEF Range
  <2> QED
    BY <2>2 DEF Range
<1>14. Range(h) \subseteq Range(s) /\ Range(s) \subseteq X
  <2> HIDE DEF N
  <2>1. DOMAIN h = 1 .. N
    OBVIOUS
  <2> QED
    BY <1>13, <2>1 DEF Range
<1>15. h \in Seq(X)
  <2> HIDE DEF N
  <2>1. h \in [1 .. N -> X]
    BY <1>13, <1>14
  <2> QED
    BY <1>1, <2>1
<1> QED
  BY <1>12, <1>14, <1>15

-----------------------------------------------------------------------------
(* Names and texts *)

\* A name, or none; the cues a text may have.
Some == Names \cup {NoName}
Cues == Facets \cup Phrases \cup Periods

\* A text is a sequence of names and a set of cues.
LEMMA TextIs ==
    /\ \A t \in Texts : t.names \in Seq(Names) /\ t.cues \subseteq Cues
    /\ \A n \in Seq(Names), c \in SUBSET Cues : [names |-> n, cues |-> c] \in Texts
BY DEF Texts, Cues

\* The first name of a list is in it, or there is none.
LEMMA FirstIn ==
    ASSUME NEW X, NEW s \in Seq(X)
    PROVE  FirstOf(s) \in Range(s) \cup {NoName}
<1> DEFINE K == {i \in DOMAIN s : s[i] # NoName}
           c == Pick(s, K)
<1>1. c \in Seq(X) /\ Range(c) \subseteq Range(s)
  <2> HIDE DEF K
  <2> QED
    BY PickIn
<1>2. Clean(s) = c
  BY DEF Clean
<1> HIDE DEF c
<1>3. c # <<>> => c[1] \in Range(c)
  BY <1>1 DEF Range
<1> QED
  BY <1>1, <1>2, <1>3 DEF FirstOf

\* The subjects of a text are of its names.
LEMMA SubjectsIn ==
    ASSUME NEW X, NEW t, t.names \in Seq(X)
    PROVE  SubjectsOf(t) \in Seq(X) /\ Range(SubjectsOf(t)) \subseteq Range(t.names)
<1> DEFINE n == t.names
           real == Keep(n, Names \ Noise)
           all == IF real = <<>> THEN n ELSE real
<1>1. n \in Seq(X)
  OBVIOUS
<1>2. real \in Seq(X) /\ Range(real) \subseteq Range(n)
  <2> HIDE DEF n
  <2> QED
    BY <1>1, KeepIn
<1> HIDE DEF real
<1>3. all \in Seq(X) /\ Range(all) \subseteq Range(n)
  BY <1>1, <1>2
<1>4. SubjectsOf(t) = IF Has(t, "lead") THEN <<>> ELSE Dedup(all)
  BY DEF SubjectsOf, real
<1> HIDE DEF all, n
<1>5. Dedup(all) \in Seq(X) /\ Range(Dedup(all)) = Range(all)
  BY <1>3, DedupIn
<1>6. <<>> \in Seq(X) /\ Range(<<>>) = {}
  BY DEF Range
<1> QED
  BY <1>3, <1>4, <1>5, <1>6 DEF n

\* Any set of numbers that is not empty has a least, and a finite one a greatest.
LEMMA HasMin == ASSUME NEW T \in SUBSET Nat, T # {} PROVE Min(T) \in T
<1>1. \E m \in T : \A k \in T : <<k, m>> \notin OpToRel(<, Nat)
  BY WFMin, NatLessThanWellFounded, Zenon
<1>2. PICK m \in T : \A k \in T : <<k, m>> \notin OpToRel(<, Nat)
  BY <1>1
<1>3. \A k \in T : ~(k < m)
  BY <1>2, Zenon DEF OpToRel
<1>4. \A k \in T : m <= k
  BY <1>3
<1> QED
  BY <1>4 DEF Min

LEMMA HasMax == ASSUME NEW n \in Nat, NEW T \in SUBSET (1 .. n), T # {} PROVE Max(T) \in T
<1> DEFINE D == {d \in 0 .. n : n - d \in T}
<1>1. D \in SUBSET Nat
  OBVIOUS
<1>2. PICK t \in T : TRUE
  OBVIOUS
<1>3. n - t \in D
  <2>1. n - t \in 0 .. n /\ n - (n - t) = t
    BY <1>2
  <2> QED
    BY <2>1
<1>4. PICK m \in D : \A k \in D : <<k, m>> \notin OpToRel(<, Nat)
  <2> HIDE DEF D
  <2> QED
    BY <1>1, <1>3, WFMin, NatLessThanWellFounded, Zenon
<1>5. m \in D /\ \A k \in D : ~(k < m)
  BY <1>1, <1>4, Zenon DEF OpToRel
<1>6. n - m \in T
  BY <1>5
<1>7. ASSUME NEW k \in T PROVE n - m >= k
  <2>1. n - k \in 0 .. n /\ n - (n - k) = k
    OBVIOUS
  <2>2. n - k \in D
    BY <2>1
  <2>3. ~(n - k < m)
    BY <1>5, <2>2
  <2>4. m \in 0 .. n /\ k \in 1 .. n
    BY <1>5
  <2> HIDE DEF D
  <2> QED
    BY <2>3, <2>4
<1> QED
  BY <1>6, <1>7 DEF Max

\* The last place where something is so, or 0 where it never is.
LEMMA LastWhere ==
    ASSUME NEW n \in Nat, NEW T \in SUBSET (1 .. n)
    PROVE  (IF T # {} THEN Max(T) ELSE 0) \in T \cup {0}
BY HasMax

\* What a session keeps of a turn, and of what an answered turn found.
Turns == [user : Texts, trusted : BOOLEAN]
Traces == [user : Texts, place : Some, topic : Some, chunks : Seq(Ids)]

\* The parts of a session that the resolution of a question reads.
SessionOK(s) ==
    /\ s.turns \in Seq(Turns) /\ s.evidence \in Seq(Traces)
    /\ {s.place, s.topic, s.subject, s.person, s.anchor, s.event} \subseteq Some
    /\ s.entities \in Seq(Names) /\ s.people \in Seq(Names)
    /\ s.period \in Periods \cup {NoName}

\* What earlier turns were about is a list of names.
LEMMA ReferencedIn ==
    ASSUME NEW q, NEW s, SessionOK(s)
    PROVE  ReferencedSubjects(q, s) \in Seq(Names)
<1> DEFINE I == {j \in 1 .. Len(s.evidence) : Len(SubjectsOf(s.evidence[j].user)) >= 2}
           i == IF I # {} THEN Max(I) ELSE 0
<1>1. s.evidence \in Seq(Traces) /\ Len(s.evidence) \in Nat
  BY DEF SessionOK
<1>2. i \in I \cup {0}
  BY <1>1, LastWhere
<1>3. ReferencedSubjects(q, s) =
          IF {"both", "doubt"} \cap q.cues # {} /\ i # 0
          THEN UpTo(SubjectsOf(s.evidence[i].user), 2) ELSE <<>>
  BY DEF ReferencedSubjects, SelectLastInSeq
<1> HIDE DEF i
<1>4. ASSUME i # 0 PROVE UpTo(SubjectsOf(s.evidence[i].user), 2) \in Seq(Names)
  <2>0. i \in 1 .. Len(s.evidence)
    BY <1>2, <1>4
  <2>1. s.evidence[i] \in Traces
    BY <1>1, <2>0
  <2>2. s.evidence[i].user.names \in Seq(Names)
    BY <2>1, TextIs DEF Traces
  <2>3. SubjectsOf(s.evidence[i].user) \in Seq(Names)
    BY <2>2, SubjectsIn
  <2> QED
    BY <2>3, UpToIn
<1> QED
  BY <1>3, <1>4

\* The places and the persons of a question are names; the persons it names itself.
LEMMA PlacesIn ==
    ASSUME NEW q \in Texts, NEW s, SessionOK(s)
    PROVE  PlacesOf(q, s) \in Seq(Names)
<1> DEFINE named == Keep(q.names, Places)
           sibling == IF {"compare", "sibling"} \subseteq q.cues /\ s.subject \in Names
                      THEN Rival[s.subject] ELSE {}
           other == CHOOSE n \in sibling : TRUE
           two == <<s.subject, other>>
<1>1. named \in Seq(Names)
  BY TextIs, KeepIn
<1>2. ASSUME sibling # {} PROVE two \in Seq(Names)
  <2>1. s.subject \in Names /\ sibling \subseteq Names
    BY <1>2, NamesAssumption
  <2>2. other \in Names
    BY <1>2, <2>1
  <2> QED
    BY <2>1, <2>2
<1> HIDE DEF named, two
<1>3. Dedup(named) \in Seq(Names)
  BY <1>1, DedupIn
<1>4. ASSUME sibling # {} PROVE Dedup(two \o named) \in Seq(Names)
  <2>1. two \o named \in Seq(Names)
    BY <1>1, <1>2, <1>4, ConcatIn
  <2> QED
    BY <2>1, DedupIn
<1>5. PlacesOf(q, s) = IF sibling = {} THEN Dedup(named) ELSE Dedup(two \o named)
  BY DEF PlacesOf, named, two
<1> HIDE DEF sibling
<1> QED
  BY <1>3, <1>4, <1>5

LEMMA PeopleIn ==
    ASSUME NEW q \in Texts, NEW s
    PROVE  /\ PeopleOf(q, s) \in Seq(Names)
           /\ Range(PeopleOf(q, s)) \subseteq Range(q.names)
<1> DEFINE N == q.names
           persons == Dedup(Keep(N, People))
           short == Dedup(Keep(N, Short))
           only == SubjectsOf(q)
<1>1. N \in Seq(Names)
  BY TextIs
<1>2. only \in Seq(Names) /\ Range(only) \subseteq Range(N)
  BY <1>1, SubjectsIn
<1> HIDE DEF N, only
<1>3. persons \in Seq(Names) /\ Range(persons) \subseteq Range(N)
  BY <1>1, KeepIn, DedupIn
<1>4. short \in Seq(Names) /\ Range(short) \subseteq Range(N)
  BY <1>1, KeepIn, DedupIn
<1>5. <<>> \in Seq(Names) /\ Range(<<>>) = {}
  BY DEF Range
<1> DEFINE none == <<>>
           named == IF {"related", "them"} \cap q.cues # {} THEN none
                    ELSE IF ~Has(q, "bare") THEN persons
                    ELSE IF Has(q, "then") \/ s.people # <<>> THEN short
                    ELSE none
           alone == /\ named = <<>>
                    /\ ~Has(q, "there") /\ ~Has(q, "transform")
                    /\ {"people", "role"} \cap q.cues # {}
                    /\ Len(only) = 1 /\ only[1] \in Short
<1>6. PeopleOf(q, s) = IF alone THEN only ELSE named
  BY Zenon DEF PeopleOf, only, N
<1> HIDE DEF persons, short, alone, none
<1>7. none \in Seq(Names) /\ Range(none) = {}
  BY <1>5 DEF none
<1>8. named \in Seq(Names) /\ Range(named) \subseteq Range(N)
  BY <1>3, <1>4, <1>7
<1> HIDE DEF named
<1> QED
  BY <1>2, <1>6, <1>8 DEF N

\* What a question returns to it names itself.
LEMMA ReturnIn ==
    ASSUME NEW q \in Texts, NEW s, SessionOK(s)
    PROVE  ReturnTarget(q, s) \in Range(q.names) \cup {NoName}
<1> DEFINE E == s.evidence
           at(i) == LET t == Reverse(E)[i] IN <<t.topic, t.place>> \o SubjectsOf(t.user)
           ss == [i \in 1 .. Len(E) |-> at(i)]
           N == q.names
           known == FlattenSeq(ss)
           named == Keep(known, Range(N))
<1>1. E \in Seq(Traces) /\ Len(E) \in Nat
  BY DEF SessionOK
<1>2. N \in Seq(Names)
  BY TextIs
<1> HIDE DEF E, N
<1>3. ASSUME NEW i \in 1 .. Len(E) PROVE at(i) \in Seq(Some)
  <2> DEFINE t == E[(Len(E) - i) + 1]
  <2>1. Reverse(E)[i] = t /\ t \in Traces
    BY <1>1 DEF Reverse
  <2> HIDE DEF t
  <2>2. <<t.topic, t.place>> \in Seq(Some)
    BY <2>1 DEF Traces
  <2>3. SubjectsOf(t.user) \in Seq(Some)
    <3>1. t.user.names \in Seq(Names)
      BY <2>1, TextIs DEF Traces
    <3>2. SubjectsOf(t.user) \in Seq(Names)
      BY <3>1, SubjectsIn
    <3> QED
      BY <3>2 DEF Some
  <2> DEFINE pair == <<t.topic, t.place>>
             subjects == SubjectsOf(t.user)
  <2> HIDE DEF pair, subjects
  <2>4. pair \o subjects \in Seq(Some)
    BY <2>2, <2>3, ConcatIn DEF pair, subjects
  <2> QED
    BY <2>1, <2>4 DEF pair, subjects
<1> HIDE DEF at
<1>4. ss \in Seq(Seq(Some))
  BY <1>1, <1>3
<1> HIDE DEF ss
<1>5. known \in Seq(Some)
  BY <1>4, FlattenIn
<1> HIDE DEF known
<1>6. named \in Seq(Some) /\ Range(named) \subseteq Range(N)
  BY <1>5, KeepIn
<1>7. N \in Seq(Some)
  BY <1>2 DEF Some
<1> HIDE DEF named
<1>8. named \o N \in Seq(Some) /\ Range(named \o N) = Range(named) \cup Range(N)
  BY <1>6, <1>7, ConcatIn
<1> DEFINE all == named \o N
<1>9. all \in Seq(Some) /\ Range(all) \subseteq Range(N)
  BY <1>6, <1>8
<1>10. ReturnTarget(q, s) = IF Has(q, "again") THEN FirstOf(all) ELSE NoName
  BY DEF ReturnTarget, named, known, ss, at, E, N
<1> HIDE DEF all
<1>11. FirstOf(all) \in Range(all) \cup {NoName}
  BY <1>9, FirstIn
<1> QED
  BY <1>9, <1>10, <1>11 DEF N

\* The first of a list with gaps is one of its names, or none.
LEMMA FirstSaid ==
    ASSUME NEW U, NEW s \in Seq(U \cup {NoName})
    PROVE  FirstOf(s) \in U \cup {NoName}
<1> DEFINE X == U \cup {NoName}
<1>1. s \in Seq(X) /\ NoName \in X
  OBVIOUS
<1> HIDE DEF X
<1>2. FirstOf(s) \in Range(s) \cup {NoName} /\ Range(s) \subseteq X
  BY <1>1, FirstIn, SeqRange
<1> QED
  BY <1>1, <1>2 DEF X

\* A name, a period, nothing, and texts put together are texts.
LEMMA TermIn == \A n \in Some : Term(n) \in Texts
<1> TAKE n \in Some
<1>1. <<>> \in Seq(Names) /\ (n # NoName => <<n>> \in Seq(Names))
  BY DEF Some
<1> DEFINE l == IF n = NoName THEN <<>> ELSE <<n>>
<1>2. Term(n) = [names |-> l, cues |-> {}]
  <2>1. Term(n) = [Blank EXCEPT !.names = l]
    BY DEF Term
  <2> HIDE DEF l
  <2> QED
    BY <2>1 DEF Blank
<1>3. l \in Seq(Names)
  BY <1>1
<1> HIDE DEF l
<1>4. [names |-> l, cues |-> {}] \in Texts
  BY <1>3, TextIs
<1> QED
  BY <1>2, <1>4 DEF l

LEMMA EraIn == \A p \in Periods \cup {NoName} : Era(p) \in Texts
<1> TAKE p \in Periods \cup {NoName}
<1>1. Era(p) = [names |-> <<>>, cues |-> {p} \ {NoName}]
  BY DEF Era, Blank
<1>2. {p} \ {NoName} \in SUBSET Cues /\ <<>> \in Seq(Names)
  BY DEF Cues
<1> QED
  BY <1>1, <1>2, TextIs

LEMMA BlankIn == Blank \in Texts
<1>1. <<>> \in Seq(Names) /\ {} \in SUBSET Cues
  OBVIOUS
<1> QED
  BY <1>1, TextIs DEF Blank

LEMMA JoinIn == \A t, u \in Texts : Join(t, u) \in Texts
<1> TAKE t, u \in Texts
<1> DEFINE n == t.names \o u.names
           c == t.cues \cup (u.cues \ {"lead"})
<1>1. t.names \in Seq(Names) /\ u.names \in Seq(Names) /\ c \in SUBSET Cues
  BY TextIs
<1>2. n \in Seq(Names)
  BY <1>1, ConcatIn
<1> HIDE DEF n, c
<1>3. [names |-> n, cues |-> c] \in Texts
  BY <1>1, <1>2, TextIs
<1> QED
  BY <1>3 DEF Join, n, c

\* A list of texts put together is a text.
LEMMA JoinedIn ==
    ASSUME NEW ts \in Seq(Texts), NEW t \in Texts
    PROVE  Joined(ts, t) \in Texts
<1> DEFINE N == Len(ts)
           V == Texts
           at(n) == Reverse(ts)[n]
           step == [p \in (1 .. N) \X V |-> Join(at(p[1]), p[2])]
           Is(f) == f = [n \in 0 .. N |-> IF n = 0 THEN t
                                          ELSE Join(Reverse(ts)[n], f[n - 1])]
<1>1. N \in Nat
  OBVIOUS
<1>2. ASSUME NEW n \in 1 .. N PROVE at(n) \in V
  <2>1. Reverse(ts)[n] = ts[(N - n) + 1] /\ (N - n) + 1 \in 1 .. N
    BY <1>1 DEF Reverse
  <2> QED
    BY <2>1
<1>3. step \in [(1 .. N) \X V -> V]
  <2>1. ASSUME NEW p \in (1 .. N) \X V PROVE Join(at(p[1]), p[2]) \in V
    <3> HIDE DEF N, at, V
    <3>1. p[1] \in 1 .. N /\ p[2] \in V
      OBVIOUS
    <3>2. at(p[1]) \in V
      BY <1>2, <3>1
    <3> QED
      BY <3>1, <3>2, JoinIn DEF V
  <2> HIDE DEF N, V, at
  <2> QED
    BY <2>1
<1>4. \E f : Is(f)
  <2>1. IsStep(N, V, t, step)
    BY <1>1, <1>3 DEF IsStep
  <2>2. PICK f : Follows(f, N, V, t, step)
    <3> HIDE DEF step, N, V
    <3> QED
      BY <2>1, Recursive
  <2>3. f \in [0 .. N -> V] /\ f[0] = t /\ \A n \in 1 .. N : f[n] = step[<<n, f[n - 1]>>]
    BY <2>2 DEF Follows
  <2>4. ASSUME NEW n \in 1 .. N PROVE f[n] = Join(at(n), f[n - 1])
    <3>0. n - 1 \in 0 .. N
      OBVIOUS
    <3> HIDE DEF V, N, at
    <3>1. <<n, f[n - 1]>> \in (1 .. N) \X V
      BY <2>3, <3>0
    <3> QED
      BY <2>3, <3>1
  <2>5. f = [n \in 0 .. N |-> f[n]] /\ f[0] = t
    BY <2>3
  <2>6. Is(f)
    BY <2>4, <2>5
  <2> QED
    BY <2>6
<1> DEFINE f == CHOOSE g : Is(g)
<1>5. Is(f)
  BY <1>4, Zenon
<1>6. Joined(ts, t) = f[N]
  BY Zenon DEF Joined
<1> HIDE DEF f
<1>7. \A n \in 0 .. N : f[n] = IF n = 0 THEN t ELSE Join(Reverse(ts)[n], f[n - 1])
  <2> HIDE DEF N
  <2> QED
    BY <1>5, Zenon
<1> DEFINE S == {n \in 0 .. N : f[n] \in V}
<1>8. 0 \in S
  <2>1. 0 \in 0 .. N
    BY <1>1
  <2> QED
    BY <1>7, <2>1
<1>9. ASSUME NEW n \in 1 .. N, n - 1 \in S PROVE n \in S
  <2>1. n \in 0 .. N /\ n # 0
    BY <1>1
  <2>2. f[n] = Join(at(n), f[n - 1])
    BY <1>7, <2>1, Zenon
  <2>3. f[n - 1] \in V
    BY <1>9
  <2>4. f[n] \in V
    BY <1>2, <2>2, <2>3, JoinIn
  <2> QED
    BY <2>1, <2>4
<1>10. \A n \in 0 .. N : n \in S
  <2> HIDE DEF S, N
  <2> QED
    BY <1>1, <1>8, <1>9, UpFrom
<1>11. f[N] \in V
  <2>1. N \in 0 .. N
    BY <1>1
  <2> QED
    BY <1>10, <2>1
<1> QED
  BY <1>6, <1>11

\* A list of texts stays one without the empty ones.
LEMMA FilledIn == \A ts \in Seq(Texts) : Filled(ts) \in Seq(Texts)
BY PickIn DEF Filled

-----------------------------------------------------------------------------
(* What a question is read as *)

\* The names the conversation goes on with are some of U.
SessionSaid(s, U) ==
    /\ {s.place, s.topic, s.subject, s.person, s.anchor, s.event} \cup Range(s.people)
           \subseteq U \cup {NoName}
    /\ \A i \in DOMAIN s.evidence : s.evidence[i].topic \in U \cup {NoName}

\* How a question is read: names, and only what a session with turns can make of it.
ReadingTyped(s, r) ==
    /\ r.places \in Seq(Names) /\ r.people \in Seq(Names) /\ r.entities \in Seq(Names)
    /\ r.target \in Some /\ r.referent \in Some
    /\ r.first => s.evidence # <<>>
    /\ r.kind # "independent" \/ r.parallel => s.turns # <<>>
    /\ r.parallel => r.people # <<>>

\* What a question is read to be about is of the names U.
ReadingSaid(r, U) ==
    /\ Range(r.places) \cup Range(r.people) \subseteq U
    /\ {r.target, r.referent} \subseteq U \cup {NoName}

\* Every question is read as names.
LEMMA ReadingIn ==
    ASSUME NEW q \in Texts, NEW s, SessionOK(s)
    PROVE  ReadingTyped(s, Reading(q, s))
<1> DEFINE places == PlacesOf(q, s)
           people == PeopleOf(q, s)
           referenced == ReferencedSubjects(q, s)
           subjects == SubjectsOf(q)
           all == places \o people \o referenced \o subjects
           r == Reading(q, s)
<1>1. /\ places \in Seq(Names) /\ people \in Seq(Names) /\ referenced \in Seq(Names)
      /\ subjects \in Seq(Names)
  <2>1. q.names \in Seq(Names)
    BY TextIs
  <2> QED
    BY <2>1, PlacesIn, PeopleIn, ReferencedIn, SubjectsIn
<1>2. /\ r.places = places /\ r.people = people /\ r.entities = Dedup(all)
      /\ r.target = ReturnTarget(q, s)
      /\ r.referent = IF Has(q, "them") THEN ReferencedPerson(s) ELSE NoName
      /\ r.first => s.evidence # <<>>
      /\ r.kind # "independent" \/ r.parallel => s.turns # <<>>
      /\ r.parallel => people # <<>>
  BY DEF Reading
<1> HIDE DEF places, people, referenced, subjects, r
<1>3. all \in Seq(Names)
  BY <1>1, ConcatIn
<1>4. Dedup(all) \in Seq(Names)
  BY <1>3, DedupIn
<1>5. ReturnTarget(q, s) \in Some
  <2>1. q.names \in Seq(Names)
    BY TextIs
  <2>2. Range(q.names) \subseteq Names
    BY <2>1, SeqRange
  <2> QED
    BY <2>2, ReturnIn DEF Some
<1>6. ReferencedPerson(s) \in Some
  <2>1. s.people \in Seq(Names) /\ s.person \in Some /\ s.topic \in Some
    BY DEF SessionOK
  <2>2. Len(s.people) = 1 => s.people[1] \in Names
    BY <2>1
  <2> QED
    BY <2>1, <2>2 DEF ReferencedPerson, Some
<1>7. NoName \in Some
  BY DEF Some
<1> HIDE DEF all
<1>8. ReadingTyped(s, r)
  BY <1>1, <1>2, <1>4, <1>5, <1>6, <1>7 DEF ReadingTyped
<1> QED
  BY <1>8 DEF r

\* A question read in a session that stands for U, of whose names and places are of U,
\* is about names of U.
LEMMA ReadingOfSaid ==
    ASSUME NEW q \in Texts, NEW s, SessionOK(s), NEW U, SessionSaid(s, U),
           Range(q.names) \subseteq U, Range(PlacesOf(q, s)) \subseteq U
    PROVE  ReadingSaid(Reading(q, s), U)
<1> DEFINE r == Reading(q, s)
<1>1. /\ r.places = PlacesOf(q, s) /\ r.people = PeopleOf(q, s)
      /\ r.target = ReturnTarget(q, s)
      /\ r.referent = IF Has(q, "them") THEN ReferencedPerson(s) ELSE NoName
  BY DEF Reading
<1> HIDE DEF r
<1>2. Range(r.people) \subseteq U
  BY <1>1, PeopleIn
<1>3. r.target \in U \cup {NoName}
  BY <1>1, ReturnIn
<1>4. ReferencedPerson(s) \in U \cup {NoName}
  <2>1. s.people \in Seq(Names) /\ Range(s.people) \subseteq U \cup {NoName}
    BY DEF SessionOK, SessionSaid
  <2>2. Len(s.people) = 1 => s.people[1] \in Range(s.people)
    BY <2>1 DEF Range
  <2>3. {s.person, s.topic} \subseteq U \cup {NoName}
    BY DEF SessionSaid
  <2> QED
    BY <2>1, <2>2, <2>3 DEF ReferencedPerson
<1>5. ReadingSaid(r, U)
  BY <1>1, <1>2, <1>3, <1>4 DEF ReadingSaid
<1> QED
  BY <1>5 DEF r

\* The place a question is about is the client's or of U.
LEMMA ActivePlaceIn ==
    ASSUME NEW q, NEW s, NEW r, NEW U, NEW here \in U \cup {NoName},
           SessionSaid(s, U), ReadingTyped(s, r), ReadingSaid(r, U)
    PROVE  ActivePlace(q, s, r, here) \in U \cup {NoName}
<1>1. s.place \in U \cup {NoName}
  BY DEF SessionSaid
<1>2. <<s.place, here>> \in Seq(U \cup {NoName})
  BY <1>1
<1>3. FirstOf(<<s.place, here>>) \in U \cup {NoName}
  BY <1>2, FirstSaid
<1>4. r.places # <<>> => r.places[1] \in U
  BY DEF ReadingTyped, ReadingSaid, Range
<1> QED
  BY <1>3, <1>4 DEF ActivePlace

\* What the client brought up, as a list with gaps.
LEMMA SaidSeq ==
    ASSUME NEW s \in Seq(Names), NEW U, Range(s) \subseteq U
    PROVE  s \in Seq(U \cup {NoName})
BY InSeqOf

\* The subject a question is about is of U.
LEMMA ActiveSubjectIn ==
    ASSUME NEW q \in Texts, NEW s, NEW r, NEW U, NEW person \in U \cup {NoName},
           SessionSaid(s, U), ReadingTyped(s, r), ReadingSaid(r, U), Range(q.names) \subseteq U
    PROVE  ActiveSubject(q, s, r, person) \in U \cup {NoName}
<1> DEFINE X == U \cup {NoName}
           events == Keep(q.names, Events)
           own == SubjectsOf(q)
           rest == <<s.anchor, s.subject, s.topic>>
           places == r.places
           all == places \o events \o own \o rest
<1>1. q.names \in Seq(Names)
  BY TextIs
<1>2. events \in Seq(X)
  BY <1>1, KeepIn, SaidSeq
<1>3. own \in Seq(X)
  BY <1>1, SubjectsIn, SaidSeq
<1>4. rest \in Seq(X) /\ s.anchor \in X
  BY DEF SessionSaid
<1>5. places \in Seq(X)
  BY SaidSeq DEF ReadingTyped, ReadingSaid
<1> HIDE DEF X, events, own, rest, places
<1>6. all \in Seq(X)
  BY <1>2, <1>3, <1>4, <1>5, ConcatIn
<1>7. FirstOf(rest) \in X /\ FirstOf(all) \in X
  BY <1>4, <1>6, FirstSaid DEF X
<1>8. ActiveSubject(q, s, r, person) \in {FirstOf(rest), s.anchor, person, FirstOf(all)}
  BY DEF ActiveSubject, events, own, rest, places
<1>9. person \in X
  BY DEF X
<1> QED
  BY <1>4, <1>7, <1>8, <1>9 DEF X

\* The person a question is about is of U.
LEMMA PersonIn ==
    ASSUME NEW s, NEW r, NEW U,
           SessionSaid(s, U), ReadingTyped(s, r), ReadingSaid(r, U)
    PROVE  FirstOf(UpTo(r.people, 1) \o <<r.referent, s.person>>) \in U \cup {NoName}
<1> DEFINE X == U \cup {NoName}
           people == r.people
           rest == <<r.referent, s.person>>
<1>1. people \in Seq(X)
  BY SaidSeq DEF ReadingTyped, ReadingSaid
<1>2. rest \in Seq(X)
  BY DEF SessionSaid, ReadingSaid
<1> HIDE DEF X, rest, people
<1>3. UpTo(people, 1) \in Seq(X)
  BY <1>1, UpToIn
<1>4. UpTo(people, 1) \o rest \in Seq(X)
  BY <1>2, <1>3, ConcatIn
<1> QED
  BY <1>4, FirstSaid DEF X, rest, people

\* What a question sets in the conversation: names of U, if the names before it, its
\* own names and the place of the client are of U.
ContextSaid(ctx, U) ==
    {ctx.place, ctx.topic, ctx.subject, ctx.person, ctx.event} \cup Range(ctx.people)
        \subseteq U \cup {NoName}

\* A question resolved in a session that stands for U is about names of U.
LEMMA ResolvedSaid ==
    ASSUME NEW q \in Texts, NEW s, SessionOK(s), NEW r, NEW U, NEW here \in U \cup {NoName},
           SessionSaid(s, U), ReadingTyped(s, r), ReadingSaid(r, U), Range(q.names) \subseteq U
    PROVE  ContextSaid(Resolved(q, s, here, r), U)
<1> DEFINE X == U \cup {NoName}
           ctx == Resolved(q, s, here, r)
           person == FirstOf(UpTo(r.people, 1) \o <<r.referent, s.person>>)
           subject == ActiveSubject(q, s, r, person)
           events == Keep(q.names, Events)
           topics == <<subject>> \o events \o <<s.topic>>
           later == events \o <<s.event>>
           both == r.people \o s.people
<1>1. ctx.place \in X
  <2>1. ctx.place = ActivePlace(q, s, r, here)
    BY DEF Resolved
  <2> QED
    BY <2>1, ActivePlaceIn
<1>2. person \in X
  BY PersonIn
<1>3. subject \in X
  <2> HIDE DEF person
  <2> QED
    BY <1>2, ActiveSubjectIn
<1>4. /\ ctx.person = person /\ ctx.subject = subject /\ ctx.event = FirstOf(later)
      /\ ctx.topic = IF r.first THEN s.evidence[1].topic
                     ELSE IF r.target # NoName THEN r.target ELSE FirstOf(topics)
      /\ ctx.people = UpTo(Dedup(both), 4)
  BY DEF Resolved
<1>5. events \in Seq(X)
  <2>1. q.names \in Seq(Names)
    BY TextIs
  <2> QED
    BY <2>1, KeepIn, SaidSeq
<1>6. s.topic \in X /\ s.event \in X /\ r.target \in X
  BY DEF SessionSaid, ReadingSaid
<1>7. r.first => s.evidence[1].topic \in X
  <2>1. r.first => 1 \in DOMAIN s.evidence
    BY DEF ReadingTyped, SessionOK
  <2> QED
    BY <2>1 DEF SessionSaid
<1> HIDE DEF ctx, person, subject, events
<1>8. FirstOf(topics) \in X /\ FirstOf(later) \in X
  <2> DEFINE a == <<subject>>
             b == <<s.topic>>
             c == <<s.event>>
  <2>1. a \in Seq(X) /\ b \in Seq(X) /\ c \in Seq(X)
    BY <1>3, <1>6
  <2> HIDE DEF X, a, b, c
  <2>2. (a \o events) \o b \in Seq(X) /\ events \o c \in Seq(X)
    BY <1>5, <2>1, ConcatIn
  <2>3. FirstOf((a \o events) \o b) \in X /\ FirstOf(events \o c) \in X
    BY <2>2, FirstSaid DEF X
  <2> QED
    BY <2>3 DEF a, b, c
<1>9. Range(ctx.people) \subseteq X
  <2> HIDE DEF both
  <2>1. both \in Seq(X)
    <3> DEFINE p == r.people
               o == s.people
    <3>1. p \in Seq(X) /\ o \in Seq(X)
      <4>1. p \in Seq(X)
        BY SaidSeq DEF ReadingTyped, ReadingSaid
      <4>2. s.people \in Seq(Names) /\ Range(s.people) \subseteq X
        BY DEF SessionOK, SessionSaid
      <4> QED
        BY <4>1, <4>2, InSeqOf
    <3> HIDE DEF X, p, o
    <3>2. p \o o \in Seq(X)
      BY <3>1, ConcatIn
    <3> QED
      BY <3>2 DEF both, p, o
  <2> HIDE DEF X
  <2>2. Dedup(both) \in Seq(X)
    BY <2>1, DedupIn
  <2>3. UpTo(Dedup(both), 4) \in Seq(X)
    BY <2>2, UpToIn
  <2> QED
    BY <1>4, <2>3, SeqRange
<1> HIDE DEF topics, later
<1>10. ctx.topic \in X
  BY <1>4, <1>6, <1>7, <1>8
<1>11. ContextSaid(ctx, U)
  BY <1>1, <1>2, <1>3, <1>4, <1>8, <1>9, <1>10 DEF ContextSaid
<1> QED
  BY <1>11 DEF ctx

\* Every session stands for the set of all the names.
LEMMA NamesSaid ==
    ASSUME NEW s, SessionOK(s)
    PROVE  SessionSaid(s, Names)
<1>1. Range(s.people) \subseteq Names
  BY SeqRange DEF SessionOK
<1>2. \A i \in DOMAIN s.evidence : s.evidence[i].topic \in Some
  <2>1. \A i \in DOMAIN s.evidence : s.evidence[i] \in Traces
    BY DEF SessionOK
  <2> QED
    BY <2>1 DEF Traces
<1> QED
  BY <1>1, <1>2 DEF SessionOK, SessionSaid, Some

\* Every reading is of the set of all the names.
LEMMA NamesRead ==
    ASSUME NEW s, NEW r, ReadingTyped(s, r)
    PROVE  ReadingSaid(r, Names)
<1>1. Range(r.places) \subseteq Names /\ Range(r.people) \subseteq Names
  BY SeqRange DEF ReadingTyped
<1> QED
  BY <1>1 DEF ReadingTyped, ReadingSaid, Some

\* What the user said in the turns a session keeps are texts.
LEMMA UsersIn ==
    ASSUME NEW s, SessionOK(s)
    PROVE  /\ s.turns # <<>> => s.turns[1].user \in Texts
           /\ \A i \in DOMAIN s.evidence : s.evidence[i].user \in Texts
           /\ s.evidence # <<>> => 1 \in DOMAIN s.evidence /\ Last(s.evidence).user \in Texts
<1>1. s.turns \in Seq(Turns) /\ s.evidence \in Seq(Traces)
  BY DEF SessionOK
<1>2. s.turns # <<>> => s.turns[1] \in Turns
  BY <1>1
<1>3. \A i \in DOMAIN s.evidence : s.evidence[i] \in Traces
  BY <1>1
<1>4. s.evidence # <<>> => 1 \in DOMAIN s.evidence /\ Len(s.evidence) \in DOMAIN s.evidence
  BY <1>1
<1> QED
  BY <1>2, <1>3, <1>4 DEF Turns, Traces, Last

\* So is what the user said in the turn a rewording is about.
LEMMA EvidenceUserIn ==
    ASSUME NEW s, SessionOK(s), NEW place, NEW topic
    PROVE  EvidenceUser(s, place, topic) \in Texts
<1> DEFINE E == s.evidence
           same(t) == \/ place # NoName /\ t.place = place
                      \/ topic # NoName /\ t.topic = topic
           I == {i \in 1 .. Len(E) : same(E[i]) /\ SubjectsOf(E[i].user) # <<>>}
           J == {i \in 1 .. Len(E) : same(E[i])}
           i == IF I # {} THEN Max(I) ELSE 0
           j == IF J # {} THEN Max(J) ELSE 0
<1>1. Len(E) \in Nat /\ DOMAIN E = 1 .. Len(E)
  BY DEF SessionOK
<1>2. i \in I \cup {0} /\ j \in J \cup {0}
  BY <1>1, LastWhere
<1>3. EvidenceUser(s, place, topic) = IF i # 0 THEN E[i].user
                                      ELSE IF j # 0 THEN E[j].user ELSE Blank
  BY DEF EvidenceUser, SelectLastInSeq
<1> HIDE DEF i, j
<1>4. (i # 0 => i \in DOMAIN E) /\ (j # 0 => j \in DOMAIN E)
  BY <1>1, <1>2
<1> QED
  BY <1>3, <1>4, UsersIn, BlankIn

\* What a search carries over from the session is a list of texts.
LEMMA CarriedIn ==
    ASSUME NEW s, SessionOK(s)
    PROVE  CarriedTerms(s) \in Seq(Texts)
<1> DEFINE place == ValidPlace(s)
           topic == ValidTopic(s)
           user == IF s.anchor # NoName THEN Term(s.anchor)
                   ELSE EvidenceUser(s, place, topic)
           terms == <<Term(place), Term(s.event), Term(topic)>>
           context == Filled(terms)
           era == <<Era(s.period)>>
<1>1. {place, topic, s.event, s.anchor} \subseteq Some
  BY DEF SessionOK, ValidPlace, ValidTopic, Some
<1>2. user \in Texts
  BY <1>1, TermIn, EvidenceUserIn
<1>3. terms \in Seq(Texts)
  BY <1>1, TermIn
<1>4. context \in Seq(Texts)
  BY <1>3, FilledIn
<1>5. era \in Seq(Texts)
  BY EraIn DEF SessionOK
<1> HIDE DEF user, terms, context, era
<1>6. context \o era \in Seq(Texts)
  BY <1>4, <1>5, ConcatIn
<1>7. CarriedTerms(s) = IF user # Blank THEN <<user>>
                        ELSE IF context # <<>> THEN context \o era
                        ELSE IF Trusted(s) THEN <<s.turns[1].user>>
                        ELSE <<>>
  BY Zenon DEF CarriedTerms, user, context, era, terms, place, topic
<1>8. Trusted(s) => s.turns[1].user \in Texts
  BY UsersIn DEF Trusted
<1>9. <<user>> \in Seq(Texts) /\ <<>> \in Seq(Texts)
      /\ (Trusted(s) => <<s.turns[1].user>> \in Seq(Texts))
  BY <1>2, <1>8
<1> QED
  BY <1>6, <1>7, <1>9

\* The names of a list, as texts to search for.
LEMMA TermsIn ==
    ASSUME NEW ns \in Seq(Names)
    PROVE  [i \in DOMAIN ns |-> Term(ns[i])] \in Seq(Texts)
<1>1. \A i \in DOMAIN ns : Term(ns[i]) \in Texts
  BY TermIn DEF Some
<1> QED
  BY <1>1

\* The terms of a search, those that come first and the rest, are texts.
LEMMA MainIn ==
    ASSUME NEW q, NEW s, SessionOK(s), NEW r, ReadingTyped(s, r), NEW place \in Some
    PROVE  MainTerms(q, s, r, place) \in Seq(Texts)
<1> DEFINE known == FirstOf(<<s.anchor, s.subject, s.topic, place>>)
           one == <<Term(s.anchor)>>
           places == [i \in DOMAIN r.places |-> Term(r.places[i])]
           there == <<Term(IF Has(q, "there") THEN place ELSE NoName)>>
           named == [i \in DOMAIN r.entities |-> Term(r.entities[i])]
           event == <<Term(IF Has(q, "related") THEN s.event ELSE NoName)>>
<1>1. {s.anchor, s.subject, s.topic, s.event, NoName, place, r.target} \subseteq Some
  BY DEF SessionOK, ReadingTyped, Some
<1>2. known \in Some
  <2>1. <<s.anchor, s.subject, s.topic, place>> \in Seq(Some)
    BY <1>1
  <2> QED
    BY <2>1, FirstSaid DEF Some
<1>3. one \in Seq(Texts) /\ there \in Seq(Texts) /\ event \in Seq(Texts)
  BY <1>1, TermIn
<1>4. places \in Seq(Texts) /\ named \in Seq(Texts)
  BY TermsIn DEF ReadingTyped
<1>5. r.parallel => r.people[1] \in Some
  BY DEF ReadingTyped, Some
<1>6. r.first => <<s.evidence[1].user>> \in Seq(Texts)
  <2>1. r.first => s.evidence[1].user \in Texts
    BY UsersIn DEF ReadingTyped
  <2> QED
    BY <2>1
<1>7. /\ <<Term(r.target)>> \in Seq(Texts) /\ <<Term(known)>> \in Seq(Texts)
      /\ <<Term(place)>> \in Seq(Texts) /\ <<>> \in Seq(Texts)
      /\ CarriedTerms(s) \in Seq(Texts)
  BY <1>1, <1>2, TermIn, CarriedIn
<1>8. r.parallel => <<Term(r.people[1]), Term(s.event), Term(place)>> \in Seq(Texts)
  BY <1>1, <1>5, TermIn
<1> HIDE DEF known, one, places, there, named, event
<1>9. one \o places \in Seq(Texts) /\ (there \o named) \o event \in Seq(Texts)
  BY <1>3, <1>4, ConcatIn
<1>10. \/ r.first /\ MainTerms(q, s, r, place) = <<s.evidence[1].user>>
       \/ r.parallel
          /\ MainTerms(q, s, r, place) = <<Term(r.people[1]), Term(s.event), Term(place)>>
       \/ MainTerms(q, s, r, place) \in
              {<<Term(r.target)>>, <<Term(known)>>, CarriedTerms(s), one \o places,
               (there \o named) \o event, <<Term(place)>>, <<>>}
  BY Zenon DEF MainTerms, known, one, places, there, named, event
<1> QED
  BY <1>6, <1>7, <1>8, <1>9, <1>10

LEMMA MoreIn ==
    ASSUME NEW q, NEW s, SessionOK(s), NEW r, ReadingTyped(s, r), NEW main
    PROVE  MoreTerms(q, s, r, main) \in Seq(Texts)
<1> DEFINE topic == IF r.referent = NoName THEN ValidTopic(s) ELSE NoName
           event == IF r.referent = NoName /\ Trusted(s) THEN s.event ELSE NoName
           them == IF Has(q, "them") THEN <<Term(r.referent)>> ELSE <<>>
           terms == <<Term(topic), Term(event), Era(s.period)>>
           named == them \o Filled(terms)
<1>1. topic \in Some /\ event \in Some /\ r.referent \in Some
  BY DEF SessionOK, ReadingTyped, ValidTopic, Some
<1>2. them \in Seq(Texts)
  BY <1>1, TermIn
<1>3. terms \in Seq(Texts)
  BY <1>1, TermIn, EraIn DEF SessionOK
<1>4. Filled(terms) \in Seq(Texts)
  BY <1>3, FilledIn
<1>5. Trusted(s) => <<s.turns[1].user>> \in Seq(Texts)
  BY UsersIn DEF Trusted
<1>6. \/ MoreTerms(q, s, r, main) \in {<<>>, named}
      \/ Trusted(s) /\ MoreTerms(q, s, r, main) = <<s.turns[1].user>>
  BY Zenon DEF MoreTerms, topic, event, them, terms, named
<1> HIDE DEF them, terms
<1>7. named \in Seq(Texts)
  BY <1>2, <1>4, ConcatIn
<1> HIDE DEF named
<1>8. <<>> \in Seq(Texts)
  OBVIOUS
<1> QED
  BY <1>5, <1>6, <1>7, <1>8, Zenon

\* The question as it is asked of the records, and the query, are texts.
LEMMA QuestionIn ==
    ASSUME NEW q \in Texts, NEW s, SessionOK(s), NEW r, ReadingTyped(s, r),
           NEW ordered \in Seq(Texts)
    PROVE  ResolvedQuestion(q, s, r, ordered) \in Texts
<1> DEFINE previous == s.turns[1].user
           I == {i \in 1 .. Len(previous.names) : previous.names[i] \in Short}
           subject == IF I # {} THEN Min(I) ELSE 0
           base == IF s.evidence # <<>> THEN Last(s.evidence).user ELSE previous
           pair == [i \in 1 .. 2 |-> Term(r.places[i])]
           other == [previous EXCEPT !.names[subject] = r.people[1]]
           asked == IF r.kind = "expand" THEN Join(base, q)
                    ELSE IF Has(q, "compare") /\ Len(r.places) >= 2 THEN Joined(pair, q)
                    ELSE IF r.parallel
                    THEN IF subject = 0 THEN Join(Term(r.people[1]), previous) ELSE other
                    ELSE q
           whole == IF r.referent = NoName THEN asked
                    ELSE [names |-> <<r.referent>> \o asked.names,
                          cues |-> asked.cues \ {"lead"}]
<1>1. ResolvedQuestion(q, s, r, ordered) =
          IF (r.kind = "correct" \/ r.elliptic) /\ whole = q THEN Joined(ordered, q) ELSE whole
  BY DEF ResolvedQuestion, SelectInSeq
<1>2. r.kind = "expand" => Join(base, q) \in Texts
  <2>1. r.kind = "expand" => base \in Texts
    BY UsersIn DEF ReadingTyped
  <2> QED
    BY <2>1, JoinIn
<1>3. Len(r.places) >= 2 => Joined(pair, q) \in Texts
  <2> SUFFICES ASSUME Len(r.places) >= 2 PROVE Joined(pair, q) \in Texts
    OBVIOUS
  <2>1. \A i \in 1 .. 2 : r.places[i] \in Names
    BY DEF ReadingTyped
  <2>2. \A i \in 1 .. 2 : Term(r.places[i]) \in Texts
    BY <2>1, TermIn DEF Some
  <2>3. pair \in Seq(Texts)
    BY <2>2
  <2> QED
    BY <2>3, JoinedIn
<1>4. ASSUME r.parallel PROVE previous \in Texts /\ r.people[1] \in Names
  BY <1>4, UsersIn DEF ReadingTyped
<1>5. ASSUME r.parallel PROVE Join(Term(r.people[1]), previous) \in Texts
  BY <1>4, <1>5, TermIn, JoinIn DEF Some
<1>6. ASSUME r.parallel, subject # 0 PROVE other \in Texts
  <2> DEFINE p == previous
             n == r.people[1]
             ns == p.names
  <2>1. p \in Texts /\ n \in Names
    BY <1>4, <1>6
  <2>2. ns \in Seq(Names) /\ p.cues \in SUBSET Cues /\ I \in SUBSET Nat
    BY <2>1, TextIs
  <2>3. subject \in I
    <3> HIDE DEF I
    <3> QED
      BY <1>6, <2>2, HasMin
  <2> HIDE DEF subject, p, n
  <2>4. subject \in 1 .. Len(ns)
    BY <2>3 DEF p
  <2> DEFINE changed == [ns EXCEPT ![subject] = n]
  <2>5. changed \in Seq(Names)
    BY <2>1, <2>2, <2>4, ExceptSeq
  <2> DEFINE c == [p EXCEPT !.names = changed]
  <2>6. c = [names |-> changed, cues |-> p.cues]
    <3> HIDE DEF changed
    <3> QED
      BY <2>1 DEF Texts
  <2>7. other = c
    BY DEF p, n
  <2> HIDE DEF changed
  <2> QED
    BY <2>2, <2>5, <2>6, <2>7, TextIs
<1> HIDE DEF base, pair, other, subject, previous
<1>7. asked \in Texts
  BY <1>2, <1>3, <1>5, <1>6
<1> HIDE DEF asked
<1>8. whole \in Texts
  <2>1. CASE r.referent = NoName
    BY <1>7, <2>1
  <2>2. CASE r.referent # NoName
    <3> DEFINE one == <<r.referent>>
               ns == asked.names
               cs == asked.cues \ {"lead"}
    <3>1. one \in Seq(Names) /\ ns \in Seq(Names) /\ cs \in SUBSET Cues
      BY <1>7, <2>2, TextIs DEF ReadingTyped, Some
    <3>2. whole = [names |-> one \o ns, cues |-> cs]
      BY <2>2
    <3> HIDE DEF one, ns, cs
    <3>3. one \o ns \in Seq(Names)
      BY <3>1, ConcatIn
    <3> QED
      BY <3>1, <3>2, <3>3, TextIs
  <2> QED
    BY <2>1, <2>2
<1> HIDE DEF whole
<1>9. Joined(ordered, q) \in Texts
  BY JoinedIn
<1> QED
  BY <1>1, <1>8, <1>9

LEMMA SearchIn ==
    ASSUME NEW q \in Texts, NEW s, SessionOK(s), NEW r, ReadingTyped(s, r),
           NEW ordered \in Seq(Texts), NEW asked \in Texts
    PROVE  SearchQuery(q, s, r, ordered, asked) \in Texts
<1> DEFINE K == {i \in DOMAIN ordered :
                     \/ ordered[i] # asked /\ ~Within(ordered[i], asked)
                     \/ r.target # NoName /\ ordered[i] = Term(r.target)}
           missing == Pick(ordered, K)
           some == <<"place", "people", "time">>
           detail == Keep(some, q.cues)
           facet == [Blank EXCEPT !.cues = Range(UpTo(detail, 1))]
<1>1. missing \in Seq(Texts)
  <2> HIDE DEF K
  <2> QED
    BY PickIn
<1>2. facet \in Texts
  <2> DEFINE one == UpTo(detail, 1)
             F == {"place", "people", "time"}
  <2>1. some \in Seq(F)
    OBVIOUS
  <2> HIDE DEF some, F
  <2>2. detail \in Seq(F)
    BY <2>1, KeepIn
  <2> HIDE DEF detail
  <2>3. one \in Seq(F)
    BY <2>2, UpToIn
  <2>4. Range(one) \subseteq F
    BY <2>3, SeqRange
  <2> HIDE DEF one
  <2>5. F \subseteq Cues
    BY DEF F, Cues, Facets, FacetOrder, Range
  <2>6. facet = [names |-> <<>>, cues |-> Range(one)]
    BY DEF Blank, one
  <2>7. <<>> \in Seq(Names) /\ Range(one) \in SUBSET Cues
    BY <2>4, <2>5
  <2> QED
    BY <2>6, <2>7, TextIs
<1>3. SearchQuery(q, s, r, ordered, asked) =
          IF r.first THEN Join(s.evidence[1].user, facet) ELSE Joined(missing, asked)
  BY DEF SearchQuery
<1> HIDE DEF missing, facet
<1>4. Joined(missing, asked) \in Texts
  BY <1>1, JoinedIn
<1>5. r.first => Join(s.evidence[1].user, facet) \in Texts
  BY <1>2, UsersIn, JoinIn DEF ReadingTyped
<1> QED
  BY <1>3, <1>4, <1>5

\* What the resolution of a question gives to the search and to the answer.
ContextOK(ctx) ==
    /\ ctx.search \in Texts /\ ctx.question \in Texts
    /\ {ctx.place, ctx.topic, ctx.subject, ctx.person, ctx.event} \subseteq Some
    /\ ctx.entities \in Seq(Names) /\ ctx.people \in Seq(Names)
    /\ ctx.period \in Periods \cup {NoName}
    /\ ctx.kind # "transform" => ctx.intent \in Facets
    /\ ctx.kind = "transform" => ctx.intent = "transform"

\* A question asks for one facet.
LEMMA IntentIn == \A q : Intent(q) \in Facets
<1> TAKE q
<1> DEFINE asked == Keep(FacetOrder, q.cues)
<1>1. FacetOrder \in Seq(Facets)
  BY DEF FacetOrder, Facets, Range
<1>2. asked \in Seq(Facets)
  BY <1>1, KeepIn
<1> HIDE DEF asked
<1>3. asked # <<>> => asked[1] \in Facets
  BY <1>2
<1>4. "overview" \in Facets
  BY DEF Facets
<1> QED
  BY <1>3, <1>4 DEF Intent, asked

\* Every question of a session has such a context.
LEMMA ResolveIn ==
    ASSUME NEW q \in Texts, NEW s, SessionOK(s), NEW here \in Some
    PROVE  ContextOK(Resolve(q, s, here))
<1> DEFINE r == Reading(q, s)
           place == ActivePlace(q, s, r, here)
           main == MainTerms(q, s, r, place)
           more == MoreTerms(q, s, r, main)
           terms == main \o more
           ordered == Dedup(Filled(terms))
           asked == ResolvedQuestion(q, s, r, ordered)
           search == SearchQuery(q, s, r, ordered, asked)
           ctx == Resolve(q, s, here)
<1>1. ReadingTyped(s, r)
  BY ReadingIn
<1>2. SessionSaid(s, Names) /\ ReadingSaid(r, Names)
  <2> HIDE DEF r
  <2> QED
    BY <1>1, NamesSaid, NamesRead
<1>3. q.names \in Seq(Names) /\ Range(q.names) \subseteq Names
  <2>1. q.names \in Seq(Names)
    BY TextIs
  <2> QED
    BY <2>1, SeqRange
<1>4. ContextSaid(ctx, Names)
  <2>1. ctx = Resolved(q, s, here, r)
    BY DEF Resolve
  <2> HIDE DEF r, ctx
  <2> QED
    BY <1>1, <1>2, <1>3, <2>1, ResolvedSaid DEF Some
<1>5. /\ ctx.search = search /\ ctx.question = asked /\ ctx.kind = r.kind
      /\ ctx.intent = IF r.kind = "transform" THEN "transform" ELSE Intent(q)
      /\ ctx.entities = UpTo(Dedup(r.entities \o s.entities), 8)
      /\ ctx.people = UpTo(Dedup(r.people \o s.people), 4)
      /\ ctx.period = IF q.cues \cap Periods = {} THEN s.period
                      ELSE CHOOSE p \in q.cues \cap Periods : TRUE
  BY DEF Resolve, Resolved
<1> HIDE DEF r, ctx
<1>6. place \in Some
  BY <1>1, <1>2, ActivePlaceIn DEF Some
<1> HIDE DEF place
<1>7. main \in Seq(Texts)
  BY <1>1, <1>6, MainIn
<1> HIDE DEF main
<1>8. more \in Seq(Texts)
  BY <1>1, MoreIn
<1> HIDE DEF more
<1>9. terms \in Seq(Texts)
  BY <1>7, <1>8, ConcatIn
<1> HIDE DEF terms
<1>10. Filled(terms) \in Seq(Texts)
  BY <1>9, FilledIn
<1>11. ordered \in Seq(Texts)
  BY <1>10, DedupIn
<1> HIDE DEF ordered
<1>12. asked \in Texts
  BY <1>1, <1>11, QuestionIn
<1> HIDE DEF asked
<1>13. search \in Texts
  BY <1>1, <1>11, <1>12, SearchIn
<1> HIDE DEF search
<1>14. ctx.entities \in Seq(Names) /\ ctx.people \in Seq(Names)
  <2> DEFINE a == r.entities
             b == s.entities
             c == r.people
             d == s.people
  <2>1. a \in Seq(Names) /\ b \in Seq(Names) /\ c \in Seq(Names) /\ d \in Seq(Names)
    BY <1>1 DEF ReadingTyped, SessionOK
  <2> HIDE DEF a, b, c, d
  <2>2. a \o b \in Seq(Names) /\ c \o d \in Seq(Names)
    BY <2>1, ConcatIn
  <2>3. Dedup(a \o b) \in Seq(Names) /\ Dedup(c \o d) \in Seq(Names)
    BY <2>2, DedupIn
  <2>4. UpTo(Dedup(a \o b), 8) \in Seq(Names) /\ UpTo(Dedup(c \o d), 4) \in Seq(Names)
    BY <2>3, UpToIn
  <2> QED
    BY <1>5, <2>4 DEF a, b, c, d
<1>15. ctx.period \in Periods \cup {NoName}
  BY <1>5 DEF SessionOK
<1>16. {ctx.place, ctx.topic, ctx.subject, ctx.person, ctx.event} \subseteq Some
  BY <1>4 DEF ContextSaid, Some
<1>17. ContextOK(ctx)
  BY <1>5, <1>12, <1>13, <1>14, <1>15, <1>16, IntentIn DEF ContextOK
<1> QED
  BY <1>17 DEF ctx

-----------------------------------------------------------------------------
(* Chunks *)

\* The records, as the chunks that are found.
Chunks == Range(Records)

\* A chunk is found by its id, and has clauses.
LEMMA ChunkIs ==
    /\ \A c \in Chunks :
           /\ c.id \in Ids /\ Record(c.id) = c /\ c.title \in Names /\ c.cost \in Nat
           /\ c.clauses \in Seq(Range(c.clauses))
    /\ \A id \in Ids : Record(id) \in Chunks /\ Record(id).id = id
    /\ Records \in Seq(Chunks)
<1>1. Records \in Seq(Chunks)
  BY RecordsAssumption DEF Chunks
<1>2. \A i \in DOMAIN Records :
          /\ Records[i].id = i /\ Records[i].title \in Names /\ Records[i].cost \in Nat
          /\ Records[i].clauses \in Seq(Range(Records[i].clauses))
  BY RecordsAssumption
<1>3. \A c \in Chunks : \E i \in DOMAIN Records : c = Records[i]
  BY DEF Chunks, Range
<1>4. \A i \in DOMAIN Records : Records[i] \in Chunks
  BY DEF Chunks, Range
<1> QED
  BY <1>1, <1>2, <1>3, <1>4 DEF Ids, Record

\* The limits of a selection are numbers, and it may keep something.
LEMMA BoundsIn == PerDocument \in Nat \ {0} /\ TopK \in Nat \ {0} /\ MaxItems \in Nat
BY BoundsAssumption

\* The chunks up to the i-th of its document; those that are few enough to be selected.
SameDocument(s, i) == {j \in 1 .. i : s[j].doc = s[i].doc}
FewOf(s) == {i \in DOMAIN s : Cardinality(SameDocument(s, i)) <= PerDocument}

\* A selection: each chunk once, few of a document, up to k.
LEMMA SelectIs == \A cs, k : Select(cs, k) = UpTo(Pick(Dedup(cs), FewOf(Dedup(cs))), k)
BY DEF Select, FewOf, SameDocument

\* A selection is of the chunks, is empty only when they are, and selects all of itself.
LEMMA SelectIn ==
    ASSUME NEW X, NEW cs \in Seq(X), NEW k \in Nat
    PROVE  /\ Select(cs, k) \in Seq(X) /\ Range(Select(cs, k)) \subseteq Range(cs)
           /\ Once(Select(cs, k)) /\ Len(Select(cs, k)) <= k
           /\ cs # <<>> /\ k # 0 => Select(cs, k) # <<>>
           /\ Select(Select(cs, k), k) = Select(cs, k)
<1> DEFINE d == Dedup(cs)
           K == FewOf(d)
           p == Pick(d, K)
           x == UpTo(p, k)
<1>1. x = Select(cs, k)
  BY SelectIs
<1>2. d \in Seq(X) /\ Range(d) = Range(cs) /\ Once(d)
  BY DedupIn
<1> HIDE DEF d
<1>3. p \in Seq(X) /\ Range(p) \subseteq Range(d)
      /\ Range(p) = {d[i] : i \in K \cap (1 .. Len(d))}
  <2> HIDE DEF K
  <2> QED
    BY <1>2, PickIn
<1>4. PICK m : Taken(p, d, K, Len(d), m)
  <2> HIDE DEF K
  <2> QED
    BY <1>2, PickTakes
<1> HIDE DEF p
<1>5. /\ x \in Seq(X) /\ Range(x) \subseteq Range(p) /\ Len(x) <= k /\ Len(x) <= Len(p)
      /\ \A j \in 1 .. Len(x) : x[j] = p[j]
      /\ (p # <<>> /\ k # 0 => x # <<>>)
  <2>1. /\ x \in Seq(X) /\ Range(x) \subseteq Range(p)
        /\ Len(x) = IF Len(p) < k THEN Len(p) ELSE k
        /\ \A j \in 1 .. Len(x) : x[j] = p[j]
        /\ (p # <<>> /\ k # 0 => x # <<>>)
    BY <1>3, UpToIn
  <2>2. Len(p) \in Nat
    BY <1>3
  <2> HIDE DEF x
  <2> QED
    BY <2>1, <2>2
<1> HIDE DEF x
<1>6. Len(d) \in Nat /\ Len(p) \in Nat /\ Len(x) \in Nat /\ DOMAIN d = 1 .. Len(d)
      /\ DOMAIN x = 1 .. Len(x)
  BY <1>2, <1>3, <1>5
<1>7. \A j \in 1 .. Len(x) : j \in 1 .. Len(p)
  BY <1>5, <1>6
<1>8. \A j \in 1 .. Len(x) : x[j] = d[m[j]] /\ m[j] \in K /\ m[j] \in 1 .. Len(d)
  BY <1>4, <1>5, <1>7 DEF Taken
<1>9. \A i, j \in 1 .. Len(x) : i < j => m[i] < m[j]
  BY <1>4, <1>7 DEF Taken
<1>10. Once(x)
  <2> SUFFICES ASSUME NEW i \in 1 .. Len(x), NEW j \in 1 .. Len(x), x[i] = x[j] PROVE i = j
    BY <1>6 DEF Once
  <2>1. m[i] = m[j]
    BY <1>2, <1>6, <1>8 DEF Once
  <2>2. m[i] \in Int /\ m[j] \in Int
    BY <1>8
  <2> QED
    BY <1>9, <2>1, <2>2
<1>11. cs # <<>> /\ k # 0 => x # <<>>
  <2> SUFFICES ASSUME cs # <<>>, k # 0 PROVE x # <<>>
    OBVIOUS
  <2>1. d # <<>>
    BY <1>2, SeqRange
  <2>2. 1 \in DOMAIN d
    BY <1>2, <2>1
  <2>3. SameDocument(d, 1) = {1}
    BY DEF SameDocument
  <2>4. 1 \in K
    <3>1. Cardinality(SameDocument(d, 1)) = 1
      BY <2>3, FS_Singleton
    <3>2. PerDocument \in Nat \ {0}
      BY BoundsIn
    <3> QED
      BY <2>2, <3>1, <3>2 DEF FewOf
  <2>5. d[1] \in Range(p)
    BY <1>3, <1>6, <2>2, <2>4
  <2>6. p # <<>>
    BY <1>3, <2>5, SeqRange
  <2> QED
    BY <1>5, <2>6
<1>12. ASSUME NEW i \in 1 .. Len(x) PROVE Cardinality(SameDocument(x, i)) <= PerDocument
  <2> DEFINE A == SameDocument(x, i)
             B == SameDocument(d, m[i])
             f == [j \in A |-> m[j]]
  <2>1. m[i] \in 1 .. Len(d) /\ m[i] \in K /\ x[i] = d[m[i]]
    BY <1>8
  <2>2. A \subseteq 1 .. i /\ \A j \in A : j \in 1 .. Len(x) /\ x[j].doc = x[i].doc
    BY <1>6 DEF SameDocument
  <2>3. ASSUME NEW j \in A PROVE m[j] \in B
    <3>1. j \in 1 .. Len(x) /\ j <= i /\ x[j] = d[m[j]] /\ m[j] \in 1 .. Len(d)
          /\ x[j].doc = x[i].doc
      BY <1>8, <2>2
    <3>2. m[j] <= m[i]
      <4>1. CASE j = i
        BY <2>1, <4>1
      <4>2. CASE j < i
        BY <1>9, <2>1, <3>1, <4>2
      <4> QED
        BY <3>1, <4>1, <4>2
    <3>3. m[j] \in 1 .. m[i]
      BY <2>1, <3>1, <3>2
    <3>4. d[m[j]].doc = d[m[i]].doc
      BY <2>1, <3>1
    <3> QED
      BY <3>3, <3>4 DEF SameDocument
  <2>4. IsFiniteSet(B) /\ Cardinality(B) <= PerDocument
    <3>1. IsFiniteSet(1 .. m[i])
      BY <2>1, FS_Interval
    <3>2. B \subseteq 1 .. m[i]
      BY DEF SameDocument
    <3>3. Cardinality(B) <= PerDocument
      BY <2>1 DEF FewOf
    <3> QED
      BY <3>1, <3>2, <3>3, FS_Subset
  <2> HIDE DEF A, B
  <2>5. f \in Injection(A, B)
    <3>1. f \in [A -> B]
      BY <2>3
    <3>2. ASSUME NEW a \in A, NEW b \in A, f[a] = f[b] PROVE a = b
      <4>1. a \in 1 .. Len(x) /\ b \in 1 .. Len(x) /\ m[a] = m[b]
        BY <2>2, <3>2
      <4>2. m[a] \in Int /\ m[b] \in Int
        BY <1>8, <4>1
      <4> QED
        BY <1>9, <4>1, <4>2
    <3> HIDE DEF f
    <3> QED
      BY <3>1, <3>2, Zenon DEF Injection, IsInjective
  <2>6. IsFiniteSet(B)
    BY <2>4
  <2>7. IsFiniteSet(A) /\ Cardinality(A) <= Cardinality(B)
    <3> HIDE DEF f
    <3> QED
      BY <2>5, <2>6, FS_Injection
  <2>8. Cardinality(A) \in Nat /\ Cardinality(B) \in Nat
    BY <2>4, <2>7, FS_CardinalityType
  <2> QED
    BY <2>4, <2>7, <2>8, BoundsIn DEF A
<1>13. Select(x, k) = x
  <2>1. Dedup(x) = x
    BY <1>5, <1>10, DedupSame
  <2>2. 1 .. Len(x) \subseteq FewOf(x)
    BY <1>6, <1>12 DEF FewOf
  <2>3. Pick(x, FewOf(x)) = x
    BY <1>5, <2>2, PickAll
  <2>4. UpTo(x, k) = x
    BY <1>5, UpToIn
  <2> QED
    BY <2>1, <2>3, <2>4, SelectIs
<1> QED
  BY <1>1, <1>2, <1>3, <1>5, <1>10, <1>11, <1>13

\* Chunks as a search returns them.
ChosenOK(cs) == cs \in Seq(Chunks) /\ Once(cs) /\ Select(cs, TopK) = cs

\* What is selected is chosen, and nothing is.
LEMMA SelectChosen == \A cs \in Seq(Chunks) : ChosenOK(Select(cs, TopK))
BY SelectIn, BoundsIn DEF ChosenOK

LEMMA EmptyChosen == ChosenOK(<<>>)
<1>1. <<>> \in Seq(Chunks) /\ Once(<<>>) /\ Range(<<>>) = {}
  BY DEF Once, Range
<1> DEFINE x == Select(<<>>, TopK)
<1>2. x \in Seq(Chunks) /\ Range(x) \subseteq Range(<<>>)
  BY <1>1, SelectIn, BoundsIn
<1> HIDE DEF x
<1>3. x = <<>>
  BY <1>1, <1>2, SeqRange
<1> QED
  BY <1>1, <1>3 DEF ChosenOK, x

\* A search finds chosen chunks.
LEMMA SearchFinds ==
    ASSUME NEW loaded, NEW fresh, NEW t
    PROVE  ChosenOK(Search(loaded, fresh, t))
<1> DEFINE subjects == Range(SubjectsOf(t))
           agreeing == Agreeing(loaded, subjects)
           L == {i \in DOMAIN agreeing : agreeing[i].title \in subjects}
           titled == Pick(agreeing, L)
           none == <<>>
           kept == AboutThem(t, subjects, agreeing)
           order == [i \in DOMAIN kept |-> Order(t, subjects, kept[i])]
           sorted == BestOrdered(t, subjects, kept)
           found == Select(sorted, TopK)
<1>1. Search(loaded, fresh, t) \in {none, found}
  BY DEF Search, IfCovered
<1> HIDE DEF subjects
<1>2. agreeing \in Seq(Chunks)
  BY ChunkIs, PickIn DEF Agreeing
<1> HIDE DEF agreeing, L
<1>3. titled \in Seq(Chunks) /\ none \in Seq(Chunks)
  BY <1>2, PickIn
<1>4. kept \in {titled, none, agreeing}
  BY DEF AboutThem, L
<1>5. kept \in Seq(Chunks)
  BY <1>2, <1>3, <1>4
<1>6. sorted = HeaviestFirst(kept, order)
  BY DEF BestOrdered
<1> HIDE DEF kept, order, titled
<1>7. sorted \in Seq(Chunks)
  BY <1>5, <1>6, HeaviestIn
<1> HIDE DEF sorted
<1>8. ChosenOK(found) /\ ChosenOK(none)
  BY <1>7, SelectChosen, EmptyChosen
<1> HIDE DEF found, none
<1> QED
  BY <1>1, <1>8

\* So does the merge of several searches.
LEMMA BestFirstFinds ==
    ASSUME NEW batches \in Seq(Seq(Chunks)), \A i \in DOMAIN batches : batches[i] # <<>>
    PROVE  ChosenOK(BestFirst(batches))
<1> DEFINE heads == [i \in DOMAIN batches |-> batches[i][1]]
           tails == [i \in DOMAIN batches |-> Tail(batches[i])]
           rest == FlattenSeq(tails)
<1>1. \A i \in DOMAIN batches : batches[i] \in Seq(Chunks) /\ batches[i] # <<>>
  OBVIOUS
<1>2. \A i \in DOMAIN batches : batches[i][1] \in Chunks /\ Tail(batches[i]) \in Seq(Chunks)
  BY <1>1
<1>3. heads \in Seq(Chunks) /\ tails \in Seq(Seq(Chunks))
  <2>1. Len(batches) \in Nat /\ DOMAIN batches = 1 .. Len(batches)
    OBVIOUS
  <2>2. heads \in [1 .. Len(batches) -> Chunks]
    BY <1>2, <2>1
  <2>3. tails \in [1 .. Len(batches) -> Seq(Chunks)]
    BY <1>2, <2>1
  <2> HIDE DEF heads, tails
  <2>4. heads \in Seq(Chunks)
    BY <2>1, <2>2, FunctionIsSeq, Zenon
  <2>5. tails \in Seq(Seq(Chunks))
    BY <2>1, <2>3, FunctionIsSeq, Zenon
  <2> QED
    BY <2>4, <2>5
<1> HIDE DEF heads, tails
<1>4. rest \in Seq(Chunks)
  BY <1>3, FlattenIn
<1> HIDE DEF rest
<1>5. heads \o rest \in Seq(Chunks)
  BY <1>3, <1>4, ConcatIn
<1>6. BestFirst(batches) = Select(heads \o rest, TopK)
  BY DEF BestFirst, heads, rest, tails
<1> QED
  BY <1>5, <1>6, SelectChosen

\* So does a search for each of the subjects.
LEMMA SubjectSearchFinds ==
    ASSUME NEW loaded, NEW fresh, NEW t, t.names \in Seq(Names)
    PROVE  ChosenOK(SubjectAwareSearch(loaded, fresh, t))
<1> DEFINE subjects == SubjectsOf(t)
           each == [i \in DOMAIN subjects |-> Search(loaded, fresh, Term(subjects[i]))]
           K == {i \in DOMAIN each : each[i] # <<>>}
           some == Pick(each, K)
<1>1. subjects \in Seq(Names)
  BY SubjectsIn
<1> HIDE DEF subjects
<1>2. \A i \in DOMAIN subjects : Search(loaded, fresh, Term(subjects[i])) \in Seq(Chunks)
  BY SearchFinds DEF ChosenOK
<1>3. each \in Seq(Seq(Chunks))
  BY <1>1, <1>2
<1>4. K = {i \in DOMAIN each : each[i] # <<>>}
  OBVIOUS
<1> HIDE DEF each, K
<1>5. some \in Seq(Seq(Chunks)) /\ Range(some) = {each[i] : i \in K \cap (1 .. Len(each))}
  BY <1>3, PickIn
<1> HIDE DEF some
<1>6. \A i \in DOMAIN some : some[i] # <<>>
  <2> TAKE i \in DOMAIN some
  <2>1. some[i] \in Range(some)
    BY DEF Range
  <2>2. PICK j \in K : some[i] = each[j]
    BY <1>5, <2>1
  <2> QED
    BY <1>4, <2>2
<1>7. ChosenOK(BestFirst(some)) /\ ChosenOK(Search(loaded, fresh, t))
  BY <1>5, <1>6, BestFirstFinds, SearchFinds
<1>8. SubjectAwareSearch(loaded, fresh, t) \in {BestFirst(some), Search(loaded, fresh, t)}
  BY DEF SubjectAwareSearch, Nonempty, subjects, each, K, some
<1> QED
  BY <1>7, <1>8

\* To prefer the chunks of a place drops some, never all.
LEMMA PlaceAwareIn ==
    ASSUME NEW cs \in Seq(Chunks), NEW place
    PROVE  /\ PlaceAware(cs, place) \in Seq(Chunks)
           /\ Range(PlaceAware(cs, place)) \subseteq Range(cs)
           /\ cs # <<>> => PlaceAware(cs, place) # <<>>
<1> DEFINE K == {i \in DOMAIN cs : place \in Mentions(cs[i])}
           exact == Pick(cs, K)
<1>1. exact \in Seq(Chunks) /\ Range(exact) \subseteq Range(cs)
  <2> HIDE DEF K
  <2> QED
    BY PickIn
<1>2. PlaceAware(cs, place) = IF place = NoName \/ exact = <<>> THEN cs ELSE exact
  BY DEF PlaceAware
<1> HIDE DEF exact
<1> QED
  BY <1>1, <1>2

\* A search at a place finds chosen chunks.
LEMMA FindFinds ==
    ASSUME NEW loaded, NEW fresh, NEW t, t.names \in Seq(Names), NEW place
    PROVE  ChosenOK(Find(loaded, fresh, t, place))
<1>1. SubjectAwareSearch(loaded, fresh, t) \in Seq(Chunks)
  BY SubjectSearchFinds DEF ChosenOK
<1>2. PlaceAware(SubjectAwareSearch(loaded, fresh, t), place) \in Seq(Chunks)
  BY <1>1, PlaceAwareIn
<1> QED
  BY <1>2, SelectChosen DEF Find

\* The latest of the turns a rewording is about: the last that found something.
LEMMA RememberedIn ==
    ASSUME NEW s, SessionOK(s), NEW loaded, NEW place, NEW topic, NEW latest \in BOOLEAN
    PROVE  /\ Remembered(s, loaded, place, topic, latest) \in Seq(Chunks)
           /\ latest /\ s.evidence # <<>> =>
                  Range(Remembered(s, loaded, place, topic, latest)) =
                      {Record(id) : id \in
                           loaded \cap Range(UpTo(Last(s.evidence).chunks, TopK))}
<1> DEFINE E == s.evidence
           about(t) == \/ latest
                       \/ place # NoName /\ t.place = place
                       \/ topic # NoName /\ t.topic = topic
                       \/ place = NoName /\ topic = NoName
           I == {j \in 1 .. Len(E) : about(E[j])}
           i == IF I # {} THEN Max(I) ELSE 0
           none == <<>>
           ids == IF i = 0 THEN none ELSE UpTo(E[i].chunks, TopK)
           keep == Keep(ids, loaded)
           cs == [j \in DOMAIN keep |-> Record(keep[j])]
<1>1. Remembered(s, loaded, place, topic, latest) = cs
  BY DEF Remembered, SelectLastInSeq
<1>2. E \in Seq(Traces) /\ Len(E) \in Nat
  BY DEF SessionOK
<1>3. i \in I \cup {0}
  BY <1>2, LastWhere
<1>4. latest /\ E # <<>> => i = Len(E) /\ Len(E) # 0
  <2> SUFFICES ASSUME latest, E # <<>> PROVE i = Len(E) /\ Len(E) # 0
    OBVIOUS
  <2>1. I = 1 .. Len(E) /\ Len(E) \in I
    BY <1>2
  <2>2. Max(I) = Len(E)
    BY <1>2, <2>1 DEF Max
  <2> QED
    BY <1>2, <2>1, <2>2
<1> HIDE DEF i
<1>5. i # 0 => i \in 1 .. Len(E)
  BY <1>3
<1> HIDE DEF I, none
<1>6. ids \in Seq(Ids)
  <2>1. CASE i = 0
    BY <2>1 DEF none
  <2>2. CASE i # 0
    <3>1. E[i].chunks \in Seq(Ids)
      <4> HIDE DEF E
      <4>1. E[i] \in Traces
        BY <1>2, <1>5, <2>2
      <4> QED
        BY <4>1 DEF Traces
    <3>2. TopK \in Nat
      BY BoundsIn
    <3>3. UpTo(E[i].chunks, TopK) \in Seq(Ids)
      BY <3>1, <3>2, UpToIn, Zenon
    <3>4. ids = UpTo(E[i].chunks, TopK)
      BY <2>2
    <3> QED
      BY <3>3, <3>4
  <2> QED
    BY <2>1, <2>2
<1>7. latest /\ E # <<>> => ids = UpTo(Last(E).chunks, TopK)
  BY <1>4 DEF Last
<1> HIDE DEF ids, E
<1>8. keep \in Seq(Ids) /\ Range(keep) = Range(ids) \cap loaded
  BY <1>6, KeepIn
<1> HIDE DEF keep
<1>9. \A j \in DOMAIN keep : Record(keep[j]) \in Chunks
  BY <1>8, ChunkIs
<1>10. cs \in Seq(Chunks)
  BY <1>8, <1>9
<1>11. Range(cs) = {Record(id) : id \in Range(keep)}
  BY DEF Range
<1> HIDE DEF cs
<1> QED
  BY <1>1, <1>7, <1>8, <1>10, <1>11 DEF E

-----------------------------------------------------------------------------
(* The evidence of a question *)

\* The sessions there can be.
Sessions ==
    [turns : Seq(Turns), evidence : Seq(Traces), place : Some, topic : Some, subject : Some,
     person : Some, anchor : Some, entities : Seq(Names), people : Seq(Names),
     event : Some, period : Periods \cup {NoName},
     answered : Facets \cup {"transform", NoName}]

\* They are as the resolution needs them.
LEMMA SessionIs == \A s \in Sessions : SessionOK(s)
BY DEF Sessions, SessionOK

\* A question changes neither the turns nor what they found.
LEMMA HeardIn ==
    ASSUME NEW s \in Sessions, NEW ctx, ContextOK(ctx)
    PROVE  /\ Heard(s, ctx) \in Sessions
           /\ Heard(s, ctx).evidence = s.evidence /\ Heard(s, ctx).anchor = s.anchor
           /\ Heard(s, ctx).place = ctx.place /\ Heard(s, ctx).topic = ctx.topic
           /\ Heard(s, ctx).subject = ctx.subject /\ Heard(s, ctx).person = ctx.person
           /\ Heard(s, ctx).people = ctx.people /\ Heard(s, ctx).event = ctx.event
BY DEF Heard, Sessions, ContextOK

\* What a rewording recalls is chosen; of the latest turn with evidence, it is what that
\* turn found and is still loaded.
LEMMA RecallIn ==
    ASSUME session \in Sessions, NEW ctx, ContextOK(ctx), NEW latest \in BOOLEAN
    PROVE  /\ ChosenOK(Recall(ctx, latest))
           /\ latest /\ session.evidence # <<>> =>
                  LET kept == Range(UpTo(Last(session.evidence).chunks, TopK)) \cap store
                  IN  /\ \A c \in Range(Recall(ctx, latest)) : c.id \in kept
                      /\ kept # {} => Recall(ctx, latest) # <<>>
<1> DEFINE h == Heard(session, ctx)
           cs == Remembered(h, store, ctx.place, ctx.topic, latest)
           near == PlaceAware(cs, ActiveAmong(ctx))
           chosen == Select(near, TopK)
           kept == Range(UpTo(Last(session.evidence).chunks, TopK)) \cap store
<1>1. SessionOK(h) /\ h.evidence = session.evidence
  BY HeardIn, SessionIs
<1>2. session.evidence # <<>> => Last(session.evidence).chunks \in Seq(Ids)
  <2> SUFFICES ASSUME session.evidence # <<>> PROVE Last(session.evidence).chunks \in Seq(Ids)
    OBVIOUS
  <2>1. session.evidence \in Seq(Traces)
    BY DEF Sessions
  <2>2. Last(session.evidence) \in Traces
    BY <2>1 DEF Last
  <2> QED
    BY <2>2 DEF Traces
<1>3. cs \in Seq(Chunks)
      /\ (latest /\ session.evidence # <<>> =>
              Range(cs) =
                  {Record(id) : id \in store \cap Range(UpTo(Last(h.evidence).chunks, TopK))})
  <2> HIDE DEF h
  <2> QED
    BY <1>1, RememberedIn
<1>4. session.evidence # <<>> => kept \subseteq Ids
  <2> SUFFICES ASSUME session.evidence # <<>> PROVE kept \subseteq Ids
    OBVIOUS
  <2> DEFINE a == Last(session.evidence).chunks
             b == UpTo(a, TopK)
  <2>1. a \in Seq(Ids)
    BY <1>2
  <2> HIDE DEF a
  <2>2. b \in Seq(Ids)
    BY <2>1, UpToIn, BoundsIn
  <2> HIDE DEF b
  <2>3. Range(b) \subseteq Ids
    BY <2>2, SeqRange
  <2> QED
    BY <2>3 DEF a, b
<1>5. latest /\ session.evidence # <<>> => Range(cs) = {Record(id) : id \in kept}
  <2>1. store \cap Range(UpTo(Last(session.evidence).chunks, TopK)) = kept
    OBVIOUS
  <2> HIDE DEF kept, cs, h
  <2> QED
    BY <1>1, <1>3, <2>1
<1> HIDE DEF cs, h, kept
<1>6. near \in Seq(Chunks) /\ Range(near) \subseteq Range(cs) /\ (cs # <<>> => near # <<>>)
  BY <1>3, PlaceAwareIn
<1> HIDE DEF near
<1>7. /\ ChosenOK(chosen) /\ Range(chosen) \subseteq Range(near)
      /\ (near # <<>> => chosen # <<>>)
  BY <1>6, SelectChosen, SelectIn, BoundsIn
<1>8. chosen = Recall(ctx, latest)
  BY DEF Recall, near, cs, h
<1> HIDE DEF chosen
<1>9. ASSUME latest, session.evidence # <<>>
      PROVE  /\ \A c \in Range(chosen) : c.id \in kept
             /\ kept # {} => chosen # <<>>
  <2>1. Range(cs) = {Record(id) : id \in kept} /\ kept \subseteq Ids
    BY <1>4, <1>5, <1>9
  <2>2. \A id \in kept : Record(id).id = id
    BY <2>1, ChunkIs
  <2>3. \A c \in Range(chosen) : c.id \in kept
    BY <1>6, <1>7, <2>1, <2>2
  <2>4. kept # {} => Range(cs) # {}
    BY <2>1
  <2>5. kept # {} => cs # <<>>
    BY <1>3, <2>4, SeqRange
  <2> QED
    BY <1>6, <1>7, <2>3, <2>5
<1> QED
  BY <1>7, <1>8, <1>9 DEF kept

\* A search for a name with other cues is one for names.
LEMMA CuesOnly ==
    ASSUME NEW n \in Some, NEW cues
    PROVE  [Term(n) EXCEPT !.cues = cues].names \in Seq(Names)
<1> DEFINE t == Term(n)
<1>1. t \in Texts
  BY TermIn
<1>2. t \in [names : Seq(Names), cues : SUBSET (Facets \cup Phrases \cup Periods)]
  BY <1>1 DEF Texts
<1> HIDE DEF t
<1>3. [t EXCEPT !.cues = cues].names = t.names /\ t.names \in Seq(Names)
  BY <1>2
<1> QED
  BY <1>3 DEF t

\* A search that is tried again with fewer terms finds chosen chunks.
LEMMA SearchWithRetryFinds ==
    ASSUME NEW ctx, ContextOK(ctx)
    PROVE  ChosenOK(SearchWithRetry(ctx))
<1> DEFINE facet == [Term(ctx.subject) EXCEPT !.cues = {ctx.intent} \ {"overview"}]
           subjects == SubjectsOf(ctx.search)
           plain == [Blank EXCEPT !.names = subjects]
           retry == Retry(ctx)
           search == ctx.search
           first == SubjectAwareSearch(store, store = disk, search)
           again == SubjectAwareSearch(store, store = disk, retry)
<1>1. search \in Texts /\ ctx.subject \in Some
  BY DEF ContextOK
<1>2. facet.names \in Seq(Names)
  BY <1>1, CuesOnly
<1>3. plain.names \in Seq(Names)
  <2>1. search.names \in Seq(Names)
    BY <1>1, TextIs
  <2> HIDE DEF search
  <2>2. subjects \in Seq(Names)
    BY <2>1, SubjectsIn DEF search
  <2> HIDE DEF subjects
  <2> QED
    BY <2>2 DEF Blank
<1>4. retry \in {facet, plain}
  BY DEF Retry, facet, plain, subjects
<1> HIDE DEF facet, plain, retry
<1>5. retry.names \in Seq(Names) /\ search.names \in Seq(Names)
  BY <1>1, <1>2, <1>3, <1>4, TextIs
<1> HIDE DEF search
<1>6. ChosenOK(first) /\ ChosenOK(again)
  BY <1>5, SubjectSearchFinds
<1>7. SearchWithRetry(ctx) \in {first, again}
  BY DEF SearchWithRetry, OrRetry, first, again, search, retry
<1> QED
  BY <1>6, <1>7

\* The records of the latest answer that found some, as far as they are loaded.
LatestKept ==
    IF session.evidence = <<>> THEN {}
    ELSE Range(UpTo(Last(session.evidence).chunks, TopK)) \cap store

\* What a question gathers is chosen; a rewording gathers from the records of the
\* latest answer, without a search, as long as one is loaded.
LEMMA GatheredIn ==
    ASSUME session \in Sessions, NEW q, NEW ctx, ContextOK(ctx)
    PROVE  /\ ChosenOK(Gathered(q, ctx).chunks)
           /\ ctx.kind = "transform" /\ LatestKept # {} =>
                  /\ ~Gathered(q, ctx).searched
                  /\ \A c \in Range(Gathered(q, ctx).chunks) : c.id \in LatestKept
<1> DEFINE none == <<>>
           again == ctx.kind \in {"transform", "expand"}
           remembered == IF again THEN Recall(ctx, TRUE) ELSE none
           search == CASE ctx.kind = "expand" -> ~DetailSufficient(ctx.question, remembered)
                       [] ctx.kind = "transform" -> remembered = <<>>
                       [] OTHER -> TRUE
           near == PlaceAware(SearchWithRetry(ctx), ActiveAmong(ctx))
           found == IF search THEN Select(near, TopK) ELSE none
           one == UpTo(remembered, 1)
           rest == SubSeq(remembered, 2, Len(remembered))
           head == one \o found
           all == head \o rest
           mixed == IF remembered = <<>> THEN found ELSE Select(all, TopK)
           back == /\ mixed = <<>> /\ {"again", "first"} \cap q.cues = {}
                   /\ (ctx.kind # "independent" \/ Has(q, "inside"))
           chunks == IF back THEN Recall(ctx, FALSE) ELSE mixed
<1>1. Gathered(q, ctx).chunks = chunks /\ Gathered(q, ctx).searched = search
  BY DEF Gathered, GatheredWith
<1>2. ChosenOK(none) /\ ChosenOK(Recall(ctx, TRUE)) /\ ChosenOK(Recall(ctx, FALSE))
  BY EmptyChosen, RecallIn
<1>3. /\ ChosenOK(remembered)
      /\ (again => remembered = Recall(ctx, TRUE))
  BY <1>2
<1>4. ctx.kind = "transform" => search = (remembered = <<>>)
  OBVIOUS
<1>5. near \in Seq(Chunks)
  BY SearchWithRetryFinds, PlaceAwareIn DEF ChosenOK
<1> HIDE DEF near, search, remembered, none
<1>6. ChosenOK(found) /\ (~search => found = <<>>)
  <2>1. ChosenOK(Select(near, TopK))
    BY <1>5, SelectChosen
  <2> QED
    BY <1>2, <2>1 DEF none
<1> HIDE DEF found
<1>7. remembered \in Seq(Chunks) /\ found \in Seq(Chunks) /\ Len(remembered) \in Nat
  BY <1>3, <1>6 DEF ChosenOK
<1>8. one \in Seq(Chunks) /\ Range(one) \subseteq Range(remembered)
      /\ (remembered # <<>> => one # <<>>)
  BY <1>7, UpToIn
<1>9. rest \in Seq(Chunks) /\ Range(rest) \subseteq Range(remembered)
  <2>1. rest \in Seq(Chunks) /\ \A i \in 1 .. Len(rest) : rest[i] = remembered[i + 1]
        /\ i + 1 \in 1 .. Len(remembered)
    BY <1>7
  <2> HIDE DEF rest
  <2> QED
    BY <1>7, <2>1 DEF Range
<1> HIDE DEF one, rest
<1>10. head \in Seq(Chunks) /\ Range(head) = Range(one) \cup Range(found)
       /\ (one # <<>> => head # <<>>)
  <2>1. one \o found \in Seq(Chunks) /\ Range(one \o found) = Range(one) \cup Range(found)
    BY <1>7, <1>8, ConcatIn
  <2>2. one # <<>> => Range(one) # {}
    BY <1>8, SeqRange
  <2>3. Range(one \o found) # {} => one \o found # <<>>
    BY <2>1, SeqRange
  <2> QED
    BY <2>1, <2>2, <2>3
<1> HIDE DEF head
<1>11. all \in Seq(Chunks) /\ Range(all) = Range(head) \cup Range(rest)
       /\ (head # <<>> => all # <<>>)
  <2>1. head \o rest \in Seq(Chunks) /\ Range(head \o rest) = Range(head) \cup Range(rest)
    BY <1>9, <1>10, ConcatIn
  <2>2. head # <<>> => Range(head) # {}
    BY <1>10, SeqRange
  <2>3. Range(head \o rest) # {} => head \o rest # <<>>
    BY <2>1, SeqRange
  <2> QED
    BY <2>1, <2>2, <2>3
<1> HIDE DEF all
<1>12. /\ ChosenOK(Select(all, TopK)) /\ Range(Select(all, TopK)) \subseteq Range(all)
       /\ (all # <<>> => Select(all, TopK) # <<>>)
  BY <1>11, SelectChosen, SelectIn, BoundsIn
<1>13. ChosenOK(mixed)
  BY <1>6, <1>12
<1>14. remembered # <<>> /\ found = <<>> =>
           mixed # <<>> /\ Range(mixed) \subseteq Range(remembered)
  <2> SUFFICES ASSUME remembered # <<>>, found = <<>>
               PROVE  mixed # <<>> /\ Range(mixed) \subseteq Range(remembered)
    OBVIOUS
  <2>1. Range(found) = {}
    BY <1>7, SeqRange
  <2> QED
    BY <1>8, <1>9, <1>10, <1>11, <1>12, <2>1
<1> HIDE DEF mixed
<1>15. ChosenOK(chunks)
  BY <1>2, <1>13
<1>16. ASSUME ctx.kind = "transform", LatestKept # {}
       PROVE  ~search /\ \A c \in Range(chunks) : c.id \in LatestKept
  <2>1. /\ session.evidence # <<>>
        /\ LatestKept = Range(UpTo(Last(session.evidence).chunks, TopK)) \cap store
    BY <1>16 DEF LatestKept
  <2>2. remembered # <<>> /\ \A c \in Range(remembered) : c.id \in LatestKept
    BY <1>3, <1>16, <2>1, RecallIn
  <2>3. ~search /\ found = <<>>
    BY <1>4, <1>6, <1>16, <2>2
  <2>4. chunks = mixed /\ Range(mixed) \subseteq Range(remembered)
    BY <1>14, <2>2, <2>3
  <2> QED
    BY <2>2, <2>3, <2>4
<1> HIDE DEF chunks
<1> QED
  BY <1>1, <1>15, <1>16

-----------------------------------------------------------------------------
(* Facts *)

\* The easily confused names of a chunk other than the subject.
Others(c, subject) == (Mentions(c) \cap {n \in Names : Rival[n] # {}}) \ {subject}
\* The places of chunks about the subject and not its rival; and of those about no
\* other name that is easily confused.
CleanAt(cs, subject) ==
    {i \in DOMAIN cs : subject \in Mentions(cs[i]) /\ Mentions(cs[i]) \cap Rival[subject] = {}}
PlainAt(cs, subject) == {i \in DOMAIN cs : Others(cs[i], subject) = {}}

\* The scope of a subject: the clean chunks if there are any, or the plain ones.
LEMMA ScopedIs ==
    \A cs, subject :
        Scoped(cs, subject) =
            IF cs = <<>> \/ subject = NoName THEN cs
            ELSE IF /\ subject \in {n \in Names : Rival[n] # {}}
                    /\ Pick(cs, CleanAt(cs, subject)) # <<>>
            THEN Pick(cs, CleanAt(cs, subject))
            ELSE IF Others(cs[1], subject) # {} THEN cs
            ELSE Pick(cs, PlainAt(cs, subject))
BY DEF Scoped, Others, CleanAt, PlainAt

\* What is in the scope of a subject stays in it.
LEMMA ScopedIn ==
    ASSUME NEW cs \in Seq(Chunks), NEW subject
    PROVE  /\ Scoped(cs, subject) \in Seq(Chunks)
           /\ Range(Scoped(cs, subject)) \subseteq Range(cs)
           /\ Scoped(Scoped(cs, subject), subject) = Scoped(cs, subject)
<1> DEFINE clean == Pick(cs, CleanAt(cs, subject))
           rest == Pick(cs, PlainAt(cs, subject))
           easy == subject \in {n \in Names : Rival[n] # {}}
<1>1. clean \in Seq(Chunks) /\ Range(clean) \subseteq Range(cs)
      /\ Range(clean) = {cs[i] : i \in CleanAt(cs, subject) \cap (1 .. Len(cs))}
  BY PickIn
<1>2. rest \in Seq(Chunks) /\ Range(rest) \subseteq Range(cs)
      /\ Range(rest) = {cs[i] : i \in PlainAt(cs, subject) \cap (1 .. Len(cs))}
  BY PickIn
<1>3. DOMAIN cs = 1 .. Len(cs) /\ DOMAIN clean = 1 .. Len(clean) /\ DOMAIN rest = 1 .. Len(rest)
  BY <1>1, <1>2
<1>4. Scoped(cs, subject) =
          IF cs = <<>> \/ subject = NoName THEN cs
          ELSE IF easy /\ clean # <<>> THEN clean
          ELSE IF Others(cs[1], subject) # {} THEN cs
          ELSE rest
  BY ScopedIs
<1> HIDE DEF clean, rest, easy
<1>5. CASE Scoped(cs, subject) = cs
  BY <1>5
<1>6. CASE ~(cs = <<>> \/ subject = NoName) /\ easy /\ clean # <<>>
  <2>1. Scoped(cs, subject) = clean
    BY <1>4, <1>6
  <2>2. \A i \in DOMAIN clean : \E j \in CleanAt(cs, subject) : clean[i] = cs[j]
    <3> TAKE i \in DOMAIN clean
    <3>1. clean[i] \in Range(clean)
      BY DEF Range
    <3> QED
      BY <1>1, <3>1
  <2>3. DOMAIN clean \subseteq CleanAt(clean, subject)
    BY <2>2 DEF CleanAt
  <2>4. Pick(clean, CleanAt(clean, subject)) = clean
    BY <1>1, <1>3, <2>3, PickAll
  <2>5. Scoped(clean, subject) = clean
    BY <1>6, <2>4, ScopedIs DEF easy
  <2> QED
    BY <1>1, <2>1, <2>5
<1>7. CASE /\ ~(cs = <<>> \/ subject = NoName) /\ ~(easy /\ clean # <<>>)
           /\ Others(cs[1], subject) = {}
  <2>1. Scoped(cs, subject) = rest
    BY <1>4, <1>7
  <2>2. \A i \in DOMAIN rest : \E j \in PlainAt(cs, subject) : rest[i] = cs[j]
    <3> TAKE i \in DOMAIN rest
    <3>1. rest[i] \in Range(rest)
      BY DEF Range
    <3> QED
      BY <1>2, <3>1
  <2>3. \A i \in DOMAIN rest : Others(rest[i], subject) = {}
    BY <2>2 DEF PlainAt
  <2>4. DOMAIN rest \subseteq PlainAt(rest, subject)
    BY <2>3 DEF PlainAt
  <2>5. Pick(rest, PlainAt(rest, subject)) = rest
    BY <1>2, <1>3, <2>4, PickAll
  <2> DEFINE again == Pick(rest, CleanAt(rest, subject))
  <2>6. ASSUME easy PROVE again = <<>>
    <3>1. again \in Seq(Chunks)
          /\ Range(again) = {rest[i] : i \in CleanAt(rest, subject) \cap (1 .. Len(rest))}
      BY <1>2, PickIn
    <3>2. clean = <<>>
      BY <1>7, <2>6
    <3>3. Range(clean) = {}
      BY <1>1, <3>2, SeqRange
    <3>4. CleanAt(cs, subject) = {}
      <4>1. CleanAt(cs, subject) \subseteq 1 .. Len(cs)
        BY <1>3 DEF CleanAt
      <4> QED
        BY <1>1, <3>3, <4>1
    <3>5. CleanAt(rest, subject) = {}
      <4> SUFFICES ASSUME NEW i \in CleanAt(rest, subject) PROVE FALSE
        OBVIOUS
      <4>1. i \in DOMAIN rest
        BY DEF CleanAt
      <4>2. PICK j \in PlainAt(cs, subject) : rest[i] = cs[j]
        BY <2>2, <4>1
      <4>3. j \in CleanAt(cs, subject)
        BY <4>2 DEF CleanAt, PlainAt
      <4> QED
        BY <3>4, <4>3
    <3> HIDE DEF again
    <3>6. Range(again) = {}
      BY <3>1, <3>5
    <3> QED
      BY <3>1, <3>6, SeqRange
  <2>7. rest # <<>> => Others(rest[1], subject) = {}
    <3> SUFFICES ASSUME rest # <<>> PROVE Others(rest[1], subject) = {}
      OBVIOUS
    <3>1. 1 \in DOMAIN rest
      BY <1>2
    <3> QED
      BY <2>3, <3>1
  <2>8. Scoped(rest, subject) = rest
    <3>1. Scoped(rest, subject) =
              IF rest = <<>> \/ subject = NoName THEN rest
              ELSE IF easy /\ again # <<>> THEN again
              ELSE IF Others(rest[1], subject) # {} THEN rest
              ELSE Pick(rest, PlainAt(rest, subject))
      BY ScopedIs DEF easy
    <3> HIDE DEF again
    <3> QED
      BY <2>5, <2>6, <2>7, <3>1
  <2> QED
    BY <1>2, <2>1, <2>8
<1> QED
  BY <1>4, <1>5, <1>6, <1>7

\* A clause of one of the chunks that is a fact about the subject.
FactOf(f, cs, subject, intent, question) ==
    \E c \in Range(cs) :
        /\ f.id = c.id /\ Record(f.id) = c /\ f.n \in DOMAIN c.clauses
        /\ Clause(f) = c.clauses[f.n] /\ IsFact(c, f.n, subject, intent, question)

\* A clause is found by the id of its chunk and its number.
LEMMA ClauseIs ==
    \A c \in Chunks : \A i \in DOMAIN c.clauses :
        /\ [id |-> c.id, n |-> i] \in Clauses
        /\ Clause([id |-> c.id, n |-> i]) = c.clauses[i]
<1> TAKE c \in Chunks
<1> TAKE i \in DOMAIN c.clauses
<1>1. c.id \in Ids /\ Record(c.id) = c
  BY ChunkIs
<1>2. i \in DOMAIN Record(c.id).clauses
  BY <1>1
<1> HIDE DEF Record
<1> QED
  BY <1>1, <1>2 DEF Clauses, Clause

\* The facts in a chunk are clauses of it that are facts about the subject.
LEMMA FactsInIn ==
    ASSUME NEW c \in Chunks, NEW subject, NEW intent, NEW question
    PROVE  /\ FactsIn(c, subject, intent, question) \in Seq(Clauses)
           /\ \A f \in Range(FactsIn(c, subject, intent, question)) :
                  /\ f.id = c.id /\ f.n \in DOMAIN c.clauses /\ Clause(f) = c.clauses[f.n]
                  /\ IsFact(c, f.n, subject, intent, question)
<1> DEFINE all == [i \in DOMAIN c.clauses |-> [id |-> c.id, n |-> i]]
           K == {i \in DOMAIN c.clauses : IsFact(c, i, subject, intent, question)}
           facts == Pick(all, K)
<1>1. DOMAIN c.clauses = 1 .. Len(c.clauses) /\ Len(c.clauses) \in Nat
  BY ChunkIs
<1>2. \A i \in DOMAIN c.clauses :
          /\ [id |-> c.id, n |-> i] \in Clauses
          /\ Clause([id |-> c.id, n |-> i]) = c.clauses[i]
  BY ClauseIs
<1>3. all \in [1 .. Len(c.clauses) -> Clauses]
  BY <1>1, <1>2
<1>4. all \in Seq(Clauses)
  <2> HIDE DEF all
  <2> QED
    BY <1>1, <1>3
<1>5. facts \in Seq(Clauses)
      /\ Range(facts) = {all[i] : i \in K \cap (1 .. Len(all))}
  <2> HIDE DEF all, K
  <2> QED
    BY <1>4, PickIn
<1>6. ASSUME NEW f \in Range(facts)
      PROVE  /\ f.id = c.id /\ f.n \in DOMAIN c.clauses /\ Clause(f) = c.clauses[f.n]
             /\ IsFact(c, f.n, subject, intent, question)
  <2> HIDE DEF facts
  <2>1. PICK i \in K : f = all[i]
    BY <1>5, <1>6
  <2>2. i \in DOMAIN c.clauses /\ IsFact(c, i, subject, intent, question)
    BY <2>1
  <2>3. f = [id |-> c.id, n |-> i]
    BY <2>1, <2>2
  <2> QED
    BY <1>2, <2>2, <2>3
<1>7. facts = FactsIn(c, subject, intent, question)
  BY DEF FactsIn, facts, all, K
<1> HIDE DEF facts
<1> QED
  BY <1>5, <1>6, <1>7

\* The facts of a packet are clauses of the chunks it is made from.
LEMMA PacketIn ==
    ASSUME NEW cs \in Seq(Chunks), NEW subject, NEW intent, NEW question
    PROVE  LET p == Packet(cs, subject, intent, question)
           IN  /\ p.subject = subject /\ p.intent = intent
               /\ p.facts \in Seq(Clauses)
               /\ \A f \in Range(p.facts) : FactOf(f, cs, subject, intent, question)
<1> DEFINE scoped == Scoped(cs, subject)
           each == [k \in DOMAIN scoped |-> FactsIn(scoped[k], subject, intent, question)]
           all == FlattenSeq(each)
           weight == [i \in DOMAIN all |-> Weight(all[i], subject, intent)]
           ranked == HeaviestFirst(all, weight)
           best == UpTo(ranked, 2)
           p == Packet(cs, subject, intent, question)
<1>1. scoped \in Seq(Chunks) /\ Range(scoped) \subseteq Range(cs)
  BY ScopedIn
<1>2. p.subject = subject /\ p.intent = intent /\ p.facts = best
  BY DEF Packet, PacketOfScoped, PacketOf, Ranked
<1> HIDE DEF scoped
<1>3. \A k \in DOMAIN scoped : scoped[k] \in Chunks /\ scoped[k] \in Range(cs)
  BY <1>1, SeqRange
<1>4. \A k \in DOMAIN scoped : FactsIn(scoped[k], subject, intent, question) \in Seq(Clauses)
  BY <1>3, FactsInIn
<1>5. each \in Seq(Seq(Clauses)) /\ DOMAIN each = DOMAIN scoped
      /\ \A k \in DOMAIN scoped : each[k] = FactsIn(scoped[k], subject, intent, question)
  <2>1. Len(scoped) \in Nat /\ DOMAIN scoped = 1 .. Len(scoped)
    BY <1>1
  <2>2. each \in [1 .. Len(scoped) -> Seq(Clauses)]
    BY <1>4, <2>1
  <2>3. each \in Seq(Seq(Clauses))
    <3> HIDE DEF each
    <3> QED
      BY <2>1, <2>2, FunctionIsSeq, Zenon
  <2> QED
    BY <2>3
<1> HIDE DEF each
<1>6. all \in Seq(Clauses)
      /\ \A f : f \in Range(all) <=> \E k \in DOMAIN each : f \in Range(each[k])
  BY <1>5, FlattenIn
<1> HIDE DEF all
<1>7. ranked \in Seq(Clauses) /\ Range(ranked) \subseteq Range(all)
  <2> HIDE DEF weight
  <2> QED
    BY <1>6, HeaviestIn
<1> HIDE DEF ranked
<1>8. best \in Seq(Clauses) /\ Range(best) \subseteq Range(ranked)
  BY <1>7, UpToIn
<1> HIDE DEF best
<1>9. ASSUME NEW f \in Range(best) PROVE FactOf(f, cs, subject, intent, question)
  <2>1. PICK k \in DOMAIN scoped : f \in Range(FactsIn(scoped[k], subject, intent, question))
    BY <1>5, <1>6, <1>7, <1>8
  <2>2. scoped[k] \in Chunks /\ scoped[k] \in Range(cs)
    BY <1>3
  <2>3. /\ f.id = scoped[k].id /\ f.n \in DOMAIN scoped[k].clauses
        /\ Clause(f) = scoped[k].clauses[f.n]
        /\ IsFact(scoped[k], f.n, subject, intent, question)
    BY <2>1, <2>2, FactsInIn
  <2>4. Record(f.id) = scoped[k]
    BY <2>2, <2>3, ChunkIs
  <2> QED
    BY <2>2, <2>3, <2>4 DEF FactOf
<1> HIDE DEF p
<1> QED
  BY <1>2, <1>8, <1>9 DEF p

\* The packet of what is in scope is the packet of the whole.
LEMMA ScopedPacket ==
    ASSUME NEW cs \in Seq(Chunks), NEW subject, NEW intent, NEW question
    PROVE  Packet(Scoped(cs, subject), subject, intent, question)
               = Packet(cs, subject, intent, question)
<1>1. Scoped(Scoped(cs, subject), subject) = Scoped(cs, subject)
  BY ScopedIn
<1> QED
  BY <1>1 DEF Packet

\* A packet has only facts of the chunks, about the subject and the packet's own facet.
PacketOK(k, cs, subject, question) ==
    /\ k.facts \in Seq(Clauses)
    /\ \A f \in Range(k.facts) : FactOf(f, cs, subject, k.intent, question)
    /\ k.facts # <<>> => k.subject = subject

\* A packet made from chunks is one of their facts; so is one of no facts.
LEMMA PacketFound ==
    ASSUME NEW cs \in Seq(Chunks), NEW subject, NEW intent, NEW question
    PROVE  PacketOK(Packet(cs, subject, intent, question), cs, subject, question)
BY PacketIn DEF PacketOK

LEMMA NoPacketFound ==
    \A cs, subject, question : PacketOK(NoPacket, cs, subject, question)
BY DEF PacketOK, NoPacket, Range

\* What is told of a nearby facet is facts of the same chunks.
LEMMA NearbyIn ==
    ASSUME NEW chunks \in Seq(Chunks), NEW ctx, NEW intent
    PROVE  PacketOK(Nearby(chunks, ctx, intent), chunks, ctx.subject, ctx.question)
<1> DEFINE packets == [i \in DOMAIN NearbyOrder |->
                          Packet(chunks, ctx.subject, NearbyOrder[i], ctx.question)]
           K == {i \in DOMAIN packets : packets[i].intent # intent /\ packets[i].facts # <<>>}
           useful == Pick(packets, K)
           X == {Packet(chunks, ctx.subject, NearbyOrder[i], ctx.question) :
                     i \in DOMAIN NearbyOrder}
<1>1. DOMAIN NearbyOrder = 1 .. 7
  BY DEF NearbyOrder
<1>2. packets \in [1 .. 7 -> X]
  BY <1>1
<1>3. packets \in Seq(X)
  <2>1. 7 \in Nat
    OBVIOUS
  <2> HIDE DEF packets, X
  <2> QED
    BY <1>2, <2>1, FunctionIsSeq, Zenon
<1>4. \A k \in X : PacketOK(k, chunks, ctx.subject, ctx.question)
  BY PacketFound
<1>5. useful \in Seq(X)
  <2> HIDE DEF packets, X, K
  <2> QED
    BY <1>3, PickIn
<1>6. Nearby(chunks, ctx, intent) = IF useful = <<>> THEN NoPacket ELSE useful[1]
  BY DEF Nearby, packets, K, useful
<1> HIDE DEF useful, X
<1>7. useful # <<>> => useful[1] \in X
  BY <1>5
<1> QED
  BY <1>4, <1>6, <1>7, NoPacketFound

\* What a question compares is two names or more, or nothing.
LEMMA PairIn ==
    ASSUME NEW q, NEW ctx, ContextOK(ctx)
    PROVE  Pair(q, ctx) \in Seq(Names) /\ (Pair(q, ctx) # <<>> => Len(Pair(q, ctx)) >= 2)
<1> DEFINE doubt == Has(q, "doubt") /\ Len(ctx.entities) >= 2
           search == ctx.search
           named == SubjectsOf(search)
           among == IF doubt THEN ctx.entities ELSE named
           subjects == UpTo(among, 2)
<1>1. search.names \in Seq(Names) /\ ctx.entities \in Seq(Names)
  BY TextIs DEF ContextOK
<1> HIDE DEF search
<1>2. named \in Seq(Names)
  BY <1>1, SubjectsIn
<1> HIDE DEF named
<1>3. among \in Seq(Names)
  BY <1>1, <1>2
<1> HIDE DEF among
<1>4. subjects \in Seq(Names) /\ Len(subjects) \in Nat
  <2>1. subjects \in Seq(Names)
    BY <1>3, UpToIn
  <2> HIDE DEF subjects
  <2> QED
    BY <2>1
<1>5. Pair(q, ctx) = IF (~Has(q, "compare") /\ ~doubt) \/ Len(subjects) < 2
                     THEN <<>> ELSE subjects
  BY DEF Pair, doubt, search, named, among, subjects
<1> HIDE DEF subjects, doubt
<1> QED
  BY <1>4, <1>5

\* Each side of a comparison has the facts of what was found for it, and there
\* are two sides or none.
SideOK(k) == k.chunks \in Seq(Chunks)
             /\ \E subject, question : PacketOK(k.packet, k.chunks, subject, question)

LEMMA ComparedIn ==
    ASSUME NEW q, NEW ctx, ContextOK(ctx), NEW place
    PROVE  LET compared == Compared(q, ctx, place)
           IN  /\ compared \in Seq({k \in Range(compared) : SideOK(k)})
               /\ compared # <<>> => Len(compared) >= 2
<1> DEFINE asked == Keep(<<"time", "people">>, q.cues)
           facets == IF asked = <<>> THEN <<"overview">> ELSE asked
           pair == Pair(q, ctx)
           text(n, f) == [Term(n) EXCEPT !.cues = {f} \ {"overview"}]
           side(i, j) == Side(pair[i], facets[j], text(pair[i], facets[j]),
                 Find(store, store = disk, text(pair[i], facets[j]), place))
           X == {side(ij[1], ij[2]) : ij \in (DOMAIN pair) \X (DOMAIN facets)}
           row(i) == [j \in DOMAIN facets |-> side(i, j)]
           rows == [i \in DOMAIN pair |-> row(i)]
           all == FlattenSeq(rows)
<1>1. Compared(q, ctx, place) = all
  BY DEF Compared
<1>2. pair \in Seq(Names) /\ (pair # <<>> => Len(pair) >= 2)
  BY PairIn
<1>3. facets \in Seq({"time", "people", "overview"}) /\ facets # <<>>
  <2> DEFINE order == <<"time", "people">>
             F == {"time", "people", "overview"}
  <2>1. order \in Seq(F)
    OBVIOUS
  <2> HIDE DEF order, F
  <2>2. asked \in Seq(F)
    BY <2>1, KeepIn DEF order
  <2> HIDE DEF asked
  <2>3. <<"overview">> \in Seq(F)
    BY DEF F
  <2> QED
    BY <2>2, <2>3 DEF F
<1> HIDE DEF facets, pair
<1>4. Len(pair) \in Nat /\ DOMAIN pair = 1 .. Len(pair)
      /\ Len(facets) \in Nat /\ Len(facets) # 0 /\ DOMAIN facets = 1 .. Len(facets)
  BY <1>2, <1>3
<1>5. \A k \in X : SideOK(k)
  <2> SUFFICES ASSUME NEW i \in DOMAIN pair, NEW j \in DOMAIN facets
               PROVE  SideOK(side(i, j))
    OBVIOUS
  <2> DEFINE t == text(pair[i], facets[j])
             cs == Find(store, store = disk, t, place)
  <2>1. pair[i] \in Some
    BY <1>2 DEF Some
  <2>2. t.names \in Seq(Names)
    BY <2>1, CuesOnly
  <2>3. side(i, j) = Side(pair[i], facets[j], t, cs)
    OBVIOUS
  <2> HIDE DEF t
  <2>4. cs \in Seq(Chunks)
    BY <2>2, FindFinds DEF ChosenOK
  <2> HIDE DEF cs
  <2>5. PacketOK(Packet(cs, pair[i], facets[j], t), cs, pair[i], t)
    BY <2>4, PacketFound
  <2>6. Side(pair[i], facets[j], t, cs)
            = [chunks |-> cs, packet |-> Packet(cs, pair[i], facets[j], t)]
    BY DEF Side
  <2>7. SideOK(Side(pair[i], facets[j], t, cs))
    BY <2>4, <2>5, <2>6 DEF SideOK
  <2> HIDE DEF side
  <2> QED
    BY <2>3, <2>7
<1>6. \A i \in DOMAIN pair : row(i) \in Seq(X) /\ row(i) # <<>>
  <2> TAKE i \in DOMAIN pair
  <2> DEFINE r == row(i)
  <2>1. \A j \in DOMAIN facets : side(i, j) \in X
    <3> TAKE j \in DOMAIN facets
    <3>1. <<i, j>> \in (DOMAIN pair) \X (DOMAIN facets)
      OBVIOUS
    <3> HIDE DEF side
    <3> QED
      BY <3>1
  <2>2. r \in [1 .. Len(facets) -> X] /\ 1 \in DOMAIN r
    <3> HIDE DEF side, X
    <3> QED
      BY <1>4, <2>1
  <2> HIDE DEF X, r
  <2>3. r \in Seq(X)
    BY <1>4, <2>2
  <2>4. r # <<>>
    BY <2>2
  <2> QED
    BY <2>3, <2>4 DEF r
<1> HIDE DEF X, row
<1>7. rows \in Seq(Seq(X)) /\ Len(rows) = Len(pair)
      /\ (\A i \in DOMAIN rows : rows[i] # <<>>)
  <2>1. rows \in [1 .. Len(pair) -> Seq(X)] /\ \A i \in DOMAIN rows : rows[i] # <<>>
    BY <1>4, <1>6
  <2> HIDE DEF rows
  <2>2. rows \in Seq(Seq(X))
    BY <1>4, <2>1, FunctionIsSeq, Zenon
  <2>3. Len(rows) = Len(pair)
    BY <1>4, <2>1, <2>2
  <2> QED
    BY <2>1, <2>2, <2>3
<1> HIDE DEF rows
<1>8. all \in Seq(X) /\ Len(all) >= Len(pair)
      /\ \A x : x \in Range(all) <=> \E i \in DOMAIN rows : x \in Range(rows[i])
  BY <1>7, FlattenIn
<1> HIDE DEF all
<1>9. all # <<>> => Len(all) >= 2
  <2> SUFFICES ASSUME all # <<>> PROVE Len(all) >= 2
    OBVIOUS
  <2>1. Range(all) # {} /\ Len(all) \in Nat
    BY <1>8, SeqRange
  <2>2. DOMAIN rows # {}
    BY <1>8, <2>1
  <2>3. pair # <<>>
    BY <1>4, <1>7, <2>2
  <2> QED
    BY <1>2, <1>4, <1>8, <2>1, <2>3
<1>10. all \in Seq({k \in Range(all) : SideOK(k)})
  <2>1. Range(all) \subseteq {k \in Range(all) : SideOK(k)}
    BY <1>5, <1>8, SeqRange
  <2> QED
    BY <1>8, <2>1, InSeqOf
<1> QED
  BY <1>1, <1>9, <1>10

\* The facts of some chunks are facts of more of them.
LEMMA PacketMore ==
    ASSUME NEW k, NEW cs, NEW ds, NEW subject, NEW question,
           PacketOK(k, cs, subject, question), Range(cs) \subseteq Range(ds)
    PROVE  PacketOK(k, ds, subject, question)
<1>1. \A f : FactOf(f, cs, subject, k.intent, question)
                 => FactOf(f, ds, subject, k.intent, question)
  BY DEF FactOf
<1> QED
  BY <1>1 DEF PacketOK

\* The facts that answer best are all the facts of the chunks they come with.
BestOK(b, ctx) ==
    /\ ChosenOK(b.chunks)
    /\ PacketOK(b.packet, b.chunks, ctx.subject, ctx.question)
    /\ b.packet.facts # <<>> =>
           b.packet = Packet(b.chunks, ctx.subject, b.packet.intent, ctx.question)

\* The packet of what was chosen has all of its facts.
LEMMA WholeBest ==
    ASSUME NEW cs, ChosenOK(cs), NEW ctx, NEW intent, NEW again
    PROVE  BestOK([chunks |-> cs, packet |-> FactsOn(ctx, cs, intent), again |-> again], ctx)
<1> DEFINE k == FactsOn(ctx, cs, intent)
<1>1. cs \in Seq(Chunks) /\ k = Packet(cs, ctx.subject, intent, ctx.question)
  BY DEF ChosenOK, FactsOn
<1>2. PacketOK(k, cs, ctx.subject, ctx.question) /\ k.intent = intent
  BY <1>1, PacketFound, PacketIn
<1> HIDE DEF k
<1> QED
  BY <1>1, <1>2 DEF BestOK, k

\* The best evidence has all of its facts, and without a search for the actors it is what
\* was found first, or is about a role.
LEMMA BestIn ==
    ASSUME NEW q, NEW ctx, ContextOK(ctx), NEW intent, NEW plain, ChosenOK(plain),
           NEW actors, ChosenOK(actors), NEW role, ChosenOK(role)
    PROVE  LET b == Best(q, ctx, intent, plain, actors, role)
           IN  /\ BestOK(b, ctx)
               /\ actors = <<>> =>
                      \/ b.chunks = plain
                      \/ b.packet.facts # <<>> /\ b.packet.intent = "role"
<1> DEFINE found == [chunks |-> plain, packet |-> FactsOn(ctx, plain, intent), again |-> FALSE]
           people == FactsOn(ctx, actors, "people")
           active == [chunks |-> Select(actors, TopK), packet |-> people, again |-> FALSE]
           place == IF intent = "people" /\ Has(q, "orplace")
                    THEN FactsOn(ctx, plain, "place") ELSE NoPacket
           placed == [chunks |-> plain, again |-> FALSE, packet |-> place]
           played == [chunks |-> role, packet |-> FactsOn(ctx, role, "role"), again |-> TRUE]
           b == Best(q, ctx, intent, plain, actors, role)
<1>1. b = BestOf(found, active, placed, played)
  BY DEF Best
<1>2. BestOK(found, ctx) /\ BestOK(played, ctx)
  BY WholeBest
<1>3. BestOK(active, ctx)
  <2>1. Select(actors, TopK) = actors
    BY DEF ChosenOK
  <2> QED
    BY <2>1, WholeBest
<1>4. placed.packet.facts # <<>> => BestOK(placed, ctx)
  <2> SUFFICES ASSUME placed.packet.facts # <<>> PROVE BestOK(placed, ctx)
    OBVIOUS
  <2>1. place = FactsOn(ctx, plain, "place")
    BY DEF NoPacket
  <2>2. placed = [chunks |-> plain, packet |-> FactsOn(ctx, plain, "place"), again |-> FALSE]
    BY <2>1
  <2> QED
    BY <2>2, WholeBest
<1>5. played.packet.intent = "role"
  <2>1. role \in Seq(Chunks)
    BY DEF ChosenOK
  <2>2. FactsOn(ctx, role, "role").intent = "role"
    BY <2>1, PacketIn DEF FactsOn
  <2> QED
    BY <2>2
<1>6. actors = <<>> => VerifiedPeople(active.packet) = {}
  <2> SUFFICES ASSUME actors = <<>> PROVE VerifiedPeople(active.packet) = {}
    OBVIOUS
  <2>1. actors \in Seq(Chunks) /\ Range(actors) = {}
    BY SeqRange DEF ChosenOK
  <2>2. \A f \in Range(people.facts) : FactOf(f, actors, ctx.subject, "people", ctx.question)
    BY <2>1, PacketIn DEF FactsOn
  <2>3. \A f : ~FactOf(f, actors, ctx.subject, "people", ctx.question)
    BY <2>1 DEF FactOf
  <2> HIDE DEF people
  <2>4. Range(people.facts) = {}
    BY <2>2, <2>3
  <2>5. VerifiedPeople(people) = {}
    BY <2>4 DEF VerifiedPeople
  <2> QED
    BY <2>5
<1>7. found.chunks = plain /\ placed.chunks = plain
  OBVIOUS
<1> HIDE DEF found, active, placed, played
<1>8. \/ b = active /\ VerifiedPeople(active.packet) # {}
      \/ b = found
      \/ b = placed /\ placed.packet.facts # <<>>
      \/ b = played /\ played.packet.facts # <<>>
  BY <1>1 DEF BestOf, OrElse
<1> HIDE DEF b
<1>9. BestOK(b, ctx)
  BY <1>2, <1>3, <1>4, <1>8
<1>10. ASSUME actors = <<>>
       PROVE  b.chunks = plain \/ (b.packet.facts # <<>> /\ b.packet.intent = "role")
  BY <1>5, <1>6, <1>7, <1>8, <1>10
<1> QED
  BY <1>9, <1>10 DEF b

\* What the evidence of a question is good for.
EvidenceOK(p, ctx) ==
    /\ p.chunks \in Seq(Chunks)
    /\ PacketOK(p.packet, p.chunks, ctx.subject, ctx.question)
    /\ PacketOK(p.nearby, p.chunks, ctx.subject, ctx.question)
    /\ \A k \in Range(p.compared) :
           \E subject, question : PacketOK(k, p.chunks, subject, question)
    /\ p.packet.facts # <<>> => p.intent = p.packet.intent
    /\ p.packet.facts # <<>> /\ ~(Len(p.compared) >= 2) =>
           p.packet = Packet(p.chunks, ctx.subject, p.packet.intent, ctx.question)

\* The evidence of a question is good for its answer: the packet, what is nearby and the
\* sides of a comparison have facts of its chunks.
LEMMA EvidencedIn ==
    ASSUME NEW ctx, NEW intent, NEW g, NEW refused, NEW best, BestOK(best, ctx),
           NEW compared, compared \in Seq({k \in Range(compared) : SideOK(k)}),
           compared # <<>> => Len(compared) >= 2
    PROVE  LET p == Evidenced(ctx, intent, g, refused, best, compared)
           IN  /\ EvidenceOK(p, ctx)
               /\ p.verified \in {ctx.subject, NoName}
               /\ ~(Len(p.compared) >= 2) => p.chunks = best.chunks
<1> DEFINE p == Evidenced(ctx, intent, g, refused, best, compared)
           sides == [i \in DOMAIN compared |-> compared[i].chunks]
           more == FlattenSeq(sides)
           found == best.chunks
           all == found \o more
           none == [i \in DOMAIN compared |-> compared[i].packet]
<1>1. /\ p.chunks = Dedup(all) /\ p.packet = best.packet
      /\ p.nearby = IF best.packet.facts # <<>> THEN NoPacket
                    ELSE Nearby(found, ctx, best.packet.intent)
      /\ p.compared = none
      /\ p.intent = IF best.packet.facts = <<>> THEN intent ELSE best.packet.intent
      /\ p.verified = IF refused THEN VerifiedSubject(ctx.subject, g.chunks) ELSE NoName
  BY DEF Evidenced
<1>2. found \in Seq(Chunks) /\ Once(found)
  BY DEF BestOK, ChosenOK
<1>3. Len(compared) \in Nat /\ DOMAIN compared = 1 .. Len(compared)
      /\ \A i \in DOMAIN compared : SideOK(compared[i])
  <2> DEFINE X == {k \in Range(compared) : SideOK(k)}
  <2>1. compared \in Seq(X) /\ \A k \in X : SideOK(k)
    OBVIOUS
  <2> HIDE DEF X
  <2> QED
    BY <2>1
<1>4. sides \in Seq(Seq(Chunks)) /\ DOMAIN sides = DOMAIN compared
  <2>1. sides \in [1 .. Len(compared) -> Seq(Chunks)]
    BY <1>3 DEF SideOK
  <2>2. sides \in Seq(Seq(Chunks))
    <3> HIDE DEF sides
    <3> QED
      BY <1>3, <2>1, FunctionIsSeq, Zenon
  <2> QED
    BY <2>2
<1>5. \A i \in DOMAIN compared : sides[i] = compared[i].chunks
  OBVIOUS
<1> HIDE DEF sides
<1>6. more \in Seq(Chunks)
      /\ \A x : x \in Range(more) <=> \E i \in DOMAIN sides : x \in Range(sides[i])
  BY <1>4, FlattenIn
<1> HIDE DEF more
<1>7. all \in Seq(Chunks) /\ Range(all) = Range(found) \cup Range(more)
  BY <1>2, <1>6, ConcatIn
<1>8. compared = <<>> => all = found
  <2> SUFFICES ASSUME compared = <<>> PROVE all = found
    OBVIOUS
  <2>1. DOMAIN sides = {}
    BY <1>3, <1>4
  <2>2. Range(more) = {}
    BY <1>6, <2>1
  <2>3. more = <<>>
    BY <1>6, <2>2, SeqRange
  <2> QED
    BY <1>2, <2>3, ConcatEmptySeq
<1> HIDE DEF all, found
<1>9. Dedup(all) \in Seq(Chunks) /\ Range(Dedup(all)) = Range(all)
  BY <1>7, DedupIn
<1>10. compared = <<>> => Dedup(all) = found
  BY <1>2, <1>8, DedupSame
<1>11. Len(none) = Len(compared)
  <2>1. none \in [1 .. Len(compared) -> Range(none)]
    BY <1>3 DEF Range
  <2> HIDE DEF none
  <2> QED
    BY <1>3, <2>1
<1>12. ~(Len(p.compared) >= 2) => compared = <<>>
  BY <1>1, <1>11
<1>13. PacketOK(best.packet, found, ctx.subject, ctx.question)
       /\ PacketOK(Nearby(found, ctx, best.packet.intent), found, ctx.subject, ctx.question)
  BY <1>2, NearbyIn DEF BestOK, found
<1>14. PacketOK(p.packet, p.chunks, ctx.subject, ctx.question)
  BY <1>1, <1>7, <1>9, <1>13, PacketMore
<1>15. PacketOK(p.nearby, p.chunks, ctx.subject, ctx.question)
  BY <1>1, <1>7, <1>9, <1>13, PacketMore, NoPacketFound
<1>16. ASSUME NEW k \in Range(p.compared)
       PROVE  \E subject, question : PacketOK(k, p.chunks, subject, question)
  <2>1. PICK i \in DOMAIN compared : k = compared[i].packet
    BY <1>1, <1>16 DEF Range
  <2>2. PICK subject, question : PacketOK(k, compared[i].chunks, subject, question)
    BY <1>3, <2>1 DEF SideOK
  <2>3. Range(compared[i].chunks) \subseteq Range(more)
    BY <1>4, <1>5, <1>6
  <2>4. Range(compared[i].chunks) \subseteq Range(p.chunks)
    BY <1>1, <1>7, <1>9, <2>3
  <2> QED
    BY <2>2, <2>4, PacketMore
<1>17. ASSUME p.packet.facts # <<>>, ~(Len(p.compared) >= 2)
       PROVE  p.packet = Packet(p.chunks, ctx.subject, p.packet.intent, ctx.question)
  <2>1. p.chunks = found
    BY <1>1, <1>10, <1>12, <1>17
  <2> QED
    BY <1>1, <1>17, <2>1 DEF BestOK, found
<1>18. p.packet.facts # <<>> => p.intent = p.packet.intent
  BY <1>1
<1>19. p.verified \in {ctx.subject, NoName}
  BY <1>1 DEF VerifiedSubject
<1>20. ~(Len(p.compared) >= 2) => p.chunks = best.chunks
  BY <1>1, <1>10, <1>12 DEF found
<1>21. p.chunks \in Seq(Chunks)
  BY <1>1, <1>9
<1> HIDE DEF p
<1>22. EvidenceOK(p, ctx)
  BY <1>14, <1>15, <1>16, <1>17, <1>18, <1>21 DEF EvidenceOK
<1> QED
  BY <1>19, <1>20, <1>22 DEF p

\* So is what any question prepares; a rewording that compares nothing and asks for no role
\* has chunks of the latest answer.
LEMMA PreparedIn ==
    ASSUME session \in Sessions, NEW q, NEW ctx, ContextOK(ctx)
    PROVE  LET p == Prepared(q, ctx)
           IN  /\ EvidenceOK(p, ctx)
               /\ p.verified \in {ctx.subject, NoName}
               /\ ctx.kind = "transform" /\ LatestKept # {} /\ ~(Len(p.compared) >= 2)
                      /\ p.intent # "role" =>
                          \A c \in Range(p.chunks) : c.id \in LatestKept
<1> DEFINE g == Gathered(q, ctx)
           intent == IF ctx.kind # "transform" THEN ctx.intent
                     ELSE IF session.answered = NoName THEN "overview" ELSE session.answered
           actors == Actors(ctx, g, intent)
           place == ActiveAmong(ctx)
           refused == Refused(ctx, g.chunks)
           none == <<>>
           found == IF refused THEN none ELSE g.chunks
           near == PlaceAware(actors \o found, place)
           plain == IF actors = <<>> THEN found ELSE Select(near, TopK)
           role == IF intent = "role" /\ ctx.subject # NoName
                   THEN Find(store, store = disk, AboutFacet(ctx, "role"), place) ELSE none
           best == Best(q, ctx, intent, plain, actors, role)
           compared == Compared(q, ctx, place)
           p == Evidenced(ctx, intent, g, refused, best, compared)
<1>1. Prepared(q, ctx) = p
  BY DEF Prepared, PreparedWith, PreparedFrom
<1>2. ChosenOK(g.chunks) /\ ChosenOK(none)
      /\ (ctx.kind = "transform" /\ LatestKept # {} =>
              ~g.searched /\ \A c \in Range(g.chunks) : c.id \in LatestKept)
  BY GatheredIn, EmptyChosen
<1>3. AboutFacet(ctx, "people").names \in Seq(Names) /\ AboutFacet(ctx, "role").names \in Seq(Names)
  BY CuesOnly DEF ContextOK, AboutFacet
<1>4. ChosenOK(actors) /\ (~g.searched => actors = <<>>)
  <2>1. ChosenOK(SubjectAwareSearch(store, store = disk, AboutFacet(ctx, "people")))
    BY <1>3, SubjectSearchFinds
  <2> HIDE DEF g, intent
  <2> QED
    BY <1>2, <2>1 DEF Actors
<1>5. ChosenOK(role)
  <2>1. ChosenOK(Find(store, store = disk, AboutFacet(ctx, "role"), place))
    BY <1>3, FindFinds
  <2> QED
    BY <1>2, <2>1
<1>6. ChosenOK(found)
  BY <1>2
<1>7. Range(none) = {}
  BY DEF Range
<1> HIDE DEF actors, role, refused, none
<1>8. Range(found) \subseteq Range(g.chunks)
  BY <1>7
<1> HIDE DEF g, intent, found
<1>9. ChosenOK(plain) /\ (actors = <<>> => plain = found)
  <2>1. actors \in Seq(Chunks) /\ found \in Seq(Chunks)
    BY <1>4, <1>6 DEF ChosenOK
  <2>2. actors \o found \in Seq(Chunks)
    BY <2>1, ConcatIn
  <2>3. near \in Seq(Chunks)
    BY <2>2, PlaceAwareIn
  <2> HIDE DEF near
  <2>4. ChosenOK(Select(near, TopK))
    BY <2>3, SelectChosen
  <2> QED
    BY <1>6, <2>4
<1> HIDE DEF plain
<1>10. /\ BestOK(best, ctx)
       /\ actors = <<>> =>
              best.chunks = plain \/ (best.packet.facts # <<>> /\ best.packet.intent = "role")
  BY <1>4, <1>5, <1>9, BestIn
<1> HIDE DEF best
<1>11. compared \in Seq({k \in Range(compared) : SideOK(k)})
       /\ (compared # <<>> => Len(compared) >= 2)
  BY ComparedIn
<1> HIDE DEF compared
<1>12. /\ EvidenceOK(p, ctx)
       /\ p.verified \in {ctx.subject, NoName}
       /\ ~(Len(p.compared) >= 2) => p.chunks = best.chunks
  BY <1>10, <1>11, EvidencedIn
<1>13. p.packet = best.packet
  BY DEF Evidenced
<1> HIDE DEF p
<1>14. ASSUME ctx.kind = "transform", LatestKept # {}, ~(Len(p.compared) >= 2),
              p.intent # "role"
       PROVE  \A c \in Range(p.chunks) : c.id \in LatestKept
  <2>1. actors = <<>> /\ p.chunks = best.chunks
    BY <1>2, <1>4, <1>12, <1>14
  <2>2. ~(best.packet.facts # <<>> /\ best.packet.intent = "role")
    BY <1>12, <1>13, <1>14 DEF EvidenceOK
  <2>3. p.chunks = found
    BY <1>9, <1>10, <2>1, <2>2
  <2> QED
    BY <1>2, <1>8, <1>14, <2>3
<1> QED
  BY <1>1, <1>12, <1>14

\* What fits in the context window is a number of records.
LEMMA KeptIn ==
    ASSUME NEW cs \in Seq(Chunks), NEW exchange \in BOOLEAN
    PROVE  Kept(cs, exchange) \in Nat
<1> DEFINE N == Len(cs)
           V == [used : Nat, n : Nat]
           start == IF exchange /\ TurnCost <= Room THEN TurnCost ELSE 0
           base == [used |-> start, n |-> 0]
           next(v, i) == IF v.used + cs[i].cost <= Room
                         THEN [used |-> v.used + cs[i].cost, n |-> v.n + 1] ELSE v
           step == [p \in (1 .. N) \X V |-> next(p[2], p[1])]
           Is(f) == f = [i \in 0 .. N |->
                            IF i = 0 THEN [used |-> start, n |-> 0]
                            ELSE IF f[i - 1].used + cs[i].cost <= Room
                            THEN [used |-> f[i - 1].used + cs[i].cost, n |-> f[i - 1].n + 1]
                            ELSE f[i - 1]]
<1>1. N \in Nat /\ DOMAIN cs = 1 .. N
  OBVIOUS
<1>2. \A i \in 1 .. N : cs[i].cost \in Nat
  <2> TAKE i \in 1 .. N
  <2>1. cs[i] \in Chunks
    BY <1>1
  <2> QED
    BY <2>1, ChunkIs
<1>3. base \in V
  BY BoundsAssumption
<1>4. \A v \in V, i \in 1 .. N : next(v, i) \in V
  <2> HIDE DEF N
  <2> QED
    BY <1>2
<1>5. step \in [(1 .. N) \X V -> V]
  <2>1. ASSUME NEW p \in (1 .. N) \X V PROVE next(p[2], p[1]) \in V
    <3> HIDE DEF N, V, next
    <3>1. p[1] \in 1 .. N /\ p[2] \in V
      OBVIOUS
    <3> QED
      BY <1>4, <3>1
  <2> HIDE DEF N, V, next
  <2> QED
    BY <2>1
<1>6. \E f : Is(f)
  <2>1. IsStep(N, V, base, step)
    <3> HIDE DEF step, N, V, base
    <3> QED
      BY <1>1, <1>3, <1>5 DEF IsStep
  <2>2. PICK f : Follows(f, N, V, base, step)
    <3> HIDE DEF step, N, V, base
    <3> QED
      BY <2>1, Recursive
  <2>3. f \in [0 .. N -> V] /\ f[0] = base /\ \A n \in 1 .. N : f[n] = step[<<n, f[n - 1]>>]
    BY <2>2, Zenon DEF Follows
  <2>4. ASSUME NEW n \in 1 .. N PROVE f[n] = next(f[n - 1], n)
    <3>0. n - 1 \in 0 .. N
      OBVIOUS
    <3> HIDE DEF V, N, next
    <3>1. <<n, f[n - 1]>> \in (1 .. N) \X V
      BY <2>3, <3>0
    <3> QED
      BY <2>3, <3>1
  <2>5. f = [n \in 0 .. N |-> f[n]] /\ f[0] = base
    BY <2>3
  <2>6. Is(f)
    <3>1. ASSUME NEW i \in 0 .. N
          PROVE  f[i] = IF i = 0 THEN base ELSE next(f[i - 1], i)
      <4>1. i # 0 => i \in 1 .. N
        OBVIOUS
      <4> QED
        BY <2>4, <2>5, <4>1
    <3>2. f = [i \in 0 .. N |-> IF i = 0 THEN base ELSE next(f[i - 1], i)]
      <4> HIDE DEF N, base, next
      <4> QED
        BY <2>5, <3>1
    <3> QED
      BY <3>2, Zenon
  <2> QED
    BY <2>6
<1> DEFINE f == CHOOSE g : Is(g)
<1>7. Is(f)
  <2> HIDE DEF Is
  <2> QED
    BY <1>6, Zenon
<1>8. Kept(cs, exchange) = f[N].n
  BY Zenon DEF Kept
<1> HIDE DEF f
<1>9. \A i \in 0 .. N : f[i] = IF i = 0 THEN base ELSE next(f[i - 1], i)
  <2> HIDE DEF N
  <2> QED
    BY <1>7, Zenon
<1> DEFINE S == {i \in 0 .. N : f[i] \in V}
<1>10. 0 \in S
  <2>1. 0 \in 0 .. N
    BY <1>1
  <2> HIDE DEF base, next, V
  <2> QED
    BY <1>3, <1>9, <2>1
<1>11. ASSUME NEW i \in 1 .. N, i - 1 \in S PROVE i \in S
  <2>1. i \in 0 .. N /\ i # 0
    BY <1>1
  <2> HIDE DEF base, next, V
  <2>2. f[i] = next(f[i - 1], i) /\ f[i - 1] \in V
    BY <1>9, <1>11, <2>1
  <2>3. f[i] \in V
    BY <1>4, <2>2
  <2> QED
    BY <2>1, <2>3
<1>12. \A i \in 0 .. N : i \in S
  <2> HIDE DEF S, N
  <2> QED
    BY <1>1, <1>10, <1>11, UpFrom
<1>13. f[N] \in V
  <2>1. N \in 0 .. N
    BY <1>1
  <2> HIDE DEF V
  <2> QED
    BY <1>12, <2>1
<1> QED
  BY <1>8, <1>13

\* What is sent and cited is of what was prepared.
LEMMA FittingIn ==
    ASSUME session \in Sessions, NEW p, p.chunks \in Seq(Chunks)
    PROVE  Fitting(p) \in Seq(Chunks) /\ Range(Fitting(p)) \subseteq Range(p.chunks)
<1> DEFINE n == Kept(p.chunks, session.turns # <<>>)
<1>1. n \in Nat
  BY KeptIn
<1> HIDE DEF n
<1>2. UpTo(p.chunks, n) \in Seq(Chunks) /\ Range(UpTo(p.chunks, n)) \subseteq Range(p.chunks)
  BY <1>1, UpToIn
<1> QED
  BY <1>2 DEF Fitting, n

-----------------------------------------------------------------------------
(* What is told *)

\* A clause of one of the records.
From(cl, cs) == \E c \in Range(cs) : \E i \in DOMAIN c.clauses : cl = c.clauses[i]

\* What is told without the model are facts of the packet.
LEMMA ExtractiveIn == \A k : Extractive(k) \subseteq Range(k.facts)
BY DEF Extractive

\* A fact is a clause of the chunks; unless it is a role's it does not confuse the subject
\* with its rival, and a supporting one never does.
LEMMA FactsStand ==
    ASSUME NEW k, NEW cs, NEW subject, NEW question, PacketOK(k, cs, subject, question)
    PROVE  /\ \A f \in Range(k.facts) :
                  /\ From(Clause(f), cs)
                  /\ k.subject = subject
                  /\ k.intent # "role" => ~Competes(Clause(f), subject)
           /\ \A f \in Supporting(k) : From(Clause(f), cs) /\ ~Competes(Clause(f), k.subject)
<1>1. ASSUME NEW f \in Range(k.facts)
      PROVE  /\ From(Clause(f), cs)
             /\ k.subject = subject
             /\ k.intent # "role" => ~Competes(Clause(f), subject)
  <2>1. PICK c \in Range(cs) :
            /\ f.n \in DOMAIN c.clauses /\ Clause(f) = c.clauses[f.n]
            /\ IsFact(c, f.n, subject, k.intent, question)
    BY <1>1 DEF PacketOK, FactOf
  <2>2. k.facts # <<>>
    <3>1. k.facts \in Seq(Clauses) /\ Range(k.facts) # {}
      BY <1>1 DEF PacketOK
    <3> QED
      BY <3>1, SeqRange
  <2>3. k.intent # "role" => ~Competes(Clause(f), subject)
    BY <2>1 DEF IsFact
  <2> QED
    BY <2>1, <2>2, <2>3 DEF From, PacketOK
<1>2. ASSUME NEW f \in Supporting(k)
      PROVE  From(Clause(f), cs) /\ ~Competes(Clause(f), k.subject)
  <2>1. PICK g \in Range(k.facts) : f = [g EXCEPT !.n = @ + 1]
    BY <1>2 DEF Supporting
  <2>2. f.n \in DOMAIN Record(f.id).clauses /\ ~Competes(Clause(f), k.subject)
    BY <1>2 DEF Supporting
  <2>3. PICK c \in Range(cs) : Record(g.id) = c
    BY <2>1 DEF PacketOK, FactOf
  <2>4. g \in Clauses
    BY <2>1, SeqRange DEF PacketOK
  <2>5. PICK id \in Ids : \E i \in DOMAIN Record(id).clauses : g = [id |-> id, n |-> i]
    BY <2>4 DEF Clauses
  <2>6. PICK i : g = [id |-> id, n |-> i]
    BY <2>5
  <2>7. f.id = g.id
    BY <2>1, <2>6
  <2>8. Clause(f) = c.clauses[f.n] /\ f.n \in DOMAIN c.clauses
    BY <2>2, <2>3, <2>7 DEF Clause
  <2> QED
    BY <2>2, <2>8 DEF From
<1> QED
  BY <1>1, <1>2

\* What is told of an easily taken subject is not about the other.
LEMMA NotTheRival ==
    ASSUME NEW cl, NEW subject \in Names, ~Competes(cl, subject)
    PROVE  cl.names \cap Rival[subject] = {}
BY DEF Competes

\* What is told without the model is not about the rival of the subject.
LEMMA ExtractiveKeepsApart ==
    ASSUME NEW k, NEW cs, NEW subject \in Names, NEW question,
           PacketOK(k, cs, subject, question), NEW f \in Extractive(k)
    PROVE  Clause(f).names \cap Rival[subject] = {}
<1>1. f \in Range(k.facts)
  BY ExtractiveIn
<1>2. k.subject = subject /\ (k.intent # "role" => ~Competes(Clause(f), subject))
  BY <1>1, FactsStand
<1>3. k.intent # "people" => ~Competes(Clause(f), k.subject)
  BY DEF Extractive
<1>4. ~Competes(Clause(f), subject)
  BY <1>2, <1>3
<1> QED
  BY <1>4, NotTheRival

\* A clause the model made up is told only where it matches the facts.
LEMMA MatchesStand ==
    ASSUME NEW k, NEW cs, NEW subject, NEW question, PacketOK(k, cs, subject, question),
           k.facts # <<>>, NEW f, NEW asked, Matches(f, k, asked)
    PROVE  /\ \A n \in Clause(f).names : n # subject => \E cl : From(cl, cs) /\ n \in cl.names
           /\ \A d \in Clause(f).dates : \E cl : From(cl, cs) /\ d \in cl.dates
           /\ k.intent # "role" /\ subject \in Names =>
                  Clause(f).names \cap Rival[subject] = {}
<1> DEFINE texts == {Clause(g) : g \in Range(k.facts) \cup Supporting(k)}
<1>1. Clause(f).names \ {k.subject} \subseteq UNION {t.names : t \in texts}
      /\ Clause(f).dates \subseteq UNION {t.dates : t \in texts}
  BY DEF Matches
<1>2. k.subject = subject
  BY DEF PacketOK
<1>3. \A t \in texts : From(t, cs) /\ (k.intent # "role" => ~Competes(t, subject))
  BY <1>2, FactsStand
<1> HIDE DEF texts
<1>4. \A n \in Clause(f).names : n # subject => \E t \in texts : n \in t.names
  BY <1>1, <1>2
<1>5. \A d \in Clause(f).dates : \E t \in texts : d \in t.dates
  BY <1>1
<1>6. ASSUME k.intent # "role", subject \in Names
      PROVE  Clause(f).names \cap Rival[subject] = {}
  <2> SUFFICES ASSUME NEW n \in Clause(f).names, n \in Rival[subject] PROVE FALSE
    OBVIOUS
  <2>1. n # subject
    BY <1>6, NamesAssumption
  <2>2. PICK t \in texts : n \in t.names
    BY <1>4, <2>1
  <2>3. t.names \cap Rival[subject] = {}
    BY <1>3, <1>6, NotTheRival
  <2> QED
    BY <2>2, <2>3
<1> QED
  BY <1>3, <1>4, <1>5, <1>6

\* What an answer may tell: nothing, the facts of the sides of a comparison, of a
\* facet nearby, or of the facet asked for, or clauses that match those.
ToldFrom(a, ctx, p, chunks) ==
    \/ a.told = {}
    \/ /\ a.status = "comparison"
       /\ a.told = UNION {Extractive(k) : k \in Range(p.compared)}
    \/ a.told = Extractive(p.nearby)
    \/ p.packet.facts # <<>> /\ a.told = Extractive(p.packet)
    \/ p.packet.facts # <<>> /\ \A f \in a.told : Matches(f, p.packet, ctx.question)

\* An answer of the model is replaced, or dropped, unless each clause matches the facts.
LEMMA StabilizeTells ==
    ASSUME NEW told, NEW dates, NEW p, NEW question, p.facts # <<>>,
           NEW x, x = Stabilize(told, dates, p, question)
    PROVE  x = {} \/ x = Extractive(p) \/ \A f \in x : Matches(f, p, question)
BY DEF Stabilize

\* Every outcome of an answer is one of these.
LEMMA OutcomeTells ==
    ASSUME NEW ctx, NEW p, NEW chunks, NEW streamed,
           NEW a, a \in Outcomes(ctx, p, chunks, streamed)
    PROVE  /\ ToldFrom(a, ctx, p, chunks)
           /\ a.status = "answer" => ~(Len(p.compared) >= 2) /\ p.packet.facts # <<>>
           /\ a.status = "comparison" \/ chunks = <<>> \/ ~(Len(p.compared) >= 2)
           /\ a.trusted \in BOOLEAN
<1> DEFINE plain(status, told) == [status |-> status, told |-> told,
                                   trusted |-> TRUE, limited |-> TRUE]
           whole(told) == [plain("answer", told) EXCEPT !.limited = FALSE]
           dates == DatesOf(chunks)
           checked(told, f) == IF told = {f} THEN whole(told) ELSE plain("answer", told)
           sides == UNION {Extractive(k) : k \in Range(p.compared)}
           stable(f) == Stabilize({f}, dates, p.packet, ctx.question)
           made == {checked(stable(f), f) : f \in Clauses}
           unsure == [plain("answer", {}) EXCEPT !.trusted = FALSE]
           bare == {plain("answer", {}), unsure}
           other == IF streamed THEN {plain("error", {}), plain("broken", {})}
                    ELSE {whole(Extractive(p.packet))}
<1>1. Outcomes(ctx, p, chunks, streamed) =
          IF chunks = <<>> THEN {plain("insufficient", {})}
          ELSE IF Len(p.compared) >= 2 THEN {plain("comparison", sides)}
          ELSE IF p.packet.conflicting THEN {plain("conflicting", {})}
          ELSE IF p.packet.facts = <<>>
          THEN IF p.intent \notin {"people", "role"} /\ p.nearby.facts # <<>>
               THEN {plain("nearby", Extractive(p.nearby))} ELSE {plain("related", {})}
          ELSE made \cup bare \cup other
  BY Zenon DEF Outcomes
<1>6. unsure.told = {} /\ unsure.trusted = FALSE
  OBVIOUS
<1> DEFINE same == whole(Extractive(p.packet))
<1>7. same.told = Extractive(p.packet) /\ same.trusted = TRUE
  OBVIOUS
<1> HIDE DEF unsure, same
<1>2. CASE chunks = <<>>
  <2>1. a = plain("insufficient", {})
    BY <1>1, <1>2
  <2>2. a.told = {} /\ a.trusted = TRUE /\ a.status = "insufficient"
    BY <2>1
  <2> QED
    BY <1>2, <2>2 DEF ToldFrom
<1>3. CASE chunks # <<>> /\ Len(p.compared) >= 2
  <2>1. a = plain("comparison", sides)
    BY <1>1, <1>3
  <2>2. a.told = sides /\ a.trusted = TRUE /\ a.status = "comparison"
    BY <2>1
  <2> QED
    BY <2>2 DEF ToldFrom
<1>4. CASE /\ chunks # <<>> /\ ~(Len(p.compared) >= 2)
           /\ (p.packet.conflicting \/ p.packet.facts = <<>>)
  <2>1. \/ a = plain("conflicting", {})
        \/ a = plain("nearby", Extractive(p.nearby))
        \/ a = plain("related", {})
    BY <1>1, <1>4
  <2>2. /\ a.told = {} \/ a.told = Extractive(p.nearby)
        /\ a.trusted = TRUE /\ a.status # "answer"
    BY <2>1
  <2> QED
    BY <1>4, <2>2 DEF ToldFrom
<1>5. CASE /\ chunks # <<>> /\ ~(Len(p.compared) >= 2)
           /\ ~p.packet.conflicting /\ p.packet.facts # <<>>
  <2>1. a \in made \cup bare \cup other
    <3> HIDE DEF made, bare, other, plain
    <3> QED
      BY <1>1, <1>5
  <2>2. CASE a \in made
    <3>1. PICK f \in Clauses : a = checked(stable(f), f)
      BY <2>2
    <3> DEFINE x == stable(f)
    <3>2. x = {} \/ x = Extractive(p.packet) \/ \A g \in x : Matches(g, p.packet, ctx.question)
      BY <1>5, StabilizeTells
    <3> HIDE DEF x
    <3>3. a.told = x /\ a.trusted \in BOOLEAN
      BY <1>6, <3>1 DEF x
    <3> QED
      BY <1>5, <3>2, <3>3 DEF ToldFrom
  <2>3. CASE a \in bare
    <3>1. a = plain("answer", {}) => a.told = {} /\ a.trusted = TRUE
      OBVIOUS
    <3>2. a.told = {} /\ a.trusted \in BOOLEAN
      BY <1>6, <2>3, <3>1
    <3> QED
      BY <1>5, <3>2 DEF ToldFrom
  <2>4. CASE a \in other
    <3>1. (a.told = {} \/ a.told = Extractive(p.packet)) /\ a.trusted \in BOOLEAN
      <4>1. a \in {plain("error", {}), plain("broken", {})} => a.told = {} /\ a.trusted = TRUE
        OBVIOUS
      <4>2. a \in {plain("error", {}), plain("broken", {})} \/ a = same
        BY <2>4 DEF same
      <4> QED
        BY <1>7, <4>1, <4>2
    <3> QED
      BY <1>5, <3>1 DEF ToldFrom
  <2> QED
    BY <2>1, <2>2, <2>3, <2>4
<1> QED
  BY <1>2, <1>3, <1>4, <1>5

\* Evidence is assessed as direct only where a clause on the subject matches the facet.
LEMMA AssessIs ==
    ASSUME NEW cs \in Seq(Chunks), NEW subject, NEW intent, NEW question
    PROVE  /\ Assess(cs, subject, intent, question)
                  \in {"none", "direct", "partial", "related_only"}
           /\ Assess(cs, subject, intent, question) = "direct" =>
                  \E c \in Range(cs) : \E i \in DOMAIN c.clauses :
                      /\ subject \in c.clauses[i].names
                      /\ IntentMatches(c.clauses[i], subject, intent, question)
<1> DEFINE scoped == Range(Scoped(cs, subject))
           most == Max({0} \cup {Len(c.clauses) : c \in Range(cs)})
           all == {p \in scoped \X (1 .. most) : p[2] \in DOMAIN p[1].clauses}
           about(p) == subject \in p[1].clauses[p[2]].names
           matches(p) == /\ ~Competes(p[1].clauses[p[2]], subject)
                         /\ IntentMatches(p[1].clauses[p[2]], subject, intent, question)
<1>1. Assess(cs, subject, intent, question) =
          IF subject = NoName THEN "none"
          ELSE IF \E p \in all : about(p) /\ matches(p) THEN "direct"
          ELSE IF \E p \in all : Near(p[1], p[2], subject) /\ matches(p) THEN "partial"
          ELSE IF \E p \in all : about(p) THEN "related_only"
          ELSE "none"
  BY Zenon DEF Assess
<1>2. \A p \in all : p[1] \in Range(cs) /\ p[2] \in DOMAIN p[1].clauses
  <2>1. scoped \subseteq Range(cs)
    BY ScopedIn
  <2> HIDE DEF scoped, most
  <2> QED
    BY <2>1
<1>3. ASSUME NEW p \in all, about(p), matches(p)
      PROVE  \E c \in Range(cs) : \E i \in DOMAIN c.clauses :
                 /\ subject \in c.clauses[i].names
                 /\ IntentMatches(c.clauses[i], subject, intent, question)
  BY <1>2, <1>3, Zenon
<1> HIDE DEF all, about, matches
<1> QED
  BY <1>1, <1>3

\* A clause that matches a facet says it.
LEMMA IntentSays ==
    ASSUME NEW cl, NEW subject, NEW intent, NEW question,
           IntentMatches(cl, subject, intent, question)
    PROVE  IF intent = "transform" THEN "overview" \in cl.says ELSE intent \in cl.says
BY DEF IntentMatches

-----------------------------------------------------------------------------
(* What the session remembers *)

\* The question's context, kept in the session, leaves it one that stands for U.
LEMMA ContextOfIn ==
    ASSUME session \in Sessions, NEW ctx, ContextOK(ctx),
           NEW p, p.verified \in {ctx.subject, NoName},
           NEW U, SessionSaid(session, U), ContextSaid(ctx, U)
    PROVE  ContextOf(ctx, p) \in Sessions /\ SessionSaid(ContextOf(ctx, p), U)
<1> DEFINE h == Heard(session, ctx)
           s == ContextOf(ctx, p)
<1>1. /\ h \in Sessions /\ h.evidence = session.evidence /\ h.anchor = session.anchor
      /\ h.place = ctx.place /\ h.topic = ctx.topic /\ h.subject = ctx.subject
      /\ h.person = ctx.person /\ h.people = ctx.people /\ h.event = ctx.event
  BY HeardIn
<1>2. SessionSaid(h, U)
  BY <1>1 DEF SessionSaid, ContextSaid
<1>3. s = IF p.verified = NoName THEN h
          ELSE [h EXCEPT !.subject = p.verified, !.topic = p.verified, !.anchor = p.verified,
                         !.person = NoName, !.period = NoName, !.event = NoName]
  BY DEF ContextOf
<1> HIDE DEF h, s
<1>4. CASE p.verified = NoName
  BY <1>1, <1>2, <1>3, <1>4 DEF s
<1>5. CASE p.verified # NoName
  <2>1. p.verified = ctx.subject /\ ctx.subject \in Some /\ NoName \in Some
    BY <1>5 DEF ContextOK, Some
  <2>2. ctx.subject \in U \cup {NoName}
    BY DEF ContextSaid
  <2>3. s = [h EXCEPT !.subject = ctx.subject, !.topic = ctx.subject, !.anchor = ctx.subject,
                      !.person = NoName, !.period = NoName, !.event = NoName]
    BY <1>3, <1>5, <2>1
  <2>4. s \in Sessions
    BY <1>1, <2>1, <2>3 DEF Sessions
  <2>5. /\ s.place = h.place /\ s.topic = ctx.subject /\ s.subject = ctx.subject
        /\ s.person = NoName /\ s.anchor = ctx.subject /\ s.event = NoName
        /\ s.people = h.people /\ s.evidence = h.evidence
    BY <1>1, <2>3 DEF Sessions
  <2>6. SessionSaid(s, U)
    BY <1>2, <2>2, <2>5 DEF SessionSaid
  <2> QED
    BY <2>4, <2>6 DEF s
<1> QED
  BY <1>4, <1>5

\* So does the turn, once it is answered and remembered.
LEMMA RememberIn ==
    ASSUME NEW s \in Sessions, NEW q \in Texts, NEW ctx, ContextOK(ctx), NEW p,
           NEW chunks \in Seq(Chunks), NEW a, a.trusted \in BOOLEAN, NEW streamed,
           NEW U, SessionSaid(s, U), ContextSaid(ctx, U)
    PROVE  /\ Remember(s, q, ctx, p, chunks, a, streamed) \in Sessions
           /\ SessionSaid(Remember(s, q, ctx, p, chunks, a, streamed), U)
<1> DEFINE turn == [user |-> q, trusted |-> a.trusted]
           ids == [i \in DOMAIN chunks |-> chunks[i].id]
           trace == [user |-> q, place |-> ctx.place, topic |-> ctx.topic, chunks |-> ids]
           titles == [i \in DOMAIN chunks |-> chunks[i].title]
           kept == /\ chunks # <<>> /\ p.searched
                   /\ streamed => a.status \in {"answer", "related", "nearby", "conflicting"}
           anchored == /\ chunks # <<>>
                       /\ streamed => a.status = "answer"
           heard == IF a.status = "broken" THEN s ELSE [s EXCEPT !.turns = <<turn>>]
           traced == IF kept THEN [heard EXCEPT !.evidence = Append(@, trace)] ELSE heard
           people == RecentPeople(chunks, ctx.people)
           entities == UpTo(Dedup(ctx.entities \o titles), 8)
           whole == [traced EXCEPT
                 !.subject = ctx.subject, !.person = ctx.person, !.people = people,
                 !.anchor = ctx.subject, !.answered = ctx.intent,
                 !.entities = IF streamed THEN @ ELSE entities]
<1>1. Remember(s, q, ctx, p, chunks, a, streamed) = IF ~anchored THEN traced ELSE whole
  BY DEF Remember
<1>2. DOMAIN chunks = 1 .. Len(chunks) /\ Len(chunks) \in Nat
      /\ \A i \in DOMAIN chunks : chunks[i].id \in Ids /\ chunks[i].title \in Names
  <2>1. \A i \in DOMAIN chunks : chunks[i] \in Chunks
    OBVIOUS
  <2> QED
    BY <2>1, ChunkIs
<1>3. ids \in Seq(Ids) /\ titles \in Seq(Names)
  <2>1. ids \in [1 .. Len(chunks) -> Ids] /\ titles \in [1 .. Len(chunks) -> Names]
    BY <1>2
  <2> HIDE DEF ids, titles
  <2> QED
    BY <1>2, <2>1, FunctionIsSeq, Zenon
<1> HIDE DEF ids, titles, kept, anchored
<1>4. turn \in Turns /\ trace \in Traces /\ trace.topic = ctx.topic
  BY <1>3 DEF Turns, Traces, ContextOK
<1> HIDE DEF turn, trace
<1>5. <<turn>> \in Seq(Turns)
  BY <1>4
<1>6. /\ heard \in Sessions /\ heard.evidence = s.evidence /\ heard.place = s.place
      /\ heard.topic = s.topic /\ heard.subject = s.subject /\ heard.person = s.person
      /\ heard.anchor = s.anchor /\ heard.event = s.event /\ heard.people = s.people
  BY <1>5 DEF Sessions
<1> HIDE DEF heard
<1>7. heard.evidence \in Seq(Traces)
  BY <1>6 DEF Sessions
<1> DEFINE longer == Append(heard.evidence, trace)
<1>8. longer \in Seq(Traces)
      /\ \A i \in DOMAIN longer : longer[i].topic \in U \cup {NoName}
  <2>1. longer \in Seq(Traces)
    BY <1>4, <1>7
  <2>2. ASSUME NEW i \in DOMAIN longer PROVE longer[i].topic \in U \cup {NoName}
    <3>1. CASE i \in DOMAIN heard.evidence
      <4>1. longer[i] = heard.evidence[i]
        BY <1>7, <3>1
      <4> QED
        BY <1>6, <3>1, <4>1 DEF SessionSaid
    <3>2. CASE i \notin DOMAIN heard.evidence
      <4>1. longer[i] = trace
        BY <1>7, <3>2
      <4> QED
        BY <1>4, <4>1 DEF ContextSaid
    <3> QED
      BY <3>1, <3>2
  <2> QED
    BY <2>1, <2>2
<1> HIDE DEF longer
<1>9. /\ traced \in Sessions /\ traced.place = s.place
      /\ traced.topic = s.topic /\ traced.subject = s.subject /\ traced.person = s.person
      /\ traced.anchor = s.anchor /\ traced.event = s.event /\ traced.people = s.people
      /\ traced.evidence \in {s.evidence, longer}
  <2>1. traced = IF kept THEN [heard EXCEPT !.evidence = longer] ELSE heard
    BY DEF longer
  <2> HIDE DEF traced
  <2> QED
    BY <1>6, <1>8, <2>1 DEF Sessions
<1> HIDE DEF traced
<1>10. SessionSaid(traced, U)
  BY <1>8, <1>9 DEF SessionSaid
<1>11. people \in Seq(Names) /\ Range(people) \subseteq Range(ctx.people)
  <2>1. ctx.people \in Seq(Names)
    BY DEF ContextOK
  <2> DEFINE b == ctx.people
  <2> HIDE DEF b
  <2>2. UpTo(b, 4) \in Seq(Names) /\ Range(UpTo(b, 4)) \subseteq Range(b)
    BY <2>1, UpToIn DEF b
  <2> QED
    BY <2>2 DEF RecentPeople, b
<1>12. entities \in Seq(Names)
  <2> DEFINE b == ctx.entities
             both == b \o titles
  <2>1. b \in Seq(Names)
    BY DEF ContextOK
  <2> HIDE DEF b
  <2>2. both \in Seq(Names)
    BY <1>3, <2>1, ConcatIn
  <2> HIDE DEF both
  <2>3. Dedup(both) \in Seq(Names)
    BY <2>2, DedupIn
  <2>4. UpTo(Dedup(both), 8) \in Seq(Names)
    BY <2>3, UpToIn
  <2> QED
    BY <2>4 DEF both, b
<1> HIDE DEF people, entities
<1>13. /\ whole \in Sessions /\ whole.place = traced.place
       /\ whole.topic = traced.topic /\ whole.subject = ctx.subject
       /\ whole.person = ctx.person /\ whole.anchor = ctx.subject
       /\ whole.event = traced.event /\ whole.people = people
       /\ whole.evidence = traced.evidence
  <2>1. ctx.subject \in Some /\ ctx.person \in Some /\ ctx.intent \in Facets \cup {"transform"}
    BY DEF ContextOK
  <2> QED
    BY <1>9, <1>11, <1>12, <2>1 DEF Sessions
<1> HIDE DEF whole
<1>14. SessionSaid(whole, U)
  BY <1>10, <1>11, <1>13 DEF SessionSaid, ContextSaid
<1> QED
  BY <1>1, <1>9, <1>10, <1>13, <1>14

-----------------------------------------------------------------------------
(* The requests *)

\* The types of the variables.
Typed == session \in Sessions /\ store \subseteq Ids /\ disk \subseteq Ids /\ turns \in Nat

\* The session stands for what the client has brought up, the topics of the turns
\* it may return to too.
Inv == Typed /\ SessionSaid(session, said)

\* What an answer a makes of the reply to a question q.
Replied(rep, q, ctx, p, chunks, a, streamed) ==
    /\ a \in Outcomes(ctx, p, chunks, streamed)
    /\ rep.status = a.status /\ rep.told = a.told
    /\ rep.kind = ctx.kind /\ rep.subject = ctx.subject
    /\ rep.intent = p.intent /\ rep.asked = ctx.intent
    /\ rep.cited = {c.id : c \in Range(chunks)}
    /\ rep.checked = {f.id : f \in Range(p.packet.facts)}
    /\ rep.sent = IF a.status = "answer"
                  THEN RemotePrompt(chunks, ctx.subject, ctx.intent, ctx.question) ELSE {}
    /\ rep.trimmed = (chunks # p.chunks)
    /\ rep.sufficient => a.status = "answer" /\ Sufficient(q, ctx, p, chunks)

\* What comes of a question: no reply, or the reply of an outcome, and the session with it.
LEMMA ResultsAre ==
    ASSUME NEW q, NEW here, NEW streamed, NEW r \in Results(q, here, streamed)
    PROVE  LET ctx == Resolve(q, session, here)
               p == Prepared(q, ctx)
               chunks == Fitting(p)
           IN  \/ r.reply = NoReply /\ r.session = ContextOf(ctx, p)
               \/ \E a : /\ Replied(r.reply, q, ctx, p, chunks, a, streamed)
                         /\ r.session = Remember(ContextOf(ctx, p), q, ctx, p, chunks, a, streamed)
<1> DEFINE ctx == Resolve(q, session, here)
           p == Prepared(q, ctx)
           chunks == Fitting(p)
           answer == Answer(q, ctx, p, chunks)
           sent == RemotePrompt(chunks, ctx.subject, ctx.intent, ctx.question)
           good == Sufficient(q, ctx, p, chunks)
           after == ContextOf(ctx, p)
           left == Suspect(q, p)
           remembered(a) == Remember(after, q, ctx, p, chunks, a, streamed)
           outcomes == Outcomes(ctx, p, chunks, streamed)
           telling(a) ==
               [answer EXCEPT
                         !.status = a.status, !.told = a.told,
                         !.sent = IF a.status = "answer" THEN sent ELSE {},
                         !.sufficient = /\ a.status = "answer" /\ good
                                        /\ ~streamed /\ ~a.limited]
<1>1. r \in IF Has(q, "long")
            THEN {[reply |-> NoReply, session |-> after, doubtful |-> left]}
            ELSE {[doubtful |-> left, reply |-> telling(a), session |-> remembered(a)] :
                      a \in outcomes}
  BY Zenon DEF Results, ResultsRead, ResultsPrepared, ResultsFitting, ResultsOf
<1>2. /\ answer.kind = ctx.kind /\ answer.subject = ctx.subject
      /\ answer.intent = p.intent /\ answer.asked = ctx.intent
      /\ answer.cited = {c.id : c \in Range(chunks)}
      /\ answer.checked = {f.id : f \in Range(p.packet.facts)}
      /\ answer.trimmed = (chunks # p.chunks)
      /\ DOMAIN answer = {"status", "kind", "subject", "intent", "asked", "own", "search", "told",
                          "cited", "checked", "sent", "trimmed", "sufficient"}
  <2> HIDE DEF ctx, p, chunks
  <2>1. answer.kind = ctx.kind /\ answer.subject = ctx.subject
        /\ answer.intent = p.intent /\ answer.asked = ctx.intent
    BY DEF Answer, NoReply
  <2>2. answer.cited = {c.id : c \in Range(chunks)}
    BY DEF Answer, NoReply
  <2>3. answer.checked = {f.id : f \in Range(p.packet.facts)}
    BY DEF Answer, NoReply
  <2>4. answer.trimmed = (chunks # p.chunks)
    BY DEF Answer, NoReply
  <2>5. DOMAIN answer = {"status", "kind", "subject", "intent", "asked", "own", "search",
                         "told", "cited", "checked", "sent", "trimmed", "sufficient"}
    BY DEF Answer, NoReply
  <2> QED
    BY <2>1, <2>2, <2>3, <2>4, <2>5, Zenon
<1> HIDE DEF ctx, p, chunks, answer, sent, good, after, left, remembered, outcomes
<1>4. CASE Has(q, "long")
  <2>1. r = [reply |-> NoReply, session |-> after, doubtful |-> left]
    BY <1>1, <1>4
  <2>2. r.reply = NoReply /\ r.session = after
    BY <2>1
  <2> QED
    BY <2>2 DEF after, ctx, p
<1>5. CASE ~Has(q, "long")
  <2>1. PICK a \in outcomes :
            r = [doubtful |-> left, reply |-> telling(a), session |-> remembered(a)]
    BY <1>1, <1>5, Zenon
  <2>2. r.reply = telling(a) /\ r.session = remembered(a)
    BY <2>1
  <2> DEFINE rep == telling(a)
  <2>3. /\ rep.status = a.status /\ rep.told = a.told
        /\ rep.sent = IF a.status = "answer" THEN sent ELSE {}
        /\ rep.sufficient = (a.status = "answer" /\ good /\ ~streamed /\ ~a.limited)
        /\ rep.kind = answer.kind /\ rep.subject = answer.subject /\ rep.intent = answer.intent
        /\ rep.asked = answer.asked /\ rep.cited = answer.cited
        /\ rep.checked = answer.checked /\ rep.trimmed = answer.trimmed
    BY <1>2
  <2> HIDE DEF rep
  <2>4. Replied(rep, q, ctx, p, chunks, a, streamed)
    BY <1>2, <2>3, Zenon DEF Replied, outcomes, sent, good
  <2>5. r.session = Remember(ContextOf(ctx, p), q, ctx, p, chunks, a, streamed)
    BY <2>2, Zenon DEF remembered, after
  <2> QED
    BY <2>2, <2>4, <2>5, Zenon DEF rep, ctx, p, chunks
<1> QED
  BY <1>4, <1>5

\* What any request finds a question to be, and the evidence for it.
LEMMA RequestReads ==
    ASSUME Inv, NEW q \in Texts, NEW here \in Some, NEW U,
           (said \cup Range(q.names) \cup {here} \cup Range(PlacesOf(q, session))) \ {NoName}
               \subseteq U
    PROVE  LET ctx == Resolve(q, session, here)
               p == Prepared(q, ctx)
           IN  /\ ContextOK(ctx) /\ ContextSaid(ctx, U) /\ SessionSaid(session, U)
               /\ EvidenceOK(p, ctx) /\ p.verified \in {ctx.subject, NoName}
               /\ Fitting(p) \in Seq(Chunks) /\ Range(Fitting(p)) \subseteq Range(p.chunks)
               /\ ContextOf(ctx, p) \in Sessions /\ SessionSaid(ContextOf(ctx, p), U)
<1> DEFINE r == Reading(q, session)
           ctx == Resolve(q, session, here)
           p == Prepared(q, ctx)
<1>1. session \in Sessions /\ SessionOK(session) /\ SessionSaid(session, said)
  BY SessionIs DEF Inv, Typed
<1>2. said \subseteq U \cup {NoName} /\ here \in U \cup {NoName}
  OBVIOUS
<1>3. SessionSaid(session, U)
  BY <1>1, <1>2 DEF SessionSaid
<1>4. Range(q.names) \subseteq U /\ Range(PlacesOf(q, session)) \subseteq U
  <2>1. q.names \in Seq(Names) /\ PlacesOf(q, session) \in Seq(Names)
    BY <1>1, TextIs, PlacesIn
  <2>2. Range(q.names) \subseteq Names /\ Range(PlacesOf(q, session)) \subseteq Names
    BY <2>1, SeqRange
  <2> QED
    BY <2>2, NamesAssumption
<1>5. ReadingTyped(session, r) /\ ReadingSaid(r, U)
  BY <1>1, <1>3, <1>4, ReadingIn, ReadingOfSaid
<1>6. ctx = Resolved(q, session, here, r)
  BY DEF Resolve
<1>7. ContextSaid(ctx, U)
  <2> HIDE DEF r, ctx
  <2> QED
    BY <1>1, <1>2, <1>3, <1>4, <1>5, <1>6, ResolvedSaid
<1>8. ContextOK(ctx)
  BY <1>1, ResolveIn
<1> HIDE DEF ctx
<1>9. EvidenceOK(p, ctx) /\ p.verified \in {ctx.subject, NoName}
  BY <1>1, <1>8, PreparedIn
<1> HIDE DEF p
<1>10. Fitting(p) \in Seq(Chunks) /\ Range(Fitting(p)) \subseteq Range(p.chunks)
  BY <1>1, <1>9, FittingIn DEF EvidenceOK
<1>11. ContextOf(ctx, p) \in Sessions /\ SessionSaid(ContextOf(ctx, p), U)
  BY <1>1, <1>3, <1>7, <1>8, <1>9, ContextOfIn
<1> QED
  BY <1>3, <1>7, <1>8, <1>9, <1>10, <1>11 DEF ctx, p

\* A request keeps the invariant, as the names of the question are said from then on.
LEMMA RequestKeeps ==
    ASSUME Inv, NEW q \in Texts, NEW here \in Some, NEW streamed, Request(q, here, streamed)
    PROVE  Inv'
<1> DEFINE ctx == Resolve(q, session, here)
           p == Prepared(q, ctx)
           chunks == Fitting(p)
           U == said'
<1>1. U = (said \cup Range(q.names) \cup {here} \cup Range(PlacesOf(q, session))) \ {NoName}
      /\ turns' = turns + 1 /\ store' = store /\ disk' = disk
  BY DEF Request
<1>2. /\ ContextOK(ctx) /\ ContextSaid(ctx, U)
      /\ ContextOf(ctx, p) \in Sessions /\ SessionSaid(ContextOf(ctx, p), U)
      /\ chunks \in Seq(Chunks)
  <2> HIDE DEF U
  <2> QED
    BY <1>1, RequestReads
<1>3. PICK r \in Results(q, here, streamed) : session' = r.session
  BY DEF Request
<1>4. \/ r.session = ContextOf(ctx, p)
      \/ \E a : /\ Replied(r.reply, q, ctx, p, chunks, a, streamed)
                /\ r.session = Remember(ContextOf(ctx, p), q, ctx, p, chunks, a, streamed)
  BY ResultsAre
<1> HIDE DEF ctx, p, chunks
<1>5. session' \in Sessions /\ SessionSaid(session', U)
  <2>1. CASE r.session = ContextOf(ctx, p)
    BY <1>2, <1>3, <2>1
  <2>2. CASE r.session # ContextOf(ctx, p)
    <3>1. PICK a : /\ Replied(r.reply, q, ctx, p, chunks, a, streamed)
                   /\ r.session = Remember(ContextOf(ctx, p), q, ctx, p, chunks, a, streamed)
      BY <1>4, <2>2
    <3>2. a \in Outcomes(ctx, p, chunks, streamed)
      BY <3>1 DEF Replied
    <3>3. a.trusted \in BOOLEAN
      BY <3>2, OutcomeTells
    <3> DEFINE s == ContextOf(ctx, p)
    <3> HIDE DEF s, U
    <3>4. s \in Sessions /\ SessionSaid(s, U)
      BY <1>2 DEF s
    <3>5. /\ Remember(s, q, ctx, p, chunks, a, streamed) \in Sessions
          /\ SessionSaid(Remember(s, q, ctx, p, chunks, a, streamed), U)
      BY <1>2, <3>3, <3>4, RememberIn
    <3> QED
      BY <1>3, <3>1, <3>5 DEF s
  <2> QED
    BY <2>1, <2>2
<1>6. SessionSaid(session, said)'
  BY <1>5 DEF SessionSaid
<1>7. Typed'
  BY <1>1, <1>5 DEF Typed, Inv
<1> QED
  BY <1>6, <1>7 DEF Inv

\* An ask and a stream are requests.
LEMMA AsksAre ==
    ASSUME Inv, Ask \/ Stream
    PROVE  \E q \in Texts, here \in Some, streamed \in BOOLEAN : Request(q, here, streamed)
<1>1. turns \in Nat
  BY DEF Inv, Typed
<1>2. ASSUME NEW a \in Now PROVE a.q \in Texts /\ a.here \in Some
  <2>1. turns < Len(Asked) /\ a \in Asked[turns + 1]
    BY <1>2 DEF Now
  <2>2. turns + 1 \in DOMAIN Asked
    BY <1>1, <2>1, DialogueAssumption
  <2> QED
    BY <2>1, <2>2, DialogueAssumption, NamesAssumption DEF Some
<1>3. CASE Ask
  <2>1. PICK a \in Now : Request(a.q, a.here, FALSE)
    BY <1>3 DEF Ask
  <2> QED
    BY <1>2, <2>1
<1>4. CASE Stream
  <2>1. PICK a \in Now : Request(a.q, NoName, TRUE)
    BY <1>4 DEF Stream
  <2>2. NoName \in Some
    BY DEF Some
  <2> QED
    BY <1>2, <2>1, <2>2
<1> QED
  BY <1>3, <1>4

\* A step either is a request or leaves the answer, or there is none after it.
LEMMA StepIs ==
    ASSUME Inv, [Next]_vars
    PROVE  \/ \E q \in Texts, here \in Some, streamed \in BOOLEAN : Request(q, here, streamed)
           \/ /\ reply' \in {reply, NoReply}
              /\ said' = said /\ turns' \in Nat /\ store' \subseteq Ids /\ disk' \subseteq Ids
              /\ \/ session' = session
                 \/ \E t \in BOOLEAN :
                        session' = [session EXCEPT !.turns = <<[user |-> Blank, trusted |-> t]>>]
<1>1. turns \in Nat /\ store \subseteq Ids /\ disk \subseteq Ids
  BY DEF Inv, Typed
<1>3. CASE Ask \/ Stream
  BY <1>3, AsksAre
<1>5. CASE \E trusted \in BOOLEAN : Talk(trusted)
  <2>1. PICK t \in BOOLEAN : Talk(t)
    BY <1>5
  <2> QED
    BY <1>1, <2>1 DEF Talk
<1>6. CASE Read
  BY <1>1, <1>6 DEF Read
<1>7. CASE \E id \in Withdrawable : Withdraw(id)
  BY <1>1, <1>7 DEF Withdraw
<1>8. CASE Restart
  BY <1>1, <1>8 DEF Restart
<1>9. CASE UNCHANGED vars
  BY <1>1, <1>9 DEF vars
<1> QED
  BY <1>3, <1>5, <1>6, <1>7, <1>8, <1>9 DEF Next

\* The invariant holds at the start and every step keeps it.
LEMMA InitInv == Init => Inv
<1> SUFFICES ASSUME Init PROVE Inv
  OBVIOUS
<1>1. session = EmptySession /\ store = Ids /\ disk = Ids /\ turns = 0
  BY DEF Init
<1>2. session \in Sessions
  BY <1>1 DEF EmptySession, Sessions, Some
<1>3. SessionSaid(session, said)
  BY <1>1 DEF SessionSaid, EmptySession, Range
<1> QED
  BY <1>1, <1>2, <1>3 DEF Inv, Typed

LEMMA NextInv == Inv /\ [Next]_vars => Inv'
<1> SUFFICES ASSUME Inv, [Next]_vars PROVE Inv'
  OBVIOUS
<1>1. CASE \E q \in Texts, here \in Some, streamed \in BOOLEAN : Request(q, here, streamed)
  BY <1>1, RequestKeeps
<1>2. CASE /\ said' = said /\ turns' \in Nat /\ store' \subseteq Ids /\ disk' \subseteq Ids
           /\ \/ session' = session
              \/ \E t \in BOOLEAN :
                     session' = [session EXCEPT !.turns = <<[user |-> Blank, trusted |-> t]>>]
  <2>1. session \in Sessions /\ SessionSaid(session, said)
    BY DEF Inv, Typed
  <2>2. CASE session' = session
    BY <1>2, <2>1, <2>2 DEF Inv, Typed, SessionSaid
  <2>3. ASSUME NEW t \in BOOLEAN,
               session' = [session EXCEPT !.turns = <<[user |-> Blank, trusted |-> t]>>]
        PROVE  Inv'
    <3> DEFINE one == <<[user |-> Blank, trusted |-> t]>>
    <3>1. [user |-> Blank, trusted |-> t] \in Turns
      BY BlankIn DEF Turns
    <3>2. one \in Seq(Turns)
      BY <3>1
    <3> HIDE DEF one
    <3>3. session' = [session EXCEPT !.turns = one]
      BY <2>3 DEF one
    <3>4. /\ session' \in Sessions /\ session'.evidence = session.evidence
          /\ session'.place = session.place /\ session'.topic = session.topic
          /\ session'.subject = session.subject /\ session'.person = session.person
          /\ session'.anchor = session.anchor /\ session'.event = session.event
          /\ session'.people = session.people
      BY <2>1, <3>2, <3>3 DEF Sessions
    <3>5. SessionSaid(session, said)'
      BY <1>2, <2>1, <3>4 DEF SessionSaid
    <3> QED
      BY <1>2, <3>4, <3>5 DEF Inv, Typed
  <2> QED
    BY <1>2, <2>2, <2>3
<1> QED
  BY <1>1, <1>2, StepIs

\* The session is of its type, and whatever the client or the records have said,
\* the place, the topic, the subject, the person, the people, the anchor and the event it goes
\* on with are names the client has brought up (context.py: resolve; orchestrator.py: _remember).
THEOREM Invariance == Spec => []Inv
<1> QED
  BY InitInv, NextInv, PTL DEF Spec

-----------------------------------------------------------------------------
(* The properties of an answer *)

\* The properties of the runs, each of one reply. What is told is in the records cited.
Cites(rep) ==
    LET cited == {Record(id) : id \in rep.cited}
    IN  ~rep.trimmed =>
            \A f \in rep.told :
                /\ Clause(f).names \subseteq
                       {rep.subject} \cup UNION {Mentions(c) : c \in cited}
                /\ Clause(f).dates \subseteq
                       UNION {UNION {c.clauses[i].dates : i \in DOMAIN c.clauses} :
                                  c \in cited}

\* What is told of a subject is not about its rival.
TellsApart(rep) ==
    rep.status # "comparison" /\ rep.subject \in Names /\ rep.intent # "role" =>
        \A f \in rep.told : Clause(f).names \cap Rival[rep.subject] = {}

\* What was checked is part of what is sent to the model.
SendsChecked(rep) ==
    rep.status = "answer" /\ rep.intent = rep.asked /\ ~rep.trimmed =>
        rep.checked \subseteq rep.sent

\* A sufficient answer cites a clause on the subject that says what is asked.
AnswersDirectly(rep) ==
    rep.sufficient =>
        \E id \in rep.cited :
            \E i \in DOMAIN Record(id).clauses :
                LET cl == Record(id).clauses[i]
                IN  /\ rep.subject \in cl.names
                    /\ IF rep.intent = "transform" THEN "overview" \in cl.says
                       ELSE rep.intent \in cl.says

\* A reply that has all four.
Good(rep) == Cites(rep) /\ TellsApart(rep) /\ SendsChecked(rep) /\ AnswersDirectly(rep)

\* It is so where there is no reply.
LEMMA NoReplyGood == Good(NoReply)
BY DEF Good, Cites, TellsApart, SendsChecked, AnswersDirectly, NoReply

\* A clause whose names, but for the subject, and dates are in clauses of records.
Stands(cl, cs, subject) ==
    /\ \A n \in cl.names : n # subject => \E t : From(t, cs) /\ n \in t.names
    /\ \A d \in cl.dates : \E t : From(t, cs) /\ d \in t.dates

\* What is told stands: a name or date in it is in the chunks, or is the subject's.
LEMMA ToldStands ==
    ASSUME NEW ctx, NEW p, EvidenceOK(p, ctx), NEW a, NEW chunks, ToldFrom(a, ctx, p, chunks),
           NEW f \in a.told
    PROVE  Stands(Clause(f), p.chunks, ctx.subject)
<1>1. \A cl : From(cl, p.chunks) => Stands(cl, p.chunks, ctx.subject)
  BY DEF Stands
<1>2. PacketOK(p.packet, p.chunks, ctx.subject, ctx.question)
      /\ PacketOK(p.nearby, p.chunks, ctx.subject, ctx.question)
      /\ \A k \in Range(p.compared) :
             \E subject, question : PacketOK(k, p.chunks, subject, question)
  BY DEF EvidenceOK
<1>3. ASSUME NEW k, NEW subject, NEW question, PacketOK(k, p.chunks, subject, question),
             f \in Extractive(k)
      PROVE  From(Clause(f), p.chunks)
  <2>1. f \in Range(k.facts)
    BY <1>3, ExtractiveIn
  <2> QED
    BY <1>3, <2>1, FactsStand
<1>4. CASE a.told = {}
  BY <1>4
<1>5. CASE a.told = UNION {Extractive(k) : k \in Range(p.compared)}
  <2>1. PICK k \in Range(p.compared) : f \in Extractive(k)
    BY <1>5
  <2> QED
    BY <1>1, <1>2, <1>3, <2>1
<1>6. CASE a.told = Extractive(p.nearby)
  BY <1>1, <1>2, <1>3, <1>6
<1>7. CASE a.told = Extractive(p.packet)
  BY <1>1, <1>2, <1>3, <1>7
<1>8. CASE p.packet.facts # <<>> /\ Matches(f, p.packet, ctx.question)
  BY <1>2, <1>8, MatchesStand DEF Stands
<1> QED
  BY <1>4, <1>5, <1>6, <1>7, <1>8 DEF ToldFrom

\* Every reply cites what it tells,
LEMMA RepliedCites ==
    ASSUME NEW rep, NEW q, NEW ctx, NEW p, EvidenceOK(p, ctx), NEW chunks, NEW a, NEW streamed,
           Replied(rep, q, ctx, p, chunks, a, streamed)
    PROVE  Cites(rep)
<1> DEFINE cited == {Record(id) : id \in rep.cited}
<1> SUFFICES ASSUME ~rep.trimmed, NEW f \in rep.told
             PROVE  /\ Clause(f).names \subseteq
                           {rep.subject} \cup UNION {Mentions(c) : c \in cited}
                    /\ Clause(f).dates \subseteq
                           UNION {UNION {c.clauses[i].dates : i \in DOMAIN c.clauses} :
                                      c \in cited}
  BY DEF Cites
<1>1. /\ a \in Outcomes(ctx, p, chunks, streamed) /\ rep.told = a.told
      /\ rep.subject = ctx.subject /\ chunks = p.chunks
      /\ rep.cited = {c.id : c \in Range(chunks)}
  BY DEF Replied
<1>2. ToldFrom(a, ctx, p, chunks)
  BY <1>1, OutcomeTells
<1>3. Stands(Clause(f), p.chunks, ctx.subject)
  BY <1>1, <1>2, ToldStands
<1>4. \A c \in Range(p.chunks) : c \in cited
  <2>1. Range(p.chunks) \subseteq Chunks
    BY SeqRange DEF EvidenceOK
  <2> TAKE c \in Range(p.chunks)
  <2>2. Record(c.id) = c /\ c.id \in rep.cited
    BY <1>1, <2>1, ChunkIs
  <2> QED
    BY <2>2
<1> HIDE DEF cited
<1>5. ASSUME NEW n \in Clause(f).names, n # ctx.subject
      PROVE  \E c \in cited : n \in Mentions(c)
  <2>1. PICK t : From(t, p.chunks) /\ n \in t.names
    BY <1>3, <1>5 DEF Stands
  <2>2. PICK c \in Range(p.chunks) : \E i \in DOMAIN c.clauses : t = c.clauses[i]
    BY <2>1 DEF From
  <2>3. n \in Mentions(c)
    BY <2>1, <2>2 DEF Mentions
  <2> QED
    BY <1>4, <2>3
<1>6. ASSUME NEW d \in Clause(f).dates
      PROVE  \E c \in cited : d \in UNION {c.clauses[i].dates : i \in DOMAIN c.clauses}
  <2>1. PICK t : From(t, p.chunks) /\ d \in t.dates
    BY <1>3, <1>6 DEF Stands
  <2>2. PICK c \in Range(p.chunks) : \E i \in DOMAIN c.clauses : t = c.clauses[i]
    BY <2>1 DEF From
  <2> QED
    BY <1>4, <2>1, <2>2
<1>7. Clause(f).names \subseteq {rep.subject} \cup UNION {Mentions(c) : c \in cited}
  BY <1>1, <1>5
<1>8. Clause(f).dates \subseteq
          UNION {UNION {c.clauses[i].dates : i \in DOMAIN c.clauses} : c \in cited}
  BY <1>6
<1> QED
  BY <1>7, <1>8

\* tells a subject apart from its rival,
LEMMA RepliedApart ==
    ASSUME NEW rep, NEW q, NEW ctx, NEW p, EvidenceOK(p, ctx), NEW chunks, NEW a, NEW streamed,
           Replied(rep, q, ctx, p, chunks, a, streamed)
    PROVE  TellsApart(rep)
<1> SUFFICES ASSUME rep.status # "comparison", rep.subject \in Names, rep.intent # "role",
                    NEW f \in rep.told
             PROVE  Clause(f).names \cap Rival[rep.subject] = {}
  BY DEF TellsApart
<1>1. /\ a \in Outcomes(ctx, p, chunks, streamed) /\ f \in a.told
      /\ a.status # "comparison" /\ rep.subject = ctx.subject /\ p.intent # "role"
  BY DEF Replied
<1>2. ToldFrom(a, ctx, p, chunks)
  BY <1>1, OutcomeTells
<1>3. PacketOK(p.packet, p.chunks, ctx.subject, ctx.question)
      /\ PacketOK(p.nearby, p.chunks, ctx.subject, ctx.question)
      /\ (p.packet.facts # <<>> => p.packet.intent # "role")
  BY <1>1 DEF EvidenceOK
<1>4. CASE a.told = {}
  BY <1>1, <1>4
<1>5. CASE a.told = Extractive(p.nearby)
  BY <1>1, <1>3, <1>5, ExtractiveKeepsApart
<1>6. CASE a.told = Extractive(p.packet)
  BY <1>1, <1>3, <1>6, ExtractiveKeepsApart
<1>7. CASE p.packet.facts # <<>> /\ Matches(f, p.packet, ctx.question)
  BY <1>1, <1>3, <1>7, MatchesStand
<1> QED
  BY <1>1, <1>2, <1>4, <1>5, <1>6, <1>7 DEF ToldFrom

\* sends to the model what was checked,
LEMMA RepliedChecked ==
    ASSUME NEW rep, NEW q, NEW ctx, NEW p, EvidenceOK(p, ctx), NEW chunks, NEW a, NEW streamed,
           Replied(rep, q, ctx, p, chunks, a, streamed)
    PROVE  SendsChecked(rep)
<1> SUFFICES ASSUME rep.status = "answer", rep.intent = rep.asked, ~rep.trimmed
             PROVE  rep.checked \subseteq rep.sent
  BY DEF SendsChecked
<1> DEFINE sent == RemotePrompt(chunks, ctx.subject, ctx.intent, ctx.question)
           facts == Packet(Scoped(chunks, ctx.subject), ctx.subject, ctx.intent,
                           ctx.question).facts
<1>1. /\ a \in Outcomes(ctx, p, chunks, streamed) /\ a.status = "answer"
      /\ p.intent = ctx.intent /\ chunks = p.chunks
      /\ rep.checked = {f.id : f \in Range(p.packet.facts)}
      /\ rep.sent = sent
  BY DEF Replied
<1>2. ~(Len(p.compared) >= 2) /\ p.packet.facts # <<>>
  BY <1>1, OutcomeTells
<1>3. p.packet.intent = ctx.intent
      /\ p.packet = Packet(chunks, ctx.subject, ctx.intent, ctx.question)
  BY <1>1, <1>2 DEF EvidenceOK
<1>4. facts = p.packet.facts
  BY <1>1, <1>3, ScopedPacket DEF EvidenceOK
<1>5. sent = IF facts # <<>> THEN {f.id : f \in Range(facts)} ELSE sent
  BY Zenon DEF RemotePrompt
<1> HIDE DEF sent, facts
<1> QED
  BY <1>1, <1>2, <1>4, <1>5

\* and is sufficient only with a direct clause.
LEMMA RepliedDirect ==
    ASSUME NEW rep, NEW q, NEW ctx, NEW p, NEW chunks \in Seq(Chunks), NEW a, NEW streamed,
           Replied(rep, q, ctx, p, chunks, a, streamed)
    PROVE  AnswersDirectly(rep)
<1> SUFFICES ASSUME rep.sufficient
             PROVE  \E id \in rep.cited :
                        \E i \in DOMAIN Record(id).clauses :
                            LET cl == Record(id).clauses[i]
                            IN  /\ rep.subject \in cl.names
                                /\ IF rep.intent = "transform" THEN "overview" \in cl.says
                                   ELSE rep.intent \in cl.says
  BY DEF AnswersDirectly
<1> DEFINE support == Assess(chunks, ctx.subject, p.intent, ctx.question)
<1>1. /\ Sufficient(q, ctx, p, chunks) /\ rep.subject = ctx.subject /\ rep.intent = p.intent
      /\ rep.cited = {c.id : c \in Range(chunks)}
  BY DEF Replied
<1>2. Sufficiency(chunks, support) = "sufficient"
  BY <1>1 DEF Sufficient
<1>3. support \in {"none", "direct", "partial", "related_only"}
      /\ (support = "direct" =>
              \E c \in Range(chunks) : \E i \in DOMAIN c.clauses :
                  /\ ctx.subject \in c.clauses[i].names
                  /\ IntentMatches(c.clauses[i], ctx.subject, p.intent, ctx.question))
  BY AssessIs
<1> HIDE DEF support
<1>4. support = "direct"
  BY <1>2, <1>3 DEF Sufficiency
<1>5. PICK c \in Range(chunks) : \E i \in DOMAIN c.clauses :
          /\ ctx.subject \in c.clauses[i].names
          /\ IntentMatches(c.clauses[i], ctx.subject, p.intent, ctx.question)
  BY <1>3, <1>4
<1>6. PICK i \in DOMAIN c.clauses :
          /\ ctx.subject \in c.clauses[i].names
          /\ IntentMatches(c.clauses[i], ctx.subject, p.intent, ctx.question)
  BY <1>5
<1>7. c \in Chunks
  BY SeqRange
<1>8. Record(c.id) = c /\ c.id \in rep.cited
  BY <1>1, <1>7, ChunkIs
<1>9. IF p.intent = "transform" THEN "overview" \in c.clauses[i].says
      ELSE p.intent \in c.clauses[i].says
  BY <1>6, IntentSays
<1> QED
  BY <1>1, <1>6, <1>8, <1>9

\* A request leaves no reply, or one made of good evidence.
LEMMA RequestReplies ==
    ASSUME Inv, NEW q \in Texts, NEW here \in Some, NEW streamed, Request(q, here, streamed)
    PROVE  LET ctx == Resolve(q, session, here)
               p == Prepared(q, ctx)
               chunks == Fitting(p)
           IN  /\ EvidenceOK(p, ctx) /\ ContextOK(ctx)
               /\ chunks \in Seq(Chunks) /\ Range(chunks) \subseteq Range(p.chunks)
               /\ reply' = NoReply \/ \E a : Replied(reply', q, ctx, p, chunks, a, streamed)
<1> DEFINE ctx == Resolve(q, session, here)
           p == Prepared(q, ctx)
           chunks == Fitting(p)
           U == (said \cup Range(q.names) \cup {here} \cup Range(PlacesOf(q, session))) \ {NoName}
<1>1. PICK r \in Results(q, here, streamed) : reply' = r.reply
  BY DEF Request
<1>2. /\ EvidenceOK(p, ctx) /\ ContextOK(ctx)
      /\ chunks \in Seq(Chunks) /\ Range(chunks) \subseteq Range(p.chunks)
  <2>1. U \subseteq U
    OBVIOUS
  <2> DEFINE V == U
  <2>2. U \subseteq V
    OBVIOUS
  <2> HIDE DEF V
  <2> QED
    BY <2>2, RequestReads
<1>3. r.reply = NoReply \/ \E a : Replied(r.reply, q, ctx, p, chunks, a, streamed)
  BY ResultsAre
<1> HIDE DEF ctx, p, chunks
<1>4. reply' = NoReply \/ \E a : Replied(reply', q, ctx, p, chunks, a, streamed)
  BY <1>1, <1>3
<1> QED
  BY <1>2, <1>4 DEF ctx, p, chunks

\* Every step leaves a good reply, and so every reply is good.
LEMMA NextGood == Inv /\ Good(reply) /\ [Next]_vars => Good(reply')
<1> SUFFICES ASSUME Inv, Good(reply), [Next]_vars PROVE Good(reply')
  OBVIOUS
<1>1. ASSUME NEW q \in Texts, NEW here \in Some, NEW streamed \in BOOLEAN,
             Request(q, here, streamed)
      PROVE  Good(reply')
  <2> DEFINE ctx == Resolve(q, session, here)
             p == Prepared(q, ctx)
             chunks == Fitting(p)
             rep == reply'
  <2>1. /\ EvidenceOK(p, ctx) /\ chunks \in Seq(Chunks)
        /\ rep = NoReply \/ \E a : Replied(rep, q, ctx, p, chunks, a, streamed)
    BY <1>1, RequestReplies
  <2> HIDE DEF ctx, p, chunks, rep
  <2>2. ASSUME NEW a, Replied(rep, q, ctx, p, chunks, a, streamed) PROVE Good(rep)
    BY <2>1, <2>2, RepliedCites, RepliedApart, RepliedChecked, RepliedDirect DEF Good
  <2>3. Good(rep)
    BY <2>1, <2>2, NoReplyGood
  <2> QED
    BY <2>3 DEF rep
<1>2. CASE reply' \in {reply, NoReply}
  BY <1>2, NoReplyGood
<1> QED
  BY <1>1, <1>2, StepIs

LEMMA AnswersAreGood == Spec => [](Inv /\ Good(reply))
<1>1. Init => Good(reply)
  BY NoReplyGood DEF Init
<1>2. Inv /\ Good(reply) /\ [Next]_vars => (Inv /\ Good(reply))'
  <2>1. Inv /\ Good(reply) /\ [Next]_vars => Inv' /\ Good(reply')
    BY NextInv, NextGood
  <2>2. Good(reply)' <=> Good(reply')
    BY DEF Good, Cites, TellsApart, SendsChecked, AnswersDirectly
  <2> QED
    BY <2>1, <2>2
<1> QED
  BY <1>1, <1>2, InitInv, PTL DEF Spec

\* The place, topic, subject and persons the conversation goes on with are names the client
\* has brought up: what the records say of others never becomes what "he" or "there" means
\* (context_resolver.py: resolve; orchestrator.py: _recent_people and what ask and
\* stream write to the session).
THEOREM OnlyUsersMakeReferents == Spec => []ReferentsFromUsers
<1>1. Inv => ReferentsFromUsers
  BY DEF Inv, SessionSaid, ReferentsFromUsers
<1> QED
  BY <1>1, Invariance, PTL

\* A name or a date that an answer tells is the subject's or is in one of the records it cites,
\* unless the context window was too small for all of them (orchestrator.py:
\* _stabilize_grounded_answer, _generation_matches_fact_packet).
THEOREM ToldIsCited == Spec => []CitedFacts
<1>1. Good(reply) => CitedFacts
  BY DEF Good, Cites, CitedFacts
<1> QED
  BY <1>1, AnswersAreGood, PTL

\* An answer about one of two easily confused names tells nothing of the other, a comparison
\* of both and the question of roles aside (remote_safe.py: _subject_scoped_chunks,
\* _competitor_matches).
THEOREM RivalsAreKeptApart == Spec => []NoRivalFacts
<1>1. Good(reply) => NoRivalFacts
  BY DEF Good, TellsApart, NoRivalFacts
<1> QED
  BY <1>1, AnswersAreGood, PTL

\* The records whose facts an answer of the model is checked against are sent to it, where the
\* facet checked is the one asked for and all the records fit (remote_safe.py:
\* serialize_remote_prompt against build_grounded_fact_packet).
THEOREM CheckedIsSent == Spec => []SentIsChecked
<1>1. Good(reply) => SentIsChecked
  BY DEF Good, SendsChecked, SentIsChecked
<1> QED
  BY <1>1, AnswersAreGood, PTL

\* An answer is called sufficient only when a record it cites has a clause on the subject that
\* says what was asked for (orchestrator.py: _source_sufficiency;
\* remote_safe.py: assess_direct_evidence).
THEOREM SufficiencyIsDirect == Spec => []SufficientIsDirect
<1>1. Good(reply) => SufficientIsDirect
  BY DEF Good, AnswersDirectly, SufficientIsDirect
<1> QED
  BY <1>1, AnswersAreGood, PTL

\* A rewording cites records of the latest answer that found some.
TransformStep ==
    LET latest == IF session.evidence = <<>> THEN {}
                  ELSE Range(UpTo(Last(session.evidence).chunks, TopK))
    IN  (/\ reply'.kind = "transform"
         /\ reply'.intent # "role" /\ reply'.status # "comparison"
         /\ latest \cap store # {})
            => reply'.cited \subseteq latest

\* Every step is so, or changes nothing.
LEMMA NextTransforms == Inv /\ [Next]_vars => TransformStep \/ UNCHANGED vars
<1> SUFFICES ASSUME Inv, [Next]_vars, ~UNCHANGED vars PROVE TransformStep
  OBVIOUS
<1> DEFINE latest == IF session.evidence = <<>> THEN {}
                     ELSE Range(UpTo(Last(session.evidence).chunks, TopK))
<1>1. LatestKept = latest \cap store
  BY DEF LatestKept
<1> SUFFICES ASSUME reply'.kind = "transform", reply'.intent # "role",
                    reply'.status # "comparison", latest \cap store # {}
             PROVE  reply'.cited \subseteq latest
  BY DEF TransformStep
<1> HIDE DEF latest
<1>2. NoReply.kind # "transform"
  BY DEF NoReply
<1>3. ASSUME NEW q \in Texts, NEW here \in Some, NEW streamed, Request(q, here, streamed)
      PROVE  reply'.cited \subseteq latest
  <2> DEFINE ctx == Resolve(q, session, here)
             p == Prepared(q, ctx)
             chunks == Fitting(p)
             rep == reply'
  <2>1. /\ EvidenceOK(p, ctx) /\ ContextOK(ctx)
        /\ chunks \in Seq(Chunks) /\ Range(chunks) \subseteq Range(p.chunks)
        /\ rep = NoReply \/ \E a : Replied(rep, q, ctx, p, chunks, a, streamed)
    BY <1>3, RequestReplies
  <2> HIDE DEF ctx
  <2>2. ctx.kind = "transform" /\ LatestKept # {} /\ ~(Len(p.compared) >= 2)
            /\ p.intent # "role" => \A c \in Range(p.chunks) : c.id \in LatestKept
    BY <2>1, PreparedIn DEF Inv, Typed
  <2> HIDE DEF p, chunks
  <2>3. PICK a : Replied(rep, q, ctx, p, chunks, a, streamed)
    BY <1>2, <2>1
  <2>4. /\ ctx.kind = "transform" /\ p.intent # "role" /\ a.status # "comparison"
        /\ a \in Outcomes(ctx, p, chunks, streamed)
        /\ rep.cited = {c.id : c \in Range(chunks)}
    BY <2>3 DEF Replied
  <2>5. CASE chunks = <<>>
    BY <2>4, <2>5 DEF Range
  <2>6. CASE chunks # <<>>
    <3>1. ~(Len(p.compared) >= 2)
      BY <2>4, <2>6, OutcomeTells
    <3>2. \A c \in Range(p.chunks) : c.id \in LatestKept
      BY <1>1, <2>2, <2>4, <3>1
    <3> QED
      BY <1>1, <2>1, <2>4, <3>2
  <2> QED
    BY <2>5, <2>6
<1>4. CASE Ask \/ Stream
  <2>1. \E q \in Texts, here \in Some, streamed \in BOOLEAN : Request(q, here, streamed)
    BY <1>4, AsksAre
  <2> QED
    BY <1>3, <2>1
<1>5. CASE (\E t \in BOOLEAN : Talk(t)) \/ Read \/ (\E id \in Withdrawable : Withdraw(id))
           \/ Restart
  <2>1. reply' = NoReply
    BY <1>5 DEF Talk, Read, Withdraw, Restart
  <2> QED
    BY <1>2, <2>1
<1> QED
  BY <1>4, <1>5 DEF Next

\* A rewording of the latest answer cites only records of that answer, as long as one of them
\* is still loaded (orchestrator.py: _remembered_evidence).
THEOREM RewordingsKeepEvidence == Spec => TransformKeepsEvidence
<1>1. Inv /\ [Next]_vars => [TransformStep]_vars
  BY NextTransforms
<1> QED
  BY <1>1, Invariance, PTL DEF Spec, TransformKeepsEvidence, TransformStep
===============================================================================

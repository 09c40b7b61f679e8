------------------------------ MODULE RequestProofs ------------------------------
(***************************************************************************)
(* Proofs about one request, from its bytes to its answer.                 *)
(*                                                                         *)
(* The first part is about Request and Upload, for any requests, reads     *)
(* and limits: what arrives of an upload is in the files, in order,        *)
(* forms are decoded to what was encoded, and the limits are kept.  The    *)
(* argument for uploads: the whole body is laid out in advance, with the   *)
(* place of each boundary, and at every moment the buffer is the piece     *)
(* of it from unit c + 1 to unit received, where c is determined by the    *)
(* state of the processor and the part k that it is in.  What has been     *)
(* handed to the pool is then what was sent before c, and the files are    *)
(* behind it by the tasks that wait.  For forms: no separator is left in   *)
(* an encoded text, so a form is split where its fields were joined.       *)
(*                                                                         *)
(* The second part is about HandlerChain, for chains of any length: until  *)
(* the timeout strikes no handler is entered twice, none after Abort(),    *)
(* and a request is answered once, with the data set first.  The argument: *)
(* while the task waits in the timeout middleware it takes no step, so one *)
(* thread at a time moves index_ and the response.  index_ only grows, and *)
(* no handler behind it has been entered.                                  *)
(*                                                                         *)
(* The third part is about Router, for any routes, groups and requests:    *)
(* a request finds the most specific route, with its parameters and its    *)
(* chain.  The argument: each trie has, with a node, those on the way to   *)
(* it, and the pattern of a node is the path that was registered last for  *)
(* it.  With these, what search() returns from a node is right if it is    *)
(* right from the children, and so it is right from the deepest nodes up,  *)
(* by induction on the number of parts that are left.                      *)
(***************************************************************************)
EXTENDS HandlerChain, Request, Router, SequenceTheorems, WellFoundedInduction, TLAPS

-----------------------------------------------------------------------------
(* Induction over numbers, and folds.                                      *)
\* A set of numbers that has 0 and with each number the next one has them all.
LEMMA Induction ==
  ASSUME NEW T, 0 \in T, \A k \in Nat : k \in T => k + 1 \in T
  PROVE  Nat \subseteq T
<1> SUFFICES ASSUME Nat \ T # {} PROVE FALSE
  OBVIOUS
<1>1. IsWellFoundedOn(OpToRel(<, Nat), Nat)
  BY NatLessThanWellFounded
<1>2. Nat \ T \subseteq Nat
  OBVIOUS
<1>3. PICK x \in Nat \ T : \A y \in Nat \ T : ~ (<<y, x>> \in OpToRel(<, Nat))
  BY ONLY <1>1, <1>2, Nat \ T # {}, WFMin
<1>4. \A y \in Nat \ T : ~(y < x)
  BY <1>3 DEF OpToRel
<1>5. x - 1 \in Nat /\ x - 1 \in T
  BY <1>4
<1>6. QED
  BY <1>5

\* The intervals that a fold goes through.
LEMMA Intervals ==
  ASSUME NEW n \in Nat
  PROVE  /\ Max(1..n + 1) = n + 1
         /\ (1..n + 1) \ {n + 1} = 1..n
         /\ \A s \in SUBSET (1..n + 1) :
              n + 1 \in s => s # {} /\ Max(s) = n + 1 /\ s \ {n + 1} \in SUBSET (1..n)
<1>1. ASSUME NEW s \in SUBSET (1..n + 1), n + 1 \in s PROVE Max(s) = n + 1
  <2>1. \A x \in s : x \in Int /\ x <= n + 1
    OBVIOUS
  <2>2. \A x \in s : (\A y \in s : x >= y) <=> x = n + 1
    BY <1>1, <2>1
  <2>3. QED
    BY <1>1, <2>2, Zenon DEF Max
<1>2. n + 1 \in 1..n + 1 /\ (1..n + 1) \ {n + 1} = 1..n
  OBVIOUS
<1>3. QED
  BY <1>1, <1>2

\* A set of places has its maximum in it.
LEMMA MaxInside ==
  ASSUME NEW n \in Nat
  PROVE  \A s \in SUBSET (1..n) : s # {} => Max(s) \in s
<1> DEFINE T == {m \in Nat : \A s \in SUBSET (1..m) : s # {} => Max(s) \in s}
<1>1. 0 \in T
  <2>1. \A s \in SUBSET (1..0) : s = {}
    OBVIOUS
  <2>2. QED
    BY ONLY <2>1
<1>2. ASSUME NEW m \in Nat, m \in T PROVE m + 1 \in T
  <2>1. ASSUME NEW s \in SUBSET (1..m + 1), s # {} PROVE Max(s) \in s
    <3>1. CASE m + 1 \in s
      BY <3>1, Intervals
    <3>2. CASE m + 1 \notin s
      <4>1. s \in SUBSET (1..m)
        BY <3>2
      <4>2. QED
        BY <1>2, <2>1, <4>1
    <3>3. QED
      BY <3>1, <3>2
  <2>2. QED
    BY <2>1
<1>3. Nat \subseteq T
  <2> HIDE DEF T
  <2> QED
    BY <1>1, <1>2, Induction
<1>4. QED
  BY <1>3

\* A fold over a sequence of n elements is defined by a function on the sets of
\* places.  Its step at place i leads from a value v to st[<<v, i>>].
Steps(st, V, n) == \A v \in V, i \in 1..n : st[<<v, i>>] \in V

OnSets(g, base, st, V, n) ==
  /\ g \in [SUBSET (1..n) -> V]
  /\ g[{}] = base
  /\ \A s \in SUBSET (1..n) : s # {} =>
       /\ Max(s) \in 1..n /\ s \ {Max(s)} \in SUBSET (1..n)
       /\ g[s] = st[<<g[s \ {Max(s)}], Max(s)>>]

\* What such a function satisfies if it is only known to be one where it has values.
WhereValued(h, base, st, V, n) ==
  /\ h[{}] = base
  /\ \A s \in SUBSET (1..n) : s # {} /\ h[s \ {Max(s)}] \in V =>
       h[s] = st[<<h[s \ {Max(s)}], Max(s)>>]

\* The values that the steps lead to, one after the other.
Trace(b, base, st, V, n) ==
  /\ b \in [0..n -> V]
  /\ b[0] = base
  /\ \A k \in 1..n : b[k] = st[<<b[k - 1], k>>]

\* There is a function as a fold is defined by.
LEMMA FoldExists ==
  ASSUME NEW V, NEW base \in V, NEW N \in Nat, NEW st, Steps(st, V, N)
  PROVE  \E g : OnSets(g, base, st, V, N)
<1> DEFINE Folds(g, n) ==
             /\ g \in [SUBSET (1..n) -> V]
             /\ \A s \in SUBSET (1..n) :
                  g[s] = IF s = {} THEN base ELSE st[<<g[s \ {Max(s)}], Max(s)>>]
           T == {m \in Nat : m <= N => \E g : Folds(g, m)}
<1>1. 0 \in T
  <2> DEFINE g == [s \in SUBSET (1..0) |-> base]
  <2>1. \A s \in SUBSET (1..0) : s = {}
    OBVIOUS
  <2>2. Folds(g, 0)
    BY <2>1
  <2>3. QED
    BY <2>2
<1>2. ASSUME NEW n \in Nat, n \in T PROVE n + 1 \in T
  <2> SUFFICES ASSUME n + 1 <= N PROVE \E g : Folds(g, n + 1)
    <3> HIDE DEF Folds
    <3> QED
      OBVIOUS
  <2>1. PICK g : Folds(g, n)
    <3> HIDE DEF Folds
    <3> QED
      BY <1>2
  <2> DEFINE h == [s \in SUBSET (1..n + 1) |->
                     IF n + 1 \in s THEN st[<<g[s \ {n + 1}], n + 1>>] ELSE g[s]]
  <2>2. \A s \in SUBSET (1..n + 1) : n + 1 \notin s => s \in SUBSET (1..n)
    OBVIOUS
  <2>3. \A s \in SUBSET (1..n) : s \in SUBSET (1..n + 1) /\ n + 1 \notin s /\ h[s] = g[s]
    OBVIOUS
  <2>4. ASSUME NEW s \in SUBSET (1..n + 1) PROVE h[s] \in V
    <3>1. CASE n + 1 \in s
      <4>1. s \ {n + 1} \in SUBSET (1..n)
        BY <3>1, Intervals
      <4>2. n + 1 \in 1..N
        BY N \in Nat, n + 1 <= N
      <4>3. g[s \ {n + 1}] \in V
        BY <2>1, <4>1
      <4>4. QED
        BY <3>1, <4>2, <4>3 DEF Steps
    <3>2. CASE n + 1 \notin s
      BY <2>1, <2>2, <3>2
    <3>3. QED
      BY <3>1, <3>2
  <2>5. ASSUME NEW s \in SUBSET (1..n + 1)
        PROVE  h[s] = IF s = {} THEN base ELSE st[<<h[s \ {Max(s)}], Max(s)>>]
    <3>1. CASE n + 1 \in s
      <4>1. s # {} /\ Max(s) = n + 1 /\ s \ {n + 1} \in SUBSET (1..n)
        BY <3>1, Intervals
      <4>2. h[s \ {n + 1}] = g[s \ {n + 1}]
        BY <4>1, <2>3
      <4>3. QED
        BY <3>1, <4>1, <4>2
    <3>2. CASE n + 1 \notin s
      <4>1. s \in SUBSET (1..n) /\ s \ {Max(s)} \in SUBSET (1..n)
        BY <3>2, <2>2
      <4>2. h[s] = g[s] /\ h[s \ {Max(s)}] = g[s \ {Max(s)}]
        BY <4>1, <2>3
      <4>3. QED
        BY <4>1, <4>2, <2>1
    <3>3. QED
      BY <3>1, <3>2
  <2>6. QED
    BY <2>4, <2>5
<1>3. N \in T
  <2> HIDE DEF T
  <2> QED
    BY <1>1, <1>2, Induction
<1>4. QED
  <2> HIDE DEF Folds
  <2>1. PICK g : Folds(g, N)
    BY <1>3
  <2>2. g \in [SUBSET (1..N) -> V] /\ g[{}] = base
    BY <2>1 DEF Folds
  <2>3. ASSUME NEW s \in SUBSET (1..N), s # {}
        PROVE  /\ Max(s) \in 1..N /\ s \ {Max(s)} \in SUBSET (1..N)
               /\ g[s] = st[<<g[s \ {Max(s)}], Max(s)>>]
    BY <2>1, <2>3, MaxInside DEF Folds
  <2>4. QED
    BY <2>2, <2>3 DEF OnSets

\* Every such function has, at the set of all places, the value its steps lead to.
LEMMA FoldSteps ==
  ASSUME NEW V, NEW base \in V, NEW N \in Nat, NEW st, Steps(st, V, N),
         NEW h, WhereValued(h, base, st, V, N)
  PROVE  \E b : Trace(b, base, st, V, N) /\ h[1..N] = b[N]
<1> DEFINE b == [k \in 0..N |-> h[1..k]]
           T == {k \in Nat : k <= N => b[k] \in V}
<1>1. ASSUME NEW k \in 1..N, b[k - 1] \in V
      PROVE  b[k] = st[<<b[k - 1], k>>]
  <2>1. k - 1 \in 0..N /\ k \in 0..N /\ 1..k \in SUBSET (1..N) /\ 1..k # {}
    OBVIOUS
  <2>2. b[k] = h[1..k] /\ b[k - 1] = h[1..k - 1]
    BY <2>1
  <2>3. Max(1..k) = k /\ (1..k) \ {k} = 1..k - 1
    <3>1. k - 1 \in Nat /\ (k - 1) + 1 = k
      OBVIOUS
    <3> DEFINE j == k - 1
    <3>2. Max(1..j + 1) = j + 1 /\ (1..j + 1) \ {j + 1} = 1..j
      BY <3>1, Intervals
    <3>3. QED
      BY <3>1, <3>2
  <2> HIDE DEF b
  <2>4. QED
    BY <1>1, <2>1, <2>2, <2>3 DEF WhereValued
<1>2. b[0] = base /\ 0 \in T
  <2>1. 1..0 = {} /\ h[{}] = base
    BY DEF WhereValued
  <2>2. 0 \in 0..N
    OBVIOUS
  <2>3. b[0] = base
    BY <2>1, <2>2, Zenon
  <2> HIDE DEF b
  <2>4. QED
    BY <2>3
<1>3. ASSUME NEW k \in Nat, k \in T PROVE k + 1 \in T
  <2> SUFFICES ASSUME k + 1 <= N PROVE b[k + 1] \in V
    OBVIOUS
  <2>1. b[k] \in V /\ k + 1 \in 1..N /\ (k + 1) - 1 = k
    BY <1>3
  <2> HIDE DEF b
  <2>2. QED
    BY <2>1, <1>1 DEF Steps
<1>4. \A k \in 0..N : b[k] \in V
  <2>1. Nat \subseteq T
    <3> HIDE DEF T
    <3> QED
      BY <1>2, <1>3, Induction
  <2> HIDE DEF b
  <2>2. QED
    BY <2>1
<1>5. \A k \in 1..N : b[k] = st[<<b[k - 1], k>>]
  <2> HIDE DEF b
  <2> QED
    BY <1>1, <1>4
<1>6. b \in [0..N -> V] /\ h[1..N] = b[N]
  BY <1>4
<1> HIDE DEF b
<1>7. QED
  BY <1>2, <1>5, <1>6 DEF Trace

\* What is where in a part of a sequence.
LEMMA Slice ==
  ASSUME NEW W, NEW s \in Seq(W), NEW a \in Nat, NEW b \in Nat, a <= b, b <= Len(s)
  PROVE  /\ SubSeq(s, a + 1, b) \in Seq(W) /\ Len(SubSeq(s, a + 1, b)) = b - a
         /\ \A i \in 1..b - a : SubSeq(s, a + 1, b)[i] = s[a + i]
<1>1. Len(s) \in Nat /\ a + 1 \in Nat /\ a + 1 >= 1
  OBVIOUS
<1>2. \A i \in a + 1..b : i \in 1..Len(s) /\ s[i] \in W
  BY <1>1
<1>3. b - (a + 1) + 1 = b - a /\ \A i \in Nat : (a + 1) + i - 1 = a + i
  OBVIOUS
<1>4. Len(SubSeq(s, a + 1, b)) = b - a
  BY <1>1, <1>3
<1>5. \A i \in 1..b - a : SubSeq(s, a + 1, b)[i] = s[a + i]
  BY <1>1, <1>3
<1>6. SubSeq(s, a + 1, b) \in Seq(W)
  BY <1>2
<1>7. QED
  BY <1>4, <1>5, <1>6

WithPart(b, p) == b \o <<"crlf", p.file, "crlf", "crlf">> \o p.data \o boundary

\* The fields of a part.
LEMMA PartTypes ==
  ASSUME NEW p \in Part
  PROVE  /\ p.file \in File /\ p.data \in Seq(Data \cup {"crlf"})
         /\ p.data \in Seq(Unit)
         /\ \A b \in Seq(Unit) : WithPart(b, p) \in Seq(Unit)
<1>1. PICK n \in 0..MaxData : p.data \in [1..n -> Data \cup {"crlf"}]
  BY DEF Part
<1>2. n \in Nat
  BY BoundAssumption
<1>3. p.data \in Seq(Data \cup {"crlf"}) /\ p.data \in Seq(Unit)
  BY <1>1, <1>2 DEF Unit
<1>4. p.file \in File
  BY DEF Part
<1>5. <<"crlf", p.file, "crlf", "crlf">> \in Seq(Unit) /\ boundary \in Seq(Unit)
  BY <1>4 DEF Unit, boundary
<1>6. QED
  BY <1>3, <1>4, <1>5 DEF WithPart

BodyTrace(b, ps) ==
  /\ b \in [0..Len(ps) -> Seq(Unit)]
  /\ b[0] = first_boundary
  /\ \A k \in 1..Len(ps) : b[k] = WithPart(b[k - 1], ps[k])

\* Body is built part by part.
LEMMA BodyUnfolds ==
  ASSUME NEW ps \in Seq(Part), ps = parts
  PROVE  \E b : BodyTrace(b, ps) /\ Body = b[Len(ps)] \o <<"end">>
<1> DEFINE n == Len(ps)
           V == Seq(Unit)
           Is(g) == g = [s \in SUBSET (1..n) |->
                            IF s = {} THEN first_boundary
                            ELSE WithPart(g[s \ {Max(s)}], ps[Max(s)])]
           st == [x \in V \X (1..n) |-> WithPart(x[1], ps[x[2]])]
<1>1. n \in Nat /\ DOMAIN ps = 1..n
  OBVIOUS
<1>2. first_boundary \in V /\ \A b \in V, i \in 1..n : WithPart(b, ps[i]) \in V
  <2>1. first_boundary \in V
    BY DEF first_boundary, Unit
  <2>2. ASSUME NEW b \in V, NEW i \in 1..n PROVE WithPart(b, ps[i]) \in V
    <3>1. ps[i] \in Part
      BY <2>2
    <3>2. QED
      BY <2>2, <3>1, PartTypes
  <2>3. QED
    BY <2>1, <2>2
<1>3. \A b \in V, i \in 1..n : st[<<b, i>>] = WithPart(b, ps[i])
  OBVIOUS
<1>4. Steps(st, V, n)
  <2> HIDE DEF st
  <2> QED
    BY <1>2, <1>3 DEF Steps
<1> HIDE DEF st, V, n
<1>5. PICK g : OnSets(g, first_boundary, st, V, n)
  BY <1>1, <1>2, <1>4, FoldExists
<1>6. Is(g)
  BY <1>3, <1>5 DEF OnSets
<1>7. PICK h : Is(h) /\ Body = h[1..n] \o <<"end">>
  BY <1>1, <1>6 DEF Body, FoldLeft, MapThenFoldSet, WithPart
<1>8. WhereValued(h, first_boundary, st, V, n)
  BY <1>3, <1>5, <1>7 DEF OnSets, WhereValued
<1>9. PICK b : Trace(b, first_boundary, st, V, n) /\ h[1..n] = b[n]
  BY <1>1, <1>2, <1>4, <1>8, FoldSteps
<1>10. \A k \in 1..n : b[k] = WithPart(b[k - 1], ps[k])
  <2>1. \A k \in 1..n : k - 1 \in 0..n
    BY <1>1
  <2>2. QED
    BY <1>3, <1>9, <2>1 DEF Trace
<1>11. QED
  BY <1>7, <1>9, <1>10 DEF n, V, Trace, BodyTrace

\* What a fold over a sequence s has to be shown to be, and then is.
SentStep(v, p, f) == v \o (IF p.file = f THEN p.data ELSE <<>>)

SentTrace(b, ps, f) ==
  /\ b \in [0..Len(ps) -> Seq(Unit)]
  /\ b[0] = <<>>
  /\ \A k \in 1..Len(ps) : b[k] = SentStep(b[k - 1], ps[k], f)

\* What is sent for a file is collected part by part.
LEMMA SentUnfolds ==
  ASSUME NEW ps \in Seq(Part), ps = parts, NEW f
  PROVE  \E b : SentTrace(b, ps, f) /\ Sent(f) = b[Len(ps)]
<1> DEFINE n == Len(ps)
           V == Seq(Unit)
           Is(g) == g = [s \in SUBSET (1..n) |->
                            IF s = {} THEN <<>>
                            ELSE SentStep(g[s \ {Max(s)}], ps[Max(s)], f)]
           st == [x \in V \X (1..n) |-> SentStep(x[1], ps[x[2]], f)]
<1>1. n \in Nat /\ DOMAIN ps = 1..n
  OBVIOUS
<1>2. <<>> \in V /\ \A b \in V, i \in 1..n : SentStep(b, ps[i], f) \in V
  BY PartTypes DEF SentStep
<1>3. \A b \in V, i \in 1..n : st[<<b, i>>] = SentStep(b, ps[i], f)
  OBVIOUS
<1>4. Steps(st, V, n)
  <2> HIDE DEF st
  <2> QED
    BY <1>2, <1>3 DEF Steps
<1> HIDE DEF st, V, n
<1>5. PICK g : OnSets(g, <<>>, st, V, n)
  BY <1>1, <1>2, <1>4, FoldExists
<1>6. Is(g)
  BY <1>3, <1>5 DEF OnSets
<1>7. PICK h : Is(h) /\ Sent(f) = h[1..n]
  <2> DEFINE dat == [i \in DOMAIN parts |->
                        IF parts[i].file = f THEN parts[i].data ELSE <<>>]
             Is2(e) == e = [s \in SUBSET (1..n) |->
                              IF s = {} THEN <<>> ELSE e[s \ {Max(s)}] \o dat[Max(s)]]
  <2>1. \A s \in SUBSET (1..n) : s # {} => Max(s) \in 1..n
    BY <1>5 DEF OnSets
  <2>2. \A i \in 1..n : \A v : v \o dat[i] = SentStep(v, ps[i], f)
    BY <1>1 DEF SentStep
  <2>3. DOMAIN dat = 1..n
    BY <1>1
  <2> HIDE DEF dat
  <2>4. \A e : Is2(e) <=> Is(e)
    BY <2>1, <2>2
  <2>5. Is2(g)
    BY <1>6, <2>4
  <2>6. Sent(f) = FoldLeft(\o, <<>>, dat)
    BY DEF Sent, dat, FoldLeft, MapThenFoldSet
  <2>7. \E h : Is2(h) /\ Sent(f) = h[1..n]
    BY <2>3, <2>5, <2>6 DEF FoldLeft, MapThenFoldSet
  <2> HIDE DEF Is2, Is
  <2>8. QED
    BY <2>4, <2>7
<1>8. WhereValued(h, <<>>, st, V, n)
  BY <1>3, <1>5, <1>7 DEF OnSets, WhereValued
<1>9. PICK b : Trace(b, <<>>, st, V, n) /\ h[1..n] = b[n]
  BY <1>1, <1>2, <1>4, <1>8, FoldSteps
<1>10. \A k \in 1..n : b[k] = SentStep(b[k - 1], ps[k], f)
  <2>1. \A k \in 1..n : k - 1 \in 0..n
    BY <1>1
  <2>2. QED
    BY <1>3, <1>9, <2>1 DEF Trace
<1>11. QED
  BY <1>7, <1>9, <1>10 DEF n, V, Trace, SentTrace

SkipStep(rest, e) == IF rest # <<>> /\ rest[1] = e THEN Tail(rest) ELSE rest

Skips(b, s, t, W) ==
  /\ b \in [0..Len(t) -> Seq(W)]
  /\ b[0] = s
  /\ \A k \in 1..Len(t) : b[k] = SkipStep(b[k - 1], t[k])

\* IsSubSequence goes through its second argument element by element.
LEMMA SubSequenceUnfolds ==
  ASSUME NEW W, NEW s \in Seq(W), NEW t \in Seq(W)
  PROVE  \E b : Skips(b, s, t, W) /\ (IsSubSequence(s, t) <=> b[Len(t)] = <<>>)
<1> DEFINE n == Len(t)
           V == Seq(W)
           Is(g) == g = [u \in SUBSET (1..n) |->
                            IF u = {} THEN s ELSE SkipStep(g[u \ {Max(u)}], t[Max(u)])]
           st == [x \in V \X (1..n) |-> SkipStep(x[1], t[x[2]])]
<1>1. n \in Nat /\ DOMAIN t = 1..n
  OBVIOUS
<1>2. \A b \in V, i \in 1..n : SkipStep(b, t[i]) \in V
  BY DEF SkipStep
<1>3. \A b \in V, i \in 1..n : st[<<b, i>>] = SkipStep(b, t[i])
  OBVIOUS
<1>4. Steps(st, V, n) /\ s \in V
  <2> HIDE DEF st
  <2> QED
    BY <1>2, <1>3 DEF Steps
<1> HIDE DEF st, V, n
<1>5. PICK g : OnSets(g, s, st, V, n)
  BY <1>1, <1>4, FoldExists
<1>6. Is(g)
  BY <1>3, <1>5 DEF OnSets
<1>7. PICK h : Is(h) /\ (IsSubSequence(s, t) <=> h[1..n] = <<>>)
  <2> DEFINE rest == FoldLeft(LAMBDA r, e : IF r # <<>> /\ r[1] = e THEN Tail(r) ELSE r,
                              s, t)
  <2>1. IsSubSequence(s, t) <=> rest = <<>>
    BY DEF IsSubSequence
  <2>2. \E h : Is(h) /\ rest = h[1..n]
    BY <1>1, <1>6 DEF FoldLeft, MapThenFoldSet, SkipStep
  <2> HIDE DEF rest, Is
  <2>3. QED
    BY <2>1, <2>2
<1>8. WhereValued(h, s, st, V, n)
  BY <1>3, <1>5, <1>7 DEF OnSets, WhereValued
<1>9. PICK b : Trace(b, s, st, V, n) /\ h[1..n] = b[n]
  BY <1>1, <1>4, <1>8, FoldSteps
<1>10. \A k \in 1..n : b[k] = SkipStep(b[k - 1], t[k])
  <2>1. \A k \in 1..n : k - 1 \in 0..n
    BY <1>1
  <2>2. QED
    BY <1>3, <1>9, <2>1 DEF Trace
<1>11. QED
  BY <1>7, <1>9, <1>10 DEF n, V, Trace, Skips

\* s is t without some of its elements: e says where each element of s is in t.
Embeds(e, s, t) ==
  /\ e \in [1..Len(s) -> 1..Len(t)]
  /\ \A i \in 1..Len(s) : s[i] = t[e[i]]
  /\ \A i, j \in 1..Len(s) : i < j => e[i] < e[j]

Thinned(s, t) == \E e : Embeds(e, s, t)

\* Looking for the first element, then for the next one, finds them all.
LEMMA SearchFinds ==
  ASSUME NEW W, NEW s \in Seq(W), NEW t \in Seq(W), Thinned(s, t)
  PROVE  IsSubSequence(s, t)
<1> DEFINE L == Len(s)
           n == Len(t)
<1>1. PICK e : Embeds(e, s, t)
  BY DEF Thinned
<1>2. PICK b : Skips(b, s, t, W) /\ (IsSubSequence(s, t) <=> b[Len(t)] = <<>>)
  BY SubSequenceUnfolds
<1>3. L \in Nat /\ n \in Nat
  OBVIOUS
<1>e. /\ \A i \in 1..L : e[i] \in 1..n /\ s[i] = t[e[i]]
      /\ \A i, j \in 1..L : i < j => e[i] < e[j]
  BY <1>1 DEF Embeds
<1>s. b[0] = s /\ \A k \in 1..n : b[k] = SkipStep(b[k - 1], t[k])
  BY <1>2 DEF Skips
<1>q. ASSUME NEW r \in 0..L
      PROVE  LET u == SubSeq(s, r + 1, L)
             IN  /\ r = L => u = <<>>
                 /\ r < L => u # <<>> /\ u[1] = s[r + 1] /\ Tail(u) = SubSeq(s, r + 2, L)
  <2>1. CASE r = L
    BY <2>1
  <2>2. CASE r < L
    <3> DEFINE u == SubSeq(s, r + 1, L)
               v == SubSeq(s, r + 2, L)
    <3>1. /\ u \in Seq(W) /\ Len(u) = L - r /\ \A i \in 1..L - r : u[i] = s[r + i]
          /\ v \in Seq(W) /\ Len(v) = L - r - 1
          /\ \A i \in 1..L - r - 1 : v[i] = s[r + 1 + i]
      <4>1. /\ r \in Nat /\ r + 1 \in Nat /\ r <= L /\ r + 1 <= L
            /\ (r + 1) + 1 = r + 2 /\ L - (r + 1) = L - r - 1
        BY <1>3, <2>2
      <4>2. ASSUME NEW a \in Nat, a <= L
            PROVE  /\ SubSeq(s, a + 1, L) \in Seq(W) /\ Len(SubSeq(s, a + 1, L)) = L - a
                   /\ \A i \in 1..L - a : SubSeq(s, a + 1, L)[i] = s[a + i]
        BY ONLY <1>3, <4>2, s \in Seq(W), Slice
      <4>3. PICK a : a = r + 1
        OBVIOUS
      <4>4. a \in Nat /\ a <= L /\ a + 1 = r + 2 /\ L - a = L - r - 1
        BY <4>1, <4>3
      <4>5. /\ u \in Seq(W) /\ Len(u) = L - r /\ \A i \in 1..L - r : u[i] = s[r + i]
        BY <4>1, <4>2
      <4>6. /\ v \in Seq(W) /\ Len(v) = L - a
            /\ \A i \in 1..L - a : v[i] = s[a + i]
        BY <4>2, <4>4
      <4>7. QED
        BY <4>3, <4>4, <4>5, <4>6
    <3> HIDE DEF u, v
    <3>2. u # <<>> /\ u[1] = s[r + 1]
      <4>1. 1 \in 1..L - r /\ Len(u) # 0
        BY <1>3, <2>2, <3>1
      <4>2. QED
        BY <3>1, <4>1
    <3>3. Tail(u) \in Seq(W) /\ Len(Tail(u)) = L - r - 1
          /\ \A i \in 1..L - r - 1 : Tail(u)[i] = u[i + 1]
      BY <3>1, <3>2
    <3>4. \A i \in 1..L - r - 1 : Tail(u)[i] = v[i]
      BY <3>1, <3>3
    <3>5. Tail(u) = v
      BY <3>1, <3>3, <3>4, SeqEqual
    <3>6. r # L
      BY <1>3, <2>2
    <3>7. QED
      BY ONLY <3>2, <3>5, <3>6, Zenon DEF u, v
  <2>3. QED
    BY <2>1, <2>2
<1> DEFINE Left(r, k) == /\ r \in 0..L
                         /\ b[k] = SubSeq(s, r + 1, L)
                         /\ \A i \in 1..L : e[i] <= k => i <= r
           T == {k \in Nat : k <= n => \E r : Left(r, k)}
<1>4. 0 \in T
  <2>1. Left(0, 0)
    BY <1>s, <1>e, <1>3
  <2>2. QED
    BY <2>1
<1> HIDE DEF L, n
<1>5. ASSUME NEW k \in Nat, k \in T PROVE k + 1 \in T
  <2> SUFFICES ASSUME k + 1 <= n PROVE \E r : Left(r, k + 1)
    <3> HIDE DEF Left
    <3> QED
      OBVIOUS
  <2>1. PICK r : Left(r, k)
    BY <1>3, <1>5
  <2>2. k + 1 \in 1..n /\ (k + 1) - 1 = k
    BY <1>3
  <2>3. b[k + 1] = SkipStep(b[k], t[k + 1])
    BY <1>s, <2>2
  <2>4. ASSUME NEW i \in 1..L, i > r PROVE e[i] > k /\ (i > r + 1 => e[i] > k + 1)
    <3>1. \A j \in 1..L : e[j] \in Int /\ (j > r => e[j] > k)
      BY <1>e, <1>3, <2>1
    <3>2. CASE i > r + 1
      <4>1. r + 1 \in 1..L /\ r + 1 < i /\ r + 1 > r
        BY <1>3, <2>1, <3>2
      <4>2. e[r + 1] < e[i] /\ e[r + 1] > k
        BY <1>e, <3>1, <4>1
      <4>3. QED
        BY <3>1, <4>1, <4>2
    <3>3. QED
      BY <2>4, <3>1, <3>2
  <2>5. CASE r < L /\ s[r + 1] = t[k + 1]
    <3>1. b[k + 1] = SubSeq(s, (r + 1) + 1, L)
      BY <1>3, <1>q, <2>1, <2>3, <2>5 DEF SkipStep
    <3>2. ASSUME NEW i \in 1..L, e[i] <= k + 1 PROVE i <= r + 1
      BY <1>e, <1>3, <2>1, <2>4, <3>2
    <3>3. r + 1 \in 0..L
      BY <1>3, <2>1, <2>5
    <3>4. Left(r + 1, k + 1)
      BY <3>1, <3>2, <3>3
    <3>5. QED
      BY <3>4
  <2>6. CASE ~(r < L /\ s[r + 1] = t[k + 1])
    <3>1. b[k + 1] = b[k]
      BY <1>3, <1>q, <2>1, <2>3, <2>6 DEF SkipStep
    <3>2. ASSUME NEW i \in 1..L, e[i] <= k + 1, i > r PROVE FALSE
      <4>1. i = r + 1 /\ r < L
        BY <1>e, <1>3, <2>1, <2>4, <3>2
      <4>2. e[i] = k + 1
        <5>1. e[i] \in Int /\ e[i] > k
          BY <1>e, <1>3, <2>4, <3>2
        <5>2. QED
          BY <3>2, <5>1
      <4>3. s[r + 1] = t[k + 1]
        BY <1>e, <4>1, <4>2
      <4>4. QED
        BY <2>6, <4>1, <4>3
    <3>3. Left(r, k + 1)
      BY <1>3, <2>1, <3>1, <3>2
    <3>4. QED
      BY <3>3
  <2>7. QED
    BY <2>5, <2>6
<1>6. n \in T
  <2> HIDE DEF T
  <2> QED
    BY <1>3, <1>4, <1>5, Induction
<1>7. PICK r : Left(r, n)
  BY <1>3, <1>6
<1>8. r = L
  <2>1. CASE L = 0
    BY <1>7, <2>1
  <2>2. CASE L > 0
    <3>1. L \in 1..L /\ e[L] <= n
      BY <1>e, <1>3, <2>2
    <3>2. QED
      BY <1>3, <1>7, <3>1
  <2>3. QED
    BY <1>3, <2>1, <2>2
<1>9. b[n] = <<>>
  BY <1>3, <1>7, <1>8, <1>q
<1>10. QED
  BY <1>2, <1>9 DEF n

\* s is the beginning of t.
Begins(s, t) == Len(s) <= Len(t) /\ \A i \in 1..Len(s) : t[i] = s[i]

\* w is b with the part p behind it.
PartBehind(w, b, p) ==
  LET q == Len(b)
      d == Len(p.data)
  IN  /\ Len(w) = q + 4 + d + 2 /\ d \in Nat
      /\ \A i \in 1..q : w[i] = b[i]
      /\ w[q + 1] = "crlf" /\ w[q + 2] = p.file
      /\ w[q + 3] = "crlf" /\ w[q + 4] = "crlf"
      /\ \A i \in 1..d : w[q + 4 + i] = p.data[i]
      /\ w[q + 4 + d + 1] = "crlf" /\ w[q + 4 + d + 2] = "delim"

\* What is where in a concatenation.
LEMMA Concatenates ==
  ASSUME NEW W, NEW s \in Seq(W), NEW t \in Seq(W)
  PROVE  /\ s \o t \in Seq(W) /\ Len(s \o t) = Len(s) + Len(t)
         /\ \A i \in 1..Len(s) : (s \o t)[i] = s[i]
         /\ \A i \in 1..Len(t) : (s \o t)[Len(s) + i] = t[i]
  OBVIOUS

\* What is where when a part has been put behind b.
LEMMA PartLayout ==
  ASSUME NEW b \in Seq(Unit), NEW p \in Part
  PROVE  PartBehind(WithPart(b, p), b, p)
<1> DEFINE h == <<"crlf", p.file, "crlf", "crlf">>
           u == b \o h
           v == u \o p.data
           w == v \o boundary
           q == Len(b)
           d == Len(p.data)
<1>1. h \in Seq(Unit) /\ boundary \in Seq(Unit) /\ p.data \in Seq(Unit)
  BY PartTypes DEF Unit, boundary
<1>2. q \in Nat /\ d \in Nat
  BY <1>1
<1>3. /\ u \in Seq(Unit) /\ Len(u) = q + 4
      /\ \A i \in 1..q : u[i] = b[i]
      /\ u[q + 1] = "crlf" /\ u[q + 2] = p.file /\ u[q + 3] = "crlf" /\ u[q + 4] = "crlf"
  BY <1>1
<1> HIDE DEF u
<1>4. /\ v \in Seq(Unit) /\ Len(v) = q + 4 + d
      /\ \A i \in 1..q + 4 : v[i] = u[i]
      /\ \A i \in 1..d : v[q + 4 + i] = p.data[i]
  <2> HIDE DEF q, h
  <2>1. /\ v \in Seq(Unit) /\ Len(v) = Len(u) + d
        /\ \A i \in 1..Len(u) : v[i] = u[i]
        /\ \A i \in 1..d : v[Len(u) + i] = p.data[i]
    <3>1. u \in Seq(Unit) /\ p.data \in Seq(Unit)
      BY <1>1, <1>3
    <3>2. QED
      BY ONLY <3>1, Concatenates DEF v, d
  <2> HIDE DEF v, d
  <2>2. QED
    BY <1>2, <1>3, <2>1
<1> HIDE DEF v
<1>5. /\ w \in Seq(Unit) /\ Len(w) = q + 4 + d + 2
      /\ \A i \in 1..q + 4 + d : w[i] = v[i]
      /\ w[q + 4 + d + 1] = "crlf" /\ w[q + 4 + d + 2] = "delim"
  <2>1. Len(boundary) = 2 /\ boundary[1] = "crlf" /\ boundary[2] = "delim"
    BY DEF boundary
  <2> HIDE DEF q, h, d
  <2>2. /\ w \in Seq(Unit) /\ Len(w) = Len(v) + Len(boundary)
        /\ \A i \in 1..Len(v) : w[i] = v[i]
        /\ \A i \in 1..Len(boundary) : w[Len(v) + i] = boundary[i]
    <3>1. v \in Seq(Unit) /\ boundary \in Seq(Unit)
      BY <1>1, <1>4
    <3>2. QED
      BY ONLY <3>1, Concatenates DEF w
  <2>3. w[Len(v) + 1] = "crlf" /\ w[Len(v) + 2] = "delim"
    BY <2>1, <2>2
  <2> HIDE DEF w
  <2>4. QED
    BY <1>2, <1>4, <2>1, <2>2, <2>3
<1>6. WithPart(b, p) = w
  BY DEF WithPart, w, v, u
<1> HIDE DEF w, q, d
<1>7. /\ \A i \in 1..q : i \in 1..q + 4 /\ i \in 1..q + 4 + d
      /\ \A i \in 1..d : q + 4 + i \in 1..q + 4 + d
      /\ \A i \in {1, 2, 3, 4} : q + i \in 1..q + 4 /\ q + i \in 1..q + 4 + d
  BY <1>2
<1>8. /\ \A i \in 1..q : w[i] = b[i]
      /\ w[q + 1] = "crlf" /\ w[q + 2] = p.file
      /\ w[q + 3] = "crlf" /\ w[q + 4] = "crlf"
      /\ \A i \in 1..d : w[q + 4 + i] = p.data[i]
  BY <1>3, <1>4, <1>5, <1>7
<1>9. QED
  BY <1>2, <1>5, <1>6, <1>8 DEF q, d, PartBehind

\* Where everything is in a body B that carries the parts ps: P[k] is the place of
\* the "delim" behind part k, and P[0] that of the first one.
Layout(P, ps, B) ==
  /\ B \in Seq(Unit) /\ P \in [0..Len(ps) -> Nat]
  /\ P[0] = 1 /\ B[1] = "delim"
  /\ Len(B) = P[Len(ps)] + 1 /\ B[Len(B)] = "end"
  /\ \A k \in 1..Len(ps) :
       /\ P[k] = P[k - 1] + 4 + Len(ps[k].data) + 2 /\ P[k] <= P[Len(ps)]
       /\ B[P[k - 1] + 1] = "crlf" /\ B[P[k - 1] + 2] = ps[k].file
       /\ B[P[k - 1] + 3] = "crlf" /\ B[P[k - 1] + 4] = "crlf"
       /\ \A i \in 1..Len(ps[k].data) : B[P[k - 1] + 4 + i] = ps[k].data[i]
       /\ B[P[k] - 1] = "crlf" /\ B[P[k]] = "delim"

\* What is where in Body.
LEMMA BodyLayout ==
  ASSUME NEW ps \in Seq(Part), ps = parts
  PROVE  \E P : Layout(P, ps, Body)
<1> DEFINE n == Len(ps)
<1>1. n \in Nat
  OBVIOUS
<1>2. PICK b : BodyTrace(b, ps) /\ Body = b[n] \o <<"end">>
  BY BodyUnfolds
<1> DEFINE P == [k \in 0..n |-> Len(b[k])]
           B == b[n] \o <<"end">>
<1> HIDE DEF n
<1>3. /\ \A k \in 0..n : b[k] \in Seq(Unit) /\ Len(b[k]) \in Nat
      /\ b[0] = <<"delim">>
      /\ \A k \in 1..n : b[k] = WithPart(b[k - 1], ps[k])
  BY <1>2 DEF BodyTrace, first_boundary, n
<1>4. ASSUME NEW k \in 1..n
      PROVE  /\ PartBehind(b[k], b[k - 1], ps[k])
             /\ Len(b[k - 1]) \in Nat /\ Len(b[k]) \in Nat
  <2>1. /\ b[k - 1] \in Seq(Unit) /\ ps[k] \in Part /\ b[k] \in Seq(Unit)
        /\ b[k] = WithPart(b[k - 1], ps[k])
    <3>1. k - 1 \in 0..n /\ k \in 0..n
      BY <1>1
    <3>2. QED
      BY <1>3, <3>1 DEF n
  <2>2. QED
    BY <2>1, PartLayout
<1>5. \A m \in 0..n : \A k \in 0..m : Begins(b[k], b[m])
  <2> DEFINE T == {m \in Nat : m <= n => \A k \in 0..m : Begins(b[k], b[m])}
  <2>1. 0 \in T
    BY <1>1, <1>3 DEF Begins
  <2>2. ASSUME NEW m \in Nat, m \in T PROVE m + 1 \in T
    <3> SUFFICES ASSUME m + 1 <= n, NEW k \in 0..m + 1 PROVE Begins(b[k], b[m + 1])
      OBVIOUS
    <3>1. m + 1 \in 1..n /\ (m + 1) - 1 = m /\ m \in 0..n /\ k \in 0..n
      BY <1>1
    <3>2. Begins(b[m], b[m + 1]) /\ Len(b[m]) \in Nat
      <4>1. PartBehind(b[m + 1], b[m], ps[m + 1]) /\ Len(b[m]) \in Nat
        BY <1>4, <3>1
      <4> DEFINE q == Len(b[m])
                 d == Len(ps[m + 1].data)
                 u == Len(b[m + 1])
      <4>2. q \in Nat /\ d \in Nat /\ u = q + 4 + d + 2
        BY <4>1 DEF PartBehind
      <4>3. \A i \in 1..q : b[m + 1][i] = b[m][i]
        BY <4>1 DEF PartBehind
      <4> HIDE DEF q, d, u
      <4>4. q <= u
        BY <4>2
      <4>5. QED
        BY <4>1, <4>3, <4>4 DEF Begins, q, u
    <3>3. CASE k = m + 1
      BY <1>3, <3>1, <3>3 DEF Begins
    <3>4. CASE k # m + 1
      <4>1. Begins(b[k], b[m])
        BY <2>2, <3>1, <3>4
      <4>2. QED
        BY <1>3, <3>1, <3>2, <4>1 DEF Begins
    <3>5. QED
      BY <3>3, <3>4
  <2>3. Nat \subseteq T
    <3> HIDE DEF T
    <3> QED
      BY <2>1, <2>2, Induction
  <2>4. QED
    BY <1>1, <2>3
<1>6. /\ B \in Seq(Unit) /\ Len(B) = Len(b[n]) + 1 /\ B[Len(B)] = "end"
      /\ \A i \in 1..Len(b[n]) : B[i] = b[n][i]
  <2>1. b[n] \in Seq(Unit) /\ <<"end">> \in Seq(Unit)
    BY <1>1, <1>3 DEF Unit
  <2>2. QED
    BY <2>1
<1> HIDE DEF B
<1>7. \A k \in 0..n : Len(b[k]) <= Len(b[n]) /\ \A i \in 1..Len(b[k]) : B[i] = b[k][i]
  <2>1. ASSUME NEW k \in 0..n
        PROVE  Len(b[k]) <= Len(b[n]) /\ \A i \in 1..Len(b[k]) : B[i] = b[k][i]
    <3>1. Begins(b[k], b[n]) /\ Len(b[k]) \in Nat /\ Len(b[n]) \in Nat
      BY <1>1, <1>3, <1>5
    <3>2. QED
      BY <1>6, <3>1 DEF Begins
  <2>2. QED
    BY <2>1
<1>8. ASSUME NEW k \in 1..n
      PROVE  LET q == Len(b[k - 1])
                 r == Len(b[k])
                 d == Len(ps[k].data)
             IN  /\ r = q + 4 + d + 2 /\ r <= Len(b[n])
                 /\ B[q + 1] = "crlf" /\ B[q + 2] = ps[k].file
                 /\ B[q + 3] = "crlf" /\ B[q + 4] = "crlf"
                 /\ \A i \in 1..d : B[q + 4 + i] = ps[k].data[i]
                 /\ B[r - 1] = "crlf" /\ B[r] = "delim"
  <2> DEFINE q == Len(b[k - 1])
             r == Len(b[k])
             d == Len(ps[k].data)
  <2>1. q \in Nat /\ d \in Nat /\ r = q + 4 + d + 2 /\ k \in 0..n
    <3>1. q \in Nat /\ PartBehind(b[k], b[k - 1], ps[k])
      BY <1>4
    <3>2. d \in Nat /\ r = q + 4 + d + 2
      BY <3>1 DEF PartBehind
    <3>3. QED
      BY <1>1, <3>1, <3>2
  <2>2. r <= Len(b[n]) /\ \A i \in 1..r : B[i] = b[k][i]
    BY <1>7, <2>1
  <2> HIDE DEF q, r, d
  <2>3. /\ q + 1 \in 1..r /\ q + 2 \in 1..r /\ q + 3 \in 1..r /\ q + 4 \in 1..r
        /\ r - 1 \in 1..r /\ r \in 1..r /\ r - 1 = q + 4 + d + 1
        /\ \A i \in 1..d : q + 4 + i \in 1..r
    BY <2>1
  <2>4. /\ b[k][q + 1] = "crlf" /\ b[k][q + 2] = ps[k].file
        /\ b[k][q + 3] = "crlf" /\ b[k][q + 4] = "crlf"
        /\ \A i \in 1..d : b[k][q + 4 + i] = ps[k].data[i]
        /\ b[k][q + 4 + d + 1] = "crlf" /\ b[k][q + 4 + d + 2] = "delim"
    BY <1>4 DEF q, d, PartBehind
  <2>5. /\ r = q + 4 + d + 2 /\ r <= Len(b[n])
        /\ B[q + 1] = "crlf" /\ B[q + 2] = ps[k].file
        /\ B[q + 3] = "crlf" /\ B[q + 4] = "crlf"
        /\ \A i \in 1..d : B[q + 4 + i] = ps[k].data[i]
        /\ B[r - 1] = "crlf" /\ B[r] = "delim"
    BY <2>1, <2>2, <2>3, <2>4
  <2>6. QED
    BY <2>5 DEF q, r, d
<1>9. /\ \A k \in 0..n : P[k] = Len(b[k])
      /\ \A k \in 1..n : P[k - 1] = Len(b[k - 1])
      /\ P \in [0..n -> Nat]
  BY <1>1, <1>3
<1> HIDE DEF P
<1>10. P[0] = 1 /\ B[1] = "delim" /\ Len(B) = P[n] + 1
  <2>1. 0 \in 0..n /\ n \in 0..n /\ Len(b[0]) = 1 /\ b[0][1] = "delim"
    BY <1>1, <1>3
  <2>2. 1 \in 1..Len(b[0])
    BY <2>1
  <2>3. B[1] = b[0][1]
    BY <1>7, <2>1, <2>2
  <2>4. QED
    BY <1>6, <1>9, <2>1, <2>3
<1>11. Layout(P, ps, B)
  <2>1. \A k \in 1..n :
           /\ P[k] = P[k - 1] + 4 + Len(ps[k].data) + 2 /\ P[k] <= P[n]
           /\ B[P[k - 1] + 1] = "crlf" /\ B[P[k - 1] + 2] = ps[k].file
           /\ B[P[k - 1] + 3] = "crlf" /\ B[P[k - 1] + 4] = "crlf"
           /\ \A i \in 1..Len(ps[k].data) : B[P[k - 1] + 4 + i] = ps[k].data[i]
           /\ B[P[k] - 1] = "crlf" /\ B[P[k]] = "delim"
    <3>1. n \in 0..n /\ \A k \in 1..n : k \in 0..n
      BY <1>1
    <3>2. ASSUME NEW k \in 1..n
          PROVE  /\ P[k] = Len(b[k]) /\ P[k - 1] = Len(b[k - 1]) /\ P[n] = Len(b[n])
      BY ONLY <1>9, <3>1, <3>2
    <3>3. QED
      BY ONLY <1>8, <3>2
  <2>2. QED
    BY <1>6, <1>9, <1>10, <2>1 DEF Layout, n
<1>12. QED
  BY <1>2, <1>11 DEF B

\* The boundary of a part is behind its header and its data.
LEMMA Ends ==
  ASSUME NEW ps \in Seq(Part), NEW B, NEW P, Layout(P, ps, B), NEW k \in 1..Len(ps)
  PROVE  /\ P[k - 1] \in Nat /\ P[k] \in Nat /\ Len(ps[k].data) \in Nat
         /\ P[k] = P[k - 1] + 4 + Len(ps[k].data) + 2
         /\ P[k - 1] >= 1 /\ P[k] < Len(B) /\ Len(B) \in Nat
         /\ \A i \in P[k - 1] + 1..P[k] - 1 : B[i] # "delim"
<1> DEFINE n == Len(ps)
           q == P[k - 1]
           d == Len(ps[k].data)
<1>1. n \in Nat /\ k - 1 \in 0..n /\ k \in 0..n /\ n \in 0..n
  OBVIOUS
<1>2. ps[k] \in Part
  OBVIOUS
<1>3. d \in Nat /\ \A i \in 1..d : ps[k].data[i] \in Data \cup {"crlf"}
  <2>1. ps[k].data \in Seq(Data \cup {"crlf"})
    BY <1>2, PartTypes
  <2>2. QED
    BY <2>1
<1>4. q \in Nat /\ P[k] \in Nat /\ P[n] \in Nat
  BY <1>1 DEF Layout
<1>5. /\ P[k] = q + 4 + d + 2 /\ P[k] <= P[n] /\ Len(B) = P[n] + 1
      /\ B[q + 1] = "crlf" /\ B[q + 2] = ps[k].file
      /\ B[q + 3] = "crlf" /\ B[q + 4] = "crlf"
      /\ \A i \in 1..d : B[q + 4 + i] = ps[k].data[i]
      /\ B[P[k] - 1] = "crlf"
  BY DEF Layout
<1>6. q >= 1
  <2>1. CASE k = 1
    BY <2>1 DEF Layout
  <2>2. CASE k # 1
    <3>1. k - 1 \in 1..n /\ (k - 1) - 1 \in 0..n
      BY <1>1, <2>2
    <3>2. P[(k - 1) - 1] \in Nat /\ Len(ps[k - 1].data) \in Nat
      <4>1. ps[k - 1] \in Part
        BY <3>1
      <4>2. ps[k - 1].data \in Seq(Unit)
        BY <4>1, PartTypes
      <4>3. P[(k - 1) - 1] \in Nat
        BY <3>1 DEF Layout
      <4>4. QED
        BY <4>2, <4>3
    <3>3. q = P[(k - 1) - 1] + 4 + Len(ps[k - 1].data) + 2
      BY <3>1 DEF Layout
    <3> HIDE DEF q
    <3>4. QED
      BY <3>2, <3>3
  <2>3. QED
    BY <2>1, <2>2
<1>7. ASSUME NEW i \in q + 1..P[k] - 1 PROVE B[i] # "delim"
  <2>1. ps[k].file \in File /\ "delim" \notin File /\ "delim" \notin Data
    BY <1>2, PartTypes, UnitAssumption
  <2> HIDE DEF q, d
  <2>2. i \in {q + 1, q + 2, q + 3, q + 4, P[k] - 1} \/ i - (q + 4) \in 1..d
    BY <1>3, <1>4, <1>5
  <2>3. CASE i - (q + 4) \in 1..d
    <3> DEFINE j == i - (q + 4)
    <3>1. i = q + 4 + j /\ j \in 1..d
      BY <1>4, <2>3
    <3> HIDE DEF j
    <3>2. B[i] \in Data \cup {"crlf"}
      BY <1>3, <1>5, <3>1
    <3>3. QED
      BY <2>1, <3>2
  <2>4. CASE i \in {q + 1, q + 2, q + 3, q + 4, P[k] - 1}
    BY <1>5, <2>1, <2>4
  <2>5. QED
    BY <2>2, <2>3, <2>4
<1> HIDE DEF n, q, d
<1>8. P[k] < Len(B) /\ Len(B) \in Nat
  BY <1>4, <1>5
<1>9. QED
  BY <1>3, <1>4, <1>5, <1>6, <1>7, <1>8 DEF q, d

-----------------------------------------------------------------------------
\* What find() finds: the first of the places.
LEMMA FindsFirst ==
  ASSUME NEW s, NEW t, NEW p \in Places(s, t), Len(s) \in Nat,
         \A j \in Places(s, t) : p <= j
  PROVE  Found(s, t) /\ Find(s, t) = p
<1>1. \A i \in Places(s, t) : i \in Int
  BY DEF Places
<1>2. \A i \in Places(s, t) : (\A j \in Places(s, t) : i <= j) <=> i = p
  BY <1>1
<1>3. Find(s, t) = p
  BY <1>2, Zenon DEF Find
<1>4. QED
  BY <1>3 DEF Found

\* IsPrefix, element by element.
LEMMA PrefixBegins ==
  ASSUME NEW W, NEW s \in Seq(W), NEW t \in Seq(W)
  PROVE  IsPrefix(s, t) <=> Begins(s, t)
<1>1. Len(s) \in Nat /\ Len(t) \in Nat
  OBVIOUS
<1>2. SubSeq(s, 1, Len(s)) = s
  OBVIOUS
<1>3. ASSUME Len(s) <= Len(t)
      PROVE  s = SubSeq(t, 1, Len(s)) <=> \A i \in 1..Len(s) : s[i] = t[i]
  <2> DEFINE u == SubSeq(t, 1, Len(s))
  <2>1. u \in Seq(W) /\ Len(u) = Len(s) /\ \A i \in 1..Len(s) : u[i] = t[i]
    BY <1>1, <1>3
  <2> HIDE DEF u
  <2>2. (\A i \in 1..Len(s) : s[i] = u[i]) => s = u
    BY <2>1, SeqEqual
  <2>3. s = u <=> \A i \in 1..Len(s) : s[i] = t[i]
    BY <2>1, <2>2
  <2>4. QED
    BY <2>3 DEF u
<1>4. QED
  BY <1>1, <1>2, <1>3 DEF IsPrefix, Begins

\* Where two units stand next to each other.
LEMMA PlacesOfTwo ==
  ASSUME NEW W, NEW s \in Seq(W), NEW x, NEW y
  PROVE  \A i : i \in Places(s, <<x, y>>) <=>
           i \in Nat /\ i + 2 <= Len(s) /\ s[i + 1] = x /\ s[i + 2] = y
<1>1. Len(<<x, y>>) = 2 /\ Len(s) \in Nat
  OBVIOUS
<1>2. ASSUME NEW i, i \in 0..Len(s), i + 2 <= Len(s)
      PROVE  SubSeq(s, i + 1, i + 2) = <<x, y>> <=> s[i + 1] = x /\ s[i + 2] = y
  <2> DEFINE u == SubSeq(s, i + 1, i + 2)
  <2>1. u \in Seq(W) /\ Len(u) = 2 /\ u[1] = s[i + 1] /\ u[2] = s[i + 2]
    <3>1. i \in Nat /\ i + 2 \in Nat /\ i <= i + 2 /\ i + 2 - i = 2
      BY <1>1, <1>2
    <3>2. /\ u \in Seq(W) /\ Len(u) = i + 2 - i
          /\ \A j \in 1..i + 2 - i : u[j] = s[i + j]
      BY <1>2, <3>1, Slice
    <3>3. 1 \in 1..2 /\ 2 \in 1..2
      OBVIOUS
    <3>4. QED
      BY <3>1, <3>2, <3>3
  <2> HIDE DEF u
  <2>2. u = <<u[1], u[2]>>
    BY <2>1
  <2>3. u = <<x, y>> => u[1] = x /\ u[2] = y
    OBVIOUS
  <2>4. u[1] = x /\ u[2] = y => u = <<x, y>>
    BY <2>2
  <2>5. u = <<x, y>> <=> s[i + 1] = x /\ s[i + 2] = y
    BY <2>1, <2>3, <2>4
  <2>6. QED
    BY <2>5 DEF u
<1>3. QED
  BY <1>1, <1>2 DEF Places

\* The buffer is a piece of the body.
PieceFacts(B, c, r, buf) ==
  /\ buf \in Seq(Unit) /\ Len(buf) = r - c
  /\ \A i \in 1..r - c : buf[i] = B[c + i]
  /\ buf = <<>> <=> c = r
  /\ \A m \in 0..r - c : /\ Erase(buf, m) = SubSeq(B, c + m + 1, r)
                        /\ SubSeq(buf, 1, m) = SubSeq(B, c + 1, c + m)
  /\ \A m \in r..Len(B) : buf \o SubSeq(B, r + 1, m) = SubSeq(B, c + 1, m)

\* The units of a piece, and what longer and shorter pieces are.
LEMMA Piece ==
  ASSUME NEW B \in Seq(Unit), NEW c \in Nat, NEW r \in Nat, c <= r, r <= Len(B),
         NEW buf, buf = SubSeq(B, c + 1, r)
  PROVE  PieceFacts(B, c, r, buf)
<1>1. Len(B) \in Nat
  OBVIOUS
<1>2. /\ buf \in Seq(Unit) /\ Len(buf) = r - c
      /\ \A i \in 1..r - c : buf[i] = B[c + i]
  BY Slice
<1>3. buf = <<>> <=> c = r
  BY <1>2
<1>4. ASSUME NEW m \in 0..r - c
      PROVE  /\ Erase(buf, m) = SubSeq(B, c + m + 1, r)
             /\ SubSeq(buf, 1, m) = SubSeq(B, c + 1, c + m)
  <2>1. PICK a, z : a = c + m /\ z = 0
    OBVIOUS
  <2>2. /\ m \in Nat /\ a \in Nat /\ z \in Nat /\ c <= a /\ a <= r /\ z <= m
        /\ m <= Len(buf) /\ Len(buf) \in Nat /\ a <= Len(B)
    BY <1>1, <1>2, <1>4, <2>1
  <2>3. /\ Len(buf) - m = r - a /\ a - c = m /\ m - z = m /\ z + 1 = 1
        /\ \A i \in 1..m : i \in 1..r - c /\ z + i = i
        /\ \A i \in 1..r - a : m + i \in 1..r - c /\ c + (m + i) = a + i
    BY <1>1, <1>2, <1>4, <2>1
  <2>4. PICK u, v, w, x : /\ u = SubSeq(buf, m + 1, Len(buf)) /\ v = SubSeq(B, a + 1, r)
                          /\ w = SubSeq(buf, z + 1, m) /\ x = SubSeq(B, c + 1, a)
    OBVIOUS
  <2>5. /\ u \in Seq(Unit) /\ Len(u) = Len(buf) - m
        /\ \A i \in 1..Len(buf) - m : u[i] = buf[m + i]
    BY ONLY <1>2, <2>2, <2>4, Slice
  <2>6. v \in Seq(Unit) /\ Len(v) = r - a /\ \A i \in 1..r - a : v[i] = B[a + i]
    BY ONLY <2>2, <2>4, B \in Seq(Unit), r \in Nat, r <= Len(B), Slice
  <2>7. w \in Seq(Unit) /\ Len(w) = m - z /\ \A i \in 1..m - z : w[i] = buf[z + i]
    BY ONLY <1>2, <2>2, <2>4, Slice
  <2>8. x \in Seq(Unit) /\ Len(x) = a - c /\ \A i \in 1..a - c : x[i] = B[c + i]
    BY ONLY <2>2, <2>4, B \in Seq(Unit), c \in Nat, Slice
  <2>9. u = v
    <3>1. ASSUME NEW i \in 1..r - a PROVE u[i] = v[i]
      <4>1. PICK k : k = m + i
        OBVIOUS
      <4>2. u[i] = buf[k] /\ k \in 1..r - c /\ c + k = a + i
        BY <2>3, <2>5, <4>1
      <4>3. buf[k] = B[c + k]
        BY <1>2, <4>2
      <4>4. v[i] = B[a + i]
        BY <2>6
      <4>5. QED
        BY ONLY <4>2, <4>3, <4>4
    <3>2. Len(u) = Len(v) /\ \A i \in 1..Len(u) : u[i] = v[i]
      BY ONLY <2>3, <2>5, <2>6, <3>1
    <3>3. QED
      BY ONLY <2>5, <2>6, <3>2, SeqEqual
  <2>10. w = x
    <3>1. ASSUME NEW i \in 1..m PROVE w[i] = x[i]
      <4>1. PICK k : k = z + i
        OBVIOUS
      <4>2. w[i] = buf[k] /\ k = i /\ i \in 1..r - c
        BY <2>3, <2>7, <4>1
      <4>3. QED
        BY <1>2, <2>3, <2>8, <4>2
    <3>2. Len(w) = Len(x) /\ \A i \in 1..Len(w) : w[i] = x[i]
      BY ONLY <2>3, <2>7, <2>8, <3>1
    <3>3. QED
      BY ONLY <2>7, <2>8, <3>2, SeqEqual
  <2>11. QED
    BY <2>1, <2>3, <2>4, <2>9, <2>10 DEF Erase
<1>5. ASSUME NEW m \in r..Len(B)
      PROVE  buf \o SubSeq(B, r + 1, m) = SubSeq(B, c + 1, m)
  BY <1>1, <1>5, ConcatAdjacentSubSeq
<1>6. QED
  BY <1>2, <1>3, <1>4, <1>5 DEF PieceFacts

\* In part k, or before the first boundary: the boundary found is that behind
\* part k, as soon as it has been read.
BoundaryFacts(P, k, c, r, buf) ==
  /\ Found(buf, boundary) <=> P[k] <= r
  /\ P[k] <= r => Find(buf, boundary) = P[k] - 2 - c

\* find(boundary) in such a buffer.
LEMMA BoundaryAhead ==
  ASSUME NEW ps \in Seq(Part), NEW B, NEW P, Layout(P, ps, B), NEW k \in 1..Len(ps),
         NEW c \in Nat, P[k - 1] - 1 <= c, c <= P[k] - 2,
         NEW r \in Nat, c <= r, r <= Len(B), NEW buf, buf = SubSeq(B, c + 1, r)
  PROVE  BoundaryFacts(P, k, c, r, buf)
<1> DEFINE q == P[k - 1]
           e == P[k]
<1>1. /\ q \in Nat /\ e \in Nat /\ e < Len(B) /\ Len(B) \in Nat
      /\ \A i \in q + 1..e - 1 : B[i] # "delim"
  BY Ends
<1>2. B \in Seq(Unit) /\ B[e - 1] = "crlf" /\ B[e] = "delim"
  BY DEF Layout
<1>3. /\ buf \in Seq(Unit) /\ Len(buf) = r - c
      /\ \A i \in 1..r - c : buf[i] = B[c + i]
  BY <1>2, Piece DEF PieceFacts
<1>4. \A i : i \in Places(buf, boundary) <=>
           i \in Nat /\ i + 2 <= Len(buf) /\ buf[i + 1] = "crlf" /\ buf[i + 2] = "delim"
  <2>1. boundary = <<"crlf", "delim">>
    BY DEF boundary
  <2>2. buf \in Seq(Unit)
    BY <1>3
  <2>3. QED
    BY ONLY <2>1, <2>2, PlacesOfTwo
<1> HIDE DEF q, e
<1>5. q - 1 <= c /\ c <= e - 2
  BY DEF q, e
<1>6. ASSUME NEW i \in Places(buf, boundary) PROVE i \in Nat /\ e <= r /\ e - 2 - c <= i
  <2>1. i \in Nat /\ i + 2 <= r - c /\ buf[i + 2] = "delim"
    BY <1>3, <1>4
  <2>2. B[c + (i + 2)] = "delim"
    BY <1>3, <2>1
  <2>3. c + (i + 2) \notin q + 1..e - 1
    BY <1>1, <2>2
  <2>4. c + (i + 2) >= e
    BY <1>1, <1>5, <2>1, <2>3
  <2>5. QED
    BY <1>1, <2>1, <2>4
<1>7. ASSUME e <= r PROVE e - 2 - c \in Places(buf, boundary)
  <2> DEFINE i == e - 2 - c
  <2>1. /\ i \in Nat /\ i + 2 <= r - c /\ i + 1 \in 1..r - c /\ i + 2 \in 1..r - c
        /\ c + (i + 1) = e - 1 /\ c + (i + 2) = e
    BY <1>1, <1>5, <1>7
  <2> HIDE DEF i
  <2>2. buf[i + 1] = "crlf" /\ buf[i + 2] = "delim"
    BY <1>2, <1>3, <2>1
  <2>3. QED
    BY <1>3, <1>4, <2>1, <2>2 DEF i
<1>8. Found(buf, boundary) <=> e <= r
  BY <1>6, <1>7 DEF Found
<1>9. ASSUME e <= r PROVE Find(buf, boundary) = e - 2 - c
  <2>1. Len(buf) \in Nat
    BY <1>3
  <2>2. QED
    BY <1>6, <1>7, <1>9, <2>1, FindsFirst
<1>10. QED
  BY <1>8, <1>9 DEF e, BoundaryFacts

\* Behind a boundary: the header of a part is found when it has been read.
HeaderFacts(ps, k, c, r, buf) ==
  /\ Found(buf, HeaderEnd) <=> c + 4 <= r
  /\ c + 4 <= r => Find(buf, HeaderEnd) = 2 /\ buf[2] = ps[k].file

\* find("\r\n\r\n") in such a buffer.
LEMMA HeaderAhead ==
  ASSUME NEW ps \in Seq(Part), NEW B, NEW P, Layout(P, ps, B), NEW k \in 1..Len(ps),
         NEW c \in Nat, c = P[k - 1],
         NEW r \in Nat, c <= r, r <= Len(B), NEW buf, buf = SubSeq(B, c + 1, r)
  PROVE  HeaderFacts(ps, k, c, r, buf)
<1>1. B \in Seq(Unit) /\ ps[k] \in Part /\ Len(B) \in Nat
  BY Ends DEF Layout
<1>2. /\ buf \in Seq(Unit) /\ Len(buf) = r - c
      /\ \A i \in 1..r - c : buf[i] = B[c + i]
  <2>1. PieceFacts(B, c, r, buf)
    BY <1>1, Piece
  <2>2. QED
    BY ONLY <2>1 DEF PieceFacts
<1>3. /\ B[c + 1] = "crlf" /\ B[c + 2] = ps[k].file
      /\ B[c + 3] = "crlf" /\ B[c + 4] = "crlf"
  BY DEF Layout
<1>4. ps[k].file # "crlf"
  BY <1>1, PartTypes, UnitAssumption
<1>5. \A i : i \in Places(buf, HeaderEnd) <=>
           i \in Nat /\ i + 2 <= Len(buf) /\ buf[i + 1] = "crlf" /\ buf[i + 2] = "crlf"
  <2>1. HeaderEnd = <<"crlf", "crlf">>
    BY DEF HeaderEnd
  <2>2. buf \in Seq(Unit)
    BY <1>2
  <2>3. QED
    BY ONLY <2>1, <2>2, PlacesOfTwo
<1>6. ASSUME NEW i \in Places(buf, HeaderEnd) PROVE i \in Nat /\ 2 <= i /\ c + 4 <= r
  <2>1. /\ i \in Nat /\ i + 2 <= r - c /\ buf[i + 1] = "crlf" /\ buf[i + 2] = "crlf"
    BY <1>2, <1>5
  <2>2. B[c + (i + 1)] = "crlf" /\ B[c + (i + 2)] = "crlf"
    <3>1. i + 1 \in 1..r - c /\ i + 2 \in 1..r - c
      BY <2>1
    <3>2. QED
      BY <1>2, <2>1, <3>1
  <2>3. i # 0 /\ i # 1
    <3>1. B[c + 2] # "crlf"
      BY <1>3, <1>4
    <3>2. c + (0 + 2) = c + 2 /\ c + (1 + 1) = c + 2
      OBVIOUS
    <3>3. QED
      BY <2>2, <3>1, <3>2
  <2>4. \A p, q, x \in Nat : x + 2 <= q - p /\ x # 0 /\ x # 1 => 2 <= x /\ p + 4 <= q
    OBVIOUS
  <2>5. QED
    BY <2>1, <2>3, <2>4
<1>7. ASSUME c + 4 <= r PROVE 2 \in Places(buf, HeaderEnd) /\ buf[2] = ps[k].file
  <2>1. buf[2] = B[c + 2] /\ buf[3] = B[c + 3] /\ buf[4] = B[c + 4] /\ 4 <= Len(buf)
    <3>1. 2 \in 1..r - c /\ 3 \in 1..r - c /\ 4 \in 1..r - c /\ 4 <= r - c
      BY <1>7
    <3>2. QED
      BY <1>2, <3>1
  <2>2. 2 \in Nat /\ 2 + 2 = 4 /\ 2 + 1 = 3
    OBVIOUS
  <2>3. buf[2 + 1] = "crlf" /\ buf[2 + 2] = "crlf"
    BY <1>3, <2>1, <2>2
  <2>4. QED
    BY <1>3, <1>5, <2>1, <2>2, <2>3
<1>8. Len(buf) \in Nat
  <2>1. buf \in Seq(Unit)
    BY <1>2
  <2>2. QED
    BY ONLY <2>1
<1>9. c + 4 <= r => Find(buf, HeaderEnd) = 2
  BY <1>6, <1>7, <1>8, FindsFirst
<1>10. QED
  BY <1>6, <1>7, <1>9 DEF Found, HeaderFacts

\* Behind the last boundary there is none.
LEMMA NoHeaderAhead ==
  ASSUME NEW ps \in Seq(Part), NEW B, NEW P, Layout(P, ps, B),
         NEW c \in Nat, c = P[Len(ps)],
         NEW r \in Nat, c <= r, r <= Len(B), NEW buf, buf = SubSeq(B, c + 1, r)
  PROVE  ~Found(buf, HeaderEnd)
<1>1. B \in Seq(Unit) /\ Len(B) = c + 1
  BY DEF Layout
<1>2. buf \in Seq(Unit) /\ Len(buf) <= 1
  <2>1. PieceFacts(B, c, r, buf)
    BY <1>1, Piece
  <2>2. buf \in Seq(Unit) /\ Len(buf) = r - c
    BY <2>1 DEF PieceFacts
  <2>3. r - c <= 1
    BY <1>1
  <2>4. QED
    BY ONLY <2>2, <2>3
<1>3. \A i : i \in Places(buf, HeaderEnd) => i \in Nat /\ i + 2 <= Len(buf)
  <2>1. HeaderEnd = <<"crlf", "crlf">>
    BY DEF HeaderEnd
  <2>2. buf \in Seq(Unit)
    BY <1>2
  <2>3. \A i : i \in Places(buf, <<"crlf", "crlf">>) =>
              i \in Nat /\ i + 2 <= Len(buf)
    BY ONLY <2>2, PlacesOfTwo
  <2>4. QED
    BY ONLY <2>1, <2>3
<1>4. Len(buf) \in Nat
  <2>1. buf \in Seq(Unit)
    BY <1>2
  <2>2. QED
    BY ONLY <2>1
<1>5. \A i \in Nat, l \in Nat : ~(l <= 1 /\ i + 2 <= l)
  OBVIOUS
<1>6. Places(buf, HeaderEnd) = {}
  BY <1>2, <1>3, <1>4, <1>5
<1>7. QED
  BY <1>6 DEF Found

\* The body begins with a boundary that has no line break before it.
LEMMA AtStart ==
  ASSUME NEW ps \in Seq(Part), NEW B, NEW P, Layout(P, ps, B),
         NEW r \in Nat, 1 <= r, r <= Len(B), NEW buf, buf = SubSeq(B, 1, r)
  PROVE  /\ IsPrefix(first_boundary, buf)
         /\ Len(ps) = 0 => ~Found(buf, boundary)
<1>1. B \in Seq(Unit) /\ B[1] = "delim"
  BY DEF Layout
<1>2. buf \in Seq(Unit) /\ Len(buf) = r /\ \A i \in 1..r : buf[i] = B[i]
  BY <1>1
<1>3. IsPrefix(first_boundary, buf)
  <2>1. first_boundary \in Seq(Unit) /\ Len(first_boundary) = 1 /\ first_boundary[1] = "delim"
    BY DEF first_boundary, Unit
  <2>2. \A i \in 1..1 : i = 1
    OBVIOUS
  <2>3. Begins(first_boundary, buf)
    BY <1>1, <1>2, <2>1, <2>2 DEF Begins
  <2>4. QED
    BY <1>2, <2>1, <2>3, PrefixBegins
<1>4. ASSUME Len(ps) = 0 PROVE ~Found(buf, boundary)
  <2>1. Len(B) = 2
    BY <1>4 DEF Layout
  <2>2. \A i : i \in Places(buf, boundary) =>
           i \in Nat /\ i + 2 <= Len(buf) /\ buf[i + 1] = "crlf"
    <3>1. boundary = <<"crlf", "delim">>
      BY DEF boundary
    <3>2. buf \in Seq(Unit)
      BY <1>2
    <3>3. QED
      BY ONLY <3>1, <3>2, PlacesOfTwo
  <2>3. QED
    BY <1>1, <1>2, <2>1, <2>2 DEF Found
<1>5. QED
  BY <1>3, <1>4

-----------------------------------------------------------------------------
(* Beginnings, and sequences with holes. *)
\* A beginning of a beginning is a beginning.
LEMMA BeginningOfBeginning ==
  ASSUME NEW s \in Seq(Unit), NEW t \in Seq(Unit), NEW u \in Seq(Unit),
         Begins(s, t), Begins(t, u)
  PROVE  Begins(s, u)
<1>1. Len(s) \in Nat /\ Len(t) \in Nat /\ Len(u) \in Nat
  OBVIOUS
<1>2. QED
  BY <1>1 DEF Begins

\* What is appended to leaves what was there.
LEMMA BeginsLonger ==
  ASSUME NEW s \in Seq(Unit), NEW t \in Seq(Unit)
  PROVE  s \o t \in Seq(Unit) /\ Begins(s, s \o t)
<1>1. Len(s) \in Nat /\ Len(t) \in Nat
  OBVIOUS
<1>2. QED
  BY <1>1, Concatenates DEF Begins

\* A sequence with holes of a beginning is one of the whole.
LEMMA ThinnedBeginning ==
  ASSUME NEW s \in Seq(Unit), NEW t \in Seq(Unit), NEW u \in Seq(Unit),
         Thinned(s, t), Begins(t, u)
  PROVE  Thinned(s, u)
<1>1. PICK e : Embeds(e, s, t)
  BY DEF Thinned
<1>2. Len(s) \in Nat /\ Len(t) \in Nat /\ Len(u) \in Nat
  OBVIOUS
<1>3. ASSUME NEW i \in 1..Len(s) PROVE e[i] \in 1..Len(u) /\ s[i] = u[e[i]]
  <2>1. e[i] \in 1..Len(t) /\ s[i] = t[e[i]]
    BY <1>1 DEF Embeds
  <2>2. u[e[i]] = t[e[i]] /\ Len(t) <= Len(u)
    BY <2>1 DEF Begins
  <2>3. QED
    BY <1>2, <2>1, <2>2
<1>4. Embeds(e, s, u)
  <2>1. e \in [1..Len(s) -> 1..Len(t)]
    BY <1>1 DEF Embeds
  <2>2. e \in [1..Len(s) -> 1..Len(u)]
    BY <1>3, <2>1
  <2>3. QED
    BY <1>1, <1>3, <2>2 DEF Embeds
<1>5. QED
  BY <1>4 DEF Thinned

\* The same is appended to both.
LEMMA ThinnedAlike ==
  ASSUME NEW s \in Seq(Unit), NEW t \in Seq(Unit), NEW u \in Seq(Unit), Thinned(s, t)
  PROVE  Thinned(s \o u, t \o u)
<1>1. PICK e : Embeds(e, s, t)
  BY DEF Thinned
<1> DEFINE l == Len(s)
           m == Len(t)
           d == Len(u)
           v == s \o u
           w == t \o u
           g == [i \in 1..l + d |-> IF i <= l THEN e[i] ELSE m + (i - l)]
<1>2. l \in Nat /\ m \in Nat /\ d \in Nat
  OBVIOUS
<1>3. /\ Len(v) = l + d /\ \A i \in 1..l : v[i] = s[i]
      /\ \A i \in 1..d : v[l + i] = u[i]
      /\ Len(w) = m + d /\ \A i \in 1..m : w[i] = t[i]
      /\ \A i \in 1..d : w[m + i] = u[i]
  BY Concatenates
<1>4. /\ \A i \in 1..l : e[i] \in 1..m /\ s[i] = t[e[i]]
      /\ \A i, j \in 1..l : i < j => e[i] < e[j]
  BY <1>1 DEF Embeds
<1>5. \A i \in 1..l + d : g[i] = IF i <= l THEN e[i] ELSE m + (i - l)
  OBVIOUS
<1>6. DOMAIN g = 1..l + d
  OBVIOUS
<1> HIDE DEF l, m, d, v, w, g
<1>7. ASSUME NEW i \in 1..l + d PROVE g[i] \in 1..m + d /\ v[i] = w[g[i]]
  <2>1. CASE i <= l
    <3>1. i \in 1..l
      BY <1>2, <2>1
    <3>2. g[i] = e[i] /\ e[i] \in 1..m /\ s[i] = t[e[i]]
      BY <1>4, <1>5, <2>1, <3>1
    <3>3. e[i] \in 1..m + d
      BY <1>2, <3>2
    <3>4. v[i] = s[i] /\ w[e[i]] = t[e[i]]
      BY <1>3, <3>1, <3>2
    <3>5. QED
      BY <3>2, <3>3, <3>4
  <2>2. CASE ~(i <= l)
    <3> DEFINE j == i - l
    <3>1. j \in 1..d /\ i = l + j /\ m + j \in 1..m + d
      BY <1>2, <2>2
    <3>2. g[i] = m + j
      BY <1>5, <2>2
    <3> HIDE DEF j
    <3>3. QED
      BY <1>3, <3>1, <3>2
  <2>3. QED
    BY <2>1, <2>2
<1>8. ASSUME NEW i \in 1..l + d, NEW j \in 1..l + d, i < j PROVE g[i] < g[j]
  <2>1. CASE j <= l
    <3>1. i \in 1..l /\ j \in 1..l
      BY <1>2, <1>8, <2>1
    <3>2. QED
      BY <1>2, <1>4, <1>5, <1>8, <2>1, <3>1
  <2>2. CASE ~(j <= l) /\ i <= l
    <3>1. i \in 1..l /\ g[i] = e[i] /\ g[j] = m + (j - l)
      BY <1>2, <1>5, <2>2
    <3>2. e[i] \in 1..m
      BY <1>4, <3>1
    <3>3. QED
      BY <1>2, <2>2, <3>1, <3>2
  <2>3. CASE ~(i <= l)
    BY <1>2, <1>5, <1>8, <2>3
  <2>4. QED
    BY <2>1, <2>2, <2>3
<1>9. g \in [1..l + d -> 1..m + d]
  BY <1>6, <1>7, <1>5 DEF g
<1>10. Embeds(g, v, w)
  BY <1>3, <1>7, <1>8, <1>9 DEF Embeds
<1>11. QED
  BY <1>10 DEF Thinned, v, w

-----------------------------------------------------------------------------
(* The files d and the tasks that wait, when D has been handed to the pool: H *)
(* is what the files hold if none is lost, after each of the tasks.           *)
After(a, x) == [a EXCEPT ![x.path] = @ \o x.data]

Queued(H, d, pend, D, lost) ==
  /\ H \in [0..Len(pend) -> [File -> Seq(Unit)]]
  /\ H[Len(pend)] = D
  /\ \A i \in 1..Len(pend) : H[i] = After(H[i - 1], pend[i])
  /\ \A i \in 0..Len(pend), f \in File : Begins(H[i][f], D[f])
  /\ \A f \in File : Thinned(d[f], H[0][f])
  /\ ~lost => d = H[0]

Handed(d, pend, D, lost) == \E H : Queued(H, d, pend, D, lost)

\* Nothing has been handed over and the files are empty.
LEMMA NoneHanded ==
  ASSUME NEW d, d = [f \in File |-> <<>>]
  PROVE  Handed(d, <<>>, d, FALSE)
<1> DEFINE H == [i \in 0..0 |-> d]
<1>1. d \in [File -> Seq(Unit)] /\ \A f \in File : d[f] = <<>>
  OBVIOUS
<1>2. Embeds(<<>>, <<>>, <<>>)
  BY DEF Embeds
<1>3. Thinned(<<>>, <<>>)
  BY <1>2 DEF Thinned
<1>4. Begins(<<>>, <<>>)
  BY DEF Begins
<1>5. H \in [0..0 -> [File -> Seq(Unit)]] /\ \A i \in 0..0 : H[i] = d
  BY <1>1
<1> HIDE DEF H
<1>6. Len(<<>>) = 0 /\ 0 \in 0..0 /\ 1..0 = {}
  OBVIOUS
<1>7. Queued(H, d, <<>>, d, FALSE)
  BY <1>1, <1>3, <1>4, <1>5, <1>6 DEF Queued
<1>8. QED
  BY <1>7 DEF Handed

\* What a task does to the files.
LEMMA AfterTypes ==
  ASSUME NEW a \in [File -> Seq(Unit)], NEW x \in IOTask
  PROVE  /\ After(a, x) \in [File -> Seq(Unit)]
         /\ \A f \in File : Begins(a[f], After(a, x)[f])
         /\ \A f \in File : After(a, x)[f] = IF f = x.path THEN a[f] \o x.data ELSE a[f]
<1>1. x.path \in File /\ x.data \in Seq(Unit)
  BY DEF IOTask
<1>2. \A f \in File : a[f] \in Seq(Unit) /\ a[f] \o x.data \in Seq(Unit)
  BY <1>1
<1>3. \A f \in File : After(a, x)[f] = IF f = x.path THEN a[f] \o x.data ELSE a[f]
  BY <1>1 DEF After
<1>4. After(a, x) \in [File -> Seq(Unit)]
  BY <1>1, <1>2 DEF After
<1>5. ASSUME NEW f \in File PROVE Begins(a[f], After(a, x)[f])
  <2>1. Begins(a[f], a[f])
    BY <1>2 DEF Begins
  <2>2. Begins(a[f], a[f] \o x.data)
    BY <1>1, <1>2, BeginsLonger
  <2>3. QED
    BY <1>3, <2>1, <2>2
<1>6. QED
  BY <1>3, <1>4, <1>5

\* One more task is handed over.
LEMMA HandsOver ==
  ASSUME NEW d, NEW pend \in Seq(IOTask), NEW D, NEW lost, Handed(d, pend, D, lost),
         NEW x \in IOTask
  PROVE  Handed(d, Append(pend, x), After(D, x), lost)
<1>1. PICK H : Queued(H, d, pend, D, lost)
  BY DEF Handed
<1> DEFINE n == Len(pend)
           q == Append(pend, x)
           E == After(D, x)
           G == [i \in 0..n + 1 |-> IF i = n + 1 THEN E ELSE H[i]]
<1>2. n \in Nat
  OBVIOUS
<1>3. Len(q) = n + 1 /\ q[n + 1] = x /\ \A i \in 1..n : q[i] = pend[i]
  OBVIOUS
<1>4. \A i \in 0..n : H[i] \in [File -> Seq(Unit)]
  BY <1>1 DEF Queued
<1>5. D = H[n] /\ D \in [File -> Seq(Unit)]
  BY <1>1, <1>2, <1>4 DEF Queued
<1>6. E \in [File -> Seq(Unit)] /\ \A f \in File : Begins(D[f], E[f])
  BY <1>5, AfterTypes
<1> HIDE DEF q, E
<1>7. G \in [0..n + 1 -> [File -> Seq(Unit)]]
  BY <1>2, <1>4, <1>6
<1>8. G[n + 1] = E /\ \A i \in 0..n : G[i] = H[i]
  BY <1>2
<1> HIDE DEF G
<1>9. ASSUME NEW i \in 1..n + 1 PROVE G[i] = After(G[i - 1], q[i])
  <2>1. CASE i = n + 1
    <3>1. i - 1 = n /\ n \in 0..n
      BY <1>2, <2>1
    <3>2. QED
      BY <1>3, <1>5, <1>8, <2>1, <3>1 DEF E
  <2>2. CASE i # n + 1
    <3>1. i \in 1..n /\ i \in 0..n /\ i - 1 \in 0..n
      BY <1>2, <2>2
    <3>2. H[i] = After(H[i - 1], pend[i])
      BY <1>1, <3>1 DEF Queued
    <3>3. QED
      BY <1>3, <1>8, <3>1, <3>2
  <2>3. QED
    BY <2>1, <2>2
<1>10. ASSUME NEW i \in 0..n + 1, NEW f \in File PROVE Begins(G[i][f], E[f])
  <2>1. CASE i = n + 1
    <3>1. E[f] \in Seq(Unit)
      BY <1>6
    <3>2. Begins(E[f], E[f])
      BY <3>1 DEF Begins
    <3>3. QED
      BY <1>8, <2>1, <3>2
  <2>2. CASE i # n + 1
    <3>1. i \in 0..n
      BY <1>2, <2>2
    <3>2. Begins(H[i][f], D[f])
      BY <1>1, <3>1 DEF Queued
    <3>3. H[i][f] \in Seq(Unit) /\ D[f] \in Seq(Unit) /\ E[f] \in Seq(Unit)
      BY <1>4, <1>5, <1>6, <3>1
    <3>4. Begins(D[f], E[f])
      BY <1>6
    <3>5. QED
      BY <1>8, <3>1, <3>2, <3>3, <3>4, BeginningOfBeginning
  <2>3. QED
    BY <2>1, <2>2
<1>11. G[0] = H[0]
  BY <1>2, <1>8
<1>12. (\A f \in File : Thinned(d[f], H[0][f])) /\ (~lost => d = H[0])
  BY <1>1 DEF Queued
<1>13. Queued(G, d, q, E, lost)
  BY <1>3, <1>7, <1>8, <1>9, <1>10, <1>11, <1>12 DEF Queued
<1>14. QED
  BY <1>13 DEF Handed, q, E

\* The first task leaves the queue: one place less.
Shifted(G, H, pend, D, x) ==
  /\ G \in [0..Len(pend) -> [File -> Seq(Unit)]]
  /\ G[Len(pend)] = D
  /\ \A i \in 1..Len(pend) : G[i] = After(G[i - 1], pend[i])
  /\ \A i \in 0..Len(pend), f \in File : Begins(G[i][f], D[f])
  /\ H[0] \in [File -> Seq(Unit)] /\ G[0] = After(H[0], x)

\* The queue behind its first task is in order.
LEMMA HeadLeaves ==
  ASSUME NEW pend \in Seq(IOTask), NEW x \in IOTask, NEW q, q = <<x>> \o pend,
         NEW H, NEW d, NEW D, NEW lost, Queued(H, d, q, D, lost)
  PROVE  \E G : Shifted(G, H, pend, D, x)
<1> DEFINE n == Len(pend)
           G == [i \in 0..n |-> H[i + 1]]
<1>1. n \in Nat
  OBVIOUS
<1>2. Len(q) = n + 1 /\ q[1] = x /\ \A i \in 1..n : q[i + 1] = pend[i]
  OBVIOUS
<1>3. \A i \in 0..n : G[i] = H[i + 1]
  OBVIOUS
<1>4. \A i \in 0..n : i + 1 \in 0..n + 1 /\ i + 1 \in 1..n + 1
  BY <1>1
<1>5. G \in [0..n -> [File -> Seq(Unit)]]
  BY <1>2, <1>4 DEF Queued
<1> HIDE DEF n, G
<1>6. G[n] = D
  BY <1>1, <1>2, <1>3 DEF Queued
<1>7. ASSUME NEW i \in 1..n PROVE G[i] = After(G[i - 1], pend[i])
  <2>1. i \in 0..n /\ i - 1 \in 0..n /\ (i - 1) + 1 = i /\ i + 1 \in 1..n + 1 /\ (i + 1) - 1 = i
    BY <1>1
  <2>2. H[i + 1] = After(H[i], q[i + 1])
    <3>1. H[i + 1] = After(H[(i + 1) - 1], q[i + 1])
      BY <1>2, <2>1 DEF Queued
    <3>2. QED
      BY <2>1, <3>1
  <2>3. QED
    BY <1>2, <1>3, <2>1, <2>2
<1>8. \A i \in 0..n, f \in File : Begins(G[i][f], D[f])
  BY <1>2, <1>3, <1>4 DEF Queued
<1>9. H[0] \in [File -> Seq(Unit)] /\ G[0] = After(H[0], x)
  <2>1. 0 \in 0..n + 1 /\ 1 \in 1..n + 1 /\ 1 - 1 = 0 /\ 0 \in 0..n /\ 0 + 1 = 1
    BY <1>1
  <2>2. H[1] = After(H[1 - 1], q[1])
    BY <1>2, <2>1 DEF Queued
  <2>3. H[0] \in [File -> Seq(Unit)]
    BY <1>2, <2>1 DEF Queued
  <2>4. QED
    BY <1>2, <1>3, <2>1, <2>2, <2>3
<1>10. QED
  BY <1>5, <1>6, <1>7, <1>8, <1>9 DEF n, Shifted

\* The first task is executed: it waits no longer, and its data is in the file.
LEMMA HeadIsWritten ==
  ASSUME NEW pend \in Seq(IOTask), NEW x \in IOTask, NEW q, q = <<x>> \o pend,
         NEW d \in [File -> Seq(Unit)], NEW D, NEW lost, Handed(d, q, D, lost)
  PROVE  Handed(After(d, x), pend, D, lost)
<1>1. PICK H : Queued(H, d, q, D, lost)
  BY DEF Handed
<1>2. PICK G : Shifted(G, H, pend, D, x)
  BY <1>1, HeadLeaves
<1>g. /\ G[0] \in [File -> Seq(Unit)] /\ \A f \in File : Begins(G[0][f], D[f])
      /\ H[0] \in [File -> Seq(Unit)] /\ G[0] = After(H[0], x)
  BY <1>2 DEF Shifted
<1>3. (\A f \in File : Thinned(d[f], H[0][f])) /\ (~lost => d = H[0])
  BY <1>1 DEF Queued
<1>4. x.data \in Seq(Unit)
  BY DEF IOTask
<1>5. ASSUME NEW f \in File PROVE Thinned(After(d, x)[f], G[0][f])
  <2>1. Thinned(d[f], H[0][f])
    BY <1>3
  <2>2. d[f] \in Seq(Unit) /\ H[0][f] \in Seq(Unit)
    BY <1>g
  <2>3. Thinned(d[f] \o x.data, H[0][f] \o x.data)
    BY <1>4, <2>1, <2>2, ThinnedAlike
  <2>4. After(d, x)[f] = IF f = x.path THEN d[f] \o x.data ELSE d[f]
    BY AfterTypes
  <2>5. G[0][f] = IF f = x.path THEN H[0][f] \o x.data ELSE H[0][f]
    <3> DEFINE h == H[0]
    <3>1. h \in [File -> Seq(Unit)] /\ G[0] = After(h, x)
      BY <1>g
    <3> HIDE DEF h
    <3>2. After(h, x)[f] = IF f = x.path THEN h[f] \o x.data ELSE h[f]
      BY <3>1, AfterTypes
    <3>3. QED
      BY <3>1, <3>2 DEF h
  <2>6. QED
    BY <2>1, <2>3, <2>4, <2>5
<1>6. ~lost => After(d, x) = G[0]
  BY <1>g, <1>3
<1>7. Queued(G, After(d, x), pend, D, lost)
  BY <1>2, <1>5, <1>6 DEF Queued, Shifted
<1>8. QED
  BY <1>7 DEF Handed

\* The first task fails: from now on there are holes.
LEMMA HeadIsDropped ==
  ASSUME NEW pend \in Seq(IOTask), NEW x \in IOTask, NEW q, q = <<x>> \o pend,
         NEW d \in [File -> Seq(Unit)], NEW D, NEW lost, Handed(d, q, D, lost)
  PROVE  Handed(d, pend, D, TRUE)
<1>1. PICK H : Queued(H, d, q, D, lost)
  BY DEF Handed
<1>2. PICK G : Shifted(G, H, pend, D, x)
  BY <1>1, HeadLeaves
<1>g. /\ G[0] \in [File -> Seq(Unit)] /\ \A f \in File : Begins(G[0][f], D[f])
      /\ H[0] \in [File -> Seq(Unit)] /\ G[0] = After(H[0], x)
  BY <1>2 DEF Shifted
<1>3. ASSUME NEW f \in File PROVE Thinned(d[f], G[0][f])
  <2>1. Thinned(d[f], H[0][f])
    BY <1>1 DEF Queued
  <2>2. Begins(H[0][f], G[0][f]) /\ G[0][f] \in Seq(Unit)
    BY <1>g, AfterTypes
  <2>3. d[f] \in Seq(Unit) /\ H[0][f] \in Seq(Unit)
    BY <1>g
  <2>4. QED
    BY <2>1, <2>2, <2>3, ThinnedBeginning
<1>4. Queued(G, d, pend, D, TRUE)
  BY <1>2, <1>3 DEF Queued, Shifted
<1>5. QED
  BY <1>4 DEF Handed

\* The files are, but for the tasks that wait and the holes, what was handed over.
LEMMA HandedFiles ==
  ASSUME NEW d \in [File -> Seq(Unit)], NEW pend \in Seq(IOTask), NEW D, NEW lost,
         Handed(d, pend, D, lost)
  PROVE  /\ D \in [File -> Seq(Unit)]
         /\ \A f \in File : Thinned(d[f], D[f]) /\ (~lost => Begins(d[f], D[f]))
         /\ pend = <<>> /\ ~lost => d = D
<1>1. PICK H : Queued(H, d, pend, D, lost)
  BY DEF Handed
<1>2. 0 \in 0..Len(pend) /\ Len(pend) \in 0..Len(pend)
  OBVIOUS
<1>3. H[0] \in [File -> Seq(Unit)] /\ D \in [File -> Seq(Unit)]
  BY <1>1, <1>2 DEF Queued
<1>4. ASSUME NEW f \in File PROVE Thinned(d[f], D[f]) /\ (~lost => Begins(d[f], D[f]))
  <2>1. Thinned(d[f], H[0][f]) /\ Begins(H[0][f], D[f]) /\ (~lost => d = H[0])
    BY <1>1, <1>2 DEF Queued
  <2>2. d[f] \in Seq(Unit) /\ H[0][f] \in Seq(Unit) /\ D[f] \in Seq(Unit)
    BY <1>3
  <2>3. Thinned(d[f], D[f])
    BY <2>1, <2>2, ThinnedBeginning
  <2>4. QED
    BY <2>1, <2>3
<1>5. pend = <<>> /\ ~lost => d = D
  BY <1>1 DEF Queued
<1>6. QED
  BY <1>3, <1>4, <1>5

-----------------------------------------------------------------------------
\* ps is sent as B, its boundaries end at P; S has what is sent for each file.
Laid(ps, B, P, S) ==
  /\ ps \in Seq(Part)
  /\ Layout(P, ps, B)
  /\ \A f \in File : SentTrace(S[f], ps, f)

\* Body is such a B.
LEMMA BodyLaid ==
  ASSUME NEW ps \in Seq(Part), ps = parts
  PROVE  \E P, S : Laid(ps, Body, P, S) /\ \A f \in File : Sent(f) = S[f][Len(ps)]
<1>1. PICK P : Layout(P, ps, Body)
  BY BodyLayout
<1> DEFINE Is(b, f) == SentTrace(b, ps, f) /\ Sent(f) = b[Len(ps)]
           S == [f \in File |-> CHOOSE b : Is(b, f)]
<1>2. ASSUME NEW f \in File PROVE Is(S[f], f)
  <2>1. \E b : Is(b, f)
    BY SentUnfolds
  <2> HIDE DEF Is
  <2>2. QED
    BY <2>1
<1>3. \A f \in File : SentTrace(S[f], ps, f) /\ Sent(f) = S[f][Len(ps)]
  BY <1>2
<1> HIDE DEF S
<1>4. Laid(ps, Body, P, S)
  BY <1>1, <1>3 DEF Laid
<1>5. QED
  BY <1>3, <1>4

\* What is sent for a file grows part by part.
LEMMA SentGrows ==
  ASSUME NEW ps \in Seq(Part), NEW b, NEW f, SentTrace(b, ps, f)
  PROVE  /\ \A k \in 0..Len(ps) : b[k] \in Seq(Unit) /\ Begins(b[k], b[Len(ps)])
         /\ \A k \in 1..Len(ps) : b[k] = SentStep(b[k - 1], ps[k], f)
<1> DEFINE n == Len(ps)
           T == {m \in Nat : m <= n => \A k \in 0..m : Begins(b[k], b[m])}
<1>1. n \in Nat
  OBVIOUS
<1>2. \A k \in 0..n : b[k] \in Seq(Unit) /\ Begins(b[k], b[k])
  <2>1. \A k \in 0..n : b[k] \in Seq(Unit)
    BY DEF SentTrace
  <2>2. \A s \in Seq(Unit) : Begins(s, s)
    BY DEF Begins
  <2>3. QED
    BY <2>1, <2>2
<1>3. \A k \in 1..n : b[k] = SentStep(b[k - 1], ps[k], f)
  BY DEF SentTrace
<1>4. 0 \in T
  BY <1>1, <1>2
<1>5. ASSUME NEW m \in Nat, m \in T PROVE m + 1 \in T
  <2> SUFFICES ASSUME m + 1 <= n, NEW k \in 0..m + 1 PROVE Begins(b[k], b[m + 1])
    OBVIOUS
  <2>1. m + 1 \in 1..n /\ (m + 1) - 1 = m /\ m \in 0..n /\ k \in 0..n /\ m + 1 \in 0..n
    BY <1>1
  <2>2. CASE k = m + 1
    BY <1>2, <2>1, <2>2
  <2>3. CASE k # m + 1
    <3>1. Begins(b[k], b[m])
      BY <1>5, <2>1, <2>3
    <3>2. b[k] \in Seq(Unit) /\ b[m] \in Seq(Unit) /\ b[m + 1] \in Seq(Unit)
      BY <1>2, <2>1
    <3>3. Begins(b[m], b[m + 1])
      <4>1. b[m + 1] = SentStep(b[m], ps[m + 1], f)
        BY <1>3, <2>1
      <4>2. ps[m + 1] \in Part
        BY <2>1
      <4>3. ps[m + 1].data \in Seq(Unit) /\ <<>> \in Seq(Unit)
        BY <4>2, PartTypes
      <4> DEFINE e == IF ps[m + 1].file = f THEN ps[m + 1].data ELSE <<>>
      <4>4. b[m + 1] = b[m] \o e
        BY <4>1 DEF SentStep
      <4>5. e \in Seq(Unit)
        BY <4>3
      <4> HIDE DEF e
      <4>6. QED
        BY <3>2, <4>4, <4>5, BeginsLonger
    <3>4. QED
      BY <3>1, <3>2, <3>3, BeginningOfBeginning
  <2>4. QED
    BY <2>2, <2>3
<1>6. Nat \subseteq T
  <2> HIDE DEF T
  <2> QED
    BY <1>4, <1>5, Induction
<1>7. \A k \in 0..n : Begins(b[k], b[n])
  BY <1>1, <1>6
<1>8. QED
  BY <1>2, <1>3, <1>7

\* The data of part k, in the body, as far as c.
DataUpTo(B, P, k, c) == SubSeq(B, P[k - 1] + 5, c)

DataFacts(ps, B, P, k, c) ==
  /\ DataUpTo(B, P, k, c) \in Seq(Unit)
  /\ Begins(DataUpTo(B, P, k, c), ps[k].data)
  /\ ps[k].data \in Seq(Unit) /\ ps[k].file \in File
  /\ c = P[k - 1] + 4 => DataUpTo(B, P, k, c) = <<>>
  /\ c = P[k] - 2 => DataUpTo(B, P, k, c) = ps[k].data
  /\ \A m \in c..P[k] - 2 :
       /\ SubSeq(B, c + 1, m) \in Seq(Unit)
       /\ DataUpTo(B, P, k, c) \o SubSeq(B, c + 1, m) = DataUpTo(B, P, k, m)

\* The data of a part, piece by piece.
LEMMA DataOfPart ==
  ASSUME NEW ps \in Seq(Part), NEW B, NEW P, Layout(P, ps, B), NEW k \in 1..Len(ps),
         NEW c \in P[k - 1] + 4..P[k] - 2
  PROVE  DataFacts(ps, B, P, k, c)
<1> DEFINE q == P[k - 1]
           e == P[k]
           d == Len(ps[k].data)
           s == SubSeq(B, q + 5, c)
<1>1. /\ q \in Nat /\ e \in Nat /\ d \in Nat /\ e = q + 4 + d + 2
      /\ e < Len(B) /\ Len(B) \in Nat
  BY Ends
<1>2. B \in Seq(Unit) /\ \A i \in 1..d : B[q + 4 + i] = ps[k].data[i]
  BY DEF Layout
<1>3. ps[k] \in Part
  OBVIOUS
<1>4. ps[k].data \in Seq(Unit) /\ ps[k].file \in File
  BY <1>3, PartTypes
<1> HIDE DEF q, e
<1>5. c \in Nat /\ q + 4 <= c /\ c <= e - 2 /\ c <= Len(B)
  BY <1>1 DEF q, e
<1>6. /\ s \in Seq(Unit) /\ Len(s) = c - (q + 4)
      /\ \A i \in 1..c - (q + 4) : s[i] = B[q + 4 + i]
  <2>1. \A a \in Nat : 1 <= a => /\ SubSeq(B, a + 1, c) \in Seq(Unit)
                               /\ (a <= c => Len(SubSeq(B, a + 1, c)) = c - a)
                               /\ \A i \in 1..c - a : SubSeq(B, a + 1, c)[i] = B[a + i]
    BY <1>1, <1>2, <1>5
  <2>2. q + 4 \in Nat /\ 1 <= q + 4 /\ (q + 4) + 1 = q + 5
    BY <1>1
  <2>3. QED
    BY <1>5, <2>1, <2>2
<1> HIDE DEF d, s
<1>7. c - (q + 4) <= d
  BY <1>1, <1>5
<1>8. \A i \in 1..c - (q + 4) : s[i] = ps[k].data[i]
  BY <1>1, <1>2, <1>5, <1>6, <1>7
<1>9. Begins(s, ps[k].data)
  BY <1>6, <1>7, <1>8 DEF Begins, d
<1>10. c = q + 4 => s = <<>>
  BY <1>1, <1>6
<1>11. ASSUME c = e - 2 PROVE s = ps[k].data
  <2>1. Len(s) = Len(ps[k].data)
    BY <1>1, <1>6, <1>11 DEF d
  <2>2. QED
    BY <1>4, <1>6, <1>8, <2>1, SeqEqual
<1>12. ASSUME NEW m \in c..e - 2
       PROVE  /\ SubSeq(B, c + 1, m) \in Seq(Unit)
              /\ s \o SubSeq(B, c + 1, m) = SubSeq(B, q + 5, m)
  <2>1. m \in Nat /\ c <= m /\ m <= Len(B) /\ c + 1 \in Nat /\ q + 5 \in Nat
    BY <1>1, <1>5, <1>12
  <2>2. SubSeq(B, c + 1, m) \in Seq(Unit)
    BY <1>1, <1>2, <1>5, <2>1
  <2>3. SubSeq(B, q + 5, c) \o SubSeq(B, c + 1, m) = SubSeq(B, q + 5, m)
    BY <1>1, <1>2, <1>5, <2>1, ConcatAdjacentSubSeq
  <2>4. QED
    BY <2>2, <2>3 DEF s
<1>13. QED
  BY <1>4, <1>6, <1>9, <1>10, <1>11, <1>12 DEF q, e, s, DataUpTo, DataFacts

-----------------------------------------------------------------------------
\* What has been handed to the pool when the processor is in state st behind the
\* boundary of part k, or in part k with all units up to c.
Delivered(D, ps, B, P, S, k, st, c) ==
  /\ D \in [File -> Seq(Unit)]
  /\ \A f \in File :
       D[f] = IF st = "READ_PART_BODY"
              THEN S[f][k - 1] \o (IF ps[k].file = f THEN DataUpTo(B, P, k, c)
                                   ELSE <<>>)
              ELSE S[f][k]

\* The header of a part leaves what has been handed over as it is.
LEMMA PartBegun ==
  ASSUME NEW ps, NEW B, NEW P, NEW S, Laid(ps, B, P, S), NEW k \in 1..Len(ps),
         NEW D, NEW c, NEW st, st # "READ_PART_BODY",
         Delivered(D, ps, B, P, S, k - 1, st, c),
         NEW m, m = P[k - 1] + 4
  PROVE  Delivered(D, ps, B, P, S, k, "READ_PART_BODY", m)
<1>1. ps \in Seq(Part) /\ Layout(P, ps, B) /\ \A f \in File : SentTrace(S[f], ps, f)
  BY DEF Laid
<1>2. DataUpTo(B, P, k, m) = <<>>
  <2>1. /\ P[k - 1] \in Nat /\ P[k] \in Nat /\ Len(ps[k].data) \in Nat
        /\ P[k] = P[k - 1] + 4 + Len(ps[k].data) + 2
    BY <1>1, Ends
  <2>2. m \in P[k - 1] + 4..P[k] - 2
    <3>1. \A p, q, d \in Nat : p = q + 4 + d + 2 => q + 4 \in q + 4..p - 2
      OBVIOUS
    <3>2. QED
      BY <2>1, <3>1
  <2>3. QED
    BY <1>1, <2>2, DataOfPart DEF DataFacts
<1>3. ASSUME NEW f \in File
      PROVE  D[f] = S[f][k - 1] \o (IF ps[k].file = f THEN DataUpTo(B, P, k, m)
                                    ELSE <<>>)
  <2>1. D[f] = S[f][k - 1] /\ D[f] \in Seq(Unit)
    BY DEF Delivered
  <2>2. \A s \in Seq(Unit) : s \o <<>> = s
    OBVIOUS
  <2>3. QED
    BY <1>2, <2>1, <2>2
<1>4. QED
  BY <1>3 DEF Delivered

\* Another piece of a part is handed over.
LEMMA PartContinued ==
  ASSUME NEW ps, NEW B, NEW P, NEW S, Laid(ps, B, P, S), NEW k \in 1..Len(ps),
         NEW c \in P[k - 1] + 4..P[k] - 2, NEW m \in c..P[k] - 2,
         NEW D, Delivered(D, ps, B, P, S, k, "READ_PART_BODY", c),
         NEW late \in BOOLEAN,
         NEW x, x = [path |-> ps[k].file, data |-> SubSeq(B, c + 1, m), late |-> late]
  PROVE  /\ x \in IOTask
         /\ Delivered(After(D, x), ps, B, P, S, k, "READ_PART_BODY", m)
<1>1. ps \in Seq(Part) /\ Layout(P, ps, B) /\ \A f \in File : SentTrace(S[f], ps, f)
  BY DEF Laid
<1> DEFINE s == DataUpTo(B, P, k, c)
           t == SubSeq(B, c + 1, m)
           w == DataUpTo(B, P, k, m)
<1>2. s \in Seq(Unit) /\ t \in Seq(Unit) /\ s \o t = w /\ ps[k].file \in File
  <2>1. /\ s \in Seq(Unit) /\ ps[k].file \in File
        /\ \A j \in c..P[k] - 2 :
             /\ SubSeq(B, c + 1, j) \in Seq(Unit)
             /\ s \o SubSeq(B, c + 1, j) = DataUpTo(B, P, k, j)
    <3>1. DataFacts(ps, B, P, k, c)
      BY <1>1, DataOfPart
    <3>2. QED
      BY <3>1 DEF DataFacts
  <2> HIDE DEF s
  <2>2. QED
    BY <2>1
<1> HIDE DEF s, t, w
<1>3. x.path = ps[k].file /\ x.data = t /\ x \in IOTask
  BY <1>2 DEF IOTask, t
<1>4. D \in [File -> Seq(Unit)]
  BY DEF Delivered
<1>5. /\ After(D, x) \in [File -> Seq(Unit)]
      /\ \A f \in File : After(D, x)[f] = IF f = x.path THEN D[f] \o x.data ELSE D[f]
  BY <1>3, <1>4, AfterTypes
<1>6. ASSUME NEW f \in File
      PROVE  After(D, x)[f] = S[f][k - 1] \o (IF ps[k].file = f THEN w ELSE <<>>)
  <2>1. D[f] = S[f][k - 1] \o (IF ps[k].file = f THEN s ELSE <<>>)
    BY DEF Delivered, s
  <2>2. S[f][k - 1] \in Seq(Unit)
    <3>1. SentTrace(S[f], ps, f) /\ k - 1 \in 0..Len(ps)
      BY <1>1
    <3>2. QED
      BY <1>1, <3>1, SentGrows
  <2>3. CASE ps[k].file = f
    <3>1. After(D, x)[f] = (S[f][k - 1] \o s) \o t
      BY <1>3, <1>5, <2>1, <2>3
    <3>2. (S[f][k - 1] \o s) \o t = S[f][k - 1] \o (s \o t)
      <4> DEFINE p == S[f][k - 1]
      <4>1. p \in Seq(Unit) /\ s \in Seq(Unit) /\ t \in Seq(Unit)
        BY <1>2, <2>2
      <4> HIDE DEF p
      <4>2. ASSUME NEW q \in Seq(Unit), NEW u \in Seq(Unit), NEW v \in Seq(Unit)
            PROVE  (q \o u) \o v = q \o (u \o v)
        BY ONLY <4>2, ConcatAssociative, SMTT(20)
      <4>3. (p \o s) \o t = p \o (s \o t)
        BY ONLY <4>1, <4>2
      <4>4. QED
        BY <4>3 DEF p
    <3>3. QED
      BY <1>2, <2>3, <3>1, <3>2
  <2>4. CASE ps[k].file # f
    BY <1>3, <1>5, <2>1, <2>4
  <2>5. QED
    BY <2>3, <2>4
<1>7. QED
  BY <1>3, <1>5, <1>6 DEF Delivered, w

\* The last piece of a part is handed over.
LEMMA PartEnded ==
  ASSUME NEW ps, NEW B, NEW P, NEW S, Laid(ps, B, P, S), NEW k \in 1..Len(ps),
         NEW c, c = P[k] - 2, NEW D, Delivered(D, ps, B, P, S, k, "READ_PART_BODY", c),
         NEW m
  PROVE  Delivered(D, ps, B, P, S, k, "FIND_BOUNDARY", m)
<1>1. ps \in Seq(Part) /\ Layout(P, ps, B) /\ \A f \in File : SentTrace(S[f], ps, f)
  BY DEF Laid
<1>2. DataUpTo(B, P, k, c) = ps[k].data
  <2>1. /\ P[k - 1] \in Nat /\ P[k] \in Nat /\ Len(ps[k].data) \in Nat
        /\ P[k] = P[k - 1] + 4 + Len(ps[k].data) + 2
    BY <1>1, Ends
  <2>2. c \in P[k - 1] + 4..P[k] - 2
    BY <2>1
  <2>3. QED
    BY <1>1, <2>2, DataOfPart DEF DataFacts
<1>3. ASSUME NEW f \in File PROVE D[f] = S[f][k]
  <2>1. S[f][k] = SentStep(S[f][k - 1], ps[k], f)
    BY <1>1, SentGrows
  <2>2. D[f] = S[f][k - 1] \o (IF ps[k].file = f THEN ps[k].data ELSE <<>>)
    BY <1>2 DEF Delivered
  <2>3. QED
    BY <2>1, <2>2 DEF SentStep
<1>4. QED
  BY <1>3 DEF Delivered

\* A task without data changes nothing.
LEMMA EmptyTask ==
  ASSUME NEW D \in [File -> Seq(Unit)], NEW g \in File,
         NEW late \in BOOLEAN, NEW x, x = [path |-> g, data |-> <<>>, late |-> late]
  PROVE  x \in IOTask /\ After(D, x) = D
<1>1. x \in IOTask /\ x.path = g /\ x.data = <<>>
  BY DEF IOTask
<1>2. After(D, x) \in [File -> Seq(Unit)]
  BY <1>1, AfterTypes
<1>3. ASSUME NEW f \in File PROVE After(D, x)[f] = D[f]
  <2>1. After(D, x)[f] = IF f = x.path THEN D[f] \o x.data ELSE D[f]
    BY <1>1, AfterTypes
  <2>2. D[f] \in Seq(Unit)
    OBVIOUS
  <2>3. QED
    BY <1>1, <2>1, <2>2
<1>4. QED
  BY <1>1, <1>2, <1>3

\* What has been handed over is a beginning of what was sent.
LEMMA DeliveredSoFar ==
  ASSUME NEW ps, NEW B, NEW P, NEW S, Laid(ps, B, P, S), NEW k \in 0..Len(ps),
         NEW st, NEW c, NEW D, Delivered(D, ps, B, P, S, k, st, c),
         st = "READ_PART_BODY" => k >= 1 /\ c \in P[k - 1] + 4..P[k] - 2,
         NEW f \in File
  PROVE  D[f] \in Seq(Unit) /\ S[f][Len(ps)] \in Seq(Unit) /\ Begins(D[f], S[f][Len(ps)])
<1>1. ps \in Seq(Part) /\ Layout(P, ps, B) /\ SentTrace(S[f], ps, f)
  BY DEF Laid
<1> DEFINE n == Len(ps)
           b == S[f]
<1>2. n \in Nat /\ n \in 0..n
  BY <1>1
<1>3. /\ \A j \in 0..n : b[j] \in Seq(Unit) /\ Begins(b[j], b[n])
      /\ \A j \in 1..n : b[j] = SentStep(b[j - 1], ps[j], f)
  BY <1>1, SentGrows
<1>4. D[f] \in Seq(Unit)
  BY DEF Delivered
<1>5. CASE st # "READ_PART_BODY"
  <2>1. D[f] = b[k]
    BY <1>5 DEF Delivered
  <2>2. QED
    BY <1>2, <1>3, <1>4, <2>1
<1>6. CASE st = "READ_PART_BODY"
  <2>1. k \in 1..n /\ k - 1 \in 0..n /\ k \in 0..n
    BY <1>2, <1>6
  <2> DEFINE s == IF ps[k].file = f THEN DataUpTo(B, P, k, c) ELSE <<>>
             t == IF ps[k].file = f THEN ps[k].data ELSE <<>>
  <2>2. D[f] = b[k - 1] \o s /\ b[k] = b[k - 1] \o t
    BY <1>3, <1>6, <2>1 DEF Delivered, SentStep
  <2>3. s \in Seq(Unit) /\ t \in Seq(Unit) /\ Begins(s, t)
    <3>1. /\ DataUpTo(B, P, k, c) \in Seq(Unit) /\ ps[k].data \in Seq(Unit)
          /\ Begins(DataUpTo(B, P, k, c), ps[k].data)
      BY <1>1, <1>6, <2>1, DataOfPart DEF DataFacts
    <3>2. <<>> \in Seq(Unit) /\ Begins(<<>>, <<>>)
      BY DEF Begins
    <3>3. QED
      BY <3>1, <3>2
  <2> HIDE DEF s, t, n, b
  <2>4. Begins(b[k - 1] \o s, b[k - 1] \o t)
    <3> DEFINE p == b[k - 1]
    <3>1. p \in Seq(Unit)
      BY <1>3, <2>1
    <3> HIDE DEF p
    <3>2. Len(p) \in Nat /\ Len(s) \in Nat /\ Len(t) \in Nat /\ Len(s) <= Len(t)
      BY <2>3, <3>1 DEF Begins
    <3>3. /\ Len(p \o s) = Len(p) + Len(s) /\ Len(p \o t) = Len(p) + Len(t)
          /\ \A i \in 1..Len(p) : (p \o s)[i] = p[i] /\ (p \o t)[i] = p[i]
          /\ \A i \in 1..Len(s) : (p \o s)[Len(p) + i] = s[i]
          /\ \A i \in 1..Len(t) : (p \o t)[Len(p) + i] = t[i]
      BY <2>3, <3>1, Concatenates
    <3>4. ASSUME NEW i \in 1..Len(p) + Len(s) PROVE (p \o t)[i] = (p \o s)[i]
      <4>1. CASE i <= Len(p)
        BY <3>2, <3>3, <4>1
      <4>2. CASE ~(i <= Len(p))
        <5> DEFINE j == i - Len(p)
        <5>1. i = Len(p) + j /\ j \in 1..Len(s) /\ j \in 1..Len(t)
          BY <3>2, <4>2
        <5> HIDE DEF j
        <5>2. s[j] = t[j]
          BY <2>3, <5>1 DEF Begins
        <5>3. QED
          BY <3>3, <5>1, <5>2
      <4>3. QED
        BY <4>1, <4>2
    <3>5. Begins(p \o s, p \o t)
      <4>1. Len(p \o s) <= Len(p \o t)
        BY <3>2, <3>3
      <4>2. QED
        BY <3>3, <3>4, <4>1 DEF Begins
    <3>6. QED
      BY <3>5 DEF p
  <2>5. Begins(D[f], b[k])
    BY <2>2, <2>4
  <2>6. b[k] \in Seq(Unit) /\ b[n] \in Seq(Unit) /\ Begins(b[k], b[n])
    BY <1>2, <1>3, <2>1
  <2>7. b[n] \in Seq(Unit) /\ Begins(D[f], b[n])
    BY <1>4, <2>5, <2>6, BeginningOfBeginning
  <2>8. QED
    BY <1>4, <2>7 DEF n, b
<1>7. QED
  BY <1>5, <1>6

-----------------------------------------------------------------------------
(* The invariant of an upload.                                               *)

\* The processor has let go of c units; behind them is the boundary of part k,
\* or it is in part k, or before the first one.
Reached(ps, B, P, k, c) ==
  /\ parts = ps
  /\ k \in 0..Len(ps) /\ c \in Nat
  /\ received \in c..Len(B)
  /\ buffer = SubSeq(B, c + 1, received)
  /\ phase = "header" => received = 0
  /\ \/ state = "FIND_BOUNDARY" /\ k = 0 /\ c = 0
     \/ state = "FIND_BOUNDARY" /\ k >= 1 /\ c = P[k] - 2
     \/ state = "READ_PART_HEADER" /\ c = P[k]
     \/ /\ state = "READ_PART_BODY" /\ k >= 1
        /\ P[k - 1] + 4 <= c /\ c <= P[k] - 2 /\ current = ps[k].file

\* What it waits for while no piece is fed has not arrived.
Waits(ps, P, k) ==
  phase \in {"read", "finish", "done"} =>
    IF state = "READ_PART_HEADER" THEN k = Len(ps) \/ received < P[k] + 4
    ELSE received < P[k]

Names(ps, k) == [i \in 1..k |-> ps[i].file]

\* The names of the parts that have ended are saved.
SavedAt(ps, B, k) ==
  /\ phase # "done" =>
       saved = Names(ps, IF state = "READ_PART_BODY" THEN k - 1 ELSE k)
  /\ phase = "done" /\ received = Len(B) => saved = Names(ps, Len(ps))
  /\ state # "READ_PART_BODY" => current = IF k = 0 THEN NoFile ELSE ps[k].file

\* The tasks that are not done, the one being executed first.
Pending == (IF worker = "execute" THEN <<task>> ELSE <<>>) \o tasks

HandedAt(ps, B, P, S, k, c) ==
  \E D : Delivered(D, ps, B, P, S, k, state, c) /\ Handed(disk, Pending, D, failed)

Progress(ps, B, P, S, k, c) ==
  /\ Reached(ps, B, P, k, c)
  /\ Waits(ps, P, k)
  /\ ~swallowed => SavedAt(ps, B, k) /\ HandedAt(ps, B, P, S, k, c)

\* The pool, and the types.
PoolOK ==
  /\ phase \in {"header", "read", "feed", "finish", "done"}
  /\ current \in File \cup {NoFile}
  /\ saved \in Seq(File)
  /\ tasks \in Seq(IOTask)
  /\ notify \in BOOLEAN
  /\ worker \in {"test", "asleep", "execute", "gone"}
  /\ task = NoTask \/ task \in IOTask
  /\ worker = "execute" => task \in IOTask
  /\ stop \in BOOLEAN
  /\ disk \in [File -> Seq(Unit)]
  /\ failed \in BOOLEAN
  /\ swallowed \in BOOLEAN
  /\ NothingLeftBehind

UploadInv(ps, B, P, S) ==
  /\ PoolOK
  /\ \E k, c : Progress(ps, B, P, S, k, c)

\* The tasks that are not done are tasks.
LEMMA PendingTypes ==
  ASSUME PoolOK
  PROVE  Pending \in Seq(IOTask)
<1>1. tasks \in Seq(IOTask) /\ (worker = "execute" => task \in IOTask)
  BY DEF PoolOK
<1>2. <<>> \in Seq(IOTask) /\ (worker = "execute" => <<task>> \in Seq(IOTask))
  BY <1>1
<1>3. QED
  BY <1>1, <1>2 DEF Pending

\* What the queue holds when the thread has ended stays late while it is kept,
LEMMA QueueKept ==
  ASSUME NothingLeftBehind, tasks' = tasks, worker' = "gone" => worker = "gone"
  PROVE  NothingLeftBehind'
BY DEF NothingLeftBehind, Owed

\* and so does what is added.
LEMMA QueueGrows ==
  ASSUME NothingLeftBehind, tasks \in Seq(IOTask), NEW x \in IOTask,
         worker = "gone" => x.late, tasks' = Append(tasks, x), worker' = worker
  PROVE  NothingLeftBehind'
<1>1. ASSUME worker' = "gone" PROVE \A i \in DOMAIN tasks' : tasks'[i].late
  <2>1. worker = "gone" /\ x.late /\ \A i \in DOMAIN tasks : tasks[i].late
    BY <1>1 DEF NothingLeftBehind, Owed
  <2>2. PICK t : t = tasks
    OBVIOUS
  <2>3. t \in Seq(IOTask) /\ tasks' = Append(t, x) /\ \A i \in 1..Len(t) : t[i].late
    BY <2>1, <2>2
  <2>4. ASSUME NEW i \in DOMAIN Append(t, x) PROVE Append(t, x)[i].late
    <3>1. i \in 1..Len(t) + 1
      BY <2>3, <2>4
    <3>2. CASE i = Len(t) + 1
      <4>1. Append(t, x)[i] = x
        BY <2>3, <3>2
      <4>2. QED
        BY <2>1, <4>1
    <3>3. CASE i # Len(t) + 1
      <4>1. i \in 1..Len(t) /\ Append(t, x)[i] = t[i]
        BY <2>3, <3>1, <3>3
      <4>2. QED
        BY <2>3, <4>1
    <3>4. QED
      BY <3>2, <3>3
  <2>5. QED
    BY <2>3, <2>4
<1>2. QED
  BY <1>1 DEF NothingLeftBehind, Owed

\* The name of the part that ends is appended.
LEMMA SavedNames ==
  ASSUME NEW ps \in Seq(Part), NEW k \in 1..Len(ps)
  PROVE  /\ Append(Names(ps, k - 1), ps[k].file) = Names(ps, k)
         /\ Contains(Names(ps, k), ps[k].file)
         /\ ps[k].file \in File
<1>1. k \in Nat /\ k - 1 \in Nat /\ Len(ps) \in Nat
  OBVIOUS
<1>2. \A i \in 1..k : ps[i].file \in File
  <2>1. \A i \in 1..k : ps[i] \in Part
    BY <1>1
  <2>2. QED
    BY <2>1, PartTypes
<1> DEFINE s == Names(ps, k - 1)
           t == Names(ps, k)
           u == Append(s, ps[k].file)
<1>3. s \in Seq(File) /\ Len(s) = k - 1 /\ \A i \in 1..k - 1 : s[i] = ps[i].file
  BY <1>1, <1>2 DEF Names
<1>4. t \in Seq(File) /\ Len(t) = k /\ \A i \in 1..k : t[i] = ps[i].file
  BY <1>1, <1>2 DEF Names
<1> HIDE DEF s, t
<1>5. /\ u \in Seq(File) /\ Len(u) = k /\ u[k] = ps[k].file
      /\ \A i \in 1..k - 1 : u[i] = s[i]
  BY <1>1, <1>2, <1>3
<1> HIDE DEF u
<1>6. ASSUME NEW i \in 1..k PROVE u[i] = t[i]
  BY <1>1, <1>3, <1>4, <1>5
<1>7. u = t
  BY <1>4, <1>5, <1>6, SeqEqual
<1>8. Contains(t, ps[k].file)
  BY <1>1, <1>4 DEF Contains
<1>9. QED
  BY <1>2, <1>7, <1>8 DEF s, t, u

-----------------------------------------------------------------------------
(* The steps of the processor.                                               *)
\* find(boundary) while the processor looks for one: it skips a part, goes behind
\* the boundary that it waits for, or waits.
LEMMA FindBoundaryMoves ==
  ASSUME NEW ps, NEW B, NEW P, NEW S, Laid(ps, B, P, S), NEW k, NEW c,
         Reached(ps, B, P, k, c), FindBoundary
  PROVE  \/ swallowed' /\ \E m : Reached(ps, B, P, 1, m)' /\ phase' = "feed"
         \/ /\ state' # "READ_PART_BODY" /\ (swallowed => swallowed')
            /\ \E m : Reached(ps, B, P, k, m)' /\ Waits(ps, P, k)'
<1> DEFINE n == Len(ps)
<1>1. ps \in Seq(Part) /\ Layout(P, ps, B)
  BY DEF Laid
<1>2. PICK r, buf : r = received /\ buf = buffer
  OBVIOUS
<1>3. /\ parts = ps /\ k \in 0..n /\ c \in Nat /\ r \in c..Len(B)
      /\ buf = SubSeq(B, c + 1, r)
      /\ k = 0 => c = 0
      /\ k # 0 => k >= 1 /\ c = P[k] - 2
  BY <1>2 DEF Reached, FindBoundary, Feeds
<1>4. /\ phase = "feed" /\ state = "FIND_BOUNDARY" /\ buf # <<>>
      /\ parts' = parts /\ received' = received /\ current' = current
  BY <1>2 DEF FindBoundary, Feeds, reader
<1>5. IF Found(buf, boundary)
      THEN /\ buffer' = Erase(buf, Find(buf, boundary) + 2)
           /\ state' = "READ_PART_HEADER" /\ phase' = phase
           /\ swallowed' = (swallowed \/ Find(buf, boundary) > 0)
      ELSE IF IsPrefix(first_boundary, buf)
      THEN /\ buffer' = Erase(buf, 1)
           /\ state' = "READ_PART_HEADER" /\ phase' = phase /\ swallowed' = swallowed
      ELSE /\ buffer' = Erase(buf, Safe(buf))
           /\ phase' = "read" /\ state' = state /\ swallowed' = swallowed
  <2>1. Len(boundary) = 2 /\ Len(first_boundary) = 1
    BY DEF boundary, first_boundary
  <2>2. QED
    BY <1>2, <2>1 DEF FindBoundary
<1>6. B \in Seq(Unit) /\ Len(B) \in Nat /\ n \in Nat /\ P[0] = 1 /\ Len(B) = P[n] + 1
  BY <1>1 DEF Layout
<1>7. r \in Nat /\ c <= r /\ r <= Len(B)
  BY <1>3, <1>6
<1>8. /\ buf \in Seq(Unit) /\ Len(buf) = r - c /\ (buf = <<>> <=> c = r)
      /\ \A i \in 1..r - c : buf[i] = B[c + i]
      /\ \A m \in 0..r - c : Erase(buf, m) = SubSeq(B, c + m + 1, r)
  <2>1. PieceFacts(B, c, r, buf)
    BY <1>3, <1>6, <1>7, Piece
  <2>2. QED
    BY <2>1 DEF PieceFacts
<1> HIDE DEF n
<1>9. CASE k = 0
  <2>1. c = 0 /\ 1 <= r /\ buf = SubSeq(B, 1, r)
    BY <1>3, <1>4, <1>7, <1>8, <1>9
  <2>2. IsPrefix(first_boundary, buf) /\ (n = 0 => ~Found(buf, boundary))
    BY <1>1, <1>7, <2>1, AtStart DEF n
  <2>3. CASE Found(buf, boundary)
    <3>1. 1 \in 1..n
      BY <1>6, <2>2, <2>3
    <3>2. /\ P[1 - 1] \in Nat /\ P[1] \in Nat /\ Len(ps[1].data) \in Nat
          /\ P[1] = P[1 - 1] + 4 + Len(ps[1].data) + 2
      BY <1>1, <3>1, Ends DEF n
    <3>3. 1 - 1 = 0 /\ P[1] >= 7
      BY <1>6, <3>2
    <3>4. P[1] <= r /\ Find(buf, boundary) = P[1] - 2 - c
      <4>1. P[1 - 1] - 1 <= c /\ c <= P[1] - 2
        BY <1>6, <2>1, <3>3, <3>2
      <4>2. BoundaryFacts(P, 1, c, r, buf)
        BY <1>1, <1>3, <1>7, <3>1, <4>1, BoundaryAhead DEF n
      <4>3. QED
        BY <2>3, <4>2 DEF BoundaryFacts
    <3>5. buffer' = SubSeq(B, P[1] + 1, r)
      <4>1. Find(buf, boundary) + 2 = P[1] /\ P[1] \in 0..r - c /\ c + P[1] + 1 = P[1] + 1
        <5>1. Find(buf, boundary) = P[1] - 2
          BY <2>1, <3>2, <3>4
        <5>2. Find(buf, boundary) + 2 = P[1]
          BY <3>2, <5>1
        <5>3. P[1] \in 0..r - c /\ c + P[1] + 1 = P[1] + 1
          BY <1>7, <2>1, <3>2, <3>4
        <5>4. QED
          BY <5>2, <5>3
      <4>2. QED
        BY <1>5, <1>8, <2>3, <4>1
    <3>6. swallowed'
      <4>1. Find(buf, boundary) > 0
        BY <2>1, <3>2, <3>3, <3>4
      <4>2. QED
        BY <1>5, <2>3, <4>1
    <3>7. Reached(ps, B, P, 1, P[1])'
      <4>1. r \in P[1]..Len(B) /\ 1 \in 0..n
        BY <1>6, <1>7, <3>1, <3>2, <3>4
      <4>2. QED
        BY <1>2, <1>3, <1>4, <1>5, <2>3, <3>2, <3>5, <4>1 DEF Reached, n
    <3>8. phase' = "feed"
      BY <1>4, <1>5, <2>3
    <3>9. QED
      BY <3>6, <3>7, <3>8
  <2>4. CASE ~Found(buf, boundary)
    <3>1. /\ buffer' = Erase(buf, 1) /\ state' = "READ_PART_HEADER" /\ phase' = "feed"
          /\ swallowed' = swallowed
      BY <1>4, <1>5, <2>2, <2>4
    <3>2. buffer' = SubSeq(B, 1 + 1, r)
      <4>1. 1 \in 0..r - c /\ c + 1 + 1 = 1 + 1
        BY <2>1, <1>7
      <4>2. QED
        BY <1>8, <3>1, <4>1
    <3>3. Reached(ps, B, P, k, 1)'
      <4>1. r \in 1..Len(B) /\ 1 \in Nat
        BY <1>7, <2>1
      <4>2. QED
        BY <1>2, <1>3, <1>4, <1>6, <1>9, <3>1, <3>2, <4>1 DEF Reached, n
    <3>4. Waits(ps, P, k)'
      BY <3>1 DEF Waits
    <3>5. QED
      BY <3>1, <3>3, <3>4
  <2>5. QED
    BY <2>3, <2>4
<1>10. CASE k # 0
  <2>1. k \in 1..n /\ c = P[k] - 2
    BY <1>3, <1>6, <1>10 DEF n
  <2>2. /\ P[k - 1] \in Nat /\ P[k] \in Nat /\ Len(ps[k].data) \in Nat
        /\ P[k] = P[k - 1] + 4 + Len(ps[k].data) + 2
    BY <1>1, <2>1, Ends DEF n
  <2>3. /\ Found(buf, boundary) <=> P[k] <= r
        /\ P[k] <= r => Find(buf, boundary) = P[k] - 2 - c
    <3>1. P[k - 1] - 1 <= c /\ c <= P[k] - 2
      <4>1. \A p, q, d \in Nat : p = q + 4 + d + 2 => q - 1 <= p - 2 /\ p - 2 <= p - 2
        OBVIOUS
      <4>2. QED
        BY <2>1, <2>2, <4>1
    <3>2. BoundaryFacts(P, k, c, r, buf)
      BY <1>1, <1>3, <1>7, <2>1, <3>1, BoundaryAhead DEF n
    <3>3. QED
      BY <3>2 DEF BoundaryFacts
  <2>4. CASE Found(buf, boundary)
    <3>1. Find(buf, boundary) = 0 /\ P[k] <= r
      BY <2>1, <2>2, <2>3, <2>4
    <3>2. /\ buffer' = Erase(buf, 2) /\ state' = "READ_PART_HEADER" /\ phase' = "feed"
      BY <1>4, <1>5, <2>4, <3>1
    <3>3. buffer' = SubSeq(B, P[k] + 1, r)
      <4>1. 2 \in 0..r - c /\ c + 2 + 1 = P[k] + 1
        BY <2>1, <2>2, <3>1, <1>7
      <4>2. QED
        BY <1>8, <3>2, <4>1
    <3>4. swallowed => swallowed'
      BY <1>5, <2>4
    <3>5. Reached(ps, B, P, k, P[k])'
      <4>1. r \in P[k]..Len(B)
        BY <1>7, <2>2, <3>1
      <4>2. QED
        BY <1>2, <1>3, <1>4, <2>2, <3>2, <3>3, <4>1 DEF Reached, n
    <3>6. Waits(ps, P, k)'
      BY <3>2 DEF Waits
    <3>7. QED
      BY <3>2, <3>4, <3>5, <3>6
  <2>5. CASE ~Found(buf, boundary)
    <3>1. r < P[k] /\ c < r /\ r - c = 1
      <4>1. r < P[k] /\ c # r
        BY <1>4, <1>7, <1>8, <2>2, <2>3, <2>5
      <4>2. \A p, q, x \in Nat : p = q - 2 /\ p <= x /\ p # x /\ x < q
                                  => p < x /\ x - p = 1
        OBVIOUS
      <4>3. c \in Nat /\ r \in Nat /\ P[k] \in Nat /\ c <= r
        BY <1>3, <1>7, <2>2
      <4>4. QED
        BY <2>1, <4>1, <4>2, <4>3
    <3>2. ~IsPrefix(first_boundary, buf)
      <4>1. buf[1] = "crlf"
        <5>1. buf[1] = B[c + 1] /\ c + 1 = P[k] - 1
          BY <1>8, <2>1, <2>2, <3>1
        <5>2. B[P[k] - 1] = "crlf"
          BY <1>1, <2>1 DEF Layout, n
        <5>3. QED
          BY <5>1, <5>2
      <4>2. first_boundary \in Seq(Unit) /\ Len(first_boundary) = 1
            /\ first_boundary[1] = "delim" /\ 1 \in 1..1
        BY DEF first_boundary, Unit
      <4>3. ~Begins(first_boundary, buf)
        BY <4>1, <4>2 DEF Begins
      <4>4. QED
        BY <1>8, <4>2, <4>3, PrefixBegins
    <3>3. Safe(buf) = 0
      <4>1. Len(boundary) = 2
        BY DEF boundary
      <4>2. QED
        BY <1>8, <3>1, <4>1 DEF Safe
    <3>4. /\ buffer' = Erase(buf, 0) /\ state' = "FIND_BOUNDARY" /\ phase' = "read"
          /\ swallowed' = swallowed
      BY <1>4, <1>5, <2>5, <3>2, <3>3
    <3>5. buffer' = SubSeq(B, c + 1, r)
      <4>1. 0 \in 0..r - c /\ c + 0 + 1 = c + 1
        BY <1>3, <3>1
      <4>2. QED
        BY <1>8, <3>4, <4>1
    <3>6. Reached(ps, B, P, k, c)'
      BY <1>2, <1>3, <1>4, <2>1, <3>4, <3>5 DEF Reached, n
    <3>7. Waits(ps, P, k)'
      BY <1>2, <1>4, <3>1, <3>4 DEF Waits
    <3>8. QED
      BY <3>4, <3>6, <3>7
  <2>6. QED
    BY <2>4, <2>5
<1>11. QED
  BY <1>9, <1>10

\* The processor keeps the invariant while it looks for a boundary,
LEMMA FindBoundaryStep ==
  ASSUME NEW ps, NEW B, NEW P, NEW S, Laid(ps, B, P, S), UploadInv(ps, B, P, S),
         FindBoundary
  PROVE  UploadInv(ps, B, P, S)'
<1>1. PICK k, c : Progress(ps, B, P, S, k, c)
  BY DEF UploadInv
<1>2. Reached(ps, B, P, k, c)
  BY <1>1 DEF Progress
<1>3. /\ phase = "feed" /\ state = "FIND_BOUNDARY" /\ phase' \in {"feed", "read"}
      /\ swallowed' \in BOOLEAN
  BY DEF FindBoundary, Feeds, UploadInv, PoolOK
<1>4. /\ current' = current /\ saved' = saved /\ failed' = failed /\ disk' = disk
      /\ tasks' = tasks /\ notify' = notify /\ worker' = worker /\ task' = task
      /\ stop' = stop
  BY DEF FindBoundary, pool
<1>5. PoolOK'
  BY <1>3, <1>4, QueueKept DEF UploadInv, PoolOK
<1>6. Pending' = Pending
  BY <1>4 DEF Pending
<1>7. CASE swallowed' /\ \E m : Reached(ps, B, P, 1, m)' /\ phase' = "feed"
  <2>1. PICK m : Reached(ps, B, P, 1, m)' /\ phase' = "feed"
    BY <1>7
  <2>2. Waits(ps, P, 1)'
    BY <2>1 DEF Waits
  <2>3. Progress(ps, B, P, S, 1, m)'
    BY <1>7, <2>1, <2>2 DEF Progress
  <2>4. QED
    BY <1>5, <2>3 DEF UploadInv
<1>8. CASE /\ state' # "READ_PART_BODY" /\ (swallowed => swallowed')
           /\ \E m : Reached(ps, B, P, k, m)' /\ Waits(ps, P, k)'
  <2>1. PICK m : Reached(ps, B, P, k, m)' /\ Waits(ps, P, k)'
    BY <1>8
  <2>2. ASSUME ~swallowed' PROVE SavedAt(ps, B, k)' /\ HandedAt(ps, B, P, S, k, m)'
    <3>1. SavedAt(ps, B, k) /\ HandedAt(ps, B, P, S, k, c)
      BY <1>1, <1>8, <2>2 DEF Progress
    <3>s. state # "READ_PART_BODY" /\ state' # "READ_PART_BODY"
      BY <1>3, <1>8
    <3>2. SavedAt(ps, B, k)'
      BY <1>3, <1>4, <3>1, <3>s DEF SavedAt
    <3>3. PICK D : /\ Delivered(D, ps, B, P, S, k, state, c)
                   /\ Handed(disk, Pending, D, failed)
      BY <3>1 DEF HandedAt
    <3>4. Delivered(D, ps, B, P, S, k, state', m)
      BY <3>s, <3>3 DEF Delivered
    <3>5. Handed(disk', Pending', D, failed')
      BY <1>4, <1>6, <3>3
    <3>6. QED
      BY <3>2, <3>4, <3>5 DEF HandedAt
  <2>3. Progress(ps, B, P, S, k, m)'
    BY <2>1, <2>2 DEF Progress
  <2>4. QED
    BY <1>5, <2>3 DEF UploadInv
<1>9. QED
  BY <1>2, <1>7, <1>8, FindBoundaryMoves

\* The header of the next part: it is read, or has not arrived, or there is none.
LEMMA ReadPartHeaderMoves ==
  ASSUME NEW ps, NEW B, NEW P, NEW S, Laid(ps, B, P, S), NEW k, NEW c,
         Reached(ps, B, P, k, c), ReadPartHeader
  PROVE  \/ /\ k + 1 \in 1..Len(ps) /\ state' = "READ_PART_BODY" /\ phase' = "feed"
            /\ current' = ps[k + 1].file /\ current' \in File
            /\ Reached(ps, B, P, k + 1, P[k] + 4)'
         \/ /\ state' = state /\ phase' = "read" /\ current' = current
            /\ Reached(ps, B, P, k, c)' /\ Waits(ps, P, k)'
<1> DEFINE n == Len(ps)
<1>1. ps \in Seq(Part) /\ Layout(P, ps, B)
  BY DEF Laid
<1>2. PICK r, buf : r = received /\ buf = buffer
  OBVIOUS
<1>3. /\ parts = ps /\ k \in 0..n /\ c \in Nat /\ r \in c..Len(B)
      /\ buf = SubSeq(B, c + 1, r) /\ c = P[k]
  BY <1>2 DEF Reached, ReadPartHeader, Feeds
<1>4. /\ phase = "feed" /\ state = "READ_PART_HEADER"
      /\ parts' = parts /\ received' = received
  BY DEF ReadPartHeader, Feeds, reader
<1>5. IF Found(buf, HeaderEnd)
      THEN /\ current' = buf[Find(buf, HeaderEnd)]
           /\ buffer' = Erase(buf, Find(buf, HeaderEnd) + 2)
           /\ state' = "READ_PART_BODY" /\ phase' = phase
      ELSE phase' = "read" /\ current' = current /\ buffer' = buf /\ state' = state
  <2>1. Len(HeaderEnd) = 2
    BY DEF HeaderEnd
  <2>2. QED
    BY <1>2, <2>1 DEF ReadPartHeader
<1>6. B \in Seq(Unit) /\ Len(B) \in Nat /\ n \in Nat /\ Len(B) = P[n] + 1
  BY <1>1 DEF Layout
<1>7. r \in Nat /\ c <= r /\ r <= Len(B)
  BY <1>3, <1>6
<1>8. \A m \in 0..r - c : Erase(buf, m) = SubSeq(B, c + m + 1, r)
  <2>1. PieceFacts(B, c, r, buf)
    BY <1>3, <1>6, <1>7, Piece
  <2>2. QED
    BY <2>1 DEF PieceFacts
<1> HIDE DEF n
<1>9. CASE Found(buf, HeaderEnd)
  <2>1. k # n
    BY <1>1, <1>3, <1>7, <1>9, NoHeaderAhead DEF n
  <2>2. k + 1 \in 1..n /\ (k + 1) - 1 = k /\ k + 1 >= 1
    BY <1>3, <1>6, <2>1
  <2> DEFINE j == k + 1
  <2>3. /\ j \in 1..Len(ps) /\ c = P[j - 1]
    BY <1>3, <2>2 DEF n
  <2> HIDE DEF j
  <2>4. HeaderFacts(ps, j, c, r, buf)
    BY <1>1, <1>3, <1>7, <2>3, HeaderAhead
  <2>5. c + 4 <= r /\ Find(buf, HeaderEnd) = 2 /\ buf[2] = ps[j].file
    BY <1>9, <2>4 DEF HeaderFacts
  <2>6. /\ P[j - 1] \in Nat /\ P[j] \in Nat /\ Len(ps[j].data) \in Nat
        /\ P[j] = P[j - 1] + 4 + Len(ps[j].data) + 2
    BY <1>1, <2>3, Ends
  <2>7. buffer' = SubSeq(B, c + 4 + 1, r)
    <3>1. 4 \in 0..r - c /\ 2 + 2 = 4
      BY <1>3, <1>7, <2>5
    <3>2. buffer' = Erase(buf, 4)
      BY <1>5, <1>9, <2>5, <3>1
    <3>3. QED
      BY <1>8, <3>1, <3>2
  <2>8. /\ state' = "READ_PART_BODY" /\ phase' = "feed" /\ current' = ps[j].file
    BY <1>4, <1>5, <1>9, <2>5
  <2>9. Reached(ps, B, P, j, c + 4)'
    <3>1. /\ c + 4 \in Nat /\ r \in c + 4..Len(B) /\ j \in 0..n /\ j >= 1
          /\ P[j - 1] + 4 <= c + 4 /\ c + 4 <= P[j] - 2
      <4>1. c + 4 \in Nat /\ r \in c + 4..Len(B)
        BY <1>3, <1>6, <1>7, <2>5
      <4>2. j \in 0..n /\ j >= 1
        BY <1>6, <2>3 DEF n
      <4>3. P[j - 1] + 4 <= c + 4 /\ c + 4 <= P[j] - 2
        BY <2>3, <2>6
      <4>4. QED
        BY <4>1, <4>2, <4>3
    <3>2. QED
      BY <1>2, <1>3, <1>4, <2>7, <2>8, <3>1 DEF Reached, n
  <2>10. ps[j].file \in File
    <3>1. ps[j] \in Part
      BY <1>1, <2>3
    <3>2. QED
      BY <3>1, PartTypes
  <2>11. QED
    BY <1>3, <2>3, <2>8, <2>9, <2>10 DEF j, n
<1>10. CASE ~Found(buf, HeaderEnd)
  <2>1. phase' = "read" /\ current' = current /\ buffer' = buf /\ state' = state
    BY <1>5, <1>10
  <2>2. Reached(ps, B, P, k, c)'
    BY <1>2, <1>3, <1>4, <2>1 DEF Reached, n
  <2>3. k = n \/ r < P[k] + 4
    <3> SUFFICES ASSUME k # n PROVE r < P[k] + 4
      OBVIOUS
    <3>1. k + 1 \in 1..n /\ (k + 1) - 1 = k
      BY <1>3, <1>6
    <3> DEFINE j == k + 1
    <3>2. j \in 1..Len(ps) /\ c = P[j - 1]
      BY <1>3, <3>1 DEF n
    <3> HIDE DEF j
    <3>3. HeaderFacts(ps, j, c, r, buf)
      BY <1>1, <1>3, <1>7, <3>2, HeaderAhead
    <3>4. ~(c + 4 <= r)
      BY <1>10, <3>3 DEF HeaderFacts
    <3>5. QED
      BY <1>3, <1>7, <3>4
  <2>4. Waits(ps, P, k)'
    BY <1>2, <1>4, <2>1, <2>3 DEF Waits, n
  <2>5. QED
    BY <2>1, <2>2, <2>4
<1>11. QED
  BY <1>9, <1>10

\* while it reads the header of a part,
LEMMA ReadPartHeaderStep ==
  ASSUME NEW ps, NEW B, NEW P, NEW S, Laid(ps, B, P, S), UploadInv(ps, B, P, S),
         ReadPartHeader
  PROVE  UploadInv(ps, B, P, S)'
<1>1. PICK k, c : Progress(ps, B, P, S, k, c)
  BY DEF UploadInv
<1>2. Reached(ps, B, P, k, c) /\ k \in 0..Len(ps) /\ ps \in Seq(Part)
  BY <1>1 DEF Progress, Reached, Laid
<1>3. phase = "feed" /\ state = "READ_PART_HEADER" /\ swallowed' = swallowed
  BY DEF ReadPartHeader, Feeds, hist
<1>4. /\ saved' = saved /\ failed' = failed /\ disk' = disk
      /\ tasks' = tasks /\ notify' = notify /\ worker' = worker /\ task' = task
      /\ stop' = stop
  BY DEF ReadPartHeader, pool, hist
<1>5. Pending' = Pending
  BY <1>4 DEF Pending
<1>6. ASSUME phase' \in {"feed", "read"}, current' \in File \cup {NoFile} PROVE PoolOK'
  BY <1>3, <1>4, <1>6, QueueKept DEF UploadInv, PoolOK
<1>7. CASE /\ k + 1 \in 1..Len(ps) /\ state' = "READ_PART_BODY" /\ phase' = "feed"
           /\ current' = ps[k + 1].file /\ current' \in File
           /\ Reached(ps, B, P, k + 1, P[k] + 4)'
  <2> DEFINE j == k + 1
  <2>1. j - 1 = k /\ j \in 1..Len(ps)
    BY <1>2, <1>7
  <2>2. Waits(ps, P, j)'
    BY <1>7 DEF Waits
  <2>3. ASSUME ~swallowed' PROVE SavedAt(ps, B, j)' /\ HandedAt(ps, B, P, S, j, P[k] + 4)'
    <3>1. SavedAt(ps, B, k) /\ HandedAt(ps, B, P, S, k, c)
      BY <1>1, <1>3, <2>3 DEF Progress
    <3>2. SavedAt(ps, B, j)'
      BY <1>3, <1>4, <1>7, <2>1, <3>1 DEF SavedAt
    <3>3. PICK D : /\ Delivered(D, ps, B, P, S, k, state, c)
                   /\ Handed(disk, Pending, D, failed)
      BY <3>1 DEF HandedAt
    <3> HIDE DEF j
    <3>4. Delivered(D, ps, B, P, S, j, "READ_PART_BODY", P[k] + 4)
      <4>1. Delivered(D, ps, B, P, S, j - 1, "READ_PART_HEADER", c)
        BY <1>3, <2>1, <3>3
      <4>2. PICK m : m = P[j - 1] + 4
        OBVIOUS
      <4>3. Delivered(D, ps, B, P, S, j, "READ_PART_BODY", m)
        BY <2>1, <4>1, <4>2, PartBegun
      <4>4. QED
        BY <2>1, <4>2, <4>3
    <3>5. Handed(disk', Pending', D, failed')
      BY <1>4, <1>5, <3>3
    <3>6. QED
      BY <1>7, <3>2, <3>4, <3>5 DEF HandedAt
  <2>4. Progress(ps, B, P, S, j, P[k] + 4)'
    BY <1>7, <2>2, <2>3 DEF Progress
  <2>5. QED
    BY <1>6, <1>7, <2>4 DEF UploadInv
<1>8. CASE /\ state' = state /\ phase' = "read" /\ current' = current
           /\ Reached(ps, B, P, k, c)' /\ Waits(ps, P, k)'
  <2>1. ASSUME ~swallowed' PROVE SavedAt(ps, B, k)' /\ HandedAt(ps, B, P, S, k, c)'
    <3>1. SavedAt(ps, B, k) /\ HandedAt(ps, B, P, S, k, c)
      BY <1>1, <1>3, <2>1 DEF Progress
    <3>2. SavedAt(ps, B, k)'
      BY <1>3, <1>4, <1>8, <3>1 DEF SavedAt
    <3>3. HandedAt(ps, B, P, S, k, c)'
      BY <1>4, <1>5, <1>8, <3>1 DEF HandedAt
    <3>4. QED
      BY <3>2, <3>3
  <2>2. Progress(ps, B, P, S, k, c)'
    BY <1>8, <2>1 DEF Progress
  <2>3. PoolOK'
    BY <1>6, <1>8 DEF UploadInv, PoolOK
  <2>4. QED
    BY <2>2, <2>3 DEF UploadInv
<1>9. QED
  BY <1>2, <1>7, <1>8, ReadPartHeaderMoves

\* addTask puts a task behind the others.
LEMMA AddTaskHands ==
  ASSUME NEW x \in IOTask, NEW D, PoolOK, Handed(disk, Pending, D, failed),
         tasks' = Append(tasks, x), worker' = worker, task' = task, disk' = disk,
         failed' = failed
  PROVE  Handed(disk', Pending', After(D, x), failed')
<1> DEFINE a == IF worker = "execute" THEN <<task>> ELSE <<>>
<1>1. tasks \in Seq(IOTask) /\ (worker = "execute" => task \in IOTask)
  BY DEF PoolOK
<1>2. a \in Seq(IOTask)
  BY <1>1
<1>3. Pending = a \o tasks /\ Pending' = a \o Append(tasks, x)
  BY DEF Pending
<1> HIDE DEF a
<1>4. PICK p : p = Pending
  OBVIOUS
<1>5. p \in Seq(IOTask)
  BY <1>4, PendingTypes
<1>6. Pending' = Append(p, x)
  <2>1. ASSUME NEW t \in Seq(IOTask) PROVE a \o Append(t, x) = Append(a \o t, x)
    BY <1>2
  <2>2. QED
    BY <1>1, <1>3, <1>4, <2>1
<1>7. PICK d, l : d = disk /\ l = failed
  OBVIOUS
<1>8. Handed(d, p, D, l)
  BY <1>4, <1>7
<1>9. Handed(d, Append(p, x), After(D, x), l)
  BY <1>5, <1>8, HandsOver
<1>10. QED
  BY <1>6, <1>7, <1>9

\* In a part: how far the buffer can be let go.
InPartFacts(ps, B, P, k, c, buf) ==
  /\ k \in 1..Len(ps) /\ current = ps[k].file /\ ps[k].file \in File
  /\ c \in P[k - 1] + 4..P[k] - 2 /\ P[k] \in Nat
  /\ Found(buf, boundary) <=> P[k] <= received
  /\ Found(buf, boundary) =>
       /\ Find(buf, boundary) = P[k] - 2 - c
       /\ SubSeq(buf, 1, P[k] - 2 - c) = SubSeq(B, c + 1, P[k] - 2)
       /\ Erase(buf, P[k] - 2 - c) = SubSeq(B, P[k] - 2 + 1, received)
       /\ P[k] - 2 \in Nat /\ received \in P[k] - 2..Len(B)
  /\ ~Found(buf, boundary) =>
       /\ Safe(buf) \in Nat /\ c + Safe(buf) \in c..P[k] - 2
       /\ SubSeq(buf, 1, Safe(buf)) = SubSeq(B, c + 1, c + Safe(buf))
       /\ Erase(buf, Safe(buf)) = SubSeq(B, c + Safe(buf) + 1, received)
       /\ received \in c + Safe(buf)..Len(B)

\* How the buffer of a part is cut.
LEMMA InPart ==
  ASSUME NEW ps, NEW B, NEW P, NEW S, Laid(ps, B, P, S), NEW k, NEW c,
         Reached(ps, B, P, k, c), state = "READ_PART_BODY", NEW buf, buf = buffer
  PROVE  InPartFacts(ps, B, P, k, c, buf)
<1>1. ps \in Seq(Part) /\ Layout(P, ps, B)
  BY DEF Laid
<1>2. PICK r : r = received
  OBVIOUS
<1>3. /\ k \in 0..Len(ps) /\ k >= 1 /\ c \in Nat /\ r \in c..Len(B)
      /\ buf = SubSeq(B, c + 1, r) /\ current = ps[k].file
      /\ P[k - 1] + 4 <= c /\ c <= P[k] - 2
  BY <1>2 DEF Reached
<1>4. B \in Seq(Unit) /\ Len(B) \in Nat
  BY <1>1 DEF Layout
<1>5. r \in Nat /\ c <= r /\ r <= Len(B) /\ k \in 1..Len(ps)
  BY <1>1, <1>3, <1>4
<1>6. /\ P[k - 1] \in Nat /\ P[k] \in Nat /\ Len(ps[k].data) \in Nat
      /\ P[k] = P[k - 1] + 4 + Len(ps[k].data) + 2
  BY <1>1, <1>5, Ends
<1>7. ps[k].file \in File
  <2>1. ps[k] \in Part
    BY <1>1, <1>5
  <2>2. QED
    BY <2>1, PartTypes
<1>8. BoundaryFacts(P, k, c, r, buf)
  <2>1. P[k - 1] - 1 <= c
    BY <1>3, <1>6
  <2>2. QED
    BY <1>1, <1>3, <1>5, <2>1, BoundaryAhead
<1>9. PieceFacts(B, c, r, buf)
  BY <1>3, <1>4, <1>5, Piece
<1>10. /\ Len(buf) = r - c
       /\ \A m \in 0..r - c : /\ Erase(buf, m) = SubSeq(B, c + m + 1, r)
                             /\ SubSeq(buf, 1, m) = SubSeq(B, c + 1, c + m)
  BY <1>9 DEF PieceFacts
<1>11. Found(buf, boundary) <=> P[k] <= r
  BY <1>8 DEF BoundaryFacts
<1>12. ASSUME Found(buf, boundary)
       PROVE  /\ Find(buf, boundary) = P[k] - 2 - c
              /\ SubSeq(buf, 1, P[k] - 2 - c) = SubSeq(B, c + 1, P[k] - 2)
              /\ Erase(buf, P[k] - 2 - c) = SubSeq(B, P[k] - 2 + 1, r)
              /\ P[k] - 2 \in Nat /\ r \in P[k] - 2..Len(B)
  <2>1. P[k] <= r /\ Find(buf, boundary) = P[k] - 2 - c
    BY <1>8, <1>12 DEF BoundaryFacts
  <2> DEFINE m == P[k] - 2 - c
  <2>2. m \in 0..r - c /\ c + m = P[k] - 2
    <3>1. c \in Nat /\ c <= P[k] - 2 /\ P[k] \in Nat /\ r \in Nat /\ P[k] <= r
      BY <1>3, <1>5, <1>6, <2>1
    <3>2. ASSUME NEW p \in Nat, c \in Nat, c <= p - 2, r \in Nat, p <= r
          PROVE  p - 2 - c \in 0..r - c /\ c + (p - 2 - c) = p - 2
      BY ONLY <3>2
    <3>3. QED
      BY ONLY <3>1, <3>2
  <2> HIDE DEF m
  <2>3. SubSeq(buf, 1, m) = SubSeq(B, c + 1, P[k] - 2) /\ Erase(buf, m) = SubSeq(B, P[k] - 2 + 1, r)
    BY <1>10, <2>2
  <2>4. P[k] - 2 \in Nat /\ r \in P[k] - 2..Len(B)
    <3>1. \A p, q, x, y \in Nat : p <= q - 2 /\ q <= x /\ x <= y
                                  => q - 2 \in Nat /\ x \in q - 2..y
      OBVIOUS
    <3>2. P[k] \in Nat /\ r \in Nat /\ r <= Len(B) /\ Len(B) \in Nat /\ c \in Nat /\ c <= P[k] - 2
      BY <1>3, <1>4, <1>5, <1>6
    <3>3. QED
      BY <2>1, <3>1, <3>2
  <2>5. QED
    BY <2>1, <2>3, <2>4 DEF m
<1>13. ASSUME ~Found(buf, boundary)
       PROVE  /\ Safe(buf) \in Nat /\ c + Safe(buf) \in c..P[k] - 2
              /\ SubSeq(buf, 1, Safe(buf)) = SubSeq(B, c + 1, c + Safe(buf))
              /\ Erase(buf, Safe(buf)) = SubSeq(B, c + Safe(buf) + 1, r)
              /\ r \in c + Safe(buf)..Len(B)
  <2>1. r < P[k]
    BY <1>5, <1>6, <1>11, <1>13
  <2>2. Safe(buf) = IF r - c > 2 THEN r - c - 2 ELSE 0
    <3>1. Len(boundary) = 2
      BY DEF boundary
    <3>2. QED
      BY <1>10, <3>1 DEF Safe
  <2> DEFINE m == Safe(buf)
  <2>3. m \in Nat /\ m <= r - c /\ c + m <= P[k] - 2
    <3>1. \A p, q, x, y \in Nat :
            p <= q - 2 /\ p <= x /\ x < q /\ y = (IF x - p > 2 THEN x - p - 2 ELSE 0)
            => y <= x - p /\ p + y <= q - 2
      OBVIOUS
    <3>2. P[k] \in Nat /\ r \in Nat /\ c \in Nat /\ c <= r /\ c <= P[k] - 2
      BY <1>3, <1>4, <1>5, <1>6
    <3>3. m \in Nat
      BY <2>2, <3>2
    <3>4. QED
      BY <2>1, <2>2, <3>1, <3>2, <3>3
  <2> HIDE DEF m
  <2>4. m \in 0..r - c /\ c + m \in c..P[k] - 2 /\ r \in c + m..Len(B)
    BY <1>3, <1>4, <1>5, <1>6, <2>3
  <2>5. SubSeq(buf, 1, m) = SubSeq(B, c + 1, c + m) /\ Erase(buf, m) = SubSeq(B, c + m + 1, r)
    BY <1>10, <2>4
  <2>6. QED
    BY <2>3, <2>4, <2>5 DEF m
<1>14. c \in P[k - 1] + 4..P[k] - 2
  BY <1>3, <1>6
<1>15. QED
  BY <1>2, <1>3, <1>5, <1>6, <1>7, <1>11, <1>12, <1>13, <1>14 DEF InPartFacts

\* Data of the part goes to the pool, if it is not empty.
LEMMA DataHandedOver ==
  ASSUME NEW ps, NEW B, NEW P, NEW S, Laid(ps, B, P, S), NEW k \in 1..Len(ps),
         NEW c \in P[k - 1] + 4..P[k] - 2, NEW m \in c..P[k] - 2, NEW dat,
         dat = SubSeq(B, c + 1, m), PoolOK, phase = "feed", current = ps[k].file,
         current \in File, state = "READ_PART_BODY",
         IF m # c THEN AddTask(current, dat) ELSE UNCHANGED pool,
         disk' = disk, failed' = failed
  PROVE  /\ tasks' \in Seq(IOTask) /\ notify' \in BOOLEAN /\ worker' = worker
         /\ task' = task /\ stop' = stop /\ NothingLeftBehind'
         /\ HandedAt(ps, B, P, S, k, c) =>
              \E D : /\ Delivered(D, ps, B, P, S, k, "READ_PART_BODY", m)
                     /\ Handed(disk', Pending', D, failed')
<1>1. NothingLeftBehind /\ tasks \in Seq(IOTask) /\ notify \in BOOLEAN
  BY DEF PoolOK
<1>l. PICK late : late = (worker = "gone")
  OBVIOUS
<1>b. late \in BOOLEAN
  BY <1>l
<1> DEFINE x == [path |-> ps[k].file, data |-> dat, late |-> late]
<1>2. x \in IOTask /\ (worker = "gone" => x.late)
  <2>1. ps \in Seq(Part) /\ Layout(P, ps, B)
    BY DEF Laid
  <2>2. DataFacts(ps, B, P, k, c)
    BY <2>1, DataOfPart
  <2>3. dat \in Seq(Unit)
    BY <2>2 DEF DataFacts
  <2>4. x \in IOTask
    BY <1>b, <2>3 DEF IOTask
  <2>5. worker = "gone" => x.late
    BY <1>l
  <2>6. QED
    BY <2>4, <2>5
<1>3. CASE m # c
  <2>1. /\ tasks' = Append(tasks, x) /\ notify' = TRUE /\ worker' = worker
        /\ task' = task /\ stop' = stop
    BY <1>3, <1>l DEF AddTask
  <2>2. Append(tasks, x) \in Seq(IOTask) /\ NothingLeftBehind'
    <3> HIDE DEF x
    <3>1. QED
      BY <1>1, <1>2, <2>1, QueueGrows
  <2>3. ASSUME HandedAt(ps, B, P, S, k, c)
        PROVE  \E D : /\ Delivered(D, ps, B, P, S, k, "READ_PART_BODY", m)
                      /\ Handed(disk', Pending', D, failed')
    <3>1. PICK D : /\ Delivered(D, ps, B, P, S, k, "READ_PART_BODY", c)
                   /\ Handed(disk, Pending, D, failed)
      BY <2>3 DEF HandedAt
    <3>2. PICK y : y = x
      OBVIOUS
    <3>3. Delivered(After(D, y), ps, B, P, S, k, "READ_PART_BODY", m)
      <4>1. y = [path |-> ps[k].file, data |-> SubSeq(B, c + 1, m), late |-> late]
        BY <3>2
      <4> HIDE DEF x
      <4>2. QED
        BY <1>b, <3>1, <4>1, PartContinued
    <3> HIDE DEF x
    <3>4. Handed(disk', Pending', After(D, y), failed')
      BY <1>2, <2>1, <3>1, <3>2, AddTaskHands
    <3>5. QED
      BY <3>3, <3>4
  <2>4. QED
    BY <1>1, <2>1, <2>2, <2>3
<1>4. CASE m = c
  <2>1. /\ tasks' = tasks /\ notify' = notify /\ worker' = worker
        /\ task' = task /\ stop' = stop
    BY <1>4 DEF pool
  <2>2. Pending' = Pending
    BY <2>1 DEF Pending
  <2>3. ASSUME HandedAt(ps, B, P, S, k, c)
        PROVE  \E D : /\ Delivered(D, ps, B, P, S, k, "READ_PART_BODY", m)
                      /\ Handed(disk', Pending', D, failed')
    BY <1>4, <2>2, <2>3 DEF HandedAt
  <2>4. NothingLeftBehind'
    BY <1>1, <2>1, QueueKept
  <2>5. QED
    BY <1>1, <2>1, <2>3, <2>4
<1>5. QED
  BY <1>3, <1>4

\* The end of the part.
LEMMA EndPartStep ==
  ASSUME NEW ps, NEW B, NEW P, NEW S, Laid(ps, B, P, S), UploadInv(ps, B, P, S), EndPart
  PROVE  UploadInv(ps, B, P, S)'
<1>1. PICK k, c : Progress(ps, B, P, S, k, c)
  BY DEF UploadInv
<1>2. PICK buf : buf = buffer
  OBVIOUS
<1>3. Reached(ps, B, P, k, c) /\ PoolOK /\ ps \in Seq(Part) /\ Layout(P, ps, B)
  BY <1>1 DEF Progress, UploadInv, Laid
<1>4. /\ phase = "feed" /\ state = "READ_PART_BODY" /\ Found(buf, boundary)
      /\ IF Find(buf, boundary) > 0
         THEN AddTask(current, SubSeq(buf, 1, Find(buf, boundary)))
         ELSE UNCHANGED pool
      /\ buffer' = Erase(buf, Find(buf, boundary))
      /\ saved' = Append(saved, current) /\ state' = "FIND_BOUNDARY"
      /\ parts' = parts /\ received' = received /\ phase' = phase
      /\ current' = current /\ disk' = disk /\ failed' = failed
      /\ swallowed' = swallowed
  BY <1>2 DEF EndPart, Feeds, reader, hist
<1>5. /\ k \in 1..Len(ps) /\ current = ps[k].file /\ ps[k].file \in File
      /\ c \in P[k - 1] + 4..P[k] - 2 /\ P[k] \in Nat
      /\ Find(buf, boundary) = P[k] - 2 - c
      /\ SubSeq(buf, 1, P[k] - 2 - c) = SubSeq(B, c + 1, P[k] - 2)
      /\ Erase(buf, P[k] - 2 - c) = SubSeq(B, P[k] - 2 + 1, received)
      /\ P[k] - 2 \in Nat /\ received \in P[k] - 2..Len(B)
  <2>1. InPartFacts(ps, B, P, k, c, buf)
    BY <1>2, <1>3, <1>4, InPart
  <2>2. QED
    BY <1>4, <2>1 DEF InPartFacts
<1> DEFINE m == P[k] - 2
           dat == SubSeq(B, c + 1, m)
<1>6. /\ m \in c..P[k] - 2
      /\ Find(buf, boundary) = m - c /\ (m - c > 0 <=> m # c)
  <2>1. /\ P[k - 1] \in Nat /\ P[k] \in Nat /\ Len(ps[k].data) \in Nat
        /\ P[k] = P[k - 1] + 4 + Len(ps[k].data) + 2
    BY <1>3, <1>5, Ends
  <2>2. ASSUME NEW p \in Nat, NEW q \in Nat, NEW d \in Nat, p = q + 4 + d + 2,
               c \in q + 4..p - 2
        PROVE  p - 2 \in c..p - 2 /\ (p - 2 - c > 0 <=> p - 2 # c)
    BY ONLY <2>2
  <2>3. m \in c..P[k] - 2 /\ (m - c > 0 <=> m # c)
    BY <1>5, <2>1, <2>2
  <2>4. QED
    BY <1>5, <2>3
<1>7. IF m # c THEN AddTask(current, dat) ELSE UNCHANGED pool
  BY <1>4, <1>5, <1>6
<1>8. buffer' = SubSeq(B, m + 1, received) /\ m \in Nat /\ received \in m..Len(B)
  BY <1>4, <1>5
<1>m. m = P[k] - 2
  OBVIOUS
<1>d. dat = SubSeq(B, c + 1, m)
  OBVIOUS
<1> HIDE DEF m, dat
<1>9. Reached(ps, B, P, k, m)'
  <2>1. k \in 0..Len(ps) /\ k >= 1 /\ parts = ps
    BY <1>3, <1>5 DEF Reached
  <2>2. QED
    BY <1>4, <1>8, <1>m, <2>1 DEF Reached
<1>10. Waits(ps, P, k)'
  BY <1>4 DEF Waits
<1>11. /\ tasks' \in Seq(IOTask) /\ notify' \in BOOLEAN /\ worker' = worker
       /\ task' = task /\ stop' = stop /\ NothingLeftBehind'
       /\ HandedAt(ps, B, P, S, k, c) =>
            \E D : /\ Delivered(D, ps, B, P, S, k, "READ_PART_BODY", m)
                   /\ Handed(disk', Pending', D, failed')
  BY <1>3, <1>4, <1>5, <1>6, <1>7, <1>d, DataHandedOver
<1>12. PoolOK'
  <2>1. saved' \in Seq(File)
    BY <1>3, <1>4, <1>5 DEF PoolOK
  <2>2. QED
    BY <1>3, <1>4, <1>11, <2>1 DEF PoolOK
<1>13. ASSUME ~swallowed' PROVE SavedAt(ps, B, k)' /\ HandedAt(ps, B, P, S, k, m)'
  <2>1. SavedAt(ps, B, k) /\ HandedAt(ps, B, P, S, k, c)
    BY <1>1, <1>4, <1>13 DEF Progress
  <2>2. saved = Names(ps, k - 1)
    BY <1>4, <2>1 DEF SavedAt
  <2>3. saved' = Names(ps, k) /\ k # 0
    <3>1. Append(Names(ps, k - 1), ps[k].file) = Names(ps, k)
      BY <1>3, <1>5, SavedNames
    <3>2. k # 0
      BY <1>3, <1>5
    <3>3. QED
      BY <1>4, <1>5, <2>2, <3>1, <3>2
  <2>4. SavedAt(ps, B, k)'
    BY <1>4, <1>5, <2>3 DEF SavedAt
  <2>5. PICK D : /\ Delivered(D, ps, B, P, S, k, "READ_PART_BODY", m)
                 /\ Handed(disk', Pending', D, failed')
    BY <1>11, <2>1
  <2>6. Delivered(D, ps, B, P, S, k, "FIND_BOUNDARY", m)
    BY <1>5, <1>m, <2>5, PartEnded
  <2>7. QED
    BY <1>4, <2>4, <2>5, <2>6 DEF HandedAt
<1>14. Progress(ps, B, P, S, k, m)'
  BY <1>9, <1>10, <1>13 DEF Progress
<1>15. QED
  BY <1>12, <1>14 DEF UploadInv

\* More of the part.
LEMMA MorePartStep ==
  ASSUME NEW ps, NEW B, NEW P, NEW S, Laid(ps, B, P, S), UploadInv(ps, B, P, S), MorePart
  PROVE  UploadInv(ps, B, P, S)'
<1>1. PICK k, c : Progress(ps, B, P, S, k, c)
  BY DEF UploadInv
<1>2. PICK buf : buf = buffer
  OBVIOUS
<1>3. Reached(ps, B, P, k, c) /\ PoolOK /\ ps \in Seq(Part) /\ Layout(P, ps, B)
  BY <1>1 DEF Progress, UploadInv, Laid
<1>4. /\ phase = "feed" /\ state = "READ_PART_BODY" /\ ~Found(buf, boundary)
      /\ IF Safe(buf) > 0 THEN AddTask(current, SubSeq(buf, 1, Safe(buf)))
         ELSE UNCHANGED pool
      /\ buffer' = Erase(buf, Safe(buf)) /\ phase' = "read"
      /\ state' = state /\ saved' = saved
      /\ parts' = parts /\ received' = received
      /\ current' = current /\ disk' = disk /\ failed' = failed
      /\ swallowed' = swallowed
  BY <1>2 DEF MorePart, Feeds, reader, hist
<1>5. /\ k \in 1..Len(ps) /\ current = ps[k].file /\ ps[k].file \in File
      /\ c \in P[k - 1] + 4..P[k] - 2 /\ P[k] \in Nat
      /\ Safe(buf) \in Nat /\ c + Safe(buf) \in c..P[k] - 2
      /\ SubSeq(buf, 1, Safe(buf)) = SubSeq(B, c + 1, c + Safe(buf))
      /\ Erase(buf, Safe(buf)) = SubSeq(B, c + Safe(buf) + 1, received)
      /\ received \in c + Safe(buf)..Len(B) /\ ~(P[k] <= received)
  <2>1. InPartFacts(ps, B, P, k, c, buf)
    BY <1>2, <1>3, <1>4, InPart
  <2>2. QED
    BY <1>4, <2>1 DEF InPartFacts
<1> DEFINE m == c + Safe(buf)
           dat == SubSeq(B, c + 1, m)
<1>f. /\ P[k - 1] \in Nat /\ P[k] \in Nat /\ Len(ps[k].data) \in Nat
      /\ P[k] = P[k - 1] + 4 + Len(ps[k].data) + 2
  BY <1>3, <1>5, Ends
<1>n. received \in Nat /\ c \in Nat /\ m \in Nat
  BY <1>3, <1>5, <1>f DEF Reached, Layout
<1>6. m \in c..P[k] - 2 /\ (Safe(buf) > 0 <=> m # c)
  <2>1. m \in c..P[k] - 2
    BY <1>5
  <2>2. ASSUME NEW s \in Nat PROVE s > 0 <=> c + s # c
    BY <1>n
  <2>3. QED
    BY <1>5, <2>1, <2>2
<1>7. IF m # c THEN AddTask(current, dat) ELSE UNCHANGED pool
  BY <1>4, <1>5, <1>6
<1>8. buffer' = SubSeq(B, m + 1, received) /\ received \in m..Len(B)
  BY <1>4, <1>5
<1>d. dat = SubSeq(B, c + 1, m)
  OBVIOUS
<1> HIDE DEF m, dat
<1>9. Reached(ps, B, P, k, m)'
  <2>1. k \in 0..Len(ps) /\ k >= 1 /\ parts = ps
    BY <1>3, <1>5 DEF Reached
  <2>2. P[k - 1] + 4 <= m /\ m <= P[k] - 2
    <3>1. ASSUME NEW p \in Nat, NEW q \in Nat, c \in q + 4..p - 2, m \in c..p - 2
          PROVE  q + 4 <= m /\ m <= p - 2
      BY ONLY <3>1, <1>n
    <3>2. QED
      BY <1>5, <1>6, <1>f, <3>1
  <2>3. QED
    BY <1>4, <1>5, <1>8, <1>n, <2>1, <2>2 DEF Reached
<1>10. Waits(ps, P, k)'
  <2>1. received < P[k]
    BY <1>5, <1>f, <1>n
  <2>2. QED
    BY <1>4, <2>1 DEF Waits
<1>11. /\ tasks' \in Seq(IOTask) /\ notify' \in BOOLEAN /\ worker' = worker
       /\ task' = task /\ stop' = stop /\ NothingLeftBehind'
       /\ HandedAt(ps, B, P, S, k, c) =>
            \E D : /\ Delivered(D, ps, B, P, S, k, "READ_PART_BODY", m)
                   /\ Handed(disk', Pending', D, failed')
  BY <1>3, <1>4, <1>5, <1>6, <1>7, <1>d, DataHandedOver
<1>12. PoolOK'
  BY <1>3, <1>4, <1>11 DEF PoolOK
<1>13. ASSUME ~swallowed' PROVE SavedAt(ps, B, k)' /\ HandedAt(ps, B, P, S, k, m)'
  <2>1. SavedAt(ps, B, k) /\ HandedAt(ps, B, P, S, k, c)
    BY <1>1, <1>4, <1>13 DEF Progress
  <2>2. SavedAt(ps, B, k)'
    BY <1>4, <2>1 DEF SavedAt
  <2>3. HandedAt(ps, B, P, S, k, m)'
    BY <1>4, <1>11, <2>1 DEF HandedAt
  <2>4. QED
    BY <2>2, <2>3
<1>14. Progress(ps, B, P, S, k, m)'
  BY <1>9, <1>10, <1>13 DEF Progress
<1>15. QED
  BY <1>12, <1>14 DEF UploadInv

-----------------------------------------------------------------------------
(* The call, its end, and what surrounds the processor.                    *)
\* handle_multipart_streaming is called, with what was read along with the header.
LEMMA StartsStep ==
  ASSUME NEW ps, NEW B, NEW P, NEW S, Laid(ps, B, P, S), UploadInv(ps, B, P, S),
         B = Body, NEW n \in 0..Len(B), Starts(n)
  PROVE  UploadInv(ps, B, P, S)'
<1>1. PICK k, c : Progress(ps, B, P, S, k, c)
  BY DEF UploadInv
<1>2. Reached(ps, B, P, k, c) /\ PoolOK /\ ps \in Seq(Part) /\ Layout(P, ps, B)
  BY <1>1 DEF Progress, UploadInv, Laid
<1>3. /\ phase = "header" /\ received' = n /\ buffer' = SubSeq(B, 1, n)
      /\ phase' = IF n > 0 THEN "feed" ELSE "read"
      /\ parts' = parts /\ state' = state /\ current' = current /\ saved' = saved
      /\ tasks' = tasks /\ notify' = notify /\ worker' = worker /\ task' = task
      /\ stop' = stop /\ disk' = disk /\ failed' = failed /\ swallowed' = swallowed
  BY DEF Starts, pool, hist
<1>4. received = 0 /\ c = 0 /\ k \in 0..Len(ps)
  <2>1. received = 0 /\ c \in Nat /\ received \in c..Len(B) /\ k \in 0..Len(ps)
    BY <1>2, <1>3 DEF Reached
  <2>2. QED
    BY <2>1
<1>5. P[0] = 1 /\ Len(B) \in Nat /\ Len(ps) \in Nat /\ \A i \in 1..Len(ps) : P[i] >= 7
  <2>1. ASSUME NEW i \in 1..Len(ps) PROVE P[i] >= 7
    <3>1. /\ P[i - 1] \in Nat /\ P[i] \in Nat /\ Len(ps[i].data) \in Nat
          /\ P[i] = P[i - 1] + 4 + Len(ps[i].data) + 2 /\ P[i - 1] >= 1
      BY <1>2, Ends
    <3>2. QED
      BY <3>1
  <2>2. P[0] = 1 /\ Len(B) \in Nat /\ Len(ps) \in Nat
    BY <1>2 DEF Layout
  <2>3. QED
    BY <2>1, <2>2
<1>6. k = 0 /\ state = "FIND_BOUNDARY"
  <2>1. ASSUME k # 0 PROVE FALSE
    <3>1. k \in 1..Len(ps)
      BY <1>4, <1>5, <2>1
    <3>2. P[k] >= 7
      BY <1>5, <3>1
    <3>3. /\ P[k - 1] \in Nat /\ P[k] \in Nat
      BY <1>2, <3>1, Ends
    <3>4. c = P[k] - 2 \/ c = P[k] \/ P[k - 1] + 4 <= c
      BY <1>2, <2>1 DEF Reached
    <3>5. QED
      BY <1>4, <3>2, <3>3, <3>4
  <2>2. k = 0
    BY <2>1
  <2>3. ~(k >= 1) /\ c # P[k]
    BY <1>4, <1>5, <2>2
  <2>4. QED
    BY <1>2, <2>2, <2>3 DEF Reached
<1>7. Reached(ps, B, P, k, c)'
  <2>1. n \in c..Len(B) /\ c + 1 = 1 /\ phase' # "header"
    BY <1>3, <1>4, <1>5
  <2>2. parts = ps
    BY <1>2 DEF Reached
  <2>3. QED
    BY <1>3, <1>4, <1>6, <2>1, <2>2 DEF Reached
<1>8. Waits(ps, P, k)'
  <2>1. phase' = "read" => n < P[k]
    BY <1>3, <1>5, <1>6
  <2>2. QED
    BY <1>3, <1>6, <2>1 DEF Waits
<1>9. PoolOK'
  BY <1>2, <1>3, QueueKept DEF PoolOK
<1>10. ASSUME ~swallowed' PROVE SavedAt(ps, B, k)' /\ HandedAt(ps, B, P, S, k, c)'
  <2>1. SavedAt(ps, B, k) /\ HandedAt(ps, B, P, S, k, c)
    BY <1>1, <1>3, <1>10 DEF Progress
  <2>2. SavedAt(ps, B, k)'
    BY <1>3, <2>1 DEF SavedAt
  <2>3. Pending' = Pending
    BY <1>3 DEF Pending
  <2>4. HandedAt(ps, B, P, S, k, c)'
    BY <1>3, <2>1, <2>3 DEF HandedAt
  <2>5. QED
    BY <2>2, <2>4
<1>11. Progress(ps, B, P, S, k, c)'
  BY <1>7, <1>8, <1>10 DEF Progress
<1>12. QED
  BY <1>9, <1>11 DEF UploadInv

\* A piece of the body is read.
LEMMA ReceiveStep ==
  ASSUME NEW ps, NEW B, NEW P, NEW S, Laid(ps, B, P, S), UploadInv(ps, B, P, S),
         B = Body, Receive
  PROVE  UploadInv(ps, B, P, S)'
<1>1. PICK k, c : Progress(ps, B, P, S, k, c)
  BY DEF UploadInv
<1>2. Reached(ps, B, P, k, c) /\ PoolOK /\ ps \in Seq(Part) /\ Layout(P, ps, B)
  BY <1>1 DEF Progress, UploadInv, Laid
<1>3. PICK r, buf : r = received /\ buf = buffer
  OBVIOUS
<1>4. PICK n \in 1..Len(B) - r : received' = r + n /\ buffer' = buf \o SubSeq(B, r + 1, r + n)
  BY <1>3 DEF Receive
<1>5. /\ phase = "read" /\ phase' = "feed"
      /\ parts' = parts /\ state' = state /\ current' = current /\ saved' = saved
      /\ tasks' = tasks /\ notify' = notify /\ worker' = worker /\ task' = task
      /\ stop' = stop /\ disk' = disk /\ failed' = failed /\ swallowed' = swallowed
  BY DEF Receive, pool, hist
<1>6. c \in Nat /\ r \in c..Len(B) /\ buf = SubSeq(B, c + 1, r)
  BY <1>2, <1>3 DEF Reached
<1>7. B \in Seq(Unit) /\ Len(B) \in Nat /\ r \in Nat /\ c <= r /\ r <= Len(B)
  <2>1. B \in Seq(Unit) /\ Len(B) \in Nat
    BY <1>2 DEF Layout
  <2>2. QED
    BY <1>6, <2>1
<1>8. buffer' = SubSeq(B, c + 1, r + n) /\ r + n \in c..Len(B)
  <2>1. PieceFacts(B, c, r, buf)
    BY <1>6, <1>7, Piece
  <2>2. r + n \in r..Len(B) /\ r + n \in c..Len(B)
    <3>1. n \in Nat /\ n <= Len(B) - r
      BY <1>7
    <3>2. QED
      BY <1>6, <1>7, <3>1
  <2>3. \A m \in r..Len(B) : buf \o SubSeq(B, r + 1, m) = SubSeq(B, c + 1, m)
    BY <2>1 DEF PieceFacts
  <2>4. QED
    BY <1>4, <2>2, <2>3
<1>9. Reached(ps, B, P, k, c)'
  BY <1>2, <1>4, <1>5, <1>8 DEF Reached
<1>10. Waits(ps, P, k)'
  BY <1>5 DEF Waits
<1>11. PoolOK'
  BY <1>2, <1>5, QueueKept DEF PoolOK
<1>12. ASSUME ~swallowed' PROVE SavedAt(ps, B, k)' /\ HandedAt(ps, B, P, S, k, c)'
  <2>1. SavedAt(ps, B, k) /\ HandedAt(ps, B, P, S, k, c)
    BY <1>1, <1>5, <1>12 DEF Progress
  <2>2. SavedAt(ps, B, k)'
    BY <1>5, <2>1 DEF SavedAt
  <2>3. Pending' = Pending
    BY <1>5 DEF Pending
  <2>4. HandedAt(ps, B, P, S, k, c)'
    BY <1>5, <2>1, <2>3 DEF HandedAt
  <2>5. QED
    BY <2>2, <2>4
<1>13. Progress(ps, B, P, S, k, c)'
  BY <1>9, <1>10, <1>12 DEF Progress
<1>14. QED
  BY <1>11, <1>13 DEF UploadInv

\* Only the phase changes.
LEMMA PhaseStep ==
  ASSUME NEW ps, NEW B, NEW P, NEW S, Laid(ps, B, P, S), UploadInv(ps, B, P, S),
         Stops \/ FeedEnds
  PROVE  UploadInv(ps, B, P, S)'
<1>1. PICK k, c : Progress(ps, B, P, S, k, c)
  BY DEF UploadInv
<1>2. Reached(ps, B, P, k, c) /\ PoolOK /\ ps \in Seq(Part) /\ Layout(P, ps, B)
  BY <1>1 DEF Progress, UploadInv, Laid
<1>3. /\ phase \in {"read", "feed"} /\ phase' \in {"finish", "read"}
      /\ received' = received /\ buffer' = buffer
      /\ parts' = parts /\ state' = state /\ current' = current /\ saved' = saved
      /\ tasks' = tasks /\ notify' = notify /\ worker' = worker /\ task' = task
      /\ stop' = stop /\ disk' = disk /\ failed' = failed /\ swallowed' = swallowed
  BY DEF Stops, FeedEnds, reader, processor, pool, hist
<1>4. Reached(ps, B, P, k, c)'
  BY <1>2, <1>3 DEF Reached
<1>5. Waits(ps, P, k)'
  <2>1. CASE Stops
    <3>1. phase = "read"
      BY <2>1 DEF Stops
    <3>2. QED
      BY <1>1, <1>3, <3>1 DEF Progress, Waits
  <2>2. CASE FeedEnds
    <3>1. PICK r, buf : r = received /\ buf = buffer
      OBVIOUS
    <3>2. buf = <<>>
      BY <2>2, <3>1 DEF FeedEnds
    <3>3. c \in Nat /\ r \in c..Len(B) /\ buf = SubSeq(B, c + 1, r) /\ k \in 0..Len(ps)
      BY <1>2, <3>1 DEF Reached
    <3>4. B \in Seq(Unit) /\ Len(B) \in Nat /\ r \in Nat /\ c <= r /\ r <= Len(B)
      <4>1. B \in Seq(Unit) /\ Len(B) \in Nat
        BY <1>2 DEF Layout
      <4>2. QED
        BY <3>3, <4>1
    <3>5. PieceFacts(B, c, r, buf)
      BY <3>3, <3>4, Piece
    <3>6. r = c
      BY <3>2, <3>5 DEF PieceFacts
    <3>7. P[k] \in Nat /\ P[0] = 1
      BY <1>2, <3>3 DEF Layout
    <3>8. IF state = "READ_PART_HEADER" THEN r < P[k] + 4 ELSE r < P[k]
      BY <1>2, <3>6, <3>7 DEF Reached
    <3>9. QED
      BY <1>3, <3>1, <3>8 DEF Waits
  <2>3. QED
    BY <2>1, <2>2
<1>6. PoolOK'
  BY <1>2, <1>3, QueueKept DEF PoolOK
<1>7. ASSUME ~swallowed' PROVE SavedAt(ps, B, k)' /\ HandedAt(ps, B, P, S, k, c)'
  <2>1. SavedAt(ps, B, k) /\ HandedAt(ps, B, P, S, k, c)
    BY <1>1, <1>3, <1>7 DEF Progress
  <2>2. SavedAt(ps, B, k)'
    BY <1>3, <2>1 DEF SavedAt
  <2>3. Pending' = Pending
    BY <1>3 DEF Pending
  <2>4. HandedAt(ps, B, P, S, k, c)'
    BY <1>3, <2>1, <2>3 DEF HandedAt
  <2>5. QED
    BY <2>2, <2>4
<1>8. Progress(ps, B, P, S, k, c)'
  BY <1>4, <1>5, <1>7 DEF Progress
<1>9. QED
  BY <1>6, <1>8 DEF UploadInv

\* When the whole body has arrived, the processor is behind the last boundary.
LEMMA AllParts ==
  ASSUME NEW ps, NEW B, NEW P, NEW S, Laid(ps, B, P, S), NEW k, NEW c,
         Reached(ps, B, P, k, c), Waits(ps, P, k), phase \in {"finish", "done"},
         received = Len(B)
  PROVE  state = "READ_PART_HEADER" /\ k = Len(ps) /\ c = P[k]
<1>1. ps \in Seq(Part) /\ Layout(P, ps, B)
  BY DEF Laid
<1> DEFINE n == Len(ps)
<1>2. n \in Nat /\ P[n] \in Nat /\ Len(B) = P[n] + 1 /\ k \in 0..n
  <2>1. P \in [0..n -> Nat] /\ Len(B) = P[n] + 1
    BY <1>1 DEF Layout
  <2>2. n \in Nat /\ n \in 0..n
    BY <1>1
  <2>3. k \in 0..n
    BY DEF Reached
  <2>4. QED
    BY <2>1, <2>2, <2>3
<1>3. P[k] \in Nat /\ P[k] <= P[n]
  <2>1. CASE k = 0
    <3>1. P[0] = 1 /\ (n = 0 \/ n \in 1..n)
      BY <1>1, <1>2 DEF Layout
    <3>2. CASE n = 0
      BY <1>2, <2>1, <3>2
    <3>3. CASE n \in 1..n
      <4>1. P[n - 1] \in Nat /\ P[n - 1] >= 1 /\ P[n] \in Nat /\ Len(ps[n].data) \in Nat
            /\ P[n] = P[n - 1] + 4 + Len(ps[n].data) + 2
        BY <1>1, <3>3, Ends
      <4>2. QED
        BY <2>1, <3>1, <4>1
    <3>4. QED
      BY <3>1, <3>2, <3>3
  <2>2. CASE k # 0
    <3>1. k \in 1..n
      BY <1>2, <2>2
    <3>2. QED
      BY <1>1, <1>2, <3>1 DEF Layout
  <2>3. QED
    BY <2>1, <2>2
<1>4. IF state = "READ_PART_HEADER" THEN k = n \/ P[n] + 1 < P[k] + 4 ELSE P[n] + 1 < P[k]
  BY <1>2 DEF Waits
<1>5. state = "READ_PART_HEADER"
  BY <1>2, <1>3, <1>4
<1>6. k = n
  <2> SUFFICES ASSUME k # n PROVE FALSE
    OBVIOUS
  <2>1. k + 1 \in 1..n /\ (k + 1) - 1 = k
    BY <1>2
  <2> DEFINE j == k + 1
  <2>2. j \in 1..Len(ps) /\ j - 1 = k
    BY <2>1
  <2> HIDE DEF j
  <2>3. P[j - 1] \in Nat /\ P[j] \in Nat /\ Len(ps[j].data) \in Nat
        /\ P[j] = P[j - 1] + 4 + Len(ps[j].data) + 2
    BY <1>1, <2>2, Ends
  <2>4. P[j] <= P[n]
    BY <1>1, <2>2 DEF Layout
  <2>5. P[n] + 1 < P[k] + 4
    BY <1>4, <1>5
  <2>6. \A p, q, x, d \in Nat : ~(x = q + 4 + d + 2 /\ x <= p /\ p + 1 < q + 4)
    OBVIOUS
  <2>7. QED
    BY <1>2, <1>3, <2>2, <2>3, <2>4, <2>5, <2>6
<1>7. c = P[k]
  BY <1>5 DEF Reached
<1>8. QED
  BY <1>5, <1>6, <1>7

\* finish() adds an empty task, and its file is in the list already.
LEMMA finishStep ==
  ASSUME NEW ps, NEW B, NEW P, NEW S, Laid(ps, B, P, S), UploadInv(ps, B, P, S), finish
  PROVE  UploadInv(ps, B, P, S)'
<1>1. PICK k, c : Progress(ps, B, P, S, k, c)
  BY DEF UploadInv
<1>2. Reached(ps, B, P, k, c) /\ PoolOK /\ ps \in Seq(Part) /\ Layout(P, ps, B)
  BY <1>1 DEF Progress, UploadInv, Laid
<1>3. /\ phase = "finish" /\ phase' = "done" /\ ~notify
      /\ received' = received /\ buffer' = buffer
      /\ parts' = parts /\ state' = state /\ current' = current
      /\ worker' = worker /\ task' = task
      /\ stop' = stop /\ disk' = disk /\ failed' = failed /\ swallowed' = swallowed
  BY DEF finish, reader, pool, hist, AddTask
<1>l. PICK late : late = (worker = "gone")
  OBVIOUS
<1>b. late \in BOOLEAN
  BY <1>l
<1> DEFINE x == [path |-> current, data |-> <<>>, late |-> late]
<1>4. IF current = NoFile THEN saved' = saved /\ tasks' = tasks /\ notify' = notify
      ELSE /\ tasks' = Append(tasks, x) /\ notify' = TRUE
           /\ saved' = IF Contains(saved, current) THEN saved ELSE Append(saved, current)
  BY <1>l DEF finish, pool, AddTask
<1>5. current = NoFile \/ current \in File
  BY <1>2 DEF PoolOK
<1>6. NothingLeftBehind /\ tasks \in Seq(IOTask) /\ saved \in Seq(File)
  BY <1>2 DEF PoolOK
<1>7. /\ current \in File => x \in IOTask
      /\ worker = "gone" => x.late
  <2>1. current \in File => x \in IOTask
    BY <1>b DEF IOTask
  <2>2. worker = "gone" => x.late
    BY <1>l
  <2>3. QED
    BY <2>1, <2>2
<1>8. tasks' \in Seq(IOTask) /\ saved' \in Seq(File) /\ notify' \in BOOLEAN
      /\ NothingLeftBehind'
  <2>1. notify \in BOOLEAN
    BY <1>2 DEF PoolOK
  <2>2. QED
    <3>1. CASE current = NoFile
      <4>1. NothingLeftBehind'
        BY <1>3, <1>4, <1>6, <3>1, QueueKept
      <4>2. QED
        BY <1>4, <1>6, <2>1, <3>1, <4>1
    <3>2. CASE current # NoFile
      <4>1. current \in File /\ x \in IOTask
        BY <1>5, <1>7, <3>2
      <4>2. Append(tasks, x) \in Seq(IOTask) /\ Append(saved, current) \in Seq(File)
        BY <1>6, <4>1
      <4> HIDE DEF x
      <4>3. NothingLeftBehind'
        BY <1>3, <1>4, <1>6, <1>7, <3>2, <4>1, QueueGrows
      <4>4. QED
        BY <1>4, <1>6, <3>2, <4>2, <4>3
    <3>3. QED
      BY <3>1, <3>2
<1>9. PoolOK'
  BY <1>2, <1>3, <1>8 DEF PoolOK
<1>10. Reached(ps, B, P, k, c)'
  BY <1>2, <1>3 DEF Reached
<1>11. Waits(ps, P, k)'
  BY <1>1, <1>3 DEF Progress, Waits
<1>12. ASSUME ~swallowed' PROVE SavedAt(ps, B, k)' /\ HandedAt(ps, B, P, S, k, c)'
  <2>1. SavedAt(ps, B, k) /\ HandedAt(ps, B, P, S, k, c)
    BY <1>1, <1>3, <1>12 DEF Progress
  <2>2. ASSUME received = Len(B) PROVE saved' = Names(ps, Len(ps))
    <3>1. state = "READ_PART_HEADER" /\ k = Len(ps)
      BY <1>1, <1>2, <1>3, <2>2, AllParts DEF Progress
    <3>2. saved = Names(ps, k) /\ current = IF k = 0 THEN NoFile ELSE ps[k].file
      BY <1>3, <2>1, <3>1 DEF SavedAt
    <3>3. CASE current = NoFile
      BY <1>4, <3>1, <3>2, <3>3
    <3>4. CASE current # NoFile
      <4>1. k \in 1..Len(ps) /\ current = ps[k].file
        <5>1. k # 0 /\ Len(ps) \in Nat
          BY <1>2, <3>2, <3>4
        <5>2. QED
          BY <3>1, <3>2, <5>1
      <4>2. Contains(Names(ps, k), ps[k].file)
        BY <1>2, <4>1, SavedNames
      <4>3. Contains(saved, current)
        BY <3>2, <4>1, <4>2
      <4>4. saved' = saved
        BY <1>4, <3>4, <4>3
      <4>5. QED
        BY <3>1, <3>2, <4>4
    <3>5. QED
      BY <3>3, <3>4
  <2>3. SavedAt(ps, B, k)'
    BY <1>3, <2>1, <2>2 DEF SavedAt
  <2>4. PICK D : Delivered(D, ps, B, P, S, k, state, c) /\ Handed(disk, Pending, D, failed)
    BY <2>1 DEF HandedAt
  <2>5. Handed(disk', Pending', D, failed')
    <3>1. CASE current = NoFile
      <4>1. Pending' = Pending
        BY <1>3, <1>4, <3>1 DEF Pending
      <4>2. QED
        BY <1>3, <2>4, <4>1
    <3>2. CASE current # NoFile
      <4>1. PICK y, g : y = x /\ g = current
        OBVIOUS
      <4>2. y = [path |-> g, data |-> <<>>, late |-> late] /\ g \in File /\ y \in IOTask
        BY <1>5, <1>7, <3>2, <4>1
      <4>3. tasks' = Append(tasks, y)
        BY <1>4, <3>2, <4>1
      <4> HIDE DEF x
      <4>4. D \in [File -> Seq(Unit)]
        BY <2>4 DEF Delivered
      <4>5. After(D, y) = D
        BY <1>b, <4>2, <4>4, EmptyTask
      <4>6. Handed(disk', Pending', After(D, y), failed')
        BY <1>2, <1>3, <2>4, <4>2, <4>3, AddTaskHands
      <4>7. QED
        BY <4>5, <4>6
    <3>3. QED
      BY <3>1, <3>2
  <2>6. HandedAt(ps, B, P, S, k, c)'
    BY <1>3, <2>4, <2>5 DEF HandedAt
  <2>7. QED
    BY <2>3, <2>6
<1>13. Progress(ps, B, P, S, k, c)'
  BY <1>10, <1>11, <1>12 DEF Progress
<1>14. QED
  BY <1>9, <1>13 DEF UploadInv

-----------------------------------------------------------------------------
(* The steps of the writer.                                                  *)
\* A step of the pool leaves the processor alone.
LEMMA WriterStep ==
  ASSUME NEW ps, NEW B, NEW P, NEW S, Laid(ps, B, P, S), UploadInv(ps, B, P, S),
         UNCHANGED <<reader, phase, processor, swallowed>>, PoolOK',
         \A D : Handed(disk, Pending, D, failed) => Handed(disk', Pending', D, failed')
  PROVE  UploadInv(ps, B, P, S)'
<1>1. PICK k, c : Progress(ps, B, P, S, k, c)
  BY DEF UploadInv
<1>2. /\ received' = received /\ buffer' = buffer /\ phase' = phase
      /\ parts' = parts /\ state' = state /\ current' = current /\ saved' = saved
      /\ swallowed' = swallowed
  BY DEF reader, processor
<1>3. Reached(ps, B, P, k, c)' /\ Waits(ps, P, k)'
  BY <1>1, <1>2 DEF Progress, Reached, Waits
<1>4. ASSUME ~swallowed' PROVE SavedAt(ps, B, k)' /\ HandedAt(ps, B, P, S, k, c)'
  <2>1. SavedAt(ps, B, k) /\ HandedAt(ps, B, P, S, k, c)
    BY <1>1, <1>2, <1>4 DEF Progress
  <2>2. SavedAt(ps, B, k)'
    BY <1>2, <2>1 DEF SavedAt
  <2>3. HandedAt(ps, B, P, S, k, c)'
    BY <1>2, <2>1 DEF HandedAt
  <2>4. QED
    BY <2>2, <2>3
<1>5. Progress(ps, B, P, S, k, c)'
  BY <1>3, <1>4 DEF Progress
<1>6. QED
  BY <1>5 DEF UploadInv

\* The thread takes a task, falls asleep or ends.
LEMMA TestsStep ==
  ASSUME NEW ps, NEW B, NEW P, NEW S, Laid(ps, B, P, S), UploadInv(ps, B, P, S), Tests
  PROVE  UploadInv(ps, B, P, S)'
<1>1. PoolOK
  BY DEF UploadInv
<1>2. /\ worker = "test" /\ disk' = disk /\ failed' = failed /\ stop' = stop
      /\ notify' = notify /\ UNCHANGED <<reader, phase, processor, swallowed>>
  BY DEF Tests, hist
<1>3. tasks \in Seq(IOTask)
  BY <1>1 DEF PoolOK
<1>4. Pending = tasks
  BY <1>2, <1>3 DEF Pending
<1>5. CASE tasks # <<>>
  <2>1. task' = Head(tasks) /\ tasks' = Tail(tasks) /\ worker' = "execute"
    BY <1>5 DEF Tests
  <2>2. Head(tasks) \in IOTask /\ Tail(tasks) \in Seq(IOTask)
        /\ <<Head(tasks)>> \o Tail(tasks) = tasks
    BY <1>3, <1>5
  <2>3. Pending' = Pending
    BY <1>4, <2>1, <2>2 DEF Pending
  <2>4. NothingLeftBehind'
    BY <2>1 DEF NothingLeftBehind
  <2>5. PoolOK'
    BY <1>1, <1>2, <2>1, <2>2, <2>4 DEF PoolOK, processor
  <2>6. QED
    BY <1>2, <2>3, <2>5, WriterStep
<1>6. CASE tasks = <<>>
  <2>1. task' = task /\ tasks' = tasks /\ worker' = IF stop THEN "gone" ELSE "asleep"
    BY <1>6 DEF Tests
  <2>2. Pending' = Pending
    BY <1>3, <1>4, <2>1 DEF Pending
  <2>3. NothingLeftBehind'
    BY <1>6, <2>1 DEF NothingLeftBehind, Owed
  <2>4. PoolOK'
    BY <1>1, <1>2, <1>6, <2>1, <2>3 DEF PoolOK, processor
  <2>5. QED
    BY <1>2, <2>2, <2>4, WriterStep
<1>7. QED
  BY <1>5, <1>6

\* The task is executed, or fails.
LEMMA ExecutesStep ==
  ASSUME NEW ps, NEW B, NEW P, NEW S, Laid(ps, B, P, S), UploadInv(ps, B, P, S),
         Executes \/ Fails
  PROVE  UploadInv(ps, B, P, S)'
<1>1. PoolOK
  BY DEF UploadInv
<1>2. /\ worker = "execute" /\ worker' = "test" /\ task' = NoTask /\ tasks' = tasks
      /\ stop' = stop /\ notify' = notify
      /\ UNCHANGED <<reader, phase, processor, swallowed>>
  BY DEF Executes, Fails, hist
<1>3. /\ tasks \in Seq(IOTask) /\ task \in IOTask /\ disk \in [File -> Seq(Unit)]
      /\ failed \in BOOLEAN
  BY <1>1, <1>2 DEF PoolOK
<1>4. PICK t, x, d, l : t = tasks /\ x = task /\ d = disk /\ l = failed
  OBVIOUS
<1>5. Pending = <<x>> \o t /\ Pending' = t
  BY <1>2, <1>3, <1>4 DEF Pending
<1>6. PICK q : q = <<x>> \o t
  OBVIOUS
<1>n. NothingLeftBehind'
  BY <1>2 DEF NothingLeftBehind
<1>7. CASE Executes
  <2>1. disk' = After(d, x) /\ failed' = failed
    BY <1>4, <1>7 DEF Executes, After, hist
  <2>2. disk' \in [File -> Seq(Unit)]
    BY <1>3, <1>4, <2>1, AfterTypes
  <2>3. PoolOK'
    BY <1>1, <1>2, <1>n, <2>1, <2>2 DEF PoolOK, processor
  <2>4. ASSUME NEW D, Handed(disk, Pending, D, failed)
        PROVE  Handed(disk', Pending', D, failed')
    <3>1. Handed(d, q, D, l)
      BY <1>4, <1>5, <1>6, <2>4
    <3>2. Handed(After(d, x), t, D, l)
      BY <1>3, <1>4, <1>6, <3>1, HeadIsWritten
    <3>3. QED
      BY <1>4, <1>5, <2>1, <3>2
  <2>5. QED
    BY <1>2, <2>3, <2>4, WriterStep
<1>8. CASE Fails
  <2>1. disk' = disk /\ failed' = TRUE
    BY <1>8 DEF Fails
  <2>2. PoolOK'
    BY <1>1, <1>2, <1>n, <2>1 DEF PoolOK, processor
  <2>3. ASSUME NEW D, Handed(disk, Pending, D, failed)
        PROVE  Handed(disk', Pending', D, failed')
    <3>1. Handed(d, q, D, l)
      BY <1>4, <1>5, <1>6, <2>3
    <3>2. Handed(d, t, D, TRUE)
      BY <1>3, <1>4, <1>6, <3>1, HeadIsDropped
    <3>3. QED
      BY <1>4, <1>5, <2>1, <3>2
  <2>4. QED
    BY <1>2, <2>2, <2>3, WriterStep
<1>9. QED
  BY <1>7, <1>8

\* A notification, or the destructor.
LEMMA NotifyStep ==
  ASSUME NEW ps, NEW B, NEW P, NEW S, Laid(ps, B, P, S), UploadInv(ps, B, P, S),
         Notify \/ Shutdown
  PROVE  UploadInv(ps, B, P, S)'
<1>1. PoolOK
  BY DEF UploadInv
<1>2. /\ worker' = IF worker = "asleep" THEN "test" ELSE worker
      /\ disk' = disk /\ failed' = failed /\ tasks' = tasks /\ task' = task
      /\ UNCHANGED <<reader, phase, processor, swallowed>>
      /\ notify' \in BOOLEAN /\ stop' \in BOOLEAN
  BY <1>1 DEF Notify, Shutdown, hist, PoolOK
<1>3. Pending' = Pending
  BY <1>2 DEF Pending
<1>4. /\ phase' = phase /\ current' = current /\ saved' = saved /\ swallowed' = swallowed
  BY <1>2 DEF processor
<1>5. worker' \in {"test", "asleep", "execute", "gone"} /\ (worker' = "execute" <=> worker = "execute")
      /\ (worker' = "gone" <=> worker = "gone")
  BY <1>1, <1>2 DEF PoolOK
<1>6. NothingLeftBehind'
  BY <1>1, <1>2, <1>5, QueueKept DEF PoolOK
<1>7. PoolOK'
  BY <1>1, <1>2, <1>4, <1>5, <1>6 DEF PoolOK
<1>8. QED
  BY <1>2, <1>3, <1>7, WriterStep

-----------------------------------------------------------------------------
(* Texts and forms, as they are sent.                                      *)
\* A character of a text, as it is sent.
Escaped(c) == IF c \in DOMAIN Escape THEN Escape[c] ELSE <<c>>

\* What the encoding of a text consists of.
Plain == Character \ {"&", "=", " "}

\* An escape is three characters, or one, and the separators are in none.
LEMMA EscapeTypes ==
  \A c \in Character : Escaped(c) \in Seq(Plain)
<1>1. \A x, y, z \in Plain : <<x, y, z>> \in Seq(Plain) /\ <<x>> \in Seq(Plain)
  OBVIOUS
<1>2. {"%", "2", "3", "5", "6", "B", "D", "+"} \subseteq Plain
  BY DEF Plain, Character
<1>3. /\ <<"%", "2", "B">> \in Seq(Plain) /\ <<"%", "2", "6">> \in Seq(Plain)
      /\ <<"%", "3", "D">> \in Seq(Plain) /\ <<"%", "2", "5">> \in Seq(Plain)
      /\ <<"+">> \in Seq(Plain)
  BY <1>1, <1>2
<1>4. \A c \in Character : c \notin DOMAIN Escape => c \in Plain
  BY DEF Plain, Escape
<1>5. \A c \in DOMAIN Escape : Escape[c] \in Seq(Plain)
  BY <1>3 DEF Escape
<1>6. QED
  BY <1>1, <1>4, <1>5 DEF Escaped

\* b collects the sequences x one behind the other.
Collects(b, x, n, W) ==
  /\ x \in [1..n -> Seq(W)]
  /\ b \in [0..n -> Seq(W)]
  /\ b[0] = <<>>
  /\ \A k \in 1..n : b[k] = b[k - 1] \o x[k]

\* Each of them is where the ones before it end.
Placed(b, x, n) ==
  \A k \in 1..n :
    /\ Len(b[k]) = Len(b[k - 1]) + Len(x[k]) /\ Len(b[k]) <= Len(b[n])
    /\ \A j \in 1..Len(x[k]) : b[n][Len(b[k - 1]) + j] = x[k][j]

\* What is collected is placed so, and never moves.
LEMMA Blocks ==
  ASSUME NEW W, NEW n \in Nat, NEW x, NEW b, Collects(b, x, n, W)
  PROVE  Placed(b, x, n)
<1> DEFINE Behind(k, m) ==
             /\ Len(b[k]) <= Len(b[m])
             /\ \A i \in 1..Len(b[k]) : b[m][i] = b[k][i]
           T == {m \in Nat : m <= n => \A k \in 0..m : Behind(k, m)}
<1>1. \A k \in 0..n : b[k] \in Seq(W) /\ Len(b[k]) \in Nat
  BY DEF Collects
<1>2. ASSUME NEW k \in 1..n
      PROVE  /\ k - 1 \in 0..n /\ k \in 0..n
             /\ x[k] \in Seq(W) /\ b[k] = b[k - 1] \o x[k]
             /\ Len(b[k]) = Len(b[k - 1]) + Len(x[k])
             /\ \A i \in 1..Len(b[k - 1]) : b[k][i] = b[k - 1][i]
             /\ \A j \in 1..Len(x[k]) : b[k][Len(b[k - 1]) + j] = x[k][j]
  <2>1. k - 1 \in 0..n /\ k \in 0..n
    OBVIOUS
  <2>2. x[k] \in Seq(W) /\ b[k - 1] \in Seq(W) /\ b[k] = b[k - 1] \o x[k]
    BY <2>1 DEF Collects
  <2> DEFINE u == b[k - 1]
             v == x[k]
  <2>3. u \in Seq(W) /\ v \in Seq(W) /\ b[k] = u \o v
    BY <2>2
  <2> HIDE DEF u, v
  <2>4. /\ Len(b[k]) = Len(u) + Len(v)
        /\ \A i \in 1..Len(u) : b[k][i] = u[i]
        /\ \A j \in 1..Len(v) : b[k][Len(u) + j] = v[j]
    BY <2>3, Concatenates
  <2>5. QED
    BY <2>1, <2>2, <2>4 DEF u, v
<1>3. 0 \in T
  <2>1. Behind(0, 0)
    BY <1>1
  <2>2. QED
    BY <2>1
<1>4. ASSUME NEW m \in Nat, m \in T PROVE m + 1 \in T
  <2> SUFFICES ASSUME m + 1 <= n, NEW k \in 0..m + 1 PROVE Behind(k, m + 1)
    <3> HIDE DEF Behind
    <3> QED
      OBVIOUS
  <2>1. m + 1 \in 1..n /\ (m + 1) - 1 = m /\ m \in 0..n /\ m + 1 \in 0..n /\ k \in 0..n
    OBVIOUS
  <2>2. Behind(m, m + 1)
    <3>1. PICK j \in 1..n : j = m + 1 /\ j - 1 = m
      BY <2>1
    <3>2. /\ x[j] \in Seq(W) /\ Len(b[j]) = Len(b[j - 1]) + Len(x[j])
          /\ \A i \in 1..Len(b[j - 1]) : b[j][i] = b[j - 1][i]
      BY <1>2
    <3>3. Len(x[j]) \in Nat
      BY <3>2
    <3>4. Len(b[m]) \in Nat /\ Len(b[j]) \in Nat
      BY <1>1, <2>1, <3>1
    <3>5. /\ Len(b[j]) = Len(b[m]) + Len(x[j])
          /\ \A i \in 1..Len(b[m]) : b[j][i] = b[m][i]
      BY <3>1, <3>2
    <3>6. Behind(m, j)
      <4>1. b \in [0..n -> Seq(W)] /\ x \in [1..n -> Seq(W)] /\ m \in 0..n /\ j \in 0..n
        BY <2>1, <3>1 DEF Collects
      <4>2. QED
        BY <3>5, <4>1
    <3>7. QED
      BY <3>1, <3>6
  <2>3. CASE k = m + 1
    <3>1. Len(b[m + 1]) \in Nat
      BY <1>1, <2>1
    <3>2. QED
      BY <2>3, <3>1
  <2>4. CASE k \in 0..m
    <3>1. Behind(k, m)
      <4> HIDE DEF Behind
      <4> QED
        BY <1>4, <2>4, m <= n
    <3>2. Len(b[k]) \in Nat /\ Len(b[m]) \in Nat /\ Len(b[m + 1]) \in Nat
      BY <1>1, <2>1
    <3>3. \A i \in 1..Len(b[k]) : i \in 1..Len(b[m])
      BY <3>1, <3>2
    <3>4. QED
      BY <2>2, <3>1, <3>2, <3>3
  <2>5. QED
    BY <2>3, <2>4
<1>5. \A k \in 0..n : Behind(k, n)
  <2>1. n \in T
    <3> HIDE DEF T
    <3> QED
      BY <1>3, <1>4, Induction
  <2> HIDE DEF Behind
  <2>2. QED
    BY <2>1
<1>6. ASSUME NEW k \in 1..n
      PROVE  /\ Len(b[k]) = Len(b[k - 1]) + Len(x[k]) /\ Len(b[k]) <= Len(b[n])
             /\ \A j \in 1..Len(x[k]) : b[n][Len(b[k - 1]) + j] = x[k][j]
  <2>1. Behind(k, n) /\ Len(b[k]) \in Nat /\ Len(b[k - 1]) \in Nat /\ Len(x[k]) \in Nat
    <3> HIDE DEF Behind
    <3>1. k - 1 \in 0..n /\ k \in 0..n /\ x[k] \in Seq(W)
      BY <1>2
    <3>2. Len(x[k]) \in Nat
      BY <3>1
    <3>3. Behind(k, n)
      BY <1>5, <3>1
    <3>4. Len(b[k]) \in Nat /\ Len(b[k - 1]) \in Nat
      BY <1>1, <3>1
    <3>5. QED
      BY <3>2, <3>3, <3>4
  <2>2. Len(b[k]) = Len(b[k - 1]) + Len(x[k])
    BY <1>2
  <2>3. \A j \in 1..Len(x[k]) : Len(b[k - 1]) + j \in 1..Len(b[k])
    <3>1. /\ b \in [0..n -> Seq(W)] /\ x \in [1..n -> Seq(W)]
          /\ k - 1 \in 0..n /\ k \in 0..n
      BY <1>2 DEF Collects
    <3> HIDE DEF Behind
    <3>2. QED
      BY <2>2, <3>1
  <2>4. QED
    BY <1>2, <2>1, <2>3
<1>7. QED
  BY <1>6 DEF Placed

\* The characters of a text are encoded one by one,
LEMMA EncodeUnfolds ==
  ASSUME NEW text \in Seq(Character)
  PROVE  \E b : /\ Collects(b, [k \in 1..Len(text) |-> Escaped(text[k])], Len(text), Plain)
                /\ Encode(text) = b[Len(text)]
<1> DEFINE n == Len(text)
           V == Seq(Plain)
           x == [k \in 1..n |-> Escaped(text[k])]
           Is(g) == g = [s \in SUBSET (1..n) |->
                            IF s = {} THEN <<>>
                            ELSE g[s \ {Max(s)}] \o Escaped(text[Max(s)])]
           st == [y \in V \X (1..n) |-> y[1] \o Escaped(text[y[2]])]
<1>1. n \in Nat /\ DOMAIN text = 1..n
  OBVIOUS
<1>2. /\ <<>> \in V /\ \A i \in 1..n : Escaped(text[i]) \in V
      /\ \A b \in V, i \in 1..n : b \o Escaped(text[i]) \in V
  <2>1. \A i \in 1..n : text[i] \in Character
    OBVIOUS
  <2>2. \A i \in 1..n : Escaped(text[i]) \in V
    BY <2>1, EscapeTypes
  <2>3. QED
    BY <2>2
<1>3. \A b \in V, i \in 1..n : st[<<b, i>>] = b \o Escaped(text[i])
  OBVIOUS
<1>4. Steps(st, V, n)
  <2> HIDE DEF st
  <2> QED
    BY <1>2, <1>3 DEF Steps
<1>5. x \in [1..n -> V] /\ \A k \in 1..n : x[k] = Escaped(text[k])
  BY <1>2
<1> HIDE DEF st, V, n, x
<1>6. PICK g : OnSets(g, <<>>, st, V, n)
  BY <1>1, <1>2, <1>4, FoldExists
<1>7. Is(g)
  BY <1>3, <1>6 DEF OnSets
<1>8. PICK h : Is(h) /\ Encode(text) = h[1..n]
  BY <1>1, <1>7 DEF Encode, FoldLeft, MapThenFoldSet, Escaped
<1>9. WhereValued(h, <<>>, st, V, n)
  BY <1>3, <1>6, <1>8 DEF OnSets, WhereValued
<1>10. PICK b : Trace(b, <<>>, st, V, n) /\ h[1..n] = b[n]
  BY <1>1, <1>2, <1>4, <1>9, FoldSteps
<1>11. \A k \in 1..n : b[k] = b[k - 1] \o x[k]
  <2>1. \A k \in 1..n : k - 1 \in 0..n
    BY <1>1
  <2>2. QED
    BY <1>3, <1>5, <1>10, <2>1 DEF Trace
<1>12. QED
  BY <1>5, <1>8, <1>10, <1>11 DEF n, V, x, Trace, Collects

\* and none of them is a separator then.
LEMMA EncodeTypes ==
  ASSUME NEW text \in Seq(Character)
  PROVE  Encode(text) \in Seq(Plain) /\ Encode(text) \in Seq(Character)
<1>1. Len(text) \in Nat
  OBVIOUS
<1>2. PICK b : /\ b \in [0..Len(text) -> Seq(Plain)]
               /\ Encode(text) = b[Len(text)]
  BY EncodeUnfolds DEF Collects
<1>3. Encode(text) \in Seq(Plain)
  <2>1. Len(text) \in 0..Len(text)
    BY <1>1
  <2>2. b[Len(text)] \in Seq(Plain)
    BY <1>2, <2>1
  <2>3. QED
    BY <1>2, <2>2, Zenon
<1>4. Seq(Plain) \subseteq Seq(Character)
  <2>1. Plain \subseteq Character
    BY DEF Plain
  <2>2. QED
    BY <2>1
<1>5. QED
  BY <1>3, <1>4

\* A field as it is sent.
Pair(f) == Encode(f.key) \o <<"=">> \o Encode(f.value)

\* What is where in a field: the first "=" is behind the key.
LEMMA PairLayout ==
  ASSUME NEW f \in Field
  PROVE  /\ Pair(f) \in Seq(Character)
         /\ Encode(f.key) \in Seq(Character) /\ Encode(f.value) \in Seq(Character)
         /\ Len(Pair(f)) = Len(Encode(f.key)) + 1 + Len(Encode(f.value))
         /\ \A i \in 1..Len(Encode(f.key)) :
              Pair(f)[i] = Encode(f.key)[i] /\ Pair(f)[i] # "="
         /\ Pair(f)[Len(Encode(f.key)) + 1] = "="
         /\ \A i \in 1..Len(Encode(f.value)) :
              Pair(f)[Len(Encode(f.key)) + 1 + i] = Encode(f.value)[i]
         /\ \A i \in 1..Len(Pair(f)) : Pair(f)[i] # "&"
<1> DEFINE k == Encode(f.key)
           v == Encode(f.value)
           eq == <<"=">>
           u == k \o eq
           w == u \o v
           C == Character \ {"&"}
           m == Len(k)
           l == Len(v)
<1>1. f.key \in Seq(Character) /\ f.value \in Seq(Character)
  BY DEF Field
<1>2. k \in Seq(Plain) /\ v \in Seq(Plain) /\ k \in Seq(Character) /\ v \in Seq(Character)
  BY <1>1, EncodeTypes
<1>3. eq \in Seq(C) /\ Len(eq) = 1 /\ eq[1] = "="
  BY DEF Character
<1>4. Plain \subseteq C /\ C \subseteq Character
  BY DEF Plain
<1> HIDE DEF k, v, eq, C, m, l
<1>5. \A i \in 1..Len(k) : k[i] # "="
  <2>1. \A i \in 1..Len(k) : k[i] \in Plain
    BY <1>2
  <2>2. "=" \notin Plain
    BY DEF Plain
  <2>3. QED
    BY <2>1, <2>2
<1>6. k \in Seq(C) /\ v \in Seq(C) /\ Len(k) \in Nat /\ Len(v) \in Nat
  BY <1>2, <1>4
<1>7. /\ u \in Seq(C) /\ Len(u) = Len(k) + 1
      /\ \A i \in 1..Len(k) : u[i] = k[i]
      /\ u[Len(k) + 1] = "="
  <2>1. /\ u \in Seq(C) /\ Len(u) = Len(k) + Len(eq)
        /\ \A i \in 1..Len(k) : u[i] = k[i]
        /\ \A i \in 1..Len(eq) : u[Len(k) + i] = eq[i]
    <3>1. k \in Seq(C) /\ eq \in Seq(C)
      BY <1>3, <1>6
    <3>2. QED
      BY ONLY <3>1, Concatenates DEF u
  <2>2. QED
    BY <1>3, <2>1
<1> HIDE DEF u
<1>8. /\ w \in Seq(C) /\ Len(w) = Len(u) + Len(v)
      /\ \A i \in 1..Len(u) : w[i] = u[i]
      /\ \A i \in 1..Len(v) : w[Len(u) + i] = v[i]
  <2>1. u \in Seq(C) /\ v \in Seq(C)
    BY <1>6, <1>7
  <2>2. QED
    BY ONLY <2>1, Concatenates DEF w
<1> HIDE DEF w
<1>9. w \in Seq(Character) /\ \A i \in 1..Len(w) : w[i] # "&"
  BY <1>4, <1>8 DEF C
<1>10. m \in Nat /\ l \in Nat /\ Len(u) = m + 1
  BY <1>6, <1>7 DEF m, l
<1>11. \A i \in 1..m : i \in 1..m + 1
  BY <1>10
<1>12. /\ Len(w) = m + 1 + l
       /\ \A i \in 1..m : w[i] = k[i] /\ w[i] # "="
       /\ w[m + 1] = "="
       /\ \A i \in 1..l : w[m + 1 + i] = v[i]
  BY <1>5, <1>7, <1>8, <1>10, <1>11 DEF m, l
<1>13. Pair(f) = w
  BY DEF Pair, w, u, k, v, eq
<1>14. QED
  BY <1>2, <1>9, <1>12, <1>13 DEF m, l, k, v

\* A parser takes it apart.
LEMMA PairSplits ==
  ASSUME NEW f \in Field
  PROVE  /\ Contains(Pair(f), "=")
         /\ KeyOf(Pair(f)) = Encode(f.key) /\ ValueOf(Pair(f)) = Encode(f.value)
<1> DEFINE k == Encode(f.key)
           v == Encode(f.value)
           w == Pair(f)
           m == Len(k)
           l == Len(v)
<1>1. /\ w \in Seq(Character) /\ k \in Seq(Character) /\ v \in Seq(Character)
      /\ Len(w) = m + 1 + l
      /\ \A i \in 1..m : w[i] = k[i] /\ w[i] # "="
      /\ w[m + 1] = "="
      /\ \A i \in 1..l : w[m + 1 + i] = v[i]
  BY PairLayout
<1>2. m \in Nat /\ l \in Nat
  BY <1>1
<1> HIDE DEF k, v, w
<1>3. m + 1 \in 1..Len(w) /\ DOMAIN w = 1..Len(w)
  BY <1>1, <1>2
<1>4. Contains(w, "=")
  BY <1>1, <1>3 DEF Contains
<1> DEFINE First(i) == w[i] = "=" /\ \A j \in 1..i - 1 : w[j] # "="
<1>5. First(m + 1)
  BY <1>1, <1>2
<1>6. ASSUME NEW i \in DOMAIN w, First(i) PROVE i = m + 1
  <2>1. i \in Nat /\ i >= 1
    BY <1>3
  <2>2. ~(i <= m)
    BY <1>1, <1>6, <2>1
  <2>3. ~(m + 1 <= i - 1)
    BY <1>1, <1>2, <1>6, <2>1
  <2>4. QED
    BY <1>2, <2>1, <2>2, <2>3
<1>7. Separator(w) = m + 1
  <2> HIDE DEF First
  <2>1. Separator(w) = CHOOSE i \in DOMAIN w : First(i)
    BY DEF Separator, First
  <2>2. QED
    BY <1>3, <1>5, <1>6, <2>1
<1>8. SubSeq(w, 1, m) = k
  <2>1. /\ SubSeq(w, 0 + 1, m) \in Seq(Character) /\ Len(SubSeq(w, 0 + 1, m)) = m - 0
        /\ \A i \in 1..m - 0 : SubSeq(w, 0 + 1, m)[i] = w[0 + i]
    <3>1. 0 <= m /\ m <= Len(w)
      BY <1>1, <1>2
    <3>2. QED
      BY <1>1, <1>2, <3>1, Slice
  <2>2. \A i \in 1..m : SubSeq(w, 1, m)[i] = k[i]
    BY <1>1, <1>2, <2>1
  <2>3. SubSeq(w, 1, m) \in Seq(Character) /\ Len(SubSeq(w, 1, m)) = Len(k)
    BY <1>2, <2>1
  <2>4. QED
    BY <1>1, <2>2, <2>3
<1>9. SubSeq(w, m + 2, Len(w)) = v
  <2> DEFINE a == m + 1
             b == m + 1 + l
             z == SubSeq(w, a + 1, b)
  <2>1. a \in Nat /\ b \in Nat /\ a <= b /\ b = Len(w) /\ b - a = l /\ a + 1 = m + 2
    BY <1>1, <1>2
  <2> HIDE DEF a, b
  <2>2. z \in Seq(Character) /\ Len(z) = b - a /\ \A i \in 1..b - a : z[i] = w[a + i]
    BY <1>1, <2>1, Slice
  <2> HIDE DEF z
  <2>3. \A i \in 1..l : z[i] = v[i]
    BY <1>1, <2>1, <2>2 DEF a
  <2>4. z = v
    <3>1. Len(z) = Len(v) /\ Len(z) = l
      BY <2>1, <2>2
    <3>2. QED
      BY <1>1, <2>2, <2>3, <3>1, SeqEqual
  <2>5. QED
    BY <2>1, <2>4 DEF z
<1>10. KeyOf(w) = k /\ ValueOf(w) = v
  <2>1. Separator(w) - 1 = m /\ Separator(w) + 1 = m + 2
    BY <1>2, <1>7
  <2> HIDE DEF m
  <2>2. KeyOf(w) = SubSeq(w, 1, m)
    BY <2>1 DEF KeyOf
  <2>3. ValueOf(w) = SubSeq(w, m + 2, Len(w))
    BY <2>1 DEF ValueOf
  <2>4. QED
    BY <1>8, <1>9, <2>2, <2>3
<1>11. QED
  BY <1>4, <1>10 DEF w, k, v

\* A field of a form, with what separates it from the one before.
FormPiece(fields, k) == IF k = 1 THEN Pair(fields[k]) ELSE <<"&">> \o Pair(fields[k])

FormStep(s, f) == s \o (IF s = <<>> THEN <<>> ELSE <<"&">>)
                    \o Encode(f.key) \o <<"=">> \o Encode(f.value)

\* What a field adds to a form.
LEMMA FormGrows ==
  ASSUME NEW s \in Seq(Character), NEW f \in Field
  PROVE  /\ FormStep(s, f) = IF s = <<>> THEN s \o Pair(f) ELSE s \o (<<"&">> \o Pair(f))
         /\ FormStep(s, f) \in Seq(Character) /\ FormStep(s, f) # <<>>
<1> DEFINE k == Encode(f.key)
           v == Encode(f.value)
<1>1. Pair(f) \in Seq(Character) /\ k \in Seq(Character) /\ v \in Seq(Character) /\ Len(Pair(f)) = Len(k) + 1 + Len(v)
  BY PairLayout, Zenon
<1>2. <<"&">> \in Seq(Character) /\ <<"=">> \in Seq(Character) /\ <<>> \in Seq(Character)
  <2>1. \A c \in Character : <<c>> \in Seq(Character)
    OBVIOUS
  <2>2. "&" \in Character /\ "=" \in Character
    BY DEF Character
  <2>3. QED
    BY <2>1, <2>2
<1> DEFINE eq == <<"=">>
<1>3. ASSUME NEW r \in Seq(Character) PROVE r \o k \o eq \o v = r \o Pair(f)
  <2> HIDE DEF k, v, eq
  <2>1. eq \in Seq(Character) /\ k \o eq \in Seq(Character)
    BY <1>1, <1>2 DEF eq
  <2>2. r \o k \o eq = r \o (k \o eq)
    <3>1. r \in Seq(Character) /\ k \in Seq(Character) /\ eq \in Seq(Character)
      BY <1>1, <2>1
    <3>2. QED
      BY ONLY <3>1, ConcatAssociative
  <2>3. (r \o (k \o eq)) \o v = r \o ((k \o eq) \o v)
    <3> DEFINE e == k \o eq
    <3>1. r \in Seq(Character) /\ e \in Seq(Character) /\ v \in Seq(Character)
      BY <1>1, <2>1
    <3> HIDE DEF e
    <3>2. (r \o e) \o v = r \o (e \o v)
      BY ONLY <3>1, ConcatAssociative
    <3>3. QED
      BY <3>2 DEF e
  <2>4. Pair(f) = (k \o eq) \o v
    BY DEF Pair, k, v, eq
  <2>5. QED
    BY <2>2, <2>3, <2>4, Zenon
<1>4. Len(Pair(f)) > 0
  <2>1. Len(k) \in Nat /\ Len(v) \in Nat
    BY <1>1
  <2>2. QED
    BY <1>1, <2>1
<1>5. ASSUME NEW r \in Seq(Character) PROVE r \o Pair(f) \in Seq(Character) /\ r \o Pair(f) # <<>>
  <2>1. r \o Pair(f) \in Seq(Character) /\ Len(r \o Pair(f)) = Len(r) + Len(Pair(f))
    BY <1>1, Concatenates
  <2>2. Len(r) \in Nat /\ Len(Pair(f)) \in Nat /\ Len(<<>>) = 0
    BY <1>1
  <2>3. QED
    BY <1>4, <2>1, <2>2
<1>6. CASE s = <<>>
  <2>1. s \o <<>> = s
    BY <1>6
  <2>2. FormStep(s, f) = s \o Pair(f)
    <3>1. FormStep(s, f) = s \o <<>> \o k \o eq \o v
      BY <1>6 DEF FormStep
    <3> HIDE DEF k, v, eq
    <3>2. QED
      BY <1>3, <2>1, <3>1
  <2>3. QED
    BY <1>5, <1>6, <2>2
<1>7. CASE s # <<>>
  <2> DEFINE a == <<"&">>
  <2>1. s \o a \in Seq(Character)
    BY <1>2
  <2>2. FormStep(s, f) = s \o a \o k \o eq \o v
    BY <1>7 DEF FormStep
  <2> HIDE DEF k, v, eq, a
  <2>3. FormStep(s, f) = s \o a \o Pair(f)
    BY <1>3, <2>1, <2>2
  <2>4. s \o a \o Pair(f) = s \o (a \o Pair(f))
    BY <1>1, <1>2, ConcatAssociative DEF a
  <2>5. QED
    BY <1>5, <1>7, <2>1, <2>3, <2>4 DEF a
<1>8. QED
  BY <1>6, <1>7

\* A form is its fields, with separators.
LEMMA FormUnfolds ==
  ASSUME NEW fields \in Seq(Field)
  PROVE  \E b : /\ Collects(b, [k \in 1..Len(fields) |-> FormPiece(fields, k)],
                            Len(fields), Character)
                /\ EncodeForm(fields) = b[Len(fields)]
<1> DEFINE n == Len(fields)
           V == Seq(Character)
           x == [k \in 1..n |-> FormPiece(fields, k)]
           Is(g) == g = [s \in SUBSET (1..n) |->
                            IF s = {} THEN <<>>
                            ELSE FormStep(g[s \ {Max(s)}], fields[Max(s)])]
           st == [y \in V \X (1..n) |-> FormStep(y[1], fields[y[2]])]
<1>1. n \in Nat /\ DOMAIN fields = 1..n /\ \A i \in 1..n : fields[i] \in Field
  OBVIOUS
<1>2. <<>> \in V /\ \A b \in V, i \in 1..n : FormStep(b, fields[i]) \in V
  <2>1. <<>> \in V
    OBVIOUS
  <2> HIDE DEF n
  <2>2. QED
    BY <1>1, <2>1, FormGrows
<1>3. \A b \in V, i \in 1..n : st[<<b, i>>] = FormStep(b, fields[i])
  OBVIOUS
<1>4. Steps(st, V, n)
  <2> HIDE DEF st
  <2> QED
    BY <1>2, <1>3 DEF Steps
<1>5. x \in [1..n -> V] /\ \A k \in 1..n : x[k] = FormPiece(fields, k)
  <2>1. ASSUME NEW k \in 1..n PROVE FormPiece(fields, k) \in V
    <3>1. Pair(fields[k]) \in V
      BY <1>1, PairLayout
    <3>2. <<"&">> \in V
      BY DEF Character
    <3>3. <<"&">> \o Pair(fields[k]) \in V
      BY <3>1, <3>2
    <3>4. QED
      BY <3>1, <3>3 DEF FormPiece
  <2>2. QED
    BY <2>1
<1> HIDE DEF st, V, n, x
<1>6. PICK g : OnSets(g, <<>>, st, V, n)
  BY <1>1, <1>2, <1>4, FoldExists
<1>7. Is(g)
  BY <1>3, <1>6 DEF OnSets
<1>8. PICK h : Is(h) /\ EncodeForm(fields) = h[1..n]
  BY <1>1, <1>7 DEF EncodeForm, FoldLeft, MapThenFoldSet, FormStep
<1>9. WhereValued(h, <<>>, st, V, n)
  BY <1>3, <1>6, <1>8 DEF OnSets, WhereValued
<1>10. PICK b : Trace(b, <<>>, st, V, n) /\ h[1..n] = b[n]
  BY <1>1, <1>2, <1>4, <1>9, FoldSteps
<1>11. \A k \in 1..n : k - 1 \in 0..n /\ b[k - 1] \in V /\ b[k] = FormStep(b[k - 1], fields[k])
  <2>1. \A k \in 1..n : k - 1 \in 0..n
    BY <1>1
  <2>2. QED
    BY <1>3, <1>10, <2>1 DEF Trace
<1>12. \A k \in 1..n : b[k] = b[k - 1] \o x[k]
  <2>1. ASSUME NEW k \in 1..n PROVE b[k] = b[k - 1] \o x[k]
    <3>1. CASE k = 1
      <4>1. b[k - 1] = <<>>
        BY <1>10, <3>1 DEF Trace
      <4>2. fields[k] \in Field /\ b[k - 1] \in Seq(Character)
        BY <1>1, <1>11 DEF V
      <4>3. b[k] = b[k - 1] \o Pair(fields[k])
        BY <1>11, <4>1, <4>2, FormGrows
      <4>4. QED
        BY <1>5, <3>1, <4>3 DEF FormPiece
    <3>2. CASE k # 1
      <4>1. k - 1 \in 1..n
        BY <1>1, <3>2
      <4>2. (k - 1) - 1 \in 0..n /\ b[(k - 1) - 1] \in V
            /\ b[k - 1] = FormStep(b[(k - 1) - 1], fields[k - 1])
        BY <1>11, <4>1
      <4>3. b[k - 1] # <<>>
        BY <1>1, <4>1, <4>2, FormGrows DEF V
      <4>4. b[k] = b[k - 1] \o (<<"&">> \o Pair(fields[k]))
        BY <1>1, <1>11, <4>3, FormGrows DEF V
      <4>5. QED
        BY <1>5, <3>2, <4>4 DEF FormPiece
    <3>3. QED
      BY <3>1, <3>2
  <2>2. QED
    BY <2>1
<1>13. QED
  BY <1>5, <1>8, <1>10, <1>12 DEF n, V, x, Trace, Collects

\* Every form consists of characters.
LEMMA EncodeFormTypes ==
  ASSUME NEW fields \in Seq(Field)
  PROVE  EncodeForm(fields) \in Seq(Character)
<1>1. Len(fields) \in 0..Len(fields)
  OBVIOUS
<1>2. PICK b : /\ b \in [0..Len(fields) -> Seq(Character)]
               /\ EncodeForm(fields) = b[Len(fields)]
  BY FormUnfolds DEF Collects
<1>3. b[Len(fields)] \in Seq(Character)
  BY <1>1, <1>2
<1>4. QED
  BY <1>2, <1>3, Zenon

-----------------------------------------------------------------------------
(* Forms, as they are split.                                               *)
PairStep(q, c) == IF c = "&" THEN Append(q, <<>>)
                  ELSE [q EXCEPT ![Len(q)] = Append(@, c)]

\* The pairs so far, at every place of a text.
PairTrace(q, text) ==
  /\ q \in [0..Len(text) -> {p \in Seq(Seq(Character)) : Len(p) > 0}]
  /\ q[0] = <<<<>>>>
  /\ \A i \in 1..Len(text) : q[i] = PairStep(q[i - 1], text[i])

\* Pairs goes through a text character by character.
LEMMA PairsUnfold ==
  ASSUME NEW text \in Seq(Character)
  PROVE  \E q : PairTrace(q, text) /\ Pairs(text) = q[Len(text)]
<1> DEFINE n == Len(text)
           V == {p \in Seq(Seq(Character)) : Len(p) > 0}
           base == <<<<>>>>
           Is(g) == g = [s \in SUBSET (1..n) |->
                            IF s = {} THEN base
                            ELSE PairStep(g[s \ {Max(s)}], text[Max(s)])]
           st == [y \in V \X (1..n) |-> PairStep(y[1], text[y[2]])]
<1>1. n \in Nat /\ DOMAIN text = 1..n /\ \A i \in 1..n : text[i] \in Character
  OBVIOUS
<1>2. base \in V /\ \A q \in V, i \in 1..n : PairStep(q, text[i]) \in V
  <2>1. base \in V
    OBVIOUS
  <2>2. ASSUME NEW q \in V, NEW c \in Character PROVE PairStep(q, c) \in V
    <3>1. q \in Seq(Seq(Character)) /\ Len(q) \in Nat /\ Len(q) > 0
      OBVIOUS
    <3>2. Append(q, <<>>) \in V
      <4>1. <<>> \in Seq(Character)
        OBVIOUS
      <4>2. Append(q, <<>>) \in Seq(Seq(Character)) /\ Len(Append(q, <<>>)) = Len(q) + 1
        BY <3>1, <4>1
      <4>3. QED
        BY <3>1, <4>2
    <3>3. [q EXCEPT ![Len(q)] = Append(@, c)] \in V
      <4>1. Len(q) \in 1..Len(q) /\ q[Len(q)] \in Seq(Character)
        BY <3>1
      <4>2. Append(q[Len(q)], c) \in Seq(Character)
        BY <4>1
      <4>3. [q EXCEPT ![Len(q)] = Append(@, c)] \in Seq(Seq(Character))
            /\ Len([q EXCEPT ![Len(q)] = Append(@, c)]) = Len(q)
        BY <3>1, <4>2, ExceptSeq
      <4>4. QED
        BY <3>1, <4>3
    <3>4. QED
      BY <3>2, <3>3 DEF PairStep
  <2>3. QED
    BY <1>1, <2>1, <2>2
<1>3. \A b \in V, i \in 1..n : st[<<b, i>>] = PairStep(b, text[i])
  OBVIOUS
<1>4. Steps(st, V, n)
  <2> HIDE DEF st
  <2> QED
    BY <1>2, <1>3 DEF Steps
<1> HIDE DEF st, V, n, base
<1>5. PICK g : OnSets(g, base, st, V, n)
  BY <1>1, <1>2, <1>4, FoldExists
<1>6. Is(g)
  BY <1>3, <1>5 DEF OnSets
<1>7. PICK h : Is(h) /\ Pairs(text) = h[1..n]
  BY <1>1, <1>6 DEF Pairs, FoldLeft, MapThenFoldSet, PairStep, base
<1>8. WhereValued(h, base, st, V, n)
  BY <1>3, <1>5, <1>7 DEF OnSets, WhereValued
<1>9. PICK b : Trace(b, base, st, V, n) /\ h[1..n] = b[n]
  BY <1>1, <1>2, <1>4, <1>8, FoldSteps
<1>10. \A k \in 1..n : b[k] = PairStep(b[k - 1], text[k])
  <2>1. \A k \in 1..n : k - 1 \in 0..n
    BY <1>1
  <2>2. QED
    BY <1>3, <1>9, <2>1 DEF Trace
<1>11. QED
  BY <1>7, <1>9, <1>10 DEF n, V, base, Trace, PairTrace

\* With v as its last element, a is s followed by it.
EndsWith(a, s, v) == [a EXCEPT ![Len(a)] = v] = Append(s, v)

\* The last element of a sequence is replaced.
LEMMA LastReplaced ==
  ASSUME NEW W, NEW s \in Seq(W), NEW u \in W, NEW v \in W,
         NEW a, a = Append(s, u)
  PROVE  EndsWith(a, s, v)
<1> DEFINE e == [a EXCEPT ![Len(a)] = v]
           b == Append(s, v)
<1>1. /\ a \in Seq(W) /\ Len(s) \in Nat /\ Len(a) = Len(s) + 1
      /\ \A i \in 1..Len(s) : a[i] = s[i]
  OBVIOUS
<1>2. /\ b \in Seq(W) /\ Len(b) = Len(s) + 1 /\ b[Len(s) + 1] = v
      /\ \A i \in 1..Len(s) : b[i] = s[i]
  OBVIOUS
<1>3. Len(a) \in 1..Len(a)
  BY <1>1
<1> HIDE DEF b
<1>4. /\ e \in Seq(W) /\ Len(e) = Len(a)
      /\ \A i \in 1..Len(a) : e[i] = IF i = Len(a) THEN v ELSE a[i]
  <2>1. PICK i \in 1..Len(a) : i = Len(a)
    BY <1>3
  <2>2. a \in Seq(W)
    BY <1>1
  <2>3. /\ [a EXCEPT ![i] = v] \in Seq(W) /\ Len([a EXCEPT ![i] = v]) = Len(a)
        /\ \A j \in 1..Len(a) : [a EXCEPT ![i] = v][j] = IF j = i THEN v ELSE a[j]
    BY ONLY <2>2, i \in 1..Len(a), v \in W, ExceptSeq
  <2>4. QED
    BY <2>1, <2>3 DEF e
<1> HIDE DEF e
<1>5. \A i \in 1..Len(e) : e[i] = b[i]
  BY <1>1, <1>2, <1>4
<1>6. e = b
  BY <1>1, <1>2, <1>4, <1>5, SeqEqual
<1>7. QED
  BY <1>6 DEF EndsWith, e, b

\* In text, w follows behind p.
Follows(text, p, w) ==
  p + Len(w) <= Len(text) /\ \A j \in 1..Len(w) : text[p + j] = w[j]

\* Of the first p characters there are the pairs ps, and w.
HasSplit(q, p, ps, w) == q[p] = Append(ps, w)

\* Characters other than "&" are collected in the last pair.
LEMMA PairGrows ==
  ASSUME NEW text \in Seq(Character), NEW q, PairTrace(q, text),
         NEW ps \in Seq(Seq(Character)), NEW p \in Nat, HasSplit(q, p, ps, <<>>),
         NEW w \in Seq(Character), Follows(text, p, w), \A j \in 1..Len(w) : w[j] # "&"
  PROVE  HasSplit(q, p + Len(w), ps, w)
<1> DEFINE l == Len(w)
           z(j) == SubSeq(w, 1, j)
           T == {j \in Nat : j <= l => q[p + j] = Append(ps, z(j))}
<1>1. /\ l \in Nat /\ Len(text) \in Nat /\ Len(ps) \in Nat /\ q[p] = Append(ps, <<>>)
      /\ p + Len(w) <= Len(text) /\ \A j \in 1..Len(w) : text[p + j] = w[j]
  BY DEF HasSplit, Follows
<1>2. \A j \in 0..l : z(j) \in Seq(Character) /\ Len(z(j)) = j
  BY <1>1
<1>3. 0 \in T
  <2>1. z(0) = <<>> /\ p + 0 = p
    BY <1>1
  <2>2. QED
    BY <1>1, <2>1
<1>4. ASSUME NEW j \in Nat, j \in T PROVE j + 1 \in T
  <2> SUFFICES ASSUME j + 1 <= l PROVE q[p + (j + 1)] = Append(ps, z(j + 1))
    OBVIOUS
  <2>1. /\ p + (j + 1) \in 1..Len(text) /\ (p + (j + 1)) - 1 = p + j
        /\ j + 1 \in 1..l /\ j \in 0..l
    BY <1>1
  <2>2. q[p + j] = Append(ps, z(j))
    BY <1>4, <1>1
  <2>3. text[p + (j + 1)] = w[j + 1] /\ w[j + 1] # "&" /\ w[j + 1] \in Character
    BY <1>1, <2>1
  <2>4. q[p + (j + 1)] = PairStep(q[(p + (j + 1)) - 1], text[p + (j + 1)])
    BY <2>1 DEF PairTrace
  <2>5. q[p + (j + 1)] = PairStep(Append(ps, z(j)), w[j + 1])
    BY <2>1, <2>2, <2>3, <2>4
  <2>6. Append(z(j), w[j + 1]) = z(j + 1)
    BY <1>1, <2>1
  <2>7. z(j) \in Seq(Character) /\ z(j + 1) \in Seq(Character)
    <3>1. j + 1 \in 0..l
      BY <2>1
    <3>2. QED
      BY <1>2, <2>1, <3>1
  <2> HIDE DEF z
  <2> DEFINE a == Append(ps, z(j))
  <2>8. /\ a \in Seq(Seq(Character)) /\ Len(a) = Len(ps) + 1 /\ a[Len(a)] = z(j)
        /\ \A i \in 1..Len(ps) : a[i] = ps[i]
    BY <2>7
  <2>9. [a EXCEPT ![Len(a)] = z(j + 1)] = Append(ps, z(j + 1))
    <3>1. PICK u, v : u = z(j) /\ v = z(j + 1)
      OBVIOUS
    <3>2. a = Append(ps, u) /\ u \in Seq(Character) /\ v \in Seq(Character)
      BY <2>7, <3>1
    <3> HIDE DEF a
    <3>3. EndsWith(a, ps, v)
      BY ONLY <3>2, ps \in Seq(Seq(Character)), LastReplaced
    <3>4. QED
      BY <3>1, <3>3 DEF EndsWith
  <2> HIDE DEF a
  <2>10. PairStep(a, w[j + 1]) = [a EXCEPT ![Len(a)] = Append(a[Len(a)], w[j + 1])]
    BY <2>3 DEF PairStep
  <2>11. QED
    BY <2>5, <2>6, <2>8, <2>9, <2>10 DEF a
<1>5. l \in T
  <2> HIDE DEF T
  <2> QED
    BY <1>1, <1>3, <1>4, Induction
<1>6. z(l) = w
  BY <1>1
<1>7. QED
  <2> HIDE DEF z
  <2> QED
    BY <1>1, <1>5, <1>6 DEF HasSplit

\* A form is split into its fields; of an empty one there is an empty pair.
LEMMA FormSplits ==
  ASSUME NEW fields \in Seq(Field)
  PROVE  Pairs(EncodeForm(fields)) = IF fields = <<>> THEN <<<<>>>>
                                     ELSE [k \in 1..Len(fields) |-> Pair(fields[k])]
<1> DEFINE n == Len(fields)
           x == [k \in 1..n |-> FormPiece(fields, k)]
           text == EncodeForm(fields)
           ps(k) == [i \in 1..k |-> Pair(fields[i])]
<1>1. n \in Nat /\ \A i \in 1..n : fields[i] \in Field
  OBVIOUS
<1>2. PICK b : Collects(b, x, n, Character) /\ text = b[n]
  BY FormUnfolds
<1>3. text \in Seq(Character)
  BY EncodeFormTypes
<1> HIDE DEF text
<1>4. PICK q : PairTrace(q, text) /\ Pairs(text) = q[Len(text)]
  BY <1>3, PairsUnfold
<1>5. \A k \in 1..n : Pair(fields[k]) \in Seq(Character)
                      /\ \A j \in 1..Len(Pair(fields[k])) : Pair(fields[k])[j] # "&"
  BY <1>1, PairLayout
<1>6. \A k \in 0..n : ps(k) \in Seq(Seq(Character)) /\ Len(ps(k)) = k
  BY <1>1, <1>5
<1>7. \A k \in 1..n : Append(ps(k - 1), Pair(fields[k])) = ps(k)
  BY <1>1, <1>5
<1>8. /\ \A k \in 1..n :
           /\ Len(b[k]) = Len(b[k - 1]) + Len(x[k]) /\ Len(b[k]) <= Len(text)
           /\ \A j \in 1..Len(x[k]) : text[Len(b[k - 1]) + j] = x[k][j]
      /\ \A k \in 0..n : Len(b[k]) \in Nat
      /\ b[0] = <<>> /\ Len(text) \in Nat
  <2> HIDE DEF x
  <2>1. \A k \in 0..n : b[k] \in Seq(Character)
    BY <1>2 DEF Collects
  <2>2. b[0] = <<>> /\ \A k \in 0..n : Len(b[k]) \in Nat
    BY <1>2, <2>1 DEF Collects
  <2>3. \A k \in 1..n :
          /\ Len(b[k]) = Len(b[k - 1]) + Len(x[k]) /\ Len(b[k]) <= Len(b[n])
          /\ \A j \in 1..Len(x[k]) : b[n][Len(b[k - 1]) + j] = x[k][j]
    <3>1. Collects(b, x, n, Character) /\ n \in Nat
      BY <1>1, <1>2
    <3> HIDE DEF n
    <3>2. Placed(b, x, n)
      BY ONLY <3>1, Blocks
    <3>3. QED
      BY <3>2 DEF Placed
  <2>4. Len(text) \in Nat
    BY <1>3
  <2>5. QED
    BY <1>2, <2>2, <2>3, <2>4
<1>9. q[0] = <<<<>>>>
  BY <1>4 DEF PairTrace
<1> DEFINE T == {k \in Nat : k \in 1..n => q[Len(b[k])] = ps(k)}
<1>10. 0 \in T
  OBVIOUS
<1>11. ASSUME NEW m \in Nat, m \in T PROVE m + 1 \in T
  <2> SUFFICES ASSUME m + 1 \in 1..n PROVE q[Len(b[m + 1])] = ps(m + 1)
    OBVIOUS
  <2>1. PICK k \in 1..n : k = m + 1 /\ k - 1 = m
    OBVIOUS
  <2>2. PICK w : w = Pair(fields[k])
    OBVIOUS
  <2>3. w \in Seq(Character) /\ Len(w) \in Nat /\ \A j \in 1..Len(w) : w[j] # "&"
    BY <1>5, <2>2
  <2>4. m \in 0..n /\ k \in 0..n /\ ps(m) \in Seq(Seq(Character))
        /\ Append(ps(m), w) = ps(k)
    BY <1>6, <1>7, <2>1, <2>2
  <2>5. PICK c, d : c = Len(b[m]) /\ d = Len(b[k])
    OBVIOUS
  <2>6. c \in Nat /\ d \in Nat /\ d = c + Len(x[k]) /\ d <= Len(text)
        /\ \A j \in 1..Len(x[k]) : text[c + j] = x[k][j]
    <3> HIDE DEF x, ps, T
    <3>1. c \in Nat /\ d \in Nat
      BY <1>8, <2>4, <2>5
    <3>2. d = c + Len(x[k]) /\ d <= Len(text)
      BY <1>8, <2>1, <2>5
    <3>3. \A j \in 1..Len(x[k]) : text[c + j] = x[k][j]
      BY <1>8, <2>1, <2>5
    <3>4. QED
      BY <3>1, <3>2, <3>3
  <2>0. PICK r : r = ps(m)
    OBVIOUS
  <2> HIDE DEF ps
  <2>7. CASE m = 0
    <3>1. x[k] = w /\ c = 0
      BY <1>8, <2>1, <2>2, <2>5, <2>7 DEF FormPiece
    <3>2. ps(m) = <<>>
      BY <2>7 DEF ps
    <3>3. q[c] = Append(ps(m), <<>>)
      BY <1>9, <3>1, <3>2
    <3>4. c + Len(w) = d /\ \A j \in 1..Len(w) : text[c + j] = w[j] /\ w[j] # "&"
      BY <2>3, <2>6, <3>1
    <3> HIDE DEF x
    <3>5. q[c + Len(w)] = Append(ps(m), w)
      <4>1. /\ text \in Seq(Character) /\ PairTrace(q, text) /\ w \in Seq(Character)
            /\ r \in Seq(Seq(Character)) /\ c \in Nat /\ HasSplit(q, c, r, <<>>)
            /\ Follows(text, c, w) /\ \A j \in 1..Len(w) : w[j] # "&"
        BY <1>3, <1>4, <2>0, <2>3, <2>4, <2>6, <3>3, <3>4 DEF HasSplit, Follows
      <4>2. HasSplit(q, c + Len(w), r, w)
        BY ONLY <4>1, PairGrows
      <4>3. QED
        BY <2>0, <4>2 DEF HasSplit
    <3>6. QED
      BY <2>1, <2>4, <2>5, <3>4, <3>5
  <2>8. CASE m # 0
    <3>1. q[c] = ps(m)
      BY <1>11, <2>4, <2>5, <2>8
    <3>2. x[k] = <<"&">> \o w
      BY <2>1, <2>2, <2>8 DEF FormPiece
    <3>3. Len(x[k]) = 1 + Len(w) /\ x[k][1] = "&" /\ \A j \in 1..Len(w) : x[k][1 + j] = w[j]
      <4>1. <<"&">> \in Seq(Character) /\ Len(<<"&">>) = 1 /\ <<"&">>[1] = "&"
        <5>1. "&" \in Character
          BY DEF Character
        <5>2. QED
          BY <5>1
      <4>2. /\ Len(<<"&">> \o w) = Len(<<"&">>) + Len(w)
            /\ \A i \in 1..Len(<<"&">>) : (<<"&">> \o w)[i] = <<"&">>[i]
            /\ \A i \in 1..Len(w) : (<<"&">> \o w)[Len(<<"&">>) + i] = w[i]
        BY <2>3, <4>1, Concatenates
      <4>3. QED
        BY <3>2, <4>1, <4>2
    <3> HIDE DEF x
    <3>4. /\ c + 1 \in Nat /\ c + 1 \in 1..Len(text) /\ (c + 1) - 1 = c
          /\ (c + 1) + Len(w) = d /\ 1 \in 1..Len(x[k])
      BY <1>8, <2>3, <2>6, <3>3
    <3>5. text[c + 1] = "&" /\ \A j \in 1..Len(w) : text[(c + 1) + j] = w[j] /\ w[j] # "&"
      <4>1. \A j \in 1..Len(w) : 1 + j \in 1..Len(x[k]) /\ (c + 1) + j = c + (1 + j)
        BY <2>3, <2>6, <3>3
      <4>2. QED
        BY <2>3, <2>6, <3>3, <3>4, <4>1
    <3>6. q[c + 1] = Append(ps(m), <<>>)
      <4>1. q[c + 1] = PairStep(q[(c + 1) - 1], text[c + 1])
        BY <1>4, <3>4 DEF PairTrace
      <4>2. QED
        BY <3>1, <3>4, <3>5, <4>1 DEF PairStep
    <3>7. q[(c + 1) + Len(w)] = Append(ps(m), w)
      <4> DEFINE e == c + 1
      <4>1. /\ text \in Seq(Character) /\ PairTrace(q, text) /\ w \in Seq(Character)
            /\ r \in Seq(Seq(Character)) /\ e \in Nat /\ HasSplit(q, e, r, <<>>)
            /\ Follows(text, e, w) /\ \A j \in 1..Len(w) : w[j] # "&"
        BY <1>3, <1>4, <2>0, <2>3, <2>4, <2>6, <3>4, <3>5, <3>6 DEF HasSplit, Follows
      <4> HIDE DEF e
      <4>2. HasSplit(q, e + Len(w), r, w)
        BY ONLY <4>1, PairGrows
      <4>3. QED
        BY <2>0, <4>2 DEF HasSplit, e
    <3>8. QED
      BY <2>1, <2>4, <2>5, <3>4, <3>7
  <2>9. QED
    BY <2>7, <2>8
<1>12. n \in T
  <2> HIDE DEF T
  <2> QED
    BY <1>1, <1>10, <1>11, Induction
<1>13. CASE fields = <<>>
  <2>1. n = 0
    BY <1>13
  <2>2. Pairs(text) = q[Len(b[0])]
    BY <1>2, <1>4, <2>1
  <2>3. Len(b[0]) = 0
    BY <1>8
  <2>4. QED
    BY <1>9, <1>13, <2>2, <2>3 DEF text
<1>14. CASE fields # <<>>
  <2>1. n \in 1..n
    BY <1>1, <1>14
  <2>2. Pairs(text) = ps(n)
    <3> HIDE DEF ps
    <3> QED
      BY <1>2, <1>4, <1>12, <2>1
  <2>3. QED
    BY <1>14, <2>2 DEF text
<1>15. QED
  BY <1>13, <1>14

-----------------------------------------------------------------------------
(* Texts, as they are decoded.                                             *)
Decoded == Character \cup {Hex[h] : h \in Seq(Character)}

DecodeStep(d, text, i) ==
  IF i < d.next THEN d
  ELSE IF text[i] = "%" /\ i + 2 <= Len(text)
  THEN [res |-> Append(d.res, Hex[SubSeq(text, i + 1, i + 2)]), next |-> i + 3]
  ELSE [res |-> Append(d.res, IF text[i] = "+" THEN " " ELSE text[i]), next |-> i + 1]

\* The result so far, at every place of a text.
DecodeTrace(d, text) ==
  /\ d \in [0..Len(text) -> [res : Seq(Decoded), next : Nat]]
  /\ d[0] = [res |-> <<>>, next |-> 1]
  /\ \A i \in 1..Len(text) : d[i] = DecodeStep(d[i - 1], text, i)

\* url_decode goes through a text place by place.
LEMMA DecodeUnfolds ==
  ASSUME NEW text \in Seq(Character)
  PROVE  \E d : DecodeTrace(d, text) /\ url_decode(text) = d[Len(text)].res
<1> DEFINE n == Len(text)
           V == [res : Seq(Decoded), next : Nat]
           base == [res |-> <<>>, next |-> 1]
           at == [i \in DOMAIN text |-> i]
           Is(g) == g = [s \in SUBSET (1..n) |->
                            IF s = {} THEN base
                            ELSE DecodeStep(g[s \ {Max(s)}], text, at[Max(s)])]
           st == [y \in V \X (1..n) |-> DecodeStep(y[1], text, at[y[2]])]
<1>1. /\ n \in Nat /\ DOMAIN text = 1..n /\ DOMAIN at = 1..n
      /\ \A i \in 1..n : text[i] \in Character /\ at[i] = i
  OBVIOUS
<1>2. base \in V /\ \A d \in V, i \in 1..n : DecodeStep(d, text, i) \in V
  <2>1. base \in V
    OBVIOUS
  <2>2. ASSUME NEW d \in V, NEW i \in 1..n PROVE DecodeStep(d, text, i) \in V
    <3>1. d.res \in Seq(Decoded) /\ i \in Nat
      OBVIOUS
    <3>2. PICK x \in Decoded : x = IF text[i] = "+" THEN " " ELSE text[i]
      <4>1. text[i] \in Character /\ " " \in Character
        BY <1>1 DEF Character
      <4>2. Character \subseteq Decoded
        BY DEF Decoded
      <4>3. (IF text[i] = "+" THEN " " ELSE text[i]) \in Decoded
        BY <4>1, <4>2
      <4>4. QED
        BY <4>3
    <3>3. [res |-> Append(d.res, x), next |-> i + 1] \in V
      BY <3>1
    <3>4. CASE i + 2 <= n
      <4>1. SubSeq(text, i + 1, i + 2) \in Seq(Character)
        <5>1. i <= i + 2 /\ i + 2 \in Nat
          BY <3>1
        <5>2. QED
          BY ONLY <3>1, <3>4, <5>1, text \in Seq(Character), Slice DEF n
      <4>2. PICK y \in Decoded : y = Hex[SubSeq(text, i + 1, i + 2)]
        BY <4>1 DEF Decoded
      <4>3. [res |-> Append(d.res, y), next |-> i + 3] \in V
        BY <3>1
      <4>4. DecodeStep(d, text, i) \in {d, [res |-> Append(d.res, y), next |-> i + 3],
                                        [res |-> Append(d.res, x), next |-> i + 1]}
        BY <3>2, <4>2 DEF DecodeStep
      <4>5. QED
        BY <3>3, <4>3, <4>4
    <3>5. CASE ~(i + 2 <= n)
      <4>1. DecodeStep(d, text, i) \in {d, [res |-> Append(d.res, x), next |-> i + 1]}
        BY <3>2, <3>5 DEF DecodeStep
      <4>2. QED
        BY <3>3, <4>1
    <3>6. QED
      BY <3>4, <3>5
  <2>3. QED
    BY <2>1, <2>2
<1>3. \A d \in V, i \in 1..n : st[<<d, i>>] = DecodeStep(d, text, at[i])
  OBVIOUS
<1>4. Steps(st, V, n)
  <2> HIDE DEF st
  <2> QED
    BY <1>1, <1>2, <1>3 DEF Steps
<1> HIDE DEF st, V, n, base
<1>5. PICK g : OnSets(g, base, st, V, n)
  BY <1>1, <1>2, <1>4, FoldExists
<1>6. Is(g)
  <2> HIDE DEF at
  <2> QED
    BY <1>3, <1>5 DEF OnSets
<1>7. PICK h : Is(h) /\ url_decode(text) = h[1..n].res
  <2> HIDE DEF at
  <2>1. url_decode(text) =
          FoldLeft(LAMBDA d, i : DecodeStep(d, text, i), base, at).res
    BY DEF url_decode, DecodeStep, base, at
  <2>2. QED
    BY <1>1, <1>6, <2>1 DEF FoldLeft, MapThenFoldSet
<1> HIDE DEF at
<1>8. WhereValued(h, base, st, V, n)
  BY <1>3, <1>5, <1>7 DEF OnSets, WhereValued
<1>9. PICK d : Trace(d, base, st, V, n) /\ h[1..n] = d[n]
  BY <1>1, <1>2, <1>4, <1>8, FoldSteps
<1>10. \A k \in 1..n : d[k] = DecodeStep(d[k - 1], text, k)
  <2>1. \A k \in 1..n : k - 1 \in 0..n
    BY <1>1
  <2>2. ASSUME NEW k \in 1..n PROVE d[k] = DecodeStep(d[k - 1], text, k)
    <3>1. d[k - 1] \in V /\ d[k] = st[<<d[k - 1], k>>]
      BY <1>9, <2>1 DEF Trace
    <3>2. st[<<d[k - 1], k>>] = DecodeStep(d[k - 1], text, at[k])
      BY <1>3, <3>1
    <3>3. at[k] = k
      BY <1>1
    <3>4. QED
      BY <3>1, <3>2, <3>3
  <2>3. QED
    BY <2>2
<1>11. QED
  BY <1>7, <1>9, <1>10 DEF n, V, base, Trace, DecodeTrace

\* The first p characters have been decoded, as r.
HasDecoded(d, p, r) == d[p] = [res |-> r, next |-> p + 1]

\* An escape is decoded at its first character, and skipped.
LEMMA CharacterDecoded ==
  ASSUME NEW e \in Seq(Character), NEW d, DecodeTrace(d, e),
         NEW r \in Seq(Character), NEW p \in Nat, HasDecoded(d, p, r),
         NEW c \in Character, Follows(e, p, Escaped(c))
  PROVE  HasDecoded(d, p + Len(Escaped(c)), Append(r, c))
<1>1. /\ Len(e) \in Nat /\ p + Len(Escaped(c)) <= Len(e)
      /\ \A j \in 1..Len(Escaped(c)) : e[p + j] = Escaped(c)[j]
      /\ d[p] = [res |-> r, next |-> p + 1]
  BY DEF Follows, HasDecoded
<1>2. ASSUME Len(Escaped(c)) \in Nat \ {0}
      PROVE  /\ e[p + 1] = Escaped(c)[1]
             /\ d[p + 1] = DecodeStep([res |-> r, next |-> p + 1], e, p + 1)
  <2>1. p + 1 \in 1..Len(e) /\ (p + 1) - 1 = p /\ 1 \in 1..Len(Escaped(c))
    BY <1>1, <1>2
  <2>2. d[p + 1] = DecodeStep(d[(p + 1) - 1], e, p + 1)
    BY <2>1 DEF DecodeTrace
  <2>3. QED
    BY <1>1, <2>1, <2>2
<1>3. CASE c \in {"+", "&", "=", "%"}
  <2>1. PICK x, y \in Character : Escaped(c) = <<"%", x, y>> /\ Hex[<<x, y>>] = c
    <3>1. {"2", "3", "5", "6", "B", "D"} \subseteq Character
      BY DEF Character
    <3>2. CASE c = "+"
      <4>1. Escaped(c) = <<"%", "2", "B">>
        BY <3>2 DEF Escaped, Escape
      <4>2. Hex[<<"2", "B">>] = c
        BY <3>2 DEF Hex
      <4>3. QED
        BY <3>1, <4>1, <4>2
    <3>3. CASE c = "&"
      <4>1. Escaped(c) = <<"%", "2", "6">>
        BY <3>3 DEF Escaped, Escape
      <4>2. Hex[<<"2", "6">>] = c
        BY <3>3 DEF Hex
      <4>3. QED
        BY <3>1, <4>1, <4>2
    <3>4. CASE c = "="
      <4>1. Escaped(c) = <<"%", "3", "D">>
        BY <3>4 DEF Escaped, Escape
      <4>2. Hex[<<"3", "D">>] = c
        BY <3>4 DEF Hex
      <4>3. QED
        BY <3>1, <4>1, <4>2
    <3>5. CASE c = "%"
      <4>1. Escaped(c) = <<"%", "2", "5">>
        BY <3>5 DEF Escaped, Escape
      <4>2. Hex[<<"2", "5">>] = c
        BY <3>5 DEF Hex
      <4>3. QED
        BY <3>1, <4>1, <4>2
    <3>6. QED
      BY <1>3, <3>2, <3>3, <3>4, <3>5
  <2>2. Len(Escaped(c)) = 3 /\ Escaped(c)[1] = "%" /\ Escaped(c)[2] = x /\ Escaped(c)[3] = y
    BY <2>1
  <2>3. e[p + 1] = "%" /\ e[p + 2] = x /\ e[p + 3] = y /\ p + 3 <= Len(e)
    BY <1>1, <2>2
  <2>4. SubSeq(e, (p + 1) + 1, (p + 1) + 2) = <<x, y>>
    <3> DEFINE z == SubSeq(e, (p + 1) + 1, p + 3)
    <3>1. p + 1 \in Nat /\ p + 3 \in Nat /\ p + 1 <= p + 3
      OBVIOUS
    <3>2. /\ z \in Seq(Character) /\ Len(z) = (p + 3) - (p + 1)
          /\ \A i \in 1..(p + 3) - (p + 1) : z[i] = e[(p + 1) + i]
      BY ONLY <2>3, <3>1, e \in Seq(Character), Slice
    <3> HIDE DEF z
    <3>3. Len(z) = 2 /\ z[1] = x /\ z[2] = y
      <4>1. (p + 3) - (p + 1) = 2 /\ (p + 1) + 1 = p + 2 /\ (p + 1) + 2 = p + 3
        OBVIOUS
      <4>2. QED
        BY <2>3, <3>2, <4>1
    <3>4. z = <<x, y>>
      BY <3>2, <3>3
    <3>5. (p + 1) + 2 = p + 3
      OBVIOUS
    <3>6. QED
      BY <3>4, <3>5 DEF z
  <2>5. d[p + 1] = [res |-> Append(r, c), next |-> p + 4]
    <3>1. d[p + 1] = DecodeStep([res |-> r, next |-> p + 1], e, p + 1)
      BY <1>2, <2>2
    <3>2. ~(p + 1 < p + 1) /\ (p + 1) + 2 <= Len(e) /\ (p + 1) + 3 = p + 4
      BY <1>1, <2>3
    <3>3. QED
      BY <2>1, <2>3, <2>4, <3>1, <3>2 DEF DecodeStep
  <2>6. d[p + 2] = d[p + 1]
    <3>1. p + 2 \in 1..Len(e) /\ (p + 2) - 1 = p + 1 /\ p + 2 < p + 4
      BY <1>1, <2>3
    <3>2. d[p + 2] = DecodeStep(d[p + 1], e, p + 2)
      BY <3>1 DEF DecodeTrace
    <3>3. QED
      BY <2>5, <3>1, <3>2 DEF DecodeStep
  <2>7. d[p + 3] = d[p + 2]
    <3>1. p + 3 \in 1..Len(e) /\ (p + 3) - 1 = p + 2 /\ p + 3 < p + 4
      BY <1>1, <2>3
    <3>2. d[p + 3] = DecodeStep(d[p + 2], e, p + 3)
      BY <3>1 DEF DecodeTrace
    <3>3. QED
      BY <2>5, <2>6, <3>1, <3>2 DEF DecodeStep
  <2>8. QED
    BY <2>2, <2>5, <2>6, <2>7 DEF HasDecoded
<1>4. CASE c \notin {"+", "&", "=", "%"}
  <2>1. PICK x \in Character :
             /\ x # "%" /\ (IF x = "+" THEN " " ELSE x) = c
             /\ Escaped(c) = <<x>>
    <3>1. CASE c = " "
      <4>1. Escaped(c) = <<"+">> /\ "+" \in Character
        BY <3>1 DEF Escaped, Escape, Character
      <4>2. QED
        BY <3>1, <4>1
    <3>2. CASE c # " "
      <4>1. Escaped(c) = <<c>>
        BY <1>4, <3>2 DEF Escaped, Escape
      <4>2. QED
        BY <1>4, <4>1
    <3>3. QED
      BY <3>1, <3>2
  <2>2. Len(Escaped(c)) = 1 /\ Escaped(c)[1] = x
    <3>1. Len(<<x>>) = 1 /\ <<x>>[1] = x
      OBVIOUS
    <3>2. QED
      BY <2>1, <3>1, Zenon
  <2>3. /\ e[p + 1] # "%"
        /\ (IF e[p + 1] = "+" THEN " " ELSE e[p + 1]) = c
        /\ d[p + 1] = DecodeStep([res |-> r, next |-> p + 1], e, p + 1)
    <3>1. e[p + 1] = x
      BY <1>2, <2>2
    <3>2. d[p + 1] = DecodeStep([res |-> r, next |-> p + 1], e, p + 1)
      BY <1>2, <2>2
    <3>3. QED
      BY <2>1, <3>1, <3>2
  <2>4. ~(p + 1 < p + 1)
    OBVIOUS
  <2>5. QED
    BY <2>2, <2>3, <2>4 DEF DecodeStep, HasDecoded
<1>5. QED
  BY <1>3, <1>4

\* What a browser has encoded is decoded.
LEMMA DecodeEncode ==
  ASSUME NEW text \in Seq(Character)
  PROVE  url_decode(Encode(text)) = text
<1> DEFINE n == Len(text)
           x == [k \in 1..n |-> Escaped(text[k])]
           e == Encode(text)
           r(k) == SubSeq(text, 1, k)
<1>1. n \in Nat /\ \A k \in 1..n : text[k] \in Character
  OBVIOUS
<1>2. PICK b : Collects(b, x, n, Plain) /\ e = b[n]
  BY EncodeUnfolds
<1>3. e \in Seq(Character) /\ Len(e) \in Nat
  BY EncodeTypes
<1> HIDE DEF e
<1>4. PICK d : DecodeTrace(d, e) /\ url_decode(e) = d[Len(e)].res
  BY <1>3, DecodeUnfolds
<1>5. \A k \in 0..n : r(k) \in Seq(Character)
  BY <1>1
<1>6. \A k \in 1..n : Append(r(k - 1), text[k]) = r(k)
  BY <1>1
<1>7. r(0) = <<>> /\ r(n) = text
  BY <1>1
<1> HIDE DEF r
<1>8. Placed(b, x, n)
  <2>1. Collects(b, x, n, Plain) /\ n \in Nat
    BY <1>1, <1>2
  <2> HIDE DEF n, x
  <2>2. QED
    BY ONLY <2>1, Blocks
<1>9. b[0] = <<>> /\ \A k \in 0..n : Len(b[k]) \in Nat
  <2> HIDE DEF x
  <2>1. \A k \in 0..n : b[k] \in Seq(Plain)
    BY <1>2 DEF Collects
  <2>2. QED
    BY <1>2, <2>1 DEF Collects
<1> DEFINE T == {k \in Nat : k <= n => d[Len(b[k])] = [res |-> r(k), next |-> Len(b[k]) + 1]}
<1>10. 0 \in T
  BY <1>4, <1>7, <1>9 DEF DecodeTrace
<1>11. ASSUME NEW m \in Nat, m \in T PROVE m + 1 \in T
  <2> SUFFICES ASSUME m + 1 <= n
               PROVE  d[Len(b[m + 1])] = [res |-> r(m + 1), next |-> Len(b[m + 1]) + 1]
    OBVIOUS
  <2>1. PICK k \in 1..n : k = m + 1 /\ k - 1 = m
    BY <1>1
  <2>2. m \in 0..n /\ k \in 0..n
    BY <2>1
  <2>3. PICK p : p = Len(b[m])
    OBVIOUS
  <2>4. PICK c \in Character : c = text[k]
    BY <1>1
  <2>5. p \in Nat /\ d[p] = [res |-> r(m), next |-> p + 1]
    BY <1>9, <1>11, <2>2, <2>3
  <2>6. x[k] = Escaped(c)
    BY <2>4
  <2> HIDE DEF x
  <2>7. /\ Len(b[k]) = p + Len(Escaped(c)) /\ Len(b[k]) <= Len(e)
        /\ \A j \in 1..Len(Escaped(c)) : e[p + j] = Escaped(c)[j]
    BY <1>2, <1>8, <2>1, <2>3, <2>6 DEF Placed
  <2>8. PICK s \in Seq(Character) : s = r(m) /\ Append(s, c) = r(k)
    BY <1>5, <1>6, <2>1, <2>2, <2>4
  <2>9. HasDecoded(d, p + Len(Escaped(c)), Append(s, c))
    <3>1. HasDecoded(d, p, s)
      BY <2>5, <2>8 DEF HasDecoded
    <3>2. e \in Seq(Character) /\ DecodeTrace(d, e) /\ s \in Seq(Character) /\ c \in Character
          /\ p \in Nat
      BY <1>3, <1>4, <2>5
    <3>3. Follows(e, p, Escaped(c))
      BY <2>7 DEF Follows
    <3>4. QED
      BY ONLY <3>1, <3>2, <3>3, CharacterDecoded
  <2>10. QED
    BY <2>1, <2>7, <2>8, <2>9 DEF HasDecoded
<1>12. n \in T
  <2> HIDE DEF T
  <2> QED
    BY <1>1, <1>10, <1>11, Induction
<1>13. url_decode(e) = text
  BY <1>1, <1>2, <1>4, <1>7, <1>12
<1>14. QED
  BY <1>13 DEF e

-----------------------------------------------------------------------------
(* Forms, as they are parsed.                                              *)
Maps == UNION {[S -> Seq(Character)] : S \in SUBSET Seq(Character)}

\* A field is put into a map.
Puts(f, m) == Put(m, f.key, f.value)

\* It is there with its value, and what was there under other keys stays.
LEMMA PutsField ==
  ASSUME NEW f \in Field, NEW m \in Maps
  PROVE  /\ Puts(f, m) \in Maps
         /\ DOMAIN Puts(f, m) = DOMAIN m \cup {f.key}
         /\ Puts(f, m)[f.key] = f.value
         /\ \A k \in DOMAIN m : k # f.key => Puts(f, m)[k] = m[k]
<1>1. f.key \in Seq(Character) /\ f.value \in Seq(Character)
  BY DEF Field
<1>2. PICK S \in SUBSET Seq(Character) : m \in [S -> Seq(Character)]
  BY DEF Maps
<1>3. Puts(f, m) = [k \in S \cup {f.key} |-> IF k = f.key THEN f.value ELSE m[k]]
  BY <1>2 DEF Puts, Put
<1>4. Puts(f, m) \in [S \cup {f.key} -> Seq(Character)] /\ S \cup {f.key} \in SUBSET Seq(Character)
  BY <1>1, <1>2, <1>3
<1>5. Puts(f, m) \in Maps
  BY <1>4 DEF Maps
<1>6. QED
  BY <1>2, <1>3, <1>5

\* m has had the fields fs put into it, one after the other.
Filled(m, fs) ==
  /\ m \in [0..Len(fs) -> Maps]
  /\ m[0] = NoFields
  /\ \A k \in 1..Len(fs) : m[k] = Puts(fs[k], m[k - 1])

\* The last field with its key, of the first k.
LastAt(fs, i, k) == \A j \in i + 1..k : fs[j].key # fs[i].key

\* Of two fields with one key the last stays.
LEMMA LastStays ==
  ASSUME NEW fs \in Seq(Field), NEW m, Filled(m, fs)
  PROVE  m[Len(fs)] = Sends(fs)
<1> DEFINE n == Len(fs)
           Good(k) == /\ DOMAIN m[k] = {fs[i].key : i \in 1..k}
                      /\ \A i \in 1..k : LastAt(fs, i, k) => m[k][fs[i].key] = fs[i].value
                      /\ \A i \in 1..k : \E j \in 1..k : fs[j].key = fs[i].key /\ LastAt(fs, j, k)
           T == {k \in Nat : k <= n => Good(k)}
<1>1. n \in Nat /\ DOMAIN fs = 1..n /\ \A i \in 1..n : fs[i] \in Field
  OBVIOUS
<1>2. 0 \in T
  <2>1. DOMAIN m[0] = {}
    BY DEF Filled, NoFields
  <2>2. 1..0 = {}
    OBVIOUS
  <2>3. QED
    BY <2>1, <2>2
<1>3. ASSUME NEW k \in Nat, k \in T PROVE k + 1 \in T
  <2> SUFFICES ASSUME k + 1 <= n PROVE Good(k + 1)
    <3> HIDE DEF Good
    <3> QED
      OBVIOUS
  <2>1. PICK l \in 1..n : l = k + 1 /\ l - 1 = k
    BY <1>1
  <2>2. Good(k)
    <3> HIDE DEF Good
    <3> QED
      BY <1>1, <1>3
  <2>3. m[k] \in Maps /\ m[l] = Puts(fs[l], m[k]) /\ fs[l] \in Field
    <3>1. k \in 0..n
      BY <1>1
    <3>2. QED
      BY <1>1, <2>1, <3>1 DEF Filled
  <2>4. /\ DOMAIN m[l] = DOMAIN m[k] \cup {fs[l].key}
        /\ m[l][fs[l].key] = fs[l].value
        /\ \A x \in DOMAIN m[k] : x # fs[l].key => m[l][x] = m[k][x]
    <3>1. PICK f, u, v : f = fs[l] /\ u = m[k] /\ v = m[l]
      OBVIOUS
    <3>2. f \in Field /\ u \in Maps
      BY <2>3, <3>1
    <3>3. /\ DOMAIN Puts(f, u) = DOMAIN u \cup {f.key}
          /\ Puts(f, u)[f.key] = f.value
          /\ \A x \in DOMAIN u : x # f.key => Puts(f, u)[x] = u[x]
      BY ONLY <3>2, PutsField
    <3>4. v = Puts(f, u)
      BY <2>3, <3>1
    <3>5. QED
      BY <3>1, <3>3, <3>4
  <2>5. 1..l = 1..k \cup {l} /\ l \notin 1..k
    BY <2>1
  <2>6. /\ LastAt(fs, l, l)
        /\ \A i \in 1..k : LastAt(fs, i, l) <=> LastAt(fs, i, k) /\ fs[l].key # fs[i].key
    <3>1. l + 1..l = {}
      BY <2>1
    <3>2. ASSUME NEW i \in 1..k PROVE i + 1..l = (i + 1..k) \cup {l}
      BY <2>1
    <3>3. \A i \in 1..k : LastAt(fs, i, l) <=> LastAt(fs, i, k) /\ fs[l].key # fs[i].key
      BY <3>2 DEF LastAt
    <3>4. QED
      BY <3>1, <3>3 DEF LastAt
  <2>7. DOMAIN m[l] = {fs[i].key : i \in 1..l}
    <3>1. DOMAIN m[l] = {fs[i].key : i \in 1..k} \cup {fs[l].key}
      BY <2>2, <2>4
    <3>2. QED
      BY <2>5, <3>1
  <2>8. ASSUME NEW i \in 1..l, LastAt(fs, i, l) PROVE m[l][fs[i].key] = fs[i].value
    <3>1. CASE i = l
      BY <2>4, <3>1
    <3>2. CASE i \in 1..k
      BY <2>2, <2>4, <2>6, <2>8, <3>2
    <3>3. QED
      BY <2>5, <3>1, <3>2
  <2>9. ASSUME NEW i \in 1..l
        PROVE  \E j \in 1..l : fs[j].key = fs[i].key /\ LastAt(fs, j, l)
    <3>1. CASE fs[i].key = fs[l].key
      BY <2>5, <2>6, <3>1
    <3>2. CASE fs[i].key # fs[l].key
      <4>1. i \in 1..k
        BY <2>5, <3>2
      <4>2. PICK j \in 1..k : fs[j].key = fs[i].key /\ LastAt(fs, j, k)
        BY <2>2, <4>1
      <4>3. j \in 1..l /\ LastAt(fs, j, l)
        BY <2>5, <2>6, <3>2, <4>2
      <4>4. QED
        BY <4>2, <4>3
    <3>3. QED
      BY <3>1, <3>2
  <2>10. Good(l)
    BY <2>7, <2>8, <2>9
  <2>11. QED
    BY <2>1, <2>10
<1>4. Good(n)
  <2>1. n \in T
    <3> HIDE DEF T
    <3> QED
      BY <1>1, <1>2, <1>3, Induction
  <2> HIDE DEF Good
  <2>2. QED
    BY <1>1, <2>1
<1> DEFINE LastOf(k) == CHOOSE i \in DOMAIN fs :
                          /\ fs[i].key = k
                          /\ \A j \in i + 1..Len(fs) : fs[j].key # k
<1>5. ASSUME NEW k \in DOMAIN m[n] PROVE m[n][k] = fs[LastOf(k)].value
  <2>1. PICK i \in 1..n : fs[i].key = k /\ LastAt(fs, i, n)
    BY <1>4
  <2>2. \A j \in i + 1..Len(fs) : fs[j].key # k
    BY <2>1 DEF LastAt
  <2>3. /\ LastOf(k) \in 1..n /\ fs[LastOf(k)].key = k
        /\ \A j \in LastOf(k) + 1..Len(fs) : fs[j].key # k
    BY <1>1, <2>1, <2>2
  <2> HIDE DEF LastOf
  <2>4. LastAt(fs, LastOf(k), n)
    BY <2>3 DEF LastAt
  <2>5. QED
    BY <1>4, <2>3, <2>4
<1>6. m[n] = [k \in DOMAIN m[n] |-> m[n][k]]
  <2>1. m[n] \in Maps
    BY <1>1 DEF Filled
  <2>2. QED
    BY <2>1 DEF Maps
<1>7. Sends(fs) = [k \in {fs[i].key : i \in DOMAIN fs} |-> fs[LastOf(k)].value]
  BY DEF Sends
<1> HIDE DEF LastOf
<1>8. QED
  BY <1>1, <1>4, <1>5, <1>6, <1>7

\* The steps of the two parsers.
FormStepOf(m, p) ==
  IF Contains(p, "=") THEN Put(m, url_decode(KeyOf(p)), url_decode(ValueOf(p))) ELSE m
QueryStepOf(m, p) ==
  IF Contains(p, "=") THEN Put(m, KeyOf(p), ValueOf(p)) ELSE m

\* They go through the pairs one by one.
LEMMA FormParserUnfolds ==
  ASSUME NEW text, NEW n \in Nat, DOMAIN Pairs(text) = 1..n,
         NEW V, NoFields \in V, NEW st, Steps(st, V, n),
         \A m \in V, i \in 1..n : st[<<m, i>>] = FormStepOf(m, Pairs(text)[i])
  PROVE  \E b : Trace(b, NoFields, st, V, n) /\ parse_form_urlencoded(text) = b[n]
<1> DEFINE Is(g) == g = [s \in SUBSET (1..n) |->
                            IF s = {} THEN NoFields
                            ELSE FormStepOf(g[s \ {Max(s)}], Pairs(text)[Max(s)])]
<1>1. PICK g : OnSets(g, NoFields, st, V, n)
  BY FoldExists
<1>2. Is(g)
  BY <1>1 DEF OnSets
<1>3. PICK h : Is(h) /\ parse_form_urlencoded(text) = h[1..n]
  <2>1. parse_form_urlencoded(text) =
          FoldLeft(LAMBDA m, p : FormStepOf(m, p), NoFields, Pairs(text))
    BY DEF parse_form_urlencoded, FormStepOf
  <2>2. QED
    BY <1>2, <2>1 DEF FoldLeft, MapThenFoldSet
<1>4. WhereValued(h, NoFields, st, V, n)
  BY <1>1, <1>3 DEF OnSets, WhereValued
<1>5. PICK b : Trace(b, NoFields, st, V, n) /\ h[1..n] = b[n]
  BY <1>4, FoldSteps
<1>6. QED
  BY <1>3, <1>5

\* The other parser does it in the same way.
LEMMA QueryParserUnfolds ==
  ASSUME NEW text, NEW n \in Nat, DOMAIN Pairs(text) = 1..n,
         NEW V, NoFields \in V, NEW st, Steps(st, V, n),
         \A m \in V, i \in 1..n : st[<<m, i>>] = QueryStepOf(m, Pairs(text)[i])
  PROVE  \E b : Trace(b, NoFields, st, V, n) /\ parse_query_string(text) = b[n]
<1> DEFINE Is(g) == g = [s \in SUBSET (1..n) |->
                            IF s = {} THEN NoFields
                            ELSE QueryStepOf(g[s \ {Max(s)}], Pairs(text)[Max(s)])]
<1>1. PICK g : OnSets(g, NoFields, st, V, n)
  BY FoldExists
<1>2. Is(g)
  BY <1>1 DEF OnSets
<1>3. PICK h : Is(h) /\ parse_query_string(text) = h[1..n]
  <2>1. parse_query_string(text) =
          FoldLeft(LAMBDA m, p : QueryStepOf(m, p), NoFields, Pairs(text))
    BY DEF parse_query_string, QueryStepOf
  <2>2. QED
    BY <1>2, <2>1 DEF FoldLeft, MapThenFoldSet
<1>4. WhereValued(h, NoFields, st, V, n)
  BY <1>1, <1>3 DEF OnSets, WhereValued
<1>5. PICK b : Trace(b, NoFields, st, V, n) /\ h[1..n] = b[n]
  BY <1>4, FoldSteps
<1>6. QED
  BY <1>3, <1>5

\* Without fields the map is empty.
LEMMA SendsNothing == Sends(<<>>) = NoFields
<1> DEFINE m == [k \in 0..0 |-> NoFields]
<1>1. <<>> \in Seq(Field) /\ Len(<<>>) = 0
  OBVIOUS
<1>2. NoFields \in Maps
  <2>1. <<>> \in [{} -> Seq(Character)] /\ {} \in SUBSET Seq(Character)
    OBVIOUS
  <2>2. QED
    BY <2>1 DEF Maps, NoFields
<1>3. Filled(m, <<>>)
  BY <1>1, <1>2 DEF Filled
<1>4. m[0] = NoFields
  OBVIOUS
<1> HIDE DEF m
<1>5. QED
  BY <1>1, <1>3, <1>4, LastStays

\* Of an empty form there is an empty pair, which is skipped.
LEMMA EmptyPair ==
  ASSUME NEW text, Pairs(text) = <<<<>>>>
  PROVE  parse_form_urlencoded(text) = NoFields /\ parse_query_string(text) = NoFields
<1> DEFINE V == {NoFields}
           n == 1
           st == [y \in V \X (1..n) |-> y[1]]
<1>1. n \in Nat /\ n \in 1..n /\ DOMAIN Pairs(text) = 1..n /\ \A i \in 1..n : Pairs(text)[i] = <<>>
  OBVIOUS
<1>2. ~Contains(<<>>, "=")
  BY DEF Contains
<1>3. \A m \in V, i \in 1..n : st[<<m, i>>] = m
  OBVIOUS
<1> HIDE DEF st, n
<1>4. \A m \in V, i \in 1..n : st[<<m, i>>] = FormStepOf(m, Pairs(text)[i])
  BY <1>1, <1>2, <1>3 DEF FormStepOf
<1>5. \A m \in V, i \in 1..n : st[<<m, i>>] = QueryStepOf(m, Pairs(text)[i])
  BY <1>1, <1>2, <1>3 DEF QueryStepOf
<1>6. Steps(st, V, n) /\ NoFields \in V
  BY <1>3 DEF Steps
<1> HIDE DEF V
<1>7. PICK b : Trace(b, NoFields, st, V, n) /\ parse_form_urlencoded(text) = b[n]
  BY <1>1, <1>4, <1>6, FormParserUnfolds
<1>8. PICK c : Trace(c, NoFields, st, V, n) /\ parse_query_string(text) = c[n]
  BY <1>1, <1>5, <1>6, QueryParserUnfolds
<1>9. n \in 0..n
  BY <1>1
<1>10. b[n] \in V /\ c[n] \in V
  BY <1>7, <1>8, <1>9 DEF Trace
<1>11. QED
  BY <1>7, <1>8, <1>10 DEF V

\* The step that puts the fields fs into a map one by one.
FieldSteps(fs) == [y \in Maps \X (1..Len(fs)) |-> Puts(fs[y[2]], y[1])]

\* With it a fold over the fields ends with what Sends gives.
LEMMA FieldsFill ==
  ASSUME NEW fs \in Seq(Field)
  PROVE  /\ NoFields \in Maps /\ Steps(FieldSteps(fs), Maps, Len(fs))
         /\ \A b : Trace(b, NoFields, FieldSteps(fs), Maps, Len(fs)) => b[Len(fs)] = Sends(fs)
<1> DEFINE st == FieldSteps(fs)
           n == Len(fs)
<1>1. n \in Nat /\ \A i \in 1..n : fs[i] \in Field
  OBVIOUS
<1>2. NoFields \in Maps
  <2>1. <<>> \in [{} -> Seq(Character)] /\ {} \in SUBSET Seq(Character)
    OBVIOUS
  <2>2. QED
    BY <2>1 DEF Maps, NoFields
<1>3. \A m \in Maps, i \in 1..n : st[<<m, i>>] = Puts(fs[i], m)
  BY DEF FieldSteps
<1> HIDE DEF st, n
<1>4. Steps(st, Maps, n)
  BY <1>1, <1>3, PutsField DEF Steps
<1>5. ASSUME NEW b, Trace(b, NoFields, st, Maps, n) PROVE b[n] = Sends(fs)
  <2>1. b \in [0..n -> Maps] /\ b[0] = NoFields
    BY <1>5 DEF Trace
  <2>2. ASSUME NEW k \in 1..n PROVE b[k] = Puts(fs[k], b[k - 1])
    <3>1. k - 1 \in 0..n
      BY <1>1
    <3>2. b[k - 1] \in Maps /\ b[k] = st[<<b[k - 1], k>>]
      BY <1>5, <2>1, <3>1 DEF Trace
    <3>3. QED
      BY <1>3, <3>2
  <2>3. Filled(b, fs)
    BY <2>1, <2>2 DEF Filled, n
  <2>4. QED
    BY <2>3, LastStays DEF n
<1>6. QED
  BY <1>2, <1>4, <1>5 DEF st, n

\* What a browser sends of a form is parsed to its fields,
LEMMA FormParsed ==
  ASSUME NEW fields \in Seq(Field)
  PROVE  parse_form_urlencoded(EncodeForm(fields)) = Sends(fields)
<1> DEFINE n == Len(fields)
           text == EncodeForm(fields)
           st == FieldSteps(fields)
<1>1. n \in Nat /\ \A i \in 1..n : fields[i] \in Field
  OBVIOUS
<1> HIDE DEF text
<1>2. CASE fields = <<>>
  BY <1>2, FormSplits, EmptyPair, SendsNothing DEF text
<1>3. CASE fields # <<>>
  <2>1. Pairs(text) = [k \in 1..n |-> Pair(fields[k])]
    BY <1>3, FormSplits DEF text
  <2>2. DOMAIN Pairs(text) = 1..n /\ \A i \in 1..n : Pairs(text)[i] = Pair(fields[i])
    BY <2>1
  <2>3. ASSUME NEW m \in Maps, NEW i \in 1..n
        PROVE  st[<<m, i>>] = FormStepOf(m, Pairs(text)[i])
    <3>1. fields[i] \in Field /\ fields[i].key \in Seq(Character) /\ fields[i].value \in Seq(Character)
      BY <1>1 DEF Field
    <3>2. /\ Contains(Pair(fields[i]), "=")
          /\ KeyOf(Pair(fields[i])) = Encode(fields[i].key)
          /\ ValueOf(Pair(fields[i])) = Encode(fields[i].value)
      BY <3>1, PairSplits
    <3>3. FormStepOf(m, Pairs(text)[i]) = Puts(fields[i], m)
      BY <2>2, <3>1, <3>2, DecodeEncode DEF FormStepOf, Puts
    <3>4. st[<<m, i>>] = Puts(fields[i], m)
      BY DEF FieldSteps
    <3>5. QED
      BY <3>3, <3>4
  <2>4. /\ NoFields \in Maps /\ Steps(st, Maps, n)
        /\ \A b : Trace(b, NoFields, st, Maps, n) => b[n] = Sends(fields)
    BY FieldsFill
  <2> HIDE DEF st, n
  <2>5. PICK b : Trace(b, NoFields, st, Maps, n) /\ parse_form_urlencoded(text) = b[n]
    BY <1>1, <2>2, <2>3, <2>4, FormParserUnfolds
  <2>6. QED
    BY <2>4, <2>5 DEF text
<1>4. QED
  BY <1>2, <1>3

\* and what it sends of a query to its fields, encoded still.
Encoded(fields) ==
  [i \in DOMAIN fields |-> [key |-> Encode(fields[i].key), value |-> Encode(fields[i].value)]]

\* parse_query_string gives the fields of a query as they were encoded.
LEMMA QueryParsed ==
  ASSUME NEW fields \in Seq(Field)
  PROVE  parse_query_string(EncodeForm(fields)) = Sends(Encoded(fields))
<1> DEFINE n == Len(fields)
           text == EncodeForm(fields)
           fs == Encoded(fields)
           st == FieldSteps(fs)
<1>1. n \in Nat /\ DOMAIN fields = 1..n /\ \A i \in 1..n : fields[i] \in Field
  OBVIOUS
<1>2. ASSUME NEW i \in 1..n
      PROVE  /\ fs[i].key = Encode(fields[i].key) /\ fs[i].value = Encode(fields[i].value)
             /\ fs[i] \in Field
  <2>1. fs[i] = [key |-> Encode(fields[i].key), value |-> Encode(fields[i].value)]
    BY <1>1 DEF Encoded
  <2>2. Encode(fields[i].key) \in Seq(Character) /\ Encode(fields[i].value) \in Seq(Character)
    BY <1>1, PairLayout
  <2>3. QED
    BY <2>1, <2>2 DEF Field
<1>3. fs \in Seq(Field) /\ Len(fs) = n
  <2>1. fs = [i \in 1..n |-> fs[i]]
    BY <1>1 DEF Encoded
  <2> HIDE DEF fs
  <2>2. QED
    BY <1>1, <1>2, <2>1
<1> HIDE DEF text, fs
<1>4. CASE fields = <<>>
  <2>1. fs = <<>>
    <3>1. Len(fs) = 0
      BY <1>3, <1>4
    <3>2. QED
      BY <1>3, <3>1
  <2>2. QED
    BY <1>4, <2>1, FormSplits, EmptyPair, SendsNothing DEF text, fs
<1>5. CASE fields # <<>>
  <2>1. Pairs(text) = [k \in 1..n |-> Pair(fields[k])]
    BY <1>5, FormSplits DEF text
  <2>2. DOMAIN Pairs(text) = 1..n /\ \A i \in 1..n : Pairs(text)[i] = Pair(fields[i])
    BY <2>1
  <2>3. ASSUME NEW m \in Maps, NEW i \in 1..n
        PROVE  st[<<m, i>>] = QueryStepOf(m, Pairs(text)[i])
    <3>1. /\ Contains(Pair(fields[i]), "=")
          /\ KeyOf(Pair(fields[i])) = Encode(fields[i].key)
          /\ ValueOf(Pair(fields[i])) = Encode(fields[i].value)
      BY <1>1, PairSplits
    <3>2. QueryStepOf(m, Pairs(text)[i]) = Puts(fs[i], m)
      BY <1>2, <2>2, <3>1 DEF QueryStepOf, Puts
    <3>3. st[<<m, i>>] = Puts(fs[i], m)
      BY <1>3 DEF FieldSteps
    <3>4. QED
      BY <3>2, <3>3
  <2>4. /\ NoFields \in Maps /\ Steps(st, Maps, n)
        /\ \A b : Trace(b, NoFields, st, Maps, n) => b[n] = Sends(fs)
    BY <1>3, FieldsFill
  <2> HIDE DEF st, n
  <2>5. PICK b : Trace(b, NoFields, st, Maps, n) /\ parse_query_string(text) = b[n]
    BY <1>1, <2>2, <2>3, <2>4, QueryParserUnfolds
  <2>6. QED
    BY <2>4, <2>5 DEF text, fs
<1>6. QED
  BY <1>4, <1>5

\* A form with fields has characters.
LEMMA FormNotEmpty ==
  ASSUME NEW fields \in Seq(Field), fields # <<>>
  PROVE  EncodeForm(fields) # <<>>
<1> SUFFICES ASSUME EncodeForm(fields) = <<>> PROVE FALSE
  OBVIOUS
<1>1. Pairs(<<>>) = [k \in 1..Len(fields) |-> Pair(fields[k])]
  BY FormSplits
<1>2. <<>> \in Seq(Character) /\ Len(<<>>) = 0
  OBVIOUS
<1>3. PICK q : PairTrace(q, <<>>) /\ Pairs(<<>>) = q[0]
  BY <1>2, PairsUnfold
<1>4. 1 \in 1..Len(fields) /\ fields[1] \in Field
  OBVIOUS
<1>5. Pair(fields[1]) = <<>>
  <2>1. Pairs(<<>>)[1] = <<>>
    BY <1>3 DEF PairTrace
  <2>2. Pairs(<<>>)[1] = Pair(fields[1])
    BY <1>1, <1>4
  <2>3. QED
    BY <2>1, <2>2
<1>6. Contains(Pair(fields[1]), "=")
  BY <1>4, PairSplits
<1>7. QED
  BY <1>5, <1>6 DEF Contains

-----------------------------------------------------------------------------
(* The header ends at its first empty line.                                  *)
WireUnit == {"line", "crlf", "length", "type", "field"} \cup Unit \cup Character

\* Lines that are not empty.
Lines(s) ==
  /\ s \in Seq(WireUnit) /\ Len(s) >= 2
  /\ s[1] # "crlf" /\ s[Len(s)] = "crlf"
  /\ \A i \in 1..Len(s) - 1 : ~(s[i] = "crlf" /\ s[i + 1] = "crlf")

\* Lines behind lines are lines.
LEMMA MoreLines ==
  ASSUME NEW s, NEW t, Lines(s), Lines(t)
  PROVE  Lines(s \o t)
<1> DEFINE l == Len(s)
           m == Len(t)
           u == s \o t
<1>1. s \in Seq(WireUnit) /\ t \in Seq(WireUnit)
  BY DEF Lines
<1>2. l \in Nat /\ m \in Nat /\ l >= 2 /\ m >= 2
  BY <1>1 DEF Lines
<1>3. /\ u \in Seq(WireUnit) /\ Len(u) = l + m /\ \A i \in 1..l : u[i] = s[i]
      /\ \A i \in 1..m : u[l + i] = t[i]
  BY <1>1, Concatenates
<1>4. /\ s[1] # "crlf" /\ t[1] # "crlf" /\ t[m] = "crlf"
      /\ \A i \in 1..l - 1 : ~(s[i] = "crlf" /\ s[i + 1] = "crlf")
      /\ \A i \in 1..m - 1 : ~(t[i] = "crlf" /\ t[i + 1] = "crlf")
  BY DEF Lines
<1> HIDE DEF l, m, u
<1>5. u[1] # "crlf" /\ u[l + m] = "crlf" /\ u[l + 1] # "crlf"
  BY <1>2, <1>3, <1>4
<1>6. ASSUME NEW i \in 1..l + m - 1 PROVE ~(u[i] = "crlf" /\ u[i + 1] = "crlf")
  <2>1. CASE i < l
    <3>1. i \in 1..l /\ i + 1 \in 1..l /\ i \in 1..l - 1
      BY <1>2, <2>1
    <3>2. QED
      BY <1>3, <1>4, <3>1
  <2>2. CASE i = l
    BY <1>5, <2>2
  <2>3. CASE i > l
    <3> DEFINE j == i - l
    <3>1. j \in 1..m - 1 /\ j \in 1..m /\ j + 1 \in 1..m /\ i = l + j /\ i + 1 = l + (j + 1)
      BY <1>2, <2>3
    <3> HIDE DEF j
    <3>2. u[i] = t[j] /\ u[i + 1] = t[j + 1]
      BY <1>3, <3>1
    <3>3. QED
      BY <1>4, <3>1, <3>2
  <2>4. QED
    BY <1>2, <2>1, <2>2, <2>3
<1>7. QED
  BY <1>2, <1>3, <1>5, <1>6 DEF Lines, u

\* A line of one unit.
LEMMA ShortLine ==
  ASSUME NEW x \in WireUnit, x # "crlf"
  PROVE  Lines(<<x, "crlf">>)
<1>1. "crlf" \in WireUnit
  BY DEF WireUnit
<1>2. QED
  BY <1>1 DEF Lines

\* A line of n units.
LEMMA PadLine ==
  ASSUME NEW n \in Nat, n # 0
  PROVE  Lines([i \in 1..n |-> "field"] \o <<"crlf">>)
<1> DEFINE s == [i \in 1..n |-> "field"]
           t == <<"crlf">>
           u == s \o t
<1>1. s \in Seq(WireUnit) /\ Len(s) = n /\ \A i \in 1..n : s[i] = "field"
  BY DEF WireUnit
<1>2. t \in Seq(WireUnit) /\ Len(t) = 1 /\ t[1] = "crlf"
  BY DEF WireUnit
<1> HIDE DEF s, t
<1>3. /\ u \in Seq(WireUnit) /\ Len(u) = n + 1 /\ \A i \in 1..n : u[i] = s[i]
      /\ u[n + 1] = "crlf"
  <2>1. /\ u \in Seq(WireUnit) /\ Len(u) = Len(s) + Len(t)
        /\ \A i \in 1..Len(s) : u[i] = s[i]
        /\ \A i \in 1..Len(t) : u[Len(s) + i] = t[i]
    BY ONLY <1>1, <1>2, Concatenates DEF u
  <2>2. 1 \in 1..1
    OBVIOUS
  <2>3. QED
    BY <1>1, <1>2, <2>1, <2>2
<1> HIDE DEF u
<1>4. u[1] # "crlf" /\ \A i \in 1..n + 1 - 1 : u[i] # "crlf"
  BY <1>1, <1>3
<1>5. Lines(u)
  BY <1>3, <1>4 DEF Lines
<1>6. QED
  BY <1>5 DEF u, s, t

\* h is the header of a request.
Ended(h) ==
  /\ h \in Seq(WireUnit) /\ Len(h) >= 3
  /\ h[Len(h) - 1] = "crlf" /\ h[Len(h)] = "crlf"
  /\ \A i \in 1..Len(h) - 2 : ~(h[i] = "crlf" /\ h[i + 1] = "crlf")

\* Header is one.
LEMMA HeaderEnded ==
  ASSUME req \in Requests
  PROVE  Ended(Header)
<1> DEFINE a == <<"line", "crlf">>
           b == IF req.length = "none" THEN <<>> ELSE <<"length", "crlf">>
           c == IF req.type = "none" THEN <<>> ELSE <<"type", "crlf">>
           d == IF req.pad = 0 THEN <<>> ELSE [i \in 1..req.pad |-> "field"] \o <<"crlf">>
           s == a \o b \o c \o d
<1>1. req.pad \in Nat
  BY RequestAssumption DEF RequestRecord
<1>2. Lines(a) /\ (b = <<>> \/ Lines(b)) /\ (c = <<>> \/ Lines(c)) /\ (d = <<>> \/ Lines(d))
  <2>1. Lines(<<"line", "crlf">>) /\ Lines(<<"length", "crlf">>) /\ Lines(<<"type", "crlf">>)
    BY ShortLine DEF WireUnit
  <2>2. req.pad # 0 => Lines([i \in 1..req.pad |-> "field"] \o <<"crlf">>)
    BY <1>1, PadLine
  <2>3. QED
    BY <2>1, <2>2
<1>3. Header = s \o <<"crlf">>
  BY DEF Header
<1> HIDE DEF a, b, c, d
<1>4. \A x, y : Lines(x) /\ (y = <<>> \/ Lines(y)) => Lines(x \o y)
  <2>1. \A x : Lines(x) => x \o <<>> = x
    BY DEF Lines
  <2>2. QED
    BY <2>1, MoreLines
<1>5. Lines(s)
  BY <1>2, <1>4
<1> HIDE DEF s
<1> DEFINE l == Len(s)
           t == <<"crlf">>
           h == s \o t
<1>6. s \in Seq(WireUnit) /\ l \in Nat /\ l >= 2
  BY <1>5 DEF Lines
<1>7. /\ s[l] = "crlf" /\ \A i \in 1..l - 1 : ~(s[i] = "crlf" /\ s[i + 1] = "crlf")
  BY <1>5 DEF Lines
<1>8. t \in Seq(WireUnit) /\ Len(t) = 1 /\ t[1] = "crlf" /\ 1 \in 1..1
  BY DEF WireUnit
<1> HIDE DEF t
<1>9. /\ h \in Seq(WireUnit) /\ Len(h) = l + 1 /\ \A i \in 1..l : h[i] = s[i]
      /\ h[l + 1] = "crlf"
  <2>1. /\ h \in Seq(WireUnit) /\ Len(h) = Len(s) + Len(t)
        /\ \A i \in 1..Len(s) : h[i] = s[i]
        /\ \A i \in 1..Len(t) : h[Len(s) + i] = t[i]
    <3>1. s \in Seq(WireUnit) /\ t \in Seq(WireUnit)
      BY <1>6, <1>8
    <3>2. QED
      BY ONLY <3>1, Concatenates DEF h
  <2>2. QED
    BY <1>8, <2>1
<1> HIDE DEF l, h
<1>10. h[l] = "crlf" /\ \A i \in 1..l - 1 : ~(h[i] = "crlf" /\ h[i + 1] = "crlf")
  <2>1. \A i \in 1..l - 1 : i \in 1..l /\ i + 1 \in 1..l
    BY <1>6
  <2>2. l \in 1..l
    BY <1>6
  <2>3. QED
    BY <1>7, <1>9, <2>1, <2>2
<1>11. Ended(h)
  <2>1. Len(h) - 1 = l /\ Len(h) - 2 = l - 1 /\ Len(h) >= 3
    BY <1>6, <1>9
  <2>2. QED
    BY <1>9, <1>10, <2>1 DEF Ended
<1>12. QED
  BY <1>3, <1>11 DEF h, t

\* The end of the header is found when all of it has been read.
HeaderSeen(raw, L, g) ==
  /\ Found(raw, HeaderEnd) <=> L <= g
  /\ L <= g => Find(raw, HeaderEnd) = L - 2

\* find("\r\n\r\n") in the first g units of a request.
LEMMA HeaderIsFound ==
  ASSUME NEW h, Ended(h), NEW p \in Seq(WireUnit), NEW g \in 0..Len(h) + Len(p),
         NEW raw, raw = SubSeq(h \o p, 1, g), NEW L, L = Len(h)
  PROVE  HeaderSeen(raw, L, g)
<1> DEFINE w == h \o p
           m == Len(p)
<1>1. h \in Seq(WireUnit) /\ L \in Nat /\ m \in Nat /\ L >= 3
  BY DEF Ended
<1>2. w \in Seq(WireUnit) /\ Len(w) = L + m /\ \A i \in 1..L : w[i] = h[i]
  BY <1>1, Concatenates
<1> HIDE DEF w, m
<1>3. g \in Nat /\ g <= L + m
  BY <1>1 DEF m
<1>4. /\ raw \in Seq(WireUnit) /\ Len(raw) = g /\ \A i \in 1..g : raw[i] = w[i]
  BY <1>1, <1>2, <1>3 DEF w
<1>5. \A i : i \in Places(raw, HeaderEnd) <=>
           i \in Nat /\ i + 2 <= Len(raw) /\ raw[i + 1] = "crlf" /\ raw[i + 2] = "crlf"
  <2>1. HeaderEnd = <<"crlf", "crlf">>
    BY DEF HeaderEnd
  <2>2. raw \in Seq(WireUnit)
    BY <1>4
  <2>3. QED
    BY ONLY <2>1, <2>2, PlacesOfTwo
<1>6. ASSUME NEW i \in Places(raw, HeaderEnd) PROVE i \in Nat /\ L - 2 <= i /\ L <= g
  <2>1. i \in Nat /\ i + 2 <= g /\ raw[i + 1] = "crlf" /\ raw[i + 2] = "crlf"
    BY <1>4, <1>5
  <2>2. ASSUME i < L - 2 PROVE FALSE
    <3>1. i + 1 \in 1..L - 2 /\ i + 1 \in 1..L /\ i + 2 \in 1..L /\ (i + 1) + 1 = i + 2
          /\ i + 1 \in 1..g /\ i + 2 \in 1..g
      BY <1>1, <1>3, <2>1, <2>2
    <3>2. h[i + 1] = "crlf" /\ h[i + 2] = "crlf"
      BY <1>2, <1>4, <2>1, <3>1
    <3>3. ~(h[i + 1] = "crlf" /\ h[(i + 1) + 1] = "crlf")
      BY <3>1 DEF Ended
    <3>4. QED
      BY <3>1, <3>2, <3>3
  <2>3. QED
    BY <1>1, <1>3, <2>1, <2>2
<1>7. ASSUME L <= g PROVE L - 2 \in Places(raw, HeaderEnd)
  <2> DEFINE i == L - 2
  <2>1. /\ i \in Nat /\ i + 2 <= g /\ i + 1 = L - 1 /\ i + 2 = L
        /\ i + 1 \in 1..L /\ i + 2 \in 1..L /\ i + 1 \in 1..g /\ i + 2 \in 1..g
    BY <1>1, <1>3, <1>7
  <2> HIDE DEF i
  <2>2. h[L - 1] = "crlf" /\ h[L] = "crlf"
    BY DEF Ended
  <2>3. raw[i + 1] = "crlf" /\ raw[i + 2] = "crlf"
    BY <1>2, <1>4, <2>1, <2>2
  <2>4. QED
    BY <1>4, <1>5, <2>1, <2>3 DEF i
<1>8. Len(raw) \in Nat
  BY <1>3, <1>4
<1>9. L <= g => Find(raw, HeaderEnd) = L - 2
  BY <1>6, <1>7, <1>8, FindsFirst
<1>10. QED
  BY <1>6, <1>7, <1>9 DEF HeaderSeen, Found

-----------------------------------------------------------------------------
(* A request, as it is sent, and the invariant of its parser.              *)
\* What the client sends: the parts ps, whose body is B, behind a header of L
\* units; N is the length of what follows it, A what Content-Length says.
SentAs(ps, B, P, S, L, N, A) ==
  /\ Laid(ps, B, P, S)
  /\ req \in Requests /\ req.parts = ps /\ parts = ps
  /\ B = Body /\ \A f \in File : Sent(f) = S[f][Len(ps)]
  /\ Ended(Header) /\ L = Len(Header)
  /\ Payload \in Seq(WireUnit) /\ N = Len(Payload)
  /\ Multipart => N = Len(B)
  /\ A = Announced

\* It stays as it is.
LEMMA SentAsKept ==
  ASSUME NEW ps, NEW B, NEW P, NEW S, NEW L, NEW N, NEW A,
         SentAs(ps, B, P, S, L, N, A), UNCHANGED <<req, parts>>
  PROVE  SentAs(ps, B, P, S, L, N, A)'
<1>1. req' = req /\ parts' = parts
  OBVIOUS
<1>2. Body' = Body /\ Header' = Header /\ Multipart' = Multipart
  BY <1>1 DEF Body, Header, Multipart, FoldLeft, MapThenFoldSet
<1>3. Payload' = Payload
  BY <1>1, <1>2 DEF Payload, EncodeForm, Encode, FoldLeft, MapThenFoldSet
<1>4. Announced' = Announced
  BY <1>1, <1>3 DEF Announced
<1>5. \A f \in File : Sent(f)' = Sent(f)
  BY <1>1 DEF Sent, FoldLeft, MapThenFoldSet
<1>6. QED
  BY <1>1, <1>2, <1>3, <1>4, <1>5 DEF SentAs

\* Every request is one.
LEMMA SentAsSome ==
  ASSUME req \in Requests, parts = req.parts
  PROVE  \E ps, B, P, S, L, N, A : SentAs(ps, B, P, S, L, N, A)
<1>1. PICK ps : ps = parts
  OBVIOUS
<1>2. /\ req.parts \in Seq(Part) /\ req.form \in Seq(Field)
  BY RequestAssumption DEF RequestRecord
<1>3. ps \in Seq(Part) /\ req.parts = ps
  BY <1>1, <1>2
<1>4. PICK P, S : Laid(ps, Body, P, S) /\ \A f \in File : Sent(f) = S[f][Len(ps)]
  BY <1>1, <1>3, BodyLaid
<1>5. Body \in Seq(Unit)
  BY <1>4 DEF Laid, Layout
<1>6. Payload \in Seq(WireUnit) /\ (Multipart => Len(Payload) = Len(Body))
  <2>1. Seq(Unit) \subseteq Seq(WireUnit) /\ Seq(Character) \subseteq Seq(WireUnit)
    BY DEF WireUnit
  <2>2. EncodeForm(req.form) \in Seq(Character)
    BY <1>2, EncodeFormTypes
  <2>3. CASE Multipart
    BY <1>5, <2>1, <2>3 DEF Payload
  <2>4. CASE ~Multipart
    BY <2>1, <2>2, <2>4 DEF Payload
  <2>5. QED
    BY <2>3, <2>4
<1>7. Ended(Header)
  BY HeaderEnded
<1>8. SentAs(ps, Body, P, S, Len(Header), Len(Payload), Announced)
  BY <1>1, <1>3, <1>4, <1>6, <1>7 DEF SentAs
<1>9. QED
  BY <1>8

\* What the sizes have to do with each other, and where the end of the header is.
Sizes(L, N, A) ==
  /\ L \in Nat /\ L >= 3 /\ N \in Nat /\ A \in Nat
  /\ Len(Header) = L /\ Len(Payload) = N /\ Announced = A
  /\ Len(Wire) = L + N
  /\ got \in 0..L + N =>
       /\ Found(raw_data, HeaderEnd) <=> L <= got
       /\ L <= got => Find(raw_data, HeaderEnd) + Len(HeaderEnd) = L
  /\ peek_content_length \in {0, A}
  /\ Understood => peek_content_length = A /\ A = N

\* They are as said.
LEMMA SizesKnown ==
  ASSUME NEW ps, NEW B, NEW P, NEW S, NEW L, NEW N, NEW A, SentAs(ps, B, P, S, L, N, A)
  PROVE  Sizes(L, N, A)
<1>1. PICK h, p : h = Header /\ p = Payload
  OBVIOUS
<1>2. Ended(h) /\ L = Len(h) /\ p \in Seq(WireUnit) /\ N = Len(p) /\ A = Announced
  BY <1>1 DEF SentAs
<1>3. h \in Seq(WireUnit) /\ L \in Nat /\ L >= 3 /\ N \in Nat
  BY <1>2 DEF Ended
<1>4. A \in Nat
  BY <1>1, <1>2, <1>3 DEF Announced
<1>5. Len(Wire) = L + N
  BY <1>1, <1>2, <1>3 DEF Wire
<1>6. ASSUME got \in 0..L + N
      PROVE  /\ Found(raw_data, HeaderEnd) <=> L <= got
             /\ L <= got => Find(raw_data, HeaderEnd) + Len(HeaderEnd) = L
  <2>1. PICK g, raw : g = got /\ raw = raw_data
    OBVIOUS
  <2>2. g \in 0..Len(h) + Len(p) /\ raw = SubSeq(h \o p, 1, g)
    BY <1>1, <1>2, <1>6, <2>1 DEF raw_data, Wire
  <2>3. HeaderSeen(raw, L, g)
    BY <1>2, <2>2, HeaderIsFound
  <2>4. Len(HeaderEnd) = 2
    BY DEF HeaderEnd
  <2>5. /\ Found(raw, HeaderEnd) <=> L <= g
        /\ L <= g => Find(raw, HeaderEnd) = L - 2
    BY <2>3 DEF HeaderSeen
  <2>6. L - 2 + 2 = L
    BY <1>3
  <2>7. QED
    BY <2>1, <2>4, <2>5, <2>6
<1>7. peek_content_length \in {0, A} /\ (Understood => peek_content_length = A /\ A = N)
  BY <1>1, <1>2 DEF peek_content_length, Understood, Announced
<1>8. QED
  BY <1>1, <1>2, <1>3, <1>4, <1>5, <1>6, <1>7 DEF Sizes

\* The parser, and where the upload is meanwhile.
ParserInv(L, N, A) ==
  /\ stage \in {"header", "body", "stream", "accepted", "rejected", "failed"}
  /\ got \in 0..L + N
  /\ header_size \in {0, L}
  /\ content_length \in Nat
  /\ moved \in BOOLEAN
  /\ stage = "stream" <=> phase \in {"read", "feed", "finish"}
  /\ phase = "done" => stage = "accepted"
  /\ stage = "header" => got <= MaxHeader + MaxRead /\ got < L + MaxRead
  /\ stage \in {"body", "stream", "accepted"} =>
       req.method # "garbage" /\ L <= MaxHeader + MaxRead
  /\ stage = "stream" => Multipart
  /\ stage = "body" =>
       /\ content_length = peek_content_length /\ content_length <= MaxBody
       /\ header_size = L /\ got < L + content_length + MaxRead
  /\ stage = "accepted" => (Understood /\ ~Multipart => N <= MaxBody)
  /\ stage = "rejected" =>
       \/ req.method = "garbage" \/ req.type = "multipart, no boundary"
       \/ L > MaxHeader \/ A > MaxBody

RequestInv(ps, B, P, S, L, N, A) ==
  /\ SentAs(ps, B, P, S, L, N, A)
  /\ ParserInv(L, N, A)
  /\ UploadInv(ps, B, P, S)

\* Before anything is read.
LEMMA RequestStarts ==
  ASSUME RequestInit
  PROVE  \E ps, B, P, S, L, N, A : RequestInv(ps, B, P, S, L, N, A)
<1>1. PICK ps, B, P, S, L, N, A : SentAs(ps, B, P, S, L, N, A)
  BY SentAsSome DEF RequestInit
<1>2. Sizes(L, N, A)
  BY <1>1, SizesKnown
<1>3. /\ phase = "header" /\ state = "FIND_BOUNDARY" /\ received = 0 /\ buffer = <<>>
      /\ current = NoFile /\ saved = <<>> /\ tasks = <<>> /\ notify = FALSE
      /\ worker = "test" /\ task = NoTask /\ stop = FALSE
      /\ disk = [f \in File |-> <<>>] /\ failed = FALSE /\ swallowed = FALSE
      /\ content_length = 0 /\ stage = "header" /\ got = 0 /\ header_size = 0
      /\ moved = FALSE
  BY DEF RequestInit, UploadInit
<1>4. ParserInv(L, N, A)
  <2>1. L \in Nat /\ L >= 3 /\ N \in Nat /\ 0 \in 0..L + N
    BY <1>2 DEF Sizes
  <2>2. 0 <= MaxHeader + MaxRead /\ 0 < L + MaxRead
    BY <2>1, LimitAssumption
  <2>3. QED
    BY <1>3, <2>1, <2>2 DEF ParserInv
<1>5. disk \in [File -> Seq(Unit)]
  BY <1>3
<1>6. PoolOK
  <2>1. saved \in Seq(File) /\ tasks \in Seq(IOTask)
    BY <1>3
  <2>2. /\ phase \in {"header", "read", "feed", "finish", "done"}
        /\ worker \in {"test", "asleep", "execute", "gone"}
        /\ worker # "execute" /\ worker # "gone"
    BY <1>3
  <2>3. NothingLeftBehind
    BY <2>2 DEF NothingLeftBehind
  <2>4. QED
    BY <1>3, <1>5, <2>1, <2>2, <2>3 DEF PoolOK
<1>7. parts = ps /\ ps \in Seq(Part) /\ Layout(P, ps, B) /\ Laid(ps, B, P, S)
  BY <1>1 DEF SentAs, Laid
<1>8. Len(ps) \in Nat /\ Len(B) \in Nat /\ B \in Seq(Unit)
  BY <1>7 DEF Layout
<1>9. Reached(ps, B, P, 0, 0)
  <2>1. buffer = SubSeq(B, 0 + 1, received)
    BY <1>3, <1>8
  <2>2. 0 \in 0..Len(ps) /\ received \in 0..Len(B)
    BY <1>3, <1>8
  <2>3. QED
    BY <1>3, <1>7, <2>1, <2>2 DEF Reached
<1>10. Waits(ps, P, 0)
  BY <1>3 DEF Waits
<1>11. SavedAt(ps, B, 0)
  <2>1. saved = Names(ps, 0)
    BY <1>3 DEF Names
  <2>2. QED
    BY <1>3, <2>1 DEF SavedAt
<1>12. HandedAt(ps, B, P, S, 0, 0)
  <2>1. PICK d : d = disk
    OBVIOUS
  <2>2. Handed(d, <<>>, d, FALSE)
    BY <1>3, <2>1, NoneHanded
  <2>3. Pending = <<>>
    BY <1>3 DEF Pending
  <2>4. Delivered(d, ps, B, P, S, 0, state, 0)
    <3>1. \A f \in File : d[f] = <<>> /\ S[f][0] = <<>>
      BY <1>3, <1>7, <2>1 DEF Laid, SentTrace
    <3>2. d \in [File -> Seq(Unit)] /\ state # "READ_PART_BODY"
      BY <1>3, <1>5, <2>1
    <3>3. QED
      BY <3>1, <3>2 DEF Delivered
  <2>5. QED
    BY <1>3, <2>1, <2>2, <2>3, <2>4 DEF HandedAt
<1>13. Progress(ps, B, P, S, 0, 0)
  BY <1>9, <1>10, <1>11, <1>12 DEF Progress
<1>14. UploadInv(ps, B, P, S)
  BY <1>6, <1>13 DEF UploadInv
<1>15. QED
  BY <1>1, <1>4, <1>14 DEF RequestInv

\* A step that leaves the upload alone.
LEMMA UploadKept ==
  ASSUME NEW ps, NEW B, NEW P, NEW S, UploadInv(ps, B, P, S),
         UNCHANGED <<parts, received, phase, processor, pool, disk, hist>>
  PROVE  UploadInv(ps, B, P, S)'
<1>1. PICK k, c : Progress(ps, B, P, S, k, c)
  BY DEF UploadInv
<1>2. /\ received' = received /\ phase' = phase /\ buffer' = buffer
      /\ parts' = parts /\ state' = state /\ current' = current /\ saved' = saved
      /\ tasks' = tasks /\ notify' = notify /\ worker' = worker /\ task' = task
      /\ stop' = stop /\ disk' = disk /\ failed' = failed /\ swallowed' = swallowed
  BY DEF processor, pool, hist
<1>3. PoolOK'
  BY <1>2, QueueKept DEF UploadInv, PoolOK
<1>4. Reached(ps, B, P, k, c)' /\ Waits(ps, P, k)'
  BY <1>1, <1>2 DEF Progress, Reached, Waits
<1>5. ASSUME ~swallowed' PROVE SavedAt(ps, B, k)' /\ HandedAt(ps, B, P, S, k, c)'
  <2>1. SavedAt(ps, B, k) /\ HandedAt(ps, B, P, S, k, c)
    BY <1>1, <1>2, <1>5 DEF Progress
  <2>2. Pending' = Pending
    BY <1>2 DEF Pending
  <2>3. QED
    BY <1>2, <2>1, <2>2 DEF SavedAt, HandedAt
<1>6. Progress(ps, B, P, S, k, c)'
  BY <1>4, <1>5 DEF Progress
<1>7. QED
  BY <1>3, <1>6 DEF UploadInv

\* What depends on the request alone stays as it is.
LEMMA SentAsFacts ==
  ASSUME NEW ps, NEW B, NEW P, NEW S, NEW L, NEW N, NEW A,
         SentAs(ps, B, P, S, L, N, A), UNCHANGED <<req, parts>>
  PROVE  /\ Sizes(L, N, A)
         /\ peek_content_length' = peek_content_length /\ ContentType' = ContentType
         /\ Multipart' = Multipart /\ Understood' = Understood
<1>1. SentAs(ps, B, P, S, L, N, A)'
  BY SentAsKept
<1>2. Sizes(L, N, A)
  BY SizesKnown
<1>3. Announced' = Announced
  BY <1>1 DEF SentAs
<1>4. QED
  BY <1>1, <1>2, <1>3
     DEF peek_content_length, ContentType, Multipart, Understood

\* The steps of the parser that do not touch the upload.
ParserStep ==
  \/ HeaderRead \/ HeaderTooLong \/ LineRejected \/ BoundaryMissing
  \/ WithoutBody \/ BodyTooLong \/ ReservesBody \/ BodyRead \/ ParsesBody \/ ReadFails

\* They do not touch it.
LEMMA ParserStays ==
  ASSUME ParserStep
  PROVE  UNCHANGED <<req, parts, received, phase, processor, pool, disk, hist>>
<1>1. UNCHANGED <<req, upvars>> => UNCHANGED <<req, parts, received, phase, processor, pool, disk, hist>>
  BY DEF upvars, reader
<1>2. HeaderRead \/ HeaderTooLong \/ LineRejected \/ BodyRead \/ ParsesBody \/ ReadFails
      => UNCHANGED <<req, upvars>>
  BY DEF HeaderRead, HeaderTooLong, LineRejected, BodyRead, ParsesBody, ReadFails
<1>3. BoundaryMissing \/ WithoutBody \/ BodyTooLong \/ ReservesBody
      => UNCHANGED <<req, parts, received, phase, processor, pool, disk, hist>>
  BY DEF BoundaryMissing, WithoutBody, BodyTooLong, ReservesBody, ParsesHeader
<1>4. QED
  BY <1>1, <1>2, <1>3 DEF ParserStep

\* They keep the invariant of the parser.
LEMMA ParserMoves ==
  ASSUME NEW ps, NEW B, NEW P, NEW S, NEW L, NEW N, NEW A,
         SentAs(ps, B, P, S, L, N, A), ParserInv(L, N, A), ParserStep
  PROVE  ParserInv(L, N, A)'
<1>1. req' = req /\ parts' = parts /\ phase' = phase
  BY ParserStays
<1>2. /\ Sizes(L, N, A)
      /\ peek_content_length' = peek_content_length /\ ContentType' = ContentType
      /\ Multipart' = Multipart /\ Understood' = Understood
  BY <1>1, SentAsFacts
<1>3. /\ L \in Nat /\ L >= 3 /\ N \in Nat /\ A \in Nat /\ Len(Wire) = L + N
      /\ peek_content_length \in {0, A} /\ peek_content_length \in Nat
      /\ Understood => peek_content_length = A /\ A = N
  BY <1>2 DEF Sizes
<1>4. MaxHeader \in Nat /\ MaxBody \in Nat /\ MaxRead \in Nat /\ MaxRead >= 1
  BY LimitAssumption
<1>5. /\ got \in 0..L + N /\ got \in Nat /\ header_size \in {0, L}
      /\ content_length \in Nat /\ moved \in BOOLEAN
      /\ stage = "stream" <=> phase \in {"read", "feed", "finish"}
      /\ phase = "done" => stage = "accepted"
      /\ stage = "header" => got <= MaxHeader + MaxRead /\ got < L + MaxRead
      /\ stage = "body" =>
           /\ req.method # "garbage" /\ L <= MaxHeader + MaxRead
           /\ content_length = peek_content_length /\ content_length <= MaxBody
           /\ header_size = L /\ got < L + content_length + MaxRead
  <2>1. got \in 0..L + N
    BY DEF ParserInv
  <2>2. got \in Nat
    BY <1>3, <2>1
  <2>3. QED
    BY <2>1, <2>2 DEF ParserInv
<1>6. /\ Found(raw_data, HeaderEnd) <=> L <= got
      /\ L <= got => Find(raw_data, HeaderEnd) + Len(HeaderEnd) = L
  BY <1>2, <1>5 DEF Sizes
<1>7. (HeaderMissing <=> stage = "header" /\ got < L) /\ (HeaderFound <=> stage = "header" /\ L <= got)
  BY <1>3, <1>5, <1>6 DEF HeaderMissing, HeaderFound
<1>8. ParsesHeader =>
        /\ stage = "header" /\ L <= got /\ req.method # "garbage" /\ header_size' = L
        /\ content_length' = peek_content_length /\ got' = got
        /\ got <= MaxHeader + MaxRead /\ got < L + MaxRead /\ L <= MaxHeader + MaxRead
  <2>1. ASSUME ParsesHeader
        PROVE  /\ stage = "header" /\ L <= got /\ req.method # "garbage" /\ header_size' = L
               /\ content_length' = peek_content_length /\ got' = got
    BY <1>6, <1>7, <2>1 DEF ParsesHeader
  <2>2. ASSUME ParsesHeader PROVE L <= MaxHeader + MaxRead
    BY <1>3, <1>4, <1>5, <2>1, <2>2
  <2>3. QED
    BY <1>5, <2>1, <2>2
<1>9. CASE HeaderRead
  <2>1. PICK n \in 1..MaxRead : got + n <= Len(Wire) /\ got' = got + n
    BY <1>9 DEF HeaderRead
  <2>2. /\ stage = "header" /\ got < L /\ got <= MaxHeader /\ stage' = stage
        /\ header_size' = header_size /\ moved' = moved /\ content_length' = content_length
    BY <1>7, <1>9 DEF HeaderRead, upvars, reader
  <2>3. got' \in 0..L + N /\ got' <= MaxHeader + MaxRead /\ got' < L + MaxRead
    BY <1>3, <1>4, <1>5, <2>1, <2>2
  <2>4. QED
    BY <1>1, <1>5, <2>2, <2>3 DEF ParserInv
<1>10. CASE HeaderTooLong
  <2>1. /\ stage = "header" /\ got < L /\ got > MaxHeader /\ stage' = "rejected" /\ got' = got
        /\ header_size' = header_size /\ moved' = moved /\ content_length' = content_length
    BY <1>7, <1>10 DEF HeaderTooLong, upvars, reader
  <2>2. L > MaxHeader
    BY <1>3, <1>4, <1>5, <2>1
  <2>3. QED
    BY <1>1, <1>5, <2>1, <2>2 DEF ParserInv
<1>11. CASE LineRejected
  <2>1. /\ stage = "header" /\ L <= got /\ req.method = "garbage" /\ stage' = "rejected"
        /\ got' = got /\ header_size' = L
        /\ moved' = moved /\ content_length' = content_length
    BY <1>6, <1>7, <1>11 DEF LineRejected, upvars, reader
  <2>2. QED
    BY <1>1, <1>5, <2>1 DEF ParserInv
<1>12. CASE BoundaryMissing
  <2>1. /\ ParsesHeader /\ ContentType = "multipart, no boundary" /\ stage' = "rejected"
        /\ moved' = moved
    BY <1>12 DEF BoundaryMissing
  <2>2. req.type = "multipart, no boundary"
    BY <2>1 DEF ContentType
  <2>3. content_length' \in Nat
    BY <1>3, <1>8, <2>1
  <2>4. QED
    BY <1>1, <1>5, <1>8, <2>1, <2>2, <2>3 DEF ParserInv
<1>13. CASE WithoutBody
  <2>1. /\ ParsesHeader /\ content_length' = 0 /\ stage' = "accepted" /\ moved' = moved
    BY <1>13 DEF WithoutBody
  <2>2. Understood => N <= MaxBody
    BY <1>3, <1>4, <1>8, <2>1
  <2>3. QED
    BY <1>1, <1>2, <1>5, <1>8, <2>1, <2>2 DEF ParserInv
<1>14. CASE BodyTooLong
  <2>1. /\ ParsesHeader /\ content_length' > MaxBody /\ stage' = "rejected" /\ moved' = moved
    BY <1>14 DEF BodyTooLong
  <2>2. content_length' \in Nat /\ A > MaxBody
    BY <1>3, <1>4, <1>8, <2>1
  <2>3. QED
    BY <1>1, <1>5, <1>8, <2>1, <2>2 DEF ParserInv
<1>15. CASE ReservesBody
  <2>1. /\ ParsesHeader /\ content_length' \in 1..MaxBody /\ stage' = "body"
        /\ moved' \in BOOLEAN
    <3>1. moved' \in IF got < header_size' + content_length' THEN BOOLEAN ELSE {FALSE}
      BY <1>15 DEF ReservesBody
    <3>2. QED
      BY <1>15, <3>1 DEF ReservesBody
  <2>2. /\ content_length' \in Nat /\ content_length' <= MaxBody
        /\ got < L + content_length' + MaxRead
    BY <1>3, <1>4, <1>5, <1>8, <2>1
  <2>3. QED
    BY <1>1, <1>2, <1>5, <1>8, <2>1, <2>2 DEF ParserInv
<1>16. CASE BodyRead
  <2>1. PICK n \in 1..MaxRead : got + n <= Len(Wire) /\ got' = got + n
    BY <1>16 DEF BodyRead
  <2>2. /\ stage = "body" /\ got < L + content_length /\ stage' = stage
        /\ header_size' = header_size /\ content_length' = content_length
    BY <1>5, <1>16 DEF BodyRead, upvars, reader
  <2>3. moved' \in BOOLEAN
    BY <1>5, <1>16 DEF BodyRead
  <2>4. got' \in 0..L + N /\ got' < L + content_length + MaxRead
    BY <1>3, <1>4, <1>5, <2>1, <2>2
  <2>5. QED
    BY <1>1, <1>2, <1>5, <2>2, <2>3, <2>4 DEF ParserInv
<1>17. CASE ParsesBody
  <2>1. /\ stage = "body" /\ stage' = "accepted" /\ got' = got /\ moved' = moved
        /\ header_size' = header_size /\ content_length' = content_length
    BY <1>17 DEF ParsesBody, upvars, reader
  <2>2. Understood => N <= MaxBody
    BY <1>3, <1>5, <2>1
  <2>3. QED
    BY <1>1, <1>2, <1>5, <2>1, <2>2 DEF ParserInv
<1>18. CASE ReadFails
  <2>1. /\ stage \in {"header", "body"} /\ stage' = "failed" /\ got' = got /\ moved' = moved
        /\ header_size' = header_size /\ content_length' = content_length
    BY <1>18 DEF ReadFails, HeaderMissing, upvars, reader
  <2>2. QED
    BY <1>1, <1>5, <2>1 DEF ParserInv
<1>19. QED
  BY <1>9, <1>10, <1>11, <1>12, <1>13, <1>14, <1>15, <1>16, <1>17, <1>18 DEF ParserStep

\* Every step of the upload keeps its invariant,
LEMMA ReaderSteps ==
  ASSUME NEW ps, NEW B, NEW P, NEW S, Laid(ps, B, P, S), UploadInv(ps, B, P, S),
         B = Body, Reader
  PROVE  UploadInv(ps, B, P, S)'
<1>1. CASE Receive
  BY <1>1, ReceiveStep
<1>2. CASE Stops
  BY <1>2, PhaseStep
<1>3. CASE FindBoundary
  BY <1>3, FindBoundaryStep
<1>4. CASE ReadPartHeader
  BY <1>4, ReadPartHeaderStep
<1>5. CASE EndPart
  BY <1>5, EndPartStep
<1>6. CASE MorePart
  BY <1>6, MorePartStep
<1>7. CASE FeedEnds
  BY <1>7, PhaseStep
<1>8. CASE finish
  BY <1>8, finishStep
<1>9. QED
  BY <1>1, <1>2, <1>3, <1>4, <1>5, <1>6, <1>7, <1>8 DEF Reader, Feed

\* and so does every step of the writer.
LEMMA WorkerSteps ==
  ASSUME NEW ps, NEW B, NEW P, NEW S, Laid(ps, B, P, S), UploadInv(ps, B, P, S),
         Worker \/ Notify \/ Shutdown
  PROVE  UploadInv(ps, B, P, S)'
<1>1. CASE Tests
  BY <1>1, TestsStep
<1>2. CASE Executes \/ Fails
  BY <1>2, ExecutesStep
<1>3. CASE Notify \/ Shutdown
  BY <1>3, NotifyStep
<1>4. QED
  BY <1>1, <1>2, <1>3 DEF Worker

\* Where the reader may go.
LEMMA ReaderPhases ==
  ASSUME Reader
  PROVE  /\ phase \in {"read", "feed", "finish"}
         /\ phase' \in {"read", "feed", "finish"} \/ (phase = "finish" /\ phase' = "done")
         /\ UNCHANGED <<parts, content_length>>
<1>1. CASE Receive \/ Stops
  BY <1>1 DEF Receive, Stops, reader
<1>2. CASE FindBoundary \/ FeedEnds
  BY <1>2 DEF FindBoundary, FeedEnds, Feeds, reader
<1>3. CASE ReadPartHeader
  BY <1>3 DEF ReadPartHeader, Feeds, reader
<1>4. CASE EndPart
  BY <1>4 DEF EndPart, Feeds, reader
<1>5. CASE MorePart
  BY <1>5 DEF MorePart, Feeds, reader
<1>6. CASE finish
  BY <1>6 DEF finish, reader
<1>7. QED
  BY <1>1, <1>2, <1>3, <1>4, <1>5, <1>6 DEF Reader, Feed

\* A step that leaves the parser alone.
LEMMA ParserKept ==
  ASSUME NEW L, NEW N, NEW A, ParserInv(L, N, A), phase' = phase, req' = req,
         stage' = stage, got' = got, header_size' = header_size, moved' = moved,
         content_length' = content_length, peek_content_length' = peek_content_length,
         Multipart' = Multipart, Understood' = Understood
  PROVE  ParserInv(L, N, A)'
<1>1. /\ stage \in {"header", "body", "stream", "accepted", "rejected", "failed"}
      /\ got \in 0..L + N /\ header_size \in {0, L} /\ content_length \in Nat
      /\ moved \in BOOLEAN
      /\ stage = "stream" <=> phase \in {"read", "feed", "finish"}
      /\ phase = "done" => stage = "accepted"
  BY DEF ParserInv
<1>2. /\ stage = "header" => got <= MaxHeader + MaxRead /\ got < L + MaxRead
      /\ stage \in {"body", "stream", "accepted"} =>
           req.method # "garbage" /\ L <= MaxHeader + MaxRead
      /\ stage = "body" =>
           /\ content_length = peek_content_length /\ content_length <= MaxBody
           /\ header_size = L /\ got < L + content_length + MaxRead
      /\ stage = "rejected" =>
           \/ req.method = "garbage" \/ req.type = "multipart, no boundary"
           \/ L > MaxHeader \/ A > MaxBody
  BY DEF ParserInv
<1>3. /\ stage = "stream" => Multipart
      /\ stage = "accepted" => (Understood /\ ~Multipart => N <= MaxBody)
  BY DEF ParserInv
<1>4. /\ stage' = "stream" => Multipart'
      /\ stage' = "accepted" => (Understood' /\ ~Multipart' => N <= MaxBody)
  BY <1>3
<1>5. QED
  BY <1>1, <1>2, <1>4 DEF ParserInv

\* Every step keeps the invariant.
LEMMA RequestSteps ==
  ASSUME NEW ps, NEW B, NEW P, NEW S, NEW L, NEW N, NEW A,
         RequestInv(ps, B, P, S, L, N, A), [RequestNext]_rqvars
  PROVE  RequestInv(ps, B, P, S, L, N, A)'
<1>1. /\ SentAs(ps, B, P, S, L, N, A) /\ ParserInv(L, N, A) /\ UploadInv(ps, B, P, S)
      /\ Laid(ps, B, P, S) /\ B = Body /\ N = Len(Payload) /\ (Multipart => N = Len(B))
  BY DEF RequestInv, SentAs
<1>2. UNCHANGED <<req, parts>>
      => /\ SentAs(ps, B, P, S, L, N, A)'
         /\ Sizes(L, N, A)
         /\ peek_content_length' = peek_content_length
         /\ Multipart' = Multipart /\ Understood' = Understood
  BY <1>1, SentAsKept, SentAsFacts
<1>3. CASE ParserStep
  <2>1. UNCHANGED <<req, parts, received, phase, processor, pool, disk, hist>>
    BY <1>3, ParserStays
  <2>2. ParserInv(L, N, A)'
    BY <1>1, <1>3, ParserMoves
  <2>3. UploadInv(ps, B, P, S)'
    BY <1>1, <2>1, UploadKept
  <2>4. QED
    BY <1>2, <2>1, <2>2, <2>3 DEF RequestInv
<1>4. CASE StreamsBody
  <2>1. /\ ParsesHeader /\ ContentType = "multipart" /\ stage' = "stream" /\ moved' = moved
        /\ Starts(got - header_size')
    BY <1>4 DEF StreamsBody
  <2>2. UNCHANGED <<req, parts>> /\ got' = got
    BY <2>1 DEF ParsesHeader, Starts
  <2>3. Sizes(L, N, A)
    BY <1>2, <2>2
  <2>4. Multipart
    BY <2>1 DEF ContentType, Multipart
  <2>5. /\ L \in Nat /\ N \in Nat /\ got \in 0..L + N /\ stage = "header"
        /\ got <= MaxHeader + MaxRead /\ moved \in BOOLEAN
    BY <1>1, <2>1, <2>3 DEF ParserInv, Sizes, ParsesHeader, HeaderFound
  <2>6. L <= got /\ header_size' = L /\ req.method # "garbage"
    BY <2>1, <2>3, <2>5 DEF Sizes, ParsesHeader, HeaderFound
  <2>7. got - header_size' \in 0..Len(B)
    BY <1>1, <2>4, <2>5, <2>6
  <2>8. UploadInv(ps, B, P, S)'
    BY <1>1, <2>1, <2>7, StartsStep
  <2>9. L <= MaxHeader + MaxRead
    BY <2>5, <2>6, LimitAssumption
  <2>10. content_length' \in Nat
    BY <2>1, <2>3 DEF ParsesHeader, Sizes
  <2>11. phase' \in {"read", "feed"}
    BY <2>1 DEF Starts
  <2>12. ParserInv(L, N, A)'
    BY <1>2, <2>1, <2>2, <2>4, <2>5, <2>6, <2>9, <2>10, <2>11 DEF ParserInv
  <2>13. QED
    BY <1>2, <2>2, <2>8, <2>12 DEF RequestInv
<1>5. CASE Streams
  <2>1. /\ Reader /\ req' = req /\ got' = got /\ header_size' = header_size /\ moved' = moved
        /\ stage' = IF phase' = "done" THEN "accepted" ELSE stage
    BY <1>5 DEF Streams
  <2>2. /\ phase \in {"read", "feed", "finish"}
        /\ phase' \in {"read", "feed", "finish"} \/ (phase = "finish" /\ phase' = "done")
        /\ parts' = parts /\ content_length' = content_length
    BY <2>1, ReaderPhases
  <2>3. UploadInv(ps, B, P, S)'
    BY <1>1, <2>1, ReaderSteps
  <2>4. stage = "stream" /\ Multipart
    BY <1>1, <2>2 DEF ParserInv
  <2>5. ParserInv(L, N, A)'
    BY <1>1, <1>2, <2>1, <2>2, <2>4 DEF ParserInv
  <2>6. QED
    BY <1>2, <2>1, <2>2, <2>3, <2>5 DEF RequestInv
<1>6. CASE Writes
  <2>1. (Worker \/ Notify \/ Shutdown) /\ UNCHANGED parser
    BY <1>6 DEF Writes
  <2>2. UploadInv(ps, B, P, S)'
    BY <1>1, <2>1, WorkerSteps
  <2>3. UNCHANGED <<reader, phase>>
    BY <2>1 DEF Worker, Tests, Executes, Fails, Notify, Shutdown
  <2>4. /\ req' = req /\ stage' = stage /\ got' = got /\ header_size' = header_size
        /\ moved' = moved /\ parts' = parts /\ content_length' = content_length
        /\ phase' = phase
    BY <2>1, <2>3 DEF parser, reader
  <2>5. ParserInv(L, N, A)'
    BY <1>1, <1>2, <2>4, ParserKept
  <2>6. QED
    BY <1>2, <2>2, <2>4, <2>5 DEF RequestInv
<1>7. CASE UNCHANGED rqvars
  <2>1. UNCHANGED <<req, parts, received, phase, processor, pool, disk, hist>>
        /\ stage' = stage /\ got' = got /\ header_size' = header_size
        /\ moved' = moved /\ content_length' = content_length
    BY <1>7 DEF rqvars, parser, upvars, reader
  <2>2. UploadInv(ps, B, P, S)'
    BY <1>1, <2>1, UploadKept
  <2>3. ParserInv(L, N, A)'
    <3>1. req' = req /\ parts' = parts /\ phase' = phase
      BY <2>1
    <3>2. QED
      BY <1>1, <1>2, <2>1, <3>1, ParserKept
  <2>4. QED
    BY <1>2, <2>1, <2>2, <2>3 DEF RequestInv
<1>8. QED
  BY <1>3, <1>4, <1>5, <1>6, <1>7 DEF RequestNext, Parse, ParserStep

-----------------------------------------------------------------------------
(* What the fields of a request are parsed to.                             *)
\* post_form_ has the fields that were sent; if the view of the method dangles, or none.
Received ==
  LET fields == IF req.method = "POST" THEN Sends(req.form) ELSE NoFields
  IN  post_form = fields \/ (moved /\ post_form \in {Sends(req.form), NoFields})

\* query_params_ is set with the header, and a form is parsed as it was sent.
FormsOK ==
  /\ stage \in {"body", "stream", "accepted"} => query_params = Sends(Encoded(req.query))
  /\ stage = "accepted" /\ Understood /\ req.type = "form" /\ req.form # <<>> => Received

\* What stands behind the header.
LEMMA BodyBehind ==
  ASSUME NEW W, NEW h \in Seq(W), NEW p \in Seq(W), NEW L, L = Len(h), NEW N, N = Len(p),
         NEW raw, raw = SubSeq(h \o p, 1, L + N)
  PROVE  SubSeq(raw, L + 1, L + N) = p
<1> DEFINE w == h \o p
           z == SubSeq(raw, L + 1, L + N)
<1>1. L \in Nat /\ N \in Nat
  OBVIOUS
<1>2. w \in Seq(W) /\ Len(w) = L + N /\ \A i \in 1..N : w[L + i] = p[i]
  BY Concatenates
<1> HIDE DEF w
<1>3. raw = w
  BY <1>1, <1>2 DEF w
<1>4. z \in Seq(W) /\ Len(z) = (L + N) - L /\ \A i \in 1..(L + N) - L : z[i] = w[L + i]
  <2>1. L \in Nat /\ L + N \in Nat /\ L <= L + N /\ L + N <= Len(w)
    BY <1>1, <1>2
  <2>2. QED
    BY ONLY <1>2, <1>3, <2>1, Slice
<1> HIDE DEF z
<1>5. Len(z) = Len(p) /\ \A i \in 1..Len(z) : z[i] = p[i]
  BY <1>1, <1>2, <1>4
<1>6. z = p
  BY <1>4, <1>5, SeqEqual
<1>7. QED
  BY <1>6 DEF z

\* It holds at first,
LEMMA FormsStart ==
  ASSUME RequestInit
  PROVE  FormsOK
  BY DEF RequestInit, FormsOK

\* and every step keeps it.
LEMMA FormsKept ==
  ASSUME NEW ps, NEW B, NEW P, NEW S, NEW L, NEW N, NEW A,
         RequestInv(ps, B, P, S, L, N, A), FormsOK, [RequestNext]_rqvars
  PROVE  FormsOK'
<1>1. /\ SentAs(ps, B, P, S, L, N, A) /\ ParserInv(L, N, A) /\ Sizes(L, N, A)
      /\ req.query \in Seq(Field) /\ req.form \in Seq(Field)
  <2>1. SentAs(ps, B, P, S, L, N, A) /\ ParserInv(L, N, A)
    BY DEF RequestInv
  <2>2. Sizes(L, N, A)
    BY <2>1, SizesKnown
  <2>3. req \in RequestRecord
    BY <2>1, RequestAssumption DEF SentAs
  <2>4. QED
    BY <2>1, <2>2, <2>3 DEF RequestRecord
<1>2. /\ parse_query_string(EncodeForm(req.query)) = Sends(Encoded(req.query))
      /\ parse_form_urlencoded(EncodeForm(req.form)) = Sends(req.form)
  BY <1>1, FormParsed, QueryParsed
<1>3. ParsesHeader =>
        /\ req' = req /\ query_params' = Sends(Encoded(req.query))
        /\ content_length' = peek_content_length
  BY <1>2 DEF ParsesHeader
<1>4. CASE HeaderRead \/ HeaderTooLong \/ LineRejected \/ BoundaryMissing \/ BodyTooLong \/ ReadFails
  <2>1. stage' \notin {"body", "stream", "accepted"}
    BY <1>4 DEF HeaderRead, HeaderTooLong, LineRejected, BoundaryMissing, BodyTooLong,
                ReadFails, HeaderMissing
  <2>2. QED
    BY <2>1 DEF FormsOK
<1>5. CASE StreamsBody \/ ReservesBody
  <2>1. ParsesHeader /\ stage' \in {"stream", "body"}
    BY <1>5 DEF StreamsBody, ReservesBody
  <2>2. QED
    BY <1>3, <2>1 DEF FormsOK
<1>6. CASE WithoutBody
  <2>1. ParsesHeader /\ stage' = "accepted" /\ content_length' = 0
    BY <1>6 DEF WithoutBody
  <2>2. ASSUME Understood, req.type = "form", req.form # <<>> PROVE FALSE
    <3>1. peek_content_length = N
      BY <1>1, <2>2 DEF Sizes
    <3>2. Payload = EncodeForm(req.form)
      BY <2>2 DEF Payload, Multipart
    <3>3. EncodeForm(req.form) \in Seq(Character) /\ EncodeForm(req.form) # <<>>
      BY <1>1, <2>2, EncodeFormTypes, FormNotEmpty
    <3>4. Len(EncodeForm(req.form)) # 0
      BY <3>3
    <3>5. N # 0
      BY <1>1, <3>2, <3>4 DEF Sizes
    <3>6. QED
      BY <1>3, <2>1, <3>1, <3>5
  <2>3. Understood' <=> Understood
    BY <1>3, <2>1 DEF Understood
  <2>4. QED
    BY <1>3, <2>1, <2>2, <2>3 DEF FormsOK
<1>7. CASE BodyRead
  <2>1. stage = "body" /\ stage' = "body" /\ req' = req /\ query_params' = query_params
    BY <1>7 DEF BodyRead
  <2>2. QED
    BY <2>1 DEF FormsOK
<1>8. CASE ParsesBody
  <2>1. /\ stage = "body" /\ stage' = "accepted" /\ got >= header_size + content_length
        /\ req' = req /\ query_params' = query_params /\ moved' = moved
        /\ \E post \in IF moved THEN BOOLEAN ELSE {req.method = "POST"} :
             post_form' = IF post /\ ContentType = "form" THEN parse_form_urlencoded(body)
                          ELSE NoFields
    BY <1>8 DEF ParsesBody
  <2>2. ASSUME Understood, req.type = "form", req.form # <<>> PROVE Received'
    <3>1. ContentType = "form" /\ Payload = EncodeForm(req.form)
      BY <2>2 DEF ContentType, Understood, Payload, Multipart
    <3>2. /\ L \in Nat /\ N \in Nat /\ got \in 0..L + N /\ header_size = L
          /\ content_length = N
      BY <1>1, <2>1, <2>2 DEF ParserInv, Sizes
    <3>3. got = L + N
      BY <2>1, <3>2
    <3>4. body = EncodeForm(req.form)
      <4>1. PICK h, p : h = Header /\ p = Payload
        OBVIOUS
      <4>2. /\ h \in Seq(WireUnit) /\ p \in Seq(WireUnit) /\ L = Len(h) /\ N = Len(p)
        BY <1>1, <4>1 DEF SentAs, Ended
      <4>3. PICK raw : raw = SubSeq(h \o p, 1, L + N)
        OBVIOUS
      <4>4. SubSeq(raw, L + 1, L + N) = p
        BY ONLY <4>2, <4>3, BodyBehind
      <4>5. body = SubSeq(raw, L + 1, L + N)
        BY <3>2, <3>3, <4>1, <4>3 DEF body, raw_data, Wire
      <4>6. QED
        BY <3>1, <4>1, <4>4, <4>5
    <3>5. PICK post \in IF moved THEN BOOLEAN ELSE {req.method = "POST"} :
            post_form' = IF post THEN Sends(req.form) ELSE NoFields
      BY <1>2, <2>1, <3>1, <3>4
    <3>6. QED
      BY <2>1, <3>5 DEF Received
  <2>3. Understood' <=> Understood
    BY <2>1 DEF Understood
  <2>4. QED
    BY <2>1, <2>2, <2>3 DEF FormsOK
<1>9. CASE Streams
  <2>1. /\ req' = req /\ query_params' = query_params
        /\ phase \in {"read", "feed", "finish"}
    BY <1>9, ReaderPhases DEF Streams
  <2>2. stage = "stream" /\ req.type # "form"
    BY <1>1, <2>1 DEF ParserInv, Multipart
  <2>3. QED
    BY <2>1, <2>2 DEF FormsOK
<1>10. CASE Writes \/ UNCHANGED rqvars
  <2>1. UNCHANGED parser
    BY <1>10 DEF Writes, rqvars
  <2>2. Understood' <=> Understood
    BY <2>1 DEF parser, Understood
  <2>3. Received' <=> Received
    BY <2>1 DEF parser, Received
  <2>4. QED
    BY <2>1, <2>2, <2>3 DEF parser, FormsOK
<1>11. QED
  BY <1>4, <1>5, <1>6, <1>7, <1>8, <1>9, <1>10 DEF RequestNext, Parse

-----------------------------------------------------------------------------
(* The theorems.                                                           *)
\* The invariant says what the files hold,
LEMMA FilesArrive ==
  ASSUME NEW ps, NEW B, NEW P, NEW S, NEW L, NEW N, NEW A,
         RequestInv(ps, B, P, S, L, N, A)
  PROVE  FilesAsSent
<1> SUFFICES ASSUME ~swallowed
             PROVE  /\ \A f \in File : IF failed THEN IsSubSequence(disk[f], Sent(f))
                                       ELSE IsPrefix(disk[f], Sent(f))
                    /\ AtRest /\ received = Len(Body) =>
                         /\ saved = [i \in DOMAIN parts |-> parts[i].file]
                         /\ ~failed => \A f \in File : disk[f] = Sent(f)
  BY DEF FilesAsSent
<1>1. /\ Laid(ps, B, P, S) /\ B = Body /\ parts = ps /\ PoolOK
      /\ \A f \in File : Sent(f) = S[f][Len(ps)]
  BY DEF RequestInv, SentAs, UploadInv
<1>2. PICK k, c : Progress(ps, B, P, S, k, c)
  BY DEF RequestInv, UploadInv
<1>3. Reached(ps, B, P, k, c) /\ Waits(ps, P, k) /\ SavedAt(ps, B, k) /\ HandedAt(ps, B, P, S, k, c)
  BY <1>2 DEF Progress
<1>4. PICK D : Delivered(D, ps, B, P, S, k, state, c) /\ Handed(disk, Pending, D, failed)
  BY <1>3 DEF HandedAt
<1>5. PICK d, q, l, st : d = disk /\ q = Pending /\ l = failed /\ st = state
  OBVIOUS
<1>6. d \in [File -> Seq(Unit)] /\ q \in Seq(IOTask)
  BY <1>1, <1>5, PendingTypes DEF PoolOK
<1>7. /\ \A f \in File : Thinned(d[f], D[f]) /\ (~l => Begins(d[f], D[f]))
      /\ q = <<>> /\ ~l => d = D
  <2>1. Handed(d, q, D, l)
    BY <1>4, <1>5
  <2>2. QED
    BY <1>6, <2>1, HandedFiles
<1>8. k \in 0..Len(ps)
  BY <1>3 DEF Reached
<1>9. st = "READ_PART_BODY" => k >= 1 /\ c \in P[k - 1] + 4..P[k] - 2
  <2>1. ASSUME st = "READ_PART_BODY"
        PROVE  k >= 1 /\ P[k - 1] + 4 <= c /\ c <= P[k] - 2 /\ c \in Nat
    BY <1>3, <1>5, <2>1 DEF Reached
  <2>2. ASSUME st = "READ_PART_BODY" PROVE P[k - 1] \in Nat /\ P[k] \in Nat
    <3>1. ps \in Seq(Part) /\ Layout(P, ps, B)
      BY <1>1 DEF Laid
    <3>2. k - 1 \in 0..Len(ps)
      <4>1. Len(ps) \in Nat
        BY <3>1
      <4>2. QED
        BY <1>8, <2>1, <2>2, <4>1
    <3>3. \A i \in 0..Len(ps) : P[i] \in Nat
      BY <3>1 DEF Layout
    <3>4. QED
      BY <1>8, <3>2, <3>3
  <2>3. QED
    BY <2>1, <2>2
<1>10. ASSUME NEW f \in File
       PROVE  /\ IF l THEN IsSubSequence(d[f], S[f][Len(ps)])
                 ELSE IsPrefix(d[f], S[f][Len(ps)])
  <2>1. D[f] \in Seq(Unit) /\ S[f][Len(ps)] \in Seq(Unit) /\ Begins(D[f], S[f][Len(ps)])
    <3>1. Delivered(D, ps, B, P, S, k, st, c)
      BY <1>4, <1>5
    <3>2. QED
      BY <1>1, <1>8, <1>9, <3>1, DeliveredSoFar
  <2>2. PICK s, t, u : s = d[f] /\ t = D[f] /\ u = S[f][Len(ps)]
    OBVIOUS
  <2>3. /\ s \in Seq(Unit) /\ t \in Seq(Unit) /\ u \in Seq(Unit) /\ Begins(t, u)
        /\ Thinned(s, t) /\ (~l => Begins(s, t))
    BY <1>6, <1>7, <2>1, <2>2
  <2>4. IsSubSequence(s, u)
    <3>1. Thinned(s, u)
      BY <2>3, ThinnedBeginning
    <3>2. QED
      BY <2>3, <3>1, SearchFinds
  <2>5. ~l => IsPrefix(s, u)
    <3>1. ~l => Begins(s, u)
      BY <2>3, BeginningOfBeginning
    <3>2. QED
      BY <2>3, <3>1, PrefixBegins
  <2>6. QED
    BY <2>2, <2>4, <2>5
<1>11. ASSUME AtRest, received = Len(Body)
       PROVE  /\ saved = [i \in DOMAIN parts |-> parts[i].file]
              /\ ~failed => \A f \in File : disk[f] = Sent(f)
  <2>1. phase = "done" /\ tasks = <<>> /\ worker # "execute" /\ received = Len(B)
    BY <1>1, <1>11 DEF AtRest
  <2>2. q = <<>>
    BY <1>5, <2>1 DEF Pending
  <2>3. state = "READ_PART_HEADER" /\ k = Len(ps)
    BY <1>1, <1>3, <2>1, AllParts
  <2>4. saved = [i \in DOMAIN parts |-> parts[i].file]
    <3>1. saved = Names(ps, Len(ps))
      BY <1>3, <2>1 DEF SavedAt
    <3>2. DOMAIN ps = 1..Len(ps)
      BY <1>1 DEF Laid
    <3>3. QED
      BY <1>1, <3>1, <3>2 DEF Names
  <2>5. \A f \in File : D[f] = S[f][Len(ps)]
    BY <1>4, <2>3 DEF Delivered
  <2>6. QED
    BY <1>1, <1>5, <1>7, <2>2, <2>4, <2>5
<1>12. QED
  BY <1>1, <1>5, <1>10, <1>11

\* which values the variables have,
LEMMA TypesHold ==
  ASSUME NEW ps, NEW B, NEW P, NEW S, NEW L, NEW N, NEW A,
         RequestInv(ps, B, P, S, L, N, A)
  PROVE  RequestTypeOK
<1>1. /\ SentAs(ps, B, P, S, L, N, A) /\ ParserInv(L, N, A) /\ PoolOK
      /\ Laid(ps, B, P, S) /\ B = Body /\ L = Len(Header) /\ req \in Requests
  BY DEF RequestInv, SentAs, UploadInv
<1>2. PICK k, c : Reached(ps, B, P, k, c)
  BY DEF RequestInv, UploadInv, Progress
<1>3. B \in Seq(Unit) /\ Len(B) \in Nat
  BY <1>1 DEF Laid, Layout
<1>4. c \in Nat /\ received \in c..Len(B) /\ buffer = SubSeq(B, c + 1, received)
  BY <1>2 DEF Reached
<1>5. received \in 0..Len(Body) /\ buffer \in Seq(Unit)
  <2>1. PICK r, buf : r = received /\ buf = buffer
    OBVIOUS
  <2>2. r \in 0..Len(B) /\ r \in Nat /\ c <= r /\ r <= Len(B) /\ buf = SubSeq(B, c + 1, r)
    BY <1>3, <1>4, <2>1
  <2>3. PieceFacts(B, c, r, buf)
    BY <1>3, <1>4, <2>1, <2>2, Piece
  <2>4. QED
    BY <1>1, <2>1, <2>2, <2>3 DEF PieceFacts
<1>6. state \in {"FIND_BOUNDARY", "READ_PART_HEADER", "READ_PART_BODY"}
  BY <1>2 DEF Reached
<1>7. UploadTypeOK
  BY <1>1, <1>5, <1>6 DEF UploadTypeOK, PoolOK, ParserInv
<1>8. Len(Wire) = L + N
  BY <1>1, SizesKnown DEF Sizes
<1>9. req \in RequestRecord
  BY <1>1, RequestAssumption
<1>10. QED
  BY <1>1, <1>7, <1>8, <1>9 DEF RequestTypeOK, ParserInv

\* and which limits are kept.
LEMMA LimitsHold ==
  ASSUME NEW ps, NEW B, NEW P, NEW S, NEW L, NEW N, NEW A,
         RequestInv(ps, B, P, S, L, N, A)
  PROVE  LimitsKept
<1>1. ParserInv(L, N, A) /\ L = Len(Header) /\ N = Len(Payload) /\ A = Announced
  BY DEF RequestInv, SentAs
<1>2. QED
  BY <1>1 DEF LimitsKept, ParserInv

Connected == \E ps, B, P, S, L, N, A : RequestInv(ps, B, P, S, L, N, A)

\* The invariant of a connection holds throughout.
THEOREM ConnectedInvariant == RequestSpec => []Connected
<1>1. RequestInit => Connected
  BY RequestStarts DEF Connected
<1>2. Connected /\ [RequestNext]_rqvars => Connected'
  BY RequestSteps DEF Connected
<1>3. QED
  BY <1>1, <1>2, PTL DEF RequestSpec

\* Every variable of the parser, the upload and the writer keeps its type.
THEOREM RequestTypes == RequestSpec => []RequestTypeOK
<1>1. Connected => RequestTypeOK
  BY TypesHold DEF Connected
<1>2. QED
  BY <1>1, ConnectedInvariant, PTL

\* MAX_HEADER_SIZE and MAX_NORMAL_BODY_SIZE are kept by Request::parse, and what is
\* rejected is malformed or exceeds one of them.
THEOREM RequestLimits == RequestSpec => []LimitsKept
<1>1. Connected => LimitsKept
  BY LimitsHold DEF Connected
<1>2. QED
  BY <1>1, ConnectedInvariant, PTL

\* However the bytes of a request are cut into reads, parse_form_urlencoded gives
\* what a browser has sent, decoded, and parse_query_string the parameters of the path,
\* encoded still; only the method, when it dangles, decides whether the form is parsed.
THEOREM FormsAsSent == RequestSpec => []ParsedAsSent
<1>1. RequestInit => Connected /\ FormsOK
  BY RequestStarts, FormsStart DEF Connected
<1>2. Connected /\ FormsOK /\ [RequestNext]_rqvars => FormsOK'
  BY FormsKept DEF Connected
<1>3. FormsOK => ParsedAsSent
  BY DEF FormsOK, ParsedAsSent, Received, Encoded
<1>4. QED
  BY <1>1, <1>2, <1>3, ConnectedInvariant, PTL DEF RequestSpec

\* However the body of an upload is cut into reads, MultipartProcessor and IOTaskPool
\* write to a file nothing but what was sent for it, in order and, if no task fails,
\* without holes; when all has arrived and the pool is at rest it is complete.
THEOREM UploadedFiles == RequestSpec => []FilesAsSent
<1>1. Connected => FilesAsSent
  BY FilesArrive DEF Connected
<1>2. QED
  BY <1>1, ConnectedInvariant, PTL

\* Whenever the destructor is called, and whatever is added while it waits, the
\* thread of IOTaskPool ends after it has executed all that was added before its
\* end: what the queue holds then was added later.
THEOREM WriterEmpties == RequestSpec => []NothingLeftBehind
<1>1. Connected => NothingLeftBehind
  BY DEF Connected, RequestInv, UploadInv, PoolOK
<1>2. QED
  BY <1>1, ConnectedInvariant, PTL

-----------------------------------------------------------------------------
(* The handlers of a request.                                              *)
\* A call that has made another: it goes on where that one returns.
Rest(f) == f.at \in {"load", "after"}

\* All calls but the innermost rest.
Rests(s) == \A i \in DOMAIN s : i > 1 => Rest(s[i])

NoTimeout(s) == \A i \in DOMAIN s : s[i].of # "timeout"

\* The innermost call of thread t is at one of these places.
HeadAt(t, places) == stack[t] # <<>> /\ Head(stack[t]).at \in places

TaskAt(place) ==
  HeadAt("task", {place}) /\ Head(stack["task"]).of = "task"

StackOK ==
  /\ \A t \in Thread : Rests(stack[t])
  /\ \A t \in Thread : HeadAt(t, {"test", "call"}) => index >= 0

ChainOK ==
  \A i, j \in DOMAIN chain : chain[i] = "timeout" /\ chain[j] = "timeout" => i = j

\* The timeout middleware has been entered.
Timed == \E i \in DOMAIN chain : chain[i] = "timeout" /\ entered[i] > 0

\* Two threads: the task waits for the one that its timeout has started, which
\* is started once and ends before its 1 is received.
TimeoutOK ==
  /\ stack["spawned"] # <<>> =>
       /\ HeadAt("task", {"wait"}) /\ Head(stack["task"]).of = "timeout"
       /\ NoTimeout(stack["spawned"])
  /\ stack["spawned"] # <<>> \/ ~NoTimeout(stack["task"]) \/ timer # "off" \/ winner # <<>>
       => Timed
  /\ HeadAt("task", {"enter"}) /\ Head(stack["task"]).of = "timeout" =>
       winner = <<>> /\ timer = "off"
  /\ winner # <<>> /\ Head(winner) = 1 => stack["spawned"] = <<>>

\* The handlers that were entered are at most those up to index_, and before
\* the next call those below it.
IndexOK ==
  /\ \A i \in DOMAIN chain : entered[i] <= 1 /\ (entered[i] > 0 => i <= index + 1)
  /\ \A t \in Thread :
       /\ HeadAt(t, {"store"}) => loaded[t] = index
       /\ HeadAt(t, {"test", "call"}) =>
            \A i \in DOMAIN chain : entered[i] > 0 => i <= index
  /\ aborted => index >= Len(chain)

\* Nobody has set the data, somebody is about to send it or is sending it, or
\* it is sent.
AnswerOK ==
  \/ /\ first = "none" /\ ~sent /\ responses = <<>>
     /\ \A t \in Thread : ~HeadAt(t, {"send", "write"})
  \/ /\ first # "none" /\ ~sent /\ responses = <<>> /\ data = first
     /\ \E t \in Thread : HeadAt(t, {"send"})
  \/ /\ first # "none" /\ ~sent /\ responses = <<first>>
     /\ \E t \in Thread : HeadAt(t, {"write"})
  \/ /\ first # "none" /\ sent /\ responses = <<first>>
     /\ \A t \in Thread : ~HeadAt(t, {"write"})

\* The task closes when it has seen an answer, or never entered the chain.
TaskOK ==
  /\ TaskAt("enter") => index = -1
  /\ TaskAt("abort") => sent \/ index = -1
  /\ closed => sent \/ index = -1

IInv ==
  /\ TypeOK /\ ChainOK /\ StackOK
  /\ ~overtaken => TimeoutOK /\ IndexOK /\ AnswerOK /\ TaskOK

-----------------------------------------------------------------------------
(***************************************************************************)
(* Stacks.                                                                 *)
(***************************************************************************)

\* A call on top of what is left of a stack from its i-th call on.
LEMMA Push ==
  ASSUME NEW s \in Seq(Frame), NEW f \in Frame, NEW i \in 1..Len(s) + 1,
         \A j \in i..Len(s) : Rest(s[j])
  PROVE  LET r == <<f>> \o SubSeq(s, i, Len(s))
         IN  /\ r \in Seq(Frame) /\ r # <<>> /\ Head(r) = f
             /\ Rests(r)
             /\ f.of # "timeout" /\ NoTimeout(s) => NoTimeout(r)
<1> DEFINE m == Len(s) - i + 1
           r == <<f>> \o SubSeq(s, i, Len(s))
<1>1. m \in Nat /\ Len(s) \in Nat
  BY LenProperties
<1>2. SubSeq(s, i, Len(s)) \in Seq(Frame) /\ Len(SubSeq(s, i, Len(s))) = m
  BY <1>1, SubSeqProperties, Z3
<1>3. \A j \in 1..m : SubSeq(s, i, Len(s))[j] = s[i + j - 1]
  BY <1>1, SubSeqProperties, Z3
<1>4. r \in Seq(Frame) /\ Len(r) = m + 1
  BY <1>2, <1>1, ConcatProperties, SMT
<1>5. r[1] = f /\ \A j \in 2..m + 1 : r[j] = s[i + j - 2]
  BY <1>1, <1>2, <1>3, ConcatProperties, SMT
<1>6. DOMAIN r = 1..m + 1 /\ r # <<>> /\ Head(r) = f
  BY <1>1, <1>4, <1>5, LenProperties, SMT
<1>7. Rests(r)
  BY <1>1, <1>5, <1>6 DEF Rests
<1>8. f.of # "timeout" /\ NoTimeout(s) => NoTimeout(r)
  BY <1>1, <1>5, <1>6 DEF NoTimeout
<1>9. QED
  BY <1>4, <1>6, <1>7, <1>8

\* The innermost call is replaced.
LEMMA Replace ==
  ASSUME NEW s \in Seq(Frame), s # <<>>, Rests(s), NEW f \in Frame
  PROVE  LET r == <<f>> \o Tail(s)
         IN  /\ r \in Seq(Frame) /\ r # <<>> /\ Head(r) = f
             /\ Rests(r)
             /\ f.of # "timeout" /\ NoTimeout(s) => NoTimeout(r)
<1>1. Tail(s) = SubSeq(s, 2, Len(s))
  BY TailIsSubSeq
<1>2. /\ Len(s) \in Nat \ {0} /\ DOMAIN s = 1..Len(s)
      /\ 2 \in 1..Len(s) + 1
  BY EmptySeq, LenProperties
<1>3. \A j \in 2..Len(s) : Rest(s[j])
  BY <1>2 DEF Rests
<1>4. LET r == <<f>> \o SubSeq(s, 2, Len(s))
      IN  /\ r \in Seq(Frame) /\ r # <<>> /\ Head(r) = f
          /\ Rests(r)
          /\ f.of # "timeout" /\ NoTimeout(s) => NoTimeout(r)
  BY <1>2, <1>3, Push
<1>5. QED
  BY <1>1, <1>4

\* The innermost call returns.
LEMMA Pop ==
  ASSUME NEW s \in Seq(Frame), s # <<>>, Rests(s)
  PROVE  /\ Tail(s) \in Seq(Frame)
         /\ Tail(s) # <<>> => Rest(Head(Tail(s)))
         /\ Rests(Tail(s))
         /\ NoTimeout(s) => NoTimeout(Tail(s))
<1>1. /\ Tail(s) \in Seq(Frame)
      /\ Len(Tail(s)) = Len(s) - 1
      /\ \A i \in 1..Len(s) - 1 : Tail(s)[i] = s[i + 1]
  BY HeadTailProperties
<1>2. Len(s) \in Nat /\ DOMAIN s = 1..Len(s) /\ DOMAIN Tail(s) = 1..Len(s) - 1
  BY <1>1, LenProperties
<1>3. \A i \in DOMAIN Tail(s) : Rest(Tail(s)[i])
  BY <1>1, <1>2 DEF Rests
<1>4. Tail(s) # <<>> => Head(Tail(s)) = Tail(s)[1] /\ 1 \in DOMAIN Tail(s)
  BY <1>1, <1>2
<1>5. QED
  BY <1>1, <1>2, <1>3, <1>4 DEF Rests, NoTimeout

\* The innermost call makes another and rests.
LEMMA PushTwo ==
  ASSUME NEW s \in Seq(Frame), s # <<>>, Rests(s),
         NEW f \in Frame, NEW h \in Frame, Rest(h)
  PROVE  LET r == <<f, h>> \o Tail(s)
         IN  /\ r \in Seq(Frame) /\ r # <<>> /\ Head(r) = f
             /\ Rests(r)
             /\ f.of # "timeout" /\ h.of # "timeout" /\ NoTimeout(s) => NoTimeout(r)
<1> DEFINE r == <<f, h>> \o Tail(s)
           m == Len(s)
<1>1. /\ Tail(s) \in Seq(Frame)
      /\ Len(Tail(s)) = m - 1
      /\ \A i \in 1..m - 1 : Tail(s)[i] = s[i + 1]
      /\ m \in Nat \ {0} /\ DOMAIN s = 1..m
  BY HeadTailProperties, LenProperties, EmptySeq
<1>2. r \in Seq(Frame) /\ Len(r) = m + 1
  BY <1>1, ConcatProperties, SMT
<1>3. r[1] = f /\ r[2] = h /\ \A j \in 3..m + 1 : r[j] = s[j - 1]
  BY <1>1, ConcatProperties, SMT
<1>4. DOMAIN r = 1..m + 1 /\ r # <<>> /\ Head(r) = f
  BY <1>1, <1>2, <1>3, LenProperties, SMT
<1>5. Rests(r)
  BY <1>1, <1>3, <1>4 DEF Rests
<1>6. f.of # "timeout" /\ h.of # "timeout" /\ NoTimeout(s) => NoTimeout(r)
  BY <1>1, <1>3, <1>4 DEF NoTimeout
<1>7. QED
  BY <1>2, <1>4, <1>5, <1>6

-----------------------------------------------------------------------------
(***************************************************************************)
(* Steps.                                                                  *)
(***************************************************************************)

\* After a step of thread t its innermost call is at that place.
Becomes(t, of, at) ==
  /\ stack' \in [Thread -> Seq(Frame)]
  /\ \A u \in Thread \ {t} : stack'[u] = stack[u]
  /\ stack'[t] # <<>> /\ Head(stack'[t]).of = of /\ Head(stack'[t]).at = at
  /\ Rests(stack'[t])
  /\ of # "timeout" /\ NoTimeout(stack[t]) => NoTimeout(stack'[t])

\* After a step of thread t its innermost call has returned.
Returned(t) ==
  /\ stack' \in [Thread -> Seq(Frame)]
  /\ \A u \in Thread \ {t} : stack'[u] = stack[u]
  /\ stack'[t] # <<>> => Rest(Head(stack'[t]))
  /\ Rests(stack'[t])
  /\ NoTimeout(stack[t]) => NoTimeout(stack'[t])

\* After a step of t the task waits and the other thread has begun.
Spawned(t) ==
  /\ stack' \in [Thread -> Seq(Frame)]
  /\ \A u \in Thread : Rests(stack'[u])
  /\ stack'["spawned"] = <<Call("spawned")>> /\ NoTimeout(stack'["spawned"])
  /\ t = "task" =>
       /\ stack'["task"] # <<>>
       /\ Head(stack'["task"]).of = "timeout" /\ Head(stack'["task"]).at = "wait"

Place == {"enter", "load", "store", "test", "call", "wait", "prepare", "send",
          "write", "abort", "after"}

\* A move keeps the shape of both stacks.
LEMMA MovesShape ==
  ASSUME TypeOK, StackOK, NEW t \in Thread, stack[t] # <<>>, NEW p \in Place, Moves(t, p)
  PROVE  Becomes(t, Head(stack[t]).of, p)
<1> DEFINE f == [Head(stack[t]) EXCEPT !.at = p]
<1>1. stack \in [Thread -> Seq(Frame)] /\ Rests(stack[t]) /\ Head(stack[t]) \in Frame
  BY HeadTailProperties DEF TypeOK, StackOK
<1>2. f \in Frame /\ f.of = Head(stack[t]).of /\ f.at = p
  BY <1>1 DEF Frame, Place
<1> HIDE DEF f
<1>3. stack' = [stack EXCEPT ![t] = <<f>> \o Tail(stack[t])]
  BY <1>1 DEF Moves, f
<1>4. QED
  BY <1>1, <1>2, <1>3, Replace DEF Becomes

\* A return keeps it too.
LEMMA PopsShape ==
  ASSUME TypeOK, StackOK, NEW t \in Thread, stack[t] # <<>>, Pops(t)
  PROVE  Returned(t)
<1>1. stack \in [Thread -> Seq(Frame)] /\ Rests(stack[t])
  BY DEF TypeOK, StackOK
<1>2. stack' = [stack EXCEPT ![t] = Tail(stack[t])]
  BY <1>1 DEF Pops
<1>3. QED
  BY <1>1, <1>2, Pop DEF Returned


\* What every action does to the stacks.
LEMMA Shapes ==
  ASSUME TypeOK, StackOK
  PROVE  /\ \A t \in Thread :
              /\ Next_(t) => Becomes(t, "loop", "load")
              /\ Loads(t) => Becomes(t, "loop", "store")
              /\ Stores(t) => Becomes(t, "loop", "test")
              /\ LoopTests(t) => IF index < Len(chain) THEN Becomes(t, "loop", "call") ELSE Returned(t)
              /\ LoopCalls(t) => IF index < Len(chain) THEN Becomes(t, chain[index + 1], "enter") ELSE stack' = stack
              /\ Returns(t) => Returned(t)
              /\ Answers(t) => Becomes(t, Head(stack[t]).of, "prepare")
              /\ Throws(t) => stack' = stack \/ Becomes(t, "recovery", "prepare")
              /\ Prepares(t) => Becomes(t, Head(stack[t]).of, "send")
              /\ SendTests(t) => LET of == Head(stack[t]).of IN Becomes(t, of, IF sent THEN AfterSend(of) ELSE "write")
              /\ SendDone(t) => Becomes(t, Head(stack[t]).of, AfterSend(Head(stack[t]).of))
              /\ Aborts(t) => Becomes(t, Head(stack[t]).of, "after")
              /\ Spawns(t) => Spawned(t)
              /\ Decides(t) => Becomes(t, "timeout", "after") \/ Becomes(t, "timeout", "prepare")
         /\ Rejects => Becomes("task", "task", "abort")
         /\ Defaults => Becomes("task", "task", IF sent THEN "abort" ELSE "prepare")
         /\ Closes => Returned("task")
         /\ SpawnedDone => Returned("spawned") /\ stack'["spawned"] = <<>>
         /\ TimerFires => stack' = stack
<1>1. ASSUME NEW t \in Thread, Next_(t)
      PROVE  Becomes(t, "loop", "load")
  <2> DEFINE f == [of |-> "loop", at |-> "load"]
             h == [Head(stack[t]) EXCEPT !.at = "after"]
  <2>1. stack \in [Thread -> Seq(Frame)] /\ Rests(stack[t]) /\ stack[t] # <<>>
    BY <1>1 DEF TypeOK, StackOK, Next_, At
  <2>2. Head(stack[t]) \in Frame /\ Head(stack[t]).of # "timeout"
    BY <1>1, <2>1, HeadTailProperties DEF Next_, At
  <2>3. f \in Frame /\ f.of = "loop" /\ f.at = "load"
    BY DEF Frame
  <2>4. h \in Frame /\ Rest(h) /\ h.of # "timeout"
    BY <2>2 DEF Frame, Rest
  <2> HIDE DEF f, h
  <2>5. stack' = [stack EXCEPT ![t] = <<f, h>> \o Tail(stack[t])]
    BY <1>1, <2>1 DEF Next_, f, h
  <2>6. QED
    BY <2>1, <2>3, <2>4, <2>5, PushTwo DEF Becomes
<1>2. ASSUME NEW t \in Thread, Loads(t)
      PROVE  Becomes(t, "loop", "store")
  BY <1>2, MovesShape DEF Loads, At, Place
<1>3. ASSUME NEW t \in Thread, Stores(t)
      PROVE  Becomes(t, "loop", "test")
  BY <1>3, MovesShape DEF Stores, At, Place
<1>4. ASSUME NEW t \in Thread, LoopTests(t)
      PROVE  IF index < Len(chain) THEN Becomes(t, "loop", "call") ELSE Returned(t)
  BY <1>4, MovesShape, PopsShape DEF LoopTests, At, Place
<1>5. ASSUME NEW t \in Thread, LoopCalls(t)
      PROVE  IF index < Len(chain) THEN Becomes(t, chain[index + 1], "enter") ELSE stack' = stack
  <2>1. CASE ~(index < Len(chain))
    BY <1>5, <2>1 DEF LoopCalls
  <2>2. CASE index < Len(chain)
    <3> DEFINE f == Call(chain[index + 1])
               h == [Head(stack[t]) EXCEPT !.at = "load"]
    <3>1. stack \in [Thread -> Seq(Frame)] /\ Rests(stack[t]) /\ stack[t] # <<>>
      BY <1>5 DEF TypeOK, StackOK, LoopCalls, At
    <3>2. Head(stack[t]) \in Frame /\ Head(stack[t]).of # "timeout"
      BY <1>5, <3>1, HeadTailProperties DEF LoopCalls, At
    <3>3. index \in Nat
      BY <1>5 DEF LoopCalls, At, StackOK, HeadAt, TypeOK
    <3>4. chain[index + 1] \in Kind
      BY <2>2, <3>3, KindAssumption DEF TypeOK
    <3>5. f \in Frame /\ f.of = chain[index + 1] /\ f.at = "enter"
      BY <3>4 DEF Frame, Call
    <3>6. h \in Frame /\ Rest(h) /\ h.of # "timeout"
      BY <3>2 DEF Frame, Rest
    <3> HIDE DEF f, h
    <3>7. stack' = [stack EXCEPT ![t] = <<f, h>> \o Tail(stack[t])]
      BY <1>5, <2>2, <3>1 DEF LoopCalls, f, h
    <3>8. Becomes(t, chain[index + 1], "enter")
      BY <3>1, <3>5, <3>6, <3>7, PushTwo DEF Becomes
    <3>9. QED
      BY <2>2, <3>8
  <2>3. QED
    BY <2>1, <2>2
<1>6. ASSUME NEW t \in Thread, Returns(t)
      PROVE  Returned(t)
  BY <1>6, PopsShape DEF Returns, At
<1>7. ASSUME NEW t \in Thread, Answers(t)
      PROVE  Becomes(t, Head(stack[t]).of, "prepare")
  BY <1>7, MovesShape DEF Answers, At, Place
<1>8. ASSUME NEW t \in Thread, Throws(t)
      PROVE  stack' = stack \/ Becomes(t, "recovery", "prepare")
  <2> DEFINE f == [of |-> "recovery", at |-> "prepare"]
  <2>1. stack \in [Thread -> Seq(Frame)] /\ Rests(stack[t])
    BY DEF TypeOK, StackOK
  <2>2. f \in Frame /\ f.of = "recovery" /\ f.at = "prepare"
    BY DEF Frame, Kind
  <2> HIDE DEF f
  <2>3. CASE stack' = stack
    BY <2>3
  <2>4. ASSUME NEW i \in DOMAIN stack[t],
               stack' = [stack EXCEPT ![t] = <<f>> \o SubSeq(@, i + 1, Len(@))]
       PROVE   Becomes(t, "recovery", "prepare")
    <3>1. i \in 1..Len(stack[t]) /\ Len(stack[t]) \in Nat
      BY <2>1, LenProperties
    <3>2. i + 1 \in 1..Len(stack[t]) + 1
      BY <3>1
    <3>3. \A j \in i + 1..Len(stack[t]) : Rest(stack[t][j])
      BY <2>1, <3>1 DEF Rests
    <3>4. stack'[t] = <<f>> \o SubSeq(stack[t], i + 1, Len(stack[t]))
      BY <2>1, <2>4
    <3>5. /\ stack'[t] \in Seq(Frame) /\ stack'[t] # <<>> /\ Head(stack'[t]) = f
          /\ Rests(stack'[t])
          /\ NoTimeout(stack[t]) => NoTimeout(stack'[t])
      BY <2>1, <2>2, <3>2, <3>3, <3>4, Push
    <3>6. QED
      BY <2>1, <2>2, <2>4, <3>5 DEF Becomes
  <2>5. QED
    BY <1>8, <2>3, <2>4 DEF Throws, f
<1>9. ASSUME NEW t \in Thread, Prepares(t)
      PROVE  Becomes(t, Head(stack[t]).of, "send")
  BY <1>9, MovesShape DEF Prepares, At, Place
<1>10. ASSUME NEW t \in Thread, SendTests(t)
      PROVE  LET of == Head(stack[t]).of IN Becomes(t, of, IF sent THEN AfterSend(of) ELSE "write")
  BY <1>10, MovesShape DEF SendTests, At, Place, AfterSend
<1>11. ASSUME NEW t \in Thread, SendDone(t)
      PROVE  Becomes(t, Head(stack[t]).of, AfterSend(Head(stack[t]).of))
  BY <1>11, MovesShape DEF SendDone, At, Place, AfterSend
<1>12. ASSUME NEW t \in Thread, Aborts(t)
      PROVE  Becomes(t, Head(stack[t]).of, "after")
  BY <1>12, MovesShape DEF Aborts, At, Place
<1>13. ASSUME NEW t \in Thread, Spawns(t)
      PROVE  Spawned(t)
  <2> DEFINE f == [Head(stack[t]) EXCEPT !.at = "wait"]
             r == <<f>> \o Tail(stack[t])
  <2>1. stack \in [Thread -> Seq(Frame)] /\ \A u \in Thread : Rests(stack[u])
    BY DEF TypeOK, StackOK
  <2>2. stack[t] # <<>> /\ Head(stack[t]) \in Frame /\ Head(stack[t]).of = "timeout"
    BY <1>13, <2>1, HeadTailProperties DEF Spawns, At
  <2>3. f \in Frame /\ f.of = "timeout" /\ f.at = "wait"
    BY <2>2 DEF Frame
  <2>4. Call("spawned") \in Frame /\ Call("spawned").of # "timeout"
    BY DEF Frame, Call, Thread
  <2> HIDE DEF f
  <2>5. r \in Seq(Frame) /\ r # <<>> /\ Head(r) = f /\ Rests(r)
    BY <2>1, <2>2, <2>3, Replace
  <2> HIDE DEF r
  <2>6. stack' = [stack EXCEPT ![t] = r, !["spawned"] = <<Call("spawned")>>]
    BY <1>13, <2>1 DEF Spawns, r, f
  <2>7. /\ <<Call("spawned")>> \in Seq(Frame)
        /\ Rests(<<Call("spawned")>>) /\ NoTimeout(<<Call("spawned")>>)
    BY <2>4 DEF Rests, NoTimeout
  <2>8. QED
    BY <2>1, <2>3, <2>5, <2>6, <2>7 DEF Spawned, Thread
<1>14. ASSUME NEW t \in Thread, Decides(t)
      PROVE  Becomes(t, "timeout", "after") \/ Becomes(t, "timeout", "prepare")
  BY <1>14, MovesShape DEF Decides, At, Place
<1>15. ASSUME Rejects
      PROVE  Becomes("task", "task", "abort")
  BY <1>15, MovesShape DEF Rejects, At, Place, Thread
<1>16. ASSUME Defaults
      PROVE  Becomes("task", "task", IF sent THEN "abort" ELSE "prepare")
  BY <1>16, MovesShape DEF Defaults, At, Place, Thread
<1>17. ASSUME Closes
      PROVE  Returned("task")
  BY <1>17, PopsShape DEF Closes, At, Thread
<1>18. ASSUME SpawnedDone
      PROVE  Returned("spawned") /\ stack'["spawned"] = <<>>
  <2>1. Returned("spawned")
    BY <1>18, PopsShape DEF SpawnedDone, Thread
  <2>2. stack'["spawned"] = Tail(<<[of |-> "spawned", at |-> "after"]>>)
    BY <1>18 DEF SpawnedDone, Pops, TypeOK, Thread
  <2>3. QED
    BY <2>1, <2>2
<1>19. ASSUME TimerFires
      PROVE  stack' = stack
  BY <1>19 DEF TimerFires
<1>20. QED
  BY <1>1, <1>2, <1>3, <1>4, <1>5, <1>6, <1>7, <1>8, <1>9, <1>10, <1>11,
     <1>12, <1>13, <1>14, <1>15, <1>16, <1>17, <1>18, <1>19


-----------------------------------------------------------------------------
(***************************************************************************)
(* The invariant.                                                          *)
(***************************************************************************)

\* The other thread is in no call, or is the task and waits.
Alone(t) ==
  \A u \in Thread \ {t} :
     \/ stack[u] = <<>>
     \/ u = "task" /\ HeadAt(u, {"wait"}) /\ Head(stack[u]).of = "timeout"

\* A thread that can take a step and does not wait is alone.
LEMMA MovesAlone ==
  ASSUME TimeoutOK, NEW t \in Thread, stack[t] # <<>>, Head(stack[t]).at # "wait"
  PROVE  Alone(t)
BY DEF TimeoutOK, HeadAt, Alone, Thread

\* Where the timeout middleware is on top, the stack is not without one.
LEMMA HeadTimeout ==
  ASSUME TypeOK, NEW t \in Thread, stack[t] # <<>>, Head(stack[t]).of = "timeout"
  PROVE  ~NoTimeout(stack[t])
<1>1. stack[t] \in Seq(Frame)
  BY DEF TypeOK
<1>2. 1 \in DOMAIN stack[t] /\ Head(stack[t]) = stack[t][1]
  BY <1>1, EmptySeq, LenProperties, HeadTailProperties
<1>3. QED
  BY <1>2 DEF NoTimeout

\* What is on top of a stack is a call.
LEMMA HeadInFrame ==
  ASSUME TypeOK, NEW t \in Thread, stack[t] # <<>>
  PROVE  Head(stack[t]) \in Frame
BY HeadTailProperties DEF TypeOK

\* A step of t that enters no handler.
Passes(t) ==
  /\ \A u \in Thread \ {t} : stack'[u] = stack[u]
  /\ NoTimeout(stack[t]) => NoTimeout(stack'[t])
  /\ stack'[t] # <<>> /\ Head(stack'[t]).of = "timeout" => Head(stack'[t]).at # "enter"

\* A step that enters no handler keeps the timeout's part of the invariant.
LEMMA PassesTimeout ==
  ASSUME TypeOK, TimeoutOK, NEW t \in Thread, stack[t] # <<>>,
         Head(stack[t]).at # "wait", Passes(t),
         UNCHANGED <<chain, entered, winner, timer>>
  PROVE  TimeoutOK'
<1>1. Timed' = Timed
  BY DEF Timed
<1>2. Alone(t)
  BY MovesAlone
<1>3. CASE t = "task"
  BY <1>1, <1>2, <1>3 DEF TimeoutOK, HeadAt, Alone, Passes, Thread
<1>4. CASE t = "spawned"
  BY <1>1, <1>2, <1>4 DEF TimeoutOK, HeadAt, Alone, Passes, Thread
<1>5. QED
  BY <1>3, <1>4 DEF Thread

\* The task begins alone, with no handler entered.
LEMMA Initially == Init => IInv
<1> SUFFICES ASSUME Init PROVE IInv
  OBVIOUS
<1>1. Call("task") \in Frame /\ Call("task").of = "task" /\ Call("task").at = "enter"
  BY DEF Frame, Call, Thread
<1>2. /\ stack \in [Thread -> Seq(Frame)]
      /\ stack["task"] = <<Call("task")>> /\ stack["spawned"] = <<>>
  BY <1>1 DEF Init, Thread
<1>3. chain \in Seq(Middleware) /\ ChainOK
  BY DEF Init, Chains, ChainOK
<1>4. TypeOK
  <2>1. <<>> \in Seq(Author) /\ <<>> \in Seq({1, 2}) /\ Len(<<>>) = 0
    OBVIOUS
  <2>2. loaded \in [Thread -> Nat \cup {-1}] /\ entered \in [1..Len(chain) -> Nat]
    BY DEF Init
  <2>3. /\ responses \in Seq(Author)
        /\ winner \in Seq({1, 2}) /\ Len(winner) <= 1
    BY <2>1 DEF Init
  <2>4. data \in Author /\ first \in Author /\ index \in Nat \cup {-1}
    BY DEF Init, Author
  <2>5. QED
    BY <1>2, <1>3, <2>2, <2>3, <2>4 DEF Init, TypeOK
<1>5. StackOK
  BY <1>1, <1>2 DEF StackOK, Rests, HeadAt, Thread
<1>6. NoTimeout(stack["task"])
  BY <1>1, <1>2 DEF NoTimeout
<1>7. TimeoutOK
  BY <1>1, <1>2, <1>6 DEF Init, TimeoutOK, HeadAt, Thread
<1>8. DOMAIN chain = 1..Len(chain) /\ Len(chain) \in Nat
  BY <1>3, LenProperties
<1>9. IndexOK
  BY <1>1, <1>2, <1>8 DEF Init, IndexOK, HeadAt, Thread
<1>10. AnswerOK
  BY <1>1, <1>2 DEF Init, AnswerOK, HeadAt, Thread
<1>11. TaskOK
  BY DEF Init, TaskOK
<1>12. QED
  BY <1>3, <1>4, <1>5, <1>7, <1>9, <1>10, <1>11 DEF IInv

\* Every step keeps the invariant.
LEMMA Invariance == IInv /\ [Next]_vars => IInv'
<1> SUFFICES ASSUME IInv, [Next]_vars PROVE IInv'
  OBVIOUS
<1> USE DEF Thread

<1>1. ASSUME NEW t \in Thread, Next_(t)
      PROVE  IInv'
  <2>1. Becomes(t, "loop", "load")
    BY <1>1, Shapes DEF IInv
  <2>2. stack[t] # <<>> /\ Head(stack[t]) \in Frame
    BY <1>1, HeadInFrame DEF Next_, At, IInv
  <2>3. TypeOK' /\ ChainOK'
    BY <1>1, <2>1, <2>2
    DEF Next_, At, Becomes, IInv, TypeOK, ChainOK, response, race, ends,
        history
  <2>4. StackOK'
    BY <1>1, <2>1, <2>2 DEF Next_, At, Becomes, IInv, TypeOK, StackOK, HeadAt
  <2>5. ASSUME ~overtaken' PROVE TimeoutOK' /\ IndexOK' /\ AnswerOK' /\ TaskOK'
    <3>1. /\ ~overtaken /\ TypeOK /\ ChainOK
          /\ TimeoutOK /\ IndexOK /\ AnswerOK /\ TaskOK
      BY <1>1, <2>5 DEF Next_, IInv, history
    <3>2. Alone(t)
      BY <1>1, <2>2, <3>1, MovesAlone DEF Next_, At
    <3>3. TimeoutOK'
      <4>1. Passes(t)
        BY <1>1, <2>1, <2>2, <3>1, <3>2, HeadTimeout
        DEF Next_, At, Becomes, Passes
      <4>2. QED
        BY <1>1, <2>2, <3>1, <4>1, PassesTimeout DEF Next_, At, race, history
    <3>4. IndexOK'
      BY <1>1, <2>1, <2>2, <3>1, <3>2
      DEF Next_, At, Becomes, IndexOK, HeadAt, Alone, history
    <3>5. AnswerOK'
      BY <1>1, <2>1, <2>2, <3>1, <3>2
      DEF Next_, At, Becomes, AnswerOK, HeadAt, Alone, response
    <3>6. TaskOK'
      BY <1>1, <2>1, <2>2, <3>1, <3>2
      DEF Next_, At, Becomes, TaskOK, TaskAt, HeadAt, Alone, response, ends
    <3>7. QED
      BY <3>3, <3>4, <3>5, <3>6
  <2>6. QED
    BY <2>3, <2>4, <2>5 DEF IInv
<1>2. ASSUME NEW t \in Thread, Loads(t)
      PROVE  IInv'
  <2>1. Becomes(t, "loop", "store")
    BY <1>2, Shapes DEF IInv
  <2>2. stack[t] # <<>> /\ Head(stack[t]) \in Frame
    BY <1>2, HeadInFrame DEF Loads, At, IInv
  <2>3. TypeOK' /\ ChainOK'
    BY <1>2, <2>1, <2>2
    DEF Loads, At, Becomes, IInv, TypeOK, ChainOK, response, race, ends,
        history
  <2>4. StackOK'
    BY <1>2, <2>1, <2>2 DEF Loads, At, Becomes, IInv, TypeOK, StackOK, HeadAt
  <2>5. ASSUME ~overtaken' PROVE TimeoutOK' /\ IndexOK' /\ AnswerOK' /\ TaskOK'
    <3>1. /\ ~overtaken /\ TypeOK /\ ChainOK
          /\ TimeoutOK /\ IndexOK /\ AnswerOK /\ TaskOK
      BY <1>2, <2>5 DEF Loads, IInv, history
    <3>2. Alone(t)
      BY <1>2, <2>2, <3>1, MovesAlone DEF Loads, At
    <3>3. TimeoutOK'
      <4>1. Passes(t)
        BY <1>2, <2>1, <2>2, <3>1, <3>2, HeadTimeout
        DEF Loads, At, Becomes, Passes
      <4>2. QED
        BY <1>2, <2>2, <3>1, <4>1, PassesTimeout DEF Loads, At, race, history
    <3>4. IndexOK'
      BY <1>2, <2>1, <2>2, <3>1, <3>2
      DEF Loads, At, Becomes, IndexOK, HeadAt, Alone, TypeOK, history
    <3>5. AnswerOK'
      BY <1>2, <2>1, <2>2, <3>1, <3>2
      DEF Loads, At, Becomes, AnswerOK, HeadAt, Alone, response
    <3>6. TaskOK'
      BY <1>2, <2>1, <2>2, <3>1, <3>2
      DEF Loads, At, Becomes, TaskOK, TaskAt, HeadAt, Alone, response, ends
    <3>7. QED
      BY <3>3, <3>4, <3>5, <3>6
  <2>6. QED
    BY <2>3, <2>4, <2>5 DEF IInv
<1>3. ASSUME NEW t \in Thread, Stores(t)
      PROVE  IInv'
  <2>1. Becomes(t, "loop", "test")
    BY <1>3, Shapes DEF IInv
  <2>2. Len(chain) \in Nat /\ DOMAIN chain = 1..Len(chain)
    BY LenProperties DEF IInv, TypeOK
  <2>3. stack[t] # <<>> /\ Head(stack[t]) \in Frame
    BY <1>3, HeadInFrame DEF Stores, At, IInv
  <2>4. TypeOK' /\ ChainOK'
    BY <1>3, <2>1, <2>2, <2>3
    DEF Stores, At, Becomes, Advance, IInv, TypeOK, ChainOK, response, race,
        ends, history
  <2>5. StackOK'
    BY <1>3, <2>1, <2>2, <2>3
    DEF Stores, At, Becomes, Advance, IInv, TypeOK, StackOK, HeadAt
  <2>6. ASSUME ~overtaken' PROVE TimeoutOK' /\ IndexOK' /\ AnswerOK' /\ TaskOK'
    <3>1. /\ ~overtaken /\ TypeOK /\ ChainOK
          /\ TimeoutOK /\ IndexOK /\ AnswerOK /\ TaskOK
      BY <1>3, <2>6 DEF Stores, IInv, history
    <3>2. Alone(t)
      BY <1>3, <2>3, <3>1, MovesAlone DEF Stores, At
    <3>3. TimeoutOK'
      <4>1. Passes(t)
        BY <1>3, <2>1, <2>2, <2>3, <3>1, <3>2, HeadTimeout
        DEF Stores, At, Becomes, Advance, Passes
      <4>2. QED
        BY <1>3, <2>3, <3>1, <4>1, PassesTimeout DEF Stores, At, race, history
    <3>4. IndexOK'
      <4>1. index' = index + 1 /\ index \in Int
        BY <1>3, <3>1 DEF Stores, At, Advance, IndexOK, HeadAt, TypeOK
      <4>2. \A u \in Thread : ~HeadAt(u, {"store"})'
        BY <2>1, <3>2 DEF Becomes, HeadAt, Alone
      <4>3. UNCHANGED <<chain, entered, aborted>>
        BY <1>3 DEF Stores, history
      <4>4. \A i \in DOMAIN chain : entered[i] <= 1 /\ (entered[i] > 0 => i <= index')
        BY <3>1, <4>1 DEF IndexOK
      <4>5. aborted' => index' >= Len(chain')
        BY <2>2, <3>1, <4>1, <4>3 DEF IndexOK
      <4>6. \A i \in DOMAIN chain : entered[i] > 0 => i <= index' + 1
        BY <2>2, <4>1, <4>4
      <4>7. QED
        BY <4>2, <4>3, <4>4, <4>5, <4>6 DEF IndexOK
    <3>5. AnswerOK'
      BY <1>3, <2>1, <2>2, <2>3, <3>1, <3>2
      DEF Stores, At, Becomes, Advance, AnswerOK, HeadAt, Alone, response
    <3>6. TaskOK'
      BY <1>3, <2>1, <2>2, <2>3, <3>1, <3>2
      DEF Stores, At, Becomes, Advance, TaskOK, TaskAt, HeadAt, Alone,
          response, ends
    <3>7. QED
      BY <3>3, <3>4, <3>5, <3>6
  <2>7. QED
    BY <2>4, <2>5, <2>6 DEF IInv
<1>4. ASSUME NEW t \in Thread, LoopTests(t)
      PROVE  IInv'
  <2>1. IF index < Len(chain) THEN Becomes(t, "loop", "call") ELSE Returned(t)
    BY <1>4, Shapes DEF IInv
  <2>2. stack[t] # <<>> /\ Head(stack[t]) \in Frame
    BY <1>4, HeadInFrame DEF LoopTests, At, IInv
  <2>3. TypeOK' /\ ChainOK'
    BY <1>4, <2>1, <2>2
    DEF LoopTests, At, Becomes, Returned, IInv, TypeOK, ChainOK, response,
        race, ends, history
  <2>4. StackOK'
    BY <1>4, <2>1, <2>2
    DEF LoopTests, At, Becomes, Returned, IInv, TypeOK, StackOK, HeadAt, Rest
  <2>5. ASSUME ~overtaken' PROVE TimeoutOK' /\ IndexOK' /\ AnswerOK' /\ TaskOK'
    <3>1. /\ ~overtaken /\ TypeOK /\ ChainOK
          /\ TimeoutOK /\ IndexOK /\ AnswerOK /\ TaskOK
      BY <1>4, <2>5 DEF LoopTests, IInv, history
    <3>2. Alone(t)
      BY <1>4, <2>2, <3>1, MovesAlone DEF LoopTests, At
    <3>3. TimeoutOK'
      <4>1. Passes(t)
        BY <1>4, <2>1, <2>2, <3>1, <3>2, HeadTimeout
        DEF LoopTests, At, Becomes, Returned, Passes, Rest
      <4>2. QED
        BY <1>4, <2>2, <3>1, <4>1, PassesTimeout
        DEF LoopTests, At, race, history
    <3>4. IndexOK'
      BY <1>4, <2>1, <2>2, <3>1, <3>2
      DEF LoopTests, At, Becomes, Returned, IndexOK, HeadAt, Alone, Rest,
          history
    <3>5. AnswerOK'
      BY <1>4, <2>1, <2>2, <3>1, <3>2
      DEF LoopTests, At, Becomes, Returned, AnswerOK, HeadAt, Alone, Rest,
          response
    <3>6. TaskOK'
      BY <1>4, <2>1, <2>2, <3>1, <3>2
      DEF LoopTests, At, Becomes, Returned, TaskOK, TaskAt, HeadAt, Alone,
          Rest, response, ends
    <3>7. QED
      BY <3>3, <3>4, <3>5, <3>6
  <2>6. QED
    BY <2>3, <2>4, <2>5 DEF IInv
<1>5. ASSUME NEW t \in Thread, LoopCalls(t)
      PROVE  IInv'
  <2>1. IF index < Len(chain) THEN Becomes(t, chain[index + 1], "enter") ELSE stack' = stack
    BY <1>5, Shapes DEF IInv
  <2>2. /\ index \in Nat /\ Len(chain) \in Nat /\ DOMAIN chain = 1..Len(chain)
        /\ index < Len(chain) => chain[index + 1] \in Kind /\ index + 1 \in 1..Len(chain)
    <3>1. index \in Nat
      BY <1>5 DEF LoopCalls, At, HeadAt, IInv, TypeOK, StackOK
    <3>2. chain \in Seq(Middleware)
      BY DEF IInv, TypeOK
    <3>3. Len(chain) \in Nat /\ DOMAIN chain = 1..Len(chain)
      BY <3>2, LenProperties
    <3>4. index < Len(chain) => chain[index + 1] \in Kind
      BY <3>1, <3>2, <3>3, KindAssumption
    <3>5. QED
      BY <3>1, <3>3, <3>4
  <2>3. /\ UNCHANGED <<chain, index, loaded, data, sent, responses, first, winner, timer>>
        /\ UNCHANGED <<closed, aborted, overtaken>>
    BY <1>5 DEF LoopCalls, response, race
  <2>4. entered \in [1..Len(chain) -> Nat]
    BY DEF IInv, TypeOK
  <2>5. index < Len(chain) =>
          /\ entered' \in [1..Len(chain) -> Nat]
          /\ entered'[index + 1] = entered[index + 1] + 1
          /\ \A i \in 1..Len(chain) : i # index + 1 => entered'[i] = entered[i]
    BY <1>5, <2>2, <2>4 DEF LoopCalls
  <2>6. ~(index < Len(chain)) => UNCHANGED <<stack, entered>>
    BY <1>5 DEF LoopCalls
  <2>7. stack[t] # <<>> /\ Head(stack[t]) \in Frame
    BY <1>5, HeadInFrame DEF LoopCalls, At, IInv
  <2>8. TypeOK' /\ ChainOK'
    <3>1. CASE ~(index < Len(chain))
      BY <1>5, <2>3, <2>6, <3>1 DEF LoopCalls, IInv, TypeOK, ChainOK, history
    <3>2. CASE index < Len(chain)
      BY <1>5, <2>1, <2>3, <2>5, <3>2
      DEF LoopCalls, Becomes, IInv, TypeOK, ChainOK
    <3>3. QED
      BY <3>1, <3>2
  <2>9. StackOK'
    BY <1>5, <2>1, <2>2, <2>7
    DEF LoopCalls, At, Becomes, Kind, IInv, TypeOK, StackOK, HeadAt
  <2>10. ASSUME ~overtaken' PROVE TimeoutOK' /\ IndexOK' /\ AnswerOK' /\ TaskOK'
    <3>1. /\ ~overtaken /\ TypeOK /\ ChainOK
          /\ TimeoutOK /\ IndexOK /\ AnswerOK /\ TaskOK
      BY <1>5, <2>10 DEF LoopCalls, IInv
    <3>2. Alone(t)
      BY <1>5, <2>7, <3>1, MovesAlone DEF LoopCalls, At
    <3>3. TimeoutOK'
      <4>1. CASE ~(index < Len(chain))
        BY <2>3, <2>6, <3>1, <4>1 DEF TimeoutOK, HeadAt, Timed
      <4>2. CASE index < Len(chain) /\ chain[index + 1] = "timeout"
        <5>1. ~Timed
          <6> SUFFICES ASSUME NEW i \in DOMAIN chain, chain[i] = "timeout", entered[i] > 0
                      PROVE   FALSE
            BY DEF Timed
          <6>1. i = index + 1
            BY <2>2, <3>1, <4>2 DEF ChainOK
          <6>2. HeadAt(t, {"test", "call"})
            BY <1>5 DEF LoopCalls, At, HeadAt
          <6>3. QED
            BY <2>2, <3>1, <6>1, <6>2 DEF IndexOK
        <5>2. Timed'
          BY <2>2, <2>3, <2>4, <2>5, <4>2 DEF Timed
        <5>3. /\ t = "task" /\ stack["spawned"] = <<>>
              /\ winner = <<>> /\ timer = "off"
          BY <2>7, <3>1, <5>1 DEF TimeoutOK
        <5>4. QED
          BY <2>1, <2>3, <4>2, <5>2, <5>3 DEF Becomes, TimeoutOK, HeadAt
      <4>3. CASE index < Len(chain) /\ chain[index + 1] # "timeout"
        <5>1. Timed => Timed'
          BY <2>2, <2>3, <2>4, <2>5, <4>3 DEF Timed
        <5>2. /\ NoTimeout(stack[t]) => NoTimeout(stack'[t])
              /\ \A u \in Thread \ {t} : stack'[u] = stack[u]
              /\ stack'[t] # <<>> /\ Head(stack'[t]).of # "timeout"
          BY <2>1, <4>3 DEF Becomes
        <5>3. ~HeadAt(t, {"wait"})
          BY <1>5 DEF LoopCalls, At, HeadAt
        <5>4. CASE t = "task"
          BY <2>3, <3>1, <3>2, <5>1, <5>2, <5>3, <5>4
          DEF TimeoutOK, HeadAt, Alone
        <5>5. CASE t = "spawned"
          BY <2>3, <2>7, <3>1, <3>2, <5>1, <5>2, <5>5
          DEF TimeoutOK, HeadAt, Alone
        <5>6. QED
          BY <5>4, <5>5
      <4>4. QED
        BY <4>1, <4>2, <4>3
    <3>4. IndexOK'
      <4>1. CASE ~(index < Len(chain))
        BY <2>3, <2>6, <3>1, <4>1 DEF IndexOK, HeadAt
      <4>2. CASE index < Len(chain)
        <5>1. HeadAt(t, {"test", "call"})
          BY <1>5 DEF LoopCalls, At, HeadAt
        <5>2. \A i \in DOMAIN chain : entered[i] > 0 => i <= index
          BY <3>1, <5>1 DEF IndexOK
        <5>3. \A i \in DOMAIN chain' :
                 entered'[i] <= 1 /\ (entered'[i] > 0 => i <= index' + 1)
          BY <2>2, <2>3, <2>4, <2>5, <3>1, <4>2, <5>2 DEF IndexOK
        <5>4. \A u \in Thread : ~HeadAt(u, {"store"})' /\ ~HeadAt(u, {"test", "call"})'
          BY <2>1, <3>2, <4>2 DEF Becomes, HeadAt, Alone
        <5>5. QED
          BY <2>3, <3>1, <5>3, <5>4 DEF IndexOK
      <4>3. QED
        BY <4>1, <4>2
    <3>5. AnswerOK'
      BY <1>5, <2>1, <2>2, <2>7, <3>1, <3>2, HeadTimeout
      DEF LoopCalls, At, Becomes, Kind, AnswerOK, HeadAt, Alone, response
    <3>6. TaskOK'
      <4>1. CASE ~(index < Len(chain))
        BY <2>3, <2>6, <3>1, <4>1 DEF TaskOK, TaskAt, HeadAt
      <4>2. CASE index < Len(chain)
        <5>1. ~TaskAt("enter")' /\ ~TaskAt("abort")'
          BY <2>1, <2>2, <3>2, <4>2 DEF Becomes, TaskAt, HeadAt, Alone, Kind
        <5>2. QED
          BY <2>3, <3>1, <5>1 DEF TaskOK
      <4>3. QED
        BY <4>1, <4>2
    <3>7. QED
      BY <3>3, <3>4, <3>5, <3>6
  <2>11. QED
    BY <2>8, <2>9, <2>10 DEF IInv
<1>6. ASSUME NEW t \in Thread, Returns(t)
      PROVE  IInv'
  <2>1. Returned(t)
    BY <1>6, Shapes DEF IInv
  <2>2. stack[t] # <<>> /\ Head(stack[t]) \in Frame
    BY <1>6, HeadInFrame DEF Returns, At, IInv
  <2>3. TypeOK' /\ ChainOK'
    BY <1>6, <2>1, <2>2
    DEF Returns, At, Returned, IInv, TypeOK, ChainOK, response, race, ends,
        history
  <2>4. StackOK'
    BY <1>6, <2>1, <2>2
    DEF Returns, At, Returned, IInv, TypeOK, StackOK, HeadAt, Rest
  <2>5. ASSUME ~overtaken' PROVE TimeoutOK' /\ IndexOK' /\ AnswerOK' /\ TaskOK'
    <3>1. /\ ~overtaken /\ TypeOK /\ ChainOK
          /\ TimeoutOK /\ IndexOK /\ AnswerOK /\ TaskOK
      BY <1>6, <2>5 DEF Returns, IInv, history
    <3>2. Alone(t)
      BY <1>6, <2>2, <3>1, MovesAlone DEF Returns, At
    <3>3. TimeoutOK'
      <4>1. Passes(t)
        BY <1>6, <2>1, <2>2, <3>1, <3>2, HeadTimeout
        DEF Returns, At, Returned, Passes, Rest
      <4>2. QED
        BY <1>6, <2>2, <3>1, <4>1, PassesTimeout DEF Returns, At, race, history
    <3>4. IndexOK'
      BY <1>6, <2>1, <2>2, <3>1, <3>2
      DEF Returns, At, Returned, IndexOK, HeadAt, Alone, Rest, history
    <3>5. AnswerOK'
      BY <1>6, <2>1, <2>2, <3>1, <3>2
      DEF Returns, At, Returned, AnswerOK, HeadAt, Alone, Rest, response
    <3>6. TaskOK'
      BY <1>6, <2>1, <2>2, <3>1, <3>2
      DEF Returns, At, Returned, TaskOK, TaskAt, HeadAt, Alone, Rest,
          response, ends
    <3>7. QED
      BY <3>3, <3>4, <3>5, <3>6
  <2>6. QED
    BY <2>3, <2>4, <2>5 DEF IInv
<1>7. ASSUME NEW t \in Thread, Answers(t)
      PROVE  IInv'
  <2>1. Becomes(t, Head(stack[t]).of, "prepare")
    BY <1>7, Shapes DEF IInv
  <2>2. stack[t] # <<>> /\ Head(stack[t]) \in Frame
    BY <1>7, HeadInFrame DEF Answers, At, IInv
  <2>3. TypeOK' /\ ChainOK'
    BY <1>7, <2>1, <2>2
    DEF Answers, At, Becomes, IInv, TypeOK, ChainOK, response, race, ends,
        history
  <2>4. StackOK'
    BY <1>7, <2>1, <2>2 DEF Answers, At, Becomes, IInv, TypeOK, StackOK, HeadAt
  <2>5. ASSUME ~overtaken' PROVE TimeoutOK' /\ IndexOK' /\ AnswerOK' /\ TaskOK'
    <3>1. /\ ~overtaken /\ TypeOK /\ ChainOK
          /\ TimeoutOK /\ IndexOK /\ AnswerOK /\ TaskOK
      BY <1>7, <2>5 DEF Answers, IInv, history
    <3>2. Alone(t)
      BY <1>7, <2>2, <3>1, MovesAlone DEF Answers, At
    <3>3. TimeoutOK'
      <4>1. Passes(t)
        BY <1>7, <2>1, <2>2, <3>1, <3>2, HeadTimeout
        DEF Answers, At, Becomes, Passes
      <4>2. QED
        BY <1>7, <2>2, <3>1, <4>1, PassesTimeout DEF Answers, At, race, history
    <3>4. IndexOK'
      BY <1>7, <2>1, <2>2, <3>1, <3>2
      DEF Answers, At, Becomes, IndexOK, HeadAt, Alone, history
    <3>5. AnswerOK'
      BY <1>7, <2>1, <2>2, <3>1, <3>2
      DEF Answers, At, Becomes, AnswerOK, HeadAt, Alone, response
    <3>6. TaskOK'
      BY <1>7, <2>1, <2>2, <3>1, <3>2
      DEF Answers, At, Becomes, TaskOK, TaskAt, HeadAt, Alone, response, ends
    <3>7. QED
      BY <3>3, <3>4, <3>5, <3>6
  <2>6. QED
    BY <2>3, <2>4, <2>5 DEF IInv
<1>8. ASSUME NEW t \in Thread, Throws(t)
      PROVE  IInv'
  <2>1. stack' = stack \/ Becomes(t, "recovery", "prepare")
    BY <1>8, Shapes DEF IInv
  <2>2. stack[t] # <<>> /\ Head(stack[t]) \in Frame
    BY <1>8, HeadInFrame DEF Throws, At, IInv
  <2>3. TypeOK' /\ ChainOK'
    BY <1>8, <2>1, <2>2
    DEF Throws, At, Becomes, IInv, TypeOK, ChainOK, response, race, history
  <2>4. StackOK'
    BY <1>8, <2>1, <2>2 DEF Throws, At, Becomes, IInv, TypeOK, StackOK, HeadAt
  <2>5. ASSUME ~overtaken' PROVE TimeoutOK' /\ IndexOK' /\ AnswerOK' /\ TaskOK'
    <3>1. /\ ~overtaken /\ TypeOK /\ ChainOK
          /\ TimeoutOK /\ IndexOK /\ AnswerOK /\ TaskOK
      BY <1>8, <2>5 DEF Throws, IInv, history
    <3>2. Alone(t)
      BY <1>8, <2>2, <3>1, MovesAlone DEF Throws, At
    <3>3. TimeoutOK'
      <4>1. Passes(t)
        BY <1>8, <2>1, <2>2, <3>1, <3>2, HeadTimeout
        DEF Throws, At, Becomes, Passes
      <4>2. QED
        BY <1>8, <2>2, <3>1, <4>1, PassesTimeout DEF Throws, At, race, history
    <3>4. IndexOK'
      BY <1>8, <2>1, <2>2, <3>1, <3>2
      DEF Throws, At, Becomes, IndexOK, HeadAt, Alone, history
    <3>5. AnswerOK'
      BY <1>8, <2>1, <2>2, <3>1, <3>2
      DEF Throws, At, Becomes, AnswerOK, HeadAt, Alone, response
    <3>6. TaskOK'
      BY <1>8, <2>1, <2>2, <3>1, <3>2
      DEF Throws, At, Becomes, TaskOK, TaskAt, HeadAt, Alone, response
    <3>7. QED
      BY <3>3, <3>4, <3>5, <3>6
  <2>6. QED
    BY <2>3, <2>4, <2>5 DEF IInv
<1>9. ASSUME NEW t \in Thread, Prepares(t)
      PROVE  IInv'
  <2>1. Becomes(t, Head(stack[t]).of, "send")
    BY <1>9, Shapes DEF IInv
  <2>2. stack[t] # <<>> /\ Head(stack[t]) \in Frame
    BY <1>9, HeadInFrame DEF Prepares, At, IInv
  <2>3. TypeOK' /\ ChainOK'
    BY <1>9, <2>1, <2>2
    DEF Prepares, At, Becomes, Kind, IInv, TypeOK, ChainOK, Frame, Author,
        race, ends, history
  <2>4. StackOK'
    BY <1>9, <2>1, <2>2
    DEF Prepares, At, Becomes, Kind, IInv, TypeOK, StackOK, HeadAt
  <2>5. ASSUME ~overtaken' PROVE TimeoutOK' /\ IndexOK' /\ AnswerOK' /\ TaskOK'
    <3>1. /\ ~overtaken /\ TypeOK /\ ChainOK
          /\ TimeoutOK /\ IndexOK /\ AnswerOK /\ TaskOK
      BY <1>9, <2>5 DEF Prepares, IInv, history
    <3>2. Alone(t)
      BY <1>9, <2>2, <3>1, MovesAlone DEF Prepares, At
    <3>3. TimeoutOK'
      <4>1. Passes(t)
        BY <1>9, <2>1, <2>2, <3>1, <3>2, HeadTimeout
        DEF Prepares, At, Becomes, Kind, Passes
      <4>2. QED
        BY <1>9, <2>2, <3>1, <4>1, PassesTimeout DEF Prepares, At, race, history
    <3>4. IndexOK'
      BY <1>9, <2>1, <2>2, <3>1, <3>2
      DEF Prepares, At, Becomes, Kind, IndexOK, HeadAt, Alone, history
    <3>5. AnswerOK'
      BY <1>9, <2>1, <2>2, <3>1, <3>2
      DEF Prepares, At, Becomes, Kind, AnswerOK, HeadAt, Alone
    <3>6. TaskOK'
      BY <1>9, <2>1, <2>2, <3>1, <3>2
      DEF Prepares, At, Becomes, Kind, TaskOK, TaskAt, HeadAt, Alone, ends
    <3>7. QED
      BY <3>3, <3>4, <3>5, <3>6
  <2>6. QED
    BY <2>3, <2>4, <2>5 DEF IInv
<1>10. ASSUME NEW t \in Thread, SendTests(t)
      PROVE  IInv'
  <2>1. LET of == Head(stack[t]).of IN Becomes(t, of, IF sent THEN AfterSend(of) ELSE "write")
    BY <1>10, Shapes DEF IInv
  <2>2. /\ Append(responses, data) \in Seq(Author)
        /\ responses = <<>> => Append(responses, data) = <<data>>
    <3>1. responses \in Seq(Author) /\ data \in Author
      BY DEF IInv, TypeOK
    <3>2. Append(responses, data) \in Seq(Author)
      BY <3>1, AppendProperties
    <3>3. Append(<<>>, data) = <<data>>
      OBVIOUS
    <3>4. QED
      BY <3>2, <3>3
  <2>3. stack[t] # <<>> /\ Head(stack[t]) \in Frame
    BY <1>10, HeadInFrame DEF SendTests, At, IInv
  <2>4. TypeOK' /\ ChainOK'
    BY <1>10, <2>1, <2>2, <2>3
    DEF SendTests, At, Becomes, AfterSend, IInv, TypeOK, ChainOK, race, ends,
        history
  <2>5. StackOK'
    BY <1>10, <2>1, <2>2, <2>3
    DEF SendTests, At, Becomes, AfterSend, IInv, TypeOK, StackOK, HeadAt
  <2>6. ASSUME ~overtaken' PROVE TimeoutOK' /\ IndexOK' /\ AnswerOK' /\ TaskOK'
    <3>1. /\ ~overtaken /\ TypeOK /\ ChainOK
          /\ TimeoutOK /\ IndexOK /\ AnswerOK /\ TaskOK
      BY <1>10, <2>6 DEF SendTests, IInv, history
    <3>2. Alone(t)
      BY <1>10, <2>3, <3>1, MovesAlone DEF SendTests, At
    <3>3. TimeoutOK'
      <4>1. Passes(t)
        BY <1>10, <2>1, <2>2, <2>3, <3>1, <3>2, HeadTimeout
        DEF SendTests, At, Becomes, AfterSend, Passes
      <4>2. QED
        BY <1>10, <2>3, <3>1, <4>1, PassesTimeout
        DEF SendTests, At, race, history
    <3>4. IndexOK'
      BY <1>10, <2>1, <2>2, <2>3, <3>1, <3>2
      DEF SendTests, At, Becomes, AfterSend, IndexOK, HeadAt, Alone, history
    <3>5. AnswerOK'
      BY <1>10, <2>1, <2>2, <2>3, <3>1, <3>2
      DEF SendTests, At, Becomes, AfterSend, AnswerOK, HeadAt, Alone
    <3>6. TaskOK'
      BY <1>10, <2>1, <2>2, <2>3, <3>1, <3>2
      DEF SendTests, At, Becomes, AfterSend, TaskOK, TaskAt, HeadAt, Alone,
          ends
    <3>7. QED
      BY <3>3, <3>4, <3>5, <3>6
  <2>7. QED
    BY <2>4, <2>5, <2>6 DEF IInv
<1>11. ASSUME NEW t \in Thread, SendDone(t)
      PROVE  IInv'
  <2>1. Becomes(t, Head(stack[t]).of, AfterSend(Head(stack[t]).of))
    BY <1>11, Shapes DEF IInv
  <2>2. stack[t] # <<>> /\ Head(stack[t]) \in Frame
    BY <1>11, HeadInFrame DEF SendDone, At, IInv
  <2>3. TypeOK' /\ ChainOK'
    BY <1>11, <2>1, <2>2
    DEF SendDone, At, Becomes, AfterSend, IInv, TypeOK, ChainOK, race, ends,
        history
  <2>4. StackOK'
    BY <1>11, <2>1, <2>2
    DEF SendDone, At, Becomes, AfterSend, IInv, TypeOK, StackOK, HeadAt
  <2>5. ASSUME ~overtaken' PROVE TimeoutOK' /\ IndexOK' /\ AnswerOK' /\ TaskOK'
    <3>1. /\ ~overtaken /\ TypeOK /\ ChainOK
          /\ TimeoutOK /\ IndexOK /\ AnswerOK /\ TaskOK
      BY <1>11, <2>5 DEF SendDone, IInv, history
    <3>2. Alone(t)
      BY <1>11, <2>2, <3>1, MovesAlone DEF SendDone, At
    <3>3. TimeoutOK'
      <4>1. Passes(t)
        BY <1>11, <2>1, <2>2, <3>1, <3>2, HeadTimeout
        DEF SendDone, At, Becomes, AfterSend, Passes
      <4>2. QED
        BY <1>11, <2>2, <3>1, <4>1, PassesTimeout
        DEF SendDone, At, race, history
    <3>4. IndexOK'
      BY <1>11, <2>1, <2>2, <3>1, <3>2
      DEF SendDone, At, Becomes, AfterSend, IndexOK, HeadAt, Alone, history
    <3>5. AnswerOK'
      BY <1>11, <2>1, <2>2, <3>1, <3>2
      DEF SendDone, At, Becomes, AfterSend, AnswerOK, HeadAt, Alone
    <3>6. TaskOK'
      BY <1>11, <2>1, <2>2, <3>1, <3>2
      DEF SendDone, At, Becomes, AfterSend, TaskOK, TaskAt, HeadAt, Alone,
          ends
    <3>7. QED
      BY <3>3, <3>4, <3>5, <3>6
  <2>6. QED
    BY <2>3, <2>4, <2>5 DEF IInv
<1>12. ASSUME NEW t \in Thread, Aborts(t)
      PROVE  IInv'
  <2>1. Becomes(t, Head(stack[t]).of, "after")
    BY <1>12, Shapes DEF IInv
  <2>2. Len(chain) \in Nat /\ DOMAIN chain = 1..Len(chain)
    BY LenProperties DEF IInv, TypeOK
  <2>3. stack[t] # <<>> /\ Head(stack[t]) \in Frame
    BY <1>12, HeadInFrame DEF Aborts, At, IInv
  <2>4. TypeOK' /\ ChainOK'
    BY <1>12, <2>1, <2>2, <2>3
    DEF Aborts, At, Becomes, AbortIndex, IInv, TypeOK, ChainOK, response,
        race, ends
  <2>5. StackOK'
    BY <1>12, <2>1, <2>2, <2>3
    DEF Aborts, At, Becomes, AbortIndex, IInv, TypeOK, StackOK, HeadAt
  <2>6. ASSUME ~overtaken' PROVE TimeoutOK' /\ IndexOK' /\ AnswerOK' /\ TaskOK'
    <3>1. /\ ~overtaken /\ TypeOK /\ ChainOK
          /\ TimeoutOK /\ IndexOK /\ AnswerOK /\ TaskOK
      BY <1>12, <2>6 DEF Aborts, IInv
    <3>2. Alone(t)
      BY <1>12, <2>3, <3>1, MovesAlone DEF Aborts, At
    <3>3. TimeoutOK'
      <4>1. Passes(t)
        BY <1>12, <2>1, <2>2, <2>3, <3>1, <3>2, HeadTimeout
        DEF Aborts, At, Becomes, AbortIndex, Passes
      <4>2. QED
        BY <1>12, <2>3, <3>1, <4>1, PassesTimeout DEF Aborts, At, race
    <3>4. IndexOK'
      BY <1>12, <2>1, <2>2, <2>3, <3>1, <3>2
      DEF Aborts, At, Becomes, AbortIndex, IndexOK, HeadAt, Alone
    <3>5. AnswerOK'
      BY <1>12, <2>1, <2>2, <2>3, <3>1, <3>2
      DEF Aborts, At, Becomes, AbortIndex, AnswerOK, HeadAt, Alone, response
    <3>6. TaskOK'
      BY <1>12, <2>1, <2>2, <2>3, <3>1, <3>2
      DEF Aborts, At, Becomes, AbortIndex, TaskOK, TaskAt, HeadAt, Alone,
          response, ends
    <3>7. QED
      BY <3>3, <3>4, <3>5, <3>6
  <2>7. QED
    BY <2>4, <2>5, <2>6 DEF IInv
<1>13. ASSUME NEW t \in Thread, Spawns(t)
      PROVE  IInv'
  <2>1. Spawned(t)
    BY <1>13, Shapes DEF IInv
  <2>2. /\ Head(<<Call("spawned")>>) = Call("spawned") /\ <<Call("spawned")>> # <<>>
        /\ Call("spawned").of = "spawned" /\ Call("spawned").at = "enter"
    BY DEF Call
  <2>3. stack[t] # <<>> /\ Head(stack[t]) \in Frame
    BY <1>13, HeadInFrame DEF Spawns, At, IInv
  <2>4. TypeOK' /\ ChainOK'
    BY <1>13, <2>1, <2>2, <2>3
    DEF Spawns, At, Spawned, IInv, TypeOK, ChainOK, response, ends, history
  <2>5. StackOK'
    BY <1>13, <2>1, <2>2, <2>3
    DEF Spawns, At, Spawned, IInv, TypeOK, StackOK, HeadAt
  <2>6. ASSUME ~overtaken' PROVE TimeoutOK' /\ IndexOK' /\ AnswerOK' /\ TaskOK'
    <3>1. /\ ~overtaken /\ TypeOK /\ ChainOK
          /\ TimeoutOK /\ IndexOK /\ AnswerOK /\ TaskOK
      BY <1>13, <2>6 DEF Spawns, IInv, history
    <3>2. Alone(t)
      BY <1>13, <2>3, <3>1, MovesAlone DEF Spawns, At
    <3>3. TimeoutOK'
      BY <1>13, <2>1, <2>2, <2>3, <3>1, <3>2, HeadTimeout
      DEF Spawns, At, Spawned, TimeoutOK, HeadAt, Alone, Timed, history
    <3>4. IndexOK'
      BY <1>13, <2>1, <2>2, <2>3, <3>1, <3>2, HeadTimeout
      DEF Spawns, At, Spawned, IndexOK, HeadAt, Alone, history
    <3>5. AnswerOK'
      BY <1>13, <2>1, <2>2, <2>3, <3>1, <3>2, HeadTimeout
      DEF Spawns, At, Spawned, AnswerOK, HeadAt, Alone, response
    <3>6. TaskOK'
      BY <1>13, <2>1, <2>2, <2>3, <3>1, <3>2, HeadTimeout
      DEF Spawns, At, Spawned, TaskOK, TaskAt, HeadAt, Alone, response, ends
    <3>7. QED
      BY <3>3, <3>4, <3>5, <3>6
  <2>7. QED
    BY <2>4, <2>5, <2>6 DEF IInv
<1>14. ASSUME NEW t \in Thread, Decides(t)
      PROVE  IInv'
  <2>1. Becomes(t, "timeout", "after") \/ Becomes(t, "timeout", "prepare")
    BY <1>14, Shapes DEF IInv
  <2>2. Head(winner) \in {1, 2} /\ Tail(winner) \in Seq({1, 2})
    BY <1>14, HeadTailProperties DEF Decides, IInv, TypeOK
  <2>3. stack[t] # <<>> /\ Head(stack[t]) \in Frame
    BY <1>14, HeadInFrame DEF Decides, At, IInv
  <2>4. TypeOK' /\ ChainOK'
    BY <1>14, <2>1, <2>2, <2>3
    DEF Decides, At, Becomes, IInv, TypeOK, ChainOK, response, ends
  <2>5. StackOK'
    BY <1>14, <2>1, <2>2, <2>3
    DEF Decides, At, Becomes, IInv, TypeOK, StackOK, HeadAt
  <2>6. ASSUME ~overtaken' PROVE TimeoutOK' /\ IndexOK' /\ AnswerOK' /\ TaskOK'
    <3>1. /\ ~overtaken /\ TypeOK /\ ChainOK
          /\ TimeoutOK /\ IndexOK /\ AnswerOK /\ TaskOK
      BY <1>14, <2>6 DEF Decides, IInv
    <3>3. TimeoutOK'
      <4>1. t = "task" /\ winner' = <<>>
        BY <1>14, <2>3, <3>1, HeadTimeout DEF Decides, At, TimeoutOK
      <4>2. Head(winner) = 1 /\ stack["spawned"] = <<>> /\ Timed
        <5>1. winner # <<>> /\ Head(winner) # 2
          BY <1>14, <2>6, Zenon DEF Decides
        <5>2. QED
          BY <2>2, <3>1, <5>1 DEF TimeoutOK
      <4>3. Timed'
        BY <1>14, <4>2 DEF Decides, Timed
      <4>4. QED
        BY <2>1, <4>1, <4>2, <4>3 DEF Becomes, TimeoutOK, HeadAt
    <3>4. IndexOK'
      BY <1>14, <2>1, <2>2, <2>3, <3>1, HeadTimeout
      DEF Decides, At, Becomes, IndexOK, HeadAt
    <3>5. AnswerOK'
      BY <1>14, <2>1, <2>2, <2>3, <3>1, HeadTimeout
      DEF Decides, At, Becomes, AnswerOK, HeadAt, response
    <3>6. TaskOK'
      BY <1>14, <2>1, <2>2, <2>3, <3>1, HeadTimeout
      DEF Decides, At, Becomes, TaskOK, TaskAt, HeadAt, response, ends
    <3>7. QED
      BY <3>3, <3>4, <3>5, <3>6
  <2>7. QED
    BY <2>4, <2>5, <2>6 DEF IInv
<1>15. ASSUME Rejects
      PROVE  IInv'
  <2>1. Becomes("task", "task", "abort")
    BY <1>15, Shapes DEF IInv
  <2>2. stack["task"] # <<>> /\ Head(stack["task"]) \in Frame
    BY <1>15, HeadInFrame DEF Rejects, At, IInv
  <2>3. TypeOK' /\ ChainOK'
    BY <1>15, <2>1, <2>2
    DEF Rejects, At, Becomes, IInv, TypeOK, ChainOK, response, race, ends,
        history
  <2>4. StackOK'
    BY <1>15, <2>1, <2>2 DEF Rejects, At, Becomes, IInv, TypeOK, StackOK, HeadAt
  <2>5. ASSUME ~overtaken' PROVE TimeoutOK' /\ IndexOK' /\ AnswerOK' /\ TaskOK'
    <3>1. /\ ~overtaken /\ TypeOK /\ ChainOK
          /\ TimeoutOK /\ IndexOK /\ AnswerOK /\ TaskOK
      BY <1>15, <2>5 DEF Rejects, IInv, history
    <3>2. Alone("task")
      BY <1>15, <2>2, <3>1, MovesAlone DEF Rejects, At
    <3>3. TimeoutOK'
      <4>1. Passes("task")
        BY <1>15, <2>1, <2>2, <3>1, <3>2, HeadTimeout
        DEF Rejects, At, Becomes, Passes
      <4>2. QED
        BY <1>15, <2>2, <3>1, <4>1, PassesTimeout DEF Rejects, At, race, history
    <3>4. IndexOK'
      BY <1>15, <2>1, <2>2, <3>1, <3>2
      DEF Rejects, At, Becomes, IndexOK, HeadAt, Alone, history
    <3>5. AnswerOK'
      BY <1>15, <2>1, <2>2, <3>1, <3>2
      DEF Rejects, At, Becomes, AnswerOK, HeadAt, Alone, response
    <3>6. TaskOK'
      BY <1>15, <2>1, <2>2, <3>1, <3>2
      DEF Rejects, At, Becomes, TaskOK, TaskAt, HeadAt, Alone, response, ends
    <3>7. QED
      BY <3>3, <3>4, <3>5, <3>6
  <2>6. QED
    BY <2>3, <2>4, <2>5 DEF IInv
<1>16. ASSUME Defaults
      PROVE  IInv'
  <2>1. Becomes("task", "task", IF sent THEN "abort" ELSE "prepare")
    BY <1>16, Shapes DEF IInv
  <2>2. stack["task"] # <<>> /\ Head(stack["task"]) \in Frame
    BY <1>16, HeadInFrame DEF Defaults, At, IInv
  <2>3. TypeOK' /\ ChainOK'
    BY <1>16, <2>1, <2>2
    DEF Defaults, At, Becomes, IInv, TypeOK, ChainOK, response, race, ends,
        history
  <2>4. StackOK'
    BY <1>16, <2>1, <2>2
    DEF Defaults, At, Becomes, IInv, TypeOK, StackOK, HeadAt
  <2>5. ASSUME ~overtaken' PROVE TimeoutOK' /\ IndexOK' /\ AnswerOK' /\ TaskOK'
    <3>1. /\ ~overtaken /\ TypeOK /\ ChainOK
          /\ TimeoutOK /\ IndexOK /\ AnswerOK /\ TaskOK
      BY <1>16, <2>5 DEF Defaults, IInv, history
    <3>2. Alone("task")
      BY <1>16, <2>2, <3>1, MovesAlone DEF Defaults, At
    <3>3. TimeoutOK'
      <4>1. Passes("task")
        BY <1>16, <2>1, <2>2, <3>1, <3>2, HeadTimeout
        DEF Defaults, At, Becomes, Passes
      <4>2. QED
        BY <1>16, <2>2, <3>1, <4>1, PassesTimeout
        DEF Defaults, At, race, history
    <3>4. IndexOK'
      BY <1>16, <2>1, <2>2, <3>1, <3>2
      DEF Defaults, At, Becomes, IndexOK, HeadAt, Alone, history
    <3>5. AnswerOK'
      BY <1>16, <2>1, <2>2, <3>1, <3>2
      DEF Defaults, At, Becomes, AnswerOK, HeadAt, Alone, response
    <3>6. TaskOK'
      BY <1>16, <2>1, <2>2, <3>1, <3>2
      DEF Defaults, At, Becomes, TaskOK, TaskAt, HeadAt, Alone, response, ends
    <3>7. QED
      BY <3>3, <3>4, <3>5, <3>6
  <2>6. QED
    BY <2>3, <2>4, <2>5 DEF IInv
<1>17. ASSUME Closes
      PROVE  IInv'
  <2>1. Returned("task")
    BY <1>17, Shapes DEF IInv
  <2>2. stack["task"] # <<>> /\ Head(stack["task"]) \in Frame
    BY <1>17, HeadInFrame DEF Closes, At, IInv
  <2>3. TypeOK' /\ ChainOK'
    BY <1>17, <2>1, <2>2
    DEF Closes, At, Returned, IInv, TypeOK, ChainOK, response, race, history
  <2>4. StackOK'
    BY <1>17, <2>1, <2>2
    DEF Closes, At, Returned, IInv, TypeOK, StackOK, HeadAt, Rest
  <2>5. ASSUME ~overtaken' PROVE TimeoutOK' /\ IndexOK' /\ AnswerOK' /\ TaskOK'
    <3>1. /\ ~overtaken /\ TypeOK /\ ChainOK
          /\ TimeoutOK /\ IndexOK /\ AnswerOK /\ TaskOK
      BY <1>17, <2>5 DEF Closes, IInv, history
    <3>2. Alone("task")
      BY <1>17, <2>2, <3>1, MovesAlone DEF Closes, At
    <3>3. TimeoutOK'
      <4>1. Passes("task")
        BY <1>17, <2>1, <2>2, <3>1, <3>2, HeadTimeout
        DEF Closes, At, Returned, Passes, Rest
      <4>2. QED
        BY <1>17, <2>2, <3>1, <4>1, PassesTimeout DEF Closes, At, race, history
    <3>4. IndexOK'
      BY <1>17, <2>1, <2>2, <3>1, <3>2
      DEF Closes, At, Returned, IndexOK, HeadAt, Alone, Rest, history
    <3>5. AnswerOK'
      BY <1>17, <2>1, <2>2, <3>1, <3>2
      DEF Closes, At, Returned, AnswerOK, HeadAt, Alone, Rest, response
    <3>6. TaskOK'
      BY <1>17, <2>1, <2>2, <3>1, <3>2
      DEF Closes, At, Returned, TaskOK, TaskAt, HeadAt, Alone, Rest, response
    <3>7. QED
      BY <3>3, <3>4, <3>5, <3>6
  <2>6. QED
    BY <2>3, <2>4, <2>5 DEF IInv
<1>18. ASSUME SpawnedDone
      PROVE  IInv'
  <2>1. Returned("spawned") /\ stack'["spawned"] = <<>>
    <3>1. TypeOK /\ StackOK
      BY DEF IInv
    <3>2. QED
      BY <1>18, <3>1, Shapes
  <2>2. stack["spawned"] # <<>> /\ Head(stack["spawned"]) \in Frame
    <3>1. TypeOK /\ stack["spawned"] # <<>> /\ "spawned" \in Thread
      BY <1>18 DEF SpawnedDone, IInv, Thread
    <3>2. QED
      BY <3>1, HeadInFrame
  <2>3. TypeOK' /\ ChainOK'
    BY <1>18, <2>1, <2>2
    DEF SpawnedDone, Returned, IInv, TypeOK, ChainOK, response, ends, history
  <2>4. StackOK'
    BY <1>18, <2>1, <2>2
    DEF SpawnedDone, Returned, IInv, TypeOK, StackOK, HeadAt, Rest
  <2>5. ASSUME ~overtaken' PROVE TimeoutOK' /\ IndexOK' /\ AnswerOK' /\ TaskOK'
    <3>1. /\ ~overtaken /\ TypeOK /\ ChainOK
          /\ TimeoutOK /\ IndexOK /\ AnswerOK /\ TaskOK
      BY <1>18, <2>5 DEF SpawnedDone, IInv, history
    <3>2. Alone("spawned")
      BY <1>18, <2>2, <3>1, MovesAlone DEF SpawnedDone
    <3>3. TimeoutOK'
      BY <1>18, <2>1, <2>2, <3>1, <3>2
      DEF SpawnedDone, Returned, TimeoutOK, HeadAt, Alone, Timed, Rest,
          history
    <3>4. IndexOK'
      BY <1>18, <2>1, <2>2, <3>1, <3>2
      DEF SpawnedDone, Returned, IndexOK, HeadAt, Alone, Rest, history
    <3>5. AnswerOK'
      BY <1>18, <2>1, <2>2, <3>1, <3>2
      DEF SpawnedDone, Returned, AnswerOK, HeadAt, Alone, Rest, response
    <3>6. TaskOK'
      BY <1>18, <2>1, <2>2, <3>1, <3>2
      DEF SpawnedDone, Returned, TaskOK, TaskAt, HeadAt, Alone, Rest,
          response, ends
    <3>7. QED
      BY <3>3, <3>4, <3>5, <3>6
  <2>6. QED
    BY <2>3, <2>4, <2>5 DEF IInv
<1>19. ASSUME TimerFires
      PROVE  IInv'
  <2>1. stack' = stack
    BY <1>19, Shapes DEF IInv
  <2>2. <<2>> \in Seq({1, 2}) /\ Len(<<2>>) = 1 /\ Head(<<2>>) = 2
    OBVIOUS
  <2>3. TypeOK' /\ ChainOK'
    <3>1. winner' \in Seq({1, 2}) /\ Len(winner') <= 1
      <4>1. winner \in Seq({1, 2}) /\ Len(winner) <= 1
        BY DEF IInv, TypeOK
      <4>2. winner' = winner \/ winner' = <<2>>
        BY <1>19 DEF TimerFires
      <4>3. CASE winner' = <<2>>
        <5>1. winner' \in Seq({1, 2}) /\ Len(winner') = 1
          BY <2>2, <4>3, Zenon
        <5>2. QED
          BY <5>1
      <4>4. QED
        BY <4>1, <4>2, <4>3
    <3>2. QED
      BY <1>19, <3>1 DEF TimerFires, IInv, TypeOK, ChainOK, response, history
  <2>4. StackOK'
    BY <1>19, <2>1, <2>2 DEF TimerFires, IInv, TypeOK, StackOK, HeadAt
  <2>5. ASSUME ~overtaken' PROVE TimeoutOK' /\ IndexOK' /\ AnswerOK' /\ TaskOK'
    <3>1. /\ ~overtaken /\ TypeOK /\ ChainOK
          /\ TimeoutOK /\ IndexOK /\ AnswerOK /\ TaskOK
      BY <1>19, <2>5 DEF TimerFires, IInv, history
    <3>3. TimeoutOK'
      BY <1>19, <2>1, <2>2, <3>1
      DEF TimerFires, TimeoutOK, HeadAt, Timed, history
    <3>4. IndexOK'
      BY <1>19, <2>1, <2>2, <3>1 DEF TimerFires, IndexOK, HeadAt, history
    <3>5. AnswerOK'
      BY <1>19, <2>1, <2>2, <3>1 DEF TimerFires, AnswerOK, HeadAt, response
    <3>6. TaskOK'
      BY <1>19, <2>1, <2>2, <3>1
      DEF TimerFires, TaskOK, TaskAt, HeadAt, response
    <3>7. QED
      BY <3>3, <3>4, <3>5, <3>6
  <2>6. QED
    BY <2>3, <2>4, <2>5 DEF IInv
<1>20. CASE UNCHANGED vars
  BY <1>20
  DEF vars, response, race, ends, history, IInv, TypeOK, ChainOK, StackOK,
      TimeoutOK,
     IndexOK, AnswerOK, TaskOK, HeadAt, TaskAt, Timed
<1>21. QED
  BY <1>1, <1>2, <1>3, <1>4, <1>5, <1>6, <1>7, <1>8, <1>9, <1>10, <1>11, <1>12,
     <1>13, <1>14, <1>15, <1>16, <1>17, <1>18, <1>19, <1>20 DEF Next, Task, Step


-----------------------------------------------------------------------------
(***************************************************************************)
(* Theorems.                                                               *)
(***************************************************************************)

\* The type invariant, for chains of any length.
THEOREM TypeCorrect == Spec => []TypeOK
<1>1. IInv => TypeOK
  BY DEF IInv
<1>2. QED
  BY Initially, Invariance, <1>1, PTL DEF Spec

\* However the calls of Next() are nested or moved to the other goroutine, no
\* handler is entered twice before the timeout strikes.
THEOREM HandlersOnce == Spec => []EachHandlerOnce
<1>1. IInv => EachHandlerOnce
  <2>1. ASSUME IInv PROVE DOMAIN entered = DOMAIN chain
    BY <2>1, LenProperties DEF IInv, TypeOK
  <2>2. QED
    BY <2>1 DEF IInv, IndexOK, EachHandlerOnce
<1>2. QED
  BY Initially, Invariance, <1>1, PTL DEF Spec

\* After Abort() no handler is entered before the timeout strikes: index_ stays
\* at the end of the chain or behind it.
THEOREM AbortHolds == Spec => AbortStopsChain
<1>1. IInv /\ [Next]_vars => [aborted /\ ~overtaken => entered' = entered]_vars
  <2> SUFFICES ASSUME IInv, [Next]_vars, aborted, ~overtaken
              PROVE   entered' = entered
    OBVIOUS
  <2>1. index >= Len(chain)
    BY DEF IInv, IndexOK
  <2>2. ASSUME NEW t \in Thread, LoopCalls(t) PROVE entered' = entered
    <3>1. index \in Nat
      BY <2>2 DEF LoopCalls, At, HeadAt, IInv, TypeOK, StackOK
    <3>2. Len(chain) \in Nat
      BY LenProperties DEF IInv, TypeOK
    <3>3. QED
      BY <2>1, <2>2, <3>1, <3>2 DEF LoopCalls
  <2>3. ASSUME NEW t \in Thread, Step(t) PROVE entered' = entered
    BY <2>2, <2>3
    DEF Step, Next_, Loads, Stores, LoopTests, Returns, Answers, Throws, Prepares,
        SendTests, SendDone, Aborts, Spawns, Decides, history
  <2>4. CASE UNCHANGED vars
    BY <2>4 DEF vars, history
  <2>5. QED
    BY <2>3, <2>4
    DEF Next, Task, Thread, Rejects, Defaults, Closes, SpawnedDone, TimerFires, history
<1>2. QED
  BY Initially, Invariance, <1>1, PTL DEF Spec, AbortStopsChain

\* A request that entered the chain is answered once, with the data set first,
\* before the timeout strikes.
THEOREM AnswerOnce == Spec => []AnsweredOnce
<1>1. IInv => AnsweredOnce
  BY DEF IInv, TypeOK, AnswerOK, TaskOK, AnsweredOnce
<1>2. QED
  BY Initially, Invariance, <1>1, PTL DEF Spec

-----------------------------------------------------------------------------
(* The tries.                                                              *)
\* A route as parse_pattern leaves it.
IsRoute(n) ==
  /\ IsPath(n)
  /\ \A i \in DOMAIN n : n[i].kind # "empty" /\ (n[i].kind = "wild" => i = Len(n))

\* The first j elements.
Upto(s, j) == SubSeq(s, 1, j)

\* The last part is of another kind.
IsNot(n, kind) == n = <<>> \/ n[Len(n)].kind # kind

\* A trie without nodes, or with a root: with each node it has those on the way
\* to it, each a child of the one before it, and a pattern where a wildcard ends.
Grown(K, P) ==
  /\ DOMAIN P = DOMAIN K
  /\ \A n \in DOMAIN K :
       /\ IsRoute(n) /\ IsPath(P[n]) /\ IsPath(K[n])
       /\ \A i \in DOMAIN K[n] : Append(n, K[n][i]) \in DOMAIN K
       /\ IsNot(n, "wild") \/ P[n] # NoPath
       /\ \A j \in 0..Len(n) : Upto(n, j) \in DOMAIN K
       /\ \A j \in 1..Len(n) : \E i \in DOMAIN K[Upto(n, j - 1)] :
            K[Upto(n, j - 1)][i] = n[j]

Trie(K, P) == Grown(K, P) /\ <<>> \in DOMAIN K

\* The trie of a method holds what was registered, the last path of each node.
Holds(m) ==
  \A n \in DOMAIN pattern[m] :
    pattern[m][n] = IF Registered(m, n) = {} THEN NoPath ELSE LastPath(m, n)

\* What GET() and POST() put down: a method and a path, group prefix included.
Registration == Method \X Seq(Segment)

\* Each registration has its node in the trie of its method.
RoutesOK ==
  /\ routes \in Seq(Registration)
  /\ \A i \in DOMAIN routes :
       /\ routes[i][1] \in DOMAIN children
       /\ parse_pattern(routes[i][2]) \in DOMAIN children[routes[i][1]]

\* A method that has a node at all has a trie, and the right patterns in it.
TriesOK ==
  /\ DOMAIN children = DOMAIN pattern /\ DOMAIN children \subseteq Method
  /\ \A m \in DOMAIN children : Trie(children[m], pattern[m]) /\ Holds(m)

\* A handler, or a middleware.
Link == Added \cup {"recovery"} \cup {Handler(i) : i \in Nat}

\* A chain, or the middlewares of a group: Recovery is in front.
Protected(s) == s \in Seq(Link) /\ s # <<>> /\ s[1] = "recovery"

\* A group as gee.h keeps it.
RouteGroup == [prefix : Seq(Segment), middlewares : Seq(Link)]

\* No group is without Recovery, whichever it was made from.
GroupsOK ==
  /\ groups \in Seq(RouteGroup)
  /\ \A i \in DOMAIN groups : Protected(groups[i].middlewares)

\* There is a chain for what was registered and nothing else, and its handler is
\* the one that came with the last registration.
ChainsOK ==
  /\ DOMAIN chains = {routes[i] : i \in DOMAIN routes}
  /\ \A k \in DOMAIN chains :
       /\ Protected(chains[k])
       /\ chains[k][Len(chains[k])] = Handler(Max({i \in DOMAIN routes : routes[i] = k}))

\* The inductive invariant of the registration.
RouterInv == RoutesOK /\ TriesOK /\ GroupsOK /\ ChainsOK

\* One segment of parse_pattern's loop.
ParseStep(ps, s) ==
  IF s.kind = "empty" \/ (ps # <<>> /\ ps[Len(ps)].kind = "wild")
  THEN ps ELSE Append(ps, s)

\* A route that goes on one segment.
LEMMA RouteGrows ==
  ASSUME NEW n, IsRoute(n), NEW s \in Segment
  PROVE  IsRoute(ParseStep(n, s))
<1>1. CASE s.kind = "empty" \/ (n # <<>> /\ n[Len(n)].kind = "wild")
  BY <1>1 DEF ParseStep
<1>2. CASE ~(s.kind = "empty" \/ (n # <<>> /\ n[Len(n)].kind = "wild"))
  <2>1. PICK a : a = Append(n, s)
    OBVIOUS
  <2>2. n \in Seq(Segment) /\ Len(n) \in Nat
    BY DEF IsRoute, IsPath
  <2>3. /\ a \in Seq(Segment) /\ Len(a) = Len(n) + 1 /\ a[Len(n) + 1] = s
        /\ \A i \in 1..Len(n) : a[i] = n[i]
    BY <2>1, <2>2
  <2>4. ASSUME NEW i \in 1..Len(n), n[i].kind = "wild" PROVE FALSE
    <3>1. i = Len(n) /\ n # <<>>
      BY <2>2, <2>4 DEF IsRoute
    <3>2. QED
      BY <1>2, <2>4, <3>1
  <2>5. ASSUME NEW i \in 1..Len(a)
        PROVE  a[i].kind # "empty" /\ (a[i].kind = "wild" => i = Len(a))
    <3>1. CASE i = Len(n) + 1
      BY <1>2, <2>3, <3>1
    <3>2. CASE i # Len(n) + 1
      <4>1. i \in 1..Len(n)
        BY <2>2, <2>3, <3>2
      <4>2. QED
        BY <2>2, <2>3, <2>4, <4>1 DEF IsRoute
    <3>3. QED
      BY <3>1, <3>2
  <2>6. IsRoute(a)
    BY <2>3, <2>5 DEF IsRoute, IsPath
  <2>7. QED
    BY <1>2, <2>1, <2>6 DEF ParseStep
<1>3. QED
  BY <1>1, <1>2

\* What parse_pattern makes of a path.
LEMMA Parsed ==
  ASSUME NEW p, IsPath(p)
  PROVE  IsRoute(parse_pattern(p)) /\ (p = <<>> => parse_pattern(p) = <<>>)
<1> DEFINE n == Len(p)
           V == {ps \in Seq(Segment) : IsRoute(ps)}
           st == [x \in V \X (1..n) |-> ParseStep(x[1], p[x[2]])]
           Is(g) == g = [s \in SUBSET (1..n) |->
                            IF s = {} THEN <<>>
                            ELSE ParseStep(g[s \ {Max(s)}], p[Max(s)])]
<1>1. n \in Nat /\ DOMAIN p = 1..n /\ \A i \in 1..n : p[i] \in Segment
  BY DEF IsPath
<1>2. <<>> \in V
  BY DEF IsRoute, IsPath
<1>3. \A v \in V, i \in 1..n : ParseStep(v, p[i]) \in V
  <2>1. ASSUME NEW v \in V, NEW i \in 1..n PROVE ParseStep(v, p[i]) \in V
    <3>1. IsRoute(ParseStep(v, p[i]))
      BY <1>1, RouteGrows
    <3>2. QED
      BY <3>1 DEF IsRoute, IsPath
  <2>2. QED
    BY <2>1
<1>4. \A v \in V, i \in 1..n : st[<<v, i>>] = ParseStep(v, p[i])
  OBVIOUS
<1>5. Steps(st, V, n)
  <2> HIDE DEF st, V, n
  <2> QED
    BY <1>3, <1>4 DEF Steps
<1> HIDE DEF st, V, n
<1>6. PICK g : OnSets(g, <<>>, st, V, n)
  BY <1>1, <1>2, <1>5, FoldExists
<1>7. Is(g)
  BY <1>4, <1>6 DEF OnSets
<1>8. PICK h : Is(h) /\ parse_pattern(p) = h[1..n]
  <2>1. parse_pattern(p) = FoldLeft(LAMBDA ps, s : ParseStep(ps, s), <<>>, p)
    BY DEF parse_pattern, ParseStep
  <2>2. QED
    BY <1>1, <1>7, <2>1 DEF FoldLeft, MapThenFoldSet
<1>9. WhereValued(h, <<>>, st, V, n)
  BY <1>4, <1>6, <1>8 DEF OnSets, WhereValued
<1>10. PICK b : Trace(b, <<>>, st, V, n) /\ h[1..n] = b[n]
  BY <1>1, <1>2, <1>5, <1>9, FoldSteps
<1>11. b[n] \in V /\ b[0] = <<>>
  BY <1>1, <1>10 DEF Trace
<1>12. p = <<>> => n = 0
  BY DEF n
<1>13. QED
  BY <1>8, <1>10, <1>11, <1>12 DEF V

\* The beginning of a sequence.
LEMMA Beginning ==
  ASSUME NEW W, NEW s \in Seq(W), NEW j \in 0..Len(s)
  PROVE  /\ Upto(s, j) \in Seq(W) /\ Len(Upto(s, j)) = j
         /\ \A i \in 1..j : Upto(s, j)[i] = s[i]
<1>1. j \in Nat /\ 0 + 1 = 1 /\ j - 0 = j /\ Len(s) \in Nat
  OBVIOUS
<1>2. \A i \in 1..j : 0 + i = i
  OBVIOUS
<1>3. QED
  BY <1>1, <1>2, Slice DEF Upto

\* Two sequences are one if they have the same elements.
LEMMA SameSequence ==
  ASSUME NEW W, NEW s \in Seq(W), NEW t \in Seq(W), Len(s) = Len(t),
         \A i \in 1..Len(s) : s[i] = t[i]
  PROVE  s = t
BY SeqEqual

\* A sequence that another one begins with is as many of its first elements.
LEMMA BeginningIs ==
  ASSUME NEW W, NEW s \in Seq(W), NEW t \in Seq(W), Begins(s, t)
  PROVE  s = Upto(t, Len(s)) /\ Len(s) \in 0..Len(t)
<1>1. Len(s) \in 0..Len(t)
  BY DEF Begins
<1>2. QED
  BY <1>1, Beginning, SameSequence DEF Begins

\* The beginning of a beginning.
LEMMA BeginningOf ==
  ASSUME NEW W, NEW s \in Seq(W), NEW j \in 0..Len(s), NEW k \in 0..j
  PROVE  Upto(Upto(s, j), k) = Upto(s, k)
<1>1. PICK t : t = Upto(s, j)
  OBVIOUS
<1>2. /\ t \in Seq(W) /\ Len(t) = j /\ k \in 0..Len(t) /\ k \in 0..Len(s)
      /\ \A i \in 1..j : t[i] = s[i]
  BY <1>1, Beginning
<1>3. /\ Upto(t, k) \in Seq(W) /\ Len(Upto(t, k)) = k
      /\ \A i \in 1..k : Upto(t, k)[i] = t[i]
  BY <1>2, Beginning
<1>4. /\ Upto(s, k) \in Seq(W) /\ Len(Upto(s, k)) = k
      /\ \A i \in 1..k : Upto(s, k)[i] = s[i]
  BY <1>2, Beginning
<1>5. \A i \in 1..k : i \in 1..j
  OBVIOUS
<1>6. Upto(t, k) = Upto(s, k)
  BY <1>2, <1>3, <1>4, <1>5, SameSequence
<1>7. QED
  BY <1>1, <1>6

\* A beginning is the one before it and one more element.
LEMMA OneLonger ==
  ASSUME NEW W, NEW s \in Seq(W), NEW j \in 1..Len(s)
  PROVE  /\ j - 1 \in 0..Len(s) /\ j \in 0..Len(s)
         /\ Upto(s, j) = Append(Upto(s, j - 1), s[j])
<1>1. j - 1 \in 0..Len(s) /\ j \in 0..Len(s) /\ s[j] \in W
  OBVIOUS
<1>2. PICK a, b : a = Upto(s, j - 1) /\ b = Append(a, s[j])
  OBVIOUS
<1>3. /\ a \in Seq(W) /\ Len(a) = j - 1 /\ \A i \in 1..j - 1 : a[i] = s[i]
  BY <1>1, <1>2, Beginning
<1>4. b \in Seq(W) /\ Len(b) = j /\ b[j] = s[j] /\ \A i \in 1..j - 1 : b[i] = a[i]
  BY <1>1, <1>2, <1>3
<1>5. /\ Upto(s, j) \in Seq(W) /\ Len(Upto(s, j)) = j
      /\ \A i \in 1..j : Upto(s, j)[i] = s[i]
  BY <1>1, Beginning
<1>6. \A i \in 1..j : i = j \/ i \in 1..j - 1
  OBVIOUS
<1>7. Upto(s, j) = b
  BY <1>3, <1>4, <1>5, <1>6, SameSequence
<1>8. QED
  BY <1>1, <1>2, <1>7

\* The children a node had.
Before(K, n) == IF n \in DOMAIN K THEN K[n] ELSE <<>>

\* What insert() does to the nodes.
Inserted(K, ps, K2) ==
  /\ DOMAIN K2 = DOMAIN K \cup {Upto(ps, i) : i \in 0..Len(ps)}
  /\ \A n \in DOMAIN K2 :
       \/ K2[n] = Before(K, n)
       \/ \E i \in 1..Len(ps) :
            n = Upto(ps, i - 1) /\ K2[n] = Append(Before(K, n), ps[i])
  /\ \A i \in 1..Len(ps) : Upto(ps, i) \notin DOMAIN K =>
       K2[Upto(ps, i - 1)] = Append(Before(K, Upto(ps, i - 1)), ps[i])

\* insert() adds the nodes on the way, and at most one child to a node.
LEMMA InsertDoes ==
  ASSUME NEW K, NEW ps, IsPath(ps)
  PROVE  Inserted(K, ps, insert(K, ps))
<1> DEFINE New(n) == \E i \in 1..Len(ps) :
                        n = Upto(ps, i - 1) /\ Upto(ps, i) \notin DOMAIN K
<1>1. PICK K2 : K2 = insert(K, ps)
  OBVIOUS
<1>2. K2 = [n \in DOMAIN K \cup {Upto(ps, i) : i \in 0..Len(ps)} |->
              IF New(n) THEN Append(Before(K, n), ps[Len(n) + 1]) ELSE Before(K, n)]
  BY <1>1 DEF insert, Upto, Before
<1>3. \A i \in 1..Len(ps) : /\ i - 1 \in 0..Len(ps) /\ (i - 1) + 1 = i
                            /\ Len(Upto(ps, i - 1)) = i - 1
  <2>1. \A i \in 1..Len(ps) : i - 1 \in 0..Len(ps) /\ (i - 1) + 1 = i
    BY DEF IsPath
  <2>2. QED
    BY <2>1, Beginning DEF IsPath
<1> HIDE DEF New
<1>4. ASSUME NEW n \in DOMAIN K2
      PROVE  \/ K2[n] = Before(K, n)
             \/ \E i \in 1..Len(ps) :
                  n = Upto(ps, i - 1) /\ K2[n] = Append(Before(K, n), ps[i])
  <2>1. CASE New(n)
    <3>1. PICK i \in 1..Len(ps) : n = Upto(ps, i - 1)
      BY <2>1 DEF New
    <3>2. Len(n) + 1 = i
      BY <1>3, <3>1
    <3>3. QED
      BY <1>2, <2>1, <3>1, <3>2
  <2>2. CASE ~New(n)
    BY <1>2, <2>2
  <2>3. QED
    BY <2>1, <2>2
<1>5. ASSUME NEW i \in 1..Len(ps), Upto(ps, i) \notin DOMAIN K
      PROVE  K2[Upto(ps, i - 1)] = Append(Before(K, Upto(ps, i - 1)), ps[i])
  <2>1. PICK n : n = Upto(ps, i - 1)
    OBVIOUS
  <2>2. n \in DOMAIN K2
    BY <1>2, <1>3, <2>1
  <2>3. New(n)
    BY <1>5, <2>1 DEF New
  <2>4. Len(n) + 1 = i
    BY <1>3, <2>1
  <2>5. K2[n] = Append(Before(K, n), ps[Len(n) + 1])
    BY <1>2, <2>2, <2>3
  <2>6. QED
    BY <2>1, <2>4, <2>5
<1>6. DOMAIN K2 = DOMAIN K \cup {Upto(ps, i) : i \in 0..Len(ps)}
  BY <1>2
<1>7. QED
  BY <1>1, <1>4, <1>5, <1>6 DEF Inserted

\* A part of a route is one.
LEMMA PartOfRoute ==
  ASSUME NEW ps, IsRoute(ps), NEW j \in 0..Len(ps)
  PROVE  /\ IsRoute(Upto(ps, j)) /\ Len(Upto(ps, j)) = j
         /\ IsNot(Upto(ps, j), "wild") \/ j = Len(ps)
         /\ \A i \in 1..j : Upto(ps, j)[i] = ps[i]
<1>1. PICK n : n = Upto(ps, j)
  OBVIOUS
<1>2. ps \in Seq(Segment) /\ Len(ps) \in Nat /\ j \in Nat
  BY DEF IsRoute, IsPath
<1>3. n \in Seq(Segment) /\ Len(n) = j /\ \A i \in 1..j : n[i] = ps[i]
  BY <1>1, <1>2, Beginning
<1>4. \A i \in 1..j : /\ i \in DOMAIN ps /\ ps[i].kind # "empty"
                      /\ ps[i].kind = "wild" => i = Len(ps)
  BY <1>2 DEF IsRoute
<1>5. \A i \in 1..j : i = Len(ps) => i = j
  BY <1>2
<1>6. IsRoute(n)
  BY <1>3, <1>4, <1>5 DEF IsRoute, IsPath
<1>7. IsNot(n, "wild") \/ j = Len(ps)
  <2>1. CASE n = <<>>
    BY <2>1 DEF IsNot
  <2>2. CASE n # <<>>
    <3>1. j \in 1..j
      BY <1>2, <1>3, <2>2
    <3>2. QED
      BY <1>3, <1>4, <3>1 DEF IsNot
  <2>3. QED
    BY <2>1, <2>2
<1>8. QED
  BY <1>1, <1>3, <1>6, <1>7

\* The nodes stay a trie, with the patterns that add_route gives them.
LEMMA InsertGrows ==
  ASSUME NEW K, NEW P, Grown(K, P), NEW ps, IsRoute(ps),
         NEW path, IsPath(path), ps # <<>> => path # NoPath,
         NEW K2, Inserted(K, ps, K2),
         NEW P2, P2 = SetPattern(P, DOMAIN K2, ps, path)
  PROVE  Trie(K2, P2) /\ ps \in DOMAIN K2 /\ DOMAIN K \subseteq DOMAIN K2
<1>1. ps \in Seq(Segment) /\ Len(ps) \in Nat /\ \A i \in 1..Len(ps) : ps[i] \in Segment
  BY DEF IsRoute, IsPath
<1>2. ASSUME NEW n \in DOMAIN K
      PROVE  /\ IsRoute(n) /\ IsPath(P[n]) /\ IsPath(K[n])
             /\ \A i \in DOMAIN K[n] : Append(n, K[n][i]) \in DOMAIN K
             /\ IsNot(n, "wild") \/ P[n] # NoPath
             /\ \A j \in 0..Len(n) : Upto(n, j) \in DOMAIN K
             /\ \A j \in 1..Len(n) : \E i \in DOMAIN K[Upto(n, j - 1)] :
                  K[Upto(n, j - 1)][i] = n[j]
  BY DEF Grown
<1>3. DOMAIN K2 = DOMAIN K \cup {Upto(ps, i) : i \in 0..Len(ps)}
  BY DEF Inserted
<1>4. \A j \in 0..Len(ps) : Upto(ps, j) \in DOMAIN K2
  BY <1>3
<1>5. <<>> \in DOMAIN K2 /\ ps \in DOMAIN K2
  <2>1. 0 \in 0..Len(ps) /\ Len(ps) \in 0..Len(ps)
    BY <1>1
  <2>2. Len(Upto(ps, 0)) = 0 /\ Upto(ps, 0) \in Seq(Segment)
    BY <1>1, <2>1, Beginning
  <2>3. Upto(ps, 0) = <<>>
    BY <2>2
  <2>4. Begins(ps, ps)
    BY <1>1 DEF Begins
  <2>5. ps = Upto(ps, Len(ps))
    BY <1>1, <2>4, BeginningIs
  <2>6. QED
    BY <1>4, <2>1, <2>3, <2>5
<1>6. \A n \in DOMAIN K2 : IsPath(Before(K, n))
  BY <1>2 DEF Before, IsPath
<1>7. ASSUME NEW n \in DOMAIN K2
      PROVE  /\ IsPath(K2[n]) /\ Len(Before(K, n)) <= Len(K2[n])
             /\ \A i \in 1..Len(Before(K, n)) : K2[n][i] = Before(K, n)[i]
  <2>1. PICK b : b = Before(K, n)
    OBVIOUS
  <2>2. b \in Seq(Segment) /\ Len(b) \in Nat
    BY <1>6, <2>1 DEF IsPath
  <2>3. CASE K2[n] = b
    BY <2>1, <2>2, <2>3 DEF IsPath
  <2>4. CASE \E i \in 1..Len(ps) : K2[n] = Append(b, ps[i])
    <3>1. PICK c \in Segment : K2[n] = Append(b, c)
      BY <1>1, <2>4
    <3>2. Append(b, c) \in Seq(Segment) /\ Len(Append(b, c)) = Len(b) + 1
      BY <2>2
    <3>3. \A i \in 1..Len(b) : Append(b, c)[i] = b[i]
      BY <2>2
    <3>4. QED
      BY <2>1, <2>2, <3>1, <3>2, <3>3 DEF IsPath
  <2>5. QED
    BY <2>1, <2>3, <2>4 DEF Inserted
\* A node that was there has the children it had.
<1>8. ASSUME NEW n \in DOMAIN K, NEW i \in DOMAIN K[n]
      PROVE  n \in DOMAIN K2 /\ i \in DOMAIN K2[n] /\ K2[n][i] = K[n][i]
  <2>1. n \in DOMAIN K2 /\ Before(K, n) = K[n]
    BY <1>3 DEF Before
  <2>2. K[n] \in Seq(Segment) /\ K2[n] \in Seq(Segment)
    BY <1>2, <1>7, <2>1 DEF IsPath
  <2>3. i \in 1..Len(K[n]) /\ Len(K[n]) <= Len(K2[n]) /\ Len(K[n]) \in Nat
    BY <1>7, <2>1, <2>2
  <2>4. i \in DOMAIN K2[n]
    BY <2>2, <2>3
  <2>5. QED
    BY <1>7, <2>1, <2>3, <2>4
\* On the way to a node that was there nothing is new.
<1>9. ASSUME NEW n \in DOMAIN K
      PROVE  /\ \A j \in 0..Len(n) : Upto(n, j) \in DOMAIN K2
             /\ \A j \in 1..Len(n) : \E i \in DOMAIN K2[Upto(n, j - 1)] :
                  K2[Upto(n, j - 1)][i] = n[j]
  <2>1. \A j \in 0..Len(n) : Upto(n, j) \in DOMAIN K
    BY <1>2
  <2>2. ASSUME NEW j \in 1..Len(n)
        PROVE  \E i \in DOMAIN K2[Upto(n, j - 1)] : K2[Upto(n, j - 1)][i] = n[j]
    <3>1. PICK u : u = Upto(n, j - 1)
      OBVIOUS
    <3>2. n \in Seq(Segment)
      BY <1>2 DEF IsRoute, IsPath
    <3>3. j - 1 \in 0..Len(n)
      BY <3>2
    <3>4. u \in DOMAIN K
      BY <2>1, <3>1, <3>3
    <3>5. PICK i \in DOMAIN K[u] : K[u][i] = n[j]
      BY <1>2, <3>1
    <3>6. i \in DOMAIN K2[u] /\ K2[u][i] = n[j]
      BY <1>8, <3>4, <3>5
    <3>7. QED
      BY <3>1, <3>6
  <2>3. QED
    BY <1>3, <2>1, <2>2
\* Each part of the new route is a child of the node before it.
<1>10. ASSUME NEW j \in 1..Len(ps)
       PROVE  \E i \in DOMAIN K2[Upto(ps, j - 1)] : K2[Upto(ps, j - 1)][i] = ps[j]
  <2>1. j - 1 \in 0..Len(ps) /\ j \in 0..Len(ps) /\ ps[j] \in Segment
    BY <1>1
  <2>2. PICK u : u = Upto(ps, j - 1)
    OBVIOUS
  <2>3. u \in DOMAIN K2
    BY <1>4, <2>1, <2>2
  <2>4. CASE Upto(ps, j) \in DOMAIN K
    <3>1. PICK n \in DOMAIN K : n = Upto(ps, j)
      BY <2>4
    <3>2. Len(n) = j /\ n[j] = ps[j] /\ j \in 1..Len(n)
      <4>1. Len(n) = j /\ \A i \in 1..j : n[i] = ps[i]
        BY <1>1, <2>1, <3>1, Beginning
      <4>2. QED
        BY <4>1
    <3>3. Upto(n, j - 1) = u
      <4>1. j - 1 \in 0..j
        BY <2>1
      <4>2. QED
        BY <1>1, <2>1, <2>2, <3>1, <4>1, BeginningOf
    <3>4. \E i \in DOMAIN K2[u] : K2[u][i] = n[j]
      BY <1>9, <3>2, <3>3
    <3>5. QED
      BY <2>2, <3>2, <3>4
  <2>5. CASE Upto(ps, j) \notin DOMAIN K
    <3>1. K2[u] = Append(Before(K, u), ps[j])
      BY <2>2, <2>5 DEF Inserted
    <3>2. Before(K, u) \in Seq(Segment)
      BY <1>6, <2>3 DEF IsPath
    <3>3. PICK b \in Seq(Segment) : b = Before(K, u)
      BY <3>2
    <3>4. Len(b) + 1 \in DOMAIN Append(b, ps[j]) /\ Append(b, ps[j])[Len(b) + 1] = ps[j]
      BY <2>1, <3>3
    <3>5. Len(b) + 1 \in DOMAIN K2[u] /\ K2[u][Len(b) + 1] = ps[j]
      BY <3>1, <3>3, <3>4
    <3>6. QED
      BY <2>2, <3>5
  <2>6. QED
    BY <2>4, <2>5
\* On the way to a new node are its beginnings.
<1>11. ASSUME NEW k \in 0..Len(ps), NEW n, n = Upto(ps, k)
       PROVE  /\ \A j \in 0..Len(n) : Upto(n, j) \in DOMAIN K2
              /\ \A j \in 1..Len(n) : \E i \in DOMAIN K2[Upto(n, j - 1)] :
                   K2[Upto(n, j - 1)][i] = n[j]
  <2>1. Len(n) = k /\ \A i \in 1..k : n[i] = ps[i]
    BY <1>1, <1>11, Beginning
  <2>2. \A j \in 0..k : j \in 0..Len(ps) /\ Upto(n, j) = Upto(ps, j)
    BY <1>1, <1>11, BeginningOf
  <2>3. \A j \in 1..k : j - 1 \in 0..k /\ j \in 1..Len(ps)
    BY <1>1
  <2>4. \A j \in 0..k : Upto(n, j) \in DOMAIN K2
    BY <1>4, <2>2
  <2>5. ASSUME NEW j \in 1..k
        PROVE  \E i \in DOMAIN K2[Upto(n, j - 1)] : K2[Upto(n, j - 1)][i] = n[j]
    <3>1. Upto(n, j - 1) = Upto(ps, j - 1) /\ n[j] = ps[j] /\ j \in 1..Len(ps)
      BY <2>1, <2>2, <2>3
    <3>2. \E i \in DOMAIN K2[Upto(ps, j - 1)] : K2[Upto(ps, j - 1)][i] = ps[j]
      BY <1>10, <3>1
    <3>3. QED
      BY <3>1, <3>2
  <2>6. QED
    BY <2>1, <2>4, <2>5
<1>12. \A n \in DOMAIN K2 : IsRoute(n)
  BY <1>2, <1>3, PartOfRoute
\* Each child has its node.
<1>13. ASSUME NEW n \in DOMAIN K2, NEW i \in DOMAIN K2[n]
       PROVE  Append(n, K2[n][i]) \in DOMAIN K2
  <2>1. PICK b : b = Before(K, n)
    OBVIOUS
  <2>2. b \in Seq(Segment) /\ Len(b) \in Nat
    BY <1>6, <2>1 DEF IsPath
  <2>3. \A k \in DOMAIN b : Append(n, b[k]) \in DOMAIN K2
    <3>1. CASE n \in DOMAIN K
      BY <1>2, <1>3, <2>1, <3>1 DEF Before
    <3>2. CASE n \notin DOMAIN K
      BY <2>1, <3>2 DEF Before
    <3>3. QED
      BY <3>1, <3>2
  <2>4. CASE K2[n] = b
    BY <2>3, <2>4
  <2>5. ASSUME NEW k \in 1..Len(ps), n = Upto(ps, k - 1), K2[n] = Append(b, ps[k])
        PROVE  Append(n, K2[n][i]) \in DOMAIN K2
    <3>1. ps[k] \in Segment /\ k \in 0..Len(ps)
      BY <1>1
    <3>2. i \in 1..Len(b) + 1
      BY <2>2, <2>5, <3>1
    <3>3. CASE i = Len(b) + 1
      <4>1. K2[n][i] = ps[k]
        BY <2>2, <2>5, <3>1, <3>3
      <4>2. Append(n, ps[k]) = Upto(ps, k)
        BY <1>1, <2>5, OneLonger
      <4>3. QED
        BY <1>4, <3>1, <4>1, <4>2
    <3>4. CASE i # Len(b) + 1
      <4>1. i \in 1..Len(b) /\ i \in DOMAIN b
        BY <2>2, <3>2, <3>4
      <4>2. K2[n][i] = b[i]
        BY <2>2, <2>5, <3>1, <4>1
      <4>3. QED
        BY <2>3, <4>1, <4>2
    <3>5. QED
      BY <3>3, <3>4
  <2>6. QED
    BY <2>1, <2>4, <2>5 DEF Inserted
<1>14. DOMAIN P2 = DOMAIN K2
  BY DEF SetPattern
<1>15. ASSUME NEW n \in DOMAIN K2
       PROVE  IsPath(P2[n]) /\ (IsNot(n, "wild") \/ P2[n] # NoPath)
  <2>1. /\ n = ps => P2[n] = path
        /\ n # ps /\ n \in DOMAIN P => P2[n] = P[n]
        /\ n # ps /\ n \notin DOMAIN P => P2[n] = NoPath
    BY DEF SetPattern
  <2>2. DOMAIN P = DOMAIN K
    BY DEF Grown
  <2>3. CASE n = ps
    BY <2>1, <2>3 DEF IsNot
  <2>4. CASE n # ps /\ n \in DOMAIN K
    BY <1>2, <2>1, <2>2, <2>4
  <2>5. CASE n # ps /\ n \notin DOMAIN K
    <3>1. PICK k \in 0..Len(ps) : n = Upto(ps, k)
      BY <1>3, <2>5
    <3>2. Begins(ps, ps)
      BY <1>1 DEF Begins
    <3>3. Upto(ps, Len(ps)) = ps
      BY <1>1, <3>2, BeginningIs
    <3>4. IsNot(n, "wild")
      BY <2>5, <3>1, <3>3, PartOfRoute
    <3>5. P2[n] = NoPath
      BY <2>1, <2>2, <2>5
    <3>6. IsPath(NoPath)
      BY DEF NoPath, IsPath
    <3>7. QED
      BY <3>4, <3>5, <3>6
  <2>6. QED
    BY <2>3, <2>4, <2>5
<1>16. ASSUME NEW n \in DOMAIN K2
       PROVE  /\ \A j \in 0..Len(n) : Upto(n, j) \in DOMAIN K2
              /\ \A j \in 1..Len(n) : \E i \in DOMAIN K2[Upto(n, j - 1)] :
                   K2[Upto(n, j - 1)][i] = n[j]
  <2>1. CASE n \in DOMAIN K
    BY <1>9, <2>1
  <2>2. CASE n \notin DOMAIN K
    <3>1. PICK k \in 0..Len(ps) : n = Upto(ps, k)
      BY <1>3, <2>2
    <3>2. QED
      BY <1>11, <3>1
  <2>3. QED
    BY <2>1, <2>2
<1>17. Grown(K2, P2)
  BY <1>7, <1>12, <1>13, <1>14, <1>15, <1>16 DEF Grown
<1>18. QED
  BY <1>3, <1>5, <1>17 DEF Trie

-----------------------------------------------------------------------------
(* The registrations.                                                      *)
\* Which of them are in a set.
Among(rs, T) == {i \in DOMAIN rs : rs[i] \in T}

\* The last one of them, when there is one more.
MoreAmong(rs, x, rs2, T) ==
  /\ x \notin T => Among(rs2, T) = Among(rs, T)
  /\ x \in T => Max(Among(rs2, T)) = Len(rs) + 1 /\ Among(rs2, T) # {}
  /\ Among(rs, T) # {} =>
       /\ Max(Among(rs, T)) \in Among(rs, T)
       /\ rs2[Max(Among(rs, T))] = rs[Max(Among(rs, T))]

\* One more registration is in a set, as the last one there, or it is not.
LEMMA OneMore ==
  ASSUME NEW X, NEW rs \in Seq(X), NEW x \in X, NEW rs2, rs2 = Append(rs, x), NEW T
  PROVE  MoreAmong(rs, x, rs2, T)
<1>1. /\ Len(rs) \in Nat /\ DOMAIN rs = 1..Len(rs) /\ rs2 \in Seq(X)
      /\ DOMAIN rs2 = 1..Len(rs) + 1 /\ rs2[Len(rs) + 1] = x
      /\ \A i \in 1..Len(rs) : rs2[i] = rs[i]
  OBVIOUS
<1>2. PICK S, S2 : S = Among(rs, T) /\ S2 = Among(rs2, T)
  OBVIOUS
<1>3. S \in SUBSET (1..Len(rs)) /\ S2 \in SUBSET (1..Len(rs) + 1)
  BY <1>1, <1>2 DEF Among
<1>4. \A i \in 1..Len(rs) + 1 : i \in 1..Len(rs) \/ i = Len(rs) + 1
  BY <1>1
<1>5. x \notin T => S2 = S
  BY <1>1, <1>2, <1>4 DEF Among
<1>6. x \in T => Max(S2) = Len(rs) + 1 /\ S2 # {}
  <2>1. x \in T => Len(rs) + 1 \in S2
    BY <1>1, <1>2 DEF Among
  <2>2. QED
    BY <1>1, <1>3, <2>1, Intervals
<1>7. S # {} => Max(S) \in S
  BY <1>1, <1>3, MaxInside
<1>8. S # {} => rs2[Max(S)] = rs[Max(S)]
  BY <1>1, <1>3, <1>7
<1>9. QED
  BY <1>2, <1>5, <1>6, <1>7, <1>8 DEF MoreAmong

\* The registrations for a node.
For(m, n) == {x \in Registration : x[1] = m /\ parse_pattern(x[2]) = n}

\* The path of the last one, if there is one.
LastPathIn(rs, m, n) ==
  IF Among(rs, For(m, n)) = {} THEN NoPath ELSE rs[Max(Among(rs, For(m, n)))][2]

\* Holds, for patterns and registrations that are given.
HoldsIn(P, rs, m) == \A n \in DOMAIN P[m] : P[m][n] = LastPathIn(rs, m, n)

\* The two ways to say which registrations are a node's.
LEMMA RegisteredAmong ==
  ASSUME routes \in Seq(Registration), NEW m
  PROVE  /\ \A n : Registered(m, n) = Among(routes, For(m, n))
         /\ Holds(m) <=> HoldsIn(pattern, routes, m)
<1>1. \A n : Registered(m, n) = Among(routes, For(m, n))
  <2>1. \A i \in DOMAIN routes : routes[i] \in Registration
    OBVIOUS
  <2>2. QED
    BY <2>1 DEF Registered, Among, For
<1>2. QED
  BY <1>1 DEF Holds, HoldsIn, LastPathIn, LastPath

\* The last path of each node, after one more registration.
PathsMove(rs, rs2, m, path) ==
  \A k, n : LastPathIn(rs2, k, n) =
    IF k = m /\ n = parse_pattern(path) THEN path ELSE LastPathIn(rs, k, n)

\* A registration replaces the last path of its own node only.
LEMMA LastPathMoves ==
  ASSUME NEW rs \in Seq(Registration), NEW m \in Method, NEW path \in Seq(Segment),
         NEW rs2, rs2 = Append(rs, <<m, path>>)
  PROVE  PathsMove(rs, rs2, m, path)
<1> SUFFICES ASSUME NEW k, NEW n
             PROVE  LastPathIn(rs2, k, n) =
                      IF k = m /\ n = parse_pattern(path) THEN path
                      ELSE LastPathIn(rs, k, n)
  BY DEF PathsMove
<1>1. PICK T : T = For(k, n)
  OBVIOUS
<1>2. PICK x \in Registration : x = <<m, path>>
  BY DEF Registration
<1>3. /\ x \notin T => Among(rs2, T) = Among(rs, T)
      /\ x \in T => Max(Among(rs2, T)) = Len(rs) + 1 /\ Among(rs2, T) # {}
      /\ Among(rs, T) # {} =>
           /\ Max(Among(rs, T)) \in Among(rs, T)
           /\ rs2[Max(Among(rs, T))] = rs[Max(Among(rs, T))]
  <2>1. rs2 = Append(rs, x)
    BY <1>2
  <2>2. MoreAmong(rs, x, rs2, T)
    BY ONLY <2>1, rs \in Seq(Registration), x \in Registration, OneMore
  <2>3. QED
    BY ONLY <2>2 DEF MoreAmong
<1>4. x \in T <=> (k = m /\ n = parse_pattern(path))
  BY <1>1, <1>2 DEF For, Registration
<1>5. rs2[Len(rs) + 1][2] = path
  BY <1>2
<1>6. CASE x \in T
  BY <1>1, <1>3, <1>4, <1>5, <1>6 DEF LastPathIn
<1>7. CASE x \notin T
  BY <1>1, <1>3, <1>4, <1>7 DEF LastPathIn
<1>8. QED
  BY <1>6, <1>7

-----------------------------------------------------------------------------
(* The steps keep the invariant.                                           *)

\* The engine's constructor leaves no route, and one group with Recovery.
LEMMA RouterStarts == RouterInit => RouterInv
<1> SUFFICES ASSUME RouterInit PROVE RouterInv
  OBVIOUS
<1>1. /\ children = <<>> /\ pattern = <<>> /\ chains = <<>> /\ routes = <<>>
      /\ groups = << [prefix |-> NoPath, middlewares |-> <<"recovery">>] >>
  BY DEF RouterInit
<1>2. RoutesOK
  BY <1>1 DEF RoutesOK
<1>3. TriesOK
  BY <1>1 DEF TriesOK
<1>4. GroupsOK
  <2>1. NoPath \in Seq(Segment) /\ "recovery" \in Link
    BY DEF NoPath, Link
  <2>2. PICK l : l = <<"recovery">>
    OBVIOUS
  <2>3. l \in Seq(Link) /\ l # <<>> /\ l[1] = "recovery"
    BY <2>1, <2>2
  <2>4. PICK g : g = [prefix |-> NoPath, middlewares |-> l]
    OBVIOUS
  <2>5. g \in RouteGroup /\ g.middlewares = l
    BY <2>1, <2>3, <2>4 DEF RouteGroup
  <2>6. groups = <<g>> /\ DOMAIN groups = {1} /\ groups[1] = g
    BY <1>1, <2>2, <2>4
  <2>7. groups \in Seq(RouteGroup)
    BY <2>5, <2>6
  <2>8. \A i \in DOMAIN groups : groups[i].middlewares = l
    BY <2>5, <2>6
  <2>9. QED
    BY <2>3, <2>7, <2>8 DEF GroupsOK, Protected
<1>5. ChainsOK
  BY <1>1 DEF ChainsOK
<1>6. QED
  BY <1>2, <1>3, <1>4, <1>5 DEF RouterInv

\* One more link.
LEMMA Linked ==
  ASSUME NEW s, Protected(s), NEW l \in Link
  PROVE  Protected(Append(s, l)) /\ Append(s, l)[Len(Append(s, l))] = l
<1>1. s \in Seq(Link) /\ s # <<>> /\ s[1] = "recovery"
  BY DEF Protected
<1>2. Len(s) \in Nat /\ Len(s) >= 1
  BY <1>1
<1>3. PICK a : a = Append(s, l)
  OBVIOUS
<1>4. /\ a \in Seq(Link) /\ Len(a) = Len(s) + 1 /\ a[Len(s) + 1] = l
      /\ \A i \in 1..Len(s) : a[i] = s[i]
  BY <1>1, <1>3
<1>5. 1 \in 1..Len(s) /\ a # <<>>
  BY <1>2, <1>4
<1>6. QED
  BY <1>1, <1>3, <1>4, <1>5 DEF Protected

\* Groups alone do not change what was registered.
LEMMA SameRoutes ==
  ASSUME RouterInv, UNCHANGED <<children, pattern, chains, routes>>
  PROVE  RoutesOK' /\ TriesOK' /\ ChainsOK'
<1>1. children' = children /\ pattern' = pattern /\ chains' = chains /\ routes' = routes
  OBVIOUS
<1>2. RoutesOK'
  BY <1>1 DEF RouterInv, RoutesOK
<1>3. TriesOK'
  <2>1. \A m : Holds(m)' <=> Holds(m)
    BY <1>1 DEF Holds, Registered, LastPath
  <2>2. QED
    BY <1>1, <2>1 DEF RouterInv, TriesOK
<1>4. ChainsOK'
  BY <1>1 DEF RouterInv, ChainsOK
<1>5. QED
  BY <1>2, <1>3, <1>4

\* Use() adds a middleware behind Recovery.
LEMMA UseKeeps ==
  ASSUME RouterInv, NEW i \in DOMAIN groups, NEW middleware \in Added,
         Use(i, middleware)
  PROVE  RouterInv'
<1>1. /\ groups' = [groups EXCEPT ![i].middlewares = Append(@, middleware)]
      /\ UNCHANGED <<children, pattern, chains, routes>>
  BY DEF Use
<1>2. groups \in Seq(RouteGroup) /\ \A j \in DOMAIN groups : Protected(groups[j].middlewares)
  BY DEF RouterInv, GroupsOK
<1>3. PICK w : w = Append(groups[i].middlewares, middleware)
  OBVIOUS
<1>4. Protected(w)
  BY <1>2, <1>3, Linked DEF Link
<1>5. PICK g : g = [groups[i] EXCEPT !.middlewares = w]
  OBVIOUS
<1>6. groups[i] \in RouteGroup /\ w \in Seq(Link)
  BY <1>2, <1>4 DEF Protected
<1>7. g \in RouteGroup /\ g.middlewares = w
  BY <1>5, <1>6 DEF RouteGroup
<1>8. groups' = [groups EXCEPT ![i] = g]
  BY <1>1, <1>3, <1>5
<1>9. /\ groups' \in Seq(RouteGroup) /\ DOMAIN groups' = DOMAIN groups
      /\ \A j \in DOMAIN groups : groups'[j] = IF j = i THEN g ELSE groups[j]
  BY <1>2, <1>7, <1>8, ExceptSeq
<1>10. \A j \in DOMAIN groups' : Protected(groups'[j].middlewares)
  BY <1>2, <1>4, <1>7, <1>9
<1>11. GroupsOK'
  BY <1>9, <1>10 DEF GroupsOK
<1>12. QED
  BY <1>1, <1>11, SameRoutes DEF RouterInv

\* Group() copies the middlewares of its parent, Recovery with them.
LEMMA GroupKeeps ==
  ASSUME RouterInv, NEW i \in DOMAIN groups, NEW suffix \in Suffix, Group(i, suffix)
  PROVE  RouterInv'
<1>1. /\ groups' = Append(groups, [prefix |-> groups[i].prefix \o suffix,
                                   middlewares |-> groups[i].middlewares])
      /\ UNCHANGED <<children, pattern, chains, routes>>
  BY DEF Group
<1>2. groups \in Seq(RouteGroup) /\ \A j \in DOMAIN groups : Protected(groups[j].middlewares)
  BY DEF RouterInv, GroupsOK
<1>3. groups[i].prefix \in Seq(Segment) /\ groups[i].middlewares \in Seq(Link)
  <2>1. groups[i] \in RouteGroup
    BY <1>2
  <2>2. QED
    BY <2>1 DEF RouteGroup
<1>4. suffix \in Seq(Segment)
  BY PathAssumption DEF IsPath
<1>5. groups[i].prefix \o suffix \in Seq(Segment)
  BY <1>3, <1>4
<1>6. PICK g : g = [prefix |-> groups[i].prefix \o suffix,
                    middlewares |-> groups[i].middlewares]
  OBVIOUS
<1>7. g \in RouteGroup /\ Protected(g.middlewares)
  BY <1>2, <1>3, <1>5, <1>6 DEF RouteGroup
<1>8. groups' = Append(groups, g)
  BY <1>1, <1>6
<1>9. /\ groups' \in Seq(RouteGroup) /\ DOMAIN groups' = 1..Len(groups) + 1
      /\ \A j \in 1..Len(groups) : groups'[j] = groups[j]
      /\ groups'[Len(groups) + 1] = g /\ Len(groups) \in Nat
      /\ DOMAIN groups = 1..Len(groups)
  BY <1>2, <1>7, <1>8
<1>10. \A j \in 1..Len(groups) + 1 : j \in 1..Len(groups) \/ j = Len(groups) + 1
  BY <1>9
<1>11. \A j \in DOMAIN groups' : Protected(groups'[j].middlewares)
  BY <1>2, <1>7, <1>9, <1>10
<1>12. GroupsOK'
  BY <1>9, <1>11 DEF GroupsOK
<1>13. QED
  BY <1>1, <1>12, SameRoutes DEF RouterInv

\* The trie of a method before and after.
LEMMA AddGrows ==
  ASSUME TriesOK, NEW m, NEW path, IsPath(path), NEW ps, ps = parse_pattern(path),
         NEW tree, tree = insert(Under(m, children), ps),
         NEW patterns, patterns = SetPattern(Under(m, pattern), DOMAIN tree, ps, path)
  PROVE  /\ Trie(tree, patterns) /\ ps \in DOMAIN tree
         /\ m \in DOMAIN children => DOMAIN children[m] \subseteq DOMAIN tree
<1>1. PICK K, P : K = Under(m, children) /\ P = Under(m, pattern)
  OBVIOUS
<1>2. Grown(K, P)
  <2>1. CASE m \in DOMAIN children
    BY <1>1, <2>1 DEF TriesOK, Under, Trie
  <2>2. CASE m \notin DOMAIN children
    <3>1. K = <<>> /\ P = <<>>
      BY <1>1, <2>2 DEF TriesOK, Under
    <3>2. QED
      BY <3>1 DEF Grown
  <2>3. QED
    BY <2>1, <2>2
<1>3. IsRoute(ps) /\ (path = <<>> => ps = <<>>)
  BY Parsed
<1>4. ps # <<>> => path # NoPath
  BY <1>3 DEF NoPath
<1>5. tree = insert(K, ps) /\ patterns = SetPattern(P, DOMAIN tree, ps, path)
  BY <1>1
<1>6. Inserted(K, ps, tree)
  BY <1>3, <1>5, InsertDoes DEF IsRoute
<1>7. Trie(tree, patterns) /\ ps \in DOMAIN tree /\ DOMAIN K \subseteq DOMAIN tree
  BY <1>2, <1>3, <1>4, <1>5, <1>6, InsertGrows
<1>8. QED
  BY <1>1, <1>7 DEF Under

\* A node of a method that has no registration has no pattern.
LEMMA NotRegistered ==
  ASSUME RoutesOK, NEW m, NEW n, m \in DOMAIN children => n \notin DOMAIN children[m]
  PROVE  LastPathIn(routes, m, n) = NoPath
<1>1. \A i \in DOMAIN routes : routes[i] \notin For(m, n)
  BY DEF RoutesOK, For, Registration
<1>2. Among(routes, For(m, n)) = {}
  BY <1>1 DEF Among
<1>3. QED
  BY <1>2 DEF LastPathIn

\* add_route(): the trie grows, the pattern of its node is the path just
\* registered, and the chain of that path is the new one.
LEMMA AddKeeps ==
  ASSUME RouterInv, NEW i \in DOMAIN groups, NEW m \in Method, NEW p \in Path,
         add_route(i, m, p)
  PROVE  RouterInv'
<1> USE DEF RouterInv
<1>1. PICK path : path = groups[i].prefix \o p
  OBVIOUS
<1>2. PICK ps, tree : /\ ps = parse_pattern(path)
                      /\ tree = insert(Under(m, children), ps)
  OBVIOUS
<1>3. PICK patterns, links :
        /\ patterns = SetPattern(Under(m, pattern), DOMAIN tree, ps, path)
        /\ links = Append(groups[i].middlewares, Handler(Len(routes) + 1))
  OBVIOUS
<1>4. /\ children' = Bind(children, m, tree) /\ pattern' = Bind(pattern, m, patterns)
      /\ routes' = Append(routes, <<m, path>>)
      /\ chains' = Bind(chains, <<m, path>>, links)
      /\ groups' = groups
  BY <1>1, <1>2, <1>3 DEF add_route
<1>5. path \in Seq(Segment) /\ Protected(groups[i].middlewares)
  <2>1. groups[i].prefix \in Seq(Segment) /\ Protected(groups[i].middlewares)
    <3>1. groups[i] \in RouteGroup
      BY DEF GroupsOK
    <3>2. QED
      BY <3>1 DEF GroupsOK, RouteGroup
  <2>2. p \in Seq(Segment)
    BY PathAssumption DEF IsPath
  <2>3. QED
    BY <1>1, <2>1, <2>2
<1>6. /\ Trie(tree, patterns) /\ ps \in DOMAIN tree
      /\ m \in DOMAIN children => DOMAIN children[m] \subseteq DOMAIN tree
  BY <1>2, <1>3, <1>5, AddGrows DEF IsPath
<1>7. /\ DOMAIN children' = DOMAIN children \cup {m} /\ children'[m] = tree
      /\ \A k \in DOMAIN children \ {m} : children'[k] = children[k]
  BY <1>4 DEF Bind
<1>8. /\ DOMAIN pattern' = DOMAIN pattern \cup {m} /\ pattern'[m] = patterns
      /\ \A k \in DOMAIN pattern \ {m} : pattern'[k] = pattern[k]
  BY <1>4 DEF Bind
<1>9. PICK x : x = <<m, path>>
  OBVIOUS
<1>10. /\ x \in Registration /\ x[1] = m /\ x[2] = path
       /\ routes \in Seq(Registration) /\ routes' = Append(routes, x)
  BY <1>4, <1>5, <1>9 DEF RoutesOK, Registration
<1>11. /\ routes' \in Seq(Registration) /\ Len(routes) \in Nat /\ DOMAIN routes = 1..Len(routes)
       /\ DOMAIN routes' = 1..Len(routes) + 1 /\ routes'[Len(routes) + 1] = x
       /\ \A j \in 1..Len(routes) : routes'[j] = routes[j]
  BY <1>10
<1>12. \A j \in DOMAIN routes' : j \in DOMAIN routes \/ j = Len(routes) + 1
  BY <1>11
<1>13. RoutesOK'
  <2>1. ASSUME NEW j \in DOMAIN routes'
        PROVE  /\ routes'[j][1] \in DOMAIN children'
               /\ parse_pattern(routes'[j][2]) \in DOMAIN children'[routes'[j][1]]
    <3>1. CASE j = Len(routes) + 1
      BY <1>2, <1>6, <1>7, <1>10, <1>11, <3>1
    <3>2. CASE j \in DOMAIN routes
      <4>1. PICK k, n : k = routes[j][1] /\ n = parse_pattern(routes[j][2])
        OBVIOUS
      <4>2. k \in DOMAIN children /\ n \in DOMAIN children[k]
        BY <3>2, <4>1 DEF RoutesOK
      <4>3. k \in DOMAIN children' /\ n \in DOMAIN children'[k]
        <5>1. CASE k = m
          BY <1>6, <1>7, <4>2, <5>1
        <5>2. CASE k # m
          BY <1>7, <4>2, <5>2
        <5>3. QED
          BY <5>1, <5>2
      <4>4. routes'[j] = routes[j]
        BY <1>11, <3>2
      <4>5. QED
        BY <4>1, <4>3, <4>4
    <3>3. QED
      BY <1>12, <3>1, <3>2
  <2>2. QED
    BY <1>9, <1>11, <2>1 DEF RoutesOK
<1>14. \A k, n : LastPathIn(routes', k, n) =
                   IF k = m /\ n = ps THEN path ELSE LastPathIn(routes, k, n)
  <2>1. PICK rs2 : rs2 = routes'
    OBVIOUS
  <2>2. routes \in Seq(Registration) /\ rs2 = Append(routes, <<m, path>>)
    BY <1>4, <2>1 DEF RoutesOK
  <2>3. PathsMove(routes, rs2, m, path)
    BY ONLY <1>5, <2>2, m \in Method, LastPathMoves
  <2>4. QED
    BY <1>2, <2>1, <2>3 DEF PathsMove
<1>15. \A k \in DOMAIN children : HoldsIn(pattern, routes, k)
  BY RegisteredAmong DEF TriesOK, RoutesOK
<1>16. ASSUME NEW k \in DOMAIN children' PROVE HoldsIn(pattern', routes', k)
  <2>1. CASE k = m
    <3>1. ASSUME NEW n \in DOMAIN patterns PROVE patterns[n] = LastPathIn(routes', m, n)
      <4>1. PICK P : P = Under(m, pattern)
        OBVIOUS
      <4>2. /\ n = ps => patterns[n] = path
            /\ n # ps /\ n \in DOMAIN P => patterns[n] = P[n]
            /\ n # ps /\ n \notin DOMAIN P => patterns[n] = NoPath
        BY <1>3, <4>1 DEF SetPattern
      <4>3. n \in DOMAIN P => m \in DOMAIN children /\ P[n] = LastPathIn(routes, m, n)
        BY <1>15, <4>1 DEF Under, TriesOK, HoldsIn
      <4>4. n \notin DOMAIN P => LastPathIn(routes, m, n) = NoPath
        <5>1. m \in DOMAIN children => DOMAIN P = DOMAIN children[m]
          BY <4>1 DEF Under, TriesOK, Trie, Grown
        <5>2. QED
          BY <5>1, NotRegistered
      <4>5. QED
        BY <1>14, <4>2, <4>3, <4>4
    <3>2. QED
      BY <1>8, <2>1, <3>1 DEF HoldsIn
  <2>2. CASE k # m
    <3>1. k \in DOMAIN children /\ pattern'[k] = pattern[k]
      BY <1>7, <1>8, <2>2 DEF TriesOK
    <3>2. QED
      BY <1>14, <1>15, <2>2, <3>1 DEF HoldsIn
  <2>3. QED
    BY <2>1, <2>2
<1>17. TriesOK'
  <2>1. ASSUME NEW k \in DOMAIN children' PROVE Trie(children'[k], pattern'[k])
    <3>1. CASE k = m
      BY <1>6, <1>7, <1>8, <3>1
    <3>2. CASE k # m
      BY <1>7, <1>8, <3>2 DEF TriesOK
    <3>3. QED
      BY <3>1, <3>2
  <2>2. ASSUME NEW k \in DOMAIN children' PROVE Holds(k)'
    <3>1. \A n : Registered(k, n)' = Among(routes', For(k, n))
      <4>1. \A j \in DOMAIN routes' : routes'[j] \in Registration
        BY <1>9, <1>11
      <4>2. QED
        BY <4>1 DEF Registered, Among, For
    <3>2. HoldsIn(pattern', routes', k)
      BY <1>16
    <3>3. QED
      BY <3>1, <3>2 DEF Holds, HoldsIn, LastPathIn, LastPath
  <2>3. DOMAIN children' = DOMAIN pattern' /\ DOMAIN children' \subseteq Method
    BY <1>7, <1>8 DEF TriesOK
  <2>4. QED
    BY <2>1, <2>2, <2>3 DEF TriesOK
<1>18. GroupsOK'
  BY <1>4 DEF GroupsOK
<1>19. ChainsOK'
  <2>1. /\ DOMAIN chains' = DOMAIN chains \cup {x} /\ chains'[x] = links
        /\ \A k \in DOMAIN chains \ {x} : chains'[k] = chains[k]
    BY <1>4, <1>9 DEF Bind
  <2>2. DOMAIN chains' = {routes'[j] : j \in DOMAIN routes'}
    <3>1. DOMAIN chains = {routes[j] : j \in DOMAIN routes}
      BY DEF ChainsOK
    <3>2. Len(routes) + 1 \in DOMAIN routes' /\ DOMAIN routes \subseteq DOMAIN routes'
      BY <1>11
    <3>3. \A j \in DOMAIN routes : routes'[j] = routes[j]
      BY <1>11
    <3>4. QED
      BY <1>11, <1>12, <2>1, <3>1, <3>2, <3>3
  <2>3. ASSUME NEW k \in DOMAIN chains'
        PROVE  /\ Protected(chains'[k])
               /\ chains'[k][Len(chains'[k])] =
                    Handler(Max({j \in DOMAIN routes' : routes'[j] = k}))
    <3>1. /\ {j \in DOMAIN routes : routes[j] = k} = Among(routes, {k})
          /\ {j \in DOMAIN routes' : routes'[j] = k} = Among(routes', {k})
      BY DEF Among
    <3>2. MoreAmong(routes, x, routes', {k})
      <4>1. PICK rs2 : rs2 = routes'
        OBVIOUS
      <4>2. routes \in Seq(Registration) /\ rs2 = Append(routes, x)
        BY <1>10, <4>1
      <4>3. MoreAmong(routes, x, rs2, {k})
        BY ONLY <1>10, <4>2, OneMore
      <4>4. QED
        BY <4>1, <4>3
    <3>3. CASE k = x
      <4>1. Max(Among(routes', {k})) = Len(routes) + 1
        BY <3>2, <3>3 DEF MoreAmong
      <4>2. Handler(Len(routes) + 1) \in Link
        <5>1. Len(routes) + 1 \in Nat
          BY <1>11
        <5>2. QED
          BY <5>1 DEF Link
      <4>3. Protected(links) /\ links[Len(links)] = Handler(Len(routes) + 1)
        BY <1>3, <1>5, <4>2, Linked
      <4>4. QED
        BY <2>1, <3>1, <3>3, <4>1, <4>3
    <3>4. CASE k # x
      <4>1. Among(routes', {k}) = Among(routes, {k})
        BY <3>2, <3>4 DEF MoreAmong
      <4>2. k \in DOMAIN chains /\ chains'[k] = chains[k]
        BY <2>1, <3>4
      <4>3. QED
        BY <3>1, <4>1, <4>2 DEF ChainsOK
    <3>5. QED
      BY <3>3, <3>4
  <2>4. QED
    BY <2>2, <2>3 DEF ChainsOK
<1>20. QED
  BY <1>13, <1>17, <1>18, <1>19

\* Every call keeps the invariant.
LEMMA RouterKeeps == RouterInv /\ [RouterNext]_rtvars => RouterInv'
<1> SUFFICES ASSUME RouterInv, [RouterNext]_rtvars PROVE RouterInv'
  OBVIOUS
<1>1. ASSUME NEW i \in DOMAIN groups, NEW middleware \in Added, Use(i, middleware)
      PROVE  RouterInv'
  BY <1>1, UseKeeps
<1>2. ASSUME NEW i \in DOMAIN groups, NEW suffix \in Suffix, Group(i, suffix)
      PROVE  RouterInv'
  BY <1>2, GroupKeeps
<1>3. ASSUME NEW i \in DOMAIN groups, NEW m \in Method, NEW p \in Path,
             add_route(i, m, p)
      PROVE  RouterInv'
  BY <1>3, AddKeeps
<1>4. CASE UNCHANGED rtvars
  <2>1. RoutesOK' /\ TriesOK' /\ ChainsOK'
    BY <1>4, SameRoutes DEF rtvars
  <2>2. GroupsOK'
    BY <1>4 DEF RouterInv, GroupsOK, rtvars
  <2>3. QED
    BY <2>1, <2>2 DEF RouterInv
<1>5. QED
  BY <1>1, <1>2, <1>3, <1>4 DEF RouterNext

\* Tries, groups and chains agree with what was registered, at all times.
LEMMA RouterInvariant == RouterSpec => []RouterInv
BY RouterStarts, RouterKeeps, PTL DEF RouterSpec

-----------------------------------------------------------------------------
(* The search.                                                             *)
\* The nodes that a search can come to.
Shallow(m, asked) == {k \in DOMAIN children[m] : Len(k) <= Len(asked)}

\* The search of a node depends on its children only.
LEMMA SearchLocal ==
  ASSUME NEW m, NEW asked, NEW n, NEW g, NEW h,
         Len(n) # Len(asked) =>
           \A i \in DOMAIN children[m][n] :
             g[Append(n, children[m][n][i])] = h[Append(n, children[m][n][i])]
  PROVE  SearchNode(m, asked, g, n) = SearchNode(m, asked, h, n)
<1>1. CASE Len(n) = Len(asked)
  BY <1>1 DEF SearchNode
<1>2. CASE Len(n) # Len(asked)
  <2>1. PICK kids, part : kids = children[m][n] /\ part = asked[Len(n) + 1]
    OBVIOUS
  <2>2. \A i \in DOMAIN kids : g[Append(n, kids[i])] = h[Append(n, kids[i])]
    BY <1>2, <2>1
  <2>3. Results(kids, part, g, n) = Results(kids, part, h, n)
    BY <2>2 DEF Results
  <2>4. QED
    BY <2>1, <2>3 DEF SearchNode
<1>3. QED
  BY <1>1, <1>2

\* What the search is at every node.
Searches(m, asked, f) == \A n \in Shallow(m, asked) : f[n] = SearchNode(m, asked, f, n)

\* From the deepest nodes up there is such a function.
LEMMA SearchUnfolds ==
  ASSUME NEW m, Trie(children[m], pattern[m]), NEW asked, IsPath(asked)
  PROVE  \E f : Searches(m, asked, f) /\ search(m, asked) = f[<<>>]
<1> DEFINE D == DOMAIN children[m]
           N == Len(asked)
           Level(k) == {n \in Shallow(m, asked) : N - Len(n) <= k}
           Is(g, k) == g = [n \in Level(k) |-> SearchNode(m, asked, g, n)]
           T == {k \in Nat : \E g : Is(g, k)}
<1>1. N \in Nat
  BY DEF IsPath
<1>2. ASSUME NEW n \in D
      PROVE  /\ n \in Seq(Segment) /\ Len(n) \in Nat
             /\ \A i \in DOMAIN children[m][n] :
                  /\ Append(n, children[m][n][i]) \in D
                  /\ Len(Append(n, children[m][n][i])) = Len(n) + 1
  <2>1. n \in Seq(Segment) /\ children[m][n] \in Seq(Segment)
    BY DEF Trie, Grown, IsRoute, IsPath
  <2>2. \A i \in DOMAIN children[m][n] : children[m][n][i] \in Segment
    BY <2>1
  <2>3. \A i \in DOMAIN children[m][n] : Append(n, children[m][n][i]) \in D
    BY DEF Trie, Grown
  <2>4. QED
    BY <2>1, <2>2, <2>3
<1>3. 0 \in T
  <2>1. PICK g : g = [n \in Level(0) |-> SearchNode(m, asked, <<>>, n)]
    OBVIOUS
  <2>2. ASSUME NEW n \in Level(0)
        PROVE  SearchNode(m, asked, <<>>, n) = SearchNode(m, asked, g, n)
    <3>1. n \in D /\ Len(n) <= N /\ N - Len(n) <= 0
      BY DEF Shallow
    <3>2. Len(n) = N
      BY <1>1, <1>2, <3>1
    <3>3. QED
      BY <3>2, SearchLocal
  <2>3. Is(g, 0)
    BY <2>1, <2>2
  <2>4. QED
    BY <2>3
<1>4. ASSUME NEW k \in Nat, k \in T PROVE k + 1 \in T
  <2>1. PICK g : Is(g, k)
    BY <1>4
  <2>2. PICK h : h = [n \in Level(k + 1) |-> IF n \in Level(k) THEN g[n]
                                            ELSE SearchNode(m, asked, g, n)]
    OBVIOUS
  <2>3. Level(k) \subseteq Level(k + 1)
    BY <1>1, <1>2 DEF Shallow
  <2>4. \A n \in Level(k) : h[n] = g[n] /\ g[n] = SearchNode(m, asked, g, n)
    BY <2>1, <2>2, <2>3
  <2>5. ASSUME NEW n \in Level(k + 1)
        PROVE  SearchNode(m, asked, g, n) = SearchNode(m, asked, h, n)
    <3>1. n \in D /\ Len(n) <= N /\ N - Len(n) <= k + 1
      BY DEF Shallow
    <3>2. ASSUME Len(n) # N, NEW i \in DOMAIN children[m][n]
          PROVE  Append(n, children[m][n][i]) \in Level(k)
      <4>1. PICK a : a = Append(n, children[m][n][i])
        OBVIOUS
      <4>2. a \in D /\ Len(a) = Len(n) + 1 /\ Len(n) \in Nat
        BY <1>2, <3>1, <3>2, <4>1
      <4>3. Len(a) <= N /\ N - Len(a) <= k
        BY <1>1, <3>1, <3>2, <4>2
      <4>4. QED
        BY <4>1, <4>2, <4>3 DEF Shallow
    <3> HIDE DEF Level
    <3>3. Len(n) # Len(asked) =>
            \A i \in DOMAIN children[m][n] :
              g[Append(n, children[m][n][i])] = h[Append(n, children[m][n][i])]
      BY <2>4, <3>2
    <3>4. QED
      BY <3>3, SearchLocal
  <2> HIDE DEF Level
  <2>6. Is(h, k + 1)
    BY <2>2, <2>4, <2>5
  <2>7. QED
    BY <2>6
<1>5. N \in T
  <2> HIDE DEF T, N
  <2> QED
    BY <1>1, <1>3, <1>4, Induction
<1>6. Level(N) = Shallow(m, asked)
  BY <1>1, <1>2 DEF Shallow
<1> DEFINE All(g) == g = [n \in Shallow(m, asked) |-> SearchNode(m, asked, g, n)]
<1>7. \E g : All(g)
  <2>1. PICK g : Is(g, N)
    BY <1>5
  <2> HIDE DEF Level
  <2>2. QED
    BY <1>6, <2>1
<1>8. PICK f : f = CHOOSE g : All(g)
  OBVIOUS
<1>9. search(m, asked) = f[<<>>]
  BY <1>8 DEF search, Shallow
<1>10. All(f)
  BY <1>7, <1>8
<1>11. QED
  BY <1>9, <1>10 DEF Searches

\* A route that matches behind its first k parts.
RestMatches(o, k, asked) ==
  /\ Len(o) = Len(asked) \/ (~IsNot(o, "wild") /\ Len(o) < Len(asked))
  /\ \A i \in k + 1..Len(o) : o[i].kind = "static" => o[i] = asked[i]

\* What a search may find from node n on.
Candidates(m, asked, n) ==
  {o \in DOMAIN pattern[m] :
     pattern[m][o] # NoPath /\ Begins(n, o) /\ RestMatches(o, Len(n), asked)}

\* Where two routes part, behind part k, the first one is not more specific.
NoneBetter(o, node, k) ==
  \A i \in k + 1..Len(o) :
    i <= Len(node) /\ (\A j \in 1..i - 1 : o[j] = node[j])
      => ~MoreSpecific(o[i], node[i])

\* Parameters behind part k.
ParamPlaces(node, k) == {i \in k + 1..Len(node) : node[i].kind = "param"}

\* Their names have the parts of the request at their places, the first one of a
\* name if there are more.
ParamsBehind(node, k, asked, params) ==
  /\ DOMAIN params = {node[i].name : i \in ParamPlaces(node, k)}
  /\ \A i \in ParamPlaces(node, k) :
       (\A j \in ParamPlaces(node, k) : node[j].name = node[i].name => i <= j)
         => params[node[i].name] = asked[i]

\* What search() may return.
IsResult(r) ==
  \E n, ps : \E b \in BOOLEAN : r = [node |-> n, params |-> ps, found |-> b]

\* The right result, where C may be found and the first k parts are given.
RightIn(C, k, asked, r) ==
  /\ IsResult(r)
  /\ r.found <=> C # {}
  /\ r.found => /\ r.node \in C
                /\ \A o \in C : NoneBetter(o, r.node, k)
                /\ ParamsBehind(r.node, k, asked, r.params)

\* The right result of the search from node n.
Right(m, asked, n, r) == RightIn(Candidates(m, asked, n), Len(n), asked, r)

\* The results that have no parameters.
LEMMA HitIs ==
  ASSUME NEW n
  PROVE  /\ IsResult(Hit(n)) /\ Hit(n).found /\ Hit(n).node = n /\ Hit(n).params = <<>>
         /\ IsResult(NotFound) /\ ~NotFound.found
<1>1. Hit(n) = [node |-> n, params |-> <<>>, found |-> TRUE]
  BY DEF Hit
<1>2. NotFound = [node |-> <<>>, params |-> <<>>, found |-> FALSE]
  BY DEF NotFound
<1>3. IsResult(Hit(n)) /\ IsResult(NotFound)
  BY <1>1, <1>2, TRUE \in BOOLEAN, FALSE \in BOOLEAN, Zenon DEF IsResult
<1>4. QED
  BY <1>1, <1>2, <1>3

\* The types of nodes.
LEMMA NodeTypes ==
  ASSUME NEW m, Trie(children[m], pattern[m]), NEW n \in DOMAIN children[m]
  PROVE  /\ DOMAIN pattern[m] = DOMAIN children[m]
         /\ n \in Seq(Segment) /\ Len(n) \in Nat /\ DOMAIN n = 1..Len(n) /\ IsRoute(n)
         /\ children[m][n] \in Seq(Segment)
         /\ \A i \in DOMAIN children[m][n] :
              children[m][n][i] \in Segment /\ Append(n, children[m][n][i]) \in DOMAIN children[m]
<1>1. n \in Seq(Segment) /\ children[m][n] \in Seq(Segment) /\ IsRoute(n)
  BY DEF Trie, Grown, IsRoute, IsPath
<1>2. DOMAIN pattern[m] = DOMAIN children[m]
  BY DEF Trie, Grown
<1>3. \A i \in DOMAIN children[m][n] : Append(n, children[m][n][i]) \in DOMAIN children[m]
  BY DEF Trie, Grown
<1>4. \A i \in DOMAIN children[m][n] : children[m][n][i] \in Segment
  BY <1>1
<1>5. QED
  BY <1>1, <1>2, <1>3, <1>4

\* The node is as deep as the path.
LEMMA LeafRight ==
  ASSUME NEW m, Trie(children[m], pattern[m]), NEW asked, IsPath(asked),
         NEW n \in DOMAIN children[m], Len(n) = Len(asked), NEW f
  PROVE  Right(m, asked, n, SearchNode(m, asked, f, n))
<1>1. PICK C : C = Candidates(m, asked, n)
  OBVIOUS
<1>2. n \in Seq(Segment) /\ Len(n) \in Nat /\ n \in DOMAIN pattern[m]
  BY NodeTypes
<1>3. ASSUME NEW o \in C PROVE o = n
  <2>1. o \in DOMAIN pattern[m] /\ Begins(n, o) /\ RestMatches(o, Len(n), asked)
    BY <1>1 DEF Candidates
  <2>2. o \in Seq(Segment) /\ Len(o) \in Nat
    BY <2>1, NodeTypes DEF Trie, Grown
  <2>3. Len(o) = Len(n) /\ \A i \in 1..Len(n) : o[i] = n[i]
    BY <1>2, <2>1, <2>2 DEF Begins, RestMatches
  <2>4. QED
    BY <1>2, <2>2, <2>3, SameSequence
<1>4. pattern[m][n] # NoPath => n \in C
  <2>1. Begins(n, n) /\ RestMatches(n, Len(n), asked)
    BY <1>2 DEF Begins, RestMatches
  <2>2. QED
    BY <1>1, <1>2, <2>1 DEF Candidates
<1>5. pattern[m][n] = NoPath => C = {}
  BY <1>1, <1>3 DEF Candidates
<1>6. CASE pattern[m][n] = NoPath
  <2>1. SearchNode(m, asked, f, n) = NotFound
    BY <1>6 DEF SearchNode
  <2>2. QED
    BY <1>1, <1>5, <1>6, <2>1, HitIs DEF Right, RightIn
<1>7. CASE pattern[m][n] # NoPath
  <2>1. SearchNode(m, asked, f, n) = Hit(n)
    BY <1>7 DEF SearchNode
  <2>2. NoneBetter(n, n, Len(n)) /\ ParamPlaces(n, Len(n)) = {}
    <3>1. Len(n) + 1..Len(n) = {}
      BY <1>2
    <3>2. QED
      BY <3>1 DEF NoneBetter, ParamPlaces
  <2>3. ParamsBehind(n, Len(n), asked, <<>>)
    BY <2>2 DEF ParamsBehind
  <2>4. C = {n}
    BY <1>3, <1>4, <1>7
  <2>5. QED
    BY <1>1, <2>1, <2>2, <2>3, <2>4, HitIs DEF Right, RightIn
<1>8. QED
  BY <1>6, <1>7

\* Candidates that go through a child.
Through(m, asked, n, a) == {o \in Candidates(m, asked, n) : Begins(a, o)}

\* The child is a wildcard.
LEMMA WildRight ==
  ASSUME NEW m, Trie(children[m], pattern[m]), NEW asked, IsPath(asked),
         NEW n \in DOMAIN children[m], Len(n) < Len(asked),
         NEW i \in DOMAIN children[m][n], NEW c, c = children[m][n][i],
         c.kind = "wild", NEW a, a = Append(n, c)
  PROVE  RightIn(Through(m, asked, n, a), Len(n), asked, Hit(a))
<1>1. PICK C : C = Through(m, asked, n, a)
  OBVIOUS
<1>2. /\ n \in Seq(Segment) /\ Len(n) \in Nat /\ Len(asked) \in Nat
      /\ c \in Segment /\ a \in DOMAIN children[m] /\ a \in DOMAIN pattern[m]
  BY NodeTypes DEF IsPath
<1>3. /\ a \in Seq(Segment) /\ Len(a) = Len(n) + 1 /\ a[Len(a)] = c
      /\ \A j \in 1..Len(n) : a[j] = n[j]
  BY <1>2
<1>4. ~IsNot(a, "wild") /\ Begins(n, a) /\ Begins(a, a)
  <2>1. a # <<>>
    BY <1>2, <1>3
  <2>2. QED
    BY <1>2, <1>3, <2>1 DEF IsNot, Begins
<1>5. pattern[m][a] # NoPath
  BY <1>2, <1>4 DEF Trie, Grown
<1>6. RestMatches(a, Len(n), asked)
  <2>1. Len(a) <= Len(asked)
    BY <1>2, <1>3
  <2>2. \A j \in Len(n) + 1..Len(a) : j = Len(a) /\ a[j].kind # "static"
    BY <1>2, <1>3
  <2>3. QED
    BY <1>2, <1>3, <1>4, <2>1, <2>2 DEF RestMatches
<1>7. a \in C
  BY <1>1, <1>2, <1>4, <1>5, <1>6 DEF Through, Candidates
<1>8. ASSUME NEW o \in C PROVE o = a
  <2>1. o \in DOMAIN children[m] /\ Begins(a, o)
    BY <1>1, <1>2, NodeTypes DEF Through, Candidates
  <2>2. o \in Seq(Segment) /\ Len(o) \in Nat /\ IsRoute(o) /\ DOMAIN o = 1..Len(o)
    BY <2>1, NodeTypes
  <2>3. Len(a) \in 1..Len(o) /\ o[Len(a)] = c
    BY <1>2, <1>3, <2>1, <2>2 DEF Begins
  <2>4. Len(o) = Len(a)
    BY <2>2, <2>3 DEF IsRoute
  <2>5. QED
    BY <1>3, <2>1, <2>2, <2>4, SameSequence DEF Begins
<1>9. NoneBetter(a, a, Len(n))
  BY DEF NoneBetter, MoreSpecific
<1>10. ParamPlaces(a, Len(n)) = {}
  <2>1. \A j \in Len(n) + 1..Len(a) : j = Len(a)
    BY <1>2, <1>3
  <2>2. QED
    BY <1>3, <2>1 DEF ParamPlaces
<1>11. ParamsBehind(a, Len(n), asked, <<>>)
  BY <1>10 DEF ParamsBehind
<1>12. C = {a}
  BY <1>7, <1>8
<1>13. QED
  BY <1>1, <1>9, <1>11, <1>12, HitIs DEF RightIn

\* What is put in is the first parameter of its name.
LEMMA ParamGrows ==
  ASSUME NEW o \in Seq(Segment), NEW k \in Nat, k + 1 <= Len(o), NEW asked, NEW params,
         ParamsBehind(o, k + 1, asked, params)
  PROVE  ParamsBehind(o, k, asked,
           IF o[k + 1].kind = "param" THEN Bind(params, o[k + 1].name, asked[k + 1])
           ELSE params)
<1>1. PICK c : c = o[k + 1]
  OBVIOUS
<1>2. PICK S, R : S = ParamPlaces(o, k + 1) /\ R = ParamPlaces(o, k)
  OBVIOUS
<1>3. Len(o) \in Nat /\ k + 1 \in Nat
  OBVIOUS
<1>4. \A i \in k + 1..Len(o) : i = k + 1 \/ (i \in (k + 1) + 1..Len(o) /\ k + 1 <= i)
  BY <1>3
<1>5. \A i \in (k + 1) + 1..Len(o) : i \in k + 1..Len(o) /\ ~(i <= k + 1)
  BY <1>3
<1>6. k + 1 \in k + 1..Len(o)
  BY <1>3
<1>7. /\ DOMAIN params = {o[i].name : i \in S}
      /\ \A i \in S : (\A j \in S : o[j].name = o[i].name => i <= j)
                        => params[o[i].name] = asked[i]
  BY <1>2 DEF ParamsBehind
<1>8. CASE c.kind # "param"
  <2>1. R = S
    BY <1>1, <1>2, <1>4, <1>5, <1>8 DEF ParamPlaces
  <2>2. QED
    BY <1>1, <1>2, <1>7, <1>8, <2>1 DEF ParamsBehind
<1>9. CASE c.kind = "param"
  <2>1. R = S \cup {k + 1} /\ k + 1 \notin S
    BY <1>1, <1>2, <1>4, <1>5, <1>6, <1>9 DEF ParamPlaces
  <2>2. PICK new : new = Bind(params, c.name, asked[k + 1])
    OBVIOUS
  <2>3. /\ DOMAIN new = DOMAIN params \cup {c.name} /\ new[c.name] = asked[k + 1]
        /\ \A x \in DOMAIN params : x # c.name => new[x] = params[x]
    BY <2>2 DEF Bind
  <2>4. DOMAIN new = {o[i].name : i \in R}
    BY <1>1, <1>7, <2>1, <2>3
  <2>5. ASSUME NEW i \in R, \A j \in R : o[j].name = o[i].name => i <= j
        PROVE  new[o[i].name] = asked[i]
    <3>1. CASE i = k + 1
      BY <1>1, <2>3, <3>1
    <3>2. CASE i # k + 1
      <4>1. i \in S /\ ~(i <= k + 1)
        BY <1>2, <1>5, <2>1, <3>2 DEF ParamPlaces
      <4>2. o[i].name # c.name
        BY <1>1, <2>1, <2>5, <4>1
      <4>3. params[o[i].name] = asked[i]
        BY <1>7, <2>1, <2>5, <4>1
      <4>4. o[i].name \in DOMAIN params
        BY <1>7, <4>1
      <4>5. QED
        BY <2>3, <4>2, <4>3, <4>4
    <3>3. QED
      BY <3>1, <3>2
  <2>6. ParamsBehind(o, k, asked, new)
    BY <1>2, <2>4, <2>5 DEF ParamsBehind
  <2>7. QED
    BY <1>1, <1>9, <2>2, <2>6
<1>10. QED
  BY <1>8, <1>9

\* What becomes of a result on the way back.
LEMMA RecordIs ==
  ASSUME NEW r, IsResult(r), NEW c, NEW part
  PROVE  LET s == Record(c, part, r)
         IN  /\ IsResult(s) /\ s.found = r.found /\ s.node = r.node
             /\ r.found => s.params = IF c.kind = "param" THEN Bind(r.params, c.name, part)
                                      ELSE r.params
<1>1. PICK n, ps : \E b \in BOOLEAN : r = [node |-> n, params |-> ps, found |-> b]
  BY DEF IsResult
<1>2. PICK b \in BOOLEAN : r = [node |-> n, params |-> ps, found |-> b]
  BY <1>1
<1>3. r.found = b /\ r.node = n /\ r.params = ps
  BY <1>2
<1>4. CASE b /\ c.kind = "param"
  <2>1. PICK new : new = Bind(ps, c.name, part)
    OBVIOUS
  <2>2. Record(c, part, r) = [r EXCEPT !.params = new]
    BY <1>3, <1>4, <2>1 DEF Record
  <2>3. [r EXCEPT !.params = new] = [node |-> n, params |-> new, found |-> b]
    BY <1>2
  <2>4. PICK s : s = [node |-> n, params |-> new, found |-> b]
    OBVIOUS
  <2>5. IsResult(s) /\ s.found = b /\ s.node = n /\ s.params = new
    BY <2>4 DEF IsResult
  <2>6. Record(c, part, r) = s
    BY <2>2, <2>3, <2>4
  <2>7. QED
    BY <1>3, <1>4, <2>1, <2>5, <2>6
<1>5. CASE ~(b /\ c.kind = "param")
  <2>1. Record(c, part, r) = r
    BY <1>3, <1>5 DEF Record
  <2>2. QED
    BY <1>3, <1>5, <2>1
<1>6. QED
  BY <1>4, <1>5

\* The child is no wildcard, and what its own search comes to is right.
LEMMA StepRight ==
  ASSUME NEW m, Trie(children[m], pattern[m]), NEW asked, IsPath(asked),
         NEW n \in DOMAIN children[m], Len(n) < Len(asked),
         NEW i \in DOMAIN children[m][n], NEW c, c = children[m][n][i],
         c.kind # "wild", NEW part, part = asked[Len(n) + 1],
         c.kind = "static" => c = part,
         NEW a, a = Append(n, c), NEW r, Right(m, asked, a, r)
  PROVE  RightIn(Through(m, asked, n, a), Len(n), asked, Record(c, part, r))
<1>1. PICK C, A : C = Through(m, asked, n, a) /\ A = Candidates(m, asked, a)
  OBVIOUS
<1>2. /\ n \in Seq(Segment) /\ Len(n) \in Nat /\ Len(asked) \in Nat
      /\ c \in Segment /\ a \in DOMAIN children[m] /\ a \in DOMAIN pattern[m]
  BY NodeTypes DEF IsPath
<1>3. /\ a \in Seq(Segment) /\ Len(a) = Len(n) + 1 /\ a[Len(n) + 1] = c
      /\ \A j \in 1..Len(n) : a[j] = n[j]
  BY <1>2
<1>4. ASSUME NEW o, Begins(a, o), o \in Seq(Segment)
      PROVE  /\ Len(o) \in Nat /\ Len(n) + 1 <= Len(o) /\ o[Len(n) + 1] = c
             /\ Begins(n, o)
             /\ RestMatches(o, Len(n), asked) <=> RestMatches(o, Len(a), asked)
  <2>1. Len(o) \in Nat /\ Len(n) + 1 <= Len(o) /\ \A j \in 1..Len(a) : o[j] = a[j]
    BY <1>3, <1>4 DEF Begins
  <2>2. o[Len(n) + 1] = c /\ Begins(n, o)
    BY <1>2, <1>3, <2>1 DEF Begins
  <2>3. \A j \in Len(n) + 1..Len(o) : j = Len(n) + 1 \/ j \in Len(a) + 1..Len(o)
    BY <1>2, <1>3, <2>1
  <2>4. \A j \in Len(a) + 1..Len(o) : j \in Len(n) + 1..Len(o)
    BY <1>2, <1>3, <2>1
  <2>5. (\A j \in Len(n) + 1..Len(o) : o[j].kind = "static" => o[j] = asked[j])
          <=> (\A j \in Len(a) + 1..Len(o) : o[j].kind = "static" => o[j] = asked[j])
    BY <2>2, <2>3, <2>4
  <2>6. QED
    BY <2>1, <2>2, <2>5 DEF RestMatches
<1>5. \A o \in DOMAIN pattern[m] : o \in Seq(Segment)
  BY NodeTypes DEF Trie, Grown
<1>6. C = A
  <2>1. \A o \in C : o \in A
    BY <1>1, <1>4, <1>5 DEF Through, Candidates
  <2>2. \A o \in A : o \in C
    BY <1>1, <1>4, <1>5 DEF Through, Candidates
  <2>3. QED
    BY <2>1, <2>2
<1>7. RightIn(A, Len(n) + 1, asked, r)
  BY <1>1, <1>3 DEF Right
<1>8. PICK s : s = Record(c, part, r)
  OBVIOUS
<1>9. /\ IsResult(r) /\ IsResult(s) /\ s.found = r.found /\ s.node = r.node
      /\ r.found => s.params = IF c.kind = "param" THEN Bind(r.params, c.name, part)
                               ELSE r.params
  BY <1>7, <1>8, RecordIs DEF RightIn
<1>10. ASSUME r.found
       PROVE  /\ r.node \in C /\ \A o \in C : NoneBetter(o, r.node, Len(n))
              /\ ParamsBehind(r.node, Len(n), asked, s.params)
  <2>1. PICK node : node = r.node
    OBVIOUS
  <2>2. /\ node \in A /\ \A o \in A : NoneBetter(o, node, Len(n) + 1)
        /\ ParamsBehind(node, Len(n) + 1, asked, r.params)
    BY <1>7, <1>10, <2>1 DEF RightIn
  <2>3. \A o \in A : /\ Begins(a, o) /\ o \in Seq(Segment) /\ Len(o) \in Nat
                     /\ o[Len(n) + 1] = c /\ Len(n) + 1 <= Len(o)
    BY <1>1, <1>4, <1>5 DEF Candidates
  <2>4. ASSUME NEW o \in A PROVE NoneBetter(o, node, Len(n))
    <3>1. NoneBetter(o, node, Len(n) + 1) /\ o[Len(n) + 1] = node[Len(n) + 1]
      BY <2>2, <2>3
    <3>2. \A j \in Len(n) + 1..Len(o) : j = Len(n) + 1 \/ j \in (Len(n) + 1) + 1..Len(o)
      BY <1>2, <2>3
    <3>3. ~MoreSpecific(c, c)
      BY DEF MoreSpecific
    <3>4. o[Len(n) + 1] = c /\ node[Len(n) + 1] = c
      BY <2>2, <2>3
    <3>5. QED
      BY <3>1, <3>2, <3>3, <3>4 DEF NoneBetter
  <2>5. ParamsBehind(node, Len(n), asked, s.params)
    <3>1. /\ node \in Seq(Segment) /\ Len(n) + 1 <= Len(node) /\ node[Len(n) + 1] = c
      BY <2>2, <2>3
    <3>2. s.params = IF node[Len(n) + 1].kind = "param"
                     THEN Bind(r.params, node[Len(n) + 1].name, asked[Len(n) + 1])
                     ELSE r.params
      BY <1>9, <1>10, <3>1
    <3>3. QED
      BY <1>2, <2>2, <3>1, <3>2, ParamGrows
  <2>6. QED
    BY <1>6, <2>1, <2>2, <2>4, <2>5
<1>11. RightIn(C, Len(n), asked, s)
  BY <1>6, <1>7, <1>9, <1>10 DEF RightIn
<1>12. QED
  BY <1>1, <1>8, <1>11

\* A set of numbers has a least one.
LEMMA Least ==
  ASSUME NEW S, S \subseteq Nat, S # {}
  PROVE  \E x \in S : \A y \in S : x <= y
<1>1. IsWellFoundedOn(OpToRel(<, Nat), Nat)
  BY NatLessThanWellFounded
<1>2. PICK x \in S : \A y \in S : ~ (<<y, x>> \in OpToRel(<, Nat))
  BY ONLY <1>1, S \subseteq Nat, S # {}, WFMin
<1>3. \A y \in S : ~(y < x)
  BY <1>2 DEF OpToRel
<1>4. QED
  BY <1>3

\* The hit that search() returns: none has a higher priority.
LEMMA FirstHitIs ==
  ASSUME NEW kids \in Seq(Segment), NEW results, DOMAIN results \subseteq DOMAIN kids,
         Hits(kids, results) # {}
  PROVE  /\ FirstHit(kids, results) \in Hits(kids, results)
         /\ \A j \in Hits(kids, results) :
              Priority(kids[FirstHit(kids, results)]) <= Priority(kids[j])
<1>1. PICK H : H = Hits(kids, results)
  OBVIOUS
<1> DEFINE P(i) == Priority(kids[i])
           First(i) == \A j \in H : P(i) < P(j) \/ (P(i) = P(j) /\ i <= j)
<1>2. H \subseteq Nat /\ H # {}
  BY <1>1 DEF Hits
<1>3. \A i \in H : P(i) \in Nat
  BY DEF Priority
<1> HIDE DEF P
<1>4. PICK v \in {P(i) : i \in H} : \A w \in {P(i) : i \in H} : v <= w
  BY <1>2, <1>3, Least
<1>5. PICK i \in {j \in H : P(j) = v} : \A j \in {k \in H : P(k) = v} : i <= j
  <2>1. {j \in H : P(j) = v} \subseteq Nat /\ {j \in H : P(j) = v} # {}
    BY <1>2, <1>4
  <2>2. QED
    BY <2>1, Least
<1>6. First(i)
  <2>1. ASSUME NEW j \in H PROVE P(i) < P(j) \/ (P(i) = P(j) /\ i <= j)
    BY <1>3, <1>4, <1>5
  <2>2. QED
    BY <2>1
<1>7. FirstHit(kids, results) = CHOOSE j \in H : First(j)
  BY <1>1 DEF FirstHit, P
<1>8. PICK b : b = FirstHit(kids, results)
  OBVIOUS
<1> HIDE DEF First
<1>9. b \in H /\ First(b)
  BY <1>5, <1>6, <1>7, <1>8
<1>10. \A j \in H : P(b) <= P(j)
  BY <1>3, <1>9 DEF First
<1>11. QED
  BY <1>1, <1>8, <1>9, <1>10 DEF P

\* A node whose children are searched rightly.
LEMMA NodeRight ==
  ASSUME NEW m, Trie(children[m], pattern[m]), NEW asked, IsPath(asked),
         NEW n \in DOMAIN children[m], Len(n) < Len(asked), IsNot(n, "wild"),
         NEW f, NEW kids, kids = children[m][n],
         NEW results, results = Results(kids, asked[Len(n) + 1], f, n),
         \A i \in DOMAIN results :
           RightIn(Through(m, asked, n, Append(n, kids[i])), Len(n), asked, results[i])
  PROVE  Right(m, asked, n, SearchNode(m, asked, f, n))
<1>1. PICK C, part : C = Candidates(m, asked, n) /\ part = asked[Len(n) + 1]
  OBVIOUS
<1>2. PICK r : r = SearchNode(m, asked, f, n)
  OBVIOUS
<1>3. /\ n \in Seq(Segment) /\ Len(n) \in Nat /\ Len(asked) \in Nat
      /\ kids \in Seq(Segment)
  BY NodeTypes DEF IsPath
<1>4. DOMAIN results = {j \in DOMAIN kids : kids[j].kind = "static" => kids[j] = part}
  BY <1>1 DEF Results
<1>5. r = IF Hits(kids, results) = {} THEN NotFound
          ELSE results[FirstHit(kids, results)]
  <2>1. Len(n) # Len(asked)
    BY <1>3
  <2>2. QED
    BY <1>2, <2>1 DEF SearchNode
\* Every candidate goes through a child that fits.
<1>6. ASSUME NEW o \in C
      PROVE  /\ o \in Seq(Segment) /\ Len(o) \in Nat /\ Len(n) + 1 <= Len(o)
             /\ o[Len(n) + 1].kind \in {"static", "param", "wild"}
             /\ \E j \in DOMAIN results :
                  kids[j] = o[Len(n) + 1] /\ o \in Through(m, asked, n, Append(n, kids[j]))
  <2>1. /\ o \in DOMAIN children[m] /\ Begins(n, o) /\ RestMatches(o, Len(n), asked)
    BY <1>1, NodeTypes DEF Candidates
  <2>2. /\ o \in Seq(Segment) /\ Len(o) \in Nat /\ Len(n) <= Len(o)
        /\ \A j \in 1..Len(n) : o[j] = n[j]
    BY <2>1, NodeTypes DEF Begins
  <2>3. Len(o) # Len(n)
    <3>1. SUFFICES ASSUME Len(o) = Len(n) PROVE FALSE
      OBVIOUS
    <3>2. o = n
      BY <1>3, <2>2, <3>1, SameSequence
    <3>3. QED
      BY <1>3, <2>1, <3>2 DEF RestMatches
  <2>4. Len(n) + 1 \in 1..Len(o) /\ Len(n) + 1 \in Len(n) + 1..Len(o)
        /\ (Len(n) + 1) - 1 = Len(n)
    BY <1>3, <2>2, <2>3
  <2>5. PICK c : c = o[Len(n) + 1]
    OBVIOUS
  <2>6. PICK j \in DOMAIN kids : kids[j] = c
    <3>1. PICK k \in 1..Len(o) : k = Len(n) + 1 /\ k - 1 = Len(n)
      BY <2>4
    <3>2. \E j \in DOMAIN children[m][Upto(o, k - 1)] :
             children[m][Upto(o, k - 1)][j] = o[k]
      BY <2>1 DEF Trie, Grown
    <3>3. Upto(o, k - 1) = n
      BY <1>3, <2>1, <2>2, <3>1, BeginningIs
    <3>4. QED
      BY <2>5, <3>1, <3>2, <3>3
  <2>7. c.kind = "static" => c = part
    BY <1>1, <2>1, <2>4, <2>5 DEF RestMatches
  <2>8. j \in DOMAIN results
    BY <1>4, <2>6, <2>7
  <2>9. Begins(Append(n, c), o)
    <3>1. PICK a : a = Append(n, c)
      OBVIOUS
    <3>2. c \in Segment
      BY <2>2, <2>4, <2>5
    <3>3. /\ Len(a) = Len(n) + 1 /\ a[Len(n) + 1] = c
          /\ \A i \in 1..Len(n) : a[i] = n[i]
      BY <1>3, <3>1, <3>2
    <3>4. \A i \in 1..Len(a) : i = Len(n) + 1 \/ i \in 1..Len(n)
      BY <1>3, <3>3
    <3>5. \A i \in 1..Len(a) : o[i] = a[i]
      BY <2>2, <2>5, <3>3, <3>4
    <3>6. QED
      BY <2>4, <3>1, <3>3, <3>5 DEF Begins
  <2>10. c.kind \in {"static", "param", "wild"}
    <3>1. c \in Segment
      BY <2>2, <2>4, <2>5
    <3>2. Len(n) + 1 \in DOMAIN o /\ IsRoute(o)
      BY <2>1, <2>2, <2>4, NodeTypes
    <3>3. c.kind # "empty"
      BY <2>5, <3>2 DEF IsRoute
    <3>4. QED
      BY <3>1, <3>3 DEF Segment
  <2>11. QED
    BY <1>1, <2>2, <2>4, <2>5, <2>6, <2>8, <2>9, <2>10 DEF Through
<1>7. \A j \in DOMAIN results : results[j].found <=>
        Through(m, asked, n, Append(n, kids[j])) # {}
  BY DEF RightIn
<1>8. \A j : Through(m, asked, n, Append(n, kids[j])) \subseteq C
  BY <1>1 DEF Through
<1>9. CASE Hits(kids, results) = {}
  <2>1. C = {}
    BY <1>6, <1>7, <1>9 DEF Hits
  <2>2. QED
    BY <1>1, <1>2, <1>5, <1>9, <2>1, HitIs DEF Right, RightIn
<1>10. CASE Hits(kids, results) # {}
  <2>1. PICK b : b = FirstHit(kids, results)
    OBVIOUS
  <2>2. /\ b \in Hits(kids, results)
        /\ \A j \in Hits(kids, results) : Priority(kids[b]) <= Priority(kids[j])
    BY <1>3, <1>4, <1>10, <2>1, FirstHitIs
  <2>3. r = results[b] /\ b \in DOMAIN results /\ r.found
    BY <1>5, <1>10, <2>1, <2>2 DEF Hits
  <2>4. PICK A, node : A = Through(m, asked, n, Append(n, kids[b])) /\ node = r.node
    OBVIOUS
  <2>5. RightIn(A, Len(n), asked, r)
    BY <2>3, <2>4
  <2>6. /\ IsResult(r) /\ node \in A /\ \A o \in A : NoneBetter(o, node, Len(n))
        /\ ParamsBehind(node, Len(n), asked, r.params)
    BY <2>3, <2>4, <2>5 DEF RightIn
  <2>7. node \in C /\ node[Len(n) + 1] = kids[b]
    <3>1. node \in C /\ Begins(Append(n, kids[b]), node)
      BY <1>8, <2>4, <2>6 DEF Through
    <3>2. kids[b] \in Segment
      BY <1>3, <1>4, <2>3
    <3>3. Len(Append(n, kids[b])) = Len(n) + 1 /\ Append(n, kids[b])[Len(n) + 1] = kids[b]
      BY <1>3, <3>2
    <3>4. Len(n) + 1 \in 1..Len(n) + 1
      BY <1>3
    <3>5. QED
      BY <3>1, <3>3, <3>4 DEF Begins
  <2>8. ASSUME NEW o \in C PROVE NoneBetter(o, node, Len(n))
    <3>1. PICK j \in DOMAIN results :
            kids[j] = o[Len(n) + 1] /\ o \in Through(m, asked, n, Append(n, kids[j]))
      BY <1>6
    <3>2. CASE kids[j] = kids[b]
      BY <2>4, <2>6, <3>1, <3>2
    <3>3. CASE kids[j] # kids[b]
      <4>1. j \in Hits(kids, results)
        BY <1>7, <3>1 DEF Hits
      <4>2. Priority(kids[b]) <= Priority(kids[j])
        BY <2>2, <4>1
      <4>3. ~MoreSpecific(kids[j], kids[b])
        <5>1. /\ kids[j].kind \in {"static", "param", "wild"}
              /\ kids[b].kind \in {"static", "param", "wild"}
          BY <1>6, <2>7, <3>1
        <5>2. QED
          BY <4>2, <5>1 DEF MoreSpecific, Priority
      <4>4. \A i \in Len(n) + 1..Len(o) :
              i = Len(n) + 1 \/ Len(n) + 1 \in 1..i - 1
        BY <1>3, <1>6
      <4>5. QED
        BY <2>7, <3>1, <3>3, <4>3, <4>4 DEF NoneBetter
    <3>4. QED
      BY <3>2, <3>3
  <2>9. RightIn(C, Len(n), asked, r)
    BY <2>3, <2>4, <2>6, <2>7, <2>8 DEF RightIn
  <2>10. QED
    BY <1>1, <1>2, <2>9 DEF Right
<1>11. QED
  BY <1>9, <1>10

\* From the deepest nodes up, every search is right.
LEMMA SearchRight ==
  ASSUME NEW m, Trie(children[m], pattern[m]), NEW asked, IsPath(asked),
         NEW f, Searches(m, asked, f)
  PROVE  Right(m, asked, <<>>, f[<<>>])
<1> DEFINE N == Len(asked)
           T == {k \in Nat : \A n \in Shallow(m, asked) :
                   N - Len(n) <= k /\ IsNot(n, "wild") => Right(m, asked, n, f[n])}
<1>1. N \in Nat
  BY DEF IsPath
<1>2. \A n \in Shallow(m, asked) : /\ n \in DOMAIN children[m] /\ Len(n) \in Nat
                                   /\ Len(n) <= N /\ f[n] = SearchNode(m, asked, f, n)
  BY NodeTypes DEF Shallow, Searches
<1>3. \A n \in Shallow(m, asked) : Len(n) = N => Right(m, asked, n, f[n])
  BY <1>2, LeafRight
<1>4. 0 \in T
  BY <1>1, <1>2, <1>3
<1>5. ASSUME NEW k \in Nat, k \in T PROVE k + 1 \in T
  <2>1. ASSUME NEW n \in Shallow(m, asked), N - Len(n) <= k + 1, IsNot(n, "wild")
        PROVE  Right(m, asked, n, f[n])
    <3>1. CASE Len(n) = N
      BY <1>3, <3>1
    <3>2. CASE Len(n) # N
      <4>1. n \in DOMAIN children[m] /\ Len(n) \in Nat /\ Len(n) < N
        BY <1>1, <1>2, <3>2
      <4>2. PICK kids, part, results :
              /\ kids = children[m][n] /\ part = asked[Len(n) + 1]
              /\ results = Results(kids, part, f, n)
        OBVIOUS
      <4>3. ASSUME NEW i \in DOMAIN results
            PROVE  RightIn(Through(m, asked, n, Append(n, kids[i])), Len(n), asked,
                           results[i])
        <5>1. PICK c, a : c = kids[i] /\ a = Append(n, c)
          OBVIOUS
        <5>2. /\ i \in DOMAIN kids /\ (c.kind = "static" => c = part)
              /\ results[i] = IF c.kind = "wild" THEN Hit(a) ELSE Record(c, part, f[a])
          BY <4>2, <4>3, <5>1 DEF Results
        <5>3. /\ Trie(children[m], pattern[m]) /\ IsPath(asked)
              /\ n \in DOMAIN children[m] /\ Len(n) < Len(asked)
              /\ i \in DOMAIN children[m][n] /\ c = children[m][n][i]
              /\ part = asked[Len(n) + 1] /\ a = Append(n, c)
              /\ (c.kind = "static" => c = part)
          BY <4>1, <4>2, <5>1, <5>2
        <5>4. CASE c.kind = "wild"
          <6>1. RightIn(Through(m, asked, n, a), Len(n), asked, Hit(a))
            BY ONLY <5>3, <5>4, WildRight
          <6>2. QED
            BY <5>1, <5>2, <5>4, <6>1
        <5>5. CASE c.kind # "wild"
          <6>1. /\ n \in Seq(Segment) /\ c \in Segment /\ a \in DOMAIN children[m]
            BY <4>1, <4>2, <5>1, <5>2, NodeTypes
          <6>2. Len(a) = Len(n) + 1 /\ a[Len(a)] = c
            BY <4>1, <5>1, <6>1
          <6>3. a \in Shallow(m, asked) /\ N - Len(a) <= k
            BY <1>1, <2>1, <4>1, <6>1, <6>2 DEF Shallow
          <6>4. IsNot(a, "wild")
            BY <5>5, <6>2 DEF IsNot
          <6>5. PICK r : r = f[a]
            OBVIOUS
          <6>6. Right(m, asked, a, r)
            BY <1>5, <6>3, <6>4, <6>5
          <6>7. RightIn(Through(m, asked, n, a), Len(n), asked, Record(c, part, r))
            BY ONLY <5>3, <5>5, <6>6, StepRight
          <6>8. QED
            BY <5>1, <5>2, <5>5, <6>5, <6>7
        <5>6. QED
          BY <5>4, <5>5
      <4>4. Right(m, asked, n, SearchNode(m, asked, f, n))
        BY <2>1, <4>1, <4>2, <4>3, NodeRight
      <4>5. QED
        BY <1>2, <4>4
    <3>3. QED
      BY <3>1, <3>2
  <2> HIDE DEF N
  <2>2. QED
    BY <2>1
<1>6. N \in T
  <2> HIDE DEF T, N
  <2> QED
    BY <1>1, <1>4, <1>5, Induction
<1>7. <<>> \in Shallow(m, asked) /\ N - Len(<<>>) <= N /\ IsNot(<<>>, "wild")
  BY <1>1 DEF Shallow, Trie, IsNot
<1>8. QED
  BY <1>6, <1>7

-----------------------------------------------------------------------------
(* The properties of the routes.                                           *)
\* What may be found from the root is what matches.
LEMMA MatchingIs ==
  ASSUME RouterInv, NEW m \in DOMAIN children, NEW p, IsPath(p)
  PROVE  Candidates(m, parse_pattern(p), <<>>) = Matching(m, p)
<1>1. PICK asked : asked = parse_pattern(p)
  OBVIOUS
<1>2. /\ Trie(children[m], pattern[m]) /\ Holds(m)
      /\ DOMAIN pattern[m] = DOMAIN children[m]
  BY DEF RouterInv, TriesOK, Trie, Grown
<1>3. ASSUME NEW o, IsPath(o)
      PROVE  Begins(<<>>, o) /\ (RestMatches(o, 0, asked) <=> Matches(o, asked))
  <2>1. Begins(<<>>, o) /\ DOMAIN o = 0 + 1..Len(o)
    BY <1>3 DEF Begins, IsPath
  <2>2. QED
    BY <2>1 DEF RestMatches, Matches, IsNot
<1>4. \A o \in DOMAIN pattern[m] : IsPath(o)
  BY <1>2, NodeTypes DEF IsPath
<1>5. ASSUME NEW o \in Candidates(m, asked, <<>>) PROVE o \in Matching(m, p)
  <2>1. o \in DOMAIN pattern[m] /\ pattern[m][o] # NoPath /\ Matches(o, asked)
    BY <1>3, <1>4 DEF Candidates
  <2>2. Registered(m, o) # {} /\ LastPath(m, o) # NoPath
    BY <1>2, <2>1 DEF Holds
  <2>3. PICK i \in DOMAIN routes : routes[i][1] = m /\ parse_pattern(routes[i][2]) = o
    BY <2>2 DEF Registered
  <2>4. QED
    BY <1>1, <2>1, <2>2, <2>3 DEF Matching
<1>6. ASSUME NEW o \in Matching(m, p) PROVE o \in Candidates(m, asked, <<>>)
  <2>1. PICK i \in DOMAIN routes : routes[i][1] = m /\ parse_pattern(routes[i][2]) = o
    BY DEF Matching
  <2>2. Matches(o, asked) /\ LastPath(m, o) # NoPath
    BY <1>1 DEF Matching
  <2>3. o \in DOMAIN pattern[m]
    BY <1>2, <2>1 DEF RouterInv, RoutesOK
  <2>4. Registered(m, o) # {}
    BY <2>1 DEF Registered
  <2>5. pattern[m][o] # NoPath
    BY <1>2, <2>2, <2>3, <2>4 DEF Holds
  <2>6. QED
    BY <1>3, <1>4, <2>2, <2>3, <2>5 DEF Candidates
<1>7. QED
  BY <1>1, <1>5, <1>6

\* The result of a search from the root.
LEMMA RouteRight ==
  ASSUME RouterInv, NEW m, NEW p, IsPath(p)
  PROVE  RightIn(Matching(m, p), 0, parse_pattern(p), get_route(m, p))
<1>1. PICK asked : asked = parse_pattern(p)
  OBVIOUS
<1>2. CASE m \in DOMAIN children
  <2>1. Trie(children[m], pattern[m])
    BY <1>2 DEF RouterInv, TriesOK
  <2>2. IsPath(asked)
    BY <1>1, Parsed DEF IsRoute
  <2>3. PICK f : Searches(m, asked, f) /\ search(m, asked) = f[<<>>]
    BY <2>1, <2>2, SearchUnfolds
  <2>4. Right(m, asked, <<>>, f[<<>>])
    BY <2>1, <2>2, <2>3, SearchRight
  <2>5. Candidates(m, asked, <<>>) = Matching(m, p)
    BY <1>1, <1>2, MatchingIs
  <2>6. get_route(m, p) = f[<<>>]
    BY <1>1, <1>2, <2>3 DEF get_route
  <2>7. Len(<<>>) = 0
    OBVIOUS
  <2>8. QED
    BY <1>1, <2>4, <2>5, <2>6, <2>7 DEF Right
<1>3. CASE m \notin DOMAIN children
  <2>1. Matching(m, p) = {}
    BY <1>3 DEF Matching, RouterInv, RoutesOK
  <2>2. get_route(m, p) = NotFound
    BY <1>3 DEF get_route
  <2>3. QED
    BY <2>1, <2>2, HitIs DEF RightIn
<1>4. QED
  BY <1>2, <1>3

\* What is found, and with which parameters.
LEMMA RouteFound ==
  ASSUME RouterInv PROVE RouteAndParams
<1> SUFFICES ASSUME NEW m \in Method, NEW p \in AskedPath
             PROVE  LET r == get_route(m, p)
                    IN  FindsMostSpecific(m, p, r) /\ (r.found => ParamsOfRoute(p, r))
  BY DEF RouteAndParams
<1>1. PICK r, M, asked : r = get_route(m, p) /\ M = Matching(m, p)
                         /\ asked = parse_pattern(p)
  OBVIOUS
<1>2. IsPath(p)
  BY PathAssumption
<1>3. RightIn(M, 0, asked, r)
  BY <1>1, <1>2, RouteRight
<1>4. \A o \in M : o \in Seq(Segment)
  <2>1. ASSUME NEW i \in DOMAIN routes PROVE IsPath(parse_pattern(routes[i][2]))
    <3>1. IsPath(routes[i][2])
      BY DEF RouterInv, RoutesOK, Registration, IsPath
    <3>2. QED
      BY <3>1, Parsed DEF IsRoute
  <2>2. QED
    BY <1>1, <2>1 DEF Matching, IsPath
<1>5. FindsMostSpecific(m, p, r)
  <2>1. r.found <=> M # {}
    BY <1>3 DEF RightIn
  <2>2. ASSUME r.found, NEW o \in M
        PROVE  ~\E i \in DOMAIN o \cap DOMAIN r.node :
                  /\ \A j \in 1..i - 1 : o[j] = r.node[j]
                  /\ MoreSpecific(o[i], r.node[i])
    <3>1. NoneBetter(o, r.node, 0) /\ r.node \in M
      BY <1>3, <2>2 DEF RightIn
    <3>2. PICK node : node = r.node
      OBVIOUS
    <3>3. DOMAIN o = 0 + 1..Len(o) /\ DOMAIN node = 1..Len(node)
      BY <1>4, <3>1, <3>2
    <3>4. QED
      BY <3>1, <3>2, <3>3 DEF NoneBetter
  <2>3. r.found => r.node \in M
    BY <1>3 DEF RightIn
  <2>4. QED
    BY <1>1, <2>1, <2>2, <2>3 DEF FindsMostSpecific
<1>6. ASSUME r.found PROVE ParamsOfRoute(p, r)
  <2>1. ParamsBehind(r.node, 0, asked, r.params) /\ r.node \in M
    BY <1>3, <1>6 DEF RightIn
  <2>2. ParamPlaces(r.node, 0) = {i \in DOMAIN r.node : r.node[i].kind = "param"}
    <3>1. PICK node : node = r.node
      OBVIOUS
    <3>2. DOMAIN node = 0 + 1..Len(node)
      BY <1>4, <2>1, <3>1
    <3>3. QED
      BY <3>1, <3>2 DEF ParamPlaces
  <2>3. QED
    BY <1>1, <2>1, <2>2 DEF ParamsOfRoute, ParamsBehind
<1>7. QED
  BY <1>1, <1>5, <1>6

\* The chain of what is found.
LEMMA ChainFound ==
  ASSUME RouterInv PROVE ChainExists
<1> SUFFICES ASSUME NEW m \in Method, NEW p \in AskedPath, get_route(m, p).found
             PROVE  LET r   == get_route(m, p)
                        key == <<m, LastPath(m, r.node)>>
                    IN  /\ pattern[m][r.node] = key[2]
                        /\ key \in DOMAIN chains
                        /\ Head(chains[key]) = "recovery"
                        /\ Last(chains[key]) =
                             Handler(Max({i \in DOMAIN routes : routes[i] = key}))
  BY DEF ChainExists
<1>1. PICK n, path : n = get_route(m, p).node /\ path = LastPath(m, n)
  OBVIOUS
<1>2. IsPath(p)
  BY PathAssumption
<1>3. n \in Matching(m, p)
  BY <1>1, <1>2, RouteRight DEF RightIn
<1>4. PICK k \in DOMAIN routes : routes[k][1] = m /\ parse_pattern(routes[k][2]) = n
  BY <1>3 DEF Matching
<1>5. Registered(m, n) # {}
  BY <1>4 DEF Registered
<1>6. Max(Registered(m, n)) \in Registered(m, n)
  <2>1. Len(routes) \in Nat /\ DOMAIN routes = 1..Len(routes)
    BY DEF RouterInv, RoutesOK
  <2>2. Registered(m, n) \in SUBSET (1..Len(routes))
    BY <2>1 DEF Registered
  <2>3. QED
    BY <1>5, <2>1, <2>2, MaxInside
<1>7. PICK i : i = Max(Registered(m, n))
  OBVIOUS
<1>8. i \in DOMAIN routes /\ routes[i][1] = m /\ path = routes[i][2]
  BY <1>1, <1>6, <1>7 DEF Registered, LastPath
<1>9. PICK key : key = <<m, path>>
  OBVIOUS
<1>10. routes[i] = key
  BY <1>8, <1>9 DEF RouterInv, RoutesOK, Registration
<1>11. pattern[m][n] = path
  <2>1. m \in DOMAIN children /\ n \in DOMAIN children[m]
    BY <1>4 DEF RouterInv, RoutesOK
  <2>2. n \in DOMAIN pattern[m] /\ Holds(m)
    BY <2>1 DEF RouterInv, TriesOK, Trie, Grown
  <2>3. QED
    BY <1>1, <1>5, <2>2 DEF Holds
<1>12. /\ key \in DOMAIN chains /\ Protected(chains[key])
       /\ chains[key][Len(chains[key])] =
            Handler(Max({j \in DOMAIN routes : routes[j] = key}))
  BY <1>8, <1>10 DEF RouterInv, ChainsOK
<1>13. Head(chains[key]) = "recovery" /\ Last(chains[key]) = chains[key][Len(chains[key])]
  BY <1>12 DEF Protected, Last
<1>14. QED
  BY <1>1, <1>9, <1>11, <1>12, <1>13

\* The types follow from the invariant.
LEMMA RouterTyped ==
  ASSUME RouterInv PROVE RouterTypeOK
<1>1. ASSUME NEW m \in DOMAIN children
      PROVE  /\ DOMAIN children[m] = DOMAIN pattern[m]
             /\ \A n \in DOMAIN children[m] :
                  /\ IsPath(n) /\ IsPath(pattern[m][n]) /\ IsPath(children[m][n])
                  /\ \A i \in DOMAIN children[m][n] :
                       /\ children[m][n][i].kind # "empty"
                       /\ Append(n, children[m][n][i]) \in DOMAIN children[m]
  <2>1. Trie(children[m], pattern[m])
    BY DEF RouterInv, TriesOK
  <2>2. DOMAIN children[m] = DOMAIN pattern[m]
    BY <2>1 DEF Trie, Grown
  <2>3. ASSUME NEW n \in DOMAIN children[m]
        PROVE  IsPath(n) /\ IsPath(pattern[m][n]) /\ IsPath(children[m][n])
    BY <2>1 DEF Trie, Grown, IsRoute
  <2>4. ASSUME NEW n \in DOMAIN children[m], NEW i \in DOMAIN children[m][n]
        PROVE  /\ children[m][n][i].kind # "empty"
               /\ Append(n, children[m][n][i]) \in DOMAIN children[m]
    <3>1. PICK c, a : c = children[m][n][i] /\ a = Append(n, c)
      OBVIOUS
    <3>2. n \in Seq(Segment) /\ c \in Segment /\ a \in DOMAIN children[m]
      BY <2>1, <3>1, NodeTypes
    <3>3. a[Len(n) + 1] = c /\ Len(n) + 1 \in DOMAIN a
      BY <3>1, <3>2
    <3>4. IsRoute(a)
      BY <2>1, <3>2, NodeTypes
    <3>5. c.kind # "empty"
      BY <3>3, <3>4 DEF IsRoute
    <3>6. QED
      BY <3>1, <3>2, <3>5
  <2>5. QED
    BY <2>2, <2>3, <2>4
<1>2. \A k \in DOMAIN chains : k[1] \in Method /\ IsPath(k[2])
  <2>1. \A i \in DOMAIN routes : routes[i] \in Registration
    BY DEF RouterInv, RoutesOK
  <2>2. \A k \in DOMAIN chains : k \in Registration
    BY <2>1 DEF RouterInv, ChainsOK
  <2>3. QED
    BY <2>2 DEF Registration, IsPath
<1>3. \A i \in DOMAIN groups : IsPath(groups[i].prefix)
  <2>1. \A i \in DOMAIN groups : groups[i] \in RouteGroup
    BY DEF RouterInv, GroupsOK
  <2>2. QED
    BY <2>1 DEF RouteGroup, IsPath
<1>4. DOMAIN children = DOMAIN pattern /\ DOMAIN children \subseteq Method
  BY DEF RouterInv, TriesOK
<1>5. QED
  BY <1>1, <1>2, <1>3, <1>4 DEF RouterTypeOK

\* Tries, chains and groups have their types: what parse_pattern leaves is made of
\* parts that are not empty, and each child of a node is a node (insert).
THEOREM RouterTypes == RouterSpec => []RouterTypeOK
BY RouterInvariant, RouterTyped, PTL

\* For any routes, registered in any order through any groups, get_route finds a
\* route exactly if one that was registered matches, the most specific one where
\* they part, with the parameters of that route and none left of a branch that
\* search() has given up.
THEOREM RoutesFound == RouterSpec => []RouteAndParams
BY RouterInvariant, RouteFound, PTL

\* The pattern of the node that get_route finds is the key of a chain, the one
\* that add_route stored last for it, with Recovery in front and the handler that
\* came with it at the end: "handler chain is missing" is never thrown.
THEOREM ChainsFound == RouterSpec => []ChainExists
BY RouterInvariant, ChainFound, PTL

=============================================================================

--------------------------------- MODULE Queues ---------------------------------
(***************************************************************************)
(* FIFO queues of goroutines: membership, absence of duplicates, and what  *)
(* std::queue's push and pop do to both.                                   *)
(***************************************************************************)
EXTENDS Naturals, Sequences

In(q, x) == \E i \in 1..Len(q) : q[i] = x

Distinct(q) == \A i, j \in 1..Len(q) : q[i] = q[j] => i = j

\* push adds its argument and nothing else; what was not queued is not queued
\* twice.
LEMMA PushProperties ==
  ASSUME NEW S, NEW q \in Seq(S), NEW x \in S
  PROVE  /\ Append(q, x) \in Seq(S)
         /\ \A y : In(Append(q, x), y) <=> In(q, y) \/ y = x
         /\ Distinct(q) /\ ~In(q, x) => Distinct(Append(q, x))
<1> DEFINE n == Len(q)
           r == Append(q, x)
<1>1. /\ n \in Nat
      /\ Len(r) = n + 1
      /\ \A i \in 1..n : r[i] = q[i]
      /\ r[n + 1] = x
  OBVIOUS
<1>2. 1..(n + 1) = 1..n \cup {n + 1}
  BY <1>1
<1>3. Append(q, x) \in Seq(S)
  OBVIOUS
<1> HIDE DEF n, r
<1>4. \A y : In(r, y) <=> In(q, y) \/ y = x
  BY <1>1, <1>2 DEF In, n
<1>5. Distinct(q) /\ ~In(q, x) => Distinct(r)
  BY <1>1, <1>2 DEF Distinct, In, n
<1>6. QED
  BY <1>3, <1>4, <1>5 DEF r

\* front and pop: the head was in the queue, and in a queue without duplicates
\* it is the one element that leaves.
LEMMA PopProperties ==
  ASSUME NEW S, NEW q \in Seq(S), q # <<>>
  PROVE  /\ Tail(q) \in Seq(S)
         /\ Head(q) \in S
         /\ In(q, Head(q))
         /\ Distinct(q) =>
              /\ Distinct(Tail(q))
              /\ \A y : In(Tail(q), y) <=> In(q, y) /\ y # Head(q)
<1> DEFINE n == Len(q)
           h == Head(q)
           r == Tail(q)
<1>1. /\ n \in Nat \ {0}
      /\ h = q[1]
      /\ h \in S
      /\ r \in Seq(S)
      /\ Len(r) = n - 1
      /\ \A i \in 1..n - 1 : r[i] = q[i + 1]
  OBVIOUS
<1> HIDE DEF n, h, r
<1>2. In(q, h)
  BY <1>1 DEF In, n
<1>3. ASSUME Distinct(q), NEW y
      PROVE  In(r, y) <=> In(q, y) /\ y # h
  <2>1. ASSUME In(r, y) PROVE In(q, y) /\ y # h
    <3>1. PICK i \in 1..n - 1 : r[i] = y
      BY <2>1, <1>1 DEF In
    <3>2. i + 1 \in 1..n /\ q[i + 1] = y /\ i + 1 # 1 /\ 1 \in 1..n
      BY <3>1, <1>1
    <3>3. QED
      BY <3>2, <1>1, <1>3 DEF In, Distinct, n
  <2>2. ASSUME In(q, y), y # h PROVE In(r, y)
    <3>1. PICK i \in 1..n : q[i] = y
      BY <2>2 DEF In, n
    <3>2. i - 1 \in 1..n - 1 /\ r[i - 1] = y
      BY <3>1, <2>2, <1>1
    <3>3. QED
      BY <3>2, <1>1 DEF In
  <2>3. QED
    BY <2>1, <2>2
<1>4. ASSUME Distinct(q) PROVE Distinct(r)
  <2>1. ASSUME NEW i \in 1..Len(r), NEW j \in 1..Len(r), r[i] = r[j]
        PROVE  i = j
    <3>1. i + 1 \in 1..n /\ j + 1 \in 1..n /\ q[i + 1] = q[j + 1]
      BY <1>1, <2>1
    <3>2. QED
      BY <3>1, <1>4 DEF Distinct, n
  <2>2. QED
    BY <2>1 DEF Distinct
<1>5. QED
  BY <1>1, <1>2, <1>3, <1>4 DEF h, r

=============================================================================

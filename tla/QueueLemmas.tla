------------------------------ MODULE QueueLemmas ------------------------------
(***************************************************************************)
(* What the proofs need to know of a std::queue: the elements of a         *)
(* sequence after push (Append) and after pop (Tail).                      *)
(***************************************************************************)
EXTENDS Naturals, Sequences, FiniteSets, FiniteSetTheorems, SequenceTheorems, TLAPS

\* The elements of a queue after push.
LEMMA AppendElements ==
    ASSUME NEW S, NEW q \in Seq(S), NEW x \in S
    PROVE  /\ Append(q, x) \in Seq(S)
           /\ Append(q, x) # <<>>
           /\ Len(Append(q, x)) = Len(q) + 1
           /\ DOMAIN Append(q, x) = 1 .. Len(q) + 1
           /\ DOMAIN q = 1 .. Len(q)
           /\ \A i \in 1 .. Len(q) : Append(q, x)[i] = q[i]
           /\ Append(q, x)[Len(q) + 1] = x
           /\ {Append(q, x)[i] : i \in DOMAIN Append(q, x)} = {q[i] : i \in DOMAIN q} \union {x}
<1>1. /\ Append(q, x) \in Seq(S)
      /\ Len(Append(q, x)) = Len(q) + 1
      /\ DOMAIN Append(q, x) = 1 .. Len(q) + 1
      /\ DOMAIN q = 1 .. Len(q)
      /\ Len(q) \in Nat
      /\ \A i \in 1 .. Len(q) : Append(q, x)[i] = q[i]
      /\ Append(q, x)[Len(q) + 1] = x
    OBVIOUS
<1>2. {Append(q, x)[i] : i \in DOMAIN Append(q, x)} = {q[i] : i \in DOMAIN q} \union {x}
    BY <1>1
<1>3. Append(q, x) # <<>>
    BY <1>1
<1> QED BY <1>1, <1>2, <1>3

\* The elements of a queue after pop.
LEMMA TailElements ==
    ASSUME NEW S, NEW q \in Seq(S), q # <<>>
    PROVE  /\ Head(q) \in S
           /\ Head(q) = q[1]
           /\ Tail(q) \in Seq(S)
           /\ Len(q) \in Nat \ {0}
           /\ Len(Tail(q)) = Len(q) - 1
           /\ DOMAIN q = 1 .. Len(q)
           /\ DOMAIN Tail(q) = 1 .. Len(q) - 1
           /\ \A i \in 1 .. Len(q) - 1 : Tail(q)[i] = q[i + 1]
           /\ {q[i] : i \in DOMAIN q} = {Tail(q)[i] : i \in DOMAIN Tail(q)} \union {Head(q)}
<1>1. /\ Head(q) \in S
      /\ Head(q) = q[1]
      /\ Tail(q) \in Seq(S)
      /\ Len(q) \in Nat \ {0}
      /\ Len(Tail(q)) = Len(q) - 1
      /\ DOMAIN q = 1 .. Len(q)
      /\ DOMAIN Tail(q) = 1 .. Len(q) - 1
      /\ \A i \in 1 .. Len(q) - 1 : Tail(q)[i] = q[i + 1]
    BY HeadTailProperties, EmptySeq, LenProperties
<1>2. {q[i] : i \in DOMAIN q} = {Tail(q)[i] : i \in DOMAIN Tail(q)} \union {Head(q)}
  <2>1. ASSUME NEW i \in DOMAIN q PROVE q[i] \in {Tail(q)[k] : k \in DOMAIN Tail(q)} \union {Head(q)}
    <3>1. CASE i = 1 BY <1>1, <3>1
    <3>2. CASE i # 1
      <4>1. i - 1 \in DOMAIN Tail(q) /\ Tail(q)[i - 1] = q[i] BY <1>1, <3>2
      <4> QED BY <4>1
    <3> QED BY <3>1, <3>2
  <2>2. ASSUME NEW k \in DOMAIN Tail(q) PROVE Tail(q)[k] \in {q[i] : i \in DOMAIN q}
    <3>1. k + 1 \in DOMAIN q /\ Tail(q)[k] = q[k + 1] BY <1>1
    <3> QED BY <3>1
  <2>3. Head(q) \in {q[i] : i \in DOMAIN q} BY <1>1
  <2> QED BY <2>1, <2>2, <2>3
<1> QED BY <1>1, <1>2

\* A queue without duplicates, after push of an element it does not hold.
LEMMA PushDistinct ==
    ASSUME NEW S, NEW q \in Seq(S), NEW x \in S, NEW E,
           E = {q[i] : i \in DOMAIN q},
           \A i, k \in DOMAIN q : q[i] = q[k] => i = k,
           x \notin E
    PROVE  LET p == Append(q, x)
           IN  /\ p \in Seq(S)
               /\ Len(q) \in Nat
               /\ Len(p) = Len(q) + 1
               /\ {p[i] : i \in DOMAIN p} = E \union {x}
               /\ \A i, k \in DOMAIN p : p[i] = p[k] => i = k
<1> DEFINE p == Append(q, x)
<1>1. /\ p \in Seq(S)
      /\ Len(p) = Len(q) + 1
      /\ DOMAIN p = 1 .. Len(q) + 1
      /\ DOMAIN q = 1 .. Len(q)
      /\ \A i \in 1 .. Len(q) : p[i] = q[i]
      /\ p[Len(q) + 1] = x
      /\ {p[i] : i \in DOMAIN p} = E \union {x}
    BY AppendElements
<1>2. Len(q) \in Nat
    OBVIOUS
<1> HIDE DEF p
<1>3. \A i \in 1 .. Len(q) : p[i] # x
    BY <1>1
<1>4. \A i \in DOMAIN p : i \in 1 .. Len(q) \/ i = Len(q) + 1
    BY <1>1, <1>2
<1>5. \A i, k \in DOMAIN p : p[i] = p[k] => i = k
    BY <1>1, <1>3, <1>4
<1> QED BY <1>1, <1>2, <1>5 DEF p

\* pop, and what a queue holds, by names the provers leave folded.
Dequeued(q) == Tail(q)
Items(q) == {q[i] : i \in DOMAIN q}

\* The same in terms of what the queue holds.
LEMMA PushItems ==
    ASSUME NEW S, NEW q \in Seq(S), NEW x \in S, x \notin Items(q),
           \A i, k \in DOMAIN q : q[i] = q[k] => i = k
    PROVE  /\ Append(q, x) \in Seq(S)
           /\ Items(Append(q, x)) = Items(q) \union {x}
           /\ \A i, k \in DOMAIN Append(q, x) : Append(q, x)[i] = Append(q, x)[k] => i = k
<1>1. Items(q) = {q[i] : i \in DOMAIN q}
    BY DEF Items
<1>2. Items(Append(q, x)) = Items(q) \union {x}
    BY AppendElements DEF Items
<1>3. \A i \in DOMAIN q : q[i] # x
    BY <1>1
<1>4. /\ Append(q, x) \in Seq(S)
      /\ DOMAIN Append(q, x) = 1 .. Len(q) + 1 /\ DOMAIN q = 1 .. Len(q) /\ Len(q) \in Nat
      /\ \A i \in 1 .. Len(q) : Append(q, x)[i] = q[i]
      /\ Append(q, x)[Len(q) + 1] = x
    BY AppendElements
<1> DEFINE p == Append(q, x)
<1> HIDE DEF p
<1>5. \A i \in DOMAIN p : i \in 1 .. Len(q) \/ i = Len(q) + 1
    BY <1>4 DEF p
<1>6. \A i, k \in DOMAIN p : p[i] = p[k] => i = k
    BY <1>3, <1>4, <1>5 DEF p
<1> QED BY <1>2, <1>4, <1>6 DEF p

\* What a queue holds, duplicates or not, after a push and before a pop.
LEMMA ItemsPushed ==
    ASSUME NEW S, NEW q \in Seq(S), NEW x \in S
    PROVE  Items(Append(q, x)) = Items(q) \union {x}
BY AppendElements DEF Items

LEMMA ItemsTaken ==
    ASSUME NEW S, NEW q \in Seq(S), q # <<>>
    PROVE  Items(q) = Items(Tail(q)) \union {Head(q)}
BY TailElements DEF Items

\* A queue without duplicates, after pop: it no longer holds its head.
LEMMA PopDistinct ==
    ASSUME NEW S, NEW q \in Seq(S), q # <<>>,
           \A i, k \in DOMAIN q : q[i] = q[k] => i = k
    PROVE  /\ Head(q) \in S
           /\ Head(q) \in Items(q)
           /\ Dequeued(q) \in Seq(S)
           /\ Len(q) \in Nat \ {0}
           /\ Len(Dequeued(q)) = Len(q) - 1
           /\ Items(Dequeued(q)) = Items(q) \ {Head(q)}
           /\ \A i, k \in DOMAIN Dequeued(q) : Dequeued(q)[i] = Dequeued(q)[k] => i = k
<1> DEFINE E == {q[i] : i \in DOMAIN q}
           P == {Dequeued(q)[i] : i \in DOMAIN Dequeued(q)}
<1>1. /\ Head(q) \in S
      /\ Head(q) = q[1]
      /\ Dequeued(q) \in Seq(S)
      /\ Len(q) \in Nat \ {0}
      /\ Len(Dequeued(q)) = Len(q) - 1
      /\ DOMAIN q = 1 .. Len(q)
      /\ DOMAIN Dequeued(q) = 1 .. Len(q) - 1
      /\ \A i \in 1 .. Len(q) - 1 : Dequeued(q)[i] = q[i + 1]
      /\ E = P \union {Head(q)}
    BY TailElements DEF Dequeued
<1>2. \A i \in DOMAIN Dequeued(q) : Dequeued(q)[i] # Head(q)
    BY <1>1
<1>3. \A i, k \in DOMAIN Dequeued(q) : Dequeued(q)[i] = Dequeued(q)[k] => i = k
    BY <1>1, SMTT(30)
<1>4. Head(q) \in E
    BY <1>1
<1>5. Head(q) \notin P
    BY <1>2
<1> HIDE DEF E, P
<1>6. P = E \ {Head(q)}
    BY <1>1, <1>5
<1> QED BY <1>1, <1>3, <1>4, <1>6 DEF E, P, Items

\* Two queues without duplicates and with nothing in common, put together.
LEMMA ConcatDistinct ==
    ASSUME NEW S, NEW q \in Seq(S), NEW r \in Seq(S),
           \A i, k \in DOMAIN q : q[i] = q[k] => i = k,
           \A i, k \in DOMAIN r : r[i] = r[k] => i = k,
           \A i \in DOMAIN q, k \in DOMAIN r : q[i] # r[k]
    PROVE  LET p == q \o r
           IN  /\ p \in Seq(S)
               /\ {p[i] : i \in DOMAIN p} = {q[i] : i \in DOMAIN q} \union {r[i] : i \in DOMAIN r}
               /\ \A i, k \in DOMAIN p : p[i] = p[k] => i = k
<1> DEFINE p == q \o r
           m == Len(q)
           n == Len(r)
<1>1. /\ p \in Seq(S) /\ Len(p) = m + n
      /\ \A i \in 1 .. m + n : p[i] = IF i <= m THEN q[i] ELSE r[i - m]
    BY ConcatProperties
<1>2. /\ m \in Nat /\ n \in Nat
      /\ DOMAIN q = 1 .. m /\ DOMAIN r = 1 .. n /\ DOMAIN p = 1 .. m + n
    BY <1>1, LenProperties
<1> HIDE DEF p, m, n
<1>3. \A i \in DOMAIN p :
        (i \in DOMAIN q /\ p[i] = q[i]) \/ (i - m \in DOMAIN r /\ p[i] = r[i - m])
    BY <1>1, <1>2
<1>4. \A i \in DOMAIN q : i \in DOMAIN p /\ p[i] = q[i]
    BY <1>1, <1>2
<1>5. \A k \in DOMAIN r : m + k \in DOMAIN p /\ p[m + k] = r[k]
  <2> SUFFICES ASSUME NEW k \in 1 .. n PROVE m + k \in 1 .. m + n /\ p[m + k] = r[k]
    BY <1>2
  <2>1. m + k \in 1 .. m + n /\ ~(m + k <= m) /\ (m + k) - m = k
    BY <1>2
  <2> QED BY <1>1, <2>1
<1>6. {p[i] : i \in DOMAIN p} = {q[i] : i \in DOMAIN q} \union {r[i] : i \in DOMAIN r}
    BY <1>3, <1>4, <1>5
<1>7. \A i, k \in DOMAIN p : p[i] = p[k] => i = k
  <2> SUFFICES ASSUME NEW i \in DOMAIN p, NEW k \in DOMAIN p, p[i] = p[k] PROVE i = k
    OBVIOUS
  <2>1. i \in Int /\ k \in Int
    BY <1>2
  <2>2. CASE i \in DOMAIN q /\ p[i] = q[i]
    BY <1>3, <2>2
  <2>3. CASE i - m \in DOMAIN r /\ p[i] = r[i - m]
    <3>1. k - m \in DOMAIN r /\ p[k] = r[k - m]
      BY <1>3, <2>3
    <3>2. i - m = k - m
      BY <2>3, <3>1
    <3> QED BY <1>2, <2>1, <3>2
  <2> QED BY <1>3, <2>2, <2>3
<1> QED BY <1>1, <1>6, <1>7 DEF p

\* The same in terms of what the queues hold.
LEMMA ConcatItems ==
    ASSUME NEW S, NEW q \in Seq(S), NEW r \in Seq(S),
           \A i, k \in DOMAIN q : q[i] = q[k] => i = k,
           \A i, k \in DOMAIN r : r[i] = r[k] => i = k,
           Items(q) \intersect Items(r) = {}
    PROVE  /\ q \o r \in Seq(S)
           /\ Items(q \o r) = Items(q) \union Items(r)
           /\ \A i, k \in DOMAIN (q \o r) : (q \o r)[i] = (q \o r)[k] => i = k
<1>1. \A i \in DOMAIN q, k \in DOMAIN r : q[i] # r[k]
    BY DEF Items
<1>2. LET p == q \o r
      IN  /\ p \in Seq(S)
          /\ {p[i] : i \in DOMAIN p} = {q[i] : i \in DOMAIN q} \union {r[i] : i \in DOMAIN r}
          /\ \A i, k \in DOMAIN p : p[i] = p[k] => i = k
    BY <1>1, ConcatDistinct
<1> QED BY <1>2 DEF Items

\* A queue without duplicates, cut in two by SubSeq.
LEMMA SplitDistinct ==
    ASSUME NEW S, NEW q \in Seq(S), NEW m \in Nat, m <= Len(q),
           \A i, k \in DOMAIN q : q[i] = q[k] => i = k
    PROVE  LET a == SubSeq(q, 1, m)
               b == SubSeq(q, m + 1, Len(q))
           IN  /\ a \in Seq(S) /\ b \in Seq(S)
               /\ Len(a) = m /\ Len(b) = Len(q) - m
               /\ \A i, k \in DOMAIN a : a[i] = a[k] => i = k
               /\ \A i, k \in DOMAIN b : b[i] = b[k] => i = k
               /\ Items(a) \intersect Items(b) = {}
               /\ Items(a) \union Items(b) = Items(q)
<1> DEFINE a == SubSeq(q, 1, m)
           b == SubSeq(q, m + 1, Len(q))
           n == Len(q) - m
<1>1. /\ Len(q) \in Nat /\ n \in Nat /\ Len(q) = m + n
      /\ \A i \in 1 .. Len(q) : q[i] \in S
    OBVIOUS
<1>2. a \in Seq(S) /\ Len(a) = m /\ \A i \in 1 .. m : a[i] = q[i]
  <2>1. \A i \in 1 .. m : q[i] \in S
    BY <1>1
  <2>2. /\ a \in Seq(S) /\ Len(a) = IF 1 <= m THEN m - 1 + 1 ELSE 0
        /\ \A i \in 1 .. m - 1 + 1 : a[i] = q[1 + i - 1]
    BY <1>1, <2>1, SubSeqProperties
  <2> HIDE DEF a
  <2>3. \A i \in 1 .. m : i \in 1 .. m - 1 + 1 /\ 1 + i - 1 = i
    OBVIOUS
  <2> QED BY <2>2, <2>3
<1>3. b \in Seq(S) /\ Len(b) = n /\ \A i \in 1 .. n : b[i] = q[m + i]
  <2>1. \A i \in m + 1 .. Len(q) : q[i] \in S
    BY <1>1
  <2>2. m + 1 \in Int /\ Len(q) \in Int
    BY <1>1
  <2>3. /\ b \in Seq(S) /\ Len(b) = IF m + 1 <= Len(q) THEN Len(q) - (m + 1) + 1 ELSE 0
        /\ \A i \in 1 .. Len(q) - (m + 1) + 1 : b[i] = q[(m + 1) + i - 1]
    BY <2>1, <2>2, SubSeqProperties
  <2> HIDE DEF b
  <2>4. \A i \in 1 .. n : i \in 1 .. Len(q) - (m + 1) + 1 /\ (m + 1) + i - 1 = m + i
    BY <1>1
  <2>5. Len(b) = n
    <3>1. CASE m + 1 <= Len(q)
      BY <1>1, <2>3, <3>1
    <3>2. CASE ~(m + 1 <= Len(q))
      <4>1. Len(b) = 0
        BY <2>3, <3>2
      <4>2. m = Len(q)
        <5>1. \A x, y \in Nat : x <= y /\ ~(x + 1 <= y) => x = y
          OBVIOUS
        <5> QED BY <1>1, <3>2, <5>1
      <4> QED BY <1>1, <4>1, <4>2
    <3> QED BY <3>1, <3>2
  <2> QED BY <2>3, <2>4, <2>5
<1> HIDE DEF a, b, n
<1>4. DOMAIN q = 1 .. m + n /\ DOMAIN a = 1 .. m /\ DOMAIN b = 1 .. n
    BY <1>1, <1>2, <1>3, LenProperties
<1>5. \A i \in 1 .. m : i \in 1 .. m + n
    BY <1>1
<1>6. \A i \in 1 .. n : m + i \in 1 .. m + n
    BY <1>1
<1>7. \A i \in 1 .. m + n : i \in 1 .. m \/ \E k \in 1 .. n : i = m + k
  <2> SUFFICES ASSUME NEW i \in 1 .. m + n, i \notin 1 .. m PROVE \E k \in 1 .. n : i = m + k
    OBVIOUS
  <2>1. i - m \in 1 .. n /\ i = m + (i - m)
    BY <1>1
  <2> QED BY <2>1
<1>8. \A i, k \in DOMAIN a : a[i] = a[k] => i = k
    BY <1>2, <1>4, <1>5
<1>9. \A i, k \in DOMAIN b : b[i] = b[k] => i = k
  <2> SUFFICES ASSUME NEW i \in 1 .. n, NEW k \in 1 .. n, b[i] = b[k] PROVE i = k
    BY <1>4
  <2>1. m + i \in DOMAIN q /\ m + k \in DOMAIN q /\ q[m + i] = q[m + k]
    BY <1>3, <1>4, <1>6
  <2>2. m + i = m + k
    BY <2>1
  <2> QED BY <1>1, <2>2
<1>10. \A i \in 1 .. m, k \in 1 .. n : a[i] # b[k]
  <2> SUFFICES ASSUME NEW i \in 1 .. m, NEW k \in 1 .. n, a[i] = b[k] PROVE FALSE
    OBVIOUS
  <2>1. i \in DOMAIN q /\ m + k \in DOMAIN q /\ q[i] = q[m + k]
    BY <1>2, <1>3, <1>4, <1>5, <1>6
  <2>2. i = m + k
    BY <2>1
  <2> QED BY <1>1, <2>2
<1>11. Items(a) \intersect Items(b) = {}
    BY <1>4, <1>10 DEF Items
<1>12. Items(a) \union Items(b) = Items(q)
  <2>1. \A i \in 1 .. m : a[i] \in Items(q)
    BY <1>2, <1>4, <1>5 DEF Items
  <2>2. \A i \in 1 .. n : b[i] \in Items(q)
    BY <1>3, <1>4, <1>6 DEF Items
  <2>3. \A i \in 1 .. m + n : q[i] \in Items(a) \/ q[i] \in Items(b)
    <3>1. \A i \in 1 .. m : q[i] \in Items(a)
      BY <1>2, <1>4 DEF Items
    <3>2. \A i \in 1 .. n : q[m + i] \in Items(b)
      BY <1>3, <1>4 DEF Items
    <3> QED BY <1>7, <3>1, <3>2
  <2>4. /\ \A x \in Items(a) : \E i \in 1 .. m : x = a[i]
        /\ \A x \in Items(b) : \E i \in 1 .. n : x = b[i]
        /\ \A x \in Items(q) : \E i \in 1 .. m + n : x = q[i]
    BY <1>4 DEF Items
  <2> QED BY <2>1, <2>2, <2>3, <2>4
<1> QED BY <1>2, <1>3, <1>8, <1>9, <1>11, <1>12 DEF a, b, n

\* The elements of a finite set can be put into a queue, each once; and a queue of
\* as many different elements holds them all.
LEMMA Enumeration ==
    ASSUME NEW T, IsFiniteSet(T), NEW n, n = Cardinality(T)
    PROVE  /\ n \in Nat
           /\ \E f \in [1 .. n -> T] : \A i, k \in 1 .. n : f[i] = f[k] => i = k
           /\ \A f \in [1 .. n -> T] :
                (\A i, k \in 1 .. n : f[i] = f[k] => i = k) => f \in Seq(T) /\ Items(f) = T
<1>1. n \in Nat /\ ExistsBijection(1 .. n, T)
    BY FS_CardinalityType
<1>2. \E f \in [1 .. n -> T] : \A i, k \in 1 .. n : f[i] = f[k] => i = k
    BY <1>1 DEF ExistsBijection, Bijection, Injection, IsInjective
<1>3. ASSUME NEW f \in [1 .. n -> T], \A i, k \in 1 .. n : f[i] = f[k] => i = k
      PROVE  f \in Seq(T) /\ Items(f) = T
  <2>1. f \in Injection(1 .. n, T)
    BY <1>3 DEF Injection, IsInjective
  <2>2. Cardinality(1 .. n) = n
    BY <1>1, FS_Interval
  <2> DEFINE places == 1 .. n
  <2>3. f \in Injection(places, T) /\ Cardinality(places) = Cardinality(T)
    BY <2>1, <2>2
  <2> HIDE DEF places
  <2>4. f \in Surjection(places, T)
    BY <2>3, FS_Injection
  <2>5. \A t \in T : \E i \in 1 .. n : f[i] = t
    BY <2>4 DEF places, Surjection
  <2> QED BY <1>1, <2>5 DEF Items
<1> QED BY <1>1, <1>2, <1>3
==============================================================================

--------------------------- MODULE WaitQueueProofs ---------------------------
(***************************************************************************)
(* What the operations on a queue of waiters do to its elements, for every *)
(* queue.                                                                  *)
(***************************************************************************)
EXTENDS WaitQueue, SequenceTheorems, TLAPS

\* push_back of a task that is not queued (mutex.cppm:174).
LEMMA AppendToQueue ==
    ASSUME NEW S, NEW q \in Seq(S), NEW t \in S, Distinct(q), ~Contains(q, t)
    PROVE  /\ Append(q, t) \in Seq(S)
           /\ Append(q, t) # <<>>
           /\ Distinct(Append(q, t))
           /\ \A u : Contains(Append(q, t), u) <=> Contains(q, u) \/ u = t
<1>1. /\ Append(q, t) \in Seq(S)
      /\ Append(q, t) # <<>>
      /\ Len(Append(q, t)) = Len(q) + 1
      /\ \A i \in 1..Len(q) : Append(q, t)[i] = q[i]
      /\ Append(q, t)[Len(q) + 1] = t
      /\ Len(q) \in Nat
  BY AppendProperties, LenProperties
<1>2. Distinct(Append(q, t))
  BY <1>1 DEF Distinct, Contains
<1>3. \A u : Contains(Append(q, t), u) <=> Contains(q, u) \/ u = t
  BY <1>1 DEF Contains
<1> QED BY <1>1, <1>2, <1>3

\* pop_front (mutex.cppm:44-45).
LEMMA TailOfQueue ==
    ASSUME NEW S, NEW q \in Seq(S), Distinct(q), q # <<>>
    PROVE  /\ Head(q) \in S
           /\ Contains(q, Head(q))
           /\ Tail(q) \in Seq(S)
           /\ Distinct(Tail(q))
           /\ \A u : Contains(Tail(q), u) <=> Contains(q, u) /\ u # Head(q)
<1>1. /\ Head(q) \in S
      /\ Tail(q) \in Seq(S)
      /\ Len(Tail(q)) = Len(q) - 1
      /\ \A i \in 1..Len(Tail(q)) : Tail(q)[i] = q[i + 1]
      /\ Len(q) \in Nat \ {0}
  BY HeadTailProperties, EmptySeq
<1>2. Head(q) = q[1]
  OBVIOUS
<1>3. Distinct(Tail(q))
  BY <1>1 DEF Distinct
<1>4. ASSUME NEW u
      PROVE  Contains(Tail(q), u) <=> Contains(q, u) /\ u # Head(q)
  <2>1. ASSUME Contains(Tail(q), u) PROVE Contains(q, u) /\ u # Head(q)
    BY <1>1, <1>2, <2>1 DEF Contains, Distinct
  <2>2. ASSUME Contains(q, u), u # Head(q) PROVE Contains(Tail(q), u)
    <3>1. PICK i \in 1..Len(q) : q[i] = u
      BY <2>2 DEF Contains
    <3>2. i - 1 \in 1..Len(Tail(q)) /\ Tail(q)[i - 1] = u
      BY <1>1, <1>2, <2>2, <3>1
    <3> QED BY <3>2 DEF Contains
  <2> QED BY <2>1, <2>2
<1> QED BY <1>1, <1>2, <1>3, <1>4 DEF Contains

\* find and erase (mutex.cppm:56-59) yields a queue of tasks.
LEMMA EraseType ==
    ASSUME NEW S, NEW q \in Seq(S), NEW t
    PROVE  Erase(q, t) \in Seq(S)
<1>1. \A i \in 1..Len(q) : q[i] \in S
  BY ElementOfSeq
<1>2. CASE Contains(q, t)
  <2> DEFINE k == CHOOSE i \in 1..Len(q) : q[i] = t
  <2>1. k \in 1..Len(q) /\ Len(q) \in Nat
    BY <1>2, LenProperties DEF Contains
  <2>2. Erase(q, t) = SubSeq(q, 1, k - 1) \o SubSeq(q, k + 1, Len(q))
    BY <1>2 DEF Erase, RemoveAt
  <2> HIDE DEF k
  <2>3. SubSeq(q, 1, k - 1) \in Seq(S)
    BY <1>1, <2>1, SubSeqProperties
  <2>4. SubSeq(q, k + 1, Len(q)) \in Seq(S)
    BY <1>1, <2>1, SubSeqProperties
  <2> QED BY <2>2, <2>3, <2>4, ConcatProperties
<1>3. CASE ~Contains(q, t)
  BY <1>3 DEF Erase
<1> QED BY <1>2, <1>3

\* If t is there, it removes one position and keeps the order of the others.
LEMMA EraseElements ==
    ASSUME NEW S, NEW q \in Seq(S), NEW t, Contains(q, t)
    PROVE  \E k \in 1..Len(q) :
              /\ q[k] = t
              /\ Erase(q, t) \in Seq(S)
              /\ Len(Erase(q, t)) = Len(q) - 1
              /\ \A i \in 1..Len(q) - 1 :
                    Erase(q, t)[i] = IF i < k THEN q[i] ELSE q[i + 1]
<1> DEFINE k == CHOOSE i \in 1..Len(q) : q[i] = t
           front == SubSeq(q, 1, k - 1)
           back == SubSeq(q, k + 1, Len(q))
           e == front \o back
<1>1. k \in 1..Len(q) /\ q[k] = t /\ Len(q) \in Nat
  BY LenProperties DEF Contains
<1>2. Erase(q, t) = e
  BY DEF Erase, RemoveAt
<1> HIDE DEF k
<1>3. \A i \in 1..Len(q) : q[i] \in S
  BY ElementOfSeq
<1>4. /\ front \in Seq(S)
      /\ Len(front) = k - 1
      /\ \A i \in 1..k - 1 : front[i] = q[i]
  BY <1>1, <1>3, SubSeqProperties
<1>5. /\ back \in Seq(S)
      /\ Len(back) = Len(q) - k
      /\ \A i \in 1..Len(q) - k : back[i] = q[k + i]
  <2>1. \A i \in k + 1 .. Len(q) : q[i] \in S
    BY <1>1, <1>3
  <2>2. /\ back \in Seq(S)
        /\ Len(back) = IF k + 1 <= Len(q) THEN Len(q) - (k + 1) + 1 ELSE 0
        /\ \A i \in 1 .. Len(q) - (k + 1) + 1 : back[i] = q[k + 1 + i - 1]
    BY <1>1, <2>1, SubSeqProperties
  <2> QED BY <1>1, <2>2
<1> HIDE DEF front, back
<1>6. /\ e \in Seq(S)
      /\ Len(e) = Len(q) - 1
      /\ \A i \in 1..Len(q) - 1 : e[i] = IF i < k THEN q[i] ELSE q[i + 1]
  <2>1. /\ e \in Seq(S)
        /\ Len(e) = Len(front) + Len(back)
        /\ \A i \in 1 .. Len(front) + Len(back) :
              e[i] = IF i <= Len(front) THEN front[i] ELSE back[i - Len(front)]
    BY <1>4, <1>5, ConcatProperties
  <2> QED BY <1>1, <1>4, <1>5, <2>1
<1> QED BY <1>1, <1>2, <1>6

\* It removes that waiter and no other.
LEMMA EraseFromQueue ==
    ASSUME NEW S, NEW q \in Seq(S), NEW t, Distinct(q)
    PROVE  /\ Erase(q, t) \in Seq(S)
           /\ Distinct(Erase(q, t))
           /\ \A u : Contains(Erase(q, t), u) <=> Contains(q, u) /\ u # t
<1>1. CASE ~Contains(q, t)
  BY <1>1 DEF Erase
<1>2. CASE Contains(q, t)
  <2> DEFINE e == Erase(q, t)
  <2>1. PICK k \in 1..Len(q) :
            /\ q[k] = t
            /\ e \in Seq(S)
            /\ Len(e) = Len(q) - 1
            /\ \A i \in 1..Len(q) - 1 : e[i] = IF i < k THEN q[i] ELSE q[i + 1]
    BY <1>2, EraseElements
  <2>2. Len(q) \in Nat
    BY LenProperties
  <2> HIDE DEF e
  <2>3. Distinct(e)
    <3> SUFFICES ASSUME NEW i \in 1..Len(e), NEW j \in 1..Len(e), e[i] = e[j]
                 PROVE  i = j
      BY DEF Distinct
    <3> DEFINE old(n) == IF n < k THEN n ELSE n + 1
    <3>1. /\ old(i) \in 1..Len(q) /\ e[i] = q[old(i)]
          /\ old(j) \in 1..Len(q) /\ e[j] = q[old(j)]
      BY <2>1, <2>2
    <3>2. old(i) = old(j)
      BY <3>1 DEF Distinct
    <3> QED BY <2>1, <2>2, <3>2
  <2>4. ASSUME NEW u PROVE Contains(e, u) <=> Contains(q, u) /\ u # t
    <3>1. ASSUME Contains(e, u) PROVE Contains(q, u) /\ u # t
      BY <2>1, <2>2, <3>1 DEF Contains, Distinct
    <3>2. ASSUME Contains(q, u), u # t PROVE Contains(e, u)
      <4>1. PICK i \in 1..Len(q) : q[i] = u
        BY <3>2 DEF Contains
      <4>2. i # k
        BY <2>1, <3>2, <4>1
      <4>3. CASE i < k
        <5>1. i \in 1..Len(e) /\ e[i] = u
          BY <2>1, <2>2, <4>1, <4>3
        <5> QED BY <5>1 DEF Contains
      <4>4. CASE i > k
        <5>1. i - 1 \in 1..Len(e) /\ e[i - 1] = u
          BY <2>1, <2>2, <4>1, <4>4
        <5> QED BY <5>1 DEF Contains
      <4> QED BY <2>1, <2>2, <4>1, <4>2, <4>3, <4>4
    <3> QED BY <3>1, <3>2
  <2> QED BY <2>1, <2>3, <2>4 DEF e
<1> QED BY <1>1, <1>2
==============================================================================

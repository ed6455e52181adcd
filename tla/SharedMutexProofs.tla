-------------------------- MODULE SharedMutexProofs --------------------------
(***************************************************************************)
(* Theorems about SharedMutex for every set of tasks.                      *)
(***************************************************************************)
EXTENDS SharedMutex, WaitQueueProofs, FiniteSetTheorems

USE NoTaskAssumption, WordAssumption

\* readers_ stays a word.
LEMMA WordStep ==
    ASSUME NEW r \in 0..Word - 1
    PROVE  (r + 1) % Word \in 0..Word - 1 /\ (r + Word - 1) % Word \in 0..Word - 1
  OBVIOUS

\* Serving the longest waiter keeps the types.
LEMMA ServeType ==
    ASSUME TypeOK, NEW t \in Tasks, ServeFront(t), waiters # <<>>,
           mtx = NoTask \/ mtx = t
    PROVE  /\ waiters' \in Seq(Tasks)
           /\ isReady' \in [Tasks -> BOOLEAN]
           /\ next' \in [Tasks -> Tasks \cup {NoTask}]
           /\ pc' \in [Tasks -> Locations]
           /\ handed' \in BOOLEAN
           /\ behind' \in [Tasks -> SUBSET Tasks]
           /\ mtx' = t /\ \A u \in Tasks : pc'[u] = "wake" <=> u = t
<1>1. waiters' \in Seq(Tasks) /\ Head(waiters) \in Tasks
  BY HeadTailProperties DEF ServeFront, TypeOK
<1> QED BY <1>1 DEF ServeFront, TypeOK, Locations

LEMMA LeaveType ==
    ASSUME TypeOK, NEW t \in Tasks, Leave(t), mtx = NoTask \/ mtx = t
    PROVE  /\ waiters' \in Seq(Tasks)
           /\ isReady' \in [Tasks -> BOOLEAN]
           /\ next' \in [Tasks -> Tasks \cup {NoTask}]
           /\ pc' \in [Tasks -> Locations]
           /\ handed' \in BOOLEAN
           /\ behind' \in [Tasks -> SUBSET Tasks]
           /\ mtx' = NoTask /\ \A u \in Tasks : pc'[u] # "wake"
  BY DEF Leave, TypeOK, Locations

\* Every step keeps the types.
LEMMA TypeStep == TypeOK /\ [Next]_vars => TypeOK'
<1> SUFFICES ASSUME TypeOK, [Next]_vars PROVE TypeOK'
  OBVIOUS
<1> USE DEF Locations
<1>1. CASE UNCHANGED vars
  BY <1>1 DEF TypeOK, vars
<1>2. ASSUME NEW t \in Tasks, NEW m \in {"read", "write"}, Lock(t, m) PROVE TypeOK'
  BY <1>2 DEF TypeOK, Lock, Goto, QueuedWriters
<1>3. ASSUME NEW t \in Tasks, TryLockShared(t) PROVE TypeOK'
  <2>1. readers' \in 0..Word - 1
    BY <1>3, WordStep DEF TypeOK, TryLockShared, AddReader
  <2> QED BY <1>3, <2>1 DEF TypeOK, TryLockShared, Goto, QueuedWriters
<1>4. ASSUME NEW t \in Tasks, TryLock(t) PROVE TypeOK'
  BY <1>4 DEF TypeOK, TryLock, Goto
<1>5. ASSUME NEW t \in Tasks, Poll(t) \/ PollPending(t) PROVE TypeOK'
  <2>1. CASE PollFast(t)
    BY <2>1 DEF TypeOK, PollFast, Goto, lockState
  <2>2. CASE PollBegin(t)
    BY <2>2 DEF TypeOK, PollBegin, Goto, lockState
  <2>3. CASE PollPending(t)
    BY <2>3 DEF TypeOK, PollPending, StoreWaker, Goto, lockState, taskState
  <2> QED BY <1>5, <2>1, <2>2, <2>3 DEF Poll
<1>6. ASSUME NEW t \in Tasks, PollEnterRead(t) \/ PollEnterWrite(t) PROVE TypeOK'
  <2>1. readers' \in 0..Word - 1
    BY <1>6, WordStep DEF TypeOK, PollEnterRead, PollEnterWrite, AddReader
  <2>2. CASE PollEnterRead(t)
    BY <2>1, <2>2 DEF TypeOK, PollEnterRead, StoreWaker, Goto, taskState
  <2>3. CASE PollEnterWrite(t)
    BY <2>1, <2>3 DEF TypeOK, PollEnterWrite, StoreWaker, Goto, taskState
  <2> QED BY <1>6, <2>2, <2>3
<1>7. ASSUME NEW t \in Tasks, PollRegister(t) PROVE TypeOK'
  <2>1. waiters' \in Seq(Tasks)
    BY <1>7, AppendProperties DEF TypeOK, PollRegister
  <2> QED BY <1>7, <2>1 DEF TypeOK, PollRegister, StoreWaker, Goto
<1>8. ASSUME NEW t \in Tasks, PollLateReady(t) PROVE TypeOK'
  <2>1. readers' \in 0..Word - 1
    BY <1>8, WordStep DEF TypeOK, PollLateReady, AddReader
  <2>2. writerActive' \in BOOLEAN
    BY <1>8 DEF TypeOK, PollLateReady
  <2> QED BY <1>8, <2>1, <2>2 DEF TypeOK, PollLateReady, StoreWaker, Goto
<1>9. ASSUME NEW t \in Tasks, ReleaseShared(t) PROVE TypeOK'
  <2>1. readers' \in 0..Word - 1
    BY <1>9, WordStep DEF TypeOK, ReleaseShared, RemoveReader
  <2>2. CASE ServeFront(t) /\ waiters # <<>>
    BY <1>9, <2>1, <2>2, ServeType DEF TypeOK, ReleaseShared, MtxFree
  <2>3. CASE Leave(t)
    BY <1>9, <2>1, <2>3, LeaveType DEF TypeOK, ReleaseShared, MtxFree
  <2> QED BY <1>9, <2>2, <2>3 DEF ReleaseShared
<1>10. ASSUME NEW t \in Tasks, ReleaseExclusive(t) PROVE TypeOK'
  <2>1. CASE ServeFront(t) /\ waiters # <<>>
    <3>1. mtx = NoTask /\ UNCHANGED <<readers, mode, registered, woken, waker>>
          /\ writerActive' = FALSE
      BY <1>10 DEF ReleaseExclusive, MtxFree
    <3>2. /\ waiters' \in Seq(Tasks) /\ isReady' \in [Tasks -> BOOLEAN]
          /\ next' \in [Tasks -> Tasks \cup {NoTask}] /\ pc' \in [Tasks -> Locations]
          /\ handed' \in BOOLEAN /\ behind' \in [Tasks -> SUBSET Tasks]
          /\ mtx' = t /\ \A u \in Tasks : pc'[u] = "wake" <=> u = t
      BY <2>1, <3>1, ServeType
    <3> QED BY <3>1, <3>2 DEF TypeOK
  <2>2. CASE Leave(t)
    BY <1>10, <2>2, LeaveType DEF TypeOK, ReleaseExclusive, MtxFree
  <2> QED BY <1>10, <2>1, <2>2 DEF ReleaseExclusive
<1>11. ASSUME NEW t \in Tasks, Wake(t) PROVE TypeOK'
  <2>1. mtx = t
    BY <1>11 DEF TypeOK, Wake
  <2>2. CASE ServeFront(t) /\ waiters # <<>>
    <3>1. woken' \in [Tasks -> BOOLEAN]
      BY <1>11 DEF TypeOK, Wake, CallWaker
    <3> QED BY <1>11, <2>1, <2>2, <3>1, ServeType DEF TypeOK, Wake
  <2>3. CASE Leave(t)
    <3>1. /\ waiters' \in Seq(Tasks) /\ isReady' \in [Tasks -> BOOLEAN]
          /\ next' \in [Tasks -> Tasks \cup {NoTask}] /\ pc' \in [Tasks -> Locations]
          /\ handed' \in BOOLEAN /\ behind' \in [Tasks -> SUBSET Tasks]
          /\ mtx' = NoTask /\ \A u \in Tasks : pc'[u] # "wake"
      BY <2>1, <2>3, LeaveType
    <3>2. /\ UNCHANGED <<readers, writerActive, mode, registered, waker>>
          /\ woken' \in [Tasks -> BOOLEAN]
      BY <1>11 DEF TypeOK, Wake, CallWaker
    <3> QED BY <3>1, <3>2 DEF TypeOK
  <2> QED BY <1>11, <2>2, <2>3 DEF Wake, MoreReaders
<1>12. ASSUME NEW t \in Tasks, Cancel(t) PROVE TypeOK'
  <2>1. waiters' \in Seq(Tasks)
    BY <1>12, EraseType DEF TypeOK, Cancel
  <2> QED BY <1>12, <2>1 DEF TypeOK, Cancel, Goto
<1> QED BY <1>1, <1>2, <1>3, <1>4, <1>5, <1>6, <1>7, <1>8, <1>9, <1>10, <1>11, <1>12
        DEF Next, PollUnderLock, Release

LEMMA InitType == Init => TypeOK
<1> SUFFICES ASSUME Init PROVE TypeOK
  OBVIOUS
<1>1. readers \in 0..Word - 1 /\ waiters \in Seq(Tasks)
  BY EmptySeq DEF Init
<1>2. /\ mode \in [Tasks -> {"read", "write"}]
      /\ registered \in [Tasks -> BOOLEAN] /\ isReady \in [Tasks -> BOOLEAN]
      /\ waker \in [Tasks -> {"none", "last", "older"}]
      /\ next \in [Tasks -> Tasks \cup {NoTask}] /\ woken \in [Tasks -> BOOLEAN]
      /\ behind \in [Tasks -> SUBSET Tasks]
  BY DEF Init
<1>3. pc \in [Tasks -> Locations] /\ \A t \in Tasks : pc[t] = "wake" <=> mtx = t
  BY DEF Init, Locations
<1> QED BY <1>1, <1>2, <1>3 DEF Init, TypeOK

\* Type correctness: the variables keep their types, readers_ is a word, and mtx_
\* is held between wake_next()'s store of is_ready_ and its wake.
THEOREM TypeCorrect == Spec => []TypeOK
<1> QED BY InitType, TypeStep, PTL DEF Spec

------------------------------------------------------------------------------
\* An awaitable that was made ready is a registered one.
ReadyRegistered ==
    \A t \in Tasks : pc[t] \in {"pending", "slow"} /\ isReady[t] => registered[t]

QInv == QueueConsistent /\ ReadyRegistered

\* The waiter that wake_next() serves leaves the queue as it becomes ready.
LEMMA ServeQueue ==
    ASSUME TypeOK, QInv, NEW t \in Tasks, pc[t] \in {"held", "wake"},
           ServeFront(t), waiters # <<>>, UNCHANGED registered
    PROVE  QInv'
<1> DEFINE h == Head(waiters)
<1>1. /\ h \in Tasks
      /\ Contains(waiters, h)
      /\ Distinct(waiters')
      /\ \A u : Contains(waiters', u) <=> Contains(waiters, u) /\ u # h
  BY TailOfQueue DEF TypeOK, QInv, QueueConsistent, ServeFront
<1>2. Waiting(h) /\ h # t
  BY <1>1 DEF QInv, QueueConsistent, Waiting
<1>3. /\ \A u \in Tasks \ {t} : pc'[u] = pc[u]
      /\ pc'[t] = "wake"
      /\ \A u \in Tasks \ {h} : isReady'[u] = isReady[u]
      /\ isReady'[h]
  BY <1>1 DEF ServeFront, TypeOK
<1> HIDE DEF h
<1>4. \A u \in Tasks : Waiting(u)' <=> Waiting(u) /\ u # h
  BY <1>2, <1>3 DEF Waiting
<1>5. QueueConsistent'
  BY <1>1, <1>4 DEF QInv, QueueConsistent
<1>6. ReadyRegistered'
  BY <1>2, <1>3 DEF QInv, ReadyRegistered, Waiting
<1> QED BY <1>5, <1>6 DEF QInv

LEMMA LeaveQueue ==
    ASSUME TypeOK, QInv, NEW t \in Tasks, pc[t] \in {"held", "wake"},
           Leave(t), UNCHANGED registered
    PROVE  QInv'
<1>1. \A u \in Tasks : Waiting(u)' <=> Waiting(u)
  BY DEF Leave, TypeOK, Waiting
<1>2. QueueConsistent'
  BY <1>1 DEF QInv, QueueConsistent, Leave
<1>3. ReadyRegistered'
  BY DEF QInv, ReadyRegistered, Leave, TypeOK
<1> QED BY <1>2, <1>3 DEF QInv

LEMMA QInvStep == TypeOK /\ QInv /\ [Next]_vars => QInv'
<1> SUFFICES ASSUME TypeOK, QInv, [Next]_vars PROVE QInv'
  OBVIOUS
<1> USE DEF Goto, lockState, taskState
\* Steps that neither queue anybody nor make anybody ready.
<1>1. ASSUME waiters' = waiters, \A u \in Tasks : Waiting(u)' <=> Waiting(u),
             \A u \in Tasks : pc'[u] \in {"pending", "slow"} /\ isReady'[u] =>
                 pc[u] \in {"pending", "slow"} /\ isReady[u] /\ registered'[u] = registered[u]
      PROVE  QInv'
  BY <1>1 DEF QInv, QueueConsistent, ReadyRegistered
<1>2. CASE UNCHANGED vars
  BY <1>1, <1>2 DEF vars, Waiting
<1>3. ASSUME NEW t \in Tasks, NEW m \in {"read", "write"}, Lock(t, m) PROVE QInv'
  <2>1. \A u \in Tasks : Waiting(u)' <=> Waiting(u)
    BY <1>3 DEF Lock, TypeOK, Waiting
  <2> QED BY <1>1, <1>3, <2>1 DEF Lock, TypeOK
<1>4. ASSUME NEW t \in Tasks, TryLockShared(t) \/ TryLock(t) PROVE QInv'
  <2>1. \A u \in Tasks : Waiting(u)' <=> Waiting(u)
    BY <1>4 DEF TryLockShared, TryLock, TypeOK, Waiting
  <2> QED BY <1>1, <1>4, <2>1 DEF TryLockShared, TryLock, TypeOK
<1>5. ASSUME NEW t \in Tasks, Poll(t) \/ PollPending(t) PROVE QInv'
  <2>1. \A u \in Tasks : Waiting(u)' <=> Waiting(u)
    BY <1>5 DEF Poll, PollFast, PollBegin, PollPending, TypeOK, Waiting
  <2> QED BY <1>1, <1>5, <2>1 DEF Poll, PollFast, PollBegin, PollPending, TypeOK
<1>6. ASSUME NEW t \in Tasks, PollEnterRead(t) \/ PollEnterWrite(t) \/ PollLateReady(t)
      PROVE  QInv'
  <2>1. \A u \in Tasks : Waiting(u)' <=> Waiting(u)
    BY <1>6 DEF PollEnterRead, PollEnterWrite, PollLateReady, TypeOK, Waiting
  <2> QED BY <1>1, <1>6, <2>1 DEF PollEnterRead, PollEnterWrite, PollLateReady, TypeOK
<1>7. ASSUME NEW t \in Tasks, PollRegister(t) PROVE QInv'
  <2> USE <1>7 DEF PollRegister
  <2>1. ~Contains(waiters, t) /\ ~isReady[t]
    BY DEF QInv, QueueConsistent, ReadyRegistered, Waiting
  <2>2. /\ Distinct(waiters')
        /\ \A u : Contains(waiters', u) <=> Contains(waiters, u) \/ u = t
    BY <2>1, AppendToQueue DEF TypeOK, QInv, QueueConsistent
  <2>3. \A u \in Tasks : Waiting(u)' <=> Waiting(u) \/ u = t
    BY <2>1 DEF TypeOK, Waiting
  <2>4. ReadyRegistered'
    BY DEF TypeOK, QInv, ReadyRegistered
  <2> QED BY <2>2, <2>3, <2>4 DEF QInv, QueueConsistent
<1>8. ASSUME NEW t \in Tasks, Release(t) \/ Wake(t) PROVE QInv'
  <2>1. pc[t] \in {"held", "wake"} /\ UNCHANGED registered
    BY <1>8 DEF Release, ReleaseShared, ReleaseExclusive, Wake
  <2>2. (ServeFront(t) /\ waiters # <<>>) \/ Leave(t)
    BY <1>8 DEF Release, ReleaseShared, ReleaseExclusive, Wake, MoreReaders
  <2> QED BY <2>1, <2>2, ServeQueue, LeaveQueue
<1>9. ASSUME NEW t \in Tasks, Cancel(t) PROVE QInv'
  <2> USE <1>9 DEF Cancel
  <2>1. \A u \in Tasks : Waiting(u)' <=> Waiting(u) /\ u # t
    BY DEF TypeOK, Waiting
  <2>2. ReadyRegistered'
    BY DEF TypeOK, QInv, ReadyRegistered
  <2>3. CASE registered[t]
    <3>1. /\ Distinct(waiters')
          /\ \A u : Contains(waiters', u) <=> Contains(waiters, u) /\ u # t
      BY <2>3, EraseFromQueue DEF TypeOK, QInv, QueueConsistent
    <3> QED BY <2>1, <2>2, <3>1 DEF QInv, QueueConsistent
  <2>4. CASE ~registered[t]
    BY <2>1, <2>2, <2>4 DEF QInv, QueueConsistent, Waiting
  <2> QED BY <2>3, <2>4
<1> QED BY <1>2, <1>3, <1>4, <1>5, <1>6, <1>7, <1>8, <1>9 DEF Next, PollUnderLock

LEMMA QInvAlways == Spec => [](TypeOK /\ QInv)
<1>1. Init => QInv
  BY EmptySeq DEF Init, QInv, QueueConsistent, ReadyRegistered, Waiting, Contains, Distinct
<1> QED BY <1>1, InitType, TypeStep, QInvStep, PTL DEF Spec

\* The queue holds the waiters that are registered and not served, each once,
\* for any number of readers and writers.
THEOREM Queue == Spec => []QueueConsistent
<1>1. QInv => QueueConsistent
  BY DEF QInv
<1> QED BY <1>1, QInvAlways, PTL

------------------------------------------------------------------------------
\* Every poll that leaves a waiter in the queue has stored its waker.
LastStored ==
    \A t \in Tasks : pc[t] = "pending" /\ registered[t] => waker[t] = "last"

LEMMA LastStoredStep == TypeOK /\ LastStored /\ [Next]_vars => LastStored'
<1> SUFFICES ASSUME TypeOK, LastStored, [Next]_vars PROVE LastStored'
  OBVIOUS
<1> USE DEF LastStored, Goto, Locations, lockState, taskState
<1>1. CASE UNCHANGED vars
  BY <1>1 DEF vars
<1>2. ASSUME NEW t \in Tasks, NEW m \in {"read", "write"}, Lock(t, m) PROVE LastStored'
  BY <1>2 DEF Lock, TypeOK
<1>3. ASSUME NEW t \in Tasks, PollUnderLock(t) \/ PollBegin(t) PROVE LastStored'
  BY <1>3 DEF TypeOK, PollUnderLock, PollEnterRead, PollEnterWrite, PollRegister,
              PollPending, PollLateReady, PollBegin, StoreWaker
<1>4. ASSUME waker' = waker,
             \A u \in Tasks : pc'[u] = "pending" => pc[u] = "pending",
             \A u \in Tasks : registered'[u] => registered[u]
      PROVE  LastStored'
  BY <1>4
<1>5. ASSUME NEW t \in Tasks, TryLockShared(t) \/ TryLock(t) \/ PollFast(t) \/ Cancel(t)
      PROVE  LastStored'
  BY <1>4, <1>5 DEF TypeOK, TryLockShared, TryLock, PollFast, Cancel
<1>6. ASSUME NEW t \in Tasks, Release(t) \/ Wake(t) PROVE LastStored'
  <2>1. waker' = waker /\ registered' = registered
    BY <1>6 DEF Release, ReleaseShared, ReleaseExclusive, Wake
  <2>2. ServeFront(t) \/ Leave(t)
    BY <1>6 DEF Release, ReleaseShared, ReleaseExclusive, Wake
  <2>3. \A u \in Tasks : pc'[u] = "pending" => pc[u] = "pending"
    BY <2>2 DEF ServeFront, Leave, TypeOK
  <2> QED BY <1>4, <2>1, <2>3
<1> QED BY <1>1, <1>2, <1>3, <1>5, <1>6 DEF Next, Poll

\* wake_next() stores is_ready_ and calls the waker before it unlocks, and every
\* poll that leaves the waiter pending has stored its own: whoever has been
\* served has been woken through its last waker, or is about to be.
THEOREM Woken == Spec => []NoLostWakeup
<1>1. Init => NoLostWakeup /\ LastStored
  BY DEF Init, NoLostWakeup, LastStored
<1>2. TypeOK /\ QInv /\ LastStored /\ NoLostWakeup /\ [Next]_vars => NoLostWakeup'
  <2> SUFFICES ASSUME TypeOK, QInv, LastStored, NoLostWakeup, [Next]_vars PROVE NoLostWakeup'
    OBVIOUS
  <2> USE DEF Goto, lockState, taskState
  \* Steps of tasks outside wake_next().
  <2>1. ASSUME \A u \in Tasks : isReady'[u] /\ pc'[u] = "pending" =>
                   isReady[u] /\ pc[u] = "pending" /\ woken'[u] = woken[u],
               \A u \in Tasks : pc[u] = "wake" => pc'[u] = "wake" /\ next'[u] = next[u]
        PROVE  NoLostWakeup'
    BY <2>1 DEF NoLostWakeup
  <2>2. CASE UNCHANGED vars
    BY <2>1, <2>2 DEF vars
  <2>3. ASSUME NEW t \in Tasks, NEW m \in {"read", "write"}, Lock(t, m)
        PROVE  NoLostWakeup'
    BY <2>1, <2>3 DEF Lock, TypeOK
  <2>4. ASSUME NEW t \in Tasks, TryLockShared(t) \/ TryLock(t) \/ Poll(t) \/ Cancel(t)
        PROVE  NoLostWakeup'
    <3>1. \A u \in Tasks : isReady'[u] /\ pc'[u] = "pending" =>
              isReady[u] /\ pc[u] = "pending" /\ woken'[u] = woken[u]
      BY <2>4 DEF TryLockShared, TryLock, Poll, PollFast, PollBegin, Cancel, TypeOK
    <3>2. \A u \in Tasks : pc[u] = "wake" => pc'[u] = "wake" /\ next'[u] = next[u]
      BY <2>4 DEF TryLockShared, TryLock, Poll, PollFast, PollBegin, Cancel, TypeOK
    <3> QED BY <2>1, <3>1, <3>2
  <2>5. ASSUME NEW t \in Tasks, PollUnderLock(t) PROVE NoLostWakeup'
    <3>1. \A u \in Tasks : isReady'[u] /\ pc'[u] = "pending" =>
              isReady[u] /\ pc[u] = "pending" /\ woken'[u] = woken[u]
      BY <2>5 DEF PollUnderLock, PollEnterRead, PollEnterWrite, PollRegister,
                  PollPending, PollLateReady, QInv, ReadyRegistered, TypeOK
    <3>2. \A u \in Tasks : pc[u] = "wake" => pc'[u] = "wake" /\ next'[u] = next[u]
      BY <2>5 DEF PollUnderLock, PollEnterRead, PollEnterWrite, PollRegister,
                  PollPending, PollLateReady, TypeOK
    <3> QED BY <2>1, <3>1, <3>2
  <2>6. ASSUME NEW t \in Tasks, Release(t) \/ Wake(t) PROVE NoLostWakeup'
    <3>1. \A u \in Tasks : pc[u] = "wake" => u = t /\ Wake(t)
      BY <2>6 DEF Release, ReleaseShared, ReleaseExclusive, Wake, MtxFree, TypeOK
    <3>2. \A u \in Tasks :
              woken[u] \/ (Wake(t) /\ u = next[t] /\ waker[u] = "last") => woken'[u]
      BY <2>6 DEF Release, ReleaseShared, ReleaseExclusive, Wake, CallWaker, TypeOK
    <3>3. \A u \in Tasks : isReady[u] /\ pc[u] = "pending" => woken'[u]
      <4>1. \A u \in Tasks : isReady[u] /\ pc[u] = "pending" => waker[u] = "last"
        BY DEF LastStored, QInv, ReadyRegistered
      <4> QED BY <3>1, <3>2, <4>1 DEF NoLostWakeup
    <3>4. CASE Leave(t)
      BY <3>3, <3>4 DEF Leave, NoLostWakeup, TypeOK
    <3>5. CASE ServeFront(t) /\ waiters # <<>>
      <4>1. Head(waiters) \in Tasks
        BY <3>5, HeadTailProperties DEF TypeOK
      <4>2. pc'[t] = "wake" /\ next'[t] = Head(waiters)
        BY <3>5, <4>1 DEF ServeFront, TypeOK
      <4>3. \A u \in Tasks : isReady'[u] /\ pc'[u] = "pending" =>
                u = Head(waiters) \/ (isReady[u] /\ pc[u] = "pending")
        BY <3>5, <4>1 DEF ServeFront, TypeOK
      <4> QED BY <3>3, <4>2, <4>3 DEF NoLostWakeup
    <3> QED BY <2>6, <3>4, <3>5 DEF Release, ReleaseShared, ReleaseExclusive, Wake,
                                    MoreReaders
  <2> QED BY <2>2, <2>3, <2>4, <2>5, <2>6 DEF Next
<1> QED BY <1>1, <1>2, LastStoredStep, QInvAlways, PTL DEF Spec

------------------------------------------------------------------------------
\* The operations on a queue keep the order of its elements.
LEMMA AppendOrder ==
    ASSUME NEW q \in Seq(Tasks), NEW x \in Tasks, NEW t, NEW u, u # x,
           Before(Append(q, x), u, t)
    PROVE  Contains(q, u) /\ (t # x => Before(q, u, t))
<1>1. /\ Len(Append(q, x)) = Len(q) + 1
      /\ \A i \in 1..Len(q) : Append(q, x)[i] = q[i]
      /\ Append(q, x)[Len(q) + 1] = x
      /\ Len(q) \in Nat
  BY AppendProperties, LenProperties
<1> QED BY <1>1 DEF Before, Contains

LEMMA TailOrder ==
    ASSUME NEW q \in Seq(Tasks), q # <<>>, NEW t, NEW u, Before(Tail(q), u, t)
    PROVE  Before(q, u, t)
<1>1. /\ Len(Tail(q)) = Len(q) - 1
      /\ \A i \in 1..Len(Tail(q)) : Tail(q)[i] = q[i + 1]
      /\ Len(q) \in Nat \ {0}
  BY HeadTailProperties, EmptySeq
<1>2. PICK i, j \in 1..Len(Tail(q)) : i < j /\ Tail(q)[i] = u /\ Tail(q)[j] = t
  BY DEF Before
<1>3. /\ i + 1 \in 1..Len(q) /\ q[i + 1] = u
      /\ j + 1 \in 1..Len(q) /\ q[j + 1] = t
      /\ i + 1 < j + 1
  BY <1>1, <1>2
<1> QED BY <1>3 DEF Before

LEMMA EraseOrder ==
    ASSUME NEW q \in Seq(Tasks), NEW x, NEW t, NEW u, Before(Erase(q, x), u, t)
    PROVE  Before(q, u, t)
<1>1. CASE ~Contains(q, x)
  BY <1>1 DEF Erase
<1>2. CASE Contains(q, x)
  <2>1. PICK k \in 1..Len(q) :
            /\ Len(Erase(q, x)) = Len(q) - 1
            /\ \A i \in 1..Len(q) - 1 :
                  Erase(q, x)[i] = IF i < k THEN q[i] ELSE q[i + 1]
    BY <1>2, EraseElements
  <2>2. PICK i, j \in 1..Len(Erase(q, x)) :
            i < j /\ Erase(q, x)[i] = u /\ Erase(q, x)[j] = t
    BY DEF Before
  <2> DEFINE old(n) == IF n < k THEN n ELSE n + 1
  <2>3. /\ old(i) \in 1..Len(q) /\ q[old(i)] = u
        /\ old(j) \in 1..Len(q) /\ q[old(j)] = t
        /\ old(i) < old(j)
    BY <2>1, <2>2, LenProperties
  <2> HIDE DEF old
  <2> QED BY <2>3 DEF Before
<1> QED BY <1>1, <1>2

\* In a queue without duplicates an order excludes its opposite, and the second
\* of two is not the head.
LEMMA OrderInQueue ==
    ASSUME NEW q \in Seq(Tasks), Distinct(q), NEW t, NEW u, Before(q, t, u)
    PROVE  /\ Contains(q, t) /\ Contains(q, u)
           /\ ~Before(q, u, t)
           /\ u # Head(q)
<1>1. PICK i, j \in 1..Len(q) : i < j /\ q[i] = t /\ q[j] = u
  BY DEF Before
<1>2. Len(q) \in Nat
  BY LenProperties
<1>3. Contains(q, t) /\ Contains(q, u)
  BY <1>1 DEF Contains
<1>4. ~Before(q, u, t)
  BY <1>1, <1>2 DEF Before, Distinct
<1>5. u # q[1]
  BY <1>1, <1>2 DEF Distinct
<1> QED BY <1>3, <1>4, <1>5

LEMMA OrderHasElements ==
    ASSUME NEW q, NEW t, NEW u, Before(q, t, u)
    PROVE  Contains(q, t) /\ Contains(q, u)
  BY DEF Before, Contains

\* First come, first served, for any mixture of readers and writers and with
\* cancellations in any place of the queue.
THEOREM FirstServed == Spec => FirstComeFirstServed
<1> DEFINE InOrder(t, u) ==
        /\ Before(waiters, t, u) => ~Before(waiters', u, t) /\ (isReady'[u] => isReady'[t])
        /\ Contains(waiters, t) /\ ~Contains(waiters, u) => ~Before(waiters', u, t)
<1>1. ASSUME TypeOK, QInv, [Next]_vars, NEW t \in Tasks, NEW u \in Tasks
      PROVE  InOrder(t, u)
  <2>1. waiters \in Seq(Tasks) /\ Distinct(waiters)
    BY <1>1 DEF TypeOK, QInv, QueueConsistent
  <2>2. Before(waiters, t, u) =>
            /\ Contains(waiters, t) /\ Contains(waiters, u)
            /\ ~Before(waiters, u, t)
            /\ u # Head(waiters)
            /\ ~isReady[u]
    BY <1>1, <2>1, OrderInQueue DEF QInv, QueueConsistent, Waiting
  <2>3. Before(waiters, u, t) => Contains(waiters, u)
    BY <2>1, OrderInQueue
  \* Whatever the step: it orders no old waiters anew and serves the head at most.
  <2>4. ASSUME Before(waiters', u, t) /\ Contains(waiters, t) => Before(waiters, u, t),
               Contains(waiters, u) /\ isReady'[u] => isReady[u] \/ u = Head(waiters)
        PROVE  InOrder(t, u)
    BY <2>2, <2>3, <2>4
  <2> HIDE DEF InOrder
  <2> USE DEF Goto, lockState, taskState
  <2>5. CASE UNCHANGED vars
    BY <2>4, <2>5 DEF vars
  <2>6. ASSUME NEW x \in Tasks, NEW m \in {"read", "write"}, Lock(x, m)
        PROVE  InOrder(t, u)
    BY <1>1, <2>4, <2>6 DEF Lock, TypeOK
  <2>7. ASSUME NEW x \in Tasks, TryLockShared(x) \/ TryLock(x) PROVE InOrder(t, u)
    BY <1>1, <2>4, <2>7 DEF TryLockShared, TryLock, TypeOK
  <2>8. ASSUME NEW x \in Tasks,
               \/ Poll(x) \/ PollEnterRead(x) \/ PollEnterWrite(x)
               \/ PollPending(x) \/ PollLateReady(x)
        PROVE  InOrder(t, u)
    BY <2>4, <2>8 DEF Poll, PollFast, PollBegin, PollEnterRead, PollEnterWrite,
                      PollPending, PollLateReady
  <2>9. ASSUME NEW x \in Tasks, PollRegister(x) PROVE InOrder(t, u)
    <3>1. ~Contains(waiters, x)
      BY <1>1, <2>9 DEF PollRegister, QInv, QueueConsistent, Waiting
    <3>2. waiters' = Append(waiters, x) /\ isReady' = isReady
      BY <2>9 DEF PollRegister
    <3>3. CASE u = x
      <4>1. ASSUME Before(Append(waiters, x), x, t) PROVE ~Contains(waiters, t)
        <5>1. /\ Append(waiters, x) \in Seq(Tasks)
              /\ Distinct(Append(waiters, x))
              /\ Len(Append(waiters, x)) = Len(waiters) + 1
              /\ Append(waiters, x)[Len(waiters) + 1] = x
              /\ Len(waiters) \in Nat
          BY <2>1, <3>1, AppendToQueue, AppendProperties, LenProperties
        <5> QED BY <4>1, <5>1 DEF Before, Distinct
      <4> QED BY <2>4, <3>1, <3>2, <3>3, <4>1
    <3>4. CASE u # x
      <4>1. Before(Append(waiters, x), u, t) => (t # x => Before(waiters, u, t))
        BY <2>1, <3>4, AppendOrder
      <4> QED BY <2>4, <3>1, <3>2, <4>1
    <3> QED BY <3>3, <3>4
  <2>10. ASSUME NEW x \in Tasks, Release(x) \/ Wake(x) PROVE InOrder(t, u)
    <3>1. CASE Leave(x)
      BY <2>4, <3>1 DEF Leave
    <3>2. CASE ServeFront(x) /\ waiters # <<>>
      <4>1. Before(Tail(waiters), u, t) => Before(waiters, u, t)
        BY <2>1, <3>2, TailOrder
      <4>2. isReady'[u] => isReady[u] \/ u = Head(waiters)
        BY <1>1, <3>2 DEF ServeFront, TypeOK
      <4> QED BY <2>4, <3>2, <4>1, <4>2 DEF ServeFront
    <3> QED BY <2>10, <3>1, <3>2 DEF Release, ReleaseShared, ReleaseExclusive, Wake,
                                     MoreReaders
  <2>11. ASSUME NEW x \in Tasks, Cancel(x) PROVE InOrder(t, u)
    <3>1. Before(waiters', u, t) => Before(waiters, u, t)
      BY <2>1, <2>11, EraseOrder DEF Cancel
    <3> QED BY <2>4, <2>11, <3>1 DEF Cancel
  <2> QED BY <1>1, <2>5, <2>6, <2>7, <2>8, <2>9, <2>10, <2>11 DEF Next, PollUnderLock
<1>2. TypeOK /\ QInv /\ [Next]_vars => [\A t, u \in Tasks : InOrder(t, u)]_vars
  <2> HIDE DEF InOrder
  <2> QED BY <1>1
<1>3. ([][\A t, u \in Tasks : InOrder(t, u)]_vars) => FirstComeFirstServed
  BY PTL DEF FirstComeFirstServed
<1> QED BY <1>2, <1>3, QInvAlways, PTL DEF Spec

------------------------------------------------------------------------------
\* A writer that t is behind is still queued, t waits for a shared lock, and t
\* is not ahead of it in the queue.
IsBehind(t, w) ==
    /\ mode[t] = "read" /\ mode[w] = "write"
    /\ pc[t] \in {"pending", "slow"}
    /\ ~isReady[t]
    /\ Contains(waiters, w)
    /\ ~Before(waiters, t, w)

BehindWriters == \A t, w \in Tasks : w \in behind[t] => IsBehind(t, w)

\* The longest waiter is ahead of every other.
LEMMA HeadFirst ==
    ASSUME NEW q \in Seq(Tasks), NEW w, Contains(q, w), w # Head(q)
    PROVE  Before(q, Head(q), w)
<1>1. PICK j \in 1..Len(q) : q[j] = w
  BY DEF Contains
<1>2. Len(q) \in Nat /\ 1 \in 1..Len(q) /\ 1 < j /\ q[1] = Head(q)
  BY <1>1, LenProperties
<1> QED BY <1>1, <1>2 DEF Before

LEMMA BehindStep == TypeOK /\ QInv /\ BehindWriters /\ [Next]_vars => BehindWriters'
<1> SUFFICES ASSUME TypeOK, QInv, BehindWriters, [Next]_vars,
                    NEW t \in Tasks, NEW w \in Tasks, w \in behind'[t]
             PROVE  IsBehind(t, w)'
  BY DEF BehindWriters
<1> USE DEF Goto, lockState, taskState
<1>1. waiters \in Seq(Tasks) /\ Distinct(waiters)
  BY DEF TypeOK, QInv, QueueConsistent
<1>2. w \in behind[t] => IsBehind(t, w)
  BY DEF BehindWriters
\* Whoever is queued waits in a poll or between polls.
<1>3. Contains(waiters, w) => Waiting(w)
  BY DEF QInv, QueueConsistent
<1>4. CASE UNCHANGED vars
  BY <1>2, <1>4 DEF vars, IsBehind
\* A request: the task that makes it is in no queue.
<1>5. ASSUME NEW x \in Tasks, NEW m \in {"read", "write"}, Lock(x, m)
      PROVE  IsBehind(t, w)'
  <2> USE <1>5 DEF Lock
  <2>1. pc[x] = "idle" /\ waiters' = waiters
    OBVIOUS
  <2>2. CASE t = x
    <3>1. m = "read" /\ w \in QueuedWriters
      BY <2>2 DEF TypeOK
    <3>2. Contains(waiters, w) /\ mode[w] = "write" /\ w # x
      BY <1>3, <2>1, <3>1 DEF QueuedWriters, Waiting
    <3>3. ~Before(waiters, t, w)
      BY <1>1, <2>1, <2>2, OrderInQueue DEF QInv, QueueConsistent, Waiting
    <3>4. mode'[t] = "read" /\ mode'[w] = mode[w] /\ pc'[t] = "pending" /\ ~isReady'[t]
      BY <2>2, <3>1, <3>2 DEF TypeOK
    <3> QED BY <2>1, <3>2, <3>3, <3>4 DEF IsBehind
  <2>3. CASE t # x
    <3>1. w \in behind[t] /\ mode'[t] = mode[t] /\ pc'[t] = pc[t] /\ isReady'[t] = isReady[t]
      BY <2>3 DEF TypeOK
    <3>2. w # x /\ mode'[w] = mode[w]
      BY <1>2, <1>3, <2>1, <3>1 DEF TypeOK, IsBehind, Waiting
    <3> QED BY <1>2, <2>1, <3>1, <3>2 DEF IsBehind
  <2> QED BY <2>2, <2>3
<1>6. ASSUME NEW x \in Tasks, TryLockShared(x) PROVE IsBehind(t, w)'
  <2> USE <1>6 DEF TryLockShared
  <2>1. QueuedWriters = {}
    BY DEF ReadersMayEnter, WriterWaiting, QueuedWriters, Contains
  <2>2. t # x /\ w \in behind[t]
    BY <2>1 DEF TypeOK
  <2>3. w # x
    BY <1>2, <1>3, <2>2 DEF IsBehind, Waiting
  <2>4. /\ mode'[t] = mode[t] /\ mode'[w] = mode[w] /\ pc'[t] = pc[t]
        /\ isReady'[t] = isReady[t] /\ waiters' = waiters
    BY <2>2, <2>3 DEF TypeOK
  <2> QED BY <1>2, <2>2, <2>4 DEF IsBehind
<1>7. ASSUME NEW x \in Tasks, TryLock(x) PROVE IsBehind(t, w)'
  <2> USE <1>7 DEF TryLock
  <2>1. w \in behind[t] /\ pc[x] = "idle"
    OBVIOUS
  <2>2. t # x /\ w # x
    BY <1>2, <1>3, <2>1 DEF IsBehind, Waiting
  <2>3. /\ mode'[t] = mode[t] /\ mode'[w] = mode[w] /\ pc'[t] = pc[t]
        /\ isReady'[t] = isReady[t] /\ waiters' = waiters
    BY <2>2 DEF TypeOK
  <2> QED BY <1>2, <2>1, <2>3 DEF IsBehind
\* A poll that gives a guard: its task is behind nobody.
<1>8. ASSUME NEW x \in Tasks,
             \/ PollFast(x) \/ PollEnterRead(x) \/ PollEnterWrite(x) \/ PollLateReady(x)
      PROVE  IsBehind(t, w)'
  <2>1. /\ behind' = behind /\ waiters' = waiters /\ mode' = mode /\ isReady' = isReady
        /\ \A u \in Tasks \ {x} : pc'[u] = pc[u]
    BY <1>8 DEF PollFast, PollEnterRead, PollEnterWrite, PollLateReady, TypeOK
  <2>2. IsBehind(t, w)
    BY <1>2, <2>1
  <2>3. isReady[x] \/ mode[x] = "write" \/ ~WriterWaiting
    BY <1>8 DEF PollFast, PollEnterRead, PollEnterWrite, PollLateReady, ReadersMayEnter
  <2>4. WriterWaiting
    BY <2>2 DEF IsBehind, WriterWaiting, Contains
  <2>5. t # x
    BY <2>2, <2>3, <2>4 DEF IsBehind
  <2> QED BY <2>1, <2>2, <2>5 DEF IsBehind
<1>9. ASSUME NEW x \in Tasks, PollBegin(x) \/ PollPending(x) PROVE IsBehind(t, w)'
  <2>1. /\ behind' = behind /\ waiters' = waiters /\ mode' = mode /\ isReady' = isReady
        /\ \A u \in Tasks : pc'[u] = pc[u] \/ pc'[u] \in {"pending", "slow"}
    BY <1>9 DEF PollBegin, PollPending, TypeOK
  <2> QED BY <1>2, <2>1 DEF IsBehind
\* A registration is at the end of the queue.
<1>10. ASSUME NEW x \in Tasks, PollRegister(x) PROVE IsBehind(t, w)'
  <2> USE <1>10 DEF PollRegister
  <2>1. /\ waiters' = Append(waiters, x) /\ behind' = behind /\ mode' = mode
        /\ isReady' = isReady
        /\ \A u \in Tasks : pc'[u] = pc[u] \/ pc'[u] \in {"pending", "slow"}
    BY DEF TypeOK
  <2>2. IsBehind(t, w)
    BY <1>2, <2>1
  <2>3. ~Contains(waiters, x)
    BY DEF QInv, QueueConsistent, Waiting
  <2>4. /\ Append(waiters, x) \in Seq(Tasks) /\ Distinct(Append(waiters, x))
        /\ \A u : Contains(Append(waiters, x), u) <=> Contains(waiters, u) \/ u = x
    BY <1>1, <2>3, AppendToQueue
  <2>5. ~Before(Append(waiters, x), t, w)
    <3>1. w # x
      BY <2>2, <2>3 DEF IsBehind
    <3>2. CASE t # x
      BY <1>1, <2>2, <3>1, <3>2, AppendOrder DEF IsBehind
    <3>3. CASE t = x
      <4>1. /\ Len(Append(waiters, x)) = Len(waiters) + 1 /\ Len(waiters) \in Nat
            /\ Append(waiters, x)[Len(waiters) + 1] = x
        BY <1>1, AppendProperties, LenProperties
      <4> QED BY <2>4, <3>3, <4>1 DEF Before, Distinct
    <3> QED BY <3>2, <3>3
  <2> QED BY <2>1, <2>2, <2>4, <2>5 DEF IsBehind
\* A release serves the head of the queue, which is ahead of every writer left.
<1>11. ASSUME NEW x \in Tasks, Release(x) \/ Wake(x) PROVE IsBehind(t, w)'
  <2>1. pc[x] \in {"held", "wake"} /\ mode' = mode
    BY <1>11 DEF Release, ReleaseShared, ReleaseExclusive, Wake
  <2>2. CASE Leave(x)
    <3>1. /\ behind' = behind /\ waiters' = waiters /\ isReady' = isReady
          /\ \A u \in Tasks \ {x} : pc'[u] = pc[u]
      BY <2>2 DEF Leave, TypeOK
    <3>2. IsBehind(t, w)
      BY <1>2, <3>1
    <3>3. t # x
      BY <2>1, <3>2 DEF IsBehind
    <3> QED BY <2>1, <3>1, <3>2, <3>3 DEF IsBehind
  <2>3. CASE ServeFront(x) /\ waiters # <<>>
    <3> DEFINE h == Head(waiters)
    <3>1. h \in Tasks /\ \A u : Contains(Tail(waiters), u) <=> Contains(waiters, u) /\ u # h
      BY <1>1, <2>3, TailOfQueue
    <3>2. w \in behind[t] /\ w # h
      BY <2>3 DEF ServeFront
    <3>3. /\ waiters' = Tail(waiters)
          /\ \A u \in Tasks \ {x} : pc'[u] = pc[u]
          /\ \A u \in Tasks \ {h} : isReady'[u] = isReady[u]
      BY <2>3, <3>1 DEF ServeFront, TypeOK
    <3> HIDE DEF h
    <3>4. IsBehind(t, w)
      BY <1>2, <3>2
    <3>5. t # x
      BY <2>1, <3>4 DEF IsBehind
    <3>6. t # h
      BY <1>1, <3>2, <3>4, HeadFirst DEF IsBehind, h
    <3>7. ~Before(Tail(waiters), t, w)
      BY <1>1, <2>3, <3>4, TailOrder DEF IsBehind
    <3> QED BY <2>1, <3>1, <3>2, <3>3, <3>4, <3>5, <3>6, <3>7 DEF IsBehind
  <2> QED BY <1>11, <2>2, <2>3 DEF Release, ReleaseShared, ReleaseExclusive, Wake,
                                   MoreReaders
\* An awaitable that goes takes nobody's place but its own.
<1>12. ASSUME NEW x \in Tasks, Cancel(x) PROVE IsBehind(t, w)'
  <2> USE <1>12 DEF Cancel
  <2>1. t # x /\ w # x /\ w \in behind[t]
    OBVIOUS
  <2>2. IsBehind(t, w)
    BY <1>2, <2>1
  <2>3. mode' = mode /\ isReady' = isReady /\ pc'[t] = pc[t]
    BY <2>1 DEF TypeOK
  <2>4. CASE ~registered[x]
    BY <2>2, <2>3, <2>4 DEF IsBehind
  <2>5. CASE registered[x]
    <3>1. \A u : Contains(Erase(waiters, x), u) <=> Contains(waiters, u) /\ u # x
      BY <1>1, EraseFromQueue
    <3>2. ~Before(Erase(waiters, x), t, w)
      BY <1>1, <2>2, EraseOrder DEF IsBehind
    <3> QED BY <2>1, <2>2, <2>3, <2>5, <3>1, <3>2 DEF IsBehind
  <2> QED BY <2>4, <2>5
<1> QED BY <1>4, <1>5, <1>6, <1>7, <1>8, <1>9, <1>10, <1>11, <1>12
        DEF Next, Poll, PollUnderLock

\* A reader that asked while a writer was queued, whatever it and the others do
\* afterwards (cancel, poll again, release, serve readers in a row), has no guard
\* before that writer has been served or has left the queue.
THEOREM ReadersQueueBehind == Spec => []NewReadersQueueBehind
<1>1. Init => BehindWriters
  BY DEF Init, BehindWriters
<1>2. BehindWriters => NewReadersQueueBehind
  BY DEF BehindWriters, NewReadersQueueBehind, IsBehind, Holds
<1> QED BY <1>1, <1>2, BehindStep, QInvAlways, PTL DEF Spec

------------------------------------------------------------------------------
\* Before the first handoff no waiter is ready and nobody is in wake_next().
Unserved ==
    \A t \in Tasks :
        pc[t] # "wake" /\ (pc[t] \in {"pending", "slow"} => ~isReady[t])

Counted == ~handed => Unserved /\ Exclusion /\ Accounting

\* readers_ counts without wrapping as long as it can count the tasks.
LEMMA CountUp ==
    ASSUME NEW r \in 0..Word - 1, r + 1 < Word
    PROVE  (r + 1) % Word = r + 1
  OBVIOUS

LEMMA CountDown ==
    ASSUME NEW r \in 1..Word - 1
    PROVE  (r + Word - 1) % Word = r - 1
<1>1. r + Word - 1 = (r - 1) + 1 * Word /\ r - 1 \in 0..Word - 1
  OBVIOUS
<1> QED BY <1>1

LEMMA CountedStep ==
    ASSUME IsFiniteSet(Tasks), Cardinality(Tasks) < Word,
           TypeOK, Counted, [Next]_vars
    PROVE  Counted'
<1> SUFFICES ASSUME ~handed' PROVE (Unserved /\ Exclusion /\ Accounting)'
  BY DEF Counted
<1> USE DEF Goto, lockState, taskState
<1>1. ~handed
  BY DEF Next, vars, Lock, TryLockShared, TryLock, Poll, PollFast, PollBegin,
         PollUnderLock, PollEnterRead, PollEnterWrite, PollRegister, PollPending,
         PollLateReady, Release, ReleaseShared, ReleaseExclusive, Wake, ServeFront,
         Leave, Cancel
<1>2. Unserved /\ Exclusion /\ Accounting
  BY <1>1 DEF Counted
<1>3. /\ IsFiniteSet(ReadersHolding)
      /\ Cardinality(ReadersHolding) \in Nat
      /\ Cardinality(Tasks) \in Nat
  BY FS_Subset, FS_CardinalityType DEF ReadersHolding
\* Steps after which the same tasks have the same guards.
<1>4. ASSUME Unserved', UNCHANGED <<readers, writerActive>>,
             \A u \in Tasks : pc'[u] = "held" <=> pc[u] = "held",
             \A u \in Tasks : pc[u] = "held" => mode'[u] = mode[u]
      PROVE  (Unserved /\ Exclusion /\ Accounting)'
  <2>1. ReadersHolding' = ReadersHolding /\ WritersHolding' = WritersHolding
    BY <1>4 DEF ReadersHolding, WritersHolding, Holds
  <2> QED BY <1>2, <1>4, <2>1 DEF Exclusion, Accounting
\* A task that had none gets a shared guard.
<1>5. ASSUME NEW t \in Tasks, pc[t] # "held", ~writerActive, AddReader, Unserved',
             UNCHANGED writerActive, pc' = [pc EXCEPT ![t] = "held"],
             mode'[t] = "read", \A u \in Tasks \ {t} : mode'[u] = mode[u]
      PROVE  (Unserved /\ Exclusion /\ Accounting)'
  <2>1. ReadersHolding' = ReadersHolding \cup {t} /\ t \notin ReadersHolding
    BY <1>5 DEF ReadersHolding, Holds, TypeOK
  <2>2. WritersHolding' = {}
    BY <1>2, <1>5 DEF Accounting, WritersHolding, Holds, TypeOK
  <2>3. Cardinality(ReadersHolding') = Cardinality(ReadersHolding) + 1
    BY <1>3, <2>1, FS_AddElement
  <2>4. Cardinality(ReadersHolding') <= Cardinality(Tasks)
    <3>1. ReadersHolding' \subseteq Tasks
      BY <2>1 DEF ReadersHolding
    <3> QED BY <3>1, FS_Subset
  <2>5. readers' = readers + 1
    BY <1>2, <1>3, <1>5, <2>3, <2>4, CountUp DEF AddReader, Accounting, TypeOK
  <2> QED BY <1>2, <1>5, <2>2, <2>3, <2>5 DEF Exclusion, Accounting
\* A task gets the unique guard while nobody has one.
<1>6. ASSUME NEW t \in Tasks, pc[t] # "held", WriterMayEnter, writerActive', Unserved',
             UNCHANGED readers, pc' = [pc EXCEPT ![t] = "held"],
             mode'[t] = "write", \A u \in Tasks \ {t} : mode'[u] = mode[u]
      PROVE  (Unserved /\ Exclusion /\ Accounting)'
  <2>1. ReadersHolding = {} /\ WritersHolding = {}
    <3>1. readers = 0 /\ ~writerActive
      BY <1>6 DEF WriterMayEnter
    <3> QED BY <1>2, <1>3, <3>1, FS_EmptySet DEF Accounting
  <2>2. \A u \in Tasks : pc[u] # "held"
    BY <2>1 DEF ReadersHolding, WritersHolding, Holds, TypeOK
  <2>3. ReadersHolding' = {} /\ WritersHolding' = {t}
    BY <1>6, <2>2 DEF ReadersHolding, WritersHolding, Holds, TypeOK
  <2>4. Exclusion'
    BY <1>6, <2>2, <2>3 DEF Exclusion, TypeOK
  <2>5. Accounting'
    BY <1>2, <1>6, <2>1, <2>3 DEF Accounting
  <2> QED BY <1>6, <2>4, <2>5
<1>7. CASE UNCHANGED vars
  <2>1. Unserved'
    BY <1>2, <1>7 DEF vars, Unserved
  <2> QED BY <1>4, <1>7, <2>1 DEF vars
<1>8. ASSUME NEW t \in Tasks, NEW m \in {"read", "write"}, Lock(t, m)
      PROVE  (Unserved /\ Exclusion /\ Accounting)'
  <2>1. Unserved'
    BY <1>2, <1>8 DEF Lock, Unserved, TypeOK
  <2> QED BY <1>4, <1>8, <2>1 DEF Lock, TypeOK
<1>9. ASSUME NEW t \in Tasks, TryLockShared(t) \/ PollEnterRead(t)
      PROVE  (Unserved /\ Exclusion /\ Accounting)'
  <2> USE <1>9 DEF TryLockShared, PollEnterRead, ReadersMayEnter
  <2>1. Unserved'
    BY <1>2 DEF Unserved, TypeOK
  <2>2. /\ pc[t] # "held" /\ ~writerActive /\ AddReader /\ UNCHANGED writerActive
        /\ pc' = [pc EXCEPT ![t] = "held"]
    OBVIOUS
  <2>3. mode'[t] = "read" /\ \A u \in Tasks \ {t} : mode'[u] = mode[u]
    BY DEF TypeOK
  <2> QED BY <1>5, <2>1, <2>2, <2>3
<1>10. ASSUME NEW t \in Tasks, TryLock(t) \/ PollEnterWrite(t)
       PROVE  (Unserved /\ Exclusion /\ Accounting)'
  <2> USE <1>10 DEF TryLock, PollEnterWrite
  <2>1. Unserved'
    BY <1>2 DEF Unserved, TypeOK
  <2>2. /\ pc[t] # "held" /\ WriterMayEnter /\ writerActive' /\ UNCHANGED readers
        /\ pc' = [pc EXCEPT ![t] = "held"]
    OBVIOUS
  <2>3. mode'[t] = "write" /\ \A u \in Tasks \ {t} : mode'[u] = mode[u]
    BY DEF TypeOK
  <2> QED BY <1>6, <2>1, <2>2, <2>3
<1>11. ASSUME NEW t \in Tasks, PollFast(t) \/ PollLateReady(t) \/ Wake(t) PROVE FALSE
  BY <1>2, <1>11 DEF PollFast, PollLateReady, Wake, Unserved
<1>12. ASSUME NEW t \in Tasks, PollBegin(t) \/ PollRegister(t) \/ PollPending(t) \/ Cancel(t)
       PROVE  (Unserved /\ Exclusion /\ Accounting)'
  <2> USE <1>12 DEF PollBegin, PollRegister, PollPending, Cancel
  <2>1. Unserved'
    BY <1>2 DEF Unserved, TypeOK
  <2>2. UNCHANGED <<readers, writerActive, mode>>
    OBVIOUS
  <2>3. \A u \in Tasks : pc'[u] = "held" <=> pc[u] = "held"
    BY DEF TypeOK
  <2> QED BY <1>4, <2>1, <2>2, <2>3
<1>13. ASSUME NEW t \in Tasks, ReleaseShared(t)
       PROVE  (Unserved /\ Exclusion /\ Accounting)'
  <2> USE <1>13 DEF ReleaseShared
  <2>1. Leave(t)
    BY DEF ServeFront
  <2>2. Unserved'
    BY <1>2, <2>1 DEF Leave, Unserved, TypeOK
  <2>3. ReadersHolding' = ReadersHolding \ {t} /\ t \in ReadersHolding
    BY <2>1 DEF Leave, ReadersHolding, Holds, TypeOK
  <2>4. WritersHolding' = WritersHolding
    BY <2>1 DEF Leave, WritersHolding, Holds, TypeOK
  <2>5. Cardinality(ReadersHolding') = Cardinality(ReadersHolding) - 1
    BY <1>3, <2>3, FS_RemoveElement
  <2>6. Cardinality(ReadersHolding) # 0
    BY <1>3, <2>3, FS_EmptySet
  <2>7. readers' = readers - 1
    <3>1. readers \in 1..Word - 1
      BY <1>2, <1>3, <2>6 DEF Accounting, TypeOK
    <3>2. readers' = (readers + Word - 1) % Word
      BY DEF RemoveReader
    <3> HIDE DEF ReleaseShared
    <3> QED BY <3>1, <3>2, CountDown
  <2>8. Exclusion'
    BY <1>2, <2>1, <2>4 DEF Exclusion, Leave, TypeOK
  <2> QED BY <1>2, <2>2, <2>4, <2>5, <2>7, <2>8 DEF Accounting
<1>14. ASSUME NEW t \in Tasks, ReleaseExclusive(t)
       PROVE  (Unserved /\ Exclusion /\ Accounting)'
  <2> USE <1>14 DEF ReleaseExclusive
  <2>1. Leave(t) /\ ~writerActive' /\ UNCHANGED <<readers, mode>>
    BY DEF ServeFront
  <2>2. Unserved'
    BY <1>2, <2>1 DEF Leave, Unserved, TypeOK
  <2>3. \A u \in Tasks : pc[u] = "held" => u = t /\ mode[u] = "write"
    BY <1>2 DEF Exclusion, WritersHolding, Holds
  <2>4. \A u \in Tasks : pc'[u] # "held"
    BY <2>1, <2>3 DEF Leave, TypeOK
  <2>5. ReadersHolding' = {} /\ WritersHolding' = {} /\ ReadersHolding = {}
    BY <2>3, <2>4 DEF ReadersHolding, WritersHolding, Holds
  <2> QED BY <1>2, <2>1, <2>2, <2>5 DEF Exclusion, Accounting
<1> QED BY <1>7, <1>8, <1>9, <1>10, <1>11, <1>12, <1>13, <1>14
        DEF Next, Poll, PollUnderLock, Release

\* As long as no release has served a waiter, readers exclude writers and the
\* counts match the guards, for any number of tasks that readers_ can count.
THEOREM SoundAtFirst ==
    ASSUME IsFiniteSet(Tasks), Cardinality(Tasks) < Word
    PROVE  Spec => []SoundUntilHandoff
<1>1. Init => Counted
  <2> SUFFICES ASSUME Init PROVE Counted
    OBVIOUS
  <2>1. ReadersHolding = {} /\ WritersHolding = {}
    BY DEF Init, ReadersHolding, WritersHolding, Holds
  <2> QED BY <2>1, FS_EmptySet DEF Init, Counted, Unserved, Exclusion, Accounting
<1>2. TypeOK /\ Counted /\ [Next]_vars => Counted'
  BY CountedStep
<1>3. Counted => SoundUntilHandoff
  BY DEF Counted, SoundUntilHandoff
<1> QED BY <1>1, <1>2, <1>3, TypeCorrect, PTL DEF Spec
==============================================================================

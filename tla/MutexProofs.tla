----------------------------- MODULE MutexProofs -----------------------------
(***************************************************************************)
(* Theorems about Mutex for every set of tasks.                            *)
(***************************************************************************)
EXTENDS Mutex, WaitQueueProofs

USE NoTaskAssumption

\* Every step keeps the types.
LEMMA TypeStep == TypeOK /\ [Next]_vars => TypeOK'
<1> SUFFICES ASSUME TypeOK, [Next]_vars PROVE TypeOK'
  OBVIOUS
<1> USE DEF Locations
<1>1. CASE UNCHANGED vars
  BY <1>1 DEF TypeOK, vars
<1>2. ASSUME NEW t \in Tasks, Lock(t) \/ TryLock(t) \/ Poll(t) \/ Cancel(t)
      PROVE  TypeOK'
  <2>1. CASE Lock(t) \/ TryLock(t)
    <3>1. CASE Lock(t)
      BY <3>1 DEF TypeOK, Lock, Goto
    <3>2. CASE TryLock(t)
      BY <3>2 DEF TypeOK, TryLock, Goto
    <3> QED BY <2>1, <3>1, <3>2
  <2>2. CASE Poll(t)
    <3>1. /\ pc' \in {[pc EXCEPT ![t] = "held"], [pc EXCEPT ![t] = "slow"]}
          /\ pc[t] = "pending" /\ woken' = [woken EXCEPT ![t] = FALSE]
          /\ waker' \in {waker, [waker EXCEPT ![t] = "older"]}
          /\ UNCHANGED <<mtx, locked, waiters, registered, isReady, next>>
      BY <2>2 DEF Poll, PollFast, PollBegin, Goto
    <3>2. /\ pc' \in [Tasks -> Locations] /\ woken' \in [Tasks -> BOOLEAN]
          /\ waker' \in [Tasks -> {"none", "last", "older"}]
          /\ \A u \in Tasks : pc'[u] = "wake" <=> pc[u] = "wake"
      BY <3>1 DEF TypeOK
    <3> QED BY <3>1, <3>2 DEF TypeOK
  <2>3. CASE Cancel(t)
    BY <2>3 DEF TypeOK, Cancel, CancelUnregistered, CancelReady, CancelQueued, Goto
  <2> QED BY <1>2, <2>1, <2>2, <2>3
<1>3. ASSUME NEW t \in Tasks, PollAcquire(t) \/ PollPending(t) \/ PollLateReady(t)
      PROVE  TypeOK'
  <2>1. CASE PollAcquire(t)
    BY <2>1 DEF TypeOK, PollAcquire, StoreWaker, Goto
  <2>2. CASE PollPending(t)
    BY <2>2 DEF TypeOK, PollPending, StoreWaker, Goto
  <2>3. CASE PollLateReady(t)
    BY <2>3 DEF TypeOK, PollLateReady, StoreWaker, Goto
  <2> QED BY <1>3, <2>1, <2>2, <2>3
<1>4. ASSUME NEW t \in Tasks, PollRegister(t) PROVE TypeOK'
  <2>1. waiters' \in Seq(Tasks)
    BY <1>4, AppendProperties DEF TypeOK, PollRegister
  <2> QED BY <1>4, <2>1 DEF TypeOK, PollRegister, StoreWaker, Goto
<1>5. ASSUME NEW t \in Tasks, ReleaseHandoff(t) PROVE TypeOK'
  <2>1. waiters' \in Seq(Tasks) /\ Head(waiters) \in Tasks
    BY <1>5, HeadTailProperties DEF TypeOK, ReleaseHandoff
  <2> QED BY <1>5, <2>1 DEF TypeOK, ReleaseHandoff, Releasing, MtxFree, Goto
<1>6. ASSUME NEW t \in Tasks, ReleaseFree(t) PROVE TypeOK'
  BY <1>6 DEF TypeOK, ReleaseFree, Releasing, Goto
<1>7. ASSUME NEW t \in Tasks, Wake(t) PROVE TypeOK'
  BY <1>7 DEF TypeOK, Wake, CallWaker, Goto
<1>8. ASSUME NEW t \in Tasks, RemoveWaiter(t) PROVE TypeOK'
  <2>1. waiters' \in Seq(Tasks)
    BY <1>8, EraseType DEF TypeOK, RemoveWaiter
  <2> QED BY <1>8, <2>1 DEF TypeOK, RemoveWaiter, Goto
<1> QED BY <1>1, <1>2, <1>3, <1>4, <1>5, <1>6, <1>7, <1>8
        DEF Next, PollUnderLock, Release

LEMMA InitType == Init => TypeOK
<1> SUFFICES ASSUME Init PROVE TypeOK
  OBVIOUS
<1>1. waiters \in Seq(Tasks)
  BY EmptySeq DEF Init
<1>2. /\ registered \in [Tasks -> BOOLEAN] /\ isReady \in [Tasks -> BOOLEAN]
      /\ waker \in [Tasks -> {"none", "last", "older"}]
      /\ next \in [Tasks -> Tasks \cup {NoTask}] /\ woken \in [Tasks -> BOOLEAN]
  BY DEF Init
<1>3. pc \in [Tasks -> Locations] /\ \A t \in Tasks : pc[t] = "wake" <=> mtx = t
  BY DEF Init, Locations
<1> QED BY <1>1, <1>2, <1>3 DEF Init, TypeOK

\* Type correctness: the variables keep their types and mtx_ is held exactly
\* between release()'s store of is_ready_ and its unlock (mutex.cppm:41-52).
THEOREM TypeCorrect == Spec => []TypeOK
<1> QED BY InitType, TypeStep, PTL DEF Spec

------------------------------------------------------------------------------
\* Where Owns and Waiting look: tasks that have an awaitable.
Awaiting == {"pending", "slow", "remove"}

\* The inductive step of IInv, for one task at a time.
LEMMA IInvStep ==
    ASSUME IInv, TypeOK', NEW t \in Tasks,
           \/ Lock(t) \/ TryLock(t) \/ Poll(t) \/ PollUnderLock(t)
           \/ Release(t) \/ Wake(t) \/ Cancel(t) \/ RemoveWaiter(t)
    PROVE  IInv'
<1> USE DEF IInv, Locations
<1> DEFINE Kept == MutualExclusion' /\ QueueConsistent' /\ ReadyRegistered'
<1>1. CASE Lock(t)
  BY <1>1 DEF Lock, Goto, TypeOK, MutualExclusion, QueueConsistent,
              ReadyRegistered, Owns, Waiting
<1>2. CASE TryLock(t)
  BY <1>2 DEF TryLock, Goto, TypeOK, MutualExclusion, QueueConsistent,
              ReadyRegistered, Owns, Waiting
<1>3. CASE PollFast(t) \/ PollBegin(t)
  BY <1>3 DEF PollFast, PollBegin, Goto, TypeOK, MutualExclusion,
              QueueConsistent, ReadyRegistered, Owns, Waiting
<1>4. CASE PollAcquire(t) \/ PollPending(t) \/ PollLateReady(t)
  BY <1>4 DEF PollAcquire, PollPending, PollLateReady, Goto, TypeOK,
              MutualExclusion, QueueConsistent, ReadyRegistered, Owns, Waiting
<1>5. CASE PollRegister(t)
  <2> USE <1>5 DEF PollRegister
  <2>1. ~Contains(waiters, t)
    BY DEF Goto, QueueConsistent, Waiting
  <2>2. /\ waiters' # <<>>
        /\ Distinct(waiters')
        /\ \A u : Contains(waiters', u) <=> Contains(waiters, u) \/ u = t
    BY <2>1, AppendToQueue DEF TypeOK, QueueConsistent
  <2>3. MutualExclusion' /\ ReadyRegistered'
    BY DEF Goto, TypeOK, MutualExclusion, ReadyRegistered, Owns
  <2>4. QueueConsistent'
    BY <2>2 DEF Goto, TypeOK, QueueConsistent, ReadyRegistered, Waiting
  <2> QED BY <2>3, <2>4
<1>6. CASE ReleaseHandoff(t)
  <2> USE <1>6 DEF ReleaseHandoff
  <2> DEFINE h == Head(waiters)
  <2>1. /\ h \in Tasks
        /\ Contains(waiters, h)
        /\ Distinct(waiters')
        /\ \A u : Contains(waiters', u) <=> Contains(waiters, u) /\ u # h
    BY TailOfQueue DEF TypeOK, QueueConsistent
  <2> HIDE DEF h
  <2>2. Waiting(h) /\ h # t
    BY <2>1 DEF QueueConsistent, Waiting, Releasing
  <2>3. Owns(t) /\ locked
    BY DEF Owns, Releasing, MutualExclusion
  <2>4. \A u \in Tasks : Owns(u)' <=> u = h
    BY <2>1, <2>2, <2>3 DEF Owns, Waiting, Goto, TypeOK, MutualExclusion, h
  <2>5. MutualExclusion'
    BY <2>3, <2>4 DEF MutualExclusion
  <2>6. QueueConsistent'
    BY <2>1, <2>2, <2>3 DEF QueueConsistent, Waiting, Goto, TypeOK, Releasing, h
  <2>7. ReadyRegistered'
    BY <2>2 DEF ReadyRegistered, Waiting, Goto, TypeOK, Releasing, h
  <2> QED BY <2>5, <2>6, <2>7
<1>7. CASE ReleaseFree(t)
  <2> USE <1>7 DEF ReleaseFree
  <2>1. \A u \in Tasks : ~Owns(u)'
    BY DEF Owns, Releasing, Goto, TypeOK, MutualExclusion
  <2>2. MutualExclusion'
    BY <2>1 DEF MutualExclusion
  <2>3. QueueConsistent' /\ ReadyRegistered'
    BY DEF QueueConsistent, ReadyRegistered, Waiting, Goto, TypeOK, Releasing
  <2> QED BY <2>2, <2>3
<1>8. CASE Wake(t)
  BY <1>8 DEF Wake, Goto, TypeOK, MutualExclusion, QueueConsistent,
              ReadyRegistered, Owns, Waiting
<1>9. CASE Cancel(t)
  BY <1>9 DEF Cancel, CancelUnregistered, CancelReady, CancelQueued, Goto, TypeOK,
              MutualExclusion, QueueConsistent, ReadyRegistered, Owns, Waiting
<1>10. CASE RemoveWaiter(t)
  <2> USE <1>10 DEF RemoveWaiter
  <2>1. /\ Distinct(waiters')
        /\ \A u : Contains(waiters', u) <=> Contains(waiters, u) /\ u # t
    BY EraseFromQueue DEF TypeOK, QueueConsistent
  <2>2. MutualExclusion' /\ ReadyRegistered'
    BY DEF Goto, TypeOK, MutualExclusion, ReadyRegistered, Owns
  <2>3. waiters' # <<>> => waiters # <<>>
    BY DEF Erase, Contains, TypeOK
  <2>4. QueueConsistent'
    BY <2>1, <2>3 DEF Goto, TypeOK, QueueConsistent, Waiting
  <2> QED BY <2>2, <2>4
<1> QED BY <1>1, <1>2, <1>3, <1>4, <1>5, <1>6, <1>7, <1>8, <1>9, <1>10
        DEF Poll, PollUnderLock, Release

LEMMA IInvNext == IInv /\ [Next]_vars => IInv'
<1> SUFFICES ASSUME IInv, [Next]_vars PROVE IInv'
  OBVIOUS
<1>1. TypeOK'
  BY TypeStep DEF IInv
<1>2. CASE UNCHANGED vars
  BY <1>2 DEF vars, IInv, TypeOK, MutualExclusion, QueueConsistent,
              ReadyRegistered, Owns, Waiting
<1>3. CASE Next
  BY <1>1, <1>3, IInvStep DEF Next
<1> QED BY <1>2, <1>3

LEMMA InitIInv == Init => IInv
<1>1. Init => MutualExclusion /\ QueueConsistent /\ ReadyRegistered
  BY EmptySeq DEF Init, MutualExclusion, QueueConsistent, ReadyRegistered,
                  Owns, Waiting, Contains, Distinct
<1> QED BY <1>1, InitType DEF IInv

\* The inductive invariant holds in every reachable state.
LEMMA Inductive == Spec => []IInv
  BY InitIInv, IInvNext, PTL DEF Spec

\* Whatever the interleaving and the cancellations, the lock is never assigned
\* to two tasks.
THEOREM Exclusion == Spec => []MutualExclusion
<1>1. IInv => MutualExclusion
  BY DEF IInv
<1> QED BY <1>1, Inductive, PTL

\* The queue holds the waiters that are registered and not served, each once, and
\* is empty while the mutex is unlocked.
THEOREM Queue == Spec => []QueueConsistent
<1>1. IInv => QueueConsistent
  BY DEF IInv
<1> QED BY <1>1, Inductive, PTL

------------------------------------------------------------------------------
\* Every poll that leaves a waiter in the queue has stored its waker.
LastStored ==
    \A t \in Tasks : pc[t] = "pending" /\ registered[t] => waker[t] = "last"

LEMMA LastStoredStep == TypeOK /\ LastStored /\ [Next]_vars => LastStored'
<1> SUFFICES ASSUME TypeOK, LastStored, [Next]_vars PROVE LastStored'
  OBVIOUS
<1> USE DEF TypeOK, LastStored, Goto, Locations
<1>1. CASE UNCHANGED vars
  BY <1>1 DEF vars
<1>2. ASSUME NEW t \in Tasks, Lock(t) \/ PollUnderLock(t) \/ PollBegin(t) PROVE LastStored'
  BY <1>2 DEF Lock, PollUnderLock, PollAcquire, PollRegister, PollPending,
              PollLateReady, PollBegin, StoreWaker
<1>3. ASSUME NEW t \in Tasks,
             \/ TryLock(t) \/ PollFast(t) \/ Release(t) \/ Wake(t)
             \/ Cancel(t) \/ RemoveWaiter(t)
      PROVE  LastStored'
  <2>1. /\ waker' = waker
        /\ \A u \in Tasks : pc'[u] = "pending" => pc[u] = "pending"
        /\ \A u \in Tasks : registered'[u] => registered[u]
    BY <1>3 DEF TryLock, PollFast, Release, ReleaseHandoff, ReleaseFree, Releasing, Wake,
                Cancel, CancelUnregistered, CancelReady, CancelQueued, RemoveWaiter
  <2> QED BY <2>1
<1> QED BY <1>1, <1>2, <1>3 DEF Next, Poll

\* NoLostWakeup is inductive on top of IInv and LastStored: is_ready_ is stored
\* before the wake, under the lock that a poll renews the waker under, and a poll
\* that misses it cannot return to pending unlocked.
THEOREM Woken == Spec => []NoLostWakeup
<1>1. Init => NoLostWakeup /\ LastStored
  BY DEF Init, NoLostWakeup, LastStored
<1>2. IInv /\ LastStored /\ NoLostWakeup /\ [Next]_vars => NoLostWakeup'
  <2> SUFFICES ASSUME IInv, LastStored, NoLostWakeup, [Next]_vars PROVE NoLostWakeup'
    OBVIOUS
  <2> USE DEF IInv, TypeOK, Goto, Locations
  <2>1. CASE UNCHANGED vars
    BY <2>1 DEF vars, NoLostWakeup
  <2>2. ASSUME NEW t \in Tasks, Lock(t) \/ TryLock(t) \/ Poll(t) \/ Cancel(t)
        PROVE  NoLostWakeup'
    <3> USE <2>2 DEF Lock, TryLock, Poll, PollFast, PollBegin, Cancel,
                     CancelUnregistered, CancelReady, CancelQueued
    <3>1. \A u \in Tasks :
             isReady'[u] /\ pc'[u] = "pending" =>
                isReady[u] /\ pc[u] = "pending" /\ woken'[u] = woken[u]
      OBVIOUS
    <3>2. \A u \in Tasks : pc[u] = "wake" => pc'[u] = "wake" /\ next'[u] = next[u]
      OBVIOUS
    <3> QED BY <3>1, <3>2 DEF NoLostWakeup
  <2>3. ASSUME NEW t \in Tasks, PollUnderLock(t) PROVE NoLostWakeup'
    BY <2>3 DEF NoLostWakeup, PollUnderLock, PollAcquire, PollRegister, PollPending,
                PollLateReady, ReadyRegistered
  <2>4. ASSUME NEW t \in Tasks, ReleaseHandoff(t) PROVE NoLostWakeup'
    <3>1. Head(waiters) \in Tasks
      BY <2>4, HeadTailProperties DEF ReleaseHandoff
    <3>2. pc'[t] = "wake" /\ next'[t] = Head(waiters)
      BY <2>4 DEF ReleaseHandoff
    <3>3. \A u \in Tasks : pc[u] = "wake" => u # t
      BY <2>4 DEF ReleaseHandoff, Releasing
    <3>4. \A u \in Tasks \ {t} : next'[u] = next[u] /\ pc'[u] = pc[u]
      BY <2>4 DEF ReleaseHandoff
    <3>5. \A u \in Tasks \ {Head(waiters)} : isReady'[u] = isReady[u]
      BY <2>4 DEF ReleaseHandoff
    <3> QED BY <2>4, <3>1, <3>2, <3>3, <3>4, <3>5 DEF NoLostWakeup, ReleaseHandoff
  <2>5. ASSUME NEW t \in Tasks, ReleaseFree(t) \/ RemoveWaiter(t)
        PROVE  NoLostWakeup'
    BY <2>5 DEF NoLostWakeup, ReleaseFree, Releasing, RemoveWaiter
  <2>6. ASSUME NEW t \in Tasks, Wake(t) PROVE NoLostWakeup'
    <3>1. \A u \in Tasks : isReady[u] /\ pc[u] = "pending" => waker[u] = "last"
      BY DEF LastStored, ReadyRegistered
    <3>2. pc[t] = "wake" /\ pc'[t] = "idle" /\ isReady' = isReady
      BY <2>6 DEF Wake
    <3>3. \A u \in Tasks \ {t} : pc'[u] = pc[u] /\ next'[u] = next[u] /\ pc[u] # "wake"
      BY <2>6 DEF Wake
    <3>4. \A u \in Tasks : woken[u] \/ (u = next[t] /\ waker[u] = "last") => woken'[u]
      BY <2>6 DEF Wake, CallWaker
    <3> QED BY <3>1, <3>2, <3>3, <3>4 DEF NoLostWakeup
  <2> QED BY <2>1, <2>2, <2>3, <2>4, <2>5, <2>6 DEF Next, Release
<1>3. IInv => TypeOK
  BY DEF IInv
<1> QED BY <1>1, <1>2, <1>3, LastStoredStep, Inductive, PTL DEF Spec

------------------------------------------------------------------------------
\* A waiter that is being removed has not been given the lock meanwhile.
RemoveUnserved ==
    \A t \in Tasks : pc[t] = "remove" => ~isReady[t]

HInv == IInv /\ RemoveUnserved /\ NoLostHandoff

\* No step loses the lock unless a release() serves the waiter that is just
\* being removed.
LEMMA HandoffStep == HInv /\ [Next /\ Undisturbed]_vars => HInv'
<1> SUFFICES ASSUME HInv, [Next /\ Undisturbed]_vars PROVE HInv'
  OBVIOUS
<1> USE DEF HInv
<1>1. IInv' /\ TypeOK
  BY IInvNext DEF IInv
<1> USE <1>1 DEF TypeOK, Goto, Locations
<1>2. CASE UNCHANGED vars
  <2>1. RemoveUnserved'
    BY <1>2 DEF vars, RemoveUnserved
  <2>2. \A u \in Tasks : Owns(u)' <=> Owns(u)
    BY <1>2 DEF vars, Owns
  <2>3. NoLostHandoff'
    BY <1>2, <2>2 DEF vars, NoLostHandoff
  <2> QED BY <1>1, <2>1, <2>3
<1>3. ASSUME NEW t \in Tasks, ReleaseHandoff(t), Undisturbed PROVE HInv'
  <2>1. PICK h \in Tasks : h = Head(waiters) /\ Waiting(h)
    BY <1>3, TailOfQueue DEF ReleaseHandoff, IInv, QueueConsistent
  <2>2. pc[h] # "remove" /\ h # t
    BY <1>3, <2>1 DEF ReleaseHandoff, Releasing, Undisturbed, Waiting
  <2>3. Owns(h)'
    BY <1>3, <2>1, <2>2 DEF ReleaseHandoff, Owns, Waiting
  <2>4. RemoveUnserved'
    BY <1>3, <2>1, <2>2 DEF ReleaseHandoff, RemoveUnserved
  <2>5. NoLostHandoff'
    BY <2>3 DEF NoLostHandoff
  <2> QED BY <1>1, <2>4, <2>5
<1>4. ASSUME NEW t \in Tasks,
             \/ Lock(t) \/ TryLock(t) \/ Poll(t) \/ PollUnderLock(t)
             \/ ReleaseFree(t) \/ Wake(t) \/ Cancel(t) \/ RemoveWaiter(t)
      PROVE  HInv'
  <2> USE DEF Poll, PollUnderLock, Cancel, Lock, TryLock, PollFast, PollBegin,
              PollAcquire, PollRegister, PollPending, PollLateReady, ReleaseFree,
              Releasing, Wake, CancelUnregistered, CancelReady, CancelQueued,
              RemoveWaiter
  <2>1. RemoveUnserved'
    BY <1>4 DEF RemoveUnserved
  <2>2. \A u \in Tasks : Owns(u) => Owns(u)' \/ ~locked'
    BY <1>4 DEF Owns, IInv, ReadyRegistered, RemoveUnserved
  <2>3. locked' => locked \/ Owns(t)'
    BY <1>4 DEF Owns
  <2>4. NoLostHandoff'
    BY <2>2, <2>3 DEF NoLostHandoff
  <2> QED BY <1>1, <2>1, <2>4
<1> QED BY <1>2, <1>3, <1>4 DEF Next, Release

\* Unless a release() and a cancellation of the waiter it serves overlap,
\* locked_ is set only while some task owns the lock.
THEOREM HandoffKept == CleanSpec => []NoLostHandoff
<1>1. Init => HInv
  <2>1. Init => RemoveUnserved /\ NoLostHandoff
    BY DEF Init, RemoveUnserved, NoLostHandoff
  <2> QED BY <2>1, InitIInv DEF HInv
<1>2. HInv => NoLostHandoff
  BY DEF HInv
<1> QED BY <1>1, <1>2, HandoffStep, PTL DEF CleanSpec

------------------------------------------------------------------------------
\* The owner of the abstract lock is the task that owns the mutex.
LEMMA OwnerIs ==
    MutualExclusion => /\ \A t \in Tasks : Owns(t) => owner = t
                       /\ (\A t \in Tasks : ~Owns(t)) => owner = NoTask
  BY DEF MutualExclusion, owner

\* Every step of the mutex is a step of the FIFO lock or leaves it alone.
LEMMA AbstractStep ==
    HInv /\ [Next /\ Undisturbed]_vars => [Abstract!Next]_(Abstract!vars)
<1> SUFFICES ASSUME HInv, [Next /\ Undisturbed]_vars
             PROVE  [Abstract!Next]_(Abstract!vars)
  OBVIOUS
<1>1. HInv'
  BY HandoffStep
<1>2. /\ \A t \in Tasks : Owns(t) => owner = t
      /\ (\A t \in Tasks : ~Owns(t)) => owner = NoTask
  BY OwnerIs DEF HInv, IInv
<1>3. /\ \A t \in Tasks : Owns(t)' => owner' = t
      /\ (\A t \in Tasks : ~Owns(t)') => owner' = NoTask
  BY <1>1 DEF HInv, IInv, MutualExclusion, owner
<1>4. locked <=> owner # NoTask
  BY <1>2 DEF HInv, IInv, MutualExclusion, NoLostHandoff
<1>5. locked' <=> owner' # NoTask
  BY <1>1, <1>3 DEF HInv, IInv, MutualExclusion, NoLostHandoff
<1>6. waiters # <<>> => locked
  BY DEF HInv, IInv, QueueConsistent
<1>7. TypeOK
  BY DEF HInv, IInv
<1> USE <1>7 DEF TypeOK, Goto, Locations
\* Steps that keep every owner and the queue.
<1>8. ASSUME \A u \in Tasks : Owns(u) => Owns(u)', locked' <=> locked,
             waiters' = waiters
      PROVE  UNCHANGED Abstract!vars
  <2>1. CASE locked
    <3>1. PICK o \in Tasks : Owns(o)
      BY <2>1 DEF HInv, NoLostHandoff
    <3> QED BY <1>2, <1>3, <1>8, <3>1 DEF Abstract!vars
  <2>2. CASE ~locked
    BY <1>4, <1>5, <1>8, <2>2 DEF Abstract!vars
  <2> QED BY <2>1, <2>2
<1>9. CASE UNCHANGED vars
  BY <1>8, <1>9 DEF vars, Owns
<1>10. ASSUME NEW t \in Tasks,
              \/ Lock(t) \/ Poll(t) \/ PollPending(t) \/ PollLateReady(t)
              \/ Wake(t) \/ Cancel(t)
       PROVE  UNCHANGED Abstract!vars
  <2> USE <1>10 DEF Lock, Poll, PollFast, PollBegin, PollPending, PollLateReady,
                    Wake, Cancel, CancelUnregistered, CancelReady, CancelQueued
  <2>1. \A u \in Tasks : Owns(u) => Owns(u)'
    BY DEF Owns, HInv, IInv, ReadyRegistered
  <2>2. (locked' <=> locked) /\ waiters' = waiters
    BY DEF Owns, HInv, IInv, MutualExclusion
  <2> QED BY <1>8, <2>1, <2>2
<1>11. ASSUME NEW t \in Tasks, TryLock(t) \/ PollAcquire(t)
       PROVE  Abstract!Acquire(t)
  <2>1. owner' = t
    BY <1>3, <1>11 DEF TryLock, PollAcquire, Owns
  <2>2. owner = NoTask /\ waiters = <<>> /\ waiters' = waiters
    BY <1>4, <1>6, <1>11 DEF TryLock, PollAcquire
  <2> QED BY <2>1, <2>2 DEF Abstract!Acquire
<1>12. ASSUME NEW t \in Tasks, PollRegister(t)
       PROVE  Abstract!Enqueue(t)
  <2> USE <1>12 DEF PollRegister
  <2>1. PICK o \in Tasks : Owns(o)
    BY DEF HInv, NoLostHandoff
  <2>2. o # t /\ Owns(o)'
    BY <2>1 DEF Owns, HInv, IInv, ReadyRegistered
  <2>3. owner = o /\ owner' = o
    BY <1>2, <1>3, <2>1, <2>2
  <2>4. ~Contains(waiters, t)
    BY DEF HInv, IInv, QueueConsistent, Waiting
  <2> QED BY <2>2, <2>3, <2>4
          DEF Abstract!Enqueue, Abstract!Queued, Abstract!Contains, Contains
<1>13. ASSUME NEW t \in Tasks, ReleaseHandoff(t)
       PROVE  Abstract!Handover
  <2> USE <1>13 DEF ReleaseHandoff
  <2>1. PICK h \in Tasks : h = Head(waiters) /\ Waiting(h)
    BY TailOfQueue DEF HInv, IInv, QueueConsistent
  <2>2. h # t /\ Owns(t) /\ Owns(h)'
    BY <2>1 DEF Owns, Waiting, Releasing
  <2>3. owner = t /\ owner' = h
    BY <1>2, <1>3, <2>2
  <2> QED BY <2>1, <2>3 DEF Abstract!Handover
<1>14. ASSUME NEW t \in Tasks, ReleaseFree(t)
       PROVE  Abstract!Free
  <2>1. Owns(t)
    BY <1>14 DEF ReleaseFree, Releasing, Owns
  <2>2. owner = t /\ owner' = NoTask
    BY <1>2, <1>5, <1>14, <2>1 DEF ReleaseFree
  <2> QED BY <1>14, <2>2 DEF ReleaseFree, Abstract!Free
<1>15. ASSUME NEW t \in Tasks, RemoveWaiter(t)
       PROVE  Abstract!Abandon(t)
  <2> USE <1>15 DEF RemoveWaiter
  <2>1. Waiting(t) /\ Contains(waiters, t)
    BY DEF HInv, IInv, ReadyRegistered, RemoveUnserved, QueueConsistent, Waiting
  <2>2. PICK o \in Tasks : Owns(o)
    BY <1>6, <2>1 DEF HInv, IInv, NoLostHandoff, Contains
  <2>3. Owns(o)'
    BY <2>1, <2>2 DEF Owns, Waiting
  <2>4. owner = o /\ owner' = o
    BY <1>2, <1>3, <2>2, <2>3
  <2> QED BY <2>1, <2>4
          DEF Abstract!Abandon, Abstract!Queued, Abstract!Contains, Contains,
              Abstract!Erase, Erase, Abstract!RemoveAt, RemoveAt
<1> QED BY <1>9, <1>10, <1>11, <1>12, <1>13, <1>14, <1>15
        DEF Next, Abstract!Next, PollUnderLock, Release

\* The mutex implements the FIFO lock, whatever the interleaving, unless a
\* release() and a cancellation of the waiter it serves overlap.
THEOREM Refinement == CleanSpec => ImplementsFifoLock
<1>1. Init => Abstract!Init
  BY DEF Init, Abstract!Init, owner, Owns
<1>2. Init => HInv
  <2>1. Init => RemoveUnserved /\ NoLostHandoff
    BY DEF Init, RemoveUnserved, NoLostHandoff
  <2> QED BY <2>1, InitIInv DEF HInv
<1> QED BY <1>1, <1>2, HandoffStep, AbstractStep, PTL
        DEF CleanSpec, ImplementsFifoLock, Abstract!Spec
==============================================================================

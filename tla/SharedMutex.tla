----------------------------- MODULE SharedMutex -----------------------------
(***************************************************************************)
(* pollcoro::shared_mutex (src/src/shared_mutex.cppm): the reader/writer   *)
(* lock, its two lock awaitables and its two guards, as several tasks use  *)
(* them, each on a thread of its own or some of them on one.  Conventions  *)
(* are those of Mutex.tla, also for waiter_->waker_; deregister() does not *)
(* look at is_ready_ here, so it is one action.                            *)
(*                                                                         *)
(* wake_next() runs under mtx_ and may serve several readers.  What it     *)
(* does between two stores of is_ready_ (the wake of the first waiter) is  *)
(* in one action with the second store.                                    *)
(***************************************************************************)
EXTENDS WaitQueue

CONSTANTS Tasks,        \* tasks that use the lock
          Word,         \* readers_ wraps at Word (2^64 for a 64-bit size_t)
          NoTask        \* a null pointer

ASSUME WordAssumption == Word \in Nat \ {0, 1}
ASSUME NoTaskAssumption == NoTask \notin Tasks

VARIABLES
    mtx,            \* mtx_: the task inside wake_next() that holds it, or NoTask
    readers,        \* readers_
    writerActive,   \* writer_active_
    waiters,        \* waiters_
    mode,           \* read or write: which awaitable or guard the task owns
    registered,     \* registered_ of each task's awaitable
    isReady,        \* waiter_->is_ready_ of each task's awaitable
    waker,          \* waiter_->waker_: none, of the last poll, or of an older one
    next,           \* the local `next` of a wake_next() in progress
    woken,          \* the waker of the task's last poll has been called since
    pc,             \* where each task is
    handed,         \* history: some waiter has been made ready
    behind          \* history: the writers that were queued when the task asked
                    \* for its shared lock and have been queued ever since

vars == <<mtx, readers, writerActive, waiters, mode, registered, isReady, waker,
          next, woken, pc, handed, behind>>

\* idle     no awaitable and no guard
\* pending  the awaitable exists (never polled, or its last poll was pending)
\* held     the task has a guard with state_ # nullptr
\* slow     poll() found is_ready_ false, next it locks mtx_
\* wake     wake_next() has stored is_ready_ and holds mtx_, next it calls wake()
Locations == {"idle", "pending", "held", "slow", "wake"}

TypeOK ==
    /\ mtx \in Tasks \cup {NoTask}
    /\ readers \in 0..Word - 1
    /\ writerActive \in BOOLEAN
    /\ waiters \in Seq(Tasks)
    /\ mode \in [Tasks -> {"read", "write"}]
    /\ registered \in [Tasks -> BOOLEAN]
    /\ isReady \in [Tasks -> BOOLEAN]
    /\ waker \in [Tasks -> {"none", "last", "older"}]
    /\ next \in [Tasks -> Tasks \cup {NoTask}]
    /\ woken \in [Tasks -> BOOLEAN]
    /\ pc \in [Tasks -> Locations]
    /\ handed \in BOOLEAN
    /\ behind \in [Tasks -> SUBSET Tasks]
    /\ \A t \in Tasks : pc[t] = "wake" <=> mtx = t

Init ==
    /\ mtx = NoTask
    /\ readers = 0
    /\ writerActive = FALSE
    /\ waiters = <<>>
    /\ mode = [t \in Tasks |-> "read"]
    /\ registered = [t \in Tasks |-> FALSE]
    /\ isReady = [t \in Tasks |-> FALSE]
    /\ waker = [t \in Tasks |-> "none"]
    /\ next = [t \in Tasks |-> NoTask]
    /\ woken = [t \in Tasks |-> FALSE]
    /\ pc = [t \in Tasks |-> "idle"]
    /\ handed = FALSE
    /\ behind = [t \in Tasks |-> {}]

lockState == <<mtx, readers, writerActive, waiters, next, handed, behind>>
taskState == <<mode, registered, isReady, woken>>

------------------------------------------------------------------------------
Goto(t, from, to) ==
    /\ pc[t] = from
    /\ pc' = [pc EXCEPT ![t] = to]

MtxFree == mtx = NoTask

\* has_waiting_writer, lines 247-250 and 406-409.
WriterWaiting == \E i \in 1..Len(waiters) : mode[waiters[i]] = "write"

QueuedWriters == {w \in Tasks : Contains(waiters, w) /\ mode[w] = "write"}

ReadersMayEnter == ~writerActive /\ ~WriterWaiting
WriterMayEnter == ~writerActive /\ readers = 0

\* Mutants: the new reader is not counted; the count is not a word.
KeepReaders == UNCHANGED readers
SubtractOne == readers' = readers - 1

\* ++readers_ and --readers_.
AddReader == readers' = (readers + 1) % Word
RemoveReader == readers' = (readers + Word - 1) % Word

\* waiter_->waker_ = w, lines 242 and 324: every poll that takes mtx_ begins so.
StoreWaker(t) == waker' = [waker EXCEPT ![t] = "last"]

\* next->waker_.wake() wakes the executor that has polled with it last.
CallWaker(t) == woken' = [woken EXCEPT ![t] = @ \/ waker[t] = "last"]

\* lock_shared() and lock(): an awaitable with a fresh waiter.
Lock(t, m) ==
    /\ Goto(t, "idle", "pending")
    /\ mode' = [mode EXCEPT ![t] = m]
    /\ registered' = [registered EXCEPT ![t] = FALSE]
    /\ isReady' = [isReady EXCEPT ![t] = FALSE]
    /\ waker' = [waker EXCEPT ![t] = "none"]
    /\ woken' = [woken EXCEPT ![t] = TRUE]
    /\ behind' = [behind EXCEPT ![t] = IF m = "read" THEN QueuedWriters ELSE {}]
    /\ UNCHANGED <<mtx, readers, writerActive, waiters, next, handed>>

\* Mutant of TryLockShared: try_lock_shared() looks at the active writer only.
TryLockSharedBarging(t) ==
    /\ Goto(t, "idle", "held")
    /\ MtxFree /\ ~writerActive
    /\ AddReader
    /\ mode' = [mode EXCEPT ![t] = "read"]
    /\ isReady' = [isReady EXCEPT ![t] = FALSE]
    /\ behind' = [behind EXCEPT ![t] = QueuedWriters]
    /\ UNCHANGED <<mtx, writerActive, waiters, next, handed, registered, woken, waker>>

\* try_lock_shared() and try_lock() that succeed.
TryLockShared(t) ==
    /\ Goto(t, "idle", "held")
    /\ MtxFree
    /\ ReadersMayEnter
    /\ AddReader
    /\ mode' = [mode EXCEPT ![t] = "read"]
    /\ isReady' = [isReady EXCEPT ![t] = FALSE]
    /\ behind' = [behind EXCEPT ![t] = QueuedWriters]
    /\ UNCHANGED <<mtx, writerActive, waiters, next, handed, registered, woken, waker>>

TryLock(t) ==
    /\ Goto(t, "idle", "held")
    /\ MtxFree
    /\ WriterMayEnter
    /\ writerActive' = TRUE
    /\ mode' = [mode EXCEPT ![t] = "write"]
    /\ isReady' = [isReady EXCEPT ![t] = FALSE]
    /\ UNCHANGED <<mtx, readers, waiters, next, handed, behind, registered, woken, waker>>

------------------------------------------------------------------------------
\* poll() of either awaitable, the fast path: a guard, and no bookkeeping.
PollFast(t) ==
    /\ Goto(t, "pending", "held")
    /\ isReady[t]
    /\ woken' = [woken EXCEPT ![t] = FALSE]
    /\ UNCHANGED <<lockState, mode, registered, isReady, waker>>

PollBegin(t) ==
    /\ Goto(t, "pending", "slow")
    /\ ~isReady[t]
    /\ \/ waker[t] = "last" /\ waker' = [waker EXCEPT ![t] = "older"]
       \/ UNCHANGED waker
    /\ woken' = [woken EXCEPT ![t] = FALSE]
    /\ UNCHANGED <<lockState, mode, registered, isReady>>

\* The first poll of a reader, lines 244-255, and of a writer, lines 326-330.
PollEnterRead(t) ==
    /\ Goto(t, "slow", "held")
    /\ MtxFree
    /\ ~registered[t] /\ mode[t] = "read"
    /\ ReadersMayEnter
    /\ AddReader
    /\ StoreWaker(t)
    /\ UNCHANGED <<mtx, writerActive, waiters, next, handed, behind, taskState>>

PollEnterWrite(t) ==
    /\ Goto(t, "slow", "held")
    /\ MtxFree
    /\ ~registered[t] /\ mode[t] = "write"
    /\ WriterMayEnter
    /\ writerActive' = TRUE
    /\ StoreWaker(t)
    /\ UNCHANGED <<mtx, readers, waiters, next, handed, behind, taskState>>

\* May the awaitable of t have the lock at once?
MayEnter(t) == IF mode[t] = "read" THEN ReadersMayEnter ELSE WriterMayEnter

\* Mutants of PollRegister: push_front for writers, registered_ never set.
RegisterWriterInFront(t) ==
    /\ Goto(t, "slow", "pending")
    /\ MtxFree /\ ~registered[t] /\ ~MayEnter(t)
    /\ registered' = [registered EXCEPT ![t] = TRUE]
    /\ waiters' = IF mode[t] = "write" THEN <<t>> \o waiters ELSE Append(waiters, t)
    /\ StoreWaker(t)
    /\ UNCHANGED <<mtx, readers, writerActive, next, handed, behind, mode, isReady, woken>>

RegisterUnmarked(t) ==
    /\ Goto(t, "slow", "pending")
    /\ MtxFree /\ ~registered[t] /\ ~MayEnter(t)
    /\ waiters' = Append(waiters, t)
    /\ StoreWaker(t)
    /\ UNCHANGED <<mtx, readers, writerActive, next, handed, behind, taskState>>

\* The first poll when the lock is not available, lines 257-259 and 332-334.
PollRegister(t) ==
    /\ Goto(t, "slow", "pending")
    /\ MtxFree
    /\ ~registered[t]
    /\ ~MayEnter(t)
    /\ registered' = [registered EXCEPT ![t] = TRUE]
    /\ waiters' = Append(waiters, t)
    /\ StoreWaker(t)
    /\ UNCHANGED <<mtx, readers, writerActive, next, handed, behind, mode, isReady, woken>>

\* Mutant of PollPending: the first poll stores its waker, a later one assumes
\* that it has not changed.
PollKeepWaker(t) ==
    /\ Goto(t, "slow", "pending")
    /\ MtxFree /\ registered[t] /\ ~isReady[t]
    /\ UNCHANGED <<lockState, taskState, waker>>

\* A later poll of a waiter that is not ready, lines 262-264 and 337-339.
PollPending(t) ==
    /\ Goto(t, "slow", "pending")
    /\ MtxFree
    /\ registered[t] /\ ~isReady[t]
    /\ StoreWaker(t)
    /\ UNCHANGED <<lockState, taskState>>

\* The waiter became ready between the fast check and the lock: only this
\* path counts the new guard, lines 266-268 and 341-343.
PollLateReady(t) ==
    /\ Goto(t, "slow", "held")
    /\ MtxFree
    /\ registered[t] /\ isReady[t]
    /\ IF mode[t] = "read"
       THEN AddReader /\ UNCHANGED writerActive
       ELSE writerActive' = TRUE /\ UNCHANGED readers
    /\ registered' = [registered EXCEPT ![t] = FALSE]
    /\ StoreWaker(t)
    /\ UNCHANGED <<mtx, waiters, next, handed, behind, mode, isReady, woken>>

------------------------------------------------------------------------------
\* wake_next(), one waiter: pop_front and is_ready_ = true; mtx_ stays held.
ServeFront(t) ==
    /\ pc' = [pc EXCEPT ![t] = "wake"]
    /\ mtx' = t
    /\ waiters' = Tail(waiters)
    /\ isReady' = [isReady EXCEPT ![Head(waiters)] = TRUE]
    /\ next' = [next EXCEPT ![t] = Head(waiters)]
    /\ handed' = TRUE
    /\ behind' = [u \in Tasks |-> behind[u] \ {Head(waiters)}]

\* The operation of t ends with mtx_ unlocked.
Leave(t) ==
    /\ pc' = [pc EXCEPT ![t] = "idle"]
    /\ mtx' = NoTask
    /\ next' = [next EXCEPT ![t] = NoTask]
    /\ UNCHANGED <<waiters, isReady, handed, behind>>

\* release_shared(), lines 45-51, from a shared_lock_guard.
ReleaseShared(t) ==
    /\ pc[t] = "held"
    /\ mode[t] = "read"
    /\ MtxFree
    /\ RemoveReader
    /\ IF readers' = 0 /\ waiters # <<>> THEN ServeFront(t) ELSE Leave(t)
    /\ UNCHANGED <<writerActive, mode, registered, woken, waker>>

\* release_exclusive(), lines 53-57, from a unique_lock_guard.
ReleaseExclusive(t) ==
    /\ pc[t] = "held"
    /\ mode[t] = "write"
    /\ MtxFree
    /\ writerActive' = FALSE
    /\ IF waiters # <<>> THEN ServeFront(t) ELSE Leave(t)
    /\ UNCHANGED <<readers, mode, registered, woken, waker>>

\* wake_next(), lines 85-90: after a reader, the next waiter if it is a reader.
MoreReaders(t) ==
    /\ mode[next[t]] = "read"
    /\ waiters # <<>>
    /\ mode[Head(waiters)] = "read"

Wake(t) ==
    /\ pc[t] = "wake"
    /\ CallWaker(next[t])
    /\ IF MoreReaders(t) THEN ServeFront(t) ELSE Leave(t)
    /\ UNCHANGED <<readers, writerActive, mode, registered, waker>>

------------------------------------------------------------------------------
\* The awaitable is destroyed or assigned to: deregister(), lines 197-202 and
\* 279-284.  A ready waiter is in no queue and wakes nobody in its place.
Cancel(t) ==
    /\ Goto(t, "pending", "idle")
    /\ registered[t] => MtxFree
    /\ waiters' = IF registered[t] THEN Erase(waiters, t) ELSE waiters
    /\ registered' = [registered EXCEPT ![t] = FALSE]
    /\ behind' = [u \in Tasks |-> IF u = t THEN {} ELSE behind[u] \ {t}]
    /\ UNCHANGED <<mtx, readers, writerActive, next, handed, mode, isReady, woken, waker>>

------------------------------------------------------------------------------
Poll(t) == PollFast(t) \/ PollBegin(t)
PollUnderLock(t) ==
    \/ PollEnterRead(t) \/ PollEnterWrite(t)
    \/ PollRegister(t) \/ PollPending(t) \/ PollLateReady(t)
Release(t) == ReleaseShared(t) \/ ReleaseExclusive(t)

Next ==
    \E t \in Tasks :
        \/ \E m \in {"read", "write"} : Lock(t, m)
        \/ TryLockShared(t) \/ TryLock(t)
        \/ Poll(t) \/ PollUnderLock(t)
        \/ Release(t) \/ Wake(t)
        \/ Cancel(t)

Spec == Init /\ [][Next]_vars

------------------------------------------------------------------------------
Holds(t, m) == pc[t] = "held" /\ mode[t] = m
ReadersHolding == {t \in Tasks : Holds(t, "read")}
WritersHolding == {t \in Tasks : Holds(t, "write")}

Waiting(t) == pc[t] \in {"pending", "slow"} /\ registered[t] /\ ~isReady[t]

\* "Multiple concurrent readers or a single exclusive writer"
\* (shared_mutex.cppm:349): a writer's guard excludes every other guard.
Exclusion ==
    \A w \in WritersHolding, t \in Tasks : pc[t] = "held" => t = w

\* reader_count() is the number of shared guards (shared_mutex.cppm:418) and
\* is_writer_active() says whether there is a unique guard (line 424).
Accounting ==
    /\ readers = Cardinality(ReadersHolding)
    /\ writerActive <=> WritersHolding # {}

\* The lock is exclusive and its counts are right as long as no release has
\* ever passed it to a waiter: immediate acquisitions, failed attempts,
\* registrations, cancellations and releases in any order keep them so.
SoundUntilHandoff == ~handed => Exclusion /\ Accounting

\* waiters_ holds the registered waiters that are not ready, each once.
QueueConsistent ==
    /\ \A t \in Tasks : Waiting(t) <=> Contains(waiters, t)
    /\ Distinct(waiters)

\* A task whose waiter is ready has been told so by the waker of its last poll,
\* or wake_next() is about to call it.
NoLostWakeup ==
    \A t \in Tasks :
        isReady[t] /\ pc[t] = "pending" =>
            woken[t] \/ \E u \in Tasks : pc[u] = "wake" /\ next[u] = t

\* Whoever still waits is behind somebody: a guard exists, or a served waiter
\* that has not been polled, and its release will serve the queue.  (It does
\* not hold.)
SomeoneWillServe ==
    waiters # <<>> =>
        \E t \in Tasks :
            \/ pc[t] \in {"held", "wake"}
            \/ isReady[t] /\ pc[t] \in {"pending", "slow"}

\* "When a writer is waiting, new readers will queue behind it"
\* (shared_mutex.cppm:350-351): whoever asked for a shared lock, by a poll or by
\* try_lock_shared(), while a writer was in the queue has no guard before that
\* writer has been popped by wake_next() or has left, whatever others did in
\* between.  (Between that and its poll, new readers do pass it.)
NewReadersQueueBehind ==
    \A t, w \in Tasks : w \in behind[t] => ~Holds(t, "read")

Before(q, t, u) == \E i, j \in 1..Len(q) : i < j /\ q[i] = t /\ q[j] = u

\* First come, first served: no step changes the order of two waiters, puts a
\* new one ahead of an old one, or serves one and not those ahead of it.
FirstComeFirstServed ==
    [][\A t, u \in Tasks :
          /\ Before(waiters, t, u) =>
                ~Before(waiters', u, t) /\ (isReady'[u] => isReady'[t])
          /\ Contains(waiters, t) /\ ~Contains(waiters, u) => ~Before(waiters', u, t)
      ]_vars
==============================================================================

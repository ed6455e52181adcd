-------------------------------- MODULE Mutex --------------------------------
(***************************************************************************)
(* pollcoro::mutex (src/src/mutex.cppm): the state under the std::mutex    *)
(* mtx_, the lock awaitable and the guard, as several tasks use them, each *)
(* on a thread of its own or some of them on one.                          *)
(*                                                                         *)
(* Every task owns at most one mutex_lock_awaitable or mutex_guard at a    *)
(* time, so a waiter object is named by its task.  A critical section of   *)
(* mtx_ is one action, except release(): is_ready_ is read without mtx_    *)
(* (lines 120 and 159), so the store of is_ready_ and the wake that follow *)
(* it under mtx_ are two actions.                                          *)
(*                                                                         *)
(* An executor may poll with another waker than last time, and listens to  *)
(* that of its last poll only.  All that matters of waiter_->waker_ is     *)
(* therefore of which poll it is.                                          *)
(***************************************************************************)
EXTENDS WaitQueue

CONSTANTS Tasks,        \* tasks that use the mutex
          NoTask        \* a null pointer

ASSUME NoTaskAssumption == NoTask \notin Tasks

VARIABLES
    mtx,            \* mtx_: the task inside release() that holds it, or NoTask
    locked,         \* locked_
    waiters,        \* waiters_
    registered,     \* registered_ of each task's awaitable
    isReady,        \* waiter_->is_ready_ of each task's awaitable
    waker,          \* waiter_->waker_: none, of the last poll, or of an older one
    next,           \* the local `next` of a release() in progress
    woken,          \* the waker of the task's last poll has been called since
    pc              \* where each task is

vars == <<mtx, locked, waiters, registered, isReady, waker, next, woken, pc>>

\* Between two operations
\*   idle     no awaitable and no guard
\*   pending  the awaitable exists (never polled, or its last poll was pending)
\*   held     the task has a guard with state_ # nullptr
\* Inside one
\*   slow     poll() found is_ready_ false at line 159, next it locks mtx_
\*   dereg    deregister() found is_ready_ true at line 120, next it calls release()
\*   remove   deregister() found is_ready_ false, next it calls remove_waiter()
\*   wake     release() has stored is_ready_ and holds mtx_, next it calls wake()
Locations == {"idle", "pending", "held", "slow", "dereg", "remove", "wake"}

TypeOK ==
    /\ mtx \in Tasks \cup {NoTask}
    /\ locked \in BOOLEAN
    /\ waiters \in Seq(Tasks)
    /\ registered \in [Tasks -> BOOLEAN]
    /\ isReady \in [Tasks -> BOOLEAN]
    /\ waker \in [Tasks -> {"none", "last", "older"}]
    /\ next \in [Tasks -> Tasks \cup {NoTask}]
    /\ woken \in [Tasks -> BOOLEAN]
    /\ pc \in [Tasks -> Locations]
    /\ \A t \in Tasks : pc[t] = "wake" <=> mtx = t

Init ==
    /\ mtx = NoTask
    /\ locked = FALSE
    /\ waiters = <<>>
    /\ registered = [t \in Tasks |-> FALSE]
    /\ isReady = [t \in Tasks |-> FALSE]
    /\ waker = [t \in Tasks |-> "none"]
    /\ next = [t \in Tasks |-> NoTask]
    /\ woken = [t \in Tasks |-> FALSE]
    /\ pc = [t \in Tasks |-> "idle"]

------------------------------------------------------------------------------
\* t goes from one location to another.
Goto(t, from, to) ==
    /\ pc[t] = from
    /\ pc' = [pc EXCEPT ![t] = to]

\* mtx_ can be taken (a critical section that is one action leaves it free).
MtxFree == mtx = NoTask

\* waiter_->waker_ = w, line 165: every poll that takes mtx_ begins with it.
StoreWaker(t) == waker' = [waker EXCEPT ![t] = "last"]

\* mutex::lock(): an awaitable with a fresh waiter.  Its executor polls it.
Lock(t) ==
    /\ Goto(t, "idle", "pending")
    /\ registered' = [registered EXCEPT ![t] = FALSE]
    /\ isReady' = [isReady EXCEPT ![t] = FALSE]
    /\ waker' = [waker EXCEPT ![t] = "none"]
    /\ woken' = [woken EXCEPT ![t] = TRUE]
    /\ UNCHANGED <<mtx, locked, waiters, next>>

\* mutex::try_lock() that succeeds (one that fails changes nothing).
TryLock(t) ==
    /\ Goto(t, "idle", "held")
    /\ MtxFree
    /\ ~locked
    /\ locked' = TRUE
    /\ UNCHANGED <<mtx, waiters, registered, isReady, next, woken, waker>>

\* poll(), lines 159-161: the fast path.  Any poll may happen, asked for by a
\* wake or not; the executor forgets earlier wakes before it polls.
PollFast(t) ==
    /\ Goto(t, "pending", "held")
    /\ isReady[t]
    /\ woken' = [woken EXCEPT ![t] = FALSE]
    /\ UNCHANGED <<mtx, locked, waiters, registered, isReady, next, waker>>

\* The waker may be the one it has or another, which makes the stored one old.
PollBegin(t) ==
    /\ Goto(t, "pending", "slow")
    /\ ~isReady[t]
    /\ \/ waker[t] = "last" /\ waker' = [waker EXCEPT ![t] = "older"]
       \/ UNCHANGED waker
    /\ woken' = [woken EXCEPT ![t] = FALSE]
    /\ UNCHANGED <<mtx, locked, waiters, registered, isReady, next>>

\* poll(), lines 167-171: not registered and the mutex is free.
PollAcquire(t) ==
    /\ Goto(t, "slow", "held")
    /\ MtxFree
    /\ ~registered[t]
    /\ ~locked
    /\ locked' = TRUE
    /\ StoreWaker(t)
    /\ UNCHANGED <<mtx, waiters, registered, isReady, next, woken>>

\* Mutant of PollRegister: push_front.
RegisterInFront(t) ==
    /\ Goto(t, "slow", "pending")
    /\ MtxFree /\ ~registered[t] /\ locked
    /\ registered' = [registered EXCEPT ![t] = TRUE]
    /\ waiters' = <<t>> \o waiters
    /\ StoreWaker(t)
    /\ UNCHANGED <<mtx, locked, isReady, next, woken>>

\* poll(), lines 173-175: not registered and the mutex is taken.
PollRegister(t) ==
    /\ Goto(t, "slow", "pending")
    /\ MtxFree
    /\ ~registered[t]
    /\ locked
    /\ registered' = [registered EXCEPT ![t] = TRUE]
    /\ waiters' = Append(waiters, t)
    /\ StoreWaker(t)
    /\ UNCHANGED <<mtx, locked, isReady, next, woken>>

\* Mutant of PollPending: the first poll stores its waker, a later one assumes
\* that it has not changed.
PollKeepWaker(t) ==
    /\ Goto(t, "slow", "pending")
    /\ MtxFree
    /\ registered[t] /\ ~isReady[t]
    /\ UNCHANGED <<mtx, locked, waiters, registered, isReady, waker, next, woken>>

\* poll(), lines 178-180: registered and not ready.
PollPending(t) ==
    /\ Goto(t, "slow", "pending")
    /\ MtxFree
    /\ registered[t]
    /\ ~isReady[t]
    /\ StoreWaker(t)
    /\ UNCHANGED <<mtx, locked, waiters, registered, isReady, next, woken>>

\* poll(), lines 182-183: became ready between line 159 and line 164.
PollLateReady(t) ==
    /\ Goto(t, "slow", "held")
    /\ MtxFree
    /\ registered[t]
    /\ isReady[t]
    /\ locked' = TRUE
    /\ StoreWaker(t)
    /\ UNCHANGED <<mtx, waiters, registered, isReady, next, woken>>

------------------------------------------------------------------------------
\* release() is called by the guard (unlock, destructor, move assignment) and
\* by deregister() on a ready waiter.
Releasing(t) == pc[t] \in {"held", "dereg"}

\* Mutants of ReleaseHandoff: is_ready_ not stored, locked_ cleared as well.
HandoffSilent(t) ==
    /\ Releasing(t) /\ Goto(t, pc[t], "wake")
    /\ MtxFree /\ waiters # <<>>
    /\ mtx' = t
    /\ waiters' = Tail(waiters)
    /\ next' = [next EXCEPT ![t] = Head(waiters)]
    /\ UNCHANGED <<locked, isReady, registered, woken, waker>>

HandoffUnlocked(t) ==
    /\ Releasing(t) /\ Goto(t, pc[t], "wake")
    /\ MtxFree /\ waiters # <<>>
    /\ mtx' = t
    /\ locked' = FALSE
    /\ waiters' = Tail(waiters)
    /\ isReady' = [isReady EXCEPT ![Head(waiters)] = TRUE]
    /\ next' = [next EXCEPT ![t] = Head(waiters)]
    /\ UNCHANGED <<registered, woken, waker>>

\* release(), lines 42-46: the first waiter gets the lock, mtx_ stays held.
ReleaseHandoff(t) ==
    /\ Releasing(t)
    /\ Goto(t, pc[t], "wake")
    /\ MtxFree
    /\ waiters # <<>>
    /\ mtx' = t
    /\ waiters' = Tail(waiters)
    /\ isReady' = [isReady EXCEPT ![Head(waiters)] = TRUE]
    /\ next' = [next EXCEPT ![t] = Head(waiters)]
    /\ UNCHANGED <<locked, registered, woken, waker>>

\* release(), lines 49-51.
ReleaseFree(t) ==
    /\ Releasing(t)
    /\ Goto(t, pc[t], "idle")
    /\ MtxFree
    /\ waiters = <<>>
    /\ locked' = FALSE
    /\ UNCHANGED <<mtx, waiters, registered, isReady, next, woken, waker>>

\* next->waker_.wake() wakes the executor that has polled with it last.
CallWaker(t) == woken' = [woken EXCEPT ![t] = @ \/ waker[t] = "last"]

\* Mutant of Wake: mtx_ stays locked.
WakeWithoutUnlock(t) ==
    /\ Goto(t, "wake", "idle")
    /\ CallWaker(next[t])
    /\ next' = [next EXCEPT ![t] = NoTask]
    /\ UNCHANGED <<mtx, locked, waiters, registered, isReady, waker>>

\* release(), lines 47-48: the wake, then mtx_ is unlocked.
Wake(t) ==
    /\ Goto(t, "wake", "idle")
    /\ CallWaker(next[t])
    /\ mtx' = NoTask
    /\ next' = [next EXCEPT ![t] = NoTask]
    /\ UNCHANGED <<locked, waiters, registered, isReady, waker>>

------------------------------------------------------------------------------
\* The awaitable is destroyed or assigned to: deregister(), lines 119-126.
CancelUnregistered(t) ==
    /\ Goto(t, "pending", "idle")
    /\ ~registered[t]
    /\ UNCHANGED <<mtx, locked, waiters, registered, isReady, next, woken, waker>>

\* Mutant of CancelReady: a ready waiter leaves without release().
CancelReadyDropped(t) ==
    /\ Goto(t, "pending", "idle")
    /\ registered[t] /\ isReady[t]
    /\ UNCHANGED <<mtx, locked, waiters, registered, isReady, next, woken, waker>>

CancelReady(t) ==
    /\ Goto(t, "pending", "dereg")
    /\ registered[t]
    /\ isReady[t]
    /\ UNCHANGED <<mtx, locked, waiters, registered, isReady, next, woken, waker>>

CancelQueued(t) ==
    /\ Goto(t, "pending", "remove")
    /\ registered[t]
    /\ ~isReady[t]
    /\ UNCHANGED <<mtx, locked, waiters, registered, isReady, next, woken, waker>>

\* Mutant of RemoveWaiter: the waiter stays in the deque.
RemoveNothing(t) ==
    /\ Goto(t, "remove", "idle")
    /\ MtxFree
    /\ registered' = [registered EXCEPT ![t] = FALSE]
    /\ UNCHANGED <<mtx, locked, waiters, isReady, next, woken, waker>>

\* remove_waiter(), lines 55-59: is_ready_ is not looked at again.
RemoveWaiter(t) ==
    /\ Goto(t, "remove", "idle")
    /\ MtxFree
    /\ waiters' = Erase(waiters, t)
    /\ registered' = [registered EXCEPT ![t] = FALSE]
    /\ UNCHANGED <<mtx, locked, isReady, next, woken, waker>>

------------------------------------------------------------------------------
Poll(t) == PollFast(t) \/ PollBegin(t)
PollUnderLock(t) ==
    PollAcquire(t) \/ PollRegister(t) \/ PollPending(t) \/ PollLateReady(t)
Release(t) == ReleaseHandoff(t) \/ ReleaseFree(t)
Cancel(t) == CancelUnregistered(t) \/ CancelReady(t) \/ CancelQueued(t)

Next ==
    \E t \in Tasks :
        \/ Lock(t) \/ TryLock(t)
        \/ Poll(t) \/ PollUnderLock(t)
        \/ Release(t) \/ Wake(t)
        \/ Cancel(t) \/ RemoveWaiter(t)

Spec == Init /\ [][Next]_vars

\* No release() serves a waiter between the two halves of its deregister().
\* So it is if the tasks share a thread ("all polling happens on executor's
\* thread", README.adoc:68), if no pending awaitable is destroyed, and under
\* any other discipline that keeps release() and a cancellation apart.
Undisturbed == \A t \in Tasks : pc[t] = "remove" => isReady'[t] = isReady[t]

CleanSpec == Init /\ [][Next /\ Undisturbed]_vars

\* An operation that began goes on, a guard is eventually released, and an
\* executor that was woken polls again.  Strong fairness: another task may
\* hold mtx_, or keep the task's thread, at any one moment.
Obliged(t) ==
    \/ woken[t] /\ Poll(t)
    \/ PollUnderLock(t)
    \/ Release(t)
    \/ Wake(t)
    \/ RemoveWaiter(t)

FairSpec == CleanSpec /\ \A t \in Tasks : SF_vars(Obliged(t))

------------------------------------------------------------------------------
\* The lock is assigned to t: t has the guard, or is ready and has not been
\* polled since, or is about to give it up.
Owns(t) ==
    \/ pc[t] \in {"held", "dereg"}
    \/ isReady[t] /\ pc[t] \in {"pending", "slow", "remove"}

\* t waits in waiters_.
Waiting(t) ==
    /\ pc[t] \in {"pending", "slow", "remove"}
    /\ registered[t]
    /\ ~isReady[t]

\* The lock is assigned to one task at most, counting the task a release()
\* has picked and that does not know yet, and only while locked_ is set: the
\* three paths that hand out a guard (fast path, first poll, try_lock) never
\* do so twice.
MutualExclusion ==
    /\ \A t, u \in Tasks : Owns(t) /\ Owns(u) => t = u
    /\ \A t \in Tasks : Owns(t) => locked

\* The inductive invariant behind MutualExclusion and QueueConsistent: a ready
\* waiter was registered, and only a registered one is being removed.
ReadyRegistered ==
    \A t \in Tasks :
        /\ isReady[t] /\ pc[t] \in {"pending", "slow"} => registered[t]
        /\ pc[t] = "remove" => registered[t]

\* locked_ is never left set with nobody to clear it: whoever cancels while
\* the lock is being handed to it passes the lock on.
NoLostHandoff == locked => \E t \in Tasks : Owns(t)

\* waiters_ holds the registered waiters that are not ready, each of them
\* once, and nobody waits for a free mutex.
QueueConsistent ==
    /\ \A t \in Tasks : Waiting(t) <=> Contains(waiters, t)
    /\ Distinct(waiters)
    /\ waiters # <<>> => locked

IInv == TypeOK /\ MutualExclusion /\ QueueConsistent /\ ReadyRegistered

\* A task that was given the lock while it waits has been told so by the waker
\* of its last poll, whichever it polled with before, or the thread that gave
\* it is about to do so.
NoLostWakeup ==
    \A t \in Tasks :
        isReady[t] /\ pc[t] = "pending" =>
            woken[t] \/ \E u \in Tasks : pc[u] = "wake" /\ next[u] = t

\* Once the lock is asked for, the awaitable completes (or is cancelled).
LockGranted ==
    \A t \in Tasks : pc[t] = "pending" ~> pc[t] \in {"held", "idle"}

\* The lock of FifoLock: its owner and its queue.
owner == IF \E t \in Tasks : Owns(t) THEN CHOOSE t \in Tasks : Owns(t) ELSE NoTask

Abstract == INSTANCE FifoLock WITH queue <- waiters

\* Every step of the mutex is a step of the FIFO lock, or none: nobody
\* overtakes a waiter, and the lock is free only if nobody waits.
ImplementsFifoLock == Abstract!Spec
==============================================================================

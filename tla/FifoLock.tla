------------------------------ MODULE FifoLock ------------------------------
(***************************************************************************)
(* What pollcoro::mutex promises (mutex.cppm:187-203): at most one owner,  *)
(* waiters served in the order in which they queued, the lock passed       *)
(* straight from the owner that gives it up to the first waiter.  No       *)
(* wakers, no std::mutex, no polls: Mutex.tla implements this module.      *)
(*                                                                         *)
(* The owner is the task to which the lock was last assigned, whether it   *)
(* knows of it (it has a guard) or not yet (its waiter is ready and its    *)
(* awaitable has not been polled since).                                   *)
(***************************************************************************)
EXTENDS WaitQueue

CONSTANTS Tasks,        \* the tasks that contend for the lock
          NoTask        \* "no owner"

VARIABLES owner,        \* a task or NoTask
          queue         \* the waiting tasks, first come first

vars == <<owner, queue>>

Queued(t) == Contains(queue, t)

Init == owner = NoTask /\ queue = <<>>

\* The lock is free: t takes it.
Acquire(t) ==
    /\ owner = NoTask
    /\ queue = <<>>
    /\ owner' = t
    /\ UNCHANGED queue

\* The lock is taken: t queues behind every earlier waiter.
Enqueue(t) ==
    /\ owner # NoTask
    /\ owner # t
    /\ ~Queued(t)
    /\ queue' = Append(queue, t)
    /\ UNCHANGED owner

\* The owner gives the lock up, to the longest waiting task if there is one.
Handover ==
    /\ owner # NoTask
    /\ queue # <<>>
    /\ owner' = Head(queue)
    /\ queue' = Tail(queue)

Free ==
    /\ owner # NoTask
    /\ queue = <<>>
    /\ owner' = NoTask
    /\ UNCHANGED queue

\* A waiter leaves the queue; the order of the others is kept.
Abandon(t) ==
    /\ Queued(t)
    /\ queue' = Erase(queue, t)
    /\ UNCHANGED owner

Next ==
    \/ \E t \in Tasks : Acquire(t) \/ Enqueue(t) \/ Abandon(t)
    \/ Handover
    \/ Free

Spec == Init /\ [][Next]_vars
=============================================================================

------------------------------- MODULE BlockOn -------------------------------
(***************************************************************************)
(* pollcoro::block_on (src/src/block_on.cppm) with a single_event: one     *)
(* thread loops over poll() and a condition variable, the setters' threads *)
(* call its waker.  The event's own steps are those of SingleEvent.tla,    *)
(* whose abstract executor is replaced by the loop.                        *)
(*                                                                         *)
(* The one waker is &wd: it is in woken iff wd.notified.                   *)
(***************************************************************************)
EXTENDS SingleEvent

CONSTANT Wd             \* waker(wd), the waker block_on polls with

ASSUME WdAssumption == Wd \in Wakers

VARIABLES
    loopPc,     \* where the thread in block_on is
    notifying   \* the setters between the store of notified and notify_all()

allVars == <<vars, loopPc, notifying>>

notified == Wd \in woken

\* reset      about to clear notified, lines 46-48
\* poll       in awaitable.poll(), line 50
\* check      about to lock wd.mutex and test notified, lines 55-58
\* waiting    blocked in cv.wait()
\* returned   block_on has returned: wd is gone
LoopLocations == {"reset", "poll", "check", "waiting", "returned"}

LoopTypeOK ==
    /\ TypeOK
    /\ loopPc \in LoopLocations
    /\ notifying \subseteq Setters
    /\ loopPc = "poll" <=> pollPc \in {"poll", "result"}
    /\ loopPc = "returned" <=> pollPc \in {"completed", "destroyed", "replaced"}

LoopInit ==
    /\ Init
    /\ loopPc = "reset"
    /\ notifying = {}

LoopGoto(from, to) == loopPc = from /\ loopPc' = to

------------------------------------------------------------------------------
Reset ==
    /\ LoopGoto("reset", "poll")
    /\ PollStart(Wd)
    /\ UNCHANGED notifying

\* The two halves of poll(), and the test of its result, lines 50-53.
LoopSetWaker ==
    /\ PollSetWaker
    /\ UNCHANGED <<loopPc, notifying>>

LoopResult ==
    /\ PollResult
    /\ LoopGoto("poll", IF ready THEN "returned" ELSE "check")
    /\ UNCHANGED notifying

\* Mutant of Check: cv.wait() without its predicate.
CheckNothing ==
    /\ LoopGoto("check", "waiting")
    /\ UNCHANGED <<vars, notifying>>

\* cv.wait(): under wd.mutex, either notified is seen or the thread blocks.
Check ==
    /\ LoopGoto("check", IF notified THEN "reset" ELSE "waiting")
    /\ UNCHANGED <<vars, notifying>>

\* A condition variable may wake up by itself.
SpuriousWakeup ==
    /\ LoopGoto("waiting", "check")
    /\ UNCHANGED <<vars, notifying>>

\* The caller destroys the awaitable it has passed to block_on, or assigns
\* another one to it.
DestroyAwaitable ==
    /\ loopPc = "returned"
    /\ Destroy \/ Replace
    /\ UNCHANGED <<loopPc, notifying>>

\* setter::set() up to the call of the waker.
SetEvent(s) ==
    /\ Set(s)
    /\ UNCHANGED <<loopPc, notifying>>

\* Mutant of WakeStore: no notify_all() will follow.
WakeStoreOnly(s) ==
    /\ SetWake(s)
    /\ UNCHANGED <<loopPc, notifying>>

\* wake(), lines 36-39: notified is set under wd.mutex.
WakeStore(s) ==
    /\ SetWake(s)
    /\ notifying' = IF copied[s] = Wd THEN notifying \cup {s} ELSE notifying
    /\ UNCHANGED loopPc

\* wake(), line 40: notify_all() after the lock was dropped.
NotifyAll(s) ==
    /\ s \in notifying
    /\ notifying' = notifying \ {s}
    /\ loopPc' = IF loopPc = "waiting" THEN "check" ELSE loopPc
    /\ UNCHANGED vars

DropEvent(s) ==
    /\ DropSetter(s)
    /\ UNCHANGED <<loopPc, notifying>>

------------------------------------------------------------------------------
LoopNext ==
    \/ Reset \/ LoopSetWaker \/ LoopResult \/ Check \/ SpuriousWakeup
    \/ DestroyAwaitable
    \/ \E s \in Setters : SetEvent(s) \/ WakeStore(s) \/ NotifyAll(s) \/ DropEvent(s)

LoopSpec == LoopInit /\ [][LoopNext]_allVars

\* Threads that can run do run.  Nothing obliges anybody to call set(), nor the
\* condition variable to wake up by itself.
LoopFairSpec ==
    /\ LoopSpec
    /\ WF_allVars(Reset)
    /\ WF_allVars(LoopSetWaker)
    /\ WF_allVars(LoopResult)
    /\ WF_allVars(Check)
    /\ \A s \in Setters : WF_allVars(WakeStore(s)) /\ WF_allVars(NotifyAll(s))

------------------------------------------------------------------------------
\* block_on gives SingleEvent the executor it assumes: every step is one of the
\* event's, and an awaitable whose waker was called is polled again.
IsAnExecutor == Spec /\ WF_vars(\E w \in Wakers : PollAgain(w))

\* block_on returns once the event has been set.
Returns == ready ~> loopPc = "returned"

\* A thread that sleeps although the event is set is about to be woken: a setter
\* is on its way to the condition variable.
NoMissedNotify ==
    ready /\ loopPc = "waiting" =>
        \/ notifying # {}
        \/ \E s \in Setters : setPc[s] = "wake" /\ copied[s] = Wd

\* "The executor must keep its waker valid until the awaitable has completed or
\* been canceled" (README.adoc:1300) leaves it to the others not to use it
\* later: when block_on has returned, nobody is about to lock wd.mutex or to
\* call wd.cv.notify_all().  (It does not hold.)
NobodyUsesWd ==
    loopPc = "returned" =>
        /\ notifying = {}
        /\ \A s \in Setters : setPc[s] = "wake" => copied[s] # Wd
==============================================================================

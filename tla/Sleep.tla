-------------------------------- MODULE Sleep --------------------------------
(***************************************************************************)
(* pollcoro::sleep_awaitable (src/src/sleep.cppm), the executor that polls *)
(* it and the timer that runs its callback, each on a thread of its own.   *)
(*                                                                         *)
(* The Timer is the user's.  What the concept (lines 24-36) leaves open is *)
(* assumed: its clock does not go back, and register_callback() returns    *)
(* and has the callback run once, not before the deadline and not by the   *)
(* caller, which holds the lock that the callback takes.                   *)
(***************************************************************************)
EXTENDS Naturals

CONSTANTS Wakers,       \* wakers the awaitable is polled with
          Noop,         \* the default waker, which does nothing
          Horizon       \* the clock stops at Horizon

ASSUME NoopAssumption == Noop \notin Wakers
ASSUME HorizonAssumption == Horizon \in Nat

VARIABLES
    now,        \* timer_.now()
    deadline,   \* deadline_
    started,    \* started_
    waker,      \* shared_->waker
    callback,   \* the registered callback: none, armed or run
    pollPc,     \* where the owner of the awaitable is
    pollWaker,  \* the waker of the current or last poll, or Noop
    woken       \* the wakers called since their executor last forgot

vars == <<now, deadline, started, waker, callback, pollPc, pollWaker, woken>>
clock == <<now, deadline>>

\* idle       not in poll()
\* poll       in poll(), next it looks at the clock
\* store      in poll(), it is too early, next it locks shared_->mutex
\* completed  a poll returned ready
\* reset      the awaitable has been destroyed or assigned to
PollLocations == {"idle", "poll", "store", "completed", "reset"}

TypeOK ==
    /\ now \in 0..Horizon
    /\ deadline \in 0..Horizon
    /\ started \in BOOLEAN
    /\ waker \in Wakers \cup {Noop}
    /\ callback \in {"none", "armed", "run"}
    /\ pollPc \in PollLocations
    /\ pollWaker \in Wakers \cup {Noop}
    /\ woken \in SUBSET Wakers

\* sleep_for() and sleep_until(): any deadline, one that has passed included.
Init ==
    /\ now = 0
    /\ deadline \in 0..Horizon
    /\ started = FALSE
    /\ waker = Noop
    /\ callback = "none"
    /\ pollPc = "idle"
    /\ pollWaker = Noop
    /\ woken = {}

Due == now >= deadline

Tick ==
    /\ now < Horizon
    /\ now' = now + 1
    /\ UNCHANGED <<deadline, started, waker, callback, pollPc, pollWaker, woken>>

------------------------------------------------------------------------------
\* The executor is about to call poll(w); it forgets the wakes of w.
PollStart(w) ==
    /\ pollPc = "idle"
    /\ pollPc' = "poll"
    /\ pollWaker' = w
    /\ woken' = woken \ {w}
    /\ UNCHANGED <<clock, started, waker, callback>>

\* Mutant of PollCheck: the comparison with the deadline is off by one.
PollCheckEarly ==
    /\ pollPc = "poll"
    /\ pollPc' = IF now + 1 >= deadline THEN "completed" ELSE "store"
    /\ UNCHANGED <<clock, started, waker, callback, pollWaker, woken>>

\* poll(), lines 96-98, without the lock.
PollCheck ==
    /\ pollPc = "poll"
    /\ pollPc' = IF Due THEN "completed" ELSE "store"
    /\ UNCHANGED <<clock, started, waker, callback, pollWaker, woken>>

\* poll(), lines 100-110: the waker is stored and the callback registered by
\* the first poll that comes here, whatever time it is by now.
PollStore ==
    /\ pollPc = "store"
    /\ pollPc' = "idle"
    /\ waker' = pollWaker
    /\ started' = TRUE
    /\ callback' = IF started THEN callback ELSE "armed"
    /\ UNCHANGED <<clock, pollWaker, woken>>

\* The callback, lines 105-106: it wakes under the lock.
Fire ==
    /\ callback = "armed"
    /\ Due
    /\ callback' = "run"
    /\ woken' = woken \cup ({waker} \ {Noop})
    /\ UNCHANGED <<clock, started, waker, pollPc, pollWaker>>

\* Mutant of Reset: the stored waker stays.
ResetOnly ==
    /\ pollPc \in {"idle", "completed"}
    /\ pollPc' = "reset"
    /\ started' = FALSE
    /\ UNCHANGED <<clock, waker, callback, pollWaker, woken>>

\* reset(), lines 50-57, by the destructor and the move assignment.
Reset ==
    /\ pollPc \in {"idle", "completed"}
    /\ pollPc' = "reset"
    /\ waker' = IF started THEN Noop ELSE waker
    /\ started' = FALSE
    /\ UNCHANGED <<clock, callback, pollWaker, woken>>

------------------------------------------------------------------------------
Next ==
    \/ Tick
    \/ \E w \in Wakers : PollStart(w)
    \/ PollCheck \/ PollStore \/ Fire \/ Reset

Spec == Init /\ [][Next]_vars

\* An executor polls an awaitable that it has never polled, or whose waker has
\* been called.
PollAgain(w) ==
    /\ pollWaker = Noop \/ pollWaker \in woken
    /\ PollStart(w)

\* Time passes, threads run, and the timer runs its callbacks.
FairSpec ==
    /\ Spec
    /\ WF_vars(Tick)
    /\ WF_vars(\E w \in Wakers : PollAgain(w))
    /\ WF_vars(PollCheck)
    /\ WF_vars(PollStore)
    /\ WF_vars(Fire)

------------------------------------------------------------------------------
\* After reset() the callback calls nobody: "when the timer_awaitable is
\* destroyed it unsets the waker so that when the timer fires, the waker is
\* not called" (README.adoc:1458).
NoWakeAfterReset == [][pollPc = "reset" => woken' = woken]_vars

\* An awaitable that still waits has a callback to come or has called the
\* waker of its last poll: "call it when your awaitable becomes ready"
\* (README.adoc:208), the executor "passes a waker to your awaitable on each
\* poll" (README.adoc:1298).
NoLostWakeup ==
    pollPc = "idle" /\ pollWaker # Noop =>
        callback = "armed" \/ pollWaker \in woken

\* The contract: a sleep is an awaitable that waits for its deadline.
Contract == INSTANCE Awaitable WITH
    phase <- CASE pollPc = "poll" /\ Due -> "finishing"
               [] (pollPc = "poll" /\ ~Due) \/ pollPc = "store" -> "polling"
               [] pollPc = "reset" -> "dropped"
               [] OTHER -> pollPc,
    done <- Due,
    last <- pollWaker

IsAwaitable == Contract!Spec
==============================================================================

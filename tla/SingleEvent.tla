----------------------------- MODULE SingleEvent -----------------------------
(***************************************************************************)
(* pollcoro::single_event (src/src/single_event.cppm): the state shared by *)
(* one awaitable and the copies of its setter, each on a thread of its     *)
(* own.  Every critical section of mutex_ is one action; poll() has two,   *)
(* and mark_ready() wakes after the lock is dropped.                       *)
(*                                                                         *)
(* The executor that polls is abstract: before a poll it forgets earlier   *)
(* wakes, and it may poll with another waker than last time.  BlockOn.tla  *)
(* puts block_on in its place.                                             *)
(***************************************************************************)
EXTENDS Naturals

CONSTANTS Setters,      \* copies of the setter
          Wakers,       \* wakers the awaitable is polled with
          Noop          \* the default waker, which does nothing

ASSUME NoopAssumption == Noop \notin Wakers

VARIABLES
    ready,      \* ready_
    result,     \* the setter whose value is in result_, or Noop
    waker,      \* waker_
    pollPc,     \* where the owner of the awaitable is
    pollWaker,  \* the waker of the current or last poll, or Noop
    woken,      \* the wakers called since their executor last forgot
    setPc,      \* where each setter is
    copied      \* the waker each setter copied under the lock

vars == <<ready, result, waker, pollPc, pollWaker, woken, setPc, copied>>
setterState == <<setPc, copied>>

\* new        set() has not been called
\* wake       mark_ready() has dropped the lock, next it calls wake()
\* done       set() has returned
\* dropped    the setter was destroyed without a call of set()
SetterLocations == {"new", "wake", "done", "dropped"}

\* idle       not in poll()
\* poll       in poll(), next it calls set_waker()
\* result     in poll(), next it calls poll_result()
\* completed  a poll returned the result
\* destroyed  the awaitable has been destroyed
\* replaced   another awaitable has been moved into it
PollLocations == {"idle", "poll", "result", "completed", "destroyed", "replaced"}

TypeOK ==
    /\ ready \in BOOLEAN
    /\ result \in Setters \cup {Noop}
    /\ waker \in Wakers \cup {Noop}
    /\ pollPc \in PollLocations
    /\ pollWaker \in Wakers \cup {Noop}
    /\ woken \in SUBSET Wakers
    /\ setPc \in [Setters -> SetterLocations]
    /\ copied \in [Setters -> Wakers \cup {Noop}]

Init ==
    /\ ready = FALSE
    /\ result = Noop
    /\ waker = Noop
    /\ pollPc = "idle"
    /\ pollWaker = Noop
    /\ woken = {}
    /\ setPc = [s \in Setters |-> "new"]
    /\ copied = [s \in Setters |-> Noop]

------------------------------------------------------------------------------
\* The executor is about to call poll(w).
PollStart(w) ==
    /\ pollPc = "idle"
    /\ pollPc' = "poll"
    /\ pollWaker' = w
    /\ woken' = woken \ {w}
    /\ UNCHANGED <<ready, result, waker, setterState>>

\* waker::wake(): the default waker has no function to call.
Called(w) == woken \cup ({w} \ {Noop})

\* set_waker(), lines 58-68: nothing if w is the stored waker, a wake if the
\* event is ready already, else w is stored.
StoreWaker(w) ==
    IF waker # w /\ ready
    THEN woken' = Called(w) /\ UNCHANGED waker
    ELSE waker' = w /\ UNCHANGED woken

\* Mutant of PollSetWaker: a first poll stores the waker, a later one assumes
\* that it has not changed.
PollKeepWaker ==
    /\ pollPc = "poll"
    /\ pollPc' = "result"
    /\ IF waker = Noop THEN StoreWaker(pollWaker) ELSE UNCHANGED <<waker, woken>>
    /\ UNCHANGED <<ready, result, pollWaker, setterState>>

\* poll(), line 148.
PollSetWaker ==
    /\ pollPc = "poll"
    /\ pollPc' = "result"
    /\ StoreWaker(pollWaker)
    /\ UNCHANGED <<ready, result, pollWaker, setterState>>

\* poll(), line 149: poll_result(), lines 86-96.
PollResult ==
    /\ pollPc = "result"
    /\ pollPc' = IF ready THEN "completed" ELSE "idle"
    /\ UNCHANGED <<ready, result, waker, pollWaker, woken, setterState>>

\* Mutant of Destroy: the stored waker stays.
DestroyOnly ==
    /\ pollPc \in {"idle", "completed"}
    /\ pollPc' = "destroyed"
    /\ UNCHANGED <<ready, result, waker, pollWaker, woken, setterState>>

\* The destructor, lines 115-120, after completion or instead of it.
Destroy ==
    /\ pollPc \in {"idle", "completed"}
    /\ pollPc' = "destroyed"
    /\ StoreWaker(Noop)
    /\ UNCHANGED <<ready, result, pollWaker, setterState>>

\* Move assignment, lines 105-110: the awaitable gives up its part of the
\* state and leaves the stored waker in it.
Replace ==
    /\ pollPc \in {"idle", "completed"}
    /\ pollPc' = "replaced"
    /\ UNCHANGED <<ready, result, waker, pollWaker, woken, setterState>>

------------------------------------------------------------------------------
\* Mutant of Set: a second set() overwrites the result.
SetAgain(s) ==
    /\ setPc[s] = "new"
    /\ ready' = TRUE
    /\ result' = s
    /\ copied' = [copied EXCEPT ![s] = waker]
    /\ setPc' = [setPc EXCEPT ![s] = "wake"]
    /\ UNCHANGED <<waker, pollPc, pollWaker, woken>>

\* setter::set(), mark_ready() lines 71-76: the first one stores its value and
\* copies the waker.  Moving out of a waker leaves it as it was.
Set(s) ==
    /\ setPc[s] = "new"
    /\ IF ready
       THEN /\ setPc' = [setPc EXCEPT ![s] = "done"]
            /\ UNCHANGED <<ready, result, copied>>
       ELSE /\ ready' = TRUE
            /\ result' = s
            /\ copied' = [copied EXCEPT ![s] = waker]
            /\ setPc' = [setPc EXCEPT ![s] = "wake"]
    /\ UNCHANGED <<waker, pollPc, pollWaker, woken>>

\* mark_ready(), line 77.
SetWake(s) ==
    /\ setPc[s] = "wake"
    /\ setPc' = [setPc EXCEPT ![s] = "done"]
    /\ woken' = Called(copied[s])
    /\ UNCHANGED <<ready, result, waker, pollPc, pollWaker, copied>>

\* A setter may be destroyed instead; nobody is told.
DropSetter(s) ==
    /\ setPc[s] = "new"
    /\ setPc' = [setPc EXCEPT ![s] = "dropped"]
    /\ UNCHANGED <<ready, result, waker, pollPc, pollWaker, woken, copied>>

------------------------------------------------------------------------------
Next ==
    \/ \E w \in Wakers : PollStart(w)
    \/ PollSetWaker \/ PollResult \/ Destroy \/ Replace
    \/ \E s \in Setters : Set(s) \/ SetWake(s) \/ DropSetter(s)

Spec == Init /\ [][Next]_vars

\* A poll and a set() that began go on, and an executor polls an awaitable that
\* it has never polled or whose waker has been called.
PollAgain(w) ==
    /\ pollWaker = Noop \/ pollWaker \in woken
    /\ PollStart(w)

FairSpec ==
    /\ Spec
    /\ WF_vars(\E w \in Wakers : PollAgain(w))
    /\ WF_vars(PollSetWaker)
    /\ WF_vars(PollResult)
    /\ \A s \in Setters : WF_vars(SetWake(s))

------------------------------------------------------------------------------
\* An awaitable whose last poll was pending, although the event has been set,
\* will be polled again: its last waker has been called or is about to be.
NoLostWakeup ==
    ready /\ pollPc = "idle" /\ pollWaker # Noop =>
        \/ pollWaker \in woken
        \/ \E s \in Setters : setPc[s] = "wake" /\ copied[s] = pollWaker

\* One setter decides the result, once and for all, and no other one wakes:
\* set() may be called by any copy, any number of times.
OneResult ==
    \A s \in Setters : setPc[s] = "wake" \/ copied[s] # Noop => result = s

\* "If another thread later calls setter.set(), it finds an empty waker and
\* does nothing" (README.adoc:1304): a set() that begins after the awaitable
\* was destroyed has no waker to call.
LaterSetFindsNoWaker ==
    [][\A s \in Setters :
          setPc[s] = "new" /\ pollPc = "destroyed" => copied'[s] = Noop]_vars

\* The contract: the event is an awaitable that waits for the first set().
Contract == INSTANCE Awaitable WITH
    phase <- CASE pollPc \in {"poll", "result"} ->
                      IF ready THEN "finishing" ELSE "polling"
               [] pollPc \in {"destroyed", "replaced"} -> "dropped"
               [] OTHER -> pollPc,
    done <- ready,
    last <- pollWaker

\* Whatever the setters and the executor do and in whichever order, no wake
\* that the event owes is lost, and it completes only when it is set.
IsAwaitable == Contract!Spec
==============================================================================

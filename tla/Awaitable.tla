------------------------------ MODULE Awaitable ------------------------------
(***************************************************************************)
(* What every blocking awaitable of pollcoro promises its executor         *)
(* (awaitable.cppm, waker.cppm): it is polled with a waker, completes only *)
(* when what it waits for has happened, and after a pending poll calls the *)
(* waker of that poll once it has happened.  It may wake when it need not. *)
(* A poll that begins after what the awaitable waits for completes.        *)
(*                                                                         *)
(* SingleEvent and Sleep implement it; Wait is built from such awaitables  *)
(* and is one.                                                             *)
(***************************************************************************)
CONSTANTS Wakers,       \* wakers an executor polls with
          Noop          \* no waker, not one of them

VARIABLES
    phase,      \* where the owner is, see below
    done,       \* what the awaitable waits for has happened
    last,       \* the waker of the current or last poll, or Noop
    woken       \* the wakers called since their executor last forgot

vars == <<phase, done, last, woken>>

\* idle       not in poll()
\* polling    in a poll() that will be pending
\* finishing  in a poll() that will complete
\* completed  a poll returned the result
\* dropped    destroyed or assigned to
Phases == {"idle", "polling", "finishing", "completed", "dropped"}

Init ==
    /\ phase = "idle"
    /\ done \in BOOLEAN
    /\ last = Noop
    /\ woken = {}

\* A poll in progress may see it or be too early.
Happen ==
    /\ ~done
    /\ done' = TRUE
    /\ phase' \in IF phase = "polling" THEN {"polling", "finishing"} ELSE {phase}
    /\ UNCHANGED <<last, woken>>

\* A poll that began too early is in time after all.
Notice ==
    /\ phase = "polling"
    /\ done
    /\ phase' = "finishing"
    /\ UNCHANGED <<done, last, woken>>

\* The executor forgets the wakes of w and calls poll(w).
Start(w) ==
    /\ phase = "idle"
    /\ phase' = IF done THEN "finishing" ELSE "polling"
    /\ last' = w
    /\ woken' = woken \ {w}
    /\ UNCHANGED done

Pending ==
    /\ phase = "polling"
    /\ phase' = "idle"
    /\ UNCHANGED <<done, last, woken>>

Complete ==
    /\ phase = "finishing"
    /\ phase' = "completed"
    /\ UNCHANGED <<done, last, woken>>

Wake(w) ==
    /\ woken' = woken \cup {w}
    /\ UNCHANGED <<phase, done, last>>

\* The awaitable is destroyed, cancelled if it had not completed.
Drop ==
    /\ phase \in {"idle", "completed"}
    /\ phase' = "dropped"
    /\ UNCHANGED <<done, last, woken>>

Next ==
    \/ Happen \/ Notice \/ Pending \/ Complete \/ Drop
    \/ \E w \in Wakers : Start(w) \/ Wake(w)

\* The wake that a pending awaitable owes its executor.
Tell ==
    /\ phase = "idle" /\ done
    /\ last # Noop
    /\ last \notin woken
    /\ Wake(last)

Spec ==
    /\ Init /\ [][Next]_vars
    /\ WF_vars(Pending \/ Complete)
    /\ WF_vars(Tell)
==============================================================================

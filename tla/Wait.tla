--------------------------------- MODULE Wait ---------------------------------
(***************************************************************************)
(* pollcoro::wait_all and wait_first (src/src/wait_all.cppm,               *)
(* src/src/wait_first.cppm), the variadic forms and those over a range:    *)
(* one awaitable made of several, polled in order with one waker.          *)
(*                                                                         *)
(* The children keep the contract of Awaitable.tla.  A child may become    *)
(* done, and wake, on any thread between two of the parent's steps.        *)
(***************************************************************************)
EXTENDS Naturals

CONSTANT MaxChildren    \* at most so many children

ASSUME MaxChildrenAssumption == MaxChildren \in Nat

Indexes == 1..MaxChildren

VARIABLES
    mode,       \* all or first
    n,          \* the number of children (a range may be empty)
    done,       \* what each child waits for has happened
    child,      \* where each child is
    stored,     \* results_: the children whose result wait_all has
    winner,     \* the index wait_first returns with the result, or 0
    phase,      \* idle, polling, completed, dropped
    i,          \* the child poll() looks at next
    polled,     \* poll() has been called
    woken       \* the waker has been called since the executor last forgot

vars == <<mode, n, done, child, stored, winner, phase, i, polled, woken>>
shape == <<mode, n>>

Children == 1..n

\* fresh      never polled
\* pending    its last poll was pending, it holds the waker
\* told       it has called the waker since
\* completed  it has given its result
\* misused    it was polled after that
ChildStates == {"fresh", "pending", "told", "completed", "misused"}

TypeOK ==
    /\ mode \in {"all", "first"}
    /\ n \in 0..MaxChildren
    /\ done \in [Indexes -> BOOLEAN]
    /\ child \in [Indexes -> ChildStates]
    /\ stored \in SUBSET Children
    /\ winner \in 0..n
    /\ phase \in {"idle", "polling", "completed", "dropped"}
    /\ i \in 1..n + 1
    /\ polled \in BOOLEAN
    /\ woken \in BOOLEAN

\* wait_first(...) has at least one child, wait_first(range) may have none.
Init ==
    /\ mode \in {"all", "first"}
    /\ n \in 0..MaxChildren
    /\ done = [c \in Indexes |-> FALSE]
    /\ child = [c \in Indexes |-> "fresh"]
    /\ stored = {}
    /\ winner = 0
    /\ phase = "idle"
    /\ i = 1
    /\ polled = FALSE
    /\ woken = FALSE

------------------------------------------------------------------------------
\* What child c waits for happens.
Happen(c) ==
    /\ ~done[c]
    /\ done' = [done EXCEPT ![c] = TRUE]
    /\ UNCHANGED <<shape, child, stored, winner, phase, i, polled, woken>>

\* Child c calls the waker it was last polled with.
Tell(c) ==
    /\ child[c] = "pending"
    /\ done[c]
    /\ child' = [child EXCEPT ![c] = "told"]
    /\ woken' = TRUE
    /\ UNCHANGED <<shape, done, stored, winner, phase, i, polled>>

\* child.poll(w).
PollOf(c) ==
    child' = [child EXCEPT ![c] =
                  CASE child[c] \in {"completed", "misused"} -> "misused"
                    [] child[c] \in {"fresh", "pending", "told"} ->
                           IF done[c] THEN "completed" ELSE "pending"]

------------------------------------------------------------------------------
\* The executor forgets earlier wakes and calls poll().
PollStart ==
    /\ phase = "idle"
    /\ phase' = "polling"
    /\ i' = 1
    /\ polled' = TRUE
    /\ woken' = FALSE
    /\ UNCHANGED <<shape, done, child, stored, winner>>

Polling == phase = "polling" /\ i <= n

\* Mutant of SkipStored: every child is polled.
SkipNothing ==
    /\ Polling /\ mode = "all"
    /\ i \in stored
    /\ PollOf(i)
    /\ i' = i + 1
    /\ UNCHANGED <<shape, done, stored, winner, phase, polled, woken>>

\* wait_all: a child whose result is stored is not polled.
SkipStored ==
    /\ Polling /\ mode = "all"
    /\ i \in stored
    /\ i' = i + 1
    /\ UNCHANGED <<shape, done, child, stored, winner, phase, polled, woken>>

\* Mutant of PollForAll: a result is dropped.
PollForgetful ==
    /\ Polling /\ mode = "all" /\ i \notin stored
    /\ PollOf(i)
    /\ i' = i + 1
    /\ UNCHANGED <<shape, done, stored, winner, phase, polled, woken>>

\* wait_all: every other child is polled, pending or not.
PollForAll ==
    /\ Polling /\ mode = "all"
    /\ i \notin stored
    /\ PollOf(i)
    /\ stored' = IF done[i] THEN stored \cup {i} ELSE stored
    /\ i' = i + 1
    /\ UNCHANGED <<shape, done, winner, phase, polled, woken>>

\* wait_first: the first child that is ready ends the poll.
PollForFirst ==
    /\ Polling /\ mode = "first"
    /\ PollOf(i)
    /\ IF done[i]
       THEN winner' = i /\ phase' = "completed" /\ UNCHANGED i
       ELSE i' = i + 1 /\ UNCHANGED <<winner, phase>>
    /\ UNCHANGED <<shape, done, stored, polled, woken>>

\* Mutant of PollEnd: one result is enough.
PollEndAny ==
    /\ phase = "polling" /\ i = n + 1
    /\ phase' = IF mode = "all" /\ (stored # {} \/ n = 0) THEN "completed" ELSE "idle"
    /\ i' = 1
    /\ UNCHANGED <<shape, done, child, stored, winner, polled, woken>>

\* The end of poll(): wait_all completes with the last result.
PollEnd ==
    /\ phase = "polling" /\ i = n + 1
    /\ phase' = IF mode = "all" /\ stored = Children THEN "completed" ELSE "idle"
    /\ i' = 1
    /\ UNCHANGED <<shape, done, child, stored, winner, polled, woken>>

Drop ==
    /\ phase \in {"idle", "completed"}
    /\ phase' = "dropped"
    /\ UNCHANGED <<shape, done, child, stored, winner, i, polled, woken>>

------------------------------------------------------------------------------
PollStep == SkipStored \/ PollForAll \/ PollForFirst \/ PollEnd

Next ==
    \/ \E c \in Children : Happen(c) \/ Tell(c)
    \/ PollStart \/ PollStep \/ Drop

\* A poll returns, and the children keep their contract.
Spec ==
    /\ Init /\ [][Next]_vars
    /\ WF_vars(PollStep)
    /\ \A c \in Indexes : WF_vars(c <= n /\ Tell(c))

------------------------------------------------------------------------------
\* "We poll ALL of them every time to register wakers" (wait_all.cppm:165):
\* between two polls every child that is not done holds the waker.
AllRegistered ==
    polled /\ phase = "idle" => \A c \in Children : child[c] # "fresh"

\* wait_first takes one result and leaves every other child as it was: it
\* completes at once with the only child that has completed.
OneWinner ==
    mode = "first" =>
        \A c \in Children : child[c] = "completed" =>
            winner = c /\ phase \in {"completed", "dropped"}

\* No result is lost: wait_all has the result of every completed child.
KeepsResults ==
    mode = "all" => stored = {c \in Children : child[c] = "completed"}

\* A child that has given its result is not polled again, which no awaitable
\* of pollcoro is made for (single_event's result has been moved out).
NoRepoll == \A c \in Children : child[c] # "misused"

\* The contract: wait_all waits for every child and wait_first for any child.
\* A poll of wait_all will be ready when all unstored children still to be
\* looked at are done, one of wait_first when some child still ahead is.
AllDone == \A c \in Children : done[c]
AnyDone == \E c \in Children : done[c]

WillComplete ==
    IF mode = "all"
    THEN \A c \in Children : c \in stored \/ (c >= i /\ done[c])
    ELSE \E c \in Children : c >= i /\ done[c]

Contract == INSTANCE Awaitable WITH
    Wakers <- {"w"},
    Noop <- "noop",
    phase <- IF phase = "polling" /\ WillComplete THEN "finishing" ELSE phase,
    done <- IF mode = "all" THEN AllDone ELSE AnyDone,
    last <- IF polled THEN "w" ELSE "noop",
    woken <- IF woken THEN {"w"} ELSE {}

\* Awaitables that keep the contract make an awaitable that keeps it.
IsAwaitable == Contract!Spec
==============================================================================

------------------------------- MODULE Coroutine -------------------------------
(***************************************************************************)
(* pollcoro::task and pollcoro::stream (src/src/task.cppm, stream.cppm,    *)
(* detail_promise.cppm): coroutine frames that await one another, polled   *)
(* from the outermost one.                                                 *)
(*                                                                         *)
(* Frame f + 1 is the one that frame f awaits (a task, by co_await) or     *)
(* yields from (a stream, by co_yield).  The innermost frame awaits an     *)
(* awaitable that keeps the contract of Awaitable.tla, or a yield().  What *)
(* a body does when it is resumed is any choice.  An awaitable of another  *)
(* thread may become done, and wake, between any two steps of a poll.      *)
(***************************************************************************)
EXTENDS Naturals, Sequences

CONSTANTS Depth,        \* frames are nested so deep
          MaxSteps,     \* bodies are resumed so often in all, and then end
          MaxTurns      \* the largest n of yield(n)

ASSUME DepthAssumption == Depth \in Nat \ {0}
ASSUME StepsAssumption == MaxSteps \in Nat /\ MaxTurns \in Nat

Frames == 1..Depth

VARIABLES
    kind,       \* task or stream
    at,         \* where each frame's body is suspended
    exception,  \* promise.exception of each frame is set
    result,     \* the value in the promise of each stream, or 0
    leaf,       \* the awaited awaitable and its waker
    outcome,    \* what it has come to, not yet known to who awaits it
    turns,      \* ready_ of an awaited yield()
    phase,      \* what poll() of the outermost frame does, or has returned
    cur,        \* the frame whose poll() is running
    resumed,    \* the local of that name
    woken,      \* the waker has been called since the executor last polled
    steps,      \* how often bodies have been resumed
    yielded,    \* the values that were yielded are 1, 2, ..., yielded
    out,        \* those that polls have returned
    thrown,     \* how many exceptions were thrown,
    caught,     \* caught by a body,
    lost        \* and left in the promise of a stream that is done

frames == <<kind, at, exception, result>>
event == <<leaf, outcome, turns>>
history == <<steps, yielded, out, thrown, caught, lost>>
vars == <<frames, event, phase, cur, resumed, woken, history>>

\* absent     there is no such frame
\* runnable   at its start or at a co_yield of a value: current_awaitable_poll is null
\* leaf       at the co_await of an awaitable that keeps the contract
\* yield      at the co_await of a yield()
\* frame      at the co_await or co_yield of the next frame
\* ended      returned or threw: handle_.done()
Places == {"absent", "runnable", "leaf", "yield", "frame", "ended"}

\* In a poll: down (poll_ready() of cur), body (cur is resumed), tail (what
\* poll() of cur does after that).  Between polls: new, or what the last poll
\* came to.
InPoll == {"down", "body", "tail"}
Phases == InPoll \cup {"new", "pending", "given", "completed", "threw", "dropped"}

TypeOK ==
    /\ kind \in [Frames -> {"task", "stream"}]
    /\ at \in [Frames -> Places]
    /\ exception \in [Frames -> BOOLEAN]
    /\ result \in [Frames -> Nat]
    /\ leaf \in {"none", "fresh", "pending", "told"}
    /\ outcome \in {"no", "value", "exception"}
    /\ turns \in 0..MaxTurns
    /\ phase \in Phases
    /\ cur \in Frames
    /\ resumed \in BOOLEAN
    /\ woken \in BOOLEAN
    /\ steps \in Nat /\ yielded \in Nat /\ out \in Seq(Nat)
    /\ thrown \in Nat /\ caught \in Nat /\ lost \in Nat

\* A frame exists iff the one before it awaits it, and only the innermost one
\* awaits anything else.
Nested ==
    phase # "dropped" =>
        \A f \in Frames \ {1} : at[f] # "absent" <=> at[f - 1] = "frame"

Init ==
    /\ kind \in [Frames -> {"task", "stream"}]
    /\ \A f \in Frames \ {1} : kind[f] = "task"
    /\ at = [f \in Frames |-> IF f = 1 THEN "runnable" ELSE "absent"]
    /\ exception = [f \in Frames |-> FALSE]
    /\ result = [f \in Frames |-> 0]
    /\ leaf = "none" /\ outcome = "no" /\ turns = 0
    /\ phase = "new" /\ cur = 1 /\ resumed = FALSE
    /\ woken = FALSE
    /\ steps = 0 /\ yielded = 0 /\ out = <<>>
    /\ thrown = 0 /\ caught = 0 /\ lost = 0

------------------------------------------------------------------------------
\* What the awaited awaitable waits for happens; later it calls its waker.
Happen ==
    /\ leaf # "none" /\ outcome = "no"
    /\ outcome' \in {"value", "exception"}
    /\ UNCHANGED <<frames, leaf, turns, phase, cur, resumed, woken, history>>

Tell ==
    /\ leaf = "pending" /\ outcome # "no"
    /\ leaf' = "told"
    /\ woken' = TRUE
    /\ UNCHANGED <<frames, outcome, turns, phase, cur, resumed, history>>

\* The executor forgets earlier wakes and polls.
PollStart ==
    /\ phase \in {"new", "pending", "given"}
    /\ phase' = "down" /\ cur' = 1
    /\ woken' = FALSE
    /\ UNCHANGED <<frames, event, resumed, history>>

\* The destructor, or a move assignment, between two polls: destroy().
Drop ==
    /\ phase \notin InPoll \cup {"dropped"}
    /\ phase' = "dropped"
    /\ at' = [f \in Frames |-> "absent"]
    /\ leaf' = "none"
    /\ UNCHANGED <<kind, exception, result, outcome, turns, cur, resumed, woken, history>>

------------------------------------------------------------------------------
\* poll_ready(): nothing is awaited, or the awaited frame is polled, or ...
Runnable ==
    /\ phase = "down" /\ at[cur] = "runnable"
    /\ phase' = "body"
    /\ UNCHANGED <<frames, event, cur, resumed, woken, history>>

Descend ==
    /\ phase = "down" /\ at[cur] = "frame"
    /\ cur' = cur + 1
    /\ UNCHANGED <<frames, event, phase, resumed, woken, history>>

\* poll() of cur goes on without resuming the body.
NotResumed == phase' = "tail" /\ resumed' = FALSE

\* ... the awaited awaitable: pending, a result, or an exception that the catch
\* of poll() puts into the promise.
PollLeaf ==
    /\ phase = "down" /\ at[cur] = "leaf"
    /\ IF outcome = "no"
       THEN leaf' = "pending" /\ NotResumed
       ELSE leaf' = "none" /\ phase' = "body" /\ UNCHANGED resumed
    /\ exception' = [exception EXCEPT ![cur] = (outcome = "exception")]
    /\ thrown' = IF outcome = "exception" THEN thrown + 1 ELSE thrown
    /\ UNCHANGED <<kind, at, result, outcome, turns, cur, woken>>
    /\ UNCHANGED <<steps, yielded, out, caught, lost>>

\* yield() wakes in every poll, also in the last one.
PollYield ==
    /\ phase = "down" /\ at[cur] = "yield"
    /\ turns' = IF turns > 0 THEN turns - 1 ELSE 0
    /\ woken' = TRUE
    /\ IF turns' = 0 THEN phase' = "body" /\ UNCHANGED resumed ELSE NotResumed
    /\ UNCHANGED <<frames, leaf, outcome, cur, history>>

------------------------------------------------------------------------------
\* handle_.resume(): await_resume() takes the exception out of the promise and
\* throws it into the body, the awaited frame is destroyed, and the body runs to
\* its next suspension, at `place', with a new frame `next' if it awaits one.
BodyRuns(place, next) ==
    /\ phase = "body" /\ phase' = "tail" /\ resumed' = TRUE
    /\ steps' = steps + 1
    /\ at' = [f \in Frames |-> CASE f = cur     -> place
                                 [] f = cur + 1 -> next
                                 [] OTHER       -> at[f]]
    /\ UNCHANGED <<cur, woken, out, lost>>

\* Not to end, and not to rethrow, is to have caught the exception.
Caught == caught' = IF exception[cur] THEN caught + 1 ELSE caught

BodyGoesOn(place, next) ==
    /\ steps < MaxSteps
    /\ BodyRuns(place, next)
    /\ Caught
    /\ exception' = [f \in Frames |-> f < cur /\ exception[f]]
    /\ UNCHANGED thrown

\* co_await of an awaitable, which may be done before it is polled.
BodyAwaits ==
    /\ BodyGoesOn("leaf", "absent")
    /\ leaf' = "fresh"
    /\ outcome' \in {"no", "value", "exception"}
    /\ UNCHANGED <<kind, result, turns, yielded>>

BodyAwaitsYield ==
    /\ BodyGoesOn("yield", "absent")
    /\ turns' \in 0..MaxTurns
    /\ UNCHANGED <<kind, result, leaf, outcome, yielded>>

\* co_await of a task, or co_yield of a stream by a stream.
BodyCalls ==
    /\ cur < Depth
    /\ BodyGoesOn("frame", "runnable")
    /\ \E k \in {"task"} \cup {kind[cur]} : kind' = [kind EXCEPT ![cur + 1] = k]
    /\ UNCHANGED <<result, event, yielded>>

\* co_yield of a value.
BodyYields ==
    /\ kind[cur] = "stream"
    /\ BodyGoesOn("runnable", "absent")
    /\ yielded' = yielded + 1
    /\ result' = [result EXCEPT ![cur] = yielded']
    /\ UNCHANGED <<kind, event>>

BodyReturns ==
    /\ BodyRuns("ended", "absent")
    /\ Caught
    /\ exception' = [f \in Frames |-> f < cur /\ exception[f]]
    /\ UNCHANGED <<kind, result, event, thrown, yielded>>

\* unhandled_exception(): the one that was thrown into the body, or a new one.
BodyThrows ==
    /\ BodyRuns("ended", "absent")
    /\ \/ exception[cur] /\ UNCHANGED <<thrown, caught>>
       \/ thrown' = thrown + 1 /\ Caught
    /\ exception' = [f \in Frames |-> f = cur \/ (f < cur /\ exception[f])]
    /\ UNCHANGED <<kind, result, event, yielded>>

------------------------------------------------------------------------------
\* poll() of cur returns: to the executor, or to poll_ready() of the frame that
\* awaits cur, which is not resumed as long as cur gives it less than its end.
Answer(what) ==
    /\ phase = "tail"
    /\ IF cur = 1
       THEN phase' = what /\ UNCHANGED <<cur, resumed>>
       ELSE /\ cur' = cur - 1
            /\ IF what \in {"pending", "given"}
               THEN NotResumed
               ELSE phase' = "body" /\ UNCHANGED resumed

TaskReturns ==
    /\ kind[cur] = "task" /\ at[cur] = "ended" /\ ~exception[cur]
    /\ Answer("completed")
    /\ UNCHANGED <<frames, event, woken, history>>

\* Mutant: poll() leaves the exception in the promise.
TaskThrowsACopy ==
    /\ kind[cur] = "task" /\ at[cur] = "ended" /\ exception[cur]
    /\ Answer("threw")
    /\ exception' = [f \in Frames |-> f = cur - 1 \/ exception[f]]
    /\ UNCHANGED <<kind, at, result, event, woken, history>>

\* rethrow_exception(), which the catch of the awaiting poll() stores.
TaskThrows ==
    /\ kind[cur] = "task" /\ at[cur] = "ended" /\ exception[cur]
    /\ Answer("threw")
    /\ exception' = [f \in Frames |-> f # cur /\ (f = cur - 1 \/ exception[f])]
    /\ UNCHANGED <<kind, at, result, event, woken, history>>

\* Mutant: take_result() reads the value and does not take it.
StreamGivesACopy ==
    /\ kind[cur] = "stream" /\ result[cur] # 0
    /\ Answer("given")
    /\ result' = [f \in Frames |-> IF f = cur - 1 THEN result[cur] ELSE result[f]]
    /\ out' = IF cur = 1 THEN Append(out, result[cur]) ELSE out
    /\ UNCHANGED <<kind, at, exception, event, woken>>
    /\ UNCHANGED <<steps, yielded, thrown, caught, lost>>

\* take_result(); a stream that yields from this one keeps the value as its own.
StreamGives ==
    /\ kind[cur] = "stream" /\ result[cur] # 0
    /\ Answer("given")
    /\ result' = [f \in Frames |-> CASE f = cur     -> 0
                                     [] f = cur - 1 -> result[cur]
                                     [] OTHER       -> result[f]]
    /\ out' = IF cur = 1 THEN Append(out, result[cur]) ELSE out
    /\ UNCHANGED <<kind, at, exception, event, woken>>
    /\ UNCHANGED <<steps, yielded, thrown, caught, lost>>

\* poll_next() does not look at the exception of a body that has ended.
StreamEnds ==
    /\ kind[cur] = "stream" /\ result[cur] = 0 /\ at[cur] = "ended"
    /\ Answer("completed")
    /\ lost' = IF exception[cur] THEN lost + 1 ELSE lost
    /\ UNCHANGED <<frames, event, woken, steps, yielded, out, thrown, caught>>

\* Mutant: only what is awaited wakes.
StillPendingQuietly ==
    /\ at[cur] # "ended" /\ result[cur] = 0
    /\ Answer("pending")
    /\ UNCHANGED <<frames, event, woken, history>>

\* A body that has been resumed may await something that nobody has polled yet:
\* the waker is called.
StillPending ==
    /\ at[cur] # "ended" /\ result[cur] = 0
    /\ Answer("pending")
    /\ woken' = (woken \/ resumed)
    /\ UNCHANGED <<frames, event, history>>

Next ==
    \/ Happen \/ Tell \/ PollStart \/ Drop
    \/ Runnable \/ Descend \/ PollLeaf \/ PollYield
    \/ BodyAwaits \/ BodyAwaitsYield \/ BodyCalls
    \/ BodyYields \/ BodyReturns \/ BodyThrows
    \/ TaskReturns \/ TaskThrows \/ StreamGives \/ StreamEnds \/ StillPending

Spec == Init /\ [][Next]_vars

------------------------------------------------------------------------------
\* A poll that returned pending leaves a wake-up behind: the waker has been
\* called, or the awaitable that the innermost body awaits has been polled with
\* it.  What goes wrong otherwise is a body that was resumed and then awaited
\* something no poll has reached (task.cppm:89, stream.cppm:84).
NoLostWakeup ==
    phase = "pending" => woken \/ leaf = "pending"

\* Between polls every exception thrown at any depth has been caught by a body,
\* or has come out of poll() (task.cppm:67, 77-81), or is the exception of a
\* stream that ended with it, which poll_next() does not look at; and no promise
\* of a task, and of no frame that is not done, holds one, as the destructor
\* asserts (detail_promise.cppm:167).
ExceptionsArrive ==
    phase \notin InPoll \cup {"dropped"} =>
        /\ thrown = caught + lost + (IF phase = "threw" THEN 1 ELSE 0)
        /\ \A f \in Frames :
              exception[f] => kind[f] = "stream" /\ at[f] = "ended"

\* The values that streams yield at any depth come out of the outermost poll_next()
\* once each and in order, and none waits in a promise when poll_next() returns
\* (stream.cppm:76, detail_promise.cppm:79-83, 106).
ValuesInOrder ==
    /\ \A i \in 1..Len(out) : out[i] = i
    /\ phase \notin InPoll => Len(out) = yielded

=============================================================================

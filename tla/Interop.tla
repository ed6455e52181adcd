------------------------------- MODULE Interop --------------------------------
(***************************************************************************)
(* pollcoro at its borders: the adapters to_pollable and to_resumable      *)
(* (src/src/resumable.cppm), from_asio and to_asio                         *)
(* (src/examples/interop_asio.cc), the C API and the two loops that drive  *)
(* it (c_interop.c, cxx_cppcoro_interop.cc), running the example programs  *)
(* of InteropExamples.tla.                                                 *)
(*                                                                         *)
(* A future is a pollcoro task with the driver that polls it.  It awaits   *)
(* at most one foreign operation at a time.  The foreign side is the event *)
(* loop with its one thread, and for to_pollable a thread per operation.   *)
(***************************************************************************)
EXTENDS InteropExamples

CONSTANTS Families,     \* the families of programs to run
          MaxAwaits     \* tasks of the general families have at most so many

ASSUME MaxAwaitsAssumption == MaxAwaits \in Nat

Futures == 1..3
None == 0

VARIABLES
    program,    \* the program that runs
    at,         \* the await its task is suspended at; 0 before it has started
    left,       \* yield_awaitable::ready_
    sum,        \* what the awaits have given
    failed,     \* the task has thrown
    stage,      \* where the poll in progress is
    result,     \* what the last poll returned
    op,         \* the foreign operation awaited
    waker,      \* the operation's state holds the waker
    driver,     \* where the driver of the future is
    flag,       \* notified, wake_pending, event or resumed
    queue,      \* the handlers posted to the event loop
    step,       \* the step asio_main is at
    main,       \* asio_main: to run, suspended, or over
    destroyed   \* what was destroyed while a call in it was not over, of which future:
                \* the frame of an operation, or a poll_awaiter of to_resumable

taskVars == <<at, left, sum, failed>>
pollVars == <<stage, result>>
opVars == <<op, waker>>
driverVars == <<driver, flag, queue>>
mainVars == <<step, main>>
vars == <<program, taskVars, pollVars, opVars, driverVars, mainVars, destroyed>>

Body(f) == program.bodies[f]
Used == DOMAIN program.bodies
\* What it awaits.  A task that has not started is ready to, like one it calls.
Await(f) == IF at[f] = 0 THEN Call ELSE Body(f)[at[f]]
AwaitsForeign(f) == Await(f).on = "foreign"

\* stage is one of
\* idle       no poll is running
\* leaf       about to poll what the body awaits
\* body       that was ready: about to resume the body
\* end        about to return
\* and op one of
\* none       not begun
\* posted     co_spawn() has posted the coroutine to the loop
\* running    it sleeps
\* expired    its timer has posted the rest of it
\* result     set_result(): done, and about to wake, with the state's lock held
\* waking     in the waker, with the lock held: the driver that it has resumed runs
\*            on this stack
\* woken      back from the waker, with the lock held
\* leaving    the lock is free, and the thread on its way out of the coroutine
\* done       the coroutine is at its final suspension
Locked(f) == op[f] \in {"result", "waking", "woken"}

\* driver is one of
\* unborn     not made yet
\* start      about to poll
\* polling    in poll()
\* polled     to_asio: polling is false again, about to look at wake_pending
\* waiting    for a wake
\* resumed    to_resumable, future_container: resumed by the waker, on the
\*            waker's stack, and on the way to co_await schedule()
\* scheduled  the event loop will resume it
\* over       finished, and its state destroyed
OnLoop == program.driver \in {"to_asio", "to_resumable", "future_container"}

\* The one thread of the event loop is not at work.
LoopIsFree ==
    /\ main # "run"
    /\ program.adapter = "from_asio" => \A f \in Used : ~Locked(f)
    /\ OnLoop => \A f \in Used :
                    stage[f] = "idle" /\ driver[f] \notin {"start", "polled"}

Init ==
    /\ program \in UNION {Family(name, MaxAwaits) : name \in Families}
    /\ at = [f \in Futures |-> 0]
    /\ left = [f \in Futures |-> 0]
    /\ sum = [f \in Futures |-> 0]
    /\ failed = [f \in Futures |-> FALSE]
    /\ stage = [f \in Futures |-> "idle"]
    /\ result = [f \in Futures |-> "pending"]
    /\ op = [f \in Futures |-> "none"]
    /\ waker = [f \in Futures |-> FALSE]
    /\ driver = [f \in Futures |->
                    IF f \in Used /\ program.driver # "to_asio" THEN "start" ELSE "unborn"]
    /\ flag = [f \in Futures |-> FALSE]
    /\ queue = IF program.script = <<>> THEN <<>> ELSE <<<<"main", None>>>>
    /\ step = 1
    /\ main = IF program.script = <<>> THEN "over" ELSE "suspended"
    /\ destroyed = {}

Post(name, f) == queue' = Append(queue, <<name, f>>)

------------------------------------------------------------------------------
(* What the wakers do.  That of to_resumable resumes the coroutine of the  *)
(* driver, and that of future_container sets the event it may be waiting   *)
(* for, which resumes it: on the stack of whoever wakes.                   *)

\* waker_data_t::wake of block_on, and waker_wake of the C program.
NotifyLoop(f) ==
    /\ flag' = [flag EXCEPT ![f] = TRUE]
    /\ UNCHANGED <<driver, queue>>

\* Mutant of AsioWake: the wake during a poll posts a handler as well.
AsioWakePostsAlways(f) ==
    /\ flag' = [flag EXCEPT ![f] = TRUE]
    /\ Post("poll", f)
    /\ UNCHANGED driver

AsioWake(f) ==
    /\ flag' = [flag EXCEPT ![f] = TRUE]
    /\ IF driver[f] = "polling" THEN UNCHANGED queue ELSE Post("poll", f)
    /\ UNCHANGED driver

ResumableWake(f) ==
    /\ flag' = [flag EXCEPT ![f] = TRUE]
    /\ driver' = [driver EXCEPT ![f] = IF flag[f] THEN @ ELSE "resumed"]
    /\ UNCHANGED queue

EventSet(f) ==
    /\ IF driver[f] = "waiting"
       THEN driver' = [driver EXCEPT ![f] = "resumed"] /\ UNCHANGED flag
       ELSE flag' = [flag EXCEPT ![f] = TRUE] /\ UNCHANGED driver
    /\ UNCHANGED queue

Wake(f) ==
    CASE program.driver \in {"block_on", "c_main"} -> NotifyLoop(f)
      [] program.driver = "to_asio" -> AsioWake(f)
      [] program.driver = "to_resumable" -> ResumableWake(f)
      [] program.driver = "future_container" -> EventSet(f)

\* Mutant of Schedule: the coroutine polls where the waker has resumed it.
ScheduleNowhere(f) ==
    /\ driver[f] = "resumed"
    /\ driver' = [driver EXCEPT ![f] = "start"]
    /\ UNCHANGED <<program, taskVars, pollVars, opVars, flag, queue, mainVars, destroyed>>

\* co_await scheduler.schedule(): the driver's next poll is for the loop, and
\* whoever has resumed the driver goes on.
Schedule(f) ==
    /\ driver[f] = "resumed"
    /\ driver' = [driver EXCEPT ![f] = "scheduled"]
    /\ op' = [op EXCEPT ![f] = IF @ = "waking" THEN "woken" ELSE @]
    /\ Post("poll", f)
    /\ UNCHANGED <<program, taskVars, pollVars, waker, flag, mainVars, destroyed>>

------------------------------------------------------------------------------
(* A poll of the task: of what its body awaits, and if that is ready, the  *)
(* body up to its next await or its end.                                   *)

PollStart(f) ==
    /\ driver[f] = "start"
    /\ driver' = [driver EXCEPT ![f] = "polling"]
    /\ flag' = [flag EXCEPT ![f] = IF program.driver = "future_container" THEN @ ELSE FALSE]
    /\ stage' = [stage EXCEPT ![f] = "leaf"]
    /\ UNCHANGED <<program, taskVars, result, opVars, queue, mainVars, destroyed>>

LeafDone(f) ==
    /\ stage' = [stage EXCEPT ![f] = "body"]
    /\ UNCHANGED result

Pending(f) ==
    /\ stage' = [stage EXCEPT ![f] = "end"]
    /\ result' = [result EXCEPT ![f] = "pending"]

\* The body, or that of the task it calls, has not started: it starts.  A poll in
\* which the waker has resumed the driver goes on when that has suspended again.
PollCall(f) ==
    /\ stage[f] = "leaf" /\ driver[f] # "resumed"
    /\ Await(f).on = "call"
    /\ LeafDone(f)
    /\ UNCHANGED <<program, taskVars, opVars, driverVars, mainVars, destroyed>>

\* Mutant of PollYield: the poll that is ready does not wake.
PollYieldQuietly(f) ==
    /\ stage[f] = "leaf" /\ driver[f] # "resumed"
    /\ Await(f).on = "yield"
    /\ left' = [left EXCEPT ![f] = @ - 1]
    /\ IF left[f] = 1
       THEN /\ LeafDone(f)
            /\ sum' = [sum EXCEPT ![f] = @ + Await(f).gives]
            /\ UNCHANGED driverVars
       ELSE Pending(f) /\ Wake(f) /\ UNCHANGED sum
    /\ UNCHANGED <<program, at, failed, opVars, mainVars, destroyed>>

PollYield(f) ==
    /\ stage[f] = "leaf" /\ driver[f] # "resumed"
    /\ Await(f).on = "yield"
    /\ left' = [left EXCEPT ![f] = @ - 1]
    /\ Wake(f)
    /\ IF left[f] = 1
       THEN /\ LeafDone(f)
            /\ sum' = [sum EXCEPT ![f] = @ + Await(f).gives]
       ELSE Pending(f) /\ UNCHANGED sum
    /\ UNCHANGED <<program, at, failed, opVars, mainVars, destroyed>>

\* The first poll of from_asio: co_spawn().
StartOperation(f) ==
    /\ stage[f] = "leaf" /\ driver[f] # "resumed"
    /\ AwaitsForeign(f) /\ op[f] = "none"
    /\ op' = [op EXCEPT ![f] = "posted"]
    /\ Post("spawn", f)
    /\ UNCHANGED <<program, taskVars, pollVars, waker, driver, flag, mainVars, destroyed>>

\* shared_state::poll(), under its lock.
PollForeign(f) ==
    /\ stage[f] = "leaf" /\ driver[f] # "resumed"
    /\ AwaitsForeign(f) /\ op[f] # "none" /\ ~Locked(f)
    /\ IF op[f] \in {"leaving", "done"}
       THEN /\ LeafDone(f)
            /\ sum' = [sum EXCEPT ![f] = @ + Await(f).gives]
            /\ UNCHANGED waker
       ELSE /\ Pending(f)
            /\ waker' = [waker EXCEPT ![f] = TRUE]
            /\ UNCHANGED sum
    /\ UNCHANGED <<program, at, left, failed, op, driverVars, mainVars, destroyed>>

\* The awaitable that was ready is destroyed.  from_asio then forgets the waker;
\* to_pollable destroys the frame of its driver coroutine, whether or not the
\* operation's thread has left it.
DestroyAwaited(f) ==
    destroyed' = IF AwaitsForeign(f) /\ program.adapter = "to_pollable" /\ op[f] # "done"
                 THEN destroyed \cup {<<f, "frame">>} ELSE destroyed

\* The body suspends at its next await, and the poll that resumed it wakes.  An
\* operation of to_pollable starts as soon as it is made.
BodyGoesOn(f) ==
    LET next == at[f] + 1
        starts == Body(f)[next].on = "foreign" /\ program.adapter = "to_pollable" IN
    /\ stage[f] = "body" /\ driver[f] # "resumed"
    /\ next \in DOMAIN Body(f)
    /\ DestroyAwaited(f)
    /\ at' = [at EXCEPT ![f] = next]
    /\ left' = [left EXCEPT ![f] = Body(f)[next].polls]
    /\ op' = [op EXCEPT ![f] = IF starts THEN "running" ELSE "none"]
    /\ waker' = [waker EXCEPT ![f] = FALSE]
    /\ Pending(f)
    /\ Wake(f)
    /\ UNCHANGED <<program, sum, failed, mainVars>>

BodyEnds(f) ==
    /\ stage[f] = "body" /\ driver[f] # "resumed"
    /\ at[f] = Len(Body(f))
    /\ DestroyAwaited(f)
    /\ at' = [at EXCEPT ![f] = @ + 1]
    /\ failed' = [failed EXCEPT ![f] = program.throws]
    /\ waker' = [waker EXCEPT ![f] = @ /\ program.adapter = "to_pollable"]
    /\ stage' = [stage EXCEPT ![f] = "end"]
    /\ result' = [result EXCEPT ![f] = "ready"]
    /\ UNCHANGED <<program, left, sum, op, driverVars, mainVars>>

------------------------------------------------------------------------------
(* What the drivers do with the result.                                    *)

Returned(f) == stage[f] = "end" /\ stage' = [stage EXCEPT ![f] = "idle"]
Goes(f, to) == driver' = [driver EXCEPT ![f] = to]

BlockOnResult(f) ==
    /\ program.driver = "block_on"
    /\ Returned(f)
    /\ Goes(f, IF result[f] = "ready" THEN "over" ELSE "waiting")
    /\ UNCHANGED <<program, taskVars, result, opVars, flag, queue, mainVars, destroyed>>

\* Mutant of BlockOnWait: to be woken is taken for being ready.
BlockOnWaitOnce(f) ==
    /\ program.driver = "block_on"
    /\ driver[f] = "waiting" /\ flag[f]
    /\ Goes(f, "over")
    /\ UNCHANGED <<program, taskVars, pollVars, opVars, flag, queue, mainVars, destroyed>>

\* wd.cv.wait() returns once notified is set.
BlockOnWait(f) ==
    /\ program.driver = "block_on"
    /\ driver[f] = "waiting" /\ flag[f]
    /\ Goes(f, "start")
    /\ UNCHANGED <<program, taskVars, pollVars, opVars, flag, queue, mainVars, destroyed>>

\* The C program waits before it looks at the result, and also returns from
\* cnd_wait() without a wake.  The awaits of its task wake in every poll, so that
\* it never gets there: notified is set when it looks.
CResult(f) ==
    /\ program.driver = "c_main"
    /\ Returned(f)
    /\ Goes(f, "waiting")
    /\ UNCHANGED <<program, taskVars, result, opVars, flag, queue, mainVars, destroyed>>

CWait(f) ==
    /\ program.driver = "c_main"
    /\ driver[f] = "waiting" /\ flag[f]
    /\ Goes(f, IF result[f] = "ready" THEN "over" ELSE "start")
    /\ UNCHANGED <<program, taskVars, pollVars, opVars, flag, queue, mainVars, destroyed>>

\* op_state::poll() polls again as long as it was woken meanwhile.  complete()
\* resumes who awaits the operation and deletes it.
AsioResult(f) ==
    LET awaited ==
            /\ main = "suspended" /\ step <= Len(program.script)
            /\ program.script[step] = ToAsio(f) IN
    /\ program.driver = "to_asio"
    /\ Returned(f)
    /\ IF result[f] = "ready"
       THEN /\ Goes(f, "over")
            /\ main' = IF awaited THEN "run" ELSE main
            /\ step' = IF awaited THEN step + 1 ELSE step
       ELSE Goes(f, "polled") /\ UNCHANGED mainVars
    /\ UNCHANGED <<program, taskVars, result, opVars, flag, queue, destroyed>>

\* Mutant of AsioExchange: one poll for each handler.
AsioExchangePosts(f) ==
    /\ driver[f] = "polled"
    /\ Goes(f, "waiting")
    /\ IF flag[f] THEN Post("poll", f) ELSE UNCHANGED queue
    /\ UNCHANGED <<program, taskVars, pollVars, opVars, flag, mainVars, destroyed>>

\* wake_pending.exchange(false), in front of every poll.
AsioExchange(f) ==
    /\ driver[f] = "polled"
    /\ Goes(f, IF flag[f] THEN "start" ELSE "waiting")
    /\ UNCHANGED <<program, taskVars, pollVars, opVars, flag, queue, mainVars, destroyed>>

\* await_suspend() returns whether the result is pending.  If the waker has
\* resumed the coroutine meanwhile, it is not suspended at this await any more,
\* and goes on from it a second time if the result is ready.  It has then also
\* destroyed the poll_awaiter that await_suspend() stores the result in.
ResumableResult(f) ==
    /\ program.driver = "to_resumable"
    /\ Returned(f)
    /\ CASE result[f] = "ready" -> Goes(f, "over")
         [] result[f] = "pending" /\ driver[f] = "polling" -> Goes(f, "waiting")
         [] OTHER -> UNCHANGED driver
    /\ destroyed' = IF driver[f] = "polling" THEN destroyed
                    ELSE destroyed \cup {<<f, "awaiter">>}
    /\ UNCHANGED <<program, taskVars, result, opVars, flag, queue, mainVars>>

\* co_await event: an auto reset event that is set does not suspend.
ContainerResult(f) ==
    /\ program.driver = "future_container"
    /\ Returned(f)
    /\ Goes(f, CASE result[f] = "ready" -> "over"
                 [] result[f] = "pending" /\ flag[f] -> "resumed"
                 [] OTHER -> "waiting")
    /\ flag' = [flag EXCEPT ![f] = FALSE]
    /\ UNCHANGED <<program, taskVars, result, opVars, queue, mainVars, destroyed>>

------------------------------------------------------------------------------
(* The foreign operations.                                                 *)

\* The timer of an operation under asio: its expiry posts the rest.
Expire(f) ==
    /\ op[f] = "running" /\ program.adapter = "from_asio"
    /\ op' = [op EXCEPT ![f] = "expired"]
    /\ Post("finish", f)
    /\ UNCHANGED <<program, taskVars, pollVars, waker, driver, flag, mainVars, destroyed>>

\* The thread of a cppcoro_sleep sets the event, which resumes the coroutines
\* that wait for it up to to_pollable's driver: set_result() takes the lock.
SleepIsOver(f) ==
    /\ op[f] = "running" /\ program.adapter = "to_pollable"
    /\ op' = [op EXCEPT ![f] = "result"]
    /\ UNCHANGED <<program, taskVars, pollVars, waker, driverVars, mainVars, destroyed>>

\* The wake at the end of set_result(), which still holds the lock.
ResultWakes(f) ==
    /\ op[f] = "result"
    /\ IF waker[f] THEN Wake(f) ELSE UNCHANGED driverVars
    /\ op' = [op EXCEPT ![f] = IF driver'[f] = driver[f] THEN "woken" ELSE "waking"]
    /\ UNCHANGED <<program, taskVars, pollVars, waker, mainVars, destroyed>>

\* The wake has returned: the driver that it resumed, if any, has suspended again.
ResultUnlocks(f) ==
    /\ op[f] = "woken"
    /\ op' = [op EXCEPT ![f] = IF program.adapter = "to_pollable" THEN "leaving" ELSE "done"]
    /\ UNCHANGED <<program, taskVars, pollVars, waker, driverVars, mainVars, destroyed>>

ThreadLeaves(f) ==
    /\ op[f] = "leaving"
    /\ op' = [op EXCEPT ![f] = "done"]
    /\ UNCHANGED <<program, taskVars, pollVars, waker, driverVars, mainVars, destroyed>>

------------------------------------------------------------------------------
(* The event loop: asio::io_context::run() or io_service::process_events().*)

Begins(f) ==
    /\ driver' = [driver EXCEPT ![f] = "start"]
    /\ flag' = [flag EXCEPT ![f] = TRUE]

RunHandler ==
    LET name == Head(queue)[1]
        f == Head(queue)[2] IN
    /\ queue # <<>> /\ LoopIsFree
    /\ queue' = Tail(queue)
    /\ CASE name = "spawn" ->
                /\ op' = [op EXCEPT ![f] = "running"]
                /\ UNCHANGED <<driver, flag, main>>
         [] name = "finish" ->
                /\ op' = [op EXCEPT ![f] = "result"]
                /\ UNCHANGED <<driver, flag, main>>
         [] name = "poll" ->
                /\ Goes(f, IF flag[f] \/ program.driver # "to_asio" THEN "start" ELSE driver[f])
                /\ UNCHANGED <<op, flag, main>>
         [] name = "begin" -> Begins(f) /\ UNCHANGED <<op, main>>
         [] name = "main" -> main' = "run" /\ UNCHANGED <<op, driver, flag>>
    /\ UNCHANGED <<program, taskVars, pollVars, waker, step, destroyed>>

\* asio_main runs to its next suspension.  get() blocks the loop's thread.
MainStep ==
    /\ main = "run"
    /\ IF step > Len(program.script)
       THEN main' = "over" /\ UNCHANGED <<step, driverVars>>
       ELSE LET now == program.script[step] IN
            CASE now.do = "timer" ->
                    main' = "suspended" /\ UNCHANGED <<step, driverVars>>
              [] now.do = "await" ->
                    main' = "suspended" /\ Begins(now.future) /\ UNCHANGED <<step, queue>>
              [] now.do = "spawn" ->
                    /\ Post("begin", now.future)
                    /\ step' = step + 1
                    /\ UNCHANGED <<main, driver, flag>>
              [] now.do = "get" ->
                    /\ driver[now.future] = "over"
                    /\ step' = step + 1
                    /\ UNCHANGED <<main, driverVars>>
    /\ UNCHANGED <<program, taskVars, pollVars, opVars, destroyed>>

MainTimer ==
    /\ main = "suspended" /\ step <= Len(program.script) /\ program.script[step] = Timer
    /\ <<"main", None>> \notin {queue[i] : i \in DOMAIN queue}
    /\ step' = step + 1
    /\ Post("main", None)
    /\ UNCHANGED <<program, taskVars, pollVars, opVars, driver, flag, main, destroyed>>

------------------------------------------------------------------------------
Poll(f) ==
    \/ PollStart(f)
    \/ PollCall(f)
    \/ PollYield(f)
    \/ StartOperation(f)
    \/ PollForeign(f)
    \/ BodyGoesOn(f)
    \/ BodyEnds(f)

Drive(f) ==
    \/ BlockOnResult(f)
    \/ BlockOnWait(f)
    \/ CResult(f)
    \/ CWait(f)
    \/ AsioResult(f)
    \/ AsioExchange(f)
    \/ ResumableResult(f)
    \/ ContainerResult(f)
    \/ Schedule(f)

Operate(f) ==
    \/ Expire(f)
    \/ SleepIsOver(f)
    \/ ResultWakes(f)
    \/ ResultUnlocks(f)
    \/ ThreadLeaves(f)

Finished ==
    /\ main = "over"
    /\ \A f \in Used : driver[f] = "over" /\ op[f] \in {"none", "done"}
    /\ queue = <<>>

Next ==
    \/ \E f \in Used : Poll(f) \/ Drive(f) \/ Operate(f)
    \/ RunHandler
    \/ MainStep
    \/ MainTimer
    \/ Finished /\ UNCHANGED vars

Spec == Init /\ [][Next]_vars /\ WF_vars(Next)
------------------------------------------------------------------------------
(* Properties.                                                             *)

\* A program that has finished has the result that its source announces: no
\* operation's result was lost, taken twice or mixed up on the way through the
\* adapters, and an exception has reached the driver.
ResultsAsAnnounced ==
    Finished =>
        IF program.throws THEN failed[1]
        ELSE program.times * (sum[1] + sum[2] + sum[3]) + program.plus = program.announced

\* Nobody is about to use a driver that is gone: no handler is posted for it,
\* and no operation is in, or before, a wake of it.
NothingStale ==
    /\ \A i \in DOMAIN queue :
          queue[i][1] = "poll" => driver[queue[i][2]] # "over"
    /\ \A f \in Used : Locked(f) /\ waker[f] => driver[f] # "over"

\* asio_main calls get() on the thread of the loop: what it asks for is there,
\* or the loop would never run what makes it ready.
GetDoesNotBlock ==
    main = "run" /\ step <= Len(program.script) /\ program.script[step].do = "get"
        => driver[program.script[step].future] = "over"

\* Whoever is in set_result() of this operation is on the thread of the poll.
OnThisThread(f) ==
    \/ op[f] = "waking"
    \/ OnLoop /\ program.adapter = "from_asio"

\* A poll that has to wait for the lock of its operation waits for another thread,
\* never for the set_result() that it is called from or that its own thread has
\* been in since before: neither poll() nor set_result() would ever go on.
NoSelfDeadlock ==
    \A f \in Used :
        stage[f] = "leaf" /\ AwaitsForeign(f) /\ Locked(f) => ~OnThisThread(f)

\* Every program ends: each poll that finds an operation running is followed by
\* a wake that reaches the driver, and nobody waits for what nobody will do.
Finishes == <>Finished

\* No frame of to_pollable's driver coroutine is destroyed while the thread of
\* the operation is still in it, and no poll_awaiter of to_resumable before its
\* await_suspend() has stored its result.  (It does not hold.)
FramesAtRest == destroyed = {}
==============================================================================

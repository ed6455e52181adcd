# pollcoro in TLA+

[pollcoro](../src/README.adoc) is a header-less C++20 library of *polled* coroutines.  An
awaitable has one operation, `poll(waker)`, that returns *ready* with a result
or *pending*; an awaitable that returns pending keeps the waker and calls it
when a further poll is worthwhile.  An executor is anything that polls.  The
library gives awaitables (`single_event`, `mutex`, `shared_mutex`, `sleep`),
ways to combine them (`wait_all`, `wait_first`, coroutines, streams), one
executor (`block_on`) and adapters to coroutines that are resumed instead of polled.

This directory models the library in three layers.

1. *Where threads meet*: what each shared object keeps under its lock, what it does
   outside of it, and what it owes to the executor that polls it (`Mutex`, `SharedMutex`,
   `SingleEvent`, `BlockOn`, `Sleep`, `Wait`).
2. *What is polled in the middle of something*: coroutines that await one another, and
   stream combinators (`Coroutine`, `Streams`).
3. *Programs*: the examples of the repository, and families of programs of their kind, run on
   models of the library, the adapters and the event loops (`StreamExamples`,
   `TaskExamples` with `Tasks`, `InteropExamples` with `Interop`).

Source lines below are those of `src/src/` (the library) and `src/examples/`.

- [1. The system](#1-the-system)
- [2. Modules](#2-modules-and-the-code)
- [3. Runs](#3-runs-what-is-checked)
- [4. Bounds](#4-bounds)
- [5. Fairness and assumptions](#5-fairness-and-assumptions)
- [6. Proofs](#6-proofs)
- [7. What the checks disagree with](#7-what-the-checks-disagree-with)
- [8. Not modelled](#8-not-modelled)
- [9. Plan](#9-plan)

## 1. The system

| component | state | operations | what makes it hard | what makes it correct |
|---|---|---|---|---|
| `mutex` (mutex.cppm) | `mtx_`, `locked_`, the deque `waiters_`; per awaitable a waiter with `is_ready_` and `registered_` | `lock`, `try_lock`, poll, destroy or assign an awaitable, release by the guard | `is_ready_` is read without `mtx_` in two places; a waiter may be cancelled while it is being served; the wake is under `mtx_` | one owner, FIFO, the lock is never lost, every waiter is woken and served |
| `shared_mutex` (shared_mutex.cppm) | the same with `readers_`, `writer_active_` | shared and exclusive lock, try, poll, cancel, release | `wake_next` serves a run of readers; the fast path of `poll` keeps no account | readers exclude writers, the counts match the guards, writers are preferred |
| `single_event` (single_event.cppm) | under `mutex_`: `ready_`, `result_`, `waker_` | poll (two critical sections), `set` by any copy of the setter, destroy, move-assign | a set between the two halves of a poll; the wake after the lock is dropped | one result, no lost wake, nobody is woken after cancellation |
| `sleep` (sleep.cppm) | `deadline_`, `started_`, the shared waker | poll, the timer's callback, reset | the clock is read without the lock; the callback races with polls and reset | not early, ends, wakes nobody after reset |
| `wait_all`, `wait_first` | the children, the stored results | poll | children become ready while others are polled | no result lost, no child forgotten or polled twice, one winner |
| contract (awaitable.cppm, waker.cppm) | - | poll, wake | it is what the two sides may rely on | see `Awaitable.tla` |
| `block_on` (block_on.cppm) | `wd`: `notified`, a mutex, a condition variable | the loop, wake | a wake between the poll and the wait | no missed notify; returns once the result is there |
| `task`, `stream`, promises (task.cppm, stream.cppm, detail_promise.cppm) | the frame: current poll function, result or exception | poll, yield, return, throw, destroy, release | exceptions, cancellation of nested awaits | a pending poll leaves a wake-up behind; values and exceptions arrive once, at the right place |
| `resumable` (resumable.cppm, co_awaitable.cppm) | a shared state with a waker, a driver coroutine | adapters to and from resumed coroutines, `schedule` | resumption inside a waker, a frame destroyed while a thread is in it | one resumption per suspension, no use of a driver that is over |
| adapters of the examples (interop_asio.cc, interop_cppcoro.cc, c_interop*, cxx_cppcoro_interop.cc) | `op_state` with `polling` and `wake_pending`; the event loop's queue; the C future | `to_asio`, `from_asio`, `future_poll`, the loops | wakes during and between polls, `get()` on the loop's own thread | results arrive once, nothing is posted for what is gone, every program ends |
| stream combinators, sources and sinks | counters and partial results | `poll_next` | a source that is pending in the middle of a step | the values are those of the sequence function; no stream is polled past its end |
| `allocator` (allocator.cppm), the slab of allocator.cc | a thread-local current allocator; bitmaps of blocks | guard, `in_scope`, allocate, free | tasks suspend between `allocate_in` and the frames they call; `bad_alloc` and cancellation in the middle | a frame is in the allocator around its call and goes back to it |
| programs (mutex.cc, wait_combinators.cc, custom_awaitable.cc, generic.cc, ...) | counters, caches, results | tasks that lock, yield, wait, throw | every order of their polls | the results their sources announce |
| simple awaitables, adapters | a counter at most | poll | - | - |

How they interact.  An executor calls `poll(w)`.  A compound awaitable passes
`w` on to its children.  A leaf awaitable stores `w` in state shared with
another thread (a setter, a timer, the task that releases a lock), which calls
`w.wake()` later, possibly during the poll, possibly after the awaitable was
destroyed.  `block_on`'s `wake` takes `wd.mutex`, sets `notified` and calls
`notify_all`; that of `to_resumable` resumes a coroutine, that of `to_asio` posts
a handler to the loop or, during a poll, leaves a note for it.  There are no messages,
no persistence and no retries; what is hard is the order of the steps of a few threads
around small critical sections, and of polls around suspended bodies.

`PROJECT.json` lists each hazard with its line and the properties that watch it.

## 2. Modules and the code

| module | models | uses |
|---|---|---|
| `WaitQueue` | `Erase`: `std::remove` on the deque of waiters; waiters without duplicates | SequencesExt |
| `FifoLock` | abstract specification of a fair lock: an owner and a queue | |
| `Mutex` | mutex.cppm; implements `FifoLock` | WaitQueue, FifoLock |
| `SharedMutex` | shared_mutex.cppm | WaitQueue |
| `Awaitable` | abstract specification of an awaitable and its executor | |
| `SingleEvent` | single_event.cppm; implements `Awaitable` | Awaitable |
| `BlockOn` | block_on.cppm over a `single_event`: extends `SingleEvent` and puts the loop in the place of its abstract executor | SingleEvent |
| `Sleep` | sleep.cppm; implements `Awaitable` | Awaitable |
| `Wait` | wait_all.cppm and wait_first.cppm over children that keep the contract; implements `Awaitable` | Awaitable |
| `Coroutine` | task.cppm, stream.cppm, detail_promise.cppm, yield.cppm: nested frames with any bodies | |
| `StreamFunctions` | abstract: what each combinator and sink makes of whole sequences | SequencesExt, FiniteSetsExt |
| `StreamExamples` | stream.cc, pipelines.cc and the streams of generic.cc and reference.cc as pipelines; families of pipelines | StreamFunctions |
| `Streams` | `poll_next` or `poll` of every combinator, source and sink, composed into any of these pipelines | StreamExamples |
| `TaskExamples` | the examples of tasks as sequences of steps; families of such programs | |
| `Tasks` | block_on, task, wait_all, wait_first, both mutexes, the allocator's guards and the slab together, on one thread | TaskExamples |
| `InteropExamples` | the examples that cross into asio, cppcoro and C; families of such programs | |
| `Interop` | resumable.cppm and the adapters of the examples, with the event loop, its timers and the threads of operations | InteropExamples |
| `WaitQueueProofs`, `MutexProofs`, `SharedMutexProofs`, `AwaitableProofs` (of `SingleEvent`, `BlockOn` and `Sleep`), `WaitProofs`, `CoroutineProofs`, `InteropProofs`, `TasksProofs` | theorems and their lemmas (section 6) | TLAPS |

**Atomicity.**  A critical section is one action.  It is split where another
thread can look in between: in `mutex` and `shared_mutex`, the store of
`is_ready_` (which other threads read without `mtx_`) and the wake that follows
it under `mtx_` are two actions, and `mtx_` stays held between them, so
every other critical section is disabled.  Code outside locks is split at each
access to shared state: `poll` of a mutex is the unlocked look at `is_ready_`
(`PollFast`, `PollBegin`) and then the locked part; `deregister` is the
unlocked look (`CancelReady`, `CancelQueued`) and then `release` or
`remove_waiter`; `mark_ready` is the critical section (`Set`) and then the wake
(`SetWake`); `sleep`'s poll is the look at the clock (`PollCheck`) and then the
locked part (`PollStore`).  `Streams` and `Tasks` run on one thread: there a step is a poll of the whole
pipeline, or what a body does up to its next suspension, call or poll.

**Mutex.**  `locked`, `waiters`, `registered`, `isReady` are the fields of the same name, `pc`
says where each task is.  A task has one awaitable or guard at a time and
stands for its waiter object.  `woken` is the executor's view: it is set by a
`wake()` of the waker of its last poll and cleared when it polls.  An executor may poll with another waker than
before and then no longer listens to the old one, so what matters of `waiter_->waker_` (line 165) is of which poll it
is: `waker` says none, `last` or `older`; `StoreWaker` is the assignment that each poll makes under `mtx_`,
`CallWaker` the call of what is stored.  `Lock`, `TryLock`, `PollFast`,
`PollBegin`, `PollAcquire`, `PollRegister`, `PollPending`, `PollLateReady`,
`ReleaseHandoff`, `ReleaseFree`, `Wake`, `CancelUnregistered`, `CancelReady`,
`CancelQueued`, `RemoveWaiter` each name their lines.

**SharedMutex.**  The same vocabulary, `waker` included (lines 242 and 324).  `Wake` performs one round of
`wake_next`'s loop: it wakes `next` and either serves one more reader or
unlocks.  Two variables are history: `handed` (some release has served a waiter), and `behind`, which
keeps for each task that asks for a shared lock the writers that were in `waiters_` when it asked and have not been
popped or cancelled since.
`AddReader` and `RemoveReader` keep `readers_` a machine word.

**SingleEvent, Sleep.**  The executor is abstract: it may poll whenever it
likes and forgets earlier wakes before it does.  `Noop` is the default waker,
whose `wake()` has no function to call.

**BlockOn.**  `PollStart`, `PollSetWaker`, `PollResult` of `SingleEvent` are
driven by the loop; the setters' `SetWake` is `wake()`'s store of `notified`
and `NotifyAll` the call that follows after `wd.mutex` is dropped.

**Wait.**  The children are abstract: something each waits for `Happen`s on
some thread, it `Tell`s the waker it was last polled with, and a poll after the
result is recorded as `misused`.  Between two children of one poll anything may
happen.

**Coroutine.**  Frame `f + 1` is the one that frame `f` awaits (a task, by
`co_await`) or yields from (a stream, by `co_yield`).  A poll goes `down` from the outermost
frame to the innermost (`Descend`), asks what that one awaits (`PollLeaf`, `PollYield`,
`Runnable`), resumes its `body`, and returns through the `tail` of `poll()` of each frame to the one above
(`Answer`).  `at` is the suspension point, that is, `current_awaitable_poll` and
the awaited object in the frame; `exception`, `result` and `resumed` are what the code calls so.
The body is any choice of `BodyAwaits`, `BodyAwaitsYield`, `BodyCalls`,
`BodyYields`, `BodyReturns`, `BodyThrows`; each of them first runs
`await_resume`, which takes the exception out of the promise, and destroys the
awaited frame.  What a task returns is not told apart.
The awaited awaitable keeps the contract, and `Happen`s and `Tell`s in the middle of a poll too.
`thrown`, `caught`, `lost`, `yielded` and `out` are history.

**Streams.**  A stream is a record of what its object keeps (`op`, a counter, a flag, a buffer) and of the
streams it is `on`.  `PollNext` is the recursive `poll_next`: it gives the stream as it is afterwards, the answer,
and whether the waker was called.  A source is a script of values with two kinds of delay: `Held` keeps the
waker and calls it later (`Tell`), `Yields` calls it during the poll and returns pending, as
`yield` does.  `NextPolls`, `FoldPolls`, `LastPolls`, `NthPolls` and `SyncIterPolls` are the
consumers.  `StreamFunctions` says in one line per combinator what the whole output is, and an assumption of
`StreamExamples` checks that this is what each example announces in its comments and output.

**Tasks.**  A frame has a path for a name; `stack` is the C++ stack of the polls in progress, with the allocator
each guard restores; `phase` tells what the innermost does.  A body is a sequence of steps (`Lock`, `Yield`, `WaitAll`,
`Throw`, `Catch`, ...), and each kind of step is an action.  Destroying a frame destroys its children and its guards first
(`Leaves`, `Destroy`), with the releases this entails.  The slab's bitmaps are sets of bits in words, whose
unused bits `Words` counts as the code does.  Here the locks are those of `Mutex` and `SharedMutex` with one thread's
interleavings, under real bodies: what is checked is the composition.  `IsProgram` says what C++ asks of a body: it
polls and awaits only tasks that it has (`OwnsItsTasks`), and a slab is an object of the body that makes it, or of one
of its tasks, so that nobody outside is in it (`HasOneSlab`).

**Interop.**  `driver` is where the executor of each future is (`block_on`, `to_asio`, `to_resumable`, the event of
`future_container`, the C loop), `op` where the foreign operation it awaits is.  `set_result` is split at the lock: the result
(`SleepIsOver`), the waker under the lock (`ResultWakes`), the unlock (`ResultUnlocks`), and the rest of the
thread's way out of the coroutine (`ThreadLeaves`).  With `from_asio` the operation belongs to the loop's one thread, with
`to_pollable` it has its own.  The waker is called with the lock held.  If it resumes the driver, as that of
`to_resumable` does, the operation is `waking`: the driver runs on the stack of `set_result`, up to its next suspension
(`Schedule`); otherwise, and from then on, it is `woken`.  A poll that awaits an operation whose lock is taken has to wait.
`destroyed` is history: frames destroyed under their thread, and each `poll_awaiter` whose coroutine was resumed and has
left the co_await before `await_suspend` has stored its result in it.  `queue` holds the handlers posted to the loop, `main` and `step` are `asio_main`.

**Refinements.**  `ImplementsFifoLock` maps the mutex to (`owner`, `waiters`),
where the owner is the task with the guard, or the one that was served and does
not know it yet.  `IsAwaitable` maps `single_event`, `sleep` and `wait` to
(`phase`, `done`, `last waker`, `woken`); a poll that will certainly return
ready is `finishing` already.  `IsAnExecutor` says the converse of `BlockOn`:
its loop with the condition variable is an executor as `SingleEvent` and
`Awaitable` assume one.  Together: `block_on` of an awaitable that keeps the
contract returns when what it waits for has happened.

## 3. Runs: what is checked

| run | instance | result | what it shows |
|---|---|---|---|
| `mutex` | 4 tasks | pass | in every order of lock, try, poll, cancel and release that keeps `Undisturbed` (section 5): one owner, a consistent queue, no lock lost, no wake lost (with wakers that change from poll to poll), every request granted, a step-by-step FIFO lock |
| `mutex_lost_handoff` | 2 tasks, no restriction | violation | a release between the two halves of a cancellation loses the lock |
| `shared_mutex` | 3 tasks | pass | exclusion and counts until a waiter is first served; queue, order, readers behind the writers they found queued, and wakes (with wakers that change) always |
| `shared_two_writers` | 3 tasks | violation | a served waiter is not recorded: another writer enters |
| `single_event` | 2 setters, 2 wakers | pass | one result, quiet after cancellation, the contract (its wake included) holds |
| `block_on` | 3 setters | pass | the loop is a proper executor, it returns once the event is set |
| `sleep` | 1 waker, deadlines 0..4 | pass | no early end, quiet after reset, the contract (its wake included) holds |
| `wait` | 0..3 children, both forms | pass | results kept, nobody polled after its result, the contract holds |
| `coroutine` | 3 frames, 6 resumptions, yield(0..2) | pass | a pending poll has woken or left its waker; exceptions reach a body or the poll that asked, save those a stream swallows; values come out once, in order |
| `streams` | the examples, and all pipelines of section 4 | pass | each pipeline makes its sequence, waits only with a waker left behind, polls no stream past its end, and comes to an end |
| `interop` | the examples, and all tasks of up to 3 awaits under 5 drivers | pass | results arrive once, no handler or wake for a driver that is over, `get()` never blocks the loop, no poll waits for a lock that its own thread holds, every program ends |
| `tasks` | the examples, and the families of section 4 | pass | announced results in every order, blocks and allocators match the frames, locks match the guards, every program ends |

The deadlock check is on where a state without a step would be everyone waiting for everyone:
in the runs of the two mutexes, as long as tasks come and go there is always a
step, and in `interop` and `tasks` only a finished program stutters.  It is off in `single_event`,
`block_on`, `sleep`, `wait`, `coroutine` and `streams`: an awaitable that completed or was dropped, with its
setters done, or a stream that is done, has nothing left to do.

Each property of a passing run has a mutant: an operator beside the definition
it replaces, with the mistake named in its comment (a wake that is skipped, a
`push_front`, a guard dropped, a condition variable without its predicate),
under which the run finds the property violated.

Some families and definitions are in no run, because they do not hold; each is one edit of a cfg away.

| to see | add | to | ends in a counterexample to |
|---|---|---|---|
| a waiter is cancelled after it was served | `SomeoneWillServe` | SharedMutex.cfg, INVARIANTS | `SomeoneWillServe` |
| a setter's thread uses `wd` after the return | `NobodyUsesWd` | BlockOn.cfg, INVARIANTS | `NobodyUsesWd` |
| two wakers for one sleep | `w2` | Sleep.cfg, Wakers | `IsAwaitable` |
| a frame is destroyed under a thread, or a `poll_awaiter` under `await_suspend` | `FramesAtRest` | Interop.cfg, INVARIANTS | `FramesAtRest` |
| a task that ends with a yield under `to_resumable` | `"to_resumable of a yield"` | Interop.cfg, Families | `NothingStale` |
| operations of other threads under `to_asio` | `"to_asio from threads"` | Interop.cfg, Families | `NothingStale` |
| waiters queued in another order than awaited | `"fairness out of order"` | Tasks.cfg, Families | no deadlock, and to `Finishes` |
| a reader/writer lock under real bodies | `"readers and writers"` | Tasks.cfg, Families | `LocksMatchGuards` |

## 4. Bounds

- *Tasks of the locks.*  The mutex has three roles: the one that has the lock, the one it
  goes to, and one behind it; the fourth task lets a queue of two change in the
  middle while a handoff is in progress.  In `shared_mutex` three tasks give two readers and a
  writer, or a writer between two readers.  States are finite without further bounds, since a
  task has one awaitable at a time.
- *Word = 8* in `SharedMutex` (2^64 in the code) is more than the number
  of tasks, so a count that goes below zero is seen as such and one that does not never wraps.
- *Setters and wakers.*  Two setters are needed for a second `set()`; two
  wakers for an executor that changes its waker between polls.  Three setters
  in `block_on` bring in the third thread that finds the wait already ended.
- *Horizon* of `Sleep`.  The clock stops at `Horizon`, which bounds the deadlines.  Four ticks put the
  deadline before, between and after the two halves of two polls.
- *MaxChildren = 3*: a child before, at and after the one that is polled.
- *Depth = 3, MaxSteps = 6, MaxTurns = 2* in `Coroutine`: an outermost, a middle and an innermost frame.
  After `MaxSteps` resumptions a body that is resumed ends.  Six are enough to go
  down to the third frame, to yield, throw or catch there, and to start another frame afterwards.  Its theorems hold for any of them.
- *Streams.*  *MaxLength = 2*: sources of no, one or two values, each at once, after a `Held` or after a `Yields`
  delay, in all combinations, the end too; *MaxParameter = 2*: the counts of take, skip, nth and
  window below, at and above the length.  The families are every sink on every stage on such a source, every two stages,
  chain and zip of two sources, a stage behind them, and a stage in front of one.  Two stages are enough for each pair of
  combinators to meet; the examples bring longer ones.  *Horizon = 12*: an infinite source (`repeat`, `Count`) is cut off there in the reference functions,
  which is beyond what any pipeline takes of it, and *Word = 16* (2^64 in the code) is above it, so that the `n_ - 1` of
  nth(0) wraps to something no source reaches.
- *Interop.*  *MaxAwaits = 3*: each task of up to three awaits of a foreign operation, a call, or a `yield` of one or two
  turns, that returns or throws: each await first, last and between two others.  A task may await one operation at a time, so more awaits only repeat
  these; the theorems of `InteropProofs` hold for any number.  The examples have up to three futures.
- *Tasks.*  *MaxTasks = 3*: up to three tasks with each combination of delays of up to three polls; what a family
  varies is said beside it.  *BlockCount = 3, WordBits = 2*: the last word of a bitmap has a bit without a
  block, and three frames of a size exhaust it, so that `bad_alloc` comes in the middle of nested calls.  *MaxNesting = 8* is
deeper than the tasks of any of these programs call one another, and only limits how far `Bodies` looks for them.

## 5. Fairness and assumptions

- *Mutex* (`FairSpec`).  Strong fairness per task on: poll after a wake, an
  operation that began goes on, a guard is released.  An operation may find `mtx_` taken and
  then free again for ever, so weak fairness is not enough; that every thread gets `mtx_`
  eventually is what operating systems give in practice and what any
  progress claim about a std::mutex needs.  Nobody is obliged to lock, to
  try, or to cancel.
- *Undisturbed*.  The run `mutex`, and the theorems `HandoffKept` and `Refinement`,
  assume that no `release()` serves a waiter between the two halves of
  its own `deregister()`.  It holds when the tasks of one mutex share a thread, or
  when no pending awaitable is destroyed.  Without it the run `mutex_lost_handoff` shows
  what happens.  The other theorems about the mutex do not need it.
- *SingleEvent, BlockOn, Sleep, Wait*.  Weak fairness on the steps of threads
  that are inside an operation, on the executor polling again after a wake
  (`PollAgain`, an obligation in the sense of README.adoc:208, and kept by `block_on`'s loop, as
  the run `block_on` shows), on the clock and on the timer's callback.  Nothing obliges anyone
  to call `set()`, and a condition variable need not wake up spuriously.
- *Streams* (`FairSpec`).  Weak fairness on a source that holds a waker calling it, and on the consumer asking again when it
  is `Invited`: after a value, after a wake, or, for `sync_iter`, always, since it polls in a loop.  Every source
  of these pipelines ends or is cut off by a combinator; that is the assumption of `Finishes`.
- *Interop, Tasks* (`Spec`).  Weak fairness on the whole next-state relation: as long as some thread can take a step, some
  thread does.  Nothing is assumed about which one, and it is enough, since no program of these families can loop.
- `Coroutine` has safety properties only and no fairness.
- *Timer*.  Its clock does not go back and `register_callback` does not run the
  callback itself, nor before the deadline.
- *Programs of `Tasks`* (`ProgramsAssumption`).  Each body owns its tasks: a child is a local variable, from the call that
  makes it to the `co_await` that consumes it or to the handler before which it is destroyed.  After that its name is out of
  scope or stands for a task that was moved from.  The same holds of the slab, of which a program has at most one (as allocator.cc has
  in each of its functions).  A guard is of one of the two locks, and a guard of the mutex is for writing.  TLC evaluates the assumption on all programs of the run.
- *asio, cppcoro* are external: one thread runs the loop's handlers in the order they were posted; a timer posts the
  rest of its coroutine when it expires; a cppcoro operation completes on a thread of its own.
- *Memory*.  `is_ready_` is an atomic; the other
  fields are accessed under their lock.  Steps are interleaved, which is what sequentially
  consistent atomics and locks give.

## 6. Proofs

TLAPS proves the following for every value of the constants: any set of tasks, setters or wakers, finite or not, any
number of children, any depth, tasks of any length, a slab of any size.

| module | theorems | needs |
|---|---|---|
| `MutexProofs` | `TypeCorrect`, `Exclusion` (`MutualExclusion`), `Queue` (`QueueConsistent`), `Woken` (`NoLostWakeup`) | every interleaving |
| | `HandoffKept` (`NoLostHandoff`), `Refinement` (`ImplementsFifoLock`) | `CleanSpec`: undisturbed cancellations |
| `SharedMutexProofs` | `TypeCorrect`, `Queue` (`QueueConsistent`), `Woken` (`NoLostWakeup`), `ReadersQueueBehind` (`NewReadersQueueBehind`), `FirstServed` (`FirstComeFirstServed`) | every interleaving |
| | `SoundAtFirst` (`SoundUntilHandoff`) | finitely many tasks, fewer than `Word` |
| `AwaitableProofs` | `TypeCorrect`, `OneSetterDecides` (`OneResult`), `LosesNoWakeup` (`NoLostWakeup`), `NoWakerAfterDestruction` (`LaterSetFindsNoWaker`), `KeepsContract` | |
| | `LoopIsAnExecutor`, `LoopTypeCorrect`, `MissesNoNotify` (`NoMissedNotify`) | |
| | `SleepTypeCorrect`, `QuietAfterReset` (`NoWakeAfterReset` of `Sleep`), `SleepKeepsContract` | |
| | `SleepLosesNoWakeup` (`NoLostWakeup` of `Sleep`) | one waker |
| `WaitProofs` | `TypeCorrect`, `RegistersAll` (`AllRegistered`), `TakesOne` (`OneWinner`), `LosesNoResult` (`KeepsResults`), `PollsNoneAgain` (`NoRepoll`), `KeepsContract` | |
| `CoroutineProofs` | `TypeCorrect`, `WakesSomebody` (`NoLostWakeup`), `NoExceptionVanishes` (`ExceptionsArrive`), `EveryValueComesOut` (`ValuesInOrder`) | |
| `InteropProofs` | `TypeCorrect`, `NothingIsStale` (`NothingStale`), `GetNeverBlocks` (`GetDoesNotBlock`), `NeverLocksTwice` (`NoSelfDeadlock`), `ResultsAreAnnounced` (`ResultsAsAnnounced`) | `CompatibleFamilies`: the families of the run, which leave out the two whose driver and waker do not fit (section 7, 8 and 10) |
| `TasksProofs` | `Invariance`, `AllocatorsNest` (`FramesWhereTheyBelong`), `BlocksAreThoseOfFrames` (`BlocksMatchFrames`), `MutexIsThatOfItsGuards` (`MutexMatchesGuards`) | `ProgramsAssumption`: bodies that own their tasks, one slab, and guards of a lock's kinds (section 5) |
| | `LocksAreThoseOfGuards` (`LocksMatchGuards`) | also `[]~TakesUncounted`: no waiter that `shared_mutex` has served takes its guard (section 7, 2) |

*Mutex.*  `MutualExclusion` alone is not inductive: `ReleaseHandoff`
gives the lock to the head of `waiters`, and that is safe only if the head is a task that
waits, which is `QueueConsistent`; that in turn needs each waiter once
(so that `Tail` removes it altogether), and a ready waiter to have been
registered, or `PollRegister` could put an owner into the queue
(`ReadyRegistered`).  `IInv` is their conjunction with `TypeOK`.
The steps on the queue cite the lemmas of
`WaitQueueProofs`: what is in `Append`, `Tail` and `Erase` of a queue without
duplicates, and that each of these has no duplicates.  With `Undisturbed`, `HInv` adds that a task that is being removed is not
served, so `RemoveWaiter` never removes the owner, and `NoLostHandoff`
becomes inductive.  *Refinement* uses both: the abstract owner is the unique task that
`Owns`, and every action is one of `FifoLock`'s or a stutter.

*SharedMutex.*  The queue's invariant is that of the mutex with `next`, the waiter that `wake_next` is about to
wake.  `FirstServed` is about pairs of places in `waiters`: each operation keeps the order of those that
stay, which for `Erase` is a lemma of its own.
`Woken` needs that the stored waker is that of the last poll whenever a registered task is `pending` (`LastStored`): a poll stores it
before it can return pending, and between the unlocked look and that store the task is `slow`.  The mutex needs the same.
`ReadersQueueBehind` rests on an order in the queue that outlives single steps: a reader in `waiters` is not ahead of any writer of its
`behind`, and whoever has such a writer is neither ready nor a holder (`IsBehind`).  That a step of `wake_next` pops the head and no other
keeps this when readers are served, `Erase`'s order when somebody cancels; a reader that is not registered yet finds the writer in
`WriterWaiting` at each of its polls.  `SoundAtFirst` counts guards by the cardinality of the sets of holders, and
`% Word` is the identity because there are fewer tasks than `Word`.

*SingleEvent, BlockOn, Sleep.*  The invariants relate the stored waker to the last poll's: until the event is set
the stored one is that of the last poll (`StoredWhilePending`), so whoever sets the event copies the right one.  For the
sleep this fails between the look at the clock and the store, unless all polls bring the same waker: hence the
assumption.  `KeepsContract` is the step simulation behind `IsAwaitable`, without its fairness.  `LoopIsAnExecutor` maps each step of
`block_on` to one of `SingleEvent` or none, so the theorems about the event hold under the loop, and `MissesNoNotify` adds
the condition variable to them.

*Wait.*  A poll is a loop over the children: what the loop has passed has been polled (`PassedArePolled`) and, for `wait_first`, is still
pending (`FirstStops`).  Its refinement needs to know when a poll will certainly be ready, while children complete behind
and ahead of the loop.

*Coroutine.*  `Structure` says where frames can be: each exists iff the one before awaits it, the poll's path goes through
them, an ended body is the one about to return or the one just awaited, and at most one value waits in a promise.  On top of it
`WakesOnReturn` carries the wake-up from frame to frame, `ExceptionsCounted` and `ExceptionWhere` account for every exception
thrown, and `ValuesCounted` for every value.

*Interop.*  The theorems are about the programs of the run's families with any `MaxAwaits`.  `Compatible` says what these have in common, and is proved of
each family: under `to_asio` the operations belong to the loop and the script makes each driver once, under `to_resumable` the last poll of
a task does not wake, and what `asio_main` gets waits for nobody and was spawned before a timer.  `IInv` then has three parts.
`FutureInv`, for each future, relates where its driver, its poll, its operation and the waker stored there can be
at the same time: a task is over only after its last poll, whose operation is over too, and what stores a waker belongs to a driver that waits.  `QueueInv`
says that the loop's queue has no handler twice, and that each handler finds its driver and its operation where it expects them.  `AsioInv`, for
`to_asio`, says that the loop's one thread does one thing at a time (`OneAtATime`), which is why a wake during a poll can leave a note
in `wake_pending` instead of a handler, that a task that waits for nobody has always been woken (`HasWoken`), and that what was spawned
begins before `asio_main` goes on (`SpawnedBegins`), from which `get()` follows.

`NeverLocksTwice` is about the lock that `set_result` holds while it calls the waker.  `LockInv` says where the threads can be when a
poll comes to an operation whose lock is taken: a driver that the waker has resumed is on its way to `Schedule` and nowhere in a poll
(`InTurn`), and an operation of the loop's thread completes in a handler of its own, during which the loop polls nobody (`InOnePlace`).  A
`schedule` that went on polling, as the mutant does, would wait for ever for the lock under which it was resumed: without the invariant, TLC
then reports a deadlock.

`ResultsAreAnnounced` adds to this what has been computed: `SumInv` says that a task's sum is what the awaits it has passed give, each
once, where the await at which a task is suspended counts from the poll in which it is ready.  A task that is over has passed
all of them.  What a body gives (`GivenBy`) is a recursive function on its length.  That the function exists, and is what its equations say, is proved for a body of any
length (`GivenByFacts`) without an induction rule: if it did not exist for some length, there would be a least such length, and the function
for the one before, continued by one step, would be the one that is missing.

*Tasks.*  The theorems hold for every program that `IsProgram` admits, with any bodies, locks, exceptions, nesting and numbers of tasks and
blocks; nothing else is known of the families.  Neither `FramesWhereTheyBelong` nor `BlocksMatchFrames` is inductive.  That a guard gives the right allocator back when a poll returns needs to
know what the allocator was when the poll began, several suspensions of the same frames earlier.  `Guarded` therefore says it of every entry of the
stack at once: what it restores is the scope of the frame one below, and that scope is read off the path of the frame, not off
the history.  This rests on `Structure`: the polls in progress are those of one path (`Nesting`), the frames
are a tree (`Tree`), and a frame that is suspended has as children just those tasks its body owns at that step (`Owned`, with `Alive`), so that a
call makes a frame where there is none, and a poll finds one.  Frames that are destroyed are a subtree, or all below a frame (`Leaves`,
`Destroy`): the rest is again a tree, and no scope of it has changed.  For the slab, `BlocksTaken` says that the frames of a class have distinct
indices and that these are the taken bits; `Block` finds a free one because it is the minimum of a set that `bad_alloc` has shown not to be empty (the library's theorem on
well-founded relations, for `<` on the naturals).  That no frame outlives the slab is `SlabLives`: each frame is outside of the slab's reach, below the frame that
made it, that frame, or the one that calls it, and the slab goes with the frame that made it (`home`), whose
children are destroyed before it.  An exception must not come between the start of that body and its first step: `Failing`.  TLC has
checked `IInv` as an invariant of the run `tasks`.

For the locks the invariant is `LInv`, on top of `IInv`.  That the mutex is locked as long as it has a guard is not inductive: `release()` keeps it locked for the waiter it
pops, and a waiter that is destroyed passes that on.  `MutexOK` therefore says that the mutex is for one guard, for one waiter
that was served, or for nobody, that each frame is in the queue at most once, and that who is in the queue or was served is among `Waiting`: the frames whose
bodies stand at a `co_await` of the mutex and are not polled past it.  So a frame that leaves that step is nowhere in the mutex, and a frame that is
destroyed takes all that is of it with it.  `SharedOK` says that the readers are the number of read guards, and that a write guard is there iff `writer` is set.
`Settled` says both of the guards at the places of a set `G`, which need not be those of the frames as they are: while a subtree is
destroyed the frames are still there and their guards go one at a time.  `SettledRelease` and `SettledDeregister` take one guard, or one waiter, away.
`SettledReleaseAll` and `SettledLeaveAll` carry this over the folds with which `Tasks` destroys the guards of a frame and the frames of a subtree,
in whatever order they come, as the folds choose one: `FoldExists` shows that the recursive function
behind a fold exists, for any finite set, and `SetInduction` what it keeps, both by a smallest set without (`SmallestSet`).
A guard that is given up moves those behind it to other places; `SettledRenamed` says that this is no matter.

The mutex needs nothing more (`MutexIsThatOfItsGuards`).  For the `shared_mutex` the invariant holds until a served waiter takes its
guard without being counted, the bug of section 7, 2; `LocksAreThoseOfGuards` assumes that this step, `TakesUncounted`, is not taken, as
`SoundAtFirst` does for `SharedMutex`.  No program of the run `tasks` takes it (TLC has checked that, and `LInv(TRUE)`, as invariants of the run);
those of the family `"readers and writers"` do, and `LInv(FALSE)` is an invariant of them too.

Some theorems are about definitions that no run checks any more, since the proof covers them and the refinement in the run
implies the rest: `TypeOK` of `SingleEvent`, `Sleep`, `Wait` and `Coroutine`, that of `InteropProofs`, `LoopTypeOK`, `NoMissedNotify`,
`AllRegistered`, `OneWinner`, and `NoLostWakeup` of `SingleEvent` and `Sleep`.

Only model-checked: liveness and fairness (`LockGranted`, `Returns`, `Finishes`, the fairness in
`IsAwaitable` and `IsAnExecutor`), since the prover does not handle ENABLED; `OutcomesAsAnnounced` of `Tasks`, whose programs each compute something of
their own and have nothing in common from which their results would follow; and `Streams`.
`Streams` and `StreamFunctions` follow the recursion of the pipelines with RECURSIVE operators, which the prover
does not handle either; no other module declares one.

## 7. What the checks disagree with

The first two are runs that end in a counterexample.  The others are seen with one of the edits of section 3, or were met while
modelling; `PROJECT.json` ("findings") quotes the lines.

1. **mutex, `deregister`** (mutex.cppm:120-123).  `is_ready_` is read before `mtx_` is
   taken and not again under it.  A release in between gives the lock to a waiter
   that is gone.
2. **shared_mutex, fast path of `poll`** (237-239, 319-321).  A served waiter takes
   its guard without setting `writer_active_` or counting a reader.  A second writer, or
   a reader beside a writer, enters; `release_shared` takes the count below zero.  Likewise a reader that asks now passes a writer that
   was popped and has not been polled yet, against lines 350-351: `NewReadersQueueBehind` is about writers still in the queue.
   The invariant that does hold is therefore named `SoundUntilHandoff`.
3. **shared_mutex, `deregister`** (197-202, 279-284).  A waiter cancelled after it
   was served passes nothing on (`SomeoneWillServe`).
4. **block_on and single_event** (block_on.cppm:40, single_event.cppm:77).  The wake is
   outside the lock, so a thread may be about to use `wd` when `block_on` has returned (`NobodyUsesWd`).
5. **sleep with a new waker** (sleep.cppm:96).  The clock is read before the lock is
   taken: the callback may call the old waker just before the new one is stored.
6. **stream that throws** (stream.cppm:76-82).  `poll_next` never looks at the exception: the consumer is
   told that the stream is done.  `Coroutine` counts such exceptions as `lost`.
7. **nth** (nth.cppm:40).  A comment in README.adoc says that a loop over `nth(s, 2)` gives the 1st, 3rd, 5th
   elements; the code gives the 2nd, 4th, 6th, as `Expected` of `StreamFunctions` has it.
8. **to_resumable** (resumable.cppm:311-320).  Its waker resumes the coroutine even while the poll that wakes is running in
   `await_suspend`.  A `yield` wakes in the poll that is ready: the coroutine goes on twice.  Even when the poll is not ready, its state is
   stored in, and read from, a `poll_awaiter` that the resumed coroutine has destroyed (lines 307 and 319; `FramesAtRest`).
9. **to_pollable** (resumable.cppm:182-186, 36-41).  The adapter may be destroyed as soon as the result is visible, with the thread that
   delivered it still inside the frame (`FramesAtRest`).
10. **to_asio** (interop_asio.cc:250-258).  `polling` is a plain flag read by the thread that wakes; from another thread than the
    loop's a handler can be posted for an `op_state` that has been deleted.
11. **test_fairness** (mutex.cc:299-301).  "Poll each once to get them queued" does not queue them: the first poll ends at the
    `co_await`, before it polls the lock.
12. **asio_scheduler**, which README.adoc:675-685 describes, is in no file of the repository.

## 8. Not modelled

- `task::release()`, polls of a coroutine that has completed.
- `map` over an awaitable, a consumer that goes on
  after a stream is done (`take_while` would then pass on values unfiltered; `NoPollAfterDone` says only that no combinator or sink
  of the library asks again), and the syntax of composition (`operator|`); streams whose frames are in an allocator.
- A spurious return of the C program's `cnd_wait` (c_interop.c:45-46, which has no loop): `notified` is always set when it
  looks, since every await of its task wakes in its polls, so it never waits.
- `pending`, `ref`, `generic`: constants or plain forwarding.
- `block_on`'s busy loop for awaitables that never block: one thread, no shared state.
- A range given to `wait_first` that outlives the `block_on` whose waker its losers keep, and one whose size changes between polls.
- Wakers that poll inline under a mutex of the library (`release()`, `set_result()`): the drivers of `Interop` do
  not (`NoSelfDeadlock`), other executors could.  A timer that calls back inside `register_callback`.  A
  mutex awaited under `to_resumable`.
- The lifetime of the small allocator object that `allocate_in` may be given as a temporary, and an allocator per thread: the
  allocators of `Tasks` are names, on one thread.
- Exceptions of asio operations, a `to_pollable` whose operation is done before it suspends.
- Move construction: one owner takes the place of another, and the models name the owner, not the address.  void
  results, which differ in type only.
- `is_blocking`, `pollcoro.cppm` and the build files: no behaviour at run time.  There are no tests in the repository.
- Weak memory order, and the destruction of the mutex itself while awaitables point to it (the API asks the user not to).

## 9. Plan

Done: all modules of section 2, their runs and their theorems.  What a further step could take on, in this order:

1. `Coroutine` as an `Awaitable`: its refinement, with the fairness of the leaf, so that nested tasks can stand for the children of
   `Wait` and for the event of `BlockOn`.
2. `Wait` under `block_on`: the losers of `wait_first` over a range, which keep the
   waker of an executor that has returned.
3. `Mutex` with an executor that polls inside its waker, to say which executors may be used under `mtx_`.
4. The results of the programs of `Tasks`, family by family: a proof for any number of tasks that increment a counter under the mutex.

----------------------------- MODULE TaskExamples -----------------------------
(***************************************************************************)
(* The programs that Tasks.tla runs, as data: the examples of pollcoro     *)
(* that share mutexes, wait for several tasks, await awaitables of their   *)
(* own, choose an allocator and throw (src/examples/mutex.cc,              *)
(* wait_combinators.cc, custom_awaitable.cc, generic.cc, allocator.cc,     *)
(* fib.cc and exceptions.cc).  Where an example has numbers of its own     *)
(* choice they are parameters here.                                        *)
(*                                                                         *)
(* The body of a task is a sequence of steps.  What it learns, it appends  *)
(* to its results, which it returns unless it says otherwise.              *)
(***************************************************************************)
EXTENDS Integers, SequencesExt, FiniteSetsExt

\* co_await of a leaf: pending so many times, and loud if its last poll wakes.
Leaf(pending, loud, gives) ==
    [do |-> "leaf", pending |-> pending, loud |-> loud, gives |-> gives]
Yield == Leaf(0, TRUE, <<>>)
Ready(value) == Leaf(0, FALSE, <<value>>)

\* Locks: co_await of lock() and lock_shared(), the forms of try_lock, the end
\* of a guard.
Lock(lock) == [do |-> "lock", lock |-> lock, mode |-> "write"]
LockShared(lock) == [do |-> "lock", lock |-> lock, mode |-> "read"]
TryLock(lock) == [do |-> "try", lock |-> lock, mode |-> "write"]
TryLockShared(lock) == [do |-> "try", lock |-> lock, mode |-> "read"]
Unlock(lock) == [do |-> "unlock", lock |-> lock, mode |-> "write"]
UnlockShared(lock) == [do |-> "unlock", lock |-> lock, mode |-> "read"]

\* Shared variables.  Find returns what it finds, if it is not 0.
Load(key) == [do |-> "load", key |-> key]
StoreNext(key) == [do |-> "store next", key |-> key]
Set(key, value) == [do |-> "set", key |-> key, value |-> value]
Find(key) == [do |-> "find", key |-> key]
\* What the program prints on the way.
Say(value) == [do |-> "say", value |-> value]

Learn(value) == [do |-> "learn", value |-> value]
Sum == [do |-> "sum"]
Return(value) == [do |-> "return", value |-> value]
ReturnResults == [do |-> "return results"]

\* throw, and the handler of a try block that is all of the body before it.
Throw == [do |-> "throw"]
Catch == [do |-> "catch"]

\* The call of a task function with its allocator, "none" without allocate_in,
\* and the size class of its frame.  Bare is an awaitable that is no task.
TaskIn(scope, size, body) == [scope |-> scope, size |-> size, body |-> body, bare |-> FALSE]
Task(body) == TaskIn("none", "small", body)
Bare(leaf) == [scope |-> "none", size |-> "small", body |-> <<leaf>>, bare |-> TRUE]

Spawn(child, task) == [do |-> "spawn", child |-> child, task |-> task]
PollOnce(child) == [do |-> "poll", child |-> child]
Join(children, for) == [do |-> "join", children |-> children, for |-> for]
AwaitChild(child) == Join(<<child>>, "all")
MakeSlab == [do |-> "slab"]

WaitFor(tasks, for) ==
    [i \in DOMAIN tasks |-> Spawn(i, tasks[i])]
        \o <<Join([i \in DOMAIN tasks |-> i], for)>>
WaitAll(tasks) == WaitFor(tasks, "all")
WaitFirst(tasks) == WaitFor(tasks, "first")
Await(task) == WaitAll(<<task>>)

Times(n, steps) == FlattenSeq([i \in 1..n |-> steps])
Each(n, F(_)) == FlattenSeq([i \in 1..n |-> F(i)])

\* A program may end with the results announced, and with bad_alloc if mayFail.
Program(body, announced) == [body |-> body, announced |-> announced, mayFail |-> FALSE]

------------------------------------------------------------------------------
(* mutex.cc                                                                *)

increment_counter(times) ==
    Times(times, <<Lock("mutex"), Load("counter"), Yield, StoreNext("counter"),
                   Unlock("mutex")>>) \o <<Return(<<>>)>>

test_basic_mutex(times) ==
    Program(WaitAll([i \in DOMAIN times |-> Task(increment_counter(times[i]))])
                \o <<Load("counter")>>,
            {<<FoldSeq(+, 0, times)>>})

test_try_lock ==
    Program(<<TryLock("mutex"), TryLock("mutex"), Unlock("mutex"), TryLock("mutex")>>,
            {<<1, 0, 1>>})

test_early_unlock ==
    Program(<<Lock("mutex"), Yield, Unlock("mutex"), Yield>>, {<<>>})

reader == <<LockShared("shared_mutex"), Load("data"), Yield>>
writer(value) == <<Lock("shared_mutex"), Yield, Set("data", value)>>

test_shared_mutex(before, after) ==
    Program(WaitAll([i \in 1..before |-> Task(reader)]) \o Await(Task(writer(1)))
                \o WaitAll([i \in 1..after |-> Task(reader)]),
            {[i \in 1..(before + after) |-> IF i <= before THEN 0 ELSE 1]})

test_shared_mutex_try_lock ==
    Program(<<TryLockShared("shared_mutex"), TryLockShared("shared_mutex"),
              TryLock("shared_mutex"), UnlockShared("shared_mutex"),
              UnlockShared("shared_mutex"), TryLock("shared_mutex"),
              TryLockShared("shared_mutex")>>,
            {<<1, 1, 0, 1, 0>>})

get(key) == <<LockShared("shared_mutex"), Find(key), Return(<<0>>)>>
set(key, value) == <<Lock("shared_mutex"), Set(key, value)>>
cache_reader(key) == Await(Task(get(key)))

\* Mutant of get_or_compute: no second look at the data.
get_or_compute_unchecked(key, default_value) ==
    <<LockShared("shared_mutex"), Find(key), UnlockShared("shared_mutex"),
      Lock("shared_mutex"), Set(key, default_value), Return(<<default_value>>)>>

get_or_compute(key, default_value) ==
    <<LockShared("shared_mutex"), Find(key), UnlockShared("shared_mutex"),
      Lock("shared_mutex"), Find(key), Set(key, default_value),
      Return(<<default_value>>)>>

test_cache ==
    Program(Await(Task(set("a", 1))) \o Await(Task(set("b", 2))) \o Await(Task(set("c", 3)))
                \o WaitAll([i \in 1..4 |-> Task(cache_reader(<<"a", "b", "c", "d">>[i]))])
                \o Await(Task(get_or_compute("d", 42)))
                \o Await(Task(get_or_compute("d", 99))),
            {<<1, 2, 3, 0, 42, 42>>})

waiter(id) == <<Lock("mutex"), Say(id), Yield>>

\* The waiters are polled in the given order while the lock is held, and then
\* awaited.  A first poll only brings a waiter to its co_await: it is queued by
\* the second.
test_fairness(waiters, polled, awaiting, announced) ==
    Program(<<Lock("mutex")>>
                \o [i \in 1..waiters |-> Spawn(i, Task(waiter(i)))]
                \o [i \in DOMAIN polled |-> PollOnce(polled[i])]
                \o <<Unlock("mutex")>> \o awaiting,
            {announced})
OneAfterTheOther(order) == [i \in DOMAIN order |-> AwaitChild(order[i])]
AllAtOnce(waiters) == <<Join([i \in 1..waiters |-> i], "all")>>

------------------------------------------------------------------------------
(* wait_combinators.cc                                                     *)

delayed_value(value, delay) == Times(delay, <<Yield>>) \o <<Return(<<value>>)>>
delayed_void(delay) == Times(delay, <<Yield>>)

Delayed(values, delays) ==
    [i \in DOMAIN values |-> Task(delayed_value(values[i], delays[i]))]

test_wait_all(values, delays) == Program(WaitAll(Delayed(values, delays)), {values})

test_wait_all_void(delays) ==
    Program(WaitAll([i \in DOMAIN delays |-> Task(delayed_void(delays[i]))]), {<<>>})

test_wait_all_mixed == test_wait_all(<<42, 5>>, <<2, 1>>)

\* The first of the fastest, with its index from 0.
test_wait_first(values, delays) ==
    LET fastest == Min({i \in DOMAIN delays :
                            \A j \in DOMAIN delays : delays[i] <= delays[j]})
    IN  Program(WaitFirst(Delayed(values, delays)), {<<values[fastest], fastest - 1>>})

slow_operation(polls) == delayed_value(42, polls)
timeout_marker(timeout_polls) == delayed_value(-1, timeout_polls)

test_timeout_pattern(polls, timeout_polls) ==
    Program(WaitFirst(<<Task(slow_operation(polls)), Task(timeout_marker(timeout_polls))>>),
            {IF polls <= timeout_polls THEN <<42, 0>> ELSE <<-1, 1>>})

compute_partial(start, count) ==
    Each(count, LAMBDA i : <<Learn(start + i - 1), Yield>>) \o <<Sum>>

test_parallel_computation(parts, count) ==
    LET last == parts * count - 1 IN
    Program(WaitAll([i \in 1..parts |-> Task(compute_partial((i - 1) * count, count))])
                \o <<Sum>>,
            {<<(last * (last + 1)) \div 2>>})

------------------------------------------------------------------------------
(* custom_awaitable.cc and the tasks of generic.cc                         *)

add(a, b) == Ready(a + b)
countdown(start) == Leaf(start, FALSE, <<0>>)
double_result(inner) == [inner EXCEPT !.gives = [i \in DOMAIN @ |-> @[i] * 2]]
\* It is ready at the attempt that succeeds or is the last.
retry_operation(max_attempts, succeed_on) ==
    Leaf(Min({max_attempts, succeed_on}) - 1, FALSE,
         <<IF succeed_on <= max_attempts THEN 1 ELSE 0>>)

test_simple_awaitable == Program(<<add(10, 20), Ready(42), Ready((5 + 5) * 10)>>, {<<30, 42, 100>>})
test_stateful_awaitable(start) == Program(<<countdown(start)>>, {<<0>>})
test_wrapper_awaitable ==
    Program(<<double_result(add(10, 5)), double_result(Ready(21))>>, {<<30, 42>>})
test_retry_awaitable(max_attempts, succeed_on) ==
    Program(<<retry_operation(max_attempts, succeed_on)>>,
            {<<IF succeed_on <= max_attempts THEN 1 ELSE 0>>})
test_concurrent_custom ==
    Program(WaitAll(<<Bare(add(1, 2)), Bare(add(3, 4)), Bare(double_result(add(5, 5)))>>),
            {<<3, 7, 20>>})

compute_task(x) == <<Return(<<x * 2>>)>>
test_generic_awaitable ==
    Program(Await(Task(compute_task(10))) \o <<Ready(42), Ready(5 * 10)>>, {<<20, 42, 50>>})

------------------------------------------------------------------------------
(* modules.cc, reference.cc and map.cc.  ref() forwards each poll, and the *)
(* event of MyClass is set before it is polled.                            *)

async_add(a, b) == <<Return(<<a + b>>)>>
modules_main == Program(async_add(10, 20), {<<30>>})
test_reference == Program(async_add(10, 20), {<<30>>})
test_reference_rvalue == Program(async_add(10, 20), {<<30>>})

MyClass_test == double_result(Ready(42))
workaround_functor == Program(<<MyClass_test>>, {<<84>>})

------------------------------------------------------------------------------
(* allocator.cc                                                            *)

test2 == <<>>
yield(size) == Await(TaskIn("none", size, test2)) \o <<Yield>>
test(size) ==
    <<MakeSlab>> \o Await(TaskIn("slab", "small", yield(size))) \o Await(Task(yield(size)))
square(times, size) == Times(times, Await(TaskIn("default", "small", yield(size))))

allocator_main(times, size) ==
    Program(WaitAll(<<Task(test(size)), Task(square(times, size))>>), {<<>>})

------------------------------------------------------------------------------
(* fib.cc and exceptions.cc                                                *)

async_fibonacci[n \in Nat] ==
    IF n <= 1 THEN <<Return(<<n>>)>>
    ELSE WaitAll(<<Task(async_fibonacci[n - 1]), Task(async_fibonacci[n - 2])>>) \o <<Sum>>

fib_main(n) ==
    LET fib[k \in 0..n] == IF k <= 1 THEN k ELSE fib[k - 1] + fib[k - 2]
    IN  Program(Await(Task(async_fibonacci[n])), {<<fib[n]>>})

async_divide(a, b) == IF b = 0 THEN <<Throw>> ELSE <<Return(<<a \div b>>)>>
do_work(b) == Await(Task(async_divide(10, b))) \o <<ReturnResults, Catch, Say(1), Throw>>
catch_exception(b) ==
    Await(Task(do_work(b))) \o <<ReturnResults, Catch, Say(2), Return(<<0>>)>>
exceptions_main(b) ==
    Program(Await(Task(catch_exception(b))), {IF b = 0 THEN <<0, 1, 2>> ELSE <<10 \div b>>})

------------------------------------------------------------------------------
(* The programs by family.                                                 *)

ExamplePrograms ==
    {test_basic_mutex(<<3, 3, 3>>), test_try_lock, test_early_unlock,
     test_shared_mutex(3, 2), test_shared_mutex_try_lock, test_cache,
     test_fairness(3, <<1, 2, 3>>, OneAfterTheOther(<<1, 2, 3>>), <<1, 2, 3>>),
     test_wait_all(<<10, 20, 30>>, <<3, 1, 2>>), test_wait_all_void(<<3, 1, 2>>),
     test_wait_all_mixed, test_wait_all(<<0, 10, 20, 30, 40>>, <<0, 1, 2, 3, 4>>),
     test_wait_first(<<10, 20, 30>>, <<5, 1, 3>>),
     test_wait_first(<<100, 200, 300, 400>>, <<10, 5, 1, 8>>),
     test_timeout_pattern(100, 10), test_parallel_computation(4, 25),
     test_simple_awaitable, test_stateful_awaitable(5), test_wrapper_awaitable,
     test_retry_awaitable(5, 3), test_concurrent_custom, test_generic_awaitable,
     modules_main, test_reference, test_reference_rvalue, workaround_functor,
     allocator_main(5, "small"), allocator_main(5, "medium"), fib_main(5),
     exceptions_main(0), exceptions_main(2)}

\* So many tasks, at most, as there are delays to give them.
Delays(n) == UNION {[1..k -> 0..n] : k \in 1..n}
Orders(n) == SetToSeqs(1..n)
After(delay, body) == Times(delay, <<Yield>>) \o body

\* A task that increments the counter twice, and is given up after a delay: at
\* once, or only after it has been polled once more.
GivenUp(delay, atOnce) ==
    LET worker == Task(increment_counter(2))
        timeout == Task(delayed_void(delay))
    IN  Task(WaitFirst(IF atOnce THEN <<timeout, worker>> ELSE <<worker, timeout>>)
                 \o <<Return(<<>>)>>)

\* Frames in the slab, the default allocator or wherever they come to be.
Scopes == {"none", "slab", "default"}
Nested(n) ==
    {TaskIn(scope, "small", FlattenSeq([i \in DOMAIN scopes |->
                Await(TaskIn(scopes[i], "small", <<Yield>>))])) :
     scope \in Scopes, scopes \in BoundedSeq(Scopes, n)}

Family(name, n) ==
    CASE name = "examples" -> ExamplePrograms
      [] name = "counter" -> {test_basic_mutex(times) : times \in Delays(n)}
      [] name = "fairness" ->
            UNION {{test_fairness(n, first, OneAfterTheOther(second), second),
                    test_fairness(n, first, AllAtOnce(n), [i \in 1..n |-> i]),
                    test_fairness(n, first \o second, OneAfterTheOther(second), second),
                    test_fairness(n, first \o second, AllAtOnce(n), second)} :
                   first \in Orders(n), second \in Orders(n)}
      [] name = "fairness out of order" ->
            UNION {{test_fairness(n, first \o second, OneAfterTheOther(third), third)} :
                   first \in Orders(n), second \in Orders(n), third \in Orders(n)}
      [] name = "readers and writers" ->
            {Program(WaitAll([i \in DOMAIN delays |->
                        Task(After(delays[i], IF i = 1 THEN writer(1) ELSE reader))]),
                     {results : results \in UNION {[1..k -> 0..1] : k \in 0..n}}) :
             delays \in Delays(n)}
      [] name = "combinators" ->
            UNION {{test_wait_all(delays, delays), test_wait_first([i \in DOMAIN delays |-> i],
                                                                   delays)} :
                   delays \in Delays(n)}
      [] name = "timeout" ->
            {test_timeout_pattern(polls, timeout) : polls \in 0..n, timeout \in 0..n}
                \cup {test_retry_awaitable(max, succeed) : max \in 1..n, succeed \in 0..(n + 1)}
                \cup {test_stateful_awaitable(start) : start \in 0..n}
      [] name = "cache" ->
            {Program(WaitAll([i \in DOMAIN delays |->
                        Task(After(delays[i], get_or_compute("d", i)))]),
                     {[i \in DOMAIN delays |-> value] : value \in DOMAIN delays}) :
             delays \in Delays(n)}
      [] name = "cancellation" ->
            {Program(WaitAll(<<GivenUp(first, atOnce), GivenUp(second, atOnce),
                               Task(increment_counter(1))>>) \o <<Load("counter")>>,
                     {<<count>> : count \in 1..5}) :
             first \in 0..(3 * n), second \in 0..(3 * n), atOnce \in BOOLEAN}
      [] name = "exceptions" ->
            {Program(WaitAll([i \in DOMAIN delays |->
                        Task(After(delays[i], IF i = 1 THEN <<Lock("mutex"), Yield, Throw>>
                                                       ELSE increment_counter(1)))])
                         \o <<Catch, Lock("mutex"), Load("counter")>>,
                     {<<count>> : count \in 0..(n - 1)}) :
             delays \in Delays(n)}
      [] name = "allocators" ->
            {[body |-> <<MakeSlab>> \o WaitFor(<<one, two>>, for), announced |-> {<<>>, <<0>>, <<1>>},
              mayFail |-> TRUE] :
             one \in Nested(n - 1), two \in Nested(n - 1), for \in {"all", "first"}}
==============================================================================

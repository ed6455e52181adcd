--------------------------- MODULE InteropExamples ----------------------------
(***************************************************************************)
(* The programs that Interop.tla runs, as data: the examples of pollcoro   *)
(* that cross into another library or language (src/examples/              *)
(* interop_asio.cc, interop_cppcoro.cc, c_interop.c and                    *)
(* cxx_cppcoro_interop.cc), and small tasks of every shape.                *)
(*                                                                         *)
(* The body of a task is the sequence of its co_awaits.  An await gives    *)
(* what the task adds to its result when it is over.                       *)
(***************************************************************************)
EXTENDS Integers, SequencesExt

Yield(n, gives) == [on |-> "yield", polls |-> n, gives |-> gives]
Foreign(gives) == [on |-> "foreign", polls |-> 0, gives |-> gives]
\* co_await of another task: its own awaits follow.
Call == [on |-> "call", polls |-> 0, gives |-> 0]

\* The steps of asio_main: co_await of a timer, co_await to_asio(task f), the
\* co_spawn of a coroutine that does so, and get() on its future.
Timer == [do |-> "timer", future |-> 0]
ToAsio(f) == [do |-> "await", future |-> f]
Spawn(f) == [do |-> "spawn", future |-> f]
Get(f) == [do |-> "get", future |-> f]

\* The program's result is times * (what its tasks give) + plus, and announced
\* is what it should be.
Program(driver, adapter, bodies, script, times, plus, announced) ==
    [driver |-> driver, adapter |-> adapter, bodies |-> bodies, script |-> script,
     times |-> times, plus |-> plus, announced |-> announced, throws |-> FALSE]
Throwing(program) == [program EXCEPT !.throws = TRUE]

------------------------------------------------------------------------------
(* interop_asio.cc.  The results are those of the comments in its lines    *)
(* 395, 470, 516, 558, 681 and 735, or can be read off the code.           *)

poll_with_yields(count) == [i \in 1..count |-> Yield(1, 0)]

example_pollcoro_uses_asio ==
    Program("block_on", "from_asio", <<<<Foreign(0), Foreign(21)>>>>, <<>>, 2, 0, 42)

example_asio_uses_pollcoro ==
    Program("to_asio", "from_asio", <<poll_with_yields(3)>>, <<ToAsio(1)>>, 0, 100, 100)

example_nested_interop ==
    Program("to_asio", "from_asio", <<<<Foreign(21)>>>>, <<ToAsio(1)>>, 2, 0, 42)

example_asio_timer_with_pollcoro ==
    Program("to_asio", "from_asio", [i \in 1..3 |-> <<Yield(1, i * 10)>>],
            <<Timer, ToAsio(1), Timer, ToAsio(2), Timer, ToAsio(3)>>, 1, 0, 60)

example_pollcoro_returning_values ==
    Program("to_asio", "from_asio", <<[i \in 1..5 |-> Yield(1, i)]>>,
            <<ToAsio(1)>>, 2, 0, 30)

example_concurrent_pollcoro_in_asio ==
    Program("to_asio", "from_asio",
            [id \in 1..3 |-> <<Yield(1, 0), Yield(1, 0), Yield(1, id * 100)>>],
            <<Spawn(1), Spawn(2), Spawn(3), Timer, Get(1), Get(2), Get(3)>>, 1, 0, 600)

example_from_asio_chaining ==
    Program("block_on", "from_asio",
            <<<<Foreign(10), Yield(1, 0), Foreign(20), Yield(1, 0),
                Foreign(30), Yield(1, 0)>>>>, <<>>, 1, 0, 60)

example_full_bidirectional ==
    Program("to_asio", "from_asio", <<<<Foreign(100), Yield(1, 11)>>>>,
            <<ToAsio(1)>>, 1, 0, 111)

------------------------------------------------------------------------------
(* interop_cppcoro.cc, with the results of its lines 203 and 235.          *)

poll_using_cppcoro(value) == <<Foreign(value)>>

poll_chain_cppcoro ==
    <<Call>> \o poll_using_cppcoro(10) \o <<Call>> \o poll_using_cppcoro(20)

cppcoro_compute(x) == Foreign(x * 2)

example_basic_pollcoro ==
    Program("block_on", "to_pollable", <<poll_with_yields(3)>>, <<>>, 1, 0, 0)

example_pollcoro_uses_cppcoro ==
    Program("block_on", "to_pollable", <<poll_using_cppcoro(42)>>, <<>>, 1, 0, 42)

example_cppcoro_drives_pollcoro ==
    Program("to_resumable", "to_pollable", <<poll_chain_cppcoro>>, <<>>, 1, 0, 30)

example_error_handling ==
    Throwing(Program("block_on", "to_pollable", <<<<Yield(1, 0)>>>>, <<>>, 1, 0, 0))

example_chained_cppcoro ==
    Program("block_on", "to_pollable",
            <<<<cppcoro_compute(5), cppcoro_compute(10)>>>>, <<>>, 1, 0, 30)

example_mixed_operations ==
    Program("block_on", "to_pollable",
            <<<<Yield(1, 0), Foreign(10), Yield(1, 0), Foreign(20),
                Yield(1, 0), Foreign(30)>>>>, <<>>, 1, 0, 60)

------------------------------------------------------------------------------
(* The C API has one future, a task with one await that is ready at its    *)
(* tenth poll.                                                             *)
task == <<Yield(10, 0)>>

c_main == Program("c_main", "none", <<task>>, <<>>, 1, 0, 0)

async_main == Program("future_container", "none", <<task>>, <<>>, 1, 0, 0)

------------------------------------------------------------------------------
(* The programs by family.  Those of the other families than "examples"    *)
(* run every task of up to n awaits, whose i-th gives i * i, under one     *)
(* driver and one kind of foreign operation.                               *)

ExamplePrograms ==
    {example_pollcoro_uses_asio, example_asio_uses_pollcoro, example_nested_interop,
     example_asio_timer_with_pollcoro, example_pollcoro_returning_values,
     example_concurrent_pollcoro_in_asio, example_from_asio_chaining,
     example_full_bidirectional, example_basic_pollcoro,
     example_pollcoro_uses_cppcoro, example_cppcoro_drives_pollcoro,
     example_error_handling, example_chained_cppcoro, example_mixed_operations,
     c_main, async_main}

Bodies(n, kinds) ==
    {[i \in DOMAIN body |->
         CASE body[i] = "call" -> Call
           [] body[i] = "foreign" -> Foreign(i * i)
           [] body[i] = "yield" -> Yield(1, i * i)
           [] body[i] = "yield twice" -> Yield(2, i * i)] :
     body \in BoundedSeq(kinds, n)}

\* What the first awaits of a body give together, and what all of them do.
GivenBy(body) ==
    LET total[k \in 0..Len(body)] == IF k = 0 THEN 0 ELSE total[k - 1] + body[k].gives
    IN  total
Given(body) == GivenBy(body)[Len(body)]

\* Each task twice, to return after its last await and to throw.
Running(driver, adapter, script, bodies) ==
    LET Returning == {Program(driver, adapter, <<body>>, script, 1, 0, Given(body)) :
                      body \in bodies}
    IN  Returning \cup {Throwing(p) : p \in Returning}

Yields == {"yield", "yield twice"}
Awaits == Yields \cup {"foreign", "call"}
WakesAtTheEnd(body) == body # <<>> /\ body[Len(body)].on = "yield"

Family(name, n) ==
    CASE name = "examples" -> ExamplePrograms
      [] name = "block_on" ->
            UNION {Running("block_on", adapter, <<>>, Bodies(n, Awaits)) :
                   adapter \in {"from_asio", "to_pollable"}}
      [] name = "to_asio" ->
            Running("to_asio", "from_asio", <<ToAsio(1)>>, Bodies(n, Awaits))
      [] name = "to_asio from threads" ->
            Running("to_asio", "to_pollable", <<ToAsio(1)>>, Bodies(n, Awaits))
      [] name = "to_resumable" ->
            Running("to_resumable", "to_pollable", <<>>,
                    {body \in Bodies(n, Awaits) : ~WakesAtTheEnd(body)})
      [] name = "to_resumable of a yield" ->
            Running("to_resumable", "to_pollable", <<>>,
                    {body \in Bodies(n, Awaits) : WakesAtTheEnd(body)})
      [] name = "future_container" ->
            Running("future_container", "to_pollable", <<>>, Bodies(n, Awaits))
      [] name = "c_main" ->
            Running("c_main", "none", <<>>,
                    {body \in Bodies(n, Yields \cup {"call"}) : WakesAtTheEnd(body)})
==============================================================================

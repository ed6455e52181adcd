---------------------------- MODULE StreamExamples -----------------------------
(***************************************************************************)
(* The programs that Streams.tla runs: those of src/examples/stream.cc,    *)
(* pipelines.cc, generic.cc and reference.cc, with what their source       *)
(* announces, and all short pipelines over sources that are pending in     *)
(* every way.  Numbers that are formatted as text stay numbers.            *)
(***************************************************************************)
EXTENDS StreamFunctions

Program(stream, sink, announced) ==
    [stream |-> stream, sink |-> sink, announced |-> announced]

Next1 == Sink("next", 0, "")
Listed(s) == [i \in DOMAIN s |-> <<s[i]>>]
Lists(stream, numbers) == Program(stream, Next1, Listed(numbers))

------------------------------------------------------------------------------
(* The stream coroutines of stream.cc and generic.cc.                      *)

\* The first thirty of an endless stream.
fibonacci ==
    LET fib[i \in 1..30] == IF i <= 2 THEN 1 ELSE fib[i - 1] + fib[i - 2]
    IN  Iter(fib)

async_counter(count) ==
    Script(FlattenSeq([i \in 1..count |-> <<Yields, Loudly(<<i - 1>>)>>]))

make_range(start, end) == Iter([i \in 1..(end - start) |-> start + i - 1])
repeat_n(value) == Repeat(value)

\* co_yield of a stream suspends before it polls it.
combined_ranges ==
    LET from(s) == <<Yields>> \o s.script IN
    Script(Iter(<<100>>).script \o from(make_range(0, 3))
        \o Iter(<<200>>).script \o from(make_range(10, 13))
        \o Iter(<<300>>).script \o from(Iter(<<13, 14, 15>>)))

counter_stream(count) == make_range(0, count)

\* generic() and ref() forward each poll.
create_stream(type, param) ==
    CASE type = "Counter" -> counter_stream(param)
      [] type = "Range" -> Range2(0, param)
      [] type = "Repeat" -> Take(Repeat(param), 5)

------------------------------------------------------------------------------
(* stream.cc                                                               *)

test_fibonacci ==
    Lists(Take(SkipBelow(fibonacci, 100), 10),
          <<144, 233, 377, 610, 987, 1597, 2584, 4181, 6765, 10946>>)
test_async_counter == Lists(async_counter(5), <<0, 1, 2, 3, 4>>)
test_yield_from ==
    Lists(combined_ranges, <<100, 0, 1, 2, 200, 10, 11, 12, 300, 13, 14, 15>>)
test_chain ==
    Lists(Map(Chain(<<Take(fibonacci, 3), async_counter(5)>>), "times", 2),
          <<2, 2, 4, 0, 2, 4, 6, 8>>)
test_flatten ==
    Lists(Flatten(Map(async_counter(5), "repeated", 0)), <<1, 2, 2, 3, 3, 3, 4, 4, 4, 4>>)
test_zip ==
    Program(Take(ZipOf(<<async_counter(5), async_counter(5), Count>>), 3), Next1,
            <<<<0, 0, 0>>, <<1, 1, 1>>, <<2, 2, 2>>>>)
test_last == Program(async_counter(5), Sink("last", 0, ""), <<<<4>>>>)
test_nth ==
    {Program(async_counter(5), Sink("nth", 3, ""), <<<<2>>>>),
     Program(async_counter(10), Sink("nth", 2, ""), Listed(<<1, 3, 5, 7, 9>>))}
test_window ==
    Program(Window(async_counter(9), 3), Next1, <<<<0, 1, 2>>, <<3, 4, 5>>, <<6, 7, 8>>>>)
test_fold(count) ==
    Program(async_counter(count), Sink("fold", 50, "sum below"), <<<<55>>>>)
test_range_repeat ==
    {Lists(Range2(0, 5), <<0, 1, 2, 3, 4>>), Lists(Range2(5, 10), <<5, 6, 7, 8, 9>>),
     Lists(Take(Repeat(42), 5), <<42, 42, 42, 42, 42>>)}
test_take_while == Lists(TakeBelow(Range2(0, 10), 5), <<0, 1, 2, 3, 4>>)
test_iter ==
    {Lists(Iter(s), s) : s \in {<<10, 20, 30, 40, 50>>, <<1, 2, 3, 4, 5>>}}
test_sync_iter ==
    Program(Range2(0, 5), Sink("sync_iter", 0, ""), Listed(<<0, 1, 2, 3, 4>>))

------------------------------------------------------------------------------
(* pipelines.cc                                                            *)

test_zero_cost_pipeline ==
    Program(Take(Skip(Map(Range2(1, 100), "square", 0), 5), 10), Sink("sync_iter", 0, ""),
            Listed(<<36, 49, 64, 81, 100, 121, 144, 169, 196, 225>>))
test_fold_pipeline ==
    Program(Map(Range2(1, 11), "square", 0), Sink("fold", 0, "sum"), <<<<385>>>>)
\* The squares of the distances.
test_type_transform_pipeline ==
    Program(TakeBelow(Map(Map(Range2(0, 10), "point", 0), "distance", 0), 225),
            Sink("sync_iter", 0, ""), Listed(<<0, 5, 20, 45, 80, 125, 180>>))
test_moving_average ==
    Lists(Map(Window(Range2(1, 10), 3), "average", 0), <<2, 5, 8>>)
\* Words are numbers.
test_indexed_pipeline ==
    Program(Map(ZipOf(<<Iter(<<10, 20, 30, 40, 50>>), Count>>), "reverse", 0), Next1,
            <<<<0, 10>>, <<1, 20>>, <<2, 30>>, <<3, 40>>, <<4, 50>>>>)
test_flatten_pipeline ==
    Lists(Flatten(Map(Range2(1, 5), "repeated", 0)), <<1, 2, 2, 3, 3, 3, 4, 4, 4, 4>>)
test_chain_pipeline ==
    Lists(Chain(<<Range2(1, 4), Take(Repeat(0), 2), Range2(10, 13)>>),
          <<1, 2, 3, 0, 0, 10, 11, 12>>)
test_filter_pipeline ==
    Program(TakeBelow(SkipBelow(Map(Range2(1, 100), "times", 7), 20), 51),
            Sink("sync_iter", 0, ""), Listed(<<21, 28, 35, 42, 49>>))
test_pagination ==
    {Lists(Take(Skip(Range2(0, 100), page * 5), 5), [i \in 1..5 |-> page * 5 + i - 1]) :
     page \in 0..2}
test_early_termination ==
    Program(Range2(1, 20), Sink("fold", 1001, "factorial"), <<<<7, 5040>>>>)

------------------------------------------------------------------------------
(* generic.cc and reference.cc                                             *)

test_generic_stream ==
    {Lists(counter_stream(3), <<0, 1, 2>>), Lists(Range2(10, 13), <<10, 11, 12>>),
     Lists(Take(Repeat(99), 2), <<99, 99>>),
     Lists(Map(Range2(0, 3), "times", 100), <<0, 100, 200>>)}
test_factory_function ==
    {Lists(create_stream("Counter", 4), <<0, 1, 2, 3>>),
     Lists(create_stream("Range", 3), <<0, 1, 2>>),
     Lists(create_stream("Repeat", 7), <<7, 7, 7, 7, 7>>)}
test_runtime_selection ==
    {IF i % 2 = 0 THEN Lists(Range2(i + 1, i + 4), <<i + 1, i + 2, i + 3>>)
                  ELSE Lists(Take(Repeat(i * 10), 3), <<i * 10, i * 10, i * 10>>) :
     i \in 0..2}
test_reference_stream == Lists(Range2(0, 10), [i \in 1..10 |-> i - 1])

ExamplePrograms ==
    {test_fibonacci, test_async_counter, test_yield_from, test_chain, test_flatten,
     test_zip, test_last, test_window, test_fold(12), test_take_while, test_sync_iter,
     test_zero_cost_pipeline, test_fold_pipeline, test_type_transform_pipeline,
     test_moving_average, test_indexed_pipeline, test_flatten_pipeline,
     test_chain_pipeline, test_filter_pipeline, test_early_termination,
     test_reference_stream}
        \cup test_nth \cup test_range_repeat \cup test_iter \cup test_pagination
        \cup test_generic_stream \cup test_factory_function \cup test_runtime_selection

\* The functions of StreamFunctions make of each example what it announces.
ASSUME ExamplesExpected ==
    \A p \in ExamplePrograms : Expected(p.stream, p.sink) = p.announced

------------------------------------------------------------------------------
(* Pipelines over every source of at most so many values, the values and   *)
(* the end each there at once or after a pending poll of either kind.      *)

Before == {<<>>, <<Held>>, <<Yields>>}
Scripts(length, values) ==
    UNION {{Script(FlattenSeq([i \in 1..n |-> waits[i] \o <<Gives(<<s[i]>>)>>])
                       \o waits[n + 1]) :
            s \in [1..n -> values], waits \in [1..(n + 1) -> Before]} :
           n \in 0..length}

\* One stage on a stream, and two streams made one.
Stages(s, n) ==
    {Map(s, "times", 2), Enumerate(s), TakeBelow(s, 1), SkipBelow(s, 1),
     Flatten(Map(s, "repeated", 0))}
        \cup {Take(s, k) : k \in 0..n} \cup {Skip(s, k) : k \in 0..n}
        \cup {Window(s, k) : k \in 1..n}
Joins(s, t) == {Chain(<<s, t>>), ZipOf(<<s, t>>), ZipOf(<<s, t, Count>>)}

Sinks(n) ==
    {Next1, Sink("sync_iter", 0, ""), Sink("last", 0, ""),
     Sink("fold", 0, "list"), Sink("fold", 1, "list below")}
        \cup {Sink("nth", k, "") : k \in 0..n}

AsExpected(stream, sink) == Program(stream, sink, Expected(stream, sink))

Family(name, length, n) ==
    CASE name = "examples" -> ExamplePrograms
      [] name = "one stage" ->
            UNION {{AsExpected(stage, sink) : stage \in Stages(s, n) \cup {s}} :
                   s \in Scripts(length, {0, 2}), sink \in Sinks(n)}
      [] name = "two stages" ->
            UNION {{AsExpected(stage, Next1) : stage \in UNION {Stages(t, n) : t \in Stages(s, n)}} :
                   s \in Scripts(length, {0, 2})}
      [] name = "two sources" ->
            UNION {{AsExpected(join, Next1) : join \in Joins(s, t)} :
                   s \in Scripts(length, {1}), t \in Scripts(length, {2})}
      [] name = "stage on two sources" ->
            UNION {{AsExpected(stage, Next1) : stage \in UNION {Stages(j, n) : j \in Joins(s, t)}} :
                   s \in Scripts(length - 1, {0}), t \in Scripts(length - 1, {1})}
      [] name = "stage beside a source" ->
            UNION {{AsExpected(join, Next1) : join \in Joins(s, t)} :
                   s \in UNION {Stages(u, n) : u \in Scripts(length - 1, {0})},
                   t \in Scripts(length - 1, {1})}
================================================================================

---------------------------- MODULE StreamFunctions ----------------------------
(***************************************************************************)
(* Pipelines of pollcoro's stream combinators as data, and the sequence    *)
(* that each is for, as a function of the whole sequences of its sources.  *)
(* Streams.tla polls the pipelines and compares.                           *)
(*                                                                         *)
(* A value is a tuple of integers, or under flatten a stream.              *)
(***************************************************************************)
EXTENDS Integers, Sequences, SequencesExt, FiniteSetsExt, Folds

\* How much of an endless stream counts as all of it.
CONSTANT Horizon

ASSUME HorizonAssumption == Horizon \in Nat

\* A stream and its state: the parameter n and the name of a function, the
\* streams it polls, count_ or index_, taking_ or skipping_, buffer_ or
\* buffered_; whether it has said that it is done, and whether it has a waker.
Stream(op, n, by, on) ==
    [op |-> op, n |-> n, by |-> by, on |-> on, script |-> <<>>,
     count |-> IF op \in {"take", "skip"} THEN n ELSE 0, flag |-> TRUE,
     buffer |-> IF op = "zip" THEN [i \in DOMAIN on |-> <<>>] ELSE <<>>,
     ended |-> "no", holds |-> FALSE]

\* What successive polls of a source answer.  It keeps the waker of a poll that
\* it answers with Held, and calls that of Yields and Loudly on the spot.
Gives(value) == [is |-> "ready", value |-> value, wakes |-> FALSE]
Loudly(value) == [is |-> "ready", value |-> value, wakes |-> TRUE]
Held == [is |-> "pending", value |-> <<>>, wakes |-> FALSE]
Yields == [is |-> "pending", value |-> <<>>, wakes |-> TRUE]

Script(items) == [Stream("script", 0, "", <<>>) EXCEPT !.script = items]
Iter(s) == Script([i \in DOMAIN s |-> Gives(<<s[i]>>)])
Range2(begin, end) == [Stream("range", end, "", <<>>) EXCEPT !.count = begin]
Repeat(n) == Stream("repeat", n, "", <<>>)
Count == Stream("count", 0, "", <<>>)

Map(s, function, n) == Stream("map", n, function, <<s>>)
Enumerate(s) == Stream("enumerate", 0, "", <<s>>)
Take(s, n) == Stream("take", n, "", <<s>>)
Skip(s, n) == Stream("skip", n, "", <<s>>)
TakeBelow(s, n) == Stream("take_while", n, "", <<s>>)
SkipBelow(s, n) == Stream("skip_while", n, "", <<s>>)
Window(s, n) == Stream("window", n, "", <<s>>)
Flatten(s) == Stream("flatten", 0, "", <<s>>)
Chain(streams) == Stream("chain", 0, "", streams)
ZipOf(streams) == Stream("zip", 0, "", streams)

\* The functions of map, and the predicate of take_while and skip_while.
Apply(function, n, value) ==
    CASE function = "times"    -> <<value[1] * n>>
      [] function = "square"   -> <<value[1] * value[1]>>
      [] function = "average"  -> <<FoldSeq(+, 0, value) \div Len(value)>>
      [] function = "point"    -> <<value[1], 2 * value[1]>>
      [] function = "distance" -> <<value[1] * value[1] + value[2] * value[2]>>
      [] function = "reverse"  -> Reverse(value)
      [] function = "repeated" -> Take(Repeat(value[1]), value[1])

Below(n, value) == value[1] < n

\* The function of fold, from its first accumulator, and whether it goes on.
Accumulator(by) ==
    CASE by \in {"list", "list below"} -> <<>>
      [] by \in {"sum", "sum below"} -> <<0>>
      [] by = "factorial" -> <<1, 1>>
Folded(by, acc, value) ==
    CASE by \in {"list", "list below"} -> acc \o value
      [] by \in {"sum", "sum below"} -> <<acc[1] + value[1]>>
      [] by = "factorial" -> <<value[1], acc[2] * value[1]>>
Continues(by, n, acc) ==
    CASE by \in {"list", "sum"} -> TRUE
      [] by \in {"list below", "sum below", "factorial"} -> acc[Len(acc)] < n

------------------------------------------------------------------------------
UpTo(s, n) == SubSeq(s, 1, Min({n, Len(s)}))
From(s, n) == SubSeq(s, n + 1, Len(s))

\* How many elements precede the first one that is not below n.
Leading(s, n) == Min({i - 1 : i \in {j \in DOMAIN s : ~Below(n, s[j])}} \cup {Len(s)})

Windows(s, n) ==
    [k \in 1..Len(s) \div n |-> FlattenSeq(SubSeq(s, (k - 1) * n + 1, k * n))]

Zipped(ss) ==
    [i \in 1..Min({Len(ss[k]) : k \in DOMAIN ss}) |->
        FlattenSeq([k \in DOMAIN ss |-> ss[k][i]])]

\* Every value that a pipeline gives.
RECURSIVE All(_)
All(s) ==
    LET in == [i \in DOMAIN s.on |-> All(s.on[i])] IN
    CASE s.op = "script" ->
            LET given == SelectSeq(s.script, LAMBDA item : item.is = "ready")
            IN  [i \in DOMAIN given |-> given[i].value]
      [] s.op = "range" -> [i \in 1..Max({0, s.n - s.count}) |-> <<s.count + i - 1>>]
      [] s.op = "repeat" -> [i \in 1..Horizon |-> <<s.n>>]
      [] s.op = "count" -> [i \in 1..Horizon |-> <<i - 1>>]
      [] s.op = "map" -> [i \in DOMAIN in[1] |-> Apply(s.by, s.n, in[1][i])]
      [] s.op = "enumerate" -> [i \in DOMAIN in[1] |-> <<i - 1>> \o in[1][i]]
      [] s.op = "take" -> UpTo(in[1], s.n)
      [] s.op = "skip" -> From(in[1], s.n)
      [] s.op = "take_while" -> UpTo(in[1], Leading(in[1], s.n))
      [] s.op = "skip_while" -> From(in[1], Leading(in[1], s.n))
      [] s.op = "window" -> Windows(in[1], s.n)
      [] s.op = "flatten" -> FlattenSeq([i \in DOMAIN in[1] |-> All(in[1][i])])
      [] s.op = "chain" -> FlattenSeq(in)
      [] s.op = "zip" -> Zipped(in)

\* A sink: what a program does with a pipeline.
Sink(op, n, by) == [op |-> op, n |-> n, by |-> by]

\* The accumulator when fold returns: after the first value that ends it.
FoldOf(by, n, s) ==
    LET acc[i \in 0..Len(s)] ==
            IF i = 0 THEN Accumulator(by)
            ELSE IF i > 1 /\ ~Continues(by, n, acc[i - 1]) THEN acc[i - 1]
            ELSE Folded(by, acc[i - 1], s[i])
    IN  acc[Len(s)]

\* What the program has in the end: all values, the fold, the last value, or
\* every n-th one, counted from one.
Expected(s, sink) ==
    LET all == All(s) IN
    CASE sink.op \in {"next", "sync_iter"} -> all
      [] sink.op = "fold" -> <<FoldOf(sink.by, sink.n, all)>>
      [] sink.op = "last" -> From(all, Max({1, Len(all)}) - 1)
      [] sink.op = "nth" -> IF sink.n = 0 THEN <<>>
                            ELSE [k \in 1..Len(all) \div sink.n |-> all[k * sink.n]]
================================================================================

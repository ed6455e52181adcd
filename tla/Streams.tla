-------------------------------- MODULE Streams --------------------------------
(***************************************************************************)
(* The stream combinators and sinks of pollcoro: poll_next() or poll() of  *)
(* each, in the pipelines of StreamExamples.tla, over sources whose next   *)
(* value, or end, may not be there yet.                                    *)
(*                                                                         *)
(* A poll of the pipeline is one step.  The consumer polls again after a   *)
(* value, and after a wake if there was none; it may always do so          *)
(* uninvited.  Between the polls, sources call the wakers they keep.  The  *)
(* parts of a loop `while (auto v = co_await nth(s, n))` are one sink.     *)
(***************************************************************************)
EXTENDS StreamExamples

CONSTANTS Families,      \* the families of programs that are run
          MaxLength,     \* a source has at most so many values
          MaxParameter,  \* the largest n of take, skip, nth and window
          Word           \* a size_t wraps at Word

ASSUME BoundsAssumption == MaxLength \in Nat \ {0} /\ MaxParameter \in Nat \ {0}
ASSUME WordAssumption == Word \in Nat /\ Word > Horizon

VARIABLES
    sink,       \* what the program does with the pipeline
    announced,  \* and what is to come of that
    stream,     \* the pipeline
    acc,        \* accumulator_ of fold, result_ of last
    phase,      \* idle, or what the last poll returned
    out,        \* the values the consumer has
    woken       \* the waker has been called since the consumer last polled

vars == <<sink, announced, stream, acc, phase, out, woken>>

Init ==
    /\ \E name \in Families : \E p \in Family(name, MaxLength, MaxParameter) :
            /\ sink = p.sink
            /\ announced = p.announced
            /\ stream = p.stream
            /\ acc = IF p.sink.op = "fold" THEN Accumulator(p.sink.by) ELSE <<>>
    /\ phase = "idle"
    /\ out = <<>>
    /\ woken = FALSE

------------------------------------------------------------------------------
(* poll_next(w) of a stream: what it is afterwards, what it answers, and   *)
(* whether w has been called.                                              *)

Answer(s, is, value, w) == [stream |-> s, is |-> is, value |-> value, w |-> w]
Ready(s, value, w) == Answer(s, "ready", value, w)
Pending(s, w) == Answer(s, "pending", <<>>, w)
Done(s, w) == Answer(s, "done", <<>>, w)

\* F of an answer, which is computed once.
Then(answer, F(_)) == CHOOSE result \in {F(r) : r \in {answer}} : TRUE

RECURSIVE PollNext(_, _), PollSkip(_, _), PollSkipWhile(_, _), PollWindow(_, _),
          PollChain(_, _), PollUnbuffered(_, _), PollFlatten(_, _)

\* What s.on[i] answers, with s around it.
PollOn(s, i, w) ==
    Then(PollNext(s.on[i], w), LAMBDA r : [r EXCEPT !.stream = [s EXCEPT !.on[i] = r.stream]])

\* A stream coroutine, or iter.
PollScript(s, w) ==
    IF s.script = <<>> THEN Done([s EXCEPT !.holds = FALSE], w)
    ELSE LET item == Head(s.script) IN
         Answer([s EXCEPT !.script = Tail(@),
                          !.holds = (item.is = "pending" /\ ~item.wakes)],
                item.is, item.value, w \/ item.wakes)

PollRange(s, w) ==
    IF s.count >= s.n THEN Done(s, w)
    ELSE Ready([s EXCEPT !.count = @ + 1], <<s.count>>, w)

PollRepeat(s, w) == Ready(s, <<s.n>>, w)

\* enumerate() on its own.
PollCount(s, w) == Ready([s EXCEPT !.count = (@ + 1) % Word], <<s.count>>, w)

PollMap(s, w) ==
    Then(PollOn(s, 1, w), LAMBDA r :
        IF r.is = "ready" THEN [r EXCEPT !.value = Apply(s.by, s.n, @)] ELSE r)

PollEnumerate(s, w) ==
    Then(PollOn(s, 1, w), LAMBDA r :
        IF r.is = "ready"
        THEN [r EXCEPT !.value = <<s.count>> \o @, !.stream.count = (@ + 1) % Word]
        ELSE r)

PollTake(s, w) ==
    IF s.count = 0 THEN Done(s, w)
    ELSE Then(PollOn(s, 1, w), LAMBDA r :
            IF r.is = "ready" THEN [r EXCEPT !.stream.count = @ - 1] ELSE r)

PollSkip(s, w) ==
    Then(PollOn(s, 1, w), LAMBDA r :
        IF r.is = "ready" /\ s.count > 0
        THEN PollSkip([r.stream EXCEPT !.count = @ - 1], r.w)
        ELSE r)

\* A value that comes when taking_ is false is passed on: only a consumer that
\* asks again after the end sees one.
PollTakeWhile(s, w) ==
    Then(PollOn(s, 1, w), LAMBDA r :
        IF r.is = "ready" /\ s.flag /\ ~Below(s.n, r.value)
        THEN Done([r.stream EXCEPT !.flag = FALSE], r.w)
        ELSE r)

PollSkipWhile(s, w) ==
    Then(PollOn(s, 1, w), LAMBDA r :
        IF r.is = "ready" /\ s.flag
        THEN IF Below(s.n, r.value)
             THEN PollSkipWhile(r.stream, r.w)
             ELSE [r EXCEPT !.stream.flag = FALSE]
        ELSE r)

\* index_ is the number of values in buffer_.
PollWindow(s, w) ==
    Then(PollOn(s, 1, w), LAMBDA r :
        IF r.is # "ready" THEN r
        ELSE IF Len(s.buffer) + 1 = s.n
        THEN Ready([r.stream EXCEPT !.buffer = <<>>],
                   FlattenSeq(Append(s.buffer, r.value)), r.w)
        ELSE PollWindow([r.stream EXCEPT !.buffer = Append(@, r.value)], r.w))

\* Mutants of PollChain: current_index_ stays; the end of the first stream ends
\* the poll.
PollChainFromStart(s, w) ==
    Then(PollOn(s, 1, w), LAMBDA r : IF r.is = "done" THEN PollOn(r.stream, 2, r.w) ELSE r)

PollChainPause(s, w) ==
    IF s.count = Len(s.on) THEN Done(s, w)
    ELSE Then(PollOn(s, s.count + 1, w), LAMBDA r :
            IF r.is = "done" /\ s.count + 1 < Len(s.on)
            THEN Pending([r.stream EXCEPT !.count = @ + 1], r.w)
            ELSE r)

\* current_index_ is count.
PollChain(s, w) ==
    IF s.count = Len(s.on) THEN Done(s, w)
    ELSE Then(PollOn(s, s.count + 1, w), LAMBDA r :
            IF r.is = "done" THEN PollChain([r.stream EXCEPT !.count = @ + 1], r.w) ELSE r)

\* The streams of which zip has no value are polled in order.
PollUnbuffered(polled, i) ==
    LET s == polled.stream IN
    IF i > Len(s.on) THEN polled
    ELSE IF s.buffer[i] # <<>> THEN PollUnbuffered(polled, i + 1)
    ELSE Then(PollOn(s, i, polled.w), LAMBDA r :
            PollUnbuffered(
                [stream |-> IF r.is = "ready"
                            THEN [r.stream EXCEPT !.buffer[i] = <<r.value>>]
                            ELSE r.stream,
                 w |-> r.w, any |-> polled.any \cup {r.is}],
                i + 1))

NoneBuffered(s) == [s EXCEPT !.buffer = [i \in DOMAIN s.on |-> <<>>]]
Tuple(s) == FlattenSeq(FlattenSeq(s.buffer))

\* Mutant of PollZip: what is buffered is dropped when another stream is pending.
PollZipForgetful(s, w) ==
    Then(PollUnbuffered([stream |-> s, w |-> w, any |-> {}], 1), LAMBDA polled :
        IF "done" \in polled.any THEN Done(polled.stream, polled.w)
        ELSE IF "pending" \in polled.any THEN Pending(NoneBuffered(polled.stream), polled.w)
        ELSE Ready(NoneBuffered(polled.stream), Tuple(polled.stream), polled.w))

\* There is a tuple when no stream was done and none pending.
PollZip(s, w) ==
    Then(PollUnbuffered([stream |-> s, w |-> w, any |-> {}], 1), LAMBDA polled :
        IF "done" \in polled.any THEN Done(polled.stream, polled.w)
        ELSE IF "pending" \in polled.any THEN Pending(polled.stream, polled.w)
        ELSE Ready(NoneBuffered(polled.stream), Tuple(polled.stream), polled.w))

\* s.on[2] is inner_stream_.
PollFlatten(s, w) ==
    IF Len(s.on) = 2
    THEN Then(PollOn(s, 2, w), LAMBDA r :
            IF r.is = "done" THEN PollFlatten([r.stream EXCEPT !.on = <<@[1]>>], r.w) ELSE r)
    ELSE Then(PollOn(s, 1, w), LAMBDA r :
            IF r.is = "ready"
            THEN PollFlatten([r.stream EXCEPT !.on = Append(@, r.value)], r.w)
            ELSE r)

\* Which of them it is; and what is observed of streams that are done.
PollNext(s, w) ==
    Then(CASE s.op = "script" -> PollScript(s, w)
           [] s.op = "range" -> PollRange(s, w)
           [] s.op = "repeat" -> PollRepeat(s, w)
           [] s.op = "count" -> PollCount(s, w)
           [] s.op = "map" -> PollMap(s, w)
           [] s.op = "enumerate" -> PollEnumerate(s, w)
           [] s.op = "take" -> PollTake(s, w)
           [] s.op = "skip" -> PollSkip(s, w)
           [] s.op = "take_while" -> PollTakeWhile(s, w)
           [] s.op = "skip_while" -> PollSkipWhile(s, w)
           [] s.op = "window" -> PollWindow(s, w)
           [] s.op = "chain" -> PollChain(s, w)
           [] s.op = "zip" -> PollZip(s, w)
           [] s.op = "flatten" -> PollFlatten(s, w),
         LAMBDA r :
            [r EXCEPT !.stream.ended = CASE s.ended # "no" -> "misused"
                                         [] s.ended = "no" /\ r.is = "done" -> "once"
                                         [] OTHER -> "no"])

------------------------------------------------------------------------------
(* The sinks.                                                              *)

\* A poll of the program's sink has the answer r of the pipeline, and gives v,
\* is over with what the program then has, or is pending.
Asks(op) == phase # "done" /\ sink.op = op
Hears(r) == stream' = r.stream /\ UNCHANGED <<sink, announced>>
HasMore(v, w) == phase' = "ready" /\ out' = Append(out, v) /\ woken' = w
IsOver(o) == phase' = "done" /\ out' = o /\ woken' = FALSE
Waits(w) == phase' = "pending" /\ woken' = w /\ UNCHANGED out

NextPolls ==
    Asks("next") /\ \E r \in {PollNext(stream, FALSE)} :
    /\ Hears(r)
    /\ \/ r.is = "ready" /\ HasMore(r.value, r.w)
       \/ r.is = "done" /\ IsOver(out)
       \/ r.is = "pending" /\ Waits(r.w)
    /\ UNCHANGED acc

\* Mutant of FoldPolls: pending without a wake.
FoldPollsQuietly ==
    Asks("fold") /\ \E r \in {PollNext(stream, FALSE)} :
    /\ Hears(r)
    /\ \/ r.is = "ready" /\ acc' = Folded(sink.by, acc, r.value) /\ Waits(r.w)
       \/ r.is = "done" /\ IsOver(<<acc>>) /\ UNCHANGED acc
       \/ r.is = "pending" /\ Waits(r.w) /\ UNCHANGED acc

\* fold asks to be polled again instead of looping.
FoldPolls ==
    Asks("fold") /\ \E r \in {PollNext(stream, FALSE)} :
    /\ Hears(r)
    /\ \/ /\ r.is = "ready"
          /\ acc' = Folded(sink.by, acc, r.value)
          /\ IF Continues(sink.by, sink.n, acc') THEN Waits(TRUE) ELSE IsOver(<<acc'>>)
       \/ r.is = "done" /\ IsOver(<<acc>>) /\ UNCHANGED acc
       \/ r.is = "pending" /\ Waits(r.w) /\ UNCHANGED acc

\* The polls of one poll of last, and what result_ is after them.
RECURSIVE Latest(_, _, _)
Latest(s, w, result) ==
    Then(PollNext(s, w), LAMBDA r :
        IF r.is = "ready" THEN Latest(r.stream, r.w, <<r.value>>)
        ELSE [r EXCEPT !.value = result])

LastPolls ==
    Asks("last") /\ \E r \in {Latest(stream, FALSE, acc)} :
    /\ Hears(r)
    /\ acc' = r.value
    /\ IF r.is = "done" THEN IsOver(r.value) ELSE Waits(r.w)

\* The polls of one poll of nth, and n_ after them: nth(s, 0) counts down
\* through zero.
RECURSIVE CountDown(_, _, _)
CountDown(s, w, n) ==
    LET less == (n + Word - 1) % Word IN
    Then(PollNext(s, w), LAMBDA r :
        IF r.is = "ready" /\ less # 0 THEN CountDown(r.stream, r.w, less)
        ELSE [answer |-> r, n |-> n])

\* acc has n_ while nth is pending; the caller starts over after a value.
NthPolls ==
    Asks("nth") /\ \E counted \in {CountDown(stream, FALSE, IF acc = <<>> THEN sink.n ELSE acc[1])} :
    LET r == counted.answer IN
    /\ Hears(r)
    /\ \/ r.is = "ready" /\ HasMore(r.value, r.w) /\ acc' = <<>>
       \/ r.is = "done" /\ IsOver(out) /\ acc' = <<>>
       \/ r.is = "pending" /\ Waits(r.w) /\ acc' = <<counted.n>>

\* sync_iter has no waker: it polls until there is a value or the end.
SyncIterPolls ==
    Asks("sync_iter") /\ \E r \in {PollNext(stream, FALSE)} :
    /\ Hears(r)
    /\ \/ r.is = "ready" /\ HasMore(r.value, FALSE)
       \/ r.is = "done" /\ IsOver(out)
       \/ r.is = "pending" /\ Waits(FALSE)
    /\ UNCHANGED acc

Polls == NextPolls \/ FoldPolls \/ LastPolls \/ NthPolls \/ SyncIterPolls

------------------------------------------------------------------------------
\* The pipelines in which one source more has called the waker it kept.
RECURSIVE Told(_)
Told(s) ==
    (IF s.holds THEN {[s EXCEPT !.holds = FALSE]} ELSE {})
        \cup UNION {{[s EXCEPT !.on[i] = t] : t \in Told(s.on[i])} : i \in DOMAIN s.on}

Tell ==
    /\ phase # "done"
    /\ stream' \in Told(stream)
    /\ woken' = TRUE
    /\ UNCHANGED <<sink, announced, acc, phase, out>>

Next == Polls \/ Tell

Spec == Init /\ [][Next]_vars

\* The consumer asks again after a value or a wake, and sources call wakers.
Invited == phase # "pending" \/ woken \/ sink.op = "sync_iter"
FairSpec == Spec /\ WF_vars(Invited /\ Polls) /\ WF_vars(Tell)

------------------------------------------------------------------------------
(* Properties.                                                             *)

RECURSIVE Parts(_)
Parts(s) == {s} \cup UNION {Parts(s.on[i]) : i \in DOMAIN s.on}

\* However the values arrive, the consumer has a prefix of what the pipeline is
\* for, and all of it when it is told that there is no more: nothing is lost,
\* repeated or reordered when a source is pending in the middle of a poll.
MakesExpected ==
    /\ IsPrefix(out, announced)
    /\ phase = "done" => out = announced

\* Pending is an answer only of who will call the waker: some source of the
\* pipeline has it, or it has been called already.
SomeoneWakes ==
    phase = "pending" /\ sink.op # "sync_iter" =>
        woken \/ \E s \in Parts(stream) : s.holds

\* No combinator and no sink polls a stream again that has said that it is done,
\* in the same poll or a later one, for which a combinator such as take_while is
\* not made (it passes on the values that follow).  The consumer stops at done.
NoPollAfterDone == \A s \in Parts(stream) : s.ended # "misused"

\* The end of a pipeline that has one is reached.
Finishes == <>(phase = "done")
================================================================================

-------------------------------- MODULE Tasks ---------------------------------
(***************************************************************************)
(* The parts of pollcoro together on one thread: block_on polls a task,    *)
(* whose body awaits others, alone or through wait_all and wait_first,     *)
(* takes mutexes, and allocates frames through the guards of               *)
(* src/src/allocator.cppm, from the slab allocator of                      *)
(* src/examples/allocator.cc.  The programs are those of TaskExamples.tla. *)
(*                                                                         *)
(* A frame has a path for its name: child i of the task at p is            *)
(* Append(p, i), and the task that block_on polls is <<>>.  The stack is   *)
(* the C++ stack of the polls in progress.                                 *)
(***************************************************************************)
EXTENDS TaskExamples

CONSTANTS Families,     \* the families of programs to run
          MaxTasks,     \* their bound
          BlockCount,   \* the blocks of each size in the slab
          WordBits,     \* the bits of a word of its bitmaps
          MaxNesting    \* how deep the tasks of a program spawn one another

ASSUME ConstantsAssumption ==
    /\ MaxTasks \in Nat \ {0}
    /\ BlockCount \in Nat \ {0}
    /\ WordBits \in Nat \ {0}
    /\ MaxNesting \in Nat

Root == <<>>
Nobody == <<0>>
Classes == {"small", "medium"}
LockNames == {"mutex", "shared_mutex"}
Keys == {"a", "b", "c", "d", "counter", "data"}

------------------------------------------------------------------------------
(* What C++ asks of a program: a body polls and awaits the tasks that it   *)
(* has, and the slab lives in it while tasks are in the slab.              *)

StepsOf(body, what) == {k \in DOMAIN body : body[k].do = what}
TasksOf(body) == {body[k].task : k \in StepsOf(body, "spawn")}

\* The bodies of a task and of all tasks below it.
Bodies(body) ==
    LET Reach(bodies) == bodies \cup UNION {{task.body : task \in TasksOf(b)} : b \in bodies}
        reached[n \in Nat] == IF n = 0 THEN {body} ELSE Reach(reached[n - 1])
    IN  reached[MaxNesting]

\* The children that a body has before its step k: what it spawned and has
\* neither awaited nor lost to a handler.
Ends(step, child) ==
    step.do = "catch" \/ (step.do = "join" /\ child \in Range(step.children))
Alive(body, k) ==
    {body[j].child : j \in {j \in StepsOf(body, "spawn") :
        j < k /\ \A m \in (j + 1)..(k - 1) : ~Ends(body[m], body[j].child)}}

OwnsItsTasks(body) ==
    /\ DOMAIN body = 1..Len(body)
    /\ \A k \in StepsOf(body, "spawn") :
          body[k].child \in Nat \ {0} /\ body[k].child \notin Alive(body, k)
    /\ \A k \in StepsOf(body, "poll") : body[k].child \in Alive(body, k)
    /\ \A k \in StepsOf(body, "join") :
          /\ DOMAIN body[k].children = 1..Len(body[k].children)
          /\ Range(body[k].children) \subseteq Alive(body, k)

IsTask(task) ==
    /\ task.scope \in Scopes
    /\ task.size \in Classes
    /\ task.bare \in BOOLEAN
    /\ task.bare => task.scope = "none" /\ Len(task.body) = 1 /\ TasksOf(task.body) = {}

MakesNoSlab(body) == \A b \in Bodies(body) : StepsOf(b, "slab") = {}
NeedsNoSlab(body) ==
    /\ MakesNoSlab(body)
    /\ \A b \in Bodies(body) : \A task \in TasksOf(b) : task.scope # "slab"

\* A body in which the slab lives makes it first.
HasTheSlab(body) ==
    /\ StepsOf(body, "slab") = {1}
    /\ \A task \in TasksOf(body) : MakesNoSlab(task.body)

\* The slab, if any, lives in the program's body or in one of its tasks.
HasOneSlab(body) ==
    LET with == {k \in StepsOf(body, "spawn") : ~NeedsNoSlab(body[k].task.body)} IN
    \/ HasTheSlab(body)
    \/ /\ StepsOf(body, "slab") = {}
       /\ \A task \in TasksOf(body) : task.scope # "slab"
       /\ \A k, l \in with : k = l
       /\ \A k \in with : HasTheSlab(body[k].task.body)

\* A mutex has guards of one kind only.
IsGuard(g) ==
    /\ g.lock \in LockNames
    /\ g.mode \in {"read", "write"}
    /\ g.lock = "mutex" => g.mode = "write"

IsProgram(body) ==
    /\ body \in Bodies(body)
    /\ HasOneSlab(body)
    /\ \A b \in Bodies(body) :
          /\ b \in Bodies(b)
          /\ OwnsItsTasks(b)
          /\ \A k \in UNION {StepsOf(b, what) : what \in {"lock", "try", "unlock"}} :
                IsGuard(b[k])
          /\ \A task \in TasksOf(b) :
                /\ IsTask(task)
                /\ task.body \in Bodies(b) /\ Bodies(task.body) \subseteq Bodies(b)

ASSUME ProgramsAssumption ==
    \A name \in Families : \A p \in Family(name, MaxTasks) : IsProgram(p.body)

------------------------------------------------------------------------------
VARIABLES
    program,    \* the program that runs
    frames,     \* the frames of coroutines, by path
    stack,      \* the polls in progress, the innermost last
    phase,      \* what the innermost does: poll, body, failing or return
    current,    \* current_allocator_
    home,       \* the frame in which the slab allocator lives
    blocks,     \* the bits set in the bitmaps of the slab
    locks,      \* the mutex and the shared_mutex
    data,       \* the shared variables
    said,       \* what the program has printed
    notified,   \* notified, of block_on
    outcome     \* what block_on has returned

memoryVars == <<home, blocks>>
sharedVars == <<data, said>>
vars == <<program, frames, stack, phase, current, memoryVars, locks, sharedVars,
          notified, outcome>>

\* A poll on the stack: of which frame, with a waker that does nothing or
\* block_on's, what the guard around it restores, from which phase it was
\* called, and the next of its frame's children to poll.
Entry(p, quiet, restores, from) ==
    [frame |-> p, quiet |-> quiet, restores |-> restores, from |-> from, next |-> 1]

Frame(task, allocator, index) ==
    [body |-> task.body, size |-> task.size, scope |-> task.scope, bare |-> task.bare,
     in |-> allocator, index |-> index,
     pc |-> IF task.bare THEN 1 ELSE 0, left |-> 0, results |-> <<>>, guards |-> <<>>,
     state |-> "suspended"]

Polling == stack # <<>>
Top == stack[Len(stack)]
P == Top.frame
F == frames[P]
Now == F.body[F.pc]
DoesNow(what) == F.pc \in DOMAIN F.body /\ Now.do = what
Polls(what) == Polling /\ phase = "poll" /\ DoesNow(what)
Runs(what) == Polling /\ phase = "body" /\ DoesNow(what)
Child(i) == Append(P, i)

NoLock == [readers |-> 0, writer |-> FALSE, queue |-> <<>>, served |-> {}]

Init ==
    /\ program \in UNION {Family(name, MaxTasks) : name \in Families}
    /\ frames = [p \in {Root} |-> Frame(Task(program.body), "default", 0)]
    /\ stack = <<>>
    /\ phase = "poll"
    /\ current = "default"
    /\ home = Nobody
    /\ blocks = [c \in Classes |-> {}]
    /\ locks = [k \in LockNames |-> NoLock]
    /\ data = [k \in Keys |-> 0]
    /\ said = <<>>
    /\ notified = TRUE
    /\ outcome = [over |-> FALSE, failed |-> FALSE, gives |-> <<>>]

------------------------------------------------------------------------------
(* The locks, as the operations of their states leave them.                *)

WriterWaits(l) == \E i \in DOMAIN l.queue : l.queue[i].mode = "write"

MayEnter(l, lock, mode) ==
    CASE lock = "mutex" -> ~l.writer
      [] lock = "shared_mutex" /\ mode = "read" -> ~l.writer /\ ~WriterWaits(l)
      [] lock = "shared_mutex" /\ mode = "write" -> ~l.writer /\ l.readers = 0

Enter(l, mode) ==
    IF mode = "write" THEN [l EXCEPT !.writer = TRUE] ELSE [l EXCEPT !.readers = @ + 1]

\* The first n waiters are made ready.
Serve(l, n) ==
    [l EXCEPT !.queue = SubSeq(@, n + 1, Len(@)),
              !.served = @ \cup {l.queue[i].frame : i \in 1..n}]

\* wake_next(): a writer, or the readers in front of the first one.
WakeNext(l) ==
    LET writers == {i \in DOMAIN l.queue : l.queue[i].mode = "write"} IN
    CASE l.queue = <<>> -> l
      [] 1 \in writers -> Serve(l, 1)
      [] OTHER -> Serve(l, Min(writers \cup {Len(l.queue) + 1}) - 1)

Release(l, lock, mode) ==
    LET left == [l EXCEPT !.readers = @ - 1] IN
    CASE lock = "mutex" ->
            IF l.queue = <<>> THEN [l EXCEPT !.writer = FALSE] ELSE Serve(l, 1)
      [] lock = "shared_mutex" /\ mode = "write" -> WakeNext([l EXCEPT !.writer = FALSE])
      [] lock = "shared_mutex" /\ mode = "read" ->
            IF left.readers = 0 THEN WakeNext(left) ELSE left

\* std::find and erase.
Without(queue, p) ==
    LET places == {i \in DOMAIN queue : queue[i].frame = p} IN
    IF places = {} THEN queue ELSE RemoveAt(queue, Min(places))

\* Mutant of Deregister: the mutex does not pass on what the waiter was given.
DeregisterOnly(l, lock, p) ==
    [l EXCEPT !.queue = Without(@, p), !.served = @ \ {p}]

Deregister(l, lock, p) ==
    LET gone == [l EXCEPT !.queue = Without(@, p), !.served = @ \ {p}] IN
    IF lock = "mutex" /\ p \in l.served THEN Release(gone, lock, "write") ELSE gone

ReleaseGuard(g, all) == [all EXCEPT ![g.lock] = Release(@, g.lock, g.mode)]
ReleaseAll(ls, guards) == FoldSeq(ReleaseGuard, ls, guards)

\* The wakers of the waiters that are served when the locks become ls.
Wakes(ls) ==
    \E k \in LockNames : \E i \in DOMAIN locks[k].queue :
        ~locks[k].queue[i].quiet /\ locks[k].queue[i].frame \in ls[k].served

------------------------------------------------------------------------------
(* The allocators.                                                         *)

Words == 0..((BlockCount + WordBits - 1) \div WordBits - 1)
FreeBits(c, word) == {bit \in 0..(WordBits - 1) : word * WordBits + bit \notin blocks[c]}
WordsNotFull(c) == {word \in Words : FreeBits(c, word) # {}}

\* bitmap_allocator::allocate(): the lowest free bit of the first such word.
Block(c) ==
    LET word == Min(WordsNotFull(c)) IN word * WordBits + Min(FreeBits(c, word))
HasBlock(c) == WordsNotFull(c) # {} /\ Block(c) < BlockCount

\* Mutant of Freed: the frame goes to the allocator of whoever destroys it.
FreedToCurrent(S) ==
    [c \in Classes |->
        blocks[c] \ {frames[p].index : p \in {q \in S : current = "slab" /\ frames[q].size = c}}]

\* The frames in S go back to the allocators of their promises.
Freed(S) ==
    [c \in Classes |->
        blocks[c] \ {frames[p].index : p \in {q \in S : frames[q].in = "slab"
                                                       /\ frames[q].size = c}}]

Below(p) == {q \in DOMAIN frames : IsStrictPrefix(p, q)}

\* The guards and the lock awaitable in the frame at p are destroyed with it.
Leave(p, all) ==
    LET released == ReleaseAll(all, frames[p].guards)
    IN  [k \in LockNames |-> Deregister(released[k], k, p)]
LeaveAll(ls, S) == FoldSet(Leave, ls, S)

\* The frames in S are destroyed, and the frame polled becomes new.
Destroy(S, new, ls) ==
    /\ frames' = [q \in DOMAIN frames \ S |-> IF q = P THEN new ELSE frames[q]]
    /\ blocks' = Freed(S)
    /\ locks' = LeaveAll(ls, S)
    /\ notified' = (notified \/ Wakes(LeaveAll(ls, S)))

Becomes(new) == frames' = [frames EXCEPT ![P] = new]
StepDone == [F EXCEPT !.pc = @ + 1]
Learns(values) == [StepDone EXCEPT !.results = @ \o values]
Returns(values) == [F EXCEPT !.pc = Len(F.body) + 1, !.results = values]

------------------------------------------------------------------------------
(* Polls: block_on's, and those of what a body awaits.                     *)

BlockOnPolls ==
    /\ ~Polling /\ ~outcome.over /\ notified
    /\ notified' = FALSE
    /\ stack' = <<Entry(Root, FALSE, "none", "poll")>>
    /\ phase' = "poll"
    /\ UNCHANGED <<program, frames, current, memoryVars, locks, sharedVars, outcome>>

BlockOnReturns ==
    /\ Polling /\ phase = "return" /\ P = Root
    /\ stack' = <<>>
    /\ IF F.state = "suspended"
       THEN UNCHANGED <<frames, outcome>>
       ELSE /\ frames' = <<>>
            /\ outcome' = [over |-> TRUE, failed |-> F.state = "failed",
                           gives |-> F.results \o said]
    /\ UNCHANGED <<program, phase, current, memoryVars, locks, sharedVars, notified>>

\* The first poll resumes the body: it awaits nothing.
Start ==
    /\ Polling /\ phase = "poll" /\ F.pc = 0
    /\ Becomes(StepDone)
    /\ phase' = "body"
    /\ UNCHANGED <<program, stack, current, memoryVars, locks, sharedVars, notified, outcome>>

\* yield, ready, and the awaitables of custom_awaitable.cc.
PollLeaf ==
    /\ Polls("leaf")
    /\ notified' = (notified \/ (~Top.quiet /\ (F.left > 0 \/ Now.loud)))
    /\ IF F.left > 0 THEN Becomes([F EXCEPT !.left = @ - 1]) /\ phase' = "return"
       ELSE IF F.bare
       THEN Becomes([Learns(Now.gives) EXCEPT !.state = "done"]) /\ phase' = "return"
       ELSE Becomes(Learns(Now.gives)) /\ phase' = "body"
    /\ UNCHANGED <<program, stack, current, memoryVars, locks, sharedVars, outcome>>

\* A waiter that was served takes its guard, and another enters or waits, with
\* the waker of its last poll.
PollLock ==
    LET l == locks[Now.lock]
        granted == [StepDone EXCEPT !.guards = Append(@, [lock |-> Now.lock, mode |-> Now.mode])]
        waiting == [frame |-> P, mode |-> Now.mode, quiet |-> Top.quiet]
        registered == {i \in DOMAIN l.queue : l.queue[i].frame = P} IN
    /\ Polls("lock")
    /\ CASE P \in l.served ->
                /\ Becomes(granted) /\ phase' = "body"
                /\ locks' = [locks EXCEPT ![Now.lock].served = @ \ {P}]
         [] P \notin l.served /\ registered # {} ->
                /\ phase' = "return"
                /\ locks' = [locks EXCEPT ![Now.lock].queue =
                                [i \in DOMAIN @ |-> IF i \in registered THEN waiting ELSE @[i]]]
                /\ UNCHANGED frames
         [] P \notin l.served /\ registered = {} /\ MayEnter(l, Now.lock, Now.mode) ->
                /\ Becomes(granted) /\ phase' = "body"
                /\ locks' = [locks EXCEPT ![Now.lock] = Enter(@, Now.mode)]
         [] OTHER ->
                /\ phase' = "return"
                /\ locks' = [locks EXCEPT ![Now.lock].queue = Append(@, waiting)]
                /\ UNCHANGED frames
    /\ UNCHANGED <<program, stack, current, memoryVars, sharedVars, notified, outcome>>

\* A poll of a child, within the guard of an allocator_aware_awaitable.
Push(i, quiet, polling) ==
    LET scope == frames[Child(i)].scope IN
    /\ stack' = Append(polling, Entry(Child(i), quiet,
                                      IF scope = "none" THEN "none" ELSE current, phase))
    /\ current' = IF scope = "none" THEN current ELSE scope
    /\ phase' = "poll"

Joined == Now.children
ChildState(i) == frames[Child(Joined[i])].state
\* wait_first stops at the first child that is ready.
Won == Now.for = "first" /\ Top.next > 1 /\ ChildState(Top.next - 1) = "done"
NextPolled == [stack EXCEPT ![Len(stack)].next = @ + 1]

\* wait_all does not poll again what has completed.
PollChild ==
    /\ Polls("join") /\ ~Won /\ Top.next <= Len(Joined)
    /\ IF ChildState(Top.next) = "suspended"
       THEN Push(Joined[Top.next], Top.quiet, NextPolled)
       ELSE stack' = NextPolled /\ UNCHANGED <<current, phase>>
    /\ UNCHANGED <<program, frames, memoryVars, locks, sharedVars, notified, outcome>>

\* Mutant of PollReturns: the guard does not restore the allocator before it.
PollReturnsUnguarded ==
    /\ Polling /\ phase = "return" /\ P # Root
    /\ stack' = SubSeq(stack, 1, Len(stack) - 1)
    /\ phase' = IF F.state = "failed" THEN "failing" ELSE Top.from
    /\ UNCHANGED <<program, frames, current, memoryVars, locks, sharedVars, notified, outcome>>

\* The poll of a child returns, or throws what the task's body threw.
PollReturns ==
    /\ Polling /\ phase = "return" /\ P # Root
    /\ stack' = SubSeq(stack, 1, Len(stack) - 1)
    /\ current' = IF Top.restores = "none" THEN current ELSE Top.restores
    /\ phase' = IF F.state = "failed" THEN "failing" ELSE Top.from
    /\ UNCHANGED <<program, frames, memoryVars, locks, sharedVars, notified, outcome>>

\* Every child has been polled, or one has won: the body goes on with the
\* results when there are any, and what it awaited is destroyed.
JoinEnds ==
    LET done == {Child(Joined[i]) : i \in DOMAIN Joined}
        gone == UNION {{p} \cup Below(p) : p \in done}
        results == FlattenSeq([i \in DOMAIN Joined |-> frames[Child(Joined[i])].results])
        winner == Append(frames[Child(Joined[Top.next - 1])].results, Top.next - 2) IN
    /\ Polls("join")
    /\ Won \/ Top.next > Len(Joined)
    /\ IF Won \/ (Now.for = "all" /\ \A i \in DOMAIN Joined : ChildState(i) = "done")
       THEN /\ Destroy(gone, Learns(IF Won THEN winner ELSE results), locks)
            /\ phase' = "body"
       ELSE phase' = "return" /\ UNCHANGED <<frames, blocks, locks, notified>>
    /\ UNCHANGED <<program, stack, current, home, sharedVars, outcome>>

------------------------------------------------------------------------------
(* The bodies of tasks.                                                    *)

Awaiting == {"leaf", "lock", "join"}

\* Mutant of Suspends: the poll that resumed the body does not wake.
SuspendsQuietly ==
    /\ \E what \in Awaiting : Runs(what)
    /\ Becomes([F EXCEPT !.left = IF Now.do = "leaf" THEN Now.pending ELSE 0])
    /\ phase' = "return"
    /\ UNCHANGED <<program, stack, current, memoryVars, locks, sharedVars, notified, outcome>>

\* co_await suspends before it polls: the poll that resumed the body wakes, so
\* that it is polled again.
Suspends ==
    /\ \E what \in Awaiting : Runs(what)
    /\ Becomes([F EXCEPT !.left = IF Now.do = "leaf" THEN Now.pending ELSE 0])
    /\ notified' = (notified \/ ~Top.quiet)
    /\ phase' = "return"
    /\ UNCHANGED <<program, stack, current, memoryVars, locks, sharedVars, outcome>>

\* The end of the body, and with it of what lives in it: what it awaits first,
\* then its guards and the slab.
Leaves(state) ==
    /\ Destroy(Below(P), [F EXCEPT !.state = state, !.guards = <<>>],
               ReleaseAll(locks, F.guards))
    /\ home' = IF home = P THEN Nobody ELSE home
    /\ phase' = "return"
    /\ UNCHANGED <<program, stack, current, sharedVars, outcome>>

BodyEnds == Polling /\ phase = "body" /\ F.pc > Len(F.body) /\ Leaves("done")

\* An exception of the body, of what it awaits or of the allocator leaves the
\* body, or its try block, with all that lives there, for the handler.
Handlers == {i \in F.pc..Len(F.body) : F.body[i].do = "catch"}

BodyThrows == Polling /\ phase = "failing" /\ Handlers = {} /\ Leaves("failed")

BodyCatches ==
    /\ Polling /\ phase = "failing" /\ Handlers # {}
    /\ Destroy(Below(P), [F EXCEPT !.pc = Min(Handlers) + 1, !.guards = <<>>],
               ReleaseAll(locks, F.guards))
    /\ phase' = "body"
    /\ UNCHANGED <<program, stack, current, home, sharedVars, outcome>>

Throws ==
    /\ Runs("throw")
    /\ phase' = "failing"
    /\ UNCHANGED <<program, frames, stack, current, memoryVars, locks, sharedVars,
                   notified, outcome>>

\* The call of a task function allocates its frame.
Spawns ==
    LET task == Now.task
        allocator == IF task.scope = "none" THEN current ELSE task.scope
        index == IF allocator = "slab" THEN Block(task.size) ELSE 0
        child == Child(Now.child)
        new == Frame(task, IF task.bare THEN "none" ELSE allocator,
                     IF task.bare THEN 0 ELSE index) IN
    /\ Runs("spawn")
    /\ IF task.bare \/ allocator = "default" \/ HasBlock(task.size)
       THEN /\ frames' = [q \in DOMAIN frames \cup {child} |->
                            IF q = child THEN new ELSE IF q = P THEN StepDone ELSE frames[q]]
            /\ blocks' = IF task.bare \/ allocator = "default" THEN blocks
                         ELSE [blocks EXCEPT ![task.size] = @ \cup {index}]
            /\ UNCHANGED phase
       ELSE phase' = "failing" /\ UNCHANGED <<frames, blocks>>
    /\ UNCHANGED <<program, stack, current, home, locks, sharedVars, notified, outcome>>

MakesSlab ==
    /\ Runs("slab")
    /\ home' = P
    /\ blocks' = [c \in Classes |-> {}]
    /\ Becomes(StepDone)
    /\ UNCHANGED <<program, stack, phase, current, locks, sharedVars, notified, outcome>>

\* w.poll(noop), from the body.
PollsOnce ==
    /\ Runs("poll")
    /\ Push(Now.child, TRUE, stack)
    /\ Becomes(StepDone)
    /\ UNCHANGED <<program, memoryVars, locks, sharedVars, notified, outcome>>

\* A guard that is empty, from a try that failed, has nothing to release.
Unlocks ==
    LET guard == [lock |-> Now.lock, mode |-> Now.mode]
        held == {i \in DOMAIN F.guards : F.guards[i] = guard}
        after == ReleaseGuard(guard, locks) IN
    /\ Runs("unlock")
    /\ IF held = {}
       THEN Becomes(StepDone) /\ UNCHANGED <<locks, notified>>
       ELSE /\ Becomes([StepDone EXCEPT !.guards = RemoveAt(@, Max(held))])
            /\ locks' = after
            /\ notified' = (notified \/ Wakes(after))
    /\ UNCHANGED <<program, stack, phase, current, memoryVars, sharedVars, outcome>>

Tries ==
    LET entered == MayEnter(locks[Now.lock], Now.lock, Now.mode) IN
    /\ Runs("try")
    /\ IF entered
       THEN /\ locks' = [locks EXCEPT ![Now.lock] = Enter(@, Now.mode)]
            /\ Becomes([Learns(<<1>>) EXCEPT
                            !.guards = Append(@, [lock |-> Now.lock, mode |-> Now.mode])])
       ELSE Becomes(Learns(<<0>>)) /\ UNCHANGED locks
    /\ UNCHANGED <<program, stack, phase, current, memoryVars, sharedVars, notified, outcome>>

\* Steps that look at the frame and the shared variables only.
Computes ==
    /\ Polling /\ phase = "body"
    /\ \/ DoesNow("load") /\ Becomes(Learns(<<data[Now.key]>>))
       \/ DoesNow("learn") /\ Becomes(Learns(<<Now.value>>))
       \/ DoesNow("sum") /\ Becomes(Returns(<<FoldSeq(+, 0, F.results)>>))
       \/ DoesNow("return results") /\ Becomes(Returns(F.results))
       \/ DoesNow("return") /\ Becomes(Returns(Now.value))
       \/ DoesNow("find") /\ data[Now.key] = 0 /\ Becomes(StepDone)
       \/ DoesNow("find") /\ data[Now.key] # 0 /\ Becomes(Returns(<<data[Now.key]>>))
    /\ UNCHANGED <<program, stack, phase, current, memoryVars, locks, sharedVars,
                   notified, outcome>>

Writes ==
    /\ Polling /\ phase = "body"
    /\ \/ /\ DoesNow("store next")
          /\ data' = [data EXCEPT ![Now.key] = Last(F.results) + 1]
          /\ UNCHANGED said
       \/ /\ DoesNow("set")
          /\ data' = [data EXCEPT ![Now.key] = Now.value]
          /\ UNCHANGED said
       \/ /\ DoesNow("say")
          /\ said' = Append(said, Now.value)
          /\ UNCHANGED data
    /\ Becomes(StepDone)
    /\ UNCHANGED <<program, stack, phase, current, memoryVars, locks, notified, outcome>>

------------------------------------------------------------------------------
Next ==
    \/ BlockOnPolls
    \/ BlockOnReturns
    \/ Start
    \/ PollLeaf
    \/ PollLock
    \/ PollChild
    \/ PollReturns
    \/ JoinEnds
    \/ Suspends
    \/ BodyEnds
    \/ BodyThrows
    \/ BodyCatches
    \/ Throws
    \/ Spawns
    \/ MakesSlab
    \/ PollsOnce
    \/ Unlocks
    \/ Tries
    \/ Computes
    \/ Writes
    \/ outcome.over /\ UNCHANGED vars

Spec == Init /\ [][Next]_vars /\ WF_vars(Next)
------------------------------------------------------------------------------
(* Properties.                                                             *)

\* A program ends with the results its source announces: no update of a shared
\* counter is lost between the load and the store, whatever its tasks yield and
\* whichever are cancelled, a value is computed once, waiters have the lock in
\* the order they asked for it, wait_all keeps the order of its arguments, and
\* wait_first gives the first of the fastest.
OutcomesAsAnnounced ==
    outcome.over => IF outcome.failed THEN program.mayFail
                    ELSE outcome.gives \in program.announced

\* Every block of the slab is that of one frame, and goes back when the frame is
\* destroyed, also by a cancellation or an exception, before the slab is.
BlocksMatchFrames ==
    LET InSlab(c) == {p \in DOMAIN frames : frames[p].in = "slab" /\ frames[p].size = c} IN
    \A c \in Classes :
        /\ blocks[c] = {frames[p].index : p \in InSlab(c)}
        /\ Cardinality(blocks[c]) = Cardinality(InSlab(c))
        /\ home = Nobody => InSlab(c) = {}

\* The guards nest, across the suspension of any number of tasks: a frame is in
\* the allocator of the innermost allocate_in around its call, and none is left
\* as the current one when a poll of block_on is over.
FramesWhereTheyBelong ==
    LET Chosen(p) == {n \in 0..Len(p) : frames[SubSeq(p, 1, n)].scope # "none"}
        Scope(p) == IF Chosen(p) = {} THEN "default" ELSE frames[SubSeq(p, 1, Max(Chosen(p)))].scope
    IN  /\ \A p \in DOMAIN frames : frames[p].bare \/ frames[p].in = Scope(p)
        /\ Polling \/ current = "default"

\* The guards of a lock: which frames have them, and where.
GuardsOf(lock, mode) ==
    UNION {{<<p, i>> : i \in {i \in DOMAIN frames[p].guards :
                frames[p].guards[i] = [lock |-> lock, mode |-> mode]}} :
           p \in DOMAIN frames}

\* A lock is taken exactly as long as somebody has a guard of it or, for the
\* mutex, is about to: a task that is destroyed while it holds the lock, waits
\* for it or was just given it leaves nothing behind.
MutexMatchesGuards ==
    LET mutex == locks["mutex"] IN
    /\ mutex.writer = (GuardsOf("mutex", "write") # {} \/ mutex.served # {})
    /\ Cardinality(GuardsOf("mutex", "write")) + Cardinality(mutex.served) <= 1
SharedMutexMatchesGuards ==
    /\ locks["shared_mutex"].writer = (GuardsOf("shared_mutex", "write") # {})
    /\ locks["shared_mutex"].readers = Cardinality(GuardsOf("shared_mutex", "read"))
LocksMatchGuards == MutexMatchesGuards /\ SharedMutexMatchesGuards

\* Every program ends: whoever is pending is polled again when it can go on.
Finishes == <>outcome.over
==============================================================================

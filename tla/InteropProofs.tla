---------------------------- MODULE InteropProofs ----------------------------
(***************************************************************************)
(* Theorems about Interop for tasks of any length, under every driver that *)
(* suits the waker it gets: the families of the run, for every MaxAwaits.  *)
(***************************************************************************)
EXTENDS Interop, WaitQueueProofs, WellFoundedInduction

\* All families but the two in which the driver and the waker do not fit: a
\* to_resumable whose last poll wakes, and a to_asio that threads wake.
CompatibleFamilies ==
    {"examples", "block_on", "to_asio", "to_resumable", "future_container", "c_main"}

------------------------------------------------------------------------------
(* What the programs of these families have in common.                     *)

Drivers == {"block_on", "c_main", "to_asio", "to_resumable", "future_container"}
Adapters == {"from_asio", "to_pollable", "none"}
\* A task that a body calls gives what it awaits itself.
AnAwait ==
    {await \in [on : {"call", "yield", "foreign"}, polls : Nat, gives : Int] :
        await.on = "call" => await.gives = 0}
AStep == [do : {"timer", "await", "spawn", "get"}, future : Futures \cup {None}]

IsProgram(p) ==
    /\ p.driver \in Drivers
    /\ p.adapter \in Adapters
    /\ p.throws \in BOOLEAN
    /\ \E n \in Futures : p.bodies \in [1..n -> Seq(AnAwait)]
    /\ p.script \in Seq(AStep)

\* The step i of asio_main makes the driver of future f.
Makes(p, i, f) == p.script[i] = ToAsio(f) \/ p.script[i] = Spawn(f)

\* Task f never waits for anybody else.
NeverWaits(p, f) == \A i \in DOMAIN p.bodies[f] : p.bodies[f][i].on # "foreign"

\* What asio_main gets was spawned before a timer that it has waited for.
GetsAfterTimer(p) ==
    \A k \in DOMAIN p.script :
        p.script[k].do = "get" =>
            LET f == p.script[k].future IN
            /\ NeverWaits(p, f)
            /\ \E i, j \in 1..(k - 1) :
                  i < j /\ p.script[i] = Spawn(f) /\ p.script[j] = Timer

IsScript(p) ==
    /\ \A i \in DOMAIN p.script :
          p.script[i] = Timer \/ p.script[i].future \in DOMAIN p.bodies
    /\ \A i, j \in DOMAIN p.script : \A f \in Futures :
          Makes(p, i, f) /\ Makes(p, j, f) => i = j
    /\ GetsAfterTimer(p)

\* What a program announces is what its tasks give.
TaskGives(p, f) == IF f \in DOMAIN p.bodies THEN Given(p.bodies[f]) ELSE 0
Announces(p) ==
    p.throws \/ p.times * (TaskGives(p, 1) + TaskGives(p, 2) + TaskGives(p, 3)) + p.plus
                   = p.announced

Compatible(p) ==
    /\ IsProgram(p)
    /\ Announces(p)
    /\ IF p.driver = "to_asio"
       THEN p.adapter = "from_asio" /\ IsScript(p)
       ELSE p.script = <<>>
    /\ p.driver = "to_resumable" =>
          \A f \in DOMAIN p.bodies : ~WakesAtTheEnd(p.bodies[f])

------------------------------------------------------------------------------
(* The invariant.                                                          *)

Places ==
    {"start", "polling", "waiting", "over"}
        \cup (IF program.driver = "to_asio" THEN {"unborn", "polled"} ELSE {})
        \cup (IF program.driver \in {"to_resumable", "future_container"}
              THEN {"resumed", "scheduled"} ELSE {})

Handlers == ({"spawn", "finish", "poll", "begin"} \X Used) \cup {<<"main", None>>}

TaskTypes ==
    /\ at \in [Futures -> Nat]
    /\ left \in [Futures -> Int]
    /\ sum \in [Futures -> Int]
    /\ failed \in [Futures -> BOOLEAN]

PollTypes ==
    /\ stage \in [Futures -> {"idle", "leaf", "body", "end"}]
    /\ result \in [Futures -> {"pending", "ready"}]

OpTypes ==
    /\ op \in [Futures -> {"none", "posted", "running", "expired", "result", "waking",
                           "woken", "leaving", "done"}]
    /\ waker \in [Futures -> BOOLEAN]

DriverTypes ==
    /\ driver \in [Futures -> {"unborn"} \cup Places]
    /\ \A f \in Used : driver[f] \in Places
    /\ flag \in [Futures -> BOOLEAN]

MainTypes ==
    /\ step \in 1..(Len(program.script) + 1)
    /\ main \in {"run", "suspended", "over"}
    /\ program.driver # "to_asio" => main = "over"

TypeOK ==
    /\ Compatible(program)
    /\ TaskTypes
    /\ PollTypes
    /\ OpTypes
    /\ DriverTypes
    /\ queue \in Seq(Handlers)
    /\ MainTypes
    /\ destroyed \subseteq Used \X {"frame", "awaiter"}

\* The poll that was ready was the last one of its task.
Ends(f) ==
    /\ at[f] <= Len(Body(f)) + 1
    /\ at[f] = Len(Body(f)) + 1 <=> result[f] = "ready"
    /\ driver[f] = "over" => result[f] = "ready"
    /\ driver[f] = "unborn" => at[f] = 0
    /\ result[f] = "ready" =>
          \/ stage[f] = "end"
          \/ stage[f] = "idle"
             /\ driver[f] \in {"over"} \cup IF program.driver = "c_main" THEN {"waiting"} ELSE {}

\* An operation that is not over is what the task awaits.
IsAwaited(f) ==
    op[f] \notin {"none", "leaving", "done"} =>
        /\ at[f] \in DOMAIN Body(f)
        /\ Body(f)[at[f]].on = "foreign"
        /\ stage[f] # "body"

\* A poll runs while the driver is in it, unless the driver is a coroutine that
\* its waker has resumed in the middle of it.
Resumable(f) ==
    /\ stage[f] = "leaf" => driver[f] = "polling"
    /\ stage[f] = "body" =>
          \/ driver[f] = "polling"
          \/ driver[f] \in {"resumed", "scheduled"} /\ flag[f] /\ at[f] < Len(Body(f))
    /\ stage[f] = "end" =>
          \/ driver[f] = "polling"
          \/ driver[f] \in {"resumed", "scheduled"} /\ result[f] = "pending"
    /\ driver[f] = "polling" => stage[f] # "idle"
    /\ waker[f] => op[f] # "none"
    /\ waker[f] /\ op[f] \in {"posted", "running", "expired", "result"} =>
          \/ driver[f] = "waiting"
          \/ driver[f] = "polling" /\ stage[f] = "end" /\ result[f] = "pending"

InPoll(f) ==
    IF program.driver = "to_resumable"
    THEN Resumable(f)
    ELSE stage[f] # "idle" <=> driver[f] = "polling"

\* What each handler in the queue of the loop will find.
Posted(name, f) == Contains(queue, <<name, f>>)

Expected(f) ==
    /\ Posted("spawn", f) => op[f] = "posted"
    /\ Posted("finish", f) => op[f] = "expired"
    /\ Posted("poll", f) =>
          IF program.driver = "to_asio"
          THEN driver[f] = "waiting" /\ op[f] \in {"waking", "woken", "leaving", "done"}
          ELSE driver[f] = "scheduled"
    /\ Posted("begin", f) => program.driver = "to_asio" /\ driver[f] = "unborn"

MainPosted == Posted("main", None)

QueueInv ==
    /\ Distinct(queue)
    /\ \A f \in Used : Expected(f)
    /\ MainPosted => program.driver = "to_asio" /\ main = "suspended"

\* The loop's one thread does one thing at a time.
Active(f) == driver[f] \in {"start", "polling", "polled"}

OneAtATime ==
    /\ main = "run" => \A f \in Used : ~Active(f) /\ ~Locked(f)
    /\ \A f, g \in Used : Active(f) => ~Locked(g) /\ (Active(g) => f = g)

\* asio_main has yet to take the step i.
Ahead(i) == step < i \/ (step = i /\ (main = "run" \/ MainPosted))

MadeOnce ==
    \A i \in DOMAIN program.script : \A f \in Used :
        Ahead(i) /\ Makes(program, i, f) =>
            driver[f] = "unborn" /\ ~Posted("begin", f)

\* A task that waits for nobody has been woken when its poll is pending.
HasWoken(f) ==
    /\ driver[f] # "waiting"
    /\ driver[f] = "polled" => flag[f]
    /\ stage[f] = "end" /\ result[f] = "pending" => flag[f]

Woken == \A f \in Used : NeverWaits(program, f) => HasWoken(f)

BeginsBeforeMain(f) ==
    \E p, q \in DOMAIN queue :
        p < q /\ queue[p] = <<"begin", f>> /\ queue[q] = <<"main", None>>

\* What was spawned has begun, or will before asio_main goes on from a timer.
SpawnedBegins ==
    \A i \in DOMAIN program.script : \A f \in Used :
        i < step /\ program.script[i] = Spawn(f) =>
            /\ driver[f] # "unborn" \/ Posted("begin", f)
            /\ \A j \in DOMAIN program.script :
                  i < j /\ j < step /\ program.script[j] = Timer /\ NeverWaits(program, f) =>
                      \/ driver[f] = "over"
                      \/ MainPosted /\ (driver[f] # "unborn" \/ BeginsBeforeMain(f))

AsioInv == OneAtATime /\ MadeOnce /\ Woken /\ SpawnedBegins

FutureInv(f) == Ends(f) /\ IsAwaited(f) /\ InPoll(f)

IInv ==
    /\ TypeOK
    /\ \A f \in Used : FutureInv(f)
    /\ QueueInv
    /\ program.driver = "to_asio" => AsioInv
------------------------------------------------------------------------------
(* What a body gives.                                                      *)

LEMMA LeastElement ==
    ASSUME NEW S, S \subseteq Nat, S # {}
    PROVE  \E m \in S : \A n \in S : m <= n
<1> DEFINE R == OpToRel(<, Nat)
<1>1. IsWellFoundedOn(R, Nat)
  BY NatLessThanWellFounded
<1> HIDE DEF R
<1>2. PICK m \in S : \A n \in S : ~(<<n, m>> \in R)
  BY <1>1, WFMin
<1>3. \A n \in S : <<n, m>> \in R <=> n < m
  BY DEF R, OpToRel
<1>4. \A n \in S : m \in Nat /\ n \in Nat /\ ~(n < m)
  BY <1>2, <1>3
<1> QED BY <1>4

\* The recursive function of GivenBy exists, for a body of any length: if it did
\* not, there would be a shortest beginning of the body without one.
LEMMA GivenByFacts ==
    ASSUME NEW body \in Seq(AnAwait)
    PROVE  /\ GivenBy(body)[0] = 0
           /\ \A k \in 1..Len(body) :
                 GivenBy(body)[k] = GivenBy(body)[k - 1] + body[k].gives
           /\ \A k \in 0..Len(body) : GivenBy(body)[k] \in Int
<1> DEFINE L == Len(body)
           IsTotal(t, n) == t = [k \in 0..n |-> IF k = 0 THEN 0 ELSE t[k - 1] + body[k].gives]
           Without == {n \in 0..L : \A t : ~IsTotal(t, n)}
<1>1. L \in Nat /\ \A k \in 1..L : body[k].gives \in Int
  <2>1. L \in Nat /\ \A k \in 1..L : body[k] \in AnAwait
    BY LenProperties, ElementOfSeq
  <2> QED BY <2>1 DEF AnAwait
<1> HIDE DEF L
<1>2. Without = {}
  <2> SUFFICES ASSUME Without # {} PROVE FALSE
    OBVIOUS
  <2>1. Without \subseteq Nat
    BY <1>1
  <2>2. PICK n \in Without : \A m \in Without : n <= m
    BY <2>1, LeastElement
  <2>3. n \in 0..L /\ n \in Nat /\ \A t : ~IsTotal(t, n)
    BY <1>1, <2>2
  <2>4. n # 0
    <3>1. IsTotal([k \in 0..0 |-> 0], 0)
      OBVIOUS
    <3> QED BY <2>3, <3>1
  <2>5. n - 1 \in 0..L /\ ~(n <= n - 1)
    BY <1>1, <2>3, <2>4
  <2>6. PICK t : IsTotal(t, n - 1)
    BY <2>2, <2>5
  <2> DEFINE more == [k \in 0..n |-> IF k = n THEN t[n - 1] + body[n].gives ELSE t[k]]
  <2>7. ASSUME NEW k \in 0..n
        PROVE  more[k] = IF k = 0 THEN 0 ELSE more[k - 1] + body[k].gives
    <3>1. CASE k = 0
      BY <2>3, <2>4, <2>6, <3>1
    <3>2. CASE k # 0 /\ k # n
      <4>1. k \in 0..(n - 1) /\ k - 1 \in 0..n /\ k - 1 # n
        BY <2>3, <3>2
      <4>2. more[k] = t[k] /\ more[k - 1] = t[k - 1]
        BY <4>1, <3>2
      <4>3. t[k] = t[k - 1] + body[k].gives
        BY <2>6, <4>1, <3>2
      <4> QED BY <3>2, <4>2, <4>3
    <3>3. CASE k = n
      <4>1. k # 0 /\ n - 1 \in 0..n /\ n - 1 # n
        BY <2>3, <2>4, <3>3
      <4>2. more[n - 1] = t[n - 1] /\ more[n] = t[n - 1] + body[n].gives
        BY <4>1, <2>3
      <4> QED BY <3>3, <4>1, <4>2
    <3> QED BY <3>1, <3>2, <3>3
  <2>8. more = [k \in 0..n |-> more[k]]
    OBVIOUS
  <2> HIDE DEF more
  <2>9. IsTotal(more, n)
    BY <2>7, <2>8
  <2> QED BY <2>3, <2>9
<1>3. PICK t : IsTotal(t, L)
  <2>1. L \in 0..L /\ L \notin Without
    <3>1. L \in 0..L
      BY <1>1
    <3> HIDE DEF IsTotal
    <3> QED BY <1>2, <3>1
  <2> QED BY <2>1
<1> DEFINE total == GivenBy(body)
<1>4. total = CHOOSE x : IsTotal(x, L)
  BY Zenon DEF GivenBy, L
<1>5. IsTotal(total, L)
  <2> HIDE DEF total
  <2> QED BY <1>3, <1>4, Zenon
<1> HIDE DEF total
<1>6. total[0] = 0
  BY <1>1, <1>5
<1>7. \A k \in 1..L : total[k] = total[k - 1] + body[k].gives
  BY <1>1, <1>5
<1>8. \A k \in 0..L : total[k] \in Int
  <2> DEFINE Bad == {k \in 0..L : total[k] \notin Int}
  <2> SUFFICES ASSUME Bad # {} PROVE FALSE
    OBVIOUS
  <2>1. Bad \subseteq Nat
    BY <1>1
  <2>2. PICK k \in Bad : \A m \in Bad : k <= m
    BY <2>1, LeastElement
  <2>3. k \in 0..L /\ k # 0 /\ k \in Nat
    BY <1>1, <1>6, <2>2
  <2>4. k \in 1..L /\ k - 1 \in 0..L /\ ~(k <= k - 1)
    BY <1>1, <2>3
  <2>5. total[k - 1] \in Int
    BY <2>2, <2>4
  <2>6. total[k] \in Int
    <3>1. total[k] = total[k - 1] + body[k].gives /\ body[k].gives \in Int
      BY <1>1, <1>7, <2>4
    <3> QED BY <2>5, <3>1
  <2> QED BY <2>2, <2>6
<1> QED BY <1>6, <1>7, <1>8 DEF total, L

\* What short bodies give.
LEMMA GivenShort ==
    ASSUME NEW body \in Seq(AnAwait)
    PROVE  /\ Len(body) = 1 => Given(body) = body[1].gives
           /\ Len(body) = 2 => Given(body) = body[1].gives + body[2].gives
           /\ Len(body) = 3 => Given(body) = body[1].gives + body[2].gives + body[3].gives
           /\ Len(body) = 4 => Given(body) = body[1].gives + body[2].gives + body[3].gives
                                             + body[4].gives
           /\ Len(body) = 5 => Given(body) = body[1].gives + body[2].gives + body[3].gives
                                             + body[4].gives + body[5].gives
           /\ Len(body) = 6 => Given(body) = body[1].gives + body[2].gives + body[3].gives
                                             + body[4].gives + body[5].gives + body[6].gives
<1> DEFINE t == GivenBy(body)
           g(k) == body[k].gives
<1>1. /\ t[0] = 0 /\ Len(body) \in Nat
      /\ \A k \in 1..Len(body) : t[k] = t[k - 1] + g(k)
      /\ \A k \in 1..Len(body) : g(k) \in Int
  <2>1. Len(body) \in Nat /\ \A k \in 1..Len(body) : body[k] \in AnAwait
    BY LenProperties, ElementOfSeq
  <2> QED BY <2>1, GivenByFacts DEF AnAwait
<1>2. Given(body) = t[Len(body)]
  BY DEF Given
<1> HIDE DEF t, g
<1>3. Len(body) >= 1 => t[1] = g(1) /\ g(1) \in Int
  <2>1. Len(body) >= 1 => 1 \in 1..Len(body) /\ 1 - 1 = 0
    BY <1>1
  <2> QED BY <1>1, <2>1
<1>4. Len(body) >= 2 => t[2] = g(1) + g(2) /\ g(2) \in Int
  <2>1. Len(body) >= 2 => 2 \in 1..Len(body) /\ 2 - 1 = 1
    BY <1>1
  <2> QED BY <1>1, <1>3, <2>1
<1>5. Len(body) >= 3 => t[3] = g(1) + g(2) + g(3) /\ g(3) \in Int
  <2>1. Len(body) >= 3 => 3 \in 1..Len(body) /\ 3 - 1 = 2
    BY <1>1
  <2> QED BY <1>1, <1>4, <2>1
<1>6. Len(body) >= 4 => t[4] = g(1) + g(2) + g(3) + g(4) /\ g(4) \in Int
  <2>1. Len(body) >= 4 => 4 \in 1..Len(body) /\ 4 - 1 = 3
    BY <1>1
  <2> QED BY <1>1, <1>5, <2>1
<1>7. Len(body) >= 5 => t[5] = g(1) + g(2) + g(3) + g(4) + g(5) /\ g(5) \in Int
  <2>1. Len(body) >= 5 => 5 \in 1..Len(body) /\ 5 - 1 = 4
    BY <1>1
  <2> QED BY <1>1, <1>6, <2>1
<1>8. Len(body) >= 6 => t[6] = g(1) + g(2) + g(3) + g(4) + g(5) + g(6)
  <2>1. Len(body) >= 6 => 6 \in 1..Len(body) /\ 6 - 1 = 5
    BY <1>1
  <2> QED BY <1>1, <1>7, <2>1
<1>9. Len(body) = 1 => Given(body) = g(1)
  BY <1>2, <1>3
<1>10. Len(body) = 2 => Given(body) = g(1) + g(2)
  BY <1>2, <1>4
<1>11. Len(body) = 3 => Given(body) = g(1) + g(2) + g(3)
  BY <1>2, <1>5
<1>12. Len(body) = 4 => Given(body) = g(1) + g(2) + g(3) + g(4)
  BY <1>2, <1>6
<1>13. Len(body) = 5 => Given(body) = g(1) + g(2) + g(3) + g(4) + g(5)
  BY <1>2, <1>7
<1>14. Len(body) = 6 => Given(body) = g(1) + g(2) + g(3) + g(4) + g(5) + g(6)
  BY <1>2, <1>8
<1> QED BY <1>9, <1>10, <1>11, <1>12, <1>13, <1>14 DEF g

------------------------------------------------------------------------------
(* The programs of the families are compatible.                            *)

LEMMA Tuples ==
    ASSUME NEW S, NEW a \in S, NEW b \in S, NEW c \in S, NEW d \in S, NEW e \in S,
           NEW f \in S
    PROVE  /\ <<a>> \in Seq(S) /\ <<a, b>> \in Seq(S) /\ <<a, b, c>> \in Seq(S)
           /\ <<a, b, c, d>> \in Seq(S)
           /\ <<a, b, c, d, e, f>> \in Seq(S)
  OBVIOUS

LEMMA AwaitTypes ==
    /\ Call \in AnAwait
    /\ \A n \in Nat, g \in Int : Yield(n, g) \in AnAwait
    /\ \A g \in Int : Foreign(g) \in AnAwait
  BY DEF Call, Yield, Foreign, AnAwait

\* A program with one task and at most one step of asio_main.
OneTask(p, body) ==
    /\ p.driver \in Drivers /\ p.adapter \in Adapters /\ p.throws \in BOOLEAN
    /\ p.bodies = <<body>>
    /\ p.throws \/ p.times * Given(body) + p.plus = p.announced
    /\ p.driver = "to_resumable" => ~WakesAtTheEnd(body)
    /\ IF p.driver = "to_asio"
       THEN p.adapter = "from_asio" /\ p.script = <<ToAsio(1)>>
       ELSE p.script = <<>>

LEMMA OneTaskIsCompatible ==
    ASSUME NEW p, NEW body \in Seq(AnAwait), OneTask(p, body)
    PROVE  Compatible(p)
<1>1. DOMAIN p.bodies = {1} /\ p.bodies[1] = body /\ p.bodies \in [1..1 -> Seq(AnAwait)]
  BY DEF OneTask
<1>2. ToAsio(1) \in AStep
  BY DEF ToAsio, AStep, Futures, None
<1>3. p.script \in Seq(AStep)
  <2>1. <<ToAsio(1)>> \in Seq(AStep) /\ <<>> \in Seq(AStep)
    BY <1>2
  <2> QED BY <2>1 DEF OneTask
<1>4. IsProgram(p)
  BY <1>1, <1>3 DEF IsProgram, OneTask, Futures
<1>5. p.driver = "to_asio" => IsScript(p)
  BY <1>1 DEF OneTask, IsScript, GetsAfterTimer, Makes, ToAsio, Spawn, Timer
<1>6. Announces(p)
  <2>1. Given(body) \in Int
    <3>1. Len(body) \in 0..Len(body)
      BY LenProperties
    <3> QED BY <3>1, GivenByFacts DEF Given
  <2>2. TaskGives(p, 1) = Given(body) /\ TaskGives(p, 2) = 0 /\ TaskGives(p, 3) = 0
    BY <1>1 DEF TaskGives
  <2>3. TaskGives(p, 1) + TaskGives(p, 2) + TaskGives(p, 3) = Given(body)
    BY <2>1, <2>2
  <2> QED BY <2>3 DEF Announces, OneTask
<1> QED BY <1>1, <1>4, <1>5, <1>6 DEF Compatible, OneTask

LEMMA BodyType ==
    ASSUME NEW kinds \in SUBSET Awaits, NEW body \in Bodies(MaxAwaits, kinds)
    PROVE  body \in Seq(AnAwait)
<1>1. PICK kind \in BoundedSeq(kinds, MaxAwaits) :
        body = [i \in DOMAIN kind |->
                 CASE kind[i] = "call" -> Call
                   [] kind[i] = "foreign" -> Foreign(i * i)
                   [] kind[i] = "yield" -> Yield(1, i * i)
                   [] kind[i] = "yield twice" -> Yield(2, i * i)]
  BY DEF Bodies
<1>2. PICK m \in 0..MaxAwaits : kind \in [1..m -> kinds]
  BY DEF BoundedSeq, SeqOf
<1>3. m \in Nat
  BY MaxAwaitsAssumption
<1>4. \A i \in 1..m : i * i \in Int
  BY <1>3
<1>5. \A i \in 1..m : body[i] \in AnAwait
  BY <1>1, <1>2, <1>4, AwaitTypes DEF Awaits, Yields
<1>6. body \in [1..m -> AnAwait]
  BY <1>1, <1>2, <1>5
<1> QED BY <1>3, <1>6, SeqDef

LEMMA RunningProgram ==
    ASSUME NEW d \in Drivers, NEW a \in Adapters, NEW script,
           IF d = "to_asio" THEN a = "from_asio" /\ script = <<ToAsio(1)>>
           ELSE script = <<>>,
           NEW bodies \in SUBSET Seq(AnAwait),
           d = "to_resumable" => \A body \in bodies : ~WakesAtTheEnd(body),
           NEW p \in Running(d, a, script, bodies)
    PROVE  Compatible(p)
<1>1. PICK body \in bodies :
        \/ p = Program(d, a, <<body>>, script, 1, 0, Given(body))
        \/ p = Throwing(Program(d, a, <<body>>, script, 1, 0, Given(body)))
  BY DEF Running
<1> DEFINE q(x) == Program(d, a, <<body>>, script, 1, 0, x)
<1>2. /\ p.driver = d /\ p.adapter = a /\ p.script = script
      /\ p.throws \in BOOLEAN /\ p.bodies = <<body>>
      /\ p.times = 1 /\ p.plus = 0 /\ p.announced = Given(body)
  <2>1. \A x : /\ q(x).driver = d /\ q(x).adapter = a /\ q(x).script = script
               /\ q(x).throws = FALSE /\ q(x).bodies = <<body>>
               /\ q(x).times = 1 /\ q(x).plus = 0 /\ q(x).announced = x
    BY DEF Program
  <2>2. \A x : LET t == Throwing(q(x)) IN
               /\ t.driver = d /\ t.adapter = a /\ t.script = script
               /\ t.throws = TRUE /\ t.bodies = <<body>>
               /\ t.times = 1 /\ t.plus = 0 /\ t.announced = x
    BY DEF Program, Throwing
  <2>3. p = q(Given(body)) \/ p = Throwing(q(Given(body)))
    BY <1>1
  <2> HIDE DEF q
  <2>4. CASE p = q(Given(body))
    BY <2>1, <2>4
  <2>5. CASE p = Throwing(q(Given(body)))
    BY <2>2, <2>5
  <2> QED BY <2>3, <2>4, <2>5
<1>3. body \in Seq(AnAwait)
  OBVIOUS
<1>4. 1 * Given(body) + 0 = Given(body)
  <2>1. Given(body) \in Int
    <3>1. Len(body) \in 0..Len(body)
      BY <1>3, LenProperties
    <3> QED BY <1>3, <3>1, GivenByFacts DEF Given
  <2> QED BY <2>1
<1>5. OneTask(p, body)
  BY <1>2, <1>4 DEF OneTask
<1> QED BY <1>3, <1>5, OneTaskIsCompatible

LEMMA OneMore ==
    ASSUME NEW s \in Seq(AnAwait), NEW t \in Seq(AnAwait), Len(t) = 1
    PROVE  /\ s \o t \in Seq(AnAwait)
           /\ s \o t # <<>> /\ Len(s \o t) = Len(s) + 1
           /\ (s \o t)[Len(s \o t)] = t[1]
           /\ \A i \in 1..Len(s) : (s \o t)[i] = s[i]
<1>1. Len(s) \in Nat
  BY LenProperties
<1>2. /\ s \o t \in Seq(AnAwait)
      /\ Len(s \o t) = Len(s) + Len(t)
      /\ \A i \in 1..Len(s) + Len(t) :
            (s \o t)[i] = IF i <= Len(s) THEN s[i] ELSE t[i - Len(s)]
  BY ConcatProperties, Zenon
<1>3. Len(s \o t) \in 1..Len(s) + Len(t) /\ ~(Len(s \o t) <= Len(s)) /\ Len(s \o t) - Len(s) = 1
  BY <1>1, <1>2
<1>4. s \o t # <<>>
  BY <1>3, EmptySeq, <1>1
<1>5. \A i \in 1..Len(s) : i \in 1..Len(s) + Len(t)
  BY <1>1
<1> QED BY <1>2, <1>3, <1>4, <1>5

LEMMA ExamplesWithOneTask ==
    ASSUME NEW p \in ExamplePrograms \ {example_asio_timer_with_pollcoro,
                                        example_concurrent_pollcoro_in_asio}
    PROVE  Compatible(p)
<1>1. /\ \A n \in Nat : poll_with_yields(n) \in Seq(AnAwait)
      /\ [i \in 1..5 |-> Yield(1, i)] \in Seq(AnAwait)
  <2>1. \A n \in Nat : poll_with_yields(n) \in [1..n -> AnAwait]
    BY AwaitTypes DEF poll_with_yields
  <2>2. [i \in 1..5 |-> Yield(1, i)] \in [1..5 -> AnAwait]
    BY AwaitTypes
  <2> QED BY <2>1, <2>2, SeqDef
<1>2. /\ \A g \in Int : Foreign(g) \in AnAwait /\ Yield(1, g) \in AnAwait
      /\ Yield(10, 0) \in AnAwait /\ Call \in AnAwait
  BY AwaitTypes
<1>3. \A g \in Int : /\ poll_using_cppcoro(g) \in Seq(AnAwait)
                     /\ Len(poll_using_cppcoro(g)) = 1
                     /\ poll_using_cppcoro(g)[1] = Foreign(g)
  BY <1>2 DEF poll_using_cppcoro
<1>4. /\ poll_chain_cppcoro \in Seq(AnAwait) /\ ~WakesAtTheEnd(poll_chain_cppcoro)
      /\ Given(poll_chain_cppcoro) = 30
  <2> DEFINE call == <<Call>>
             ten == poll_using_cppcoro(10)
             twenty == poll_using_cppcoro(20)
             two == call \o ten
             three == two \o call
             four == three \o twenty
  <2>1. call \in Seq(AnAwait) /\ Len(call) = 1 /\ call[1].gives = 0
    <3>1. Call.gives = 0
      BY DEF Call
    <3> QED BY <1>2, <3>1
  <2>2. /\ ten \in Seq(AnAwait) /\ Len(ten) = 1 /\ ten[1].gives = 10
        /\ twenty \in Seq(AnAwait) /\ Len(twenty) = 1 /\ twenty[1].gives = 20
        /\ twenty[1].on = "foreign"
    <3>1. Foreign(10).gives = 10 /\ Foreign(20).gives = 20 /\ Foreign(20).on = "foreign"
      BY DEF Foreign
    <3> QED BY <1>3, <3>1
  <2>3. poll_chain_cppcoro = four
    BY DEF poll_chain_cppcoro
  <2> HIDE DEF call, ten, twenty
  <2>4. /\ two \in Seq(AnAwait) /\ Len(two) = Len(call) + 1 /\ two[Len(two)] = ten[1]
        /\ \A i \in 1..Len(call) : two[i] = call[i]
    BY <2>1, <2>2, OneMore
  <2> HIDE DEF two
  <2>5. Len(two) = 2 /\ two[1].gives = 0 /\ two[2].gives = 10
    BY <2>1, <2>2, <2>4
  <2>6. /\ three \in Seq(AnAwait) /\ Len(three) = Len(two) + 1 /\ three[Len(three)] = call[1]
        /\ \A i \in 1..Len(two) : three[i] = two[i]
    BY <2>1, <2>4, OneMore
  <2> HIDE DEF three
  <2>7. Len(three) = 3 /\ three[1].gives = 0 /\ three[2].gives = 10 /\ three[3].gives = 0
    BY <2>1, <2>5, <2>6
  <2>8. /\ four \in Seq(AnAwait) /\ Len(four) = Len(three) + 1 /\ four[Len(four)] = twenty[1]
        /\ \A i \in 1..Len(three) : four[i] = three[i]
    BY <2>2, <2>6, OneMore
  <2> HIDE DEF four
  <2>9. /\ Len(four) = 4 /\ four[4].on = "foreign"
        /\ four[1].gives = 0 /\ four[2].gives = 10 /\ four[3].gives = 0 /\ four[4].gives = 20
    BY <2>2, <2>7, <2>8
  <2>10. Given(four) = four[1].gives + four[2].gives + four[3].gives + four[4].gives
    BY <2>8, <2>9, GivenShort
  <2>11. Given(four) = 30 /\ ~WakesAtTheEnd(four)
    BY <2>9, <2>10 DEF WakesAtTheEnd
  <2> QED BY <2>3, <2>8, <2>11
<1>5. Compatible(example_pollcoro_uses_asio)
  <2>1. <<Foreign(0), Foreign(21)>> \in Seq(AnAwait)
    BY <1>2
  <2>2. Given(<<Foreign(0), Foreign(21)>>) = 21
    <3> DEFINE b == <<Foreign(0), Foreign(21)>>
    <3>1. /\ b \in Seq(AnAwait) /\ Len(b) = 2
          /\ b[1].gives = 0 /\ b[2].gives = 21
      BY <2>1 DEF Yield, Foreign
    <3> HIDE DEF b
    <3>2. Given(b) = b[1].gives + b[2].gives
      BY <3>1, GivenShort
    <3>3. Given(b) = 21
      BY <3>1, <3>2
    <3> QED BY <3>3 DEF b
  <2>3. OneTask(example_pollcoro_uses_asio, <<Foreign(0), Foreign(21)>>)
    BY <2>2 DEF OneTask, example_pollcoro_uses_asio, Program, Drivers, Adapters
  <2> QED BY <2>1, <2>3, OneTaskIsCompatible
<1>6. Compatible(example_asio_uses_pollcoro)
  <2>1. poll_with_yields(3) \in Seq(AnAwait)
    BY <1>1
  <2>2. Given(poll_with_yields(3)) = 0
    <3> DEFINE b == poll_with_yields(3)
    <3>1. /\ b \in Seq(AnAwait) /\ Len(b) = 3
          /\ b[1].gives = 0 /\ b[2].gives = 0 /\ b[3].gives = 0
      BY <2>1 DEF poll_with_yields, Yield, Foreign
    <3> HIDE DEF b
    <3>2. Given(b) = b[1].gives + b[2].gives + b[3].gives
      BY <3>1, GivenShort
    <3>3. Given(b) = 0
      BY <3>1, <3>2
    <3> QED BY <3>3 DEF b
  <2>3. OneTask(example_asio_uses_pollcoro, poll_with_yields(3))
    BY <2>2 DEF OneTask, example_asio_uses_pollcoro, Program, Drivers, Adapters
  <2> QED BY <2>1, <2>3, OneTaskIsCompatible
<1>7. Compatible(example_nested_interop)
  <2>1. <<Foreign(21)>> \in Seq(AnAwait)
    BY <1>2
  <2>2. Given(<<Foreign(21)>>) = 21
    <3> DEFINE b == <<Foreign(21)>>
    <3>1. /\ b \in Seq(AnAwait) /\ Len(b) = 1
          /\ b[1].gives = 21
      BY <2>1 DEF Yield, Foreign
    <3> HIDE DEF b
    <3>2. Given(b) = b[1].gives
      BY <3>1, GivenShort
    <3>3. Given(b) = 21
      BY <3>1, <3>2
    <3> QED BY <3>3 DEF b
  <2>3. OneTask(example_nested_interop, <<Foreign(21)>>)
    BY <2>2 DEF OneTask, example_nested_interop, Program, Drivers, Adapters
  <2> QED BY <2>1, <2>3, OneTaskIsCompatible
<1>8. Compatible(example_pollcoro_returning_values)
  <2>1. [i \in 1..5 |-> Yield(1, i)] \in Seq(AnAwait)
    BY <1>1
  <2>2. Given([i \in 1..5 |-> Yield(1, i)]) = 15
    <3> DEFINE b == [i \in 1..5 |-> Yield(1, i)]
    <3>1. /\ b \in Seq(AnAwait) /\ Len(b) = 5
          /\ b[1].gives = 1 /\ b[2].gives = 2 /\ b[3].gives = 3
          /\ b[4].gives = 4 /\ b[5].gives = 5
      BY <2>1 DEF Yield, Foreign
    <3> HIDE DEF b
    <3>2. Given(b) = b[1].gives + b[2].gives + b[3].gives + b[4].gives + b[5].gives
      BY <3>1, GivenShort
    <3>3. Given(b) = 15
      BY <3>1, <3>2
    <3> QED BY <3>3 DEF b
  <2>3. OneTask(example_pollcoro_returning_values, [i \in 1..5 |-> Yield(1, i)])
    BY <2>2 DEF OneTask, example_pollcoro_returning_values, Program, Drivers, Adapters
  <2> QED BY <2>1, <2>3, OneTaskIsCompatible
<1>9. Compatible(example_from_asio_chaining)
  <2>1. <<Foreign(10), Yield(1, 0), Foreign(20), Yield(1, 0), Foreign(30), Yield(1, 0)>> \in Seq(AnAwait)
    BY <1>2
  <2>2. Given(<<Foreign(10), Yield(1, 0), Foreign(20), Yield(1, 0), Foreign(30), Yield(1, 0)>>) = 60
    <3> DEFINE b == <<Foreign(10), Yield(1, 0), Foreign(20), Yield(1, 0), Foreign(30), Yield(1, 0)>>
    <3>1. /\ b \in Seq(AnAwait) /\ Len(b) = 6
          /\ b[1].gives = 10 /\ b[2].gives = 0 /\ b[3].gives = 20
          /\ b[4].gives = 0 /\ b[5].gives = 30 /\ b[6].gives = 0
      BY <2>1 DEF Yield, Foreign
    <3> HIDE DEF b
    <3>2. Given(b) = b[1].gives + b[2].gives + b[3].gives + b[4].gives + b[5].gives + b[6].gives
      BY <3>1, GivenShort
    <3>3. Given(b) = 60
      BY <3>1, <3>2
    <3> QED BY <3>3 DEF b
  <2>3. OneTask(example_from_asio_chaining, <<Foreign(10), Yield(1, 0), Foreign(20), Yield(1, 0), Foreign(30), Yield(1, 0)>>)
    BY <2>2 DEF OneTask, example_from_asio_chaining, Program, Drivers, Adapters
  <2> QED BY <2>1, <2>3, OneTaskIsCompatible
<1>10. Compatible(example_full_bidirectional)
  <2>1. <<Foreign(100), Yield(1, 11)>> \in Seq(AnAwait)
    BY <1>2
  <2>2. Given(<<Foreign(100), Yield(1, 11)>>) = 111
    <3> DEFINE b == <<Foreign(100), Yield(1, 11)>>
    <3>1. /\ b \in Seq(AnAwait) /\ Len(b) = 2
          /\ b[1].gives = 100 /\ b[2].gives = 11
      BY <2>1 DEF Yield, Foreign
    <3> HIDE DEF b
    <3>2. Given(b) = b[1].gives + b[2].gives
      BY <3>1, GivenShort
    <3>3. Given(b) = 111
      BY <3>1, <3>2
    <3> QED BY <3>3 DEF b
  <2>3. OneTask(example_full_bidirectional, <<Foreign(100), Yield(1, 11)>>)
    BY <2>2 DEF OneTask, example_full_bidirectional, Program, Drivers, Adapters
  <2> QED BY <2>1, <2>3, OneTaskIsCompatible
<1>11. Compatible(example_basic_pollcoro)
  <2>1. poll_with_yields(3) \in Seq(AnAwait)
    BY <1>1
  <2>2. Given(poll_with_yields(3)) = 0
    <3> DEFINE b == poll_with_yields(3)
    <3>1. /\ b \in Seq(AnAwait) /\ Len(b) = 3
          /\ b[1].gives = 0 /\ b[2].gives = 0 /\ b[3].gives = 0
      BY <2>1 DEF poll_with_yields, Yield, Foreign
    <3> HIDE DEF b
    <3>2. Given(b) = b[1].gives + b[2].gives + b[3].gives
      BY <3>1, GivenShort
    <3>3. Given(b) = 0
      BY <3>1, <3>2
    <3> QED BY <3>3 DEF b
  <2>3. OneTask(example_basic_pollcoro, poll_with_yields(3))
    BY <2>2 DEF OneTask, example_basic_pollcoro, Program, Drivers, Adapters
  <2> QED BY <2>1, <2>3, OneTaskIsCompatible
<1>12. Compatible(example_pollcoro_uses_cppcoro)
  <2>1. poll_using_cppcoro(42) \in Seq(AnAwait)
    BY <1>2 DEF poll_using_cppcoro
  <2>2. Given(poll_using_cppcoro(42)) = 42
    <3> DEFINE b == poll_using_cppcoro(42)
    <3>1. /\ b \in Seq(AnAwait) /\ Len(b) = 1
          /\ b[1].gives = 42
      BY <2>1 DEF poll_using_cppcoro, Yield, Foreign
    <3> HIDE DEF b
    <3>2. Given(b) = b[1].gives
      BY <3>1, GivenShort
    <3>3. Given(b) = 42
      BY <3>1, <3>2
    <3> QED BY <3>3 DEF b
  <2>3. OneTask(example_pollcoro_uses_cppcoro, poll_using_cppcoro(42))
    BY <2>2 DEF OneTask, example_pollcoro_uses_cppcoro, Program, Drivers, Adapters
  <2> QED BY <2>1, <2>3, OneTaskIsCompatible
<1>13. Compatible(example_cppcoro_drives_pollcoro)
  <2>1. poll_chain_cppcoro \in Seq(AnAwait)
    BY <1>4
  <2>2. Given(poll_chain_cppcoro) = 30
    BY <1>4
  <2>3. OneTask(example_cppcoro_drives_pollcoro, poll_chain_cppcoro)
    BY <1>4, <2>2 DEF OneTask, example_cppcoro_drives_pollcoro, Program, Drivers, Adapters
  <2> QED BY <2>1, <2>3, OneTaskIsCompatible
<1>14. Compatible(example_error_handling)
  <2>1. <<Yield(1, 0)>> \in Seq(AnAwait)
    BY <1>2
  <2>2. Given(<<Yield(1, 0)>>) = 0
    <3> DEFINE b == <<Yield(1, 0)>>
    <3>1. /\ b \in Seq(AnAwait) /\ Len(b) = 1
          /\ b[1].gives = 0
      BY <2>1 DEF Yield, Foreign
    <3> HIDE DEF b
    <3>2. Given(b) = b[1].gives
      BY <3>1, GivenShort
    <3>3. Given(b) = 0
      BY <3>1, <3>2
    <3> QED BY <3>3 DEF b
  <2>3. OneTask(example_error_handling, <<Yield(1, 0)>>)
    BY <2>2 DEF OneTask, example_error_handling, Program, Throwing, Drivers, Adapters
  <2> QED BY <2>1, <2>3, OneTaskIsCompatible
<1>15. Compatible(example_chained_cppcoro)
  <2>1. <<cppcoro_compute(5), cppcoro_compute(10)>> \in Seq(AnAwait)
    BY <1>2 DEF cppcoro_compute
  <2>2. Given(<<cppcoro_compute(5), cppcoro_compute(10)>>) = 30
    <3> DEFINE b == <<cppcoro_compute(5), cppcoro_compute(10)>>
    <3>1. /\ b \in Seq(AnAwait) /\ Len(b) = 2
          /\ b[1].gives = 10 /\ b[2].gives = 20
      BY <2>1 DEF cppcoro_compute, Yield, Foreign
    <3> HIDE DEF b
    <3>2. Given(b) = b[1].gives + b[2].gives
      BY <3>1, GivenShort
    <3>3. Given(b) = 30
      BY <3>1, <3>2
    <3> QED BY <3>3 DEF b
  <2>3. OneTask(example_chained_cppcoro, <<cppcoro_compute(5), cppcoro_compute(10)>>)
    BY <2>2 DEF OneTask, example_chained_cppcoro, Program, Drivers, Adapters
  <2> QED BY <2>1, <2>3, OneTaskIsCompatible
<1>16. Compatible(example_mixed_operations)
  <2>1. <<Yield(1, 0), Foreign(10), Yield(1, 0), Foreign(20), Yield(1, 0), Foreign(30)>> \in Seq(AnAwait)
    BY <1>2
  <2>2. Given(<<Yield(1, 0), Foreign(10), Yield(1, 0), Foreign(20), Yield(1, 0), Foreign(30)>>) = 60
    <3> DEFINE b == <<Yield(1, 0), Foreign(10), Yield(1, 0), Foreign(20), Yield(1, 0), Foreign(30)>>
    <3>1. /\ b \in Seq(AnAwait) /\ Len(b) = 6
          /\ b[1].gives = 0 /\ b[2].gives = 10 /\ b[3].gives = 0
          /\ b[4].gives = 20 /\ b[5].gives = 0 /\ b[6].gives = 30
      BY <2>1 DEF Yield, Foreign
    <3> HIDE DEF b
    <3>2. Given(b) = b[1].gives + b[2].gives + b[3].gives + b[4].gives + b[5].gives + b[6].gives
      BY <3>1, GivenShort
    <3>3. Given(b) = 60
      BY <3>1, <3>2
    <3> QED BY <3>3 DEF b
  <2>3. OneTask(example_mixed_operations, <<Yield(1, 0), Foreign(10), Yield(1, 0), Foreign(20), Yield(1, 0), Foreign(30)>>)
    BY <2>2 DEF OneTask, example_mixed_operations, Program, Drivers, Adapters
  <2> QED BY <2>1, <2>3, OneTaskIsCompatible
<1>17. Compatible(c_main)
  <2>1. task \in Seq(AnAwait)
    BY <1>2 DEF task
  <2>2. Given(task) = 0
    <3> DEFINE b == task
    <3>1. /\ b \in Seq(AnAwait) /\ Len(b) = 1
          /\ b[1].gives = 0
      BY <2>1 DEF task, Yield, Foreign
    <3> HIDE DEF b
    <3>2. Given(b) = b[1].gives
      BY <3>1, GivenShort
    <3>3. Given(b) = 0
      BY <3>1, <3>2
    <3> QED BY <3>3 DEF b
  <2>3. OneTask(c_main, task)
    BY <2>2 DEF OneTask, c_main, Program, Drivers, Adapters
  <2> QED BY <2>1, <2>3, OneTaskIsCompatible
<1>18. Compatible(async_main)
  <2>1. task \in Seq(AnAwait)
    BY <1>2 DEF task
  <2>2. Given(task) = 0
    <3> DEFINE b == task
    <3>1. /\ b \in Seq(AnAwait) /\ Len(b) = 1
          /\ b[1].gives = 0
      BY <2>1 DEF task, Yield, Foreign
    <3> HIDE DEF b
    <3>2. Given(b) = b[1].gives
      BY <3>1, GivenShort
    <3>3. Given(b) = 0
      BY <3>1, <3>2
    <3> QED BY <3>3 DEF b
  <2>3. OneTask(async_main, task)
    BY <2>2 DEF OneTask, async_main, Program, Drivers, Adapters
  <2> QED BY <2>1, <2>3, OneTaskIsCompatible
<1> QED BY <1>5, <1>6, <1>7, <1>8, <1>9, <1>10, <1>11, <1>12, <1>13, <1>14, <1>15, <1>16, <1>17, <1>18 DEF ExamplePrograms

LEMMA StepTypes ==
    /\ Timer \in AStep
    /\ \A f \in Futures : ToAsio(f) \in AStep /\ Spawn(f) \in AStep /\ Get(f) \in AStep
  BY DEF AStep, Timer, ToAsio, Spawn, Get, None

LEMMA TimerExampleIsCompatible == Compatible(example_asio_timer_with_pollcoro)
<1> DEFINE p == example_asio_timer_with_pollcoro
           s == <<Timer, ToAsio(1), Timer, ToAsio(2), Timer, ToAsio(3)>>
<1>1. /\ p.driver = "to_asio" /\ p.adapter = "from_asio" /\ p.throws = FALSE
      /\ p.bodies = [i \in 1..3 |-> <<Yield(1, i * 10)>>]
      /\ p.script = s
  BY DEF example_asio_timer_with_pollcoro, Program
<1>2. p.bodies \in [1..3 -> Seq(AnAwait)]
  <2>1. \A i \in 1..3 : Yield(1, i * 10) \in AnAwait
    <3>1. \A i \in 1..3 : i * 10 \in Int
      OBVIOUS
    <3> QED BY <3>1, AwaitTypes
  <2>2. \A i \in 1..3 : <<Yield(1, i * 10)>> \in Seq(AnAwait)
    BY <2>1, Tuples
  <2> HIDE DEF p, s
  <2> QED BY <1>1, <2>2, Zenon
<1>3. s \in Seq(AStep) /\ DOMAIN s = 1..6
  BY StepTypes DEF Futures
<1>4. IsScript(p)
  <2>1. \A i \in 1..6 : s[i] = Timer \/ s[i].future \in 1..3
    BY DEF ToAsio
  <2>2. \A i \in 1..6 : s[i].do # "get"
    BY DEF Timer, ToAsio
  <2>3. \A i, j \in 1..6 : \A f : Makes(p, i, f) /\ Makes(p, j, f) => i = j
    BY <1>1 DEF Makes, Timer, ToAsio, Spawn
  <2> HIDE DEF p, s
  <2> QED BY <1>1, <1>2, <1>3, <2>1, <2>2, <2>3 DEF IsScript, GetsAfterTimer
<1> HIDE DEF p, s
<1>5. IsProgram(p)
  <2>1. 3 \in Futures /\ p.script \in Seq(AStep)
    BY <1>1, <1>3 DEF Futures
  <2>2. \E n \in Futures : p.bodies \in [1..n -> Seq(AnAwait)]
    BY <1>2, <2>1, Zenon
  <2> QED BY <1>1, <2>1, <2>2 DEF IsProgram, Drivers, Adapters
<1>6. Announces(p)
  <2>1. \A i \in 1..3 : TaskGives(p, i) = i * 10
    <3> SUFFICES ASSUME NEW i \in 1..3 PROVE Given(p.bodies[i]) = i * 10
      BY <1>2 DEF TaskGives
    <3> DEFINE b == p.bodies[i]
    <3>1. b \in Seq(AnAwait)
      BY <1>2
    <3>2. b = <<Yield(1, i * 10)>>
      BY <1>1
    <3>3. Len(b) = 1 /\ b[1].gives = i * 10
      BY <3>2 DEF Yield
    <3> HIDE DEF b
    <3>4. Given(b) = i * 10
      BY <3>1, <3>3, GivenShort
    <3> QED BY <3>4 DEF b
  <2>2. TaskGives(p, 1) = 10 /\ TaskGives(p, 2) = 20 /\ TaskGives(p, 3) = 30
    BY <2>1
  <2>3. p.times = 1 /\ p.plus = 0 /\ p.announced = 60
    BY DEF p, example_asio_timer_with_pollcoro, Program
  <2> QED BY <2>2, <2>3 DEF Announces
<1>7. Compatible(p)
  BY <1>1, <1>4, <1>5, <1>6 DEF Compatible
<1> QED BY <1>7 DEF p

LEMMA SpawnExampleIsCompatible == Compatible(example_concurrent_pollcoro_in_asio)
<1> DEFINE p == example_concurrent_pollcoro_in_asio
           s == <<Spawn(1), Spawn(2), Spawn(3), Timer, Get(1), Get(2), Get(3)>>
<1>1. /\ p.driver = "to_asio" /\ p.adapter = "from_asio" /\ p.throws = FALSE
      /\ p.bodies = [id \in 1..3 |-> <<Yield(1, 0), Yield(1, 0), Yield(1, id * 100)>>]
      /\ p.script = s
  BY DEF example_concurrent_pollcoro_in_asio, Program
<1>2. p.bodies \in [1..3 -> Seq(AnAwait)]
  <2>1. \A i \in 1..3 : Yield(1, 0) \in AnAwait /\ Yield(1, i * 100) \in AnAwait
    BY AwaitTypes
  <2> QED BY <1>1, <2>1
<1>3. s \in Seq(AStep) /\ DOMAIN s = 1..7
  BY StepTypes DEF Futures
<1>4. IsScript(p)
  <2>1. \A i \in 1..7 : s[i] = Timer \/ s[i].future \in 1..3
    BY DEF Spawn, Get
  <2>2. \A i, j \in 1..7 : \A f : Makes(p, i, f) /\ Makes(p, j, f) => i = j
    BY <1>1 DEF Makes, Timer, ToAsio, Spawn, Get
  <2>3. \A f \in 1..3 : NeverWaits(p, f)
    BY <1>1 DEF NeverWaits, Yield
  <2>4. \A k \in 1..7 :
           s[k].do = "get" => k > 4 /\ s[k].future \in 1..3 /\ s[s[k].future] = Spawn(s[k].future)
    BY DEF Timer, Spawn, Get
  <2>5. s[4] = Timer
    OBVIOUS
  <2> HIDE DEF p, s
  <2>6. GetsAfterTimer(p)
    <3>0. p.script = s /\ DOMAIN s = 1..7
      BY <1>1, <1>3
    <3> SUFFICES ASSUME NEW k \in DOMAIN p.script, p.script[k].do = "get"
                 PROVE  LET f == p.script[k].future IN
                        /\ NeverWaits(p, f)
                        /\ \E i, j \in 1..(k - 1) :
                              i < j /\ p.script[i] = Spawn(f) /\ p.script[j] = Timer
      BY Zenon DEF GetsAfterTimer
    <3> DEFINE f == p.script[k].future
    <3>1. k \in 1..7 /\ k > 4 /\ f \in 1..3 /\ s[f] = Spawn(f)
      BY <2>4, <3>0
    <3> HIDE DEF f
    <3>2. f \in 1..(k - 1) /\ 4 \in 1..(k - 1) /\ f < 4
      BY <3>1
    <3>3. NeverWaits(p, f) /\ \E i, j \in 1..(k - 1) :
              i < j /\ p.script[i] = Spawn(f) /\ p.script[j] = Timer
      BY <2>3, <2>5, <3>0, <3>1, <3>2
    <3> QED BY <3>3 DEF f
  <2> QED BY <1>1, <1>2, <1>3, <2>1, <2>2, <2>6 DEF IsScript
<1> HIDE DEF p, s
<1>5. IsProgram(p)
  <2>1. 3 \in Futures /\ p.script \in Seq(AStep)
    BY <1>1, <1>3 DEF Futures
  <2>2. \E n \in Futures : p.bodies \in [1..n -> Seq(AnAwait)]
    BY <1>2, <2>1, Zenon
  <2> QED BY <1>1, <2>1, <2>2 DEF IsProgram, Drivers, Adapters
<1>6. Announces(p)
  <2>1. \A i \in 1..3 : TaskGives(p, i) = i * 100
    <3> SUFFICES ASSUME NEW i \in 1..3 PROVE Given(p.bodies[i]) = i * 100
      BY <1>2 DEF TaskGives
    <3> DEFINE b == p.bodies[i]
    <3>1. b \in Seq(AnAwait)
      BY <1>2
    <3>2. b = <<Yield(1, 0), Yield(1, 0), Yield(1, i * 100)>>
      BY <1>1
    <3>3. Len(b) = 3 /\ b[1].gives = 0 /\ b[2].gives = 0 /\ b[3].gives = i * 100
      BY <3>2 DEF Yield
    <3> HIDE DEF b
    <3>4. Given(b) = i * 100
      BY <3>1, <3>3, GivenShort
    <3> QED BY <3>4 DEF b
  <2>2. TaskGives(p, 1) = 100 /\ TaskGives(p, 2) = 200 /\ TaskGives(p, 3) = 300
    BY <2>1
  <2>3. p.times = 1 /\ p.plus = 0 /\ p.announced = 600
    BY DEF p, example_concurrent_pollcoro_in_asio, Program
  <2> QED BY <2>2, <2>3 DEF Announces
<1>7. Compatible(p)
  BY <1>1, <1>4, <1>5, <1>6 DEF Compatible
<1> QED BY <1>7 DEF p

LEMMA FamiliesAreCompatible ==
    ASSUME NEW name \in CompatibleFamilies, NEW p \in Family(name, MaxAwaits)
    PROVE  Compatible(p)
<1> USE DEF Drivers, Adapters
<1>1. CASE name = "examples"
  BY <1>1, ExamplesWithOneTask, TimerExampleIsCompatible, SpawnExampleIsCompatible DEF Family
<1>2. \A kinds \in SUBSET Awaits : Bodies(MaxAwaits, kinds) \subseteq Seq(AnAwait)
  BY BodyType
<1>3. Awaits \in SUBSET Awaits /\ Yields \cup {"call"} \in SUBSET Awaits
  BY DEF Awaits
<1>4. CASE name = "block_on"
  <2>1. PICK a \in {"from_asio", "to_pollable"} :
          p \in Running("block_on", a, <<>>, Bodies(MaxAwaits, Awaits))
    BY <1>4 DEF Family
  <2> QED BY <1>2, <1>3, <2>1, RunningProgram
<1>5. CASE name = "to_asio"
  <2>1. p \in Running("to_asio", "from_asio", <<ToAsio(1)>>, Bodies(MaxAwaits, Awaits))
    BY <1>5 DEF Family
  <2> QED BY <1>2, <1>3, <2>1, RunningProgram
<1>6. CASE name = "to_resumable"
  <2> DEFINE bodies == {body \in Bodies(MaxAwaits, Awaits) : ~WakesAtTheEnd(body)}
  <2>1. p \in Running("to_resumable", "to_pollable", <<>>, bodies)
    BY <1>6 DEF Family
  <2>2. bodies \in SUBSET Seq(AnAwait) /\ \A body \in bodies : ~WakesAtTheEnd(body)
    BY <1>2, <1>3
  <2> HIDE DEF bodies
  <2> QED BY <2>1, <2>2, RunningProgram
<1>7. CASE name = "future_container"
  <2>1. p \in Running("future_container", "to_pollable", <<>>, Bodies(MaxAwaits, Awaits))
    BY <1>7 DEF Family
  <2> QED BY <1>2, <1>3, <2>1, RunningProgram
<1>8. CASE name = "c_main"
  <2> DEFINE bodies ==
        {body \in Bodies(MaxAwaits, Yields \cup {"call"}) : WakesAtTheEnd(body)}
  <2>1. p \in Running("c_main", "none", <<>>, bodies)
    BY <1>8 DEF Family
  <2>2. bodies \in SUBSET Seq(AnAwait)
    BY <1>2, <1>3
  <2> HIDE DEF bodies
  <2> QED BY <2>1, <2>2, RunningProgram
<1> QED BY <1>1, <1>4, <1>5, <1>6, <1>7, <1>8 DEF CompatibleFamilies

------------------------------------------------------------------------------
(* What the types say of the program.                                      *)

LEMMA ProgramFacts ==
    ASSUME Compatible(program)
    PROVE  /\ Used \subseteq Futures
           /\ program.driver \in Drivers
           /\ program.adapter \in Adapters
           /\ program.throws \in BOOLEAN
           /\ program.script \in Seq(AStep)
           /\ Len(program.script) \in Nat
           /\ DOMAIN program.script = 1..Len(program.script)
           /\ program.driver = "to_asio" => program.adapter = "from_asio" /\ IsScript(program)
           /\ program.driver # "to_asio" => program.script = <<>>
           /\ \A f \in Used :
                 /\ Len(Body(f)) \in Nat
                 /\ DOMAIN Body(f) = 1..Len(Body(f))
                 /\ \A i \in 1..Len(Body(f)) :
                       /\ Body(f)[i].on \in {"call", "yield", "foreign"}
                       /\ Body(f)[i].polls \in Nat
                       /\ Body(f)[i].gives \in Int
                 /\ program.driver = "to_resumable" /\ Len(Body(f)) # 0 =>
                       Body(f)[Len(Body(f))].on # "yield"
<1>1. PICK n \in Futures : program.bodies \in [1..n -> Seq(AnAwait)]
  BY DEF Compatible, IsProgram
<1>2. Used = 1..n
  BY <1>1 DEF Used
<1>3. Used \subseteq Futures
  BY <1>2 DEF Futures
<1>4. program.script \in Seq(AStep)
  BY DEF Compatible, IsProgram
<1>5. Len(program.script) \in Nat /\ DOMAIN program.script = 1..Len(program.script)
  BY <1>4, LenProperties
<1>6. ASSUME NEW f \in Used
      PROVE  /\ Len(Body(f)) \in Nat
             /\ DOMAIN Body(f) = 1..Len(Body(f))
             /\ \A i \in 1..Len(Body(f)) :
                   /\ Body(f)[i].on \in {"call", "yield", "foreign"}
                   /\ Body(f)[i].polls \in Nat
                   /\ Body(f)[i].gives \in Int
             /\ program.driver = "to_resumable" /\ Len(Body(f)) # 0 =>
                   Body(f)[Len(Body(f))].on # "yield"
  <2>1. Body(f) \in Seq(AnAwait)
    BY <1>1, <1>2 DEF Body
  <2>2. Len(Body(f)) \in Nat /\ DOMAIN Body(f) = 1..Len(Body(f))
    BY <2>1, LenProperties
  <2>3. \A i \in 1..Len(Body(f)) : Body(f)[i] \in AnAwait
    BY <2>1, ElementOfSeq
  <2>4. program.driver = "to_resumable" => ~WakesAtTheEnd(Body(f))
    BY DEF Compatible, Used, Body
  <2>5. Body(f) = <<>> => Len(Body(f)) = 0
    OBVIOUS
  <2> QED BY <2>2, <2>3, <2>4, <2>5 DEF AnAwait, WakesAtTheEnd
<1> QED BY <1>3, <1>4, <1>5, <1>6 DEF Compatible, IsProgram

LEMMA IInvInit == Families \subseteq CompatibleFamilies /\ Init => IInv
<1> SUFFICES ASSUME Families \subseteq CompatibleFamilies, Init PROVE IInv
  OBVIOUS
<1>1. Compatible(program)
  BY FamiliesAreCompatible DEF Init
<1> USE ProgramFacts, <1>1
<1>2. /\ at = [f \in Futures |-> 0] /\ left = [f \in Futures |-> 0]
      /\ sum = [f \in Futures |-> 0] /\ failed = [f \in Futures |-> FALSE]
      /\ stage = [f \in Futures |-> "idle"] /\ result = [f \in Futures |-> "pending"]
      /\ op = [f \in Futures |-> "none"] /\ waker = [f \in Futures |-> FALSE]
      /\ driver = [f \in Futures |->
            IF f \in Used /\ program.driver # "to_asio" THEN "start" ELSE "unborn"]
      /\ flag = [f \in Futures |-> FALSE]
      /\ step = 1 /\ destroyed = {}
      /\ main = IF program.script = <<>> THEN "over" ELSE "suspended"
      /\ queue = IF program.script = <<>> THEN <<>> ELSE <<<<"main", None>>>>
  BY DEF Init
<1>3. queue \in Seq(Handlers) /\ Distinct(queue)
  <2>1. <<"main", None>> \in Handlers
    BY DEF Handlers
  <2>2. <<<<"main", None>>>> \in Seq(Handlers) /\ <<>> \in Seq(Handlers)
    BY <2>1
  <2>3. Distinct(<<<<"main", None>>>>) /\ Distinct(<<>>)
    BY DEF Distinct
  <2> QED BY <1>2, <2>2, <2>3
<1>4. /\ \A f \in Used, name \in {"spawn", "finish", "poll", "begin"} : ~Posted(name, f)
      /\ MainPosted => program.driver = "to_asio" /\ main = "suspended"
  BY <1>2 DEF Posted, MainPosted, Contains
<1>5. TypeOK
  BY <1>2, <1>3 DEF TypeOK, TaskTypes, PollTypes, OpTypes, DriverTypes, MainTypes, Places,
                    Drivers
<1>6. \A f \in Used : FutureInv(f)
  BY <1>2 DEF FutureInv, Ends, IsAwaited, InPoll, Resumable
<1>7. QueueInv
  BY <1>3, <1>4 DEF QueueInv, Expected
<1>8. program.driver = "to_asio" => AsioInv
  BY <1>2, <1>4 DEF AsioInv, OneAtATime, MadeOnce, Woken, HasWoken, SpawnedBegins, Active,
     Locked
<1> QED BY <1>5, <1>6, <1>7, <1>8 DEF IInv

------------------------------------------------------------------------------
(* What a step does to the loop's queue.                                   *)

LEMMA PostFacts ==
    ASSUME queue \in Seq(Handlers), Distinct(queue), NEW name, NEW f,
           <<name, f>> \in Handlers, ~Posted(name, f), Post(name, f)
    PROVE  /\ Distinct(queue')
           /\ \A n, g : Posted(n, g)' <=> Posted(n, g) \/ (n = name /\ g = f)
           /\ \A g : BeginsBeforeMain(g) => BeginsBeforeMain(g)'
           /\ name = "main" /\ f = None =>
                 \A g : Posted("begin", g) => BeginsBeforeMain(g)'
<1>1. queue' = Append(queue, <<name, f>>)
  BY DEF Post
<1>2. /\ Distinct(queue')
      /\ \A u : Contains(queue', u) <=> Contains(queue, u) \/ u = <<name, f>>
  BY <1>1, AppendToQueue DEF Posted
<1>3. \A n, g : Posted(n, g)' <=> Posted(n, g) \/ (n = name /\ g = f)
  BY <1>2 DEF Posted
<1>4. /\ Len(queue) \in Nat /\ DOMAIN queue = 1..Len(queue)
      /\ DOMAIN queue' = 1..(Len(queue) + 1)
      /\ \A i \in 1..Len(queue) : queue'[i] = queue[i]
      /\ queue'[Len(queue) + 1] = <<name, f>>
  BY <1>1, AppendProperties, LenProperties
<1>5. \A g : BeginsBeforeMain(g) => BeginsBeforeMain(g)'
  BY <1>4 DEF BeginsBeforeMain
<1>6. ASSUME name = "main", f = None, NEW g, Posted("begin", g) PROVE BeginsBeforeMain(g)'
  <2>1. PICK i \in 1..Len(queue) : queue[i] = <<"begin", g>>
    BY <1>6 DEF Posted, Contains
  <2>2. i \in DOMAIN queue' /\ Len(queue) + 1 \in DOMAIN queue' /\ i < Len(queue) + 1
    BY <1>4
  <2> QED BY <1>4, <1>6, <2>1, <2>2 DEF BeginsBeforeMain
<1> QED BY <1>2, <1>3, <1>5, <1>6

LEMMA TakeFacts ==
    ASSUME queue \in Seq(Handlers), Distinct(queue), queue # <<>>, queue' = Tail(queue)
    PROVE  /\ Head(queue) \in Handlers
           /\ queue' \in Seq(Handlers)
           /\ Distinct(queue')
           /\ \A n, g : Posted(n, g)' <=> Posted(n, g) /\ <<n, g>> # Head(queue)
           /\ \A n, g : <<n, g>> = Head(queue) => Posted(n, g)
           /\ \A g : BeginsBeforeMain(g) /\ Head(queue) # <<"begin", g>> =>
                 Head(queue) # <<"main", None>> /\ BeginsBeforeMain(g)'
<1>1. /\ Head(queue) \in Handlers /\ Contains(queue, Head(queue))
      /\ queue' \in Seq(Handlers) /\ Distinct(queue')
      /\ \A u : Contains(queue', u) <=> Contains(queue, u) /\ u # Head(queue)
  BY TailOfQueue
<1>2. ASSUME NEW g, BeginsBeforeMain(g), Head(queue) # <<"begin", g>>
      PROVE  Head(queue) # <<"main", None>> /\ BeginsBeforeMain(g)'
  <2>1. /\ Len(queue) \in Nat /\ DOMAIN queue = 1..Len(queue)
        /\ DOMAIN queue' = 1..(Len(queue) - 1)
        /\ \A i \in 1..(Len(queue) - 1) : queue'[i] = queue[i + 1]
        /\ Head(queue) = queue[1]
    BY HeadTailProperties, LenProperties
  <2>2. PICK p, q \in 1..Len(queue) :
          p < q /\ queue[p] = <<"begin", g>> /\ queue[q] = <<"main", None>>
    BY <1>2, <2>1 DEF BeginsBeforeMain
  <2>3. p # 1 /\ 1 \in 1..Len(queue) /\ q # 1
    BY <1>2, <2>1, <2>2
  <2>4. Head(queue) # <<"main", None>>
    BY <2>1, <2>2, <2>3 DEF Distinct
  <2>5. /\ p - 1 \in 1..(Len(queue) - 1) /\ q - 1 \in 1..(Len(queue) - 1)
        /\ p - 1 < q - 1 /\ (p - 1) + 1 = p /\ (q - 1) + 1 = q
    BY <2>1, <2>2, <2>3
  <2>6. queue'[p - 1] = <<"begin", g>> /\ queue'[q - 1] = <<"main", None>>
    BY <2>1, <2>2, <2>5
  <2> QED BY <2>1, <2>4, <2>5, <2>6 DEF BeginsBeforeMain
<1> QED BY <1>1, <1>2 DEF Posted

\* What a wake may change, and what it changes under each driver.
LEMMA WakeFacts ==
    ASSUME TypeOK, NEW f \in Used, Wake(f), UNCHANGED program
    PROVE  /\ queue' \in Seq(Handlers)
           /\ driver' \in [Futures -> {"unborn"} \cup Places]
           /\ \A g \in Used : driver'[g] \in Places
           /\ flag' \in [Futures -> BOOLEAN]
           /\ \A g \in Futures \ {f} : driver'[g] = driver[g] /\ flag'[g] = flag[g]
           /\ program.driver # "to_asio" \/ driver[f] = "polling" => queue' = queue
           /\ program.driver = "to_asio" /\ driver[f] # "polling" => Post("poll", f)
           /\ program.driver \in {"block_on", "c_main", "to_asio"} =>
                 driver'[f] = driver[f] /\ flag'[f]
           /\ program.driver = "to_resumable" =>
                 driver'[f] = (IF flag[f] THEN driver[f] ELSE "resumed") /\ flag'[f]
           /\ program.driver = "future_container" =>
                 driver'[f] = IF driver[f] = "waiting" THEN "resumed" ELSE driver[f]
<1>1. /\ Compatible(program) /\ queue \in Seq(Handlers)
      /\ driver \in [Futures -> {"unborn"} \cup Places] /\ \A g \in Used : driver[g] \in Places
      /\ flag \in [Futures -> BOOLEAN]
  BY DEF TypeOK, DriverTypes
<1>2. Used \subseteq Futures /\ program.driver \in Drivers
  BY <1>1, ProgramFacts
<1>3. Append(queue, <<"poll", f>>) \in Seq(Handlers)
  BY <1>1, AppendProperties DEF Handlers
<1>4. CASE program.driver \in {"block_on", "c_main"}
  <2>1. NotifyLoop(f)
    BY <1>4 DEF Wake
  <2> QED BY <1>1, <1>2, <1>4, <2>1 DEF NotifyLoop
<1>5. CASE program.driver = "to_asio"
  <2>1. AsioWake(f)
    BY <1>5 DEF Wake
  <2>2. /\ driver' = driver /\ flag' = [flag EXCEPT ![f] = TRUE]
        /\ IF driver[f] = "polling" THEN queue' = queue ELSE Post("poll", f)
    BY <2>1 DEF AsioWake
  <2> QED BY <1>1, <1>2, <1>3, <1>5, <2>2 DEF Post
<1>6. CASE program.driver = "to_resumable"
  <2>1. ResumableWake(f)
    BY <1>6 DEF Wake
  <2> QED BY <1>1, <1>2, <1>6, <2>1 DEF ResumableWake, Places
<1>7. CASE program.driver = "future_container"
  <2>1. EventSet(f)
    BY <1>7 DEF Wake
  <2> QED BY <1>1, <1>2, <1>7, <2>1 DEF EventSet, Places
<1> QED BY <1>2, <1>4, <1>5, <1>6, <1>7 DEF Drivers

------------------------------------------------------------------------------
(* The steps of a future: types, and what holds of the future.             *)

\* No other future changes.
OthersStay(f) ==
    \A g \in Futures \ {f} :
        /\ at'[g] = at[g] /\ stage'[g] = stage[g] /\ result'[g] = result[g]
        /\ op'[g] = op[g] /\ waker'[g] = waker[g]
        /\ driver'[g] = driver[g] /\ flag'[g] = flag[g]

LEMMA TypesStay ==
    ASSUME TypeOK, UNCHANGED program
    PROVE  /\ Compatible(program)' /\ Used' = Used /\ Handlers' = Handlers /\ Places' = Places
           /\ \A f : Body(f)' = Body(f)
           /\ UNCHANGED taskVars => TaskTypes'
           /\ UNCHANGED pollVars => PollTypes'
           /\ UNCHANGED opVars => OpTypes'
           /\ UNCHANGED <<driver, flag>> => DriverTypes'
           /\ UNCHANGED mainVars => MainTypes'
<1>1. /\ Compatible(program)' /\ Used' = Used /\ Handlers' = Handlers /\ Places' = Places
      /\ \A f : Body(f)' = Body(f)
  BY DEF TypeOK, Used, Handlers, Places, Body
<1> QED BY <1>1 DEF TypeOK, TaskTypes, PollTypes, OpTypes, DriverTypes, MainTypes, taskVars, pollVars,
       opVars, mainVars

\* What the types say of one future.
LEMMA FutureFacts ==
    ASSUME TypeOK, NEW f \in Used
    PROVE  /\ f \in Futures
           /\ at[f] \in Nat /\ Len(Body(f)) \in Nat /\ DOMAIN Body(f) = 1..Len(Body(f))
           /\ stage[f] \in {"idle", "leaf", "body", "end"}
           /\ result[f] \in {"pending", "ready"}
           /\ op[f] \in {"none", "posted", "running", "expired", "result", "waking",
                          "woken", "leaving", "done"}
           /\ waker[f] \in BOOLEAN /\ flag[f] \in BOOLEAN /\ driver[f] \in Places
           /\ <<"spawn", f>> \in Handlers /\ <<"finish", f>> \in Handlers
           /\ <<"poll", f>> \in Handlers /\ <<"begin", f>> \in Handlers
  BY ProgramFacts DEF TypeOK, TaskTypes, PollTypes, OpTypes, DriverTypes, Handlers

\* Where the driver is between polls.
LEMMA IdleFacts ==
    ASSUME TypeOK, NEW f \in Used, FutureInv(f),
           driver[f] \in {"unborn", "start", "polled", "waiting", "over"}
    PROVE  stage[f] = "idle"
  BY FutureFacts DEF FutureInv, InPoll, Resumable

\* In the middle of a poll the task has not ended.
LEMMA MidPollFacts ==
    ASSUME TypeOK, NEW f \in Used, FutureInv(f), stage[f] \in {"leaf", "body"}
    PROVE  /\ at[f] \in 0..Len(Body(f)) /\ result[f] = "pending"
           /\ at[f] # 0 => at[f] \in DOMAIN Body(f) /\ Await(f) = Body(f)[at[f]]
           /\ at[f] = 0 => Await(f).on = "call"
           /\ Await(f).gives \in Int
           /\ stage[f] = "leaf" \/ program.driver # "to_resumable" => driver[f] = "polling"
           /\ stage[f] = "body" => op[f] \in {"none", "leaving", "done"}
<1>1. result[f] = "pending"
  BY FutureFacts DEF FutureInv, Ends
<1>2. at[f] \in 0..Len(Body(f))
  <2>1. at[f] <= Len(Body(f)) + 1 /\ at[f] # Len(Body(f)) + 1
    BY <1>1 DEF FutureInv, Ends
  <2>2. at[f] \in Nat /\ Len(Body(f)) \in Nat
    BY FutureFacts
  <2> QED BY <2>1, <2>2
<1>3. /\ at[f] # 0 => at[f] \in DOMAIN Body(f) /\ Await(f) = Body(f)[at[f]]
      /\ at[f] = 0 => Await(f).on = "call"
  BY <1>2, FutureFacts DEF Await, Call
<1>4. stage[f] = "leaf" \/ program.driver # "to_resumable" => driver[f] = "polling"
  BY DEF FutureInv, InPoll, Resumable
<1>5. stage[f] = "body" => op[f] \in {"none", "leaving", "done"}
  BY FutureFacts DEF FutureInv, IsAwaited
<1>6. Await(f).gives \in Int
  <2>1. CASE at[f] = 0
    BY <2>1 DEF Await, Call
  <2>2. CASE at[f] # 0
    <3>1. at[f] \in 1..Len(Body(f)) /\ Compatible(program)
      BY <1>3, <2>2, FutureFacts DEF TypeOK
    <3>2. Body(f)[at[f]].gives \in Int
      BY <3>1, ProgramFacts
    <3> QED BY <1>3, <2>2, <3>2
  <2> QED BY <2>1, <2>2
<1> QED BY <1>1, <1>2, <1>3, <1>4, <1>5, <1>6

Keeps(f) == TypeOK' /\ OthersStay(f) /\ FutureInv(f)'

LEMMA PollStartStep ==
    ASSUME TypeOK, NEW f \in Used, FutureInv(f), PollStart(f) PROVE Keeps(f)
<1>1. /\ UNCHANGED <<program, taskVars, result, opVars, queue, mainVars, destroyed>>
      /\ driver[f] = "start" /\ stage[f] = "idle"
      /\ driver' = [driver EXCEPT ![f] = "polling"]
      /\ flag' = [flag EXCEPT ![f] = IF program.driver = "future_container" THEN @ ELSE FALSE]
      /\ stage' = [stage EXCEPT ![f] = "leaf"]
  BY IdleFacts DEF PollStart
<1>2. TypeOK'
  <2>1. DriverTypes' /\ PollTypes'
    BY <1>1, FutureFacts, TypesStay DEF TypeOK, DriverTypes, PollTypes, Places
  <2> QED BY <1>1, <2>1, TypesStay DEF TypeOK
<1>3. OthersStay(f) /\ driver'[f] = "polling" /\ stage'[f] = "leaf"
  BY <1>1, FutureFacts DEF TypeOK, DriverTypes, PollTypes, OthersStay, taskVars, opVars
<1>4. FutureInv(f)'
  BY <1>1, <1>3, FutureFacts, TypesStay DEF FutureInv, Ends, IsAwaited, InPoll, Resumable, taskVars, opVars
<1> QED BY <1>2, <1>3, <1>4 DEF Keeps

LEMMA PollCallStep ==
    ASSUME TypeOK, NEW f \in Used, FutureInv(f), PollCall(f) PROVE Keeps(f)
<1>1. /\ UNCHANGED <<program, taskVars, result, opVars, driverVars, mainVars, destroyed>>
      /\ stage[f] = "leaf" /\ Await(f).on = "call"
      /\ stage' = [stage EXCEPT ![f] = "body"]
  BY DEF PollCall, LeafDone
<1>2. TypeOK'
  <2>1. PollTypes'
    BY <1>1, FutureFacts DEF TypeOK, PollTypes
  <2> QED BY <1>1, <2>1, TypesStay DEF TypeOK, driverVars
<1>3. OthersStay(f) /\ stage'[f] = "body"
  BY <1>1, FutureFacts DEF TypeOK, PollTypes, OthersStay, taskVars, opVars, driverVars
<1>4. /\ UNCHANGED <<program, at, result, op, waker, driver, flag>> /\ Body(f)' = Body(f)
      /\ result[f] = "pending" /\ driver[f] = "polling"
      /\ op[f] \in {"none", "leaving", "done"}
  BY <1>1, MidPollFacts, FutureFacts, TypesStay DEF taskVars, opVars, driverVars, FutureInv, IsAwaited
<1>5. FutureInv(f)'
  <2>1. Ends(f)' /\ IsAwaited(f)'
    BY <1>3, <1>4 DEF FutureInv, Ends, IsAwaited
  <2>2. InPoll(f)'
    BY <1>3, <1>4 DEF FutureInv, InPoll, Resumable
  <2> QED BY <2>1, <2>2 DEF FutureInv
<1> QED BY <1>2, <1>3, <1>5 DEF Keeps

LEMMA PollYieldStep ==
    ASSUME TypeOK, NEW f \in Used, FutureInv(f), PollYield(f) PROVE Keeps(f)
<1>1. /\ UNCHANGED <<program, at, failed, opVars, mainVars, destroyed>>
      /\ stage[f] = "leaf" /\ Await(f).on = "yield"
      /\ left' = [left EXCEPT ![f] = @ - 1]
      /\ Wake(f)
      /\ \/ /\ stage' = [stage EXCEPT ![f] = "body"] /\ UNCHANGED result
            /\ sum' = [sum EXCEPT ![f] = @ + Await(f).gives]
         \/ /\ stage' = [stage EXCEPT ![f] = "end"]
            /\ result' = [result EXCEPT ![f] = "pending"] /\ UNCHANGED sum
  BY DEF PollYield, LeafDone, Pending
<1>2. TypeOK'
  <2>1. sum' \in [Futures -> Int]
    <3>1. sum \in [Futures -> Int] /\ f \in Futures /\ Await(f).gives \in Int
      BY <1>1, MidPollFacts, FutureFacts DEF TypeOK, TaskTypes
    <3>2. sum[f] + Await(f).gives \in Int
      BY <3>1
    <3> QED BY <1>1, <3>1, <3>2
  <2>2. left' \in [Futures -> Int]
    <3>1. left \in [Futures -> Int] /\ f \in Futures
      BY FutureFacts DEF TypeOK, TaskTypes
    <3>2. left[f] - 1 \in Int
      BY <3>1
    <3> QED BY <1>1, <3>1, <3>2
  <2>3. TaskTypes'
    BY <1>1, <2>1, <2>2 DEF TypeOK, TaskTypes
  <2>4. PollTypes'
    <3>1. /\ f \in Futures /\ stage \in [Futures -> {"idle", "leaf", "body", "end"}]
          /\ result \in [Futures -> {"pending", "ready"}]
      BY FutureFacts DEF TypeOK, PollTypes
    <3> QED BY <1>1, <3>1 DEF PollTypes
  <2>5. DriverTypes' /\ queue' \in Seq(Handlers)
    BY <1>1, WakeFacts, TypesStay DEF DriverTypes
  <2> QED BY <1>1, <2>3, <2>4, <2>5, TypesStay DEF TypeOK
<1>3. /\ at[f] \in DOMAIN Body(f) /\ Body(f)[at[f]].on = "yield"
      /\ result[f] = "pending" /\ driver[f] = "polling"
      /\ op[f] \in {"none", "leaving", "done"}
  BY <1>1, MidPollFacts, FutureFacts DEF FutureInv, IsAwaited
<1>4. program.driver = "to_resumable" => at[f] < Len(Body(f))
  <2>1. at[f] # Len(Body(f)) \/ program.driver # "to_resumable"
    BY <1>3, FutureFacts, ProgramFacts DEF TypeOK
  <2> QED BY <1>3, <2>1, FutureFacts
<1>5. /\ \A g \in Futures \ {f} : driver'[g] = driver[g] /\ flag'[g] = flag[g]
      /\ program.driver # "to_resumable" => driver'[f] = "polling"
      /\ program.driver = "to_resumable" => driver'[f] \in {"polling", "resumed"} /\ flag'[f]
  BY <1>1, <1>3, WakeFacts, ProgramFacts DEF Drivers, TypeOK
<1>6. OthersStay(f)
  BY <1>1, <1>5 DEF TypeOK, PollTypes, OthersStay, opVars
<1>7. /\ UNCHANGED <<program, at, op, waker>> /\ Body(f)' = Body(f)
      /\ stage'[f] \in {"body", "end"} /\ result'[f] = "pending"
  BY <1>1, <1>3, FutureFacts, TypesStay DEF TypeOK, PollTypes, opVars
<1>8. FutureInv(f)'
  <2>1. driver'[f] \in {"polling", "resumed"}
    BY <1>5
  <2>2. Ends(f)' /\ IsAwaited(f)'
    BY <1>3, <1>7, <2>1 DEF FutureInv, Ends, IsAwaited
  <2>3. InPoll(f)'
    BY <1>3, <1>4, <1>5, <1>7 DEF FutureInv, InPoll, Resumable
  <2> QED BY <2>2, <2>3 DEF FutureInv
<1> QED BY <1>2, <1>6, <1>8 DEF Keeps

LEMMA StartOperationStep ==
    ASSUME TypeOK, NEW f \in Used, FutureInv(f), StartOperation(f) PROVE Keeps(f)
<1>1. /\ UNCHANGED <<program, taskVars, pollVars, waker, driver, flag, mainVars, destroyed>>
      /\ stage[f] = "leaf" /\ Await(f).on = "foreign" /\ op[f] = "none"
      /\ op' = [op EXCEPT ![f] = "posted"]
      /\ queue' = Append(queue, <<"spawn", f>>)
  BY DEF StartOperation, AwaitsForeign, Post
<1>2. TypeOK'
  <2>1. OpTypes'
    BY <1>1, FutureFacts DEF TypeOK, OpTypes
  <2>2. queue' \in Seq(Handlers)
    BY <1>1, FutureFacts, AppendProperties DEF TypeOK
  <2> QED BY <1>1, <2>1, <2>2, TypesStay DEF TypeOK
<1>3. OthersStay(f) /\ op'[f] = "posted"
  BY <1>1, FutureFacts DEF TypeOK, OpTypes, OthersStay, taskVars, pollVars
<1>4. /\ UNCHANGED <<at, stage, result, waker, driver, flag, program>> /\ Body(f)' = Body(f)
      /\ at[f] \in DOMAIN Body(f) /\ Body(f)[at[f]].on = "foreign"
  BY <1>1, MidPollFacts, TypesStay DEF taskVars, pollVars
<1>5. FutureInv(f)'
  <2>1. Ends(f)' /\ IsAwaited(f)'
    BY <1>1, <1>4 DEF FutureInv, Ends, IsAwaited
  <2>2. InPoll(f)'
    BY <1>1, <1>3, <1>4 DEF FutureInv, InPoll, Resumable
  <2> QED BY <2>1, <2>2 DEF FutureInv
<1> QED BY <1>2, <1>3, <1>5 DEF Keeps

LEMMA PollForeignStep ==
    ASSUME TypeOK, NEW f \in Used, FutureInv(f), PollForeign(f) PROVE Keeps(f)
<1>1. /\ UNCHANGED <<program, at, left, failed, op, driverVars, mainVars, destroyed>>
      /\ stage[f] = "leaf" /\ Await(f).on = "foreign"
      /\ op[f] \notin {"none", "result", "waking", "woken"}
      /\ \/ /\ op[f] \in {"leaving", "done"}
            /\ stage' = [stage EXCEPT ![f] = "body"] /\ UNCHANGED <<result, waker>>
            /\ sum' = [sum EXCEPT ![f] = @ + Await(f).gives]
         \/ /\ op[f] \notin {"leaving", "done"}
            /\ stage' = [stage EXCEPT ![f] = "end"]
            /\ result' = [result EXCEPT ![f] = "pending"]
            /\ waker' = [waker EXCEPT ![f] = TRUE] /\ UNCHANGED sum
  BY DEF PollForeign, AwaitsForeign, Locked, LeafDone, Pending
<1>2. TypeOK'
  <2>1. sum' \in [Futures -> Int]
    <3>1. sum \in [Futures -> Int] /\ f \in Futures /\ Await(f).gives \in Int
      BY <1>1, MidPollFacts, FutureFacts DEF TypeOK, TaskTypes
    <3>2. sum[f] + Await(f).gives \in Int
      BY <3>1
    <3> QED BY <1>1, <3>1, <3>2
  <2>2. TaskTypes'
    BY <1>1, <2>1 DEF TypeOK, TaskTypes
  <2>3. PollTypes' /\ OpTypes'
    <3>1. /\ f \in Futures /\ PollTypes /\ OpTypes
          /\ \/ stage' = [stage EXCEPT ![f] = "body"] /\ UNCHANGED <<op, result, waker>>
             \/ /\ stage' = [stage EXCEPT ![f] = "end"] /\ UNCHANGED op
                /\ result' = [result EXCEPT ![f] = "pending"]
                /\ waker' = [waker EXCEPT ![f] = TRUE]
      BY <1>1, FutureFacts DEF TypeOK
    <3> QED BY <3>1 DEF PollTypes, OpTypes
  <2> QED BY <1>1, <2>2, <2>3, TypesStay DEF TypeOK, driverVars
<1>3. OthersStay(f)
  BY <1>1, FutureFacts DEF TypeOK, PollTypes, OpTypes, OthersStay, driverVars
<1>4. \/ /\ stage'[f] = "body" /\ result'[f] = "pending" /\ waker'[f] = waker[f]
         /\ op[f] \in {"leaving", "done"}
      \/ /\ stage'[f] = "end" /\ result'[f] = "pending" /\ waker'[f]
         /\ op[f] \notin {"none", "leaving", "done"}
  <2>1. /\ f \in Futures /\ result[f] = "pending"
        /\ f \in DOMAIN stage /\ f \in DOMAIN result /\ f \in DOMAIN waker
    BY <1>1, MidPollFacts, FutureFacts DEF TypeOK, PollTypes, OpTypes
  <2> QED BY <1>1, <2>1
<1>5. /\ UNCHANGED <<program, at, op, driver, flag>> /\ Body(f)' = Body(f)
      /\ at[f] \in DOMAIN Body(f) /\ Body(f)[at[f]].on = "foreign"
      /\ driver[f] = "polling" /\ result[f] = "pending"
  BY <1>1, MidPollFacts, TypesStay DEF driverVars
<1>6. FutureInv(f)'
  <2>1. Ends(f)' /\ IsAwaited(f)'
    BY <1>4, <1>5 DEF FutureInv, Ends, IsAwaited
  <2>2. InPoll(f)'
    BY <1>4, <1>5 DEF FutureInv, InPoll, Resumable
  <2> QED BY <2>1, <2>2 DEF FutureInv
<1> QED BY <1>2, <1>3, <1>6 DEF Keeps

LEMMA BodyGoesOnStep ==
    ASSUME TypeOK, NEW f \in Used, FutureInv(f), BodyGoesOn(f) PROVE Keeps(f)
<1> DEFINE next == at[f] + 1
<1>1. /\ UNCHANGED <<program, sum, failed, mainVars>>
      /\ stage[f] = "body" /\ driver[f] # "resumed" /\ next \in DOMAIN Body(f)
      /\ DestroyAwaited(f)
      /\ at' = [at EXCEPT ![f] = next]
      /\ left' = [left EXCEPT ![f] = Body(f)[next].polls]
      /\ op' = [op EXCEPT ![f] = IF Body(f)[next].on = "foreign" /\ program.adapter = "to_pollable"
                                 THEN "running" ELSE "none"]
      /\ waker' = [waker EXCEPT ![f] = FALSE]
      /\ stage' = [stage EXCEPT ![f] = "end"]
      /\ result' = [result EXCEPT ![f] = "pending"]
      /\ Wake(f)
  BY DEF BodyGoesOn, Pending
<1>2. f \in Futures /\ next \in Nat /\ next \in 1..Len(Body(f)) /\ Body(f)[next].polls \in Int
  BY <1>1, FutureFacts, ProgramFacts DEF TypeOK
<1> HIDE DEF next
<1>3. TypeOK'
  <2>1. TaskTypes'
    BY <1>1, <1>2 DEF TypeOK, TaskTypes
  <2>2. PollTypes' /\ OpTypes'
    BY <1>1, <1>2 DEF TypeOK, PollTypes, OpTypes
  <2>3. DriverTypes' /\ queue' \in Seq(Handlers)
    BY <1>1, WakeFacts, TypesStay DEF DriverTypes
  <2>4. destroyed' \subseteq Used \X {"frame", "awaiter"}
    BY <1>1 DEF TypeOK, DestroyAwaited
  <2> QED BY <1>1, <2>1, <2>2, <2>3, <2>4, TypesStay DEF TypeOK
<1>4. /\ result[f] = "pending"
      /\ program.driver # "to_resumable" => driver[f] = "polling"
      /\ program.driver = "to_resumable" =>
            driver[f] = "polling" \/ (driver[f] = "scheduled" /\ flag[f])
  BY <1>1, MidPollFacts DEF FutureInv, InPoll, Resumable
<1>5. /\ \A g \in Futures \ {f} : driver'[g] = driver[g] /\ flag'[g] = flag[g]
      /\ program.driver # "to_resumable" => driver'[f] = "polling"
      /\ program.driver = "to_resumable" => driver'[f] \in {"polling", "resumed", "scheduled"}
  BY <1>1, <1>4, WakeFacts, ProgramFacts DEF Drivers, TypeOK
<1>6. OthersStay(f)
  BY <1>1, <1>5 DEF TypeOK, TaskTypes, PollTypes, OpTypes, OthersStay
<1>7. /\ at'[f] = next /\ stage'[f] = "end" /\ result'[f] = "pending" /\ waker'[f] = FALSE
      /\ op'[f] = "none" \/ (op'[f] = "running" /\ Body(f)[next].on = "foreign")
      /\ program' = program /\ Body(f)' = Body(f) /\ DOMAIN Body(f) = 1..Len(Body(f))
      /\ Len(Body(f)) \in Nat
  BY <1>1, <1>2, FutureFacts, TypesStay DEF TypeOK, TaskTypes, PollTypes, OpTypes
<1>8. FutureInv(f)'
  <2>1. driver'[f] \in {"polling", "resumed", "scheduled"}
    BY <1>5
  <2>2. Ends(f)'
    BY <1>2, <1>7, <2>1 DEF Ends
  <2>3. IsAwaited(f)'
    BY <1>2, <1>7 DEF IsAwaited
  <2>4. InPoll(f)'
    BY <1>5, <1>7 DEF InPoll, Resumable
  <2> QED BY <2>2, <2>3, <2>4 DEF FutureInv
<1> QED BY <1>3, <1>6, <1>8 DEF Keeps

LEMMA BodyEndsStep ==
    ASSUME TypeOK, NEW f \in Used, FutureInv(f), BodyEnds(f) PROVE Keeps(f)
<1>1. /\ UNCHANGED <<program, left, sum, op, driverVars, mainVars>>
      /\ stage[f] = "body" /\ driver[f] # "resumed" /\ at[f] = Len(Body(f))
      /\ DestroyAwaited(f)
      /\ at' = [at EXCEPT ![f] = @ + 1]
      /\ failed' = [failed EXCEPT ![f] = program.throws]
      /\ waker' = [waker EXCEPT ![f] = @ /\ program.adapter = "to_pollable"]
      /\ stage' = [stage EXCEPT ![f] = "end"]
      /\ result' = [result EXCEPT ![f] = "ready"]
  BY DEF BodyEnds
<1>2. f \in Futures /\ at[f] + 1 \in Nat /\ program.throws \in BOOLEAN
  <2>1. f \in Futures /\ at[f] \in Nat
    BY FutureFacts
  <2>2. program.throws \in BOOLEAN
    BY ProgramFacts DEF TypeOK
  <2> QED BY <2>1, <2>2
<1>3. TypeOK'
  <2>1. TaskTypes'
    BY <1>1, <1>2 DEF TypeOK, TaskTypes
  <2>2. PollTypes' /\ OpTypes'
    BY <1>1, <1>2 DEF TypeOK, PollTypes, OpTypes
  <2>3. destroyed' \subseteq Used \X {"frame", "awaiter"}
    BY <1>1 DEF TypeOK, DestroyAwaited
  <2> QED BY <1>1, <2>1, <2>2, <2>3, TypesStay DEF TypeOK, driverVars
<1>4. OthersStay(f)
  BY <1>1 DEF TypeOK, TaskTypes, PollTypes, OpTypes, OthersStay, driverVars
<1>5. driver[f] = "polling" /\ op[f] \in {"none", "leaving", "done"}
  <2>1. ~(at[f] < Len(Body(f)))
    BY <1>1, FutureFacts
  <2> QED BY <1>1, <2>1, MidPollFacts DEF FutureInv, InPoll, Resumable
<1>6. /\ UNCHANGED <<program, op, driver, flag>> /\ Body(f)' = Body(f)
      /\ at'[f] = Len(Body(f)) + 1 /\ Len(Body(f)) \in Nat
      /\ stage'[f] = "end" /\ result'[f] = "ready" /\ waker'[f] \in BOOLEAN
      /\ waker'[f] => waker[f]
  BY <1>1, <1>2, FutureFacts, TypesStay DEF TypeOK, TaskTypes, PollTypes, OpTypes, driverVars
<1>7. FutureInv(f)'
  <2>1. Ends(f)'
    BY <1>5, <1>6 DEF Ends
  <2>2. IsAwaited(f)'
    BY <1>5, <1>6 DEF IsAwaited
  <2>3. InPoll(f)'
    BY <1>5, <1>6 DEF FutureInv, InPoll, Resumable
  <2> QED BY <2>1, <2>2, <2>3 DEF FutureInv
<1> QED BY <1>3, <1>4, <1>7 DEF Keeps

\* A driver that goes elsewhere, at most at the end of a poll.
LEMMA DriverGoes ==
    ASSUME TypeOK, NEW f \in Used, FutureInv(f), NEW to \in Places,
           UNCHANGED <<program, taskVars, result, opVars>>,
           destroyed' \subseteq Used \X {"frame", "awaiter"},
           Goes(f, to),
           stage' = stage \/ stage' = [stage EXCEPT ![f] = "idle"],
           flag' = flag \/ flag' = [flag EXCEPT ![f] = FALSE]
    PROVE  /\ MainTypes' /\ queue' \in Seq(Handlers) => TypeOK'
           /\ OthersStay(f)
           /\ UNCHANGED <<program, at, result, op, waker>> /\ Body(f)' = Body(f)
           /\ driver'[f] = to
           /\ stage' = [stage EXCEPT ![f] = "idle"] => stage'[f] = "idle"
           /\ flag' = [flag EXCEPT ![f] = FALSE] => flag'[f] = FALSE
           /\ IsAwaited(f)'
<1>1. driver' = [driver EXCEPT ![f] = to] /\ f \in Futures
  BY FutureFacts DEF Goes
<1>2. /\ driver'[f] = to
      /\ stage' = [stage EXCEPT ![f] = "idle"] => stage'[f] = "idle"
      /\ flag' = [flag EXCEPT ![f] = FALSE] => flag'[f] = FALSE
  BY <1>1 DEF TypeOK, PollTypes, DriverTypes
<1>3. UNCHANGED <<program, at, result, op, waker>> /\ Body(f)' = Body(f)
  BY TypesStay DEF taskVars, opVars
<1>4. OthersStay(f)
  BY <1>1, <1>3 DEF TypeOK, PollTypes, DriverTypes, OthersStay
<1>5. PollTypes' /\ DriverTypes'
  <2>1. PollTypes'
    BY DEF TypeOK, PollTypes
  <2>2. driver' \in [Futures -> {"unborn"} \cup Places] /\ \A g \in Used : driver'[g] \in Places
    BY <1>1 DEF TypeOK, DriverTypes
  <2>3. flag' \in [Futures -> BOOLEAN]
    BY DEF TypeOK, DriverTypes
  <2> QED BY <2>1, <2>2, <2>3, TypesStay DEF DriverTypes
<1>6. MainTypes' /\ queue' \in Seq(Handlers) => TypeOK'
  BY <1>5, TypesStay DEF TypeOK
<1>7. IsAwaited(f)'
  BY <1>2, <1>3 DEF FutureInv, IsAwaited
<1> QED BY <1>2, <1>3, <1>4, <1>6, <1>7

LEMMA BlockOnResultStep ==
    ASSUME TypeOK, NEW f \in Used, FutureInv(f), BlockOnResult(f) PROVE Keeps(f)
<1> DEFINE to == IF result[f] = "ready" THEN "over" ELSE "waiting"
<1>1. /\ UNCHANGED <<program, taskVars, result, opVars, flag, queue, mainVars, destroyed>>
      /\ program.driver = "block_on" /\ stage[f] = "end"
      /\ stage' = [stage EXCEPT ![f] = "idle"] /\ Goes(f, to)
  BY DEF BlockOnResult, Returned
<1>2. to \in Places /\ to \in {"waiting", "over"} /\ (to = "over" <=> result[f] = "ready")
  BY DEF Places
<1> HIDE DEF to
<1>3. /\ UNCHANGED <<program, at, result, op, waker>> /\ Body(f)' = Body(f)
      /\ driver'[f] = to /\ stage'[f] = "idle" /\ IsAwaited(f)'
      /\ TypeOK' /\ OthersStay(f)
  BY <1>1, <1>2, DriverGoes, TypesStay DEF TypeOK
<1>4. Ends(f)' /\ InPoll(f)'
  BY <1>1, <1>2, <1>3 DEF FutureInv, Ends, InPoll
<1> QED BY <1>3, <1>4 DEF Keeps, FutureInv

LEMMA BlockOnWaitStep ==
    ASSUME TypeOK, NEW f \in Used, FutureInv(f), BlockOnWait(f) PROVE Keeps(f)
<1>1. /\ UNCHANGED <<program, taskVars, pollVars, opVars, flag, queue, mainVars, destroyed>>
      /\ program.driver = "block_on" /\ driver[f] = "waiting" /\ Goes(f, "start")
      /\ stage[f] = "idle" /\ "start" \in Places
  BY IdleFacts DEF BlockOnWait, Places
<1>2. /\ UNCHANGED <<program, at, result, op, waker, stage>> /\ Body(f)' = Body(f)
      /\ driver'[f] = "start" /\ IsAwaited(f)'
      /\ TypeOK' /\ OthersStay(f)
  BY <1>1, DriverGoes, TypesStay DEF TypeOK, pollVars
<1>3. Ends(f)' /\ InPoll(f)'
  BY <1>1, <1>2 DEF FutureInv, Ends, InPoll
<1> QED BY <1>2, <1>3 DEF Keeps, FutureInv

LEMMA CResultStep ==
    ASSUME TypeOK, NEW f \in Used, FutureInv(f), CResult(f) PROVE Keeps(f)
<1>1. /\ UNCHANGED <<program, taskVars, result, opVars, flag, queue, mainVars, destroyed>>
      /\ program.driver = "c_main" /\ stage[f] = "end"
      /\ stage' = [stage EXCEPT ![f] = "idle"] /\ Goes(f, "waiting")
      /\ "waiting" \in Places
  BY DEF CResult, Returned, Places
<1>2. /\ UNCHANGED <<program, at, result, op, waker>> /\ Body(f)' = Body(f)
      /\ driver'[f] = "waiting" /\ stage'[f] = "idle" /\ IsAwaited(f)'
      /\ TypeOK' /\ OthersStay(f)
  BY <1>1, DriverGoes, TypesStay DEF TypeOK
<1>3. Ends(f)' /\ InPoll(f)'
  BY <1>1, <1>2 DEF FutureInv, Ends, InPoll
<1> QED BY <1>2, <1>3 DEF Keeps, FutureInv

LEMMA CWaitStep ==
    ASSUME TypeOK, NEW f \in Used, FutureInv(f), CWait(f) PROVE Keeps(f)
<1> DEFINE to == IF result[f] = "ready" THEN "over" ELSE "start"
<1>1. /\ UNCHANGED <<program, taskVars, pollVars, opVars, flag, queue, mainVars, destroyed>>
      /\ program.driver = "c_main" /\ driver[f] = "waiting" /\ Goes(f, to)
      /\ stage[f] = "idle"
  BY IdleFacts DEF CWait
<1>2. to \in Places /\ to \in {"start", "over"} /\ (to = "over" <=> result[f] = "ready")
  BY DEF Places
<1> HIDE DEF to
<1>3. /\ UNCHANGED <<program, at, result, op, waker, stage>> /\ Body(f)' = Body(f)
      /\ driver'[f] = to /\ IsAwaited(f)'
      /\ TypeOK' /\ OthersStay(f)
  BY <1>1, <1>2, DriverGoes, TypesStay DEF TypeOK, pollVars
<1>4. Ends(f)' /\ InPoll(f)'
  BY <1>1, <1>2, <1>3 DEF FutureInv, Ends, InPoll
<1> QED BY <1>3, <1>4 DEF Keeps, FutureInv

LEMMA AsioResultStep ==
    ASSUME TypeOK, NEW f \in Used, FutureInv(f), AsioResult(f) PROVE Keeps(f)
<1> DEFINE awaited == /\ main = "suspended" /\ step <= Len(program.script)
                      /\ program.script[step] = ToAsio(f)
           to == IF result[f] = "ready" THEN "over" ELSE "polled"
<1>1. /\ UNCHANGED <<program, taskVars, result, opVars, flag, queue, destroyed>>
      /\ program.driver = "to_asio" /\ stage[f] = "end"
      /\ stage' = [stage EXCEPT ![f] = "idle"] /\ Goes(f, to)
      /\ \/ UNCHANGED mainVars
         \/ awaited /\ main' = "run" /\ step' = step + 1
  BY DEF AsioResult, Returned, mainVars
<1>2. to \in Places /\ to \in {"polled", "over"} /\ (to = "over" <=> result[f] = "ready")
  BY <1>1 DEF Places
<1> HIDE DEF to
<1>3. MainTypes' /\ queue' \in Seq(Handlers)
  <2>1. CASE UNCHANGED mainVars
    BY <1>1, <2>1, TypesStay DEF TypeOK
  <2>2. CASE awaited /\ main' = "run" /\ step' = step + 1
    <3>1. step \in 1..(Len(program.script) + 1) /\ Len(program.script) \in Nat
      BY ProgramFacts DEF TypeOK, MainTypes
    <3>2. step' \in 1..(Len(program.script) + 1)
      BY <2>2, <3>1
    <3> QED BY <1>1, <2>2, <3>2, TypesStay DEF TypeOK, MainTypes
  <2> QED BY <1>1, <2>1, <2>2
<1>4. /\ UNCHANGED <<program, at, result, op, waker>> /\ Body(f)' = Body(f)
      /\ driver'[f] = to /\ stage'[f] = "idle" /\ IsAwaited(f)'
      /\ TypeOK' /\ OthersStay(f)
  BY <1>1, <1>2, <1>3, DriverGoes DEF TypeOK
<1>5. Ends(f)' /\ InPoll(f)'
  BY <1>1, <1>2, <1>4 DEF FutureInv, Ends, InPoll
<1> QED BY <1>4, <1>5 DEF Keeps, FutureInv

LEMMA AsioExchangeStep ==
    ASSUME TypeOK, NEW f \in Used, FutureInv(f), AsioExchange(f) PROVE Keeps(f)
<1> DEFINE to == IF flag[f] THEN "start" ELSE "waiting"
<1>1. /\ UNCHANGED <<program, taskVars, pollVars, opVars, flag, queue, mainVars, destroyed>>
      /\ driver[f] = "polled" /\ Goes(f, to) /\ stage[f] = "idle"
      /\ program.driver = "to_asio"
  BY IdleFacts, FutureFacts DEF AsioExchange, Places
<1>2. to \in Places /\ to \in {"start", "waiting"}
  BY DEF Places
<1> HIDE DEF to
<1>3. /\ UNCHANGED <<program, at, result, op, waker, stage>> /\ Body(f)' = Body(f)
      /\ driver'[f] = to /\ IsAwaited(f)'
      /\ TypeOK' /\ OthersStay(f)
  BY <1>1, <1>2, DriverGoes, TypesStay DEF TypeOK, pollVars
<1>4. Ends(f)' /\ InPoll(f)'
  BY <1>1, <1>2, <1>3 DEF FutureInv, Ends, InPoll
<1> QED BY <1>3, <1>4 DEF Keeps, FutureInv

LEMMA ResumableResultStep ==
    ASSUME TypeOK, NEW f \in Used, FutureInv(f), ResumableResult(f) PROVE Keeps(f)
<1> DEFINE to == CASE result[f] = "ready" -> "over"
                   [] result[f] = "pending" /\ driver[f] = "polling" -> "waiting"
                   [] OTHER -> driver[f]
<1>1. /\ UNCHANGED <<program, taskVars, result, opVars, flag, queue, mainVars>>
      /\ program.driver = "to_resumable" /\ stage[f] = "end"
      /\ stage' = [stage EXCEPT ![f] = "idle"] /\ Goes(f, to)
      /\ destroyed' \subseteq Used \X {"frame", "awaiter"}
  BY DEF ResumableResult, Returned, TypeOK, DriverTypes, Goes
<1>2. \/ result[f] = "ready" /\ to = "over" /\ driver[f] = "polling"
      \/ result[f] = "pending" /\ to = "waiting" /\ driver[f] = "polling"
      \/ result[f] = "pending" /\ to = driver[f] /\ to \in {"resumed", "scheduled"}
  BY <1>1, FutureFacts DEF FutureInv, InPoll, Resumable
<1>3. to \in Places
  BY <1>1, <1>2 DEF Places
<1> HIDE DEF to
<1>4. /\ UNCHANGED <<program, at, result, op, waker>> /\ Body(f)' = Body(f)
      /\ driver'[f] = to /\ stage'[f] = "idle" /\ IsAwaited(f)'
      /\ TypeOK' /\ OthersStay(f)
  BY <1>1, <1>3, DriverGoes, TypesStay DEF TypeOK
<1>5. Ends(f)' /\ InPoll(f)'
  BY <1>1, <1>2, <1>4 DEF FutureInv, Ends, InPoll, Resumable
<1> QED BY <1>4, <1>5 DEF Keeps, FutureInv

LEMMA ContainerResultStep ==
    ASSUME TypeOK, NEW f \in Used, FutureInv(f), ContainerResult(f) PROVE Keeps(f)
<1> DEFINE to == CASE result[f] = "ready" -> "over"
                   [] result[f] = "pending" /\ flag[f] -> "resumed"
                   [] OTHER -> "waiting"
<1>1. /\ UNCHANGED <<program, taskVars, result, opVars, queue, mainVars, destroyed>>
      /\ program.driver = "future_container" /\ stage[f] = "end"
      /\ stage' = [stage EXCEPT ![f] = "idle"] /\ Goes(f, to)
      /\ flag' = [flag EXCEPT ![f] = FALSE]
  BY DEF ContainerResult, Returned
<1>2. \/ result[f] = "ready" /\ to = "over"
      \/ result[f] = "pending" /\ to \in {"resumed", "waiting"}
  BY FutureFacts
<1>3. to \in Places
  BY <1>1, <1>2 DEF Places
<1> HIDE DEF to
<1>4. /\ UNCHANGED <<program, at, result, op, waker>> /\ Body(f)' = Body(f)
      /\ driver'[f] = to /\ stage'[f] = "idle" /\ IsAwaited(f)'
      /\ TypeOK' /\ OthersStay(f)
  BY <1>1, <1>3, DriverGoes, TypesStay DEF TypeOK
<1>5. Ends(f)' /\ InPoll(f)'
  BY <1>1, <1>2, <1>4 DEF FutureInv, Ends, InPoll
<1> QED BY <1>4, <1>5 DEF Keeps, FutureInv

LEMMA ScheduleStep ==
    ASSUME TypeOK, NEW f \in Used, FutureInv(f), Schedule(f) PROVE Keeps(f)
<1>1. /\ UNCHANGED <<program, taskVars, pollVars, waker, flag, mainVars, destroyed>>
      /\ driver[f] = "resumed" /\ driver' = [driver EXCEPT ![f] = "scheduled"]
      /\ op' = [op EXCEPT ![f] = IF @ = "waking" THEN "woken" ELSE @]
      /\ queue' = Append(queue, <<"poll", f>>)
  BY DEF Schedule, Post
<1>2. "scheduled" \in Places /\ program.driver \in {"to_resumable", "future_container"}
  BY <1>1, FutureFacts DEF Places
<1>3. queue' \in Seq(Handlers)
  BY <1>1, FutureFacts, AppendProperties DEF TypeOK
<1>4. /\ UNCHANGED <<program, at, result, waker, stage, flag>> /\ Body(f)' = Body(f)
      /\ driver'[f] = "scheduled"
      /\ op'[f] = op[f] \/ (op[f] = "waking" /\ op'[f] = "woken")
  BY <1>1, FutureFacts, TypesStay DEF TypeOK, OpTypes, DriverTypes, taskVars, pollVars
<1>5. OpTypes' /\ DriverTypes'
  <2>1. OpTypes'
    BY <1>1 DEF TypeOK, OpTypes
  <2>2. DriverTypes'
    BY <1>1, <1>2, TypesStay DEF TypeOK, DriverTypes
  <2> QED BY <2>1, <2>2
<1>6. TypeOK'
  BY <1>1, <1>3, <1>5, TypesStay DEF TypeOK
<1>7. OthersStay(f)
  BY <1>1, <1>4 DEF TypeOK, OpTypes, DriverTypes, OthersStay
<1>8. Ends(f)' /\ IsAwaited(f)' /\ InPoll(f)'
  BY <1>1, <1>2, <1>4 DEF FutureInv, Ends, IsAwaited, InPoll, Resumable
<1> QED BY <1>6, <1>7, <1>8 DEF Keeps, FutureInv

\* An operation that goes on.
LEMMA OperationGoes ==
    ASSUME TypeOK, NEW f \in Used, FutureInv(f),
           NEW to \in {"expired", "result", "waking", "woken", "leaving", "done"},
           UNCHANGED <<program, taskVars, pollVars, waker, mainVars, destroyed>>,
           op' = [op EXCEPT ![f] = to], op[f] # "none",
           op[f] \in {"leaving", "done"} => to \in {"leaving", "done"}
    PROVE  /\ DriverTypes' /\ queue' \in Seq(Handlers) => TypeOK'
           /\ (\A g \in Futures \ {f} : driver'[g] = driver[g] /\ flag'[g] = flag[g]) =>
                 OthersStay(f)
           /\ UNCHANGED <<program, at, stage, result, waker>> /\ Body(f)' = Body(f)
           /\ op'[f] = to
           /\ IsAwaited(f)'
<1>1. f \in Futures /\ op'[f] = to /\ OpTypes'
  BY FutureFacts DEF TypeOK, OpTypes
<1>2. UNCHANGED <<program, at, stage, result, waker>> /\ Body(f)' = Body(f)
  BY TypesStay DEF taskVars, pollVars
<1>3. (\A g \in Futures \ {f} : driver'[g] = driver[g] /\ flag'[g] = flag[g]) => OthersStay(f)
  BY <1>1, <1>2 DEF TypeOK, OpTypes, OthersStay
<1>4. DriverTypes' /\ queue' \in Seq(Handlers) => TypeOK'
  BY <1>1, TypesStay DEF TypeOK
<1>5. IsAwaited(f)'
  BY <1>1, <1>2 DEF FutureInv, IsAwaited
<1> QED BY <1>1, <1>2, <1>3, <1>4, <1>5

LEMMA ExpireStep ==
    ASSUME TypeOK, NEW f \in Used, FutureInv(f), Expire(f) PROVE Keeps(f)
<1>1. /\ UNCHANGED <<program, taskVars, pollVars, waker, driver, flag, mainVars, destroyed>>
      /\ op[f] = "running" /\ op' = [op EXCEPT ![f] = "expired"]
      /\ queue' = Append(queue, <<"finish", f>>)
  BY DEF Expire, Post
<1>2. DriverTypes' /\ queue' \in Seq(Handlers)
  BY <1>1, FutureFacts, AppendProperties, TypesStay DEF TypeOK
<1>3. /\ UNCHANGED <<program, at, stage, result, waker, driver, flag>> /\ Body(f)' = Body(f)
      /\ op'[f] = "expired" /\ IsAwaited(f)' /\ TypeOK' /\ OthersStay(f)
  BY <1>1, <1>2, OperationGoes
<1>4. Ends(f)' /\ InPoll(f)'
  BY <1>1, <1>3 DEF FutureInv, Ends, InPoll, Resumable
<1> QED BY <1>3, <1>4 DEF Keeps, FutureInv

LEMMA SleepIsOverStep ==
    ASSUME TypeOK, NEW f \in Used, FutureInv(f), SleepIsOver(f) PROVE Keeps(f)
<1>1. /\ UNCHANGED <<program, taskVars, pollVars, waker, driverVars, mainVars, destroyed>>
      /\ op[f] = "running" /\ op' = [op EXCEPT ![f] = "result"]
      /\ UNCHANGED <<driver, flag, queue>>
  BY DEF SleepIsOver, driverVars
<1>2. DriverTypes' /\ queue' \in Seq(Handlers)
  BY <1>1, TypesStay DEF TypeOK
<1>3. /\ UNCHANGED <<program, at, stage, result, waker, driver, flag>> /\ Body(f)' = Body(f)
      /\ op'[f] = "result" /\ IsAwaited(f)' /\ TypeOK' /\ OthersStay(f)
  BY <1>1, <1>2, OperationGoes
<1>4. Ends(f)' /\ InPoll(f)'
  BY <1>1, <1>3 DEF FutureInv, Ends, InPoll, Resumable
<1> QED BY <1>3, <1>4 DEF Keeps, FutureInv

LEMMA ResultUnlocksStep ==
    ASSUME TypeOK, NEW f \in Used, FutureInv(f), ResultUnlocks(f) PROVE Keeps(f)
<1> DEFINE to == IF program.adapter = "to_pollable" THEN "leaving" ELSE "done"
<1>1. /\ UNCHANGED <<program, taskVars, pollVars, waker, driverVars, mainVars, destroyed>>
      /\ op[f] = "woken" /\ op' = [op EXCEPT ![f] = to]
      /\ UNCHANGED <<driver, flag, queue>>
  BY DEF ResultUnlocks, driverVars
<1>2. DriverTypes' /\ queue' \in Seq(Handlers)
  BY <1>1, TypesStay DEF TypeOK
<1>3. to \in {"leaving", "done"}
  OBVIOUS
<1> HIDE DEF to
<1>4. /\ UNCHANGED <<program, at, stage, result, waker, driver, flag>> /\ Body(f)' = Body(f)
      /\ op'[f] = to /\ IsAwaited(f)' /\ TypeOK' /\ OthersStay(f)
  BY <1>1, <1>2, <1>3, OperationGoes
<1>5. Ends(f)' /\ InPoll(f)'
  BY <1>1, <1>3, <1>4 DEF FutureInv, Ends, InPoll, Resumable
<1> QED BY <1>4, <1>5 DEF Keeps, FutureInv

LEMMA ThreadLeavesStep ==
    ASSUME TypeOK, NEW f \in Used, FutureInv(f), ThreadLeaves(f) PROVE Keeps(f)
<1>1. /\ UNCHANGED <<program, taskVars, pollVars, waker, driverVars, mainVars, destroyed>>
      /\ op[f] = "leaving" /\ op' = [op EXCEPT ![f] = "done"]
      /\ UNCHANGED <<driver, flag, queue>>
  BY DEF ThreadLeaves, driverVars
<1>2. DriverTypes' /\ queue' \in Seq(Handlers)
  BY <1>1, TypesStay DEF TypeOK
<1>3. /\ UNCHANGED <<program, at, stage, result, waker, driver, flag>> /\ Body(f)' = Body(f)
      /\ op'[f] = "done" /\ IsAwaited(f)' /\ TypeOK' /\ OthersStay(f)
  BY <1>1, <1>2, OperationGoes
<1>4. Ends(f)' /\ InPoll(f)'
  BY <1>1, <1>3 DEF FutureInv, Ends, InPoll, Resumable
<1> QED BY <1>3, <1>4 DEF Keeps, FutureInv

LEMMA ResultWakesStep ==
    ASSUME TypeOK, NEW f \in Used, FutureInv(f), ResultWakes(f) PROVE Keeps(f)
<1> DEFINE to == IF driver'[f] = driver[f] THEN "woken" ELSE "waking"
<1>1. /\ UNCHANGED <<program, taskVars, pollVars, waker, mainVars, destroyed>>
      /\ op[f] = "result" /\ op' = [op EXCEPT ![f] = to] /\ to \in {"waking", "woken"}
      /\ \/ waker[f] /\ Wake(f)
         \/ ~waker[f] /\ UNCHANGED <<driver, flag, queue>>
  BY DEF ResultWakes, driverVars
<1> HIDE DEF to
<1>2. DriverTypes' /\ queue' \in Seq(Handlers)
  <2>1. CASE Wake(f)
    BY <1>1, <2>1, WakeFacts, TypesStay DEF DriverTypes
  <2>2. CASE UNCHANGED <<driver, flag, queue>>
    BY <1>1, <2>2, TypesStay DEF TypeOK
  <2> QED BY <1>1, <2>1, <2>2
<1>3. \A g \in Futures \ {f} : driver'[g] = driver[g] /\ flag'[g] = flag[g]
  BY <1>1, WakeFacts
<1>4. /\ UNCHANGED <<program, at, stage, result, waker>> /\ Body(f)' = Body(f)
      /\ op'[f] \in {"waking", "woken"} /\ IsAwaited(f)' /\ TypeOK' /\ OthersStay(f)
  BY <1>1, <1>2, <1>3, OperationGoes
<1>5. CASE program.driver \notin {"to_resumable", "future_container"}
  <2>1. driver'[f] = driver[f]
    BY <1>1, <1>5, WakeFacts, ProgramFacts DEF TypeOK, Drivers
  <2>2. Ends(f)' /\ InPoll(f)'
    BY <1>4, <1>5, <2>1 DEF FutureInv, Ends, InPoll
  <2> QED BY <1>4, <2>2 DEF Keeps, FutureInv
<1>6. CASE program.driver = "future_container"
  <2>1. driver'[f] = driver[f] \/ (driver[f] = "waiting" /\ driver'[f] = "resumed")
    BY <1>1, <1>6, WakeFacts
  <2>2. Ends(f)' /\ InPoll(f)'
    BY <1>4, <1>6, <2>1 DEF FutureInv, Ends, InPoll
  <2> QED BY <1>4, <2>2 DEF Keeps, FutureInv
<1>7. CASE program.driver = "to_resumable"
  <2>1. \/ driver'[f] = driver[f]
        \/ /\ driver'[f] = "resumed"
           /\ \/ driver[f] = "waiting"
              \/ driver[f] = "polling" /\ stage[f] = "end" /\ result[f] = "pending"
    BY <1>1, <1>7, WakeFacts DEF FutureInv, InPoll, Resumable
  <2>2. driver[f] = "waiting" => stage[f] = "idle"
    BY IdleFacts
  <2>3. Ends(f)'
    BY <1>4, <1>7, <2>1, <2>2 DEF FutureInv, Ends
  <2>4. stage[f] = "body" => driver'[f] = driver[f] /\ flag'[f] = flag[f]
    BY <1>1, <1>7, <2>1, <2>2, FutureFacts DEF FutureInv, IsAwaited
  <2>5. InPoll(f)'
    BY <1>4, <1>7, <2>1, <2>2, <2>4 DEF FutureInv, InPoll, Resumable
  <2> QED BY <1>4, <2>3, <2>5 DEF Keeps, FutureInv
<1> QED BY <1>5, <1>6, <1>7

LEMMA FutureKeeps ==
    ASSUME TypeOK, NEW f \in Used, FutureInv(f), Poll(f) \/ Drive(f) \/ Operate(f)
    PROVE  Keeps(f)
<1>1. CASE Poll(f)
  BY <1>1, PollStartStep, PollCallStep, PollYieldStep, StartOperationStep, PollForeignStep,
     BodyGoesOnStep, BodyEndsStep DEF Poll
<1>2. CASE Drive(f)
  BY <1>2, BlockOnResultStep, BlockOnWaitStep, CResultStep, CWaitStep, AsioResultStep,
     AsioExchangeStep, ResumableResultStep, ContainerResultStep, ScheduleStep DEF Drive
<1>3. CASE Operate(f)
  BY <1>3, ExpireStep, SleepIsOverStep, ResultWakesStep, ResultUnlocksStep, ThreadLeavesStep
     DEF Operate
<1> QED BY <1>1, <1>2, <1>3

------------------------------------------------------------------------------
(* The steps of a future: the queue of the loop.                           *)

\* At most one handler is posted, and it is the only one of its kind.
QueueGrows(f) ==
    \/ UNCHANGED queue
    \/ \E name \in {"spawn", "finish", "poll"} : ~Posted(name, f) /\ Post(name, f)

LEMMA QueueGrowsFacts ==
    ASSUME TypeOK, Distinct(queue), NEW f \in Used, QueueGrows(f)
    PROVE  /\ Distinct(queue')
           /\ \A n, g : g # f => (Posted(n, g)' <=> Posted(n, g))
           /\ \A g : Posted("begin", g)' <=> Posted("begin", g)
           /\ MainPosted' <=> MainPosted
           /\ \A g : BeginsBeforeMain(g) => BeginsBeforeMain(g)'
<1>1. f # None
  <2>1. f \in Futures
    BY FutureFacts
  <2> QED BY <2>1 DEF Futures, None
<1>2. CASE UNCHANGED queue
  BY <1>2 DEF Posted, MainPosted, BeginsBeforeMain, Distinct
<1>3. CASE \E name \in {"spawn", "finish", "poll"} : ~Posted(name, f) /\ Post(name, f)
  <2>1. PICK name \in {"spawn", "finish", "poll"} : ~Posted(name, f) /\ Post(name, f)
    BY <1>3
  <2>2. <<name, f>> \in Handlers /\ queue \in Seq(Handlers)
    BY FutureFacts DEF TypeOK
  <2>3. /\ Distinct(queue')
        /\ \A n, g : Posted(n, g)' <=> Posted(n, g) \/ (n = name /\ g = f)
        /\ \A g : BeginsBeforeMain(g) => BeginsBeforeMain(g)'
    BY <2>1, <2>2, PostFacts
  <2> QED BY <1>1, <2>3 DEF MainPosted
<1> QED BY <1>2, <1>3 DEF QueueGrows

\* What the handlers of a future expect of it, when the queue stays.
LEMMA ExpectedStays ==
    ASSUME NEW f, Expected(f), UNCHANGED <<program, queue>>,
           \/ op'[f] = op[f]
           \/ /\ op[f] \notin {"posted", "expired"}
              /\ \/ op'[f] \in {"waking", "woken", "leaving", "done"}
                 \/ op[f] \notin {"waking", "woken", "leaving", "done"}
                 \/ driver[f] # "waiting",
           \/ driver'[f] = driver[f]
           \/ driver[f] \notin IF program.driver = "to_asio" THEN {"waiting", "unborn"}
                               ELSE {"scheduled"}
    PROVE  Expected(f)'
<1>1. \A n : Posted(n, f)' <=> Posted(n, f)
  BY DEF Posted
<1> QED BY <1>1 DEF Expected

\* The steps that post nothing.
LEMMA PollExpected ==
    ASSUME TypeOK, NEW f \in Used, FutureInv(f), Expected(f),
           Poll(f), ~StartOperation(f)
    PROVE  UNCHANGED queue /\ Expected(f)'
<1>1. CASE PollStart(f)
  <2>1. UNCHANGED <<program, queue, op>> /\ driver[f] = "start"
    BY <1>1 DEF PollStart, opVars
  <2> QED BY <2>1, ExpectedStays
<1>2. CASE PollCall(f) \/ PollForeign(f) \/ BodyEnds(f)
  <2>1. UNCHANGED <<program, queue, op, driver>>
    BY <1>2 DEF PollCall, PollForeign, BodyEnds, opVars, driverVars
  <2> QED BY <2>1, ExpectedStays
<1>3. CASE PollYield(f)
  <2>1. UNCHANGED <<program, op>> /\ stage[f] = "leaf" /\ Wake(f)
    BY <1>3 DEF PollYield, opVars
  <2>2. driver[f] = "polling"
    BY <2>1, MidPollFacts
  <2>3. UNCHANGED queue
    BY <2>1, <2>2, WakeFacts
  <2> QED BY <2>1, <2>2, <2>3, ExpectedStays
<1>4. CASE BodyGoesOn(f)
  <2>1. /\ UNCHANGED program /\ stage[f] = "body" /\ Wake(f) /\ driver[f] # "resumed"
        /\ op[f] \in {"none", "leaving", "done"}
    BY <1>4, MidPollFacts DEF BodyGoesOn
  <2>2. \/ driver[f] = "polling"
        \/ driver[f] = "scheduled" /\ flag[f] /\ program.driver = "to_resumable"
    BY <2>1, MidPollFacts DEF FutureInv, InPoll, Resumable
  <2>3. UNCHANGED queue /\ (driver[f] = "scheduled" => driver'[f] = driver[f])
    BY <2>1, <2>2, WakeFacts
  <2> QED BY <2>1, <2>2, <2>3, ExpectedStays
<1> QED BY <1>1, <1>2, <1>3, <1>4 DEF Poll

LEMMA DriveExpected ==
    ASSUME TypeOK, NEW f \in Used, FutureInv(f), Expected(f),
           Drive(f), ~Schedule(f)
    PROVE  UNCHANGED queue /\ Expected(f)'
<1>1. UNCHANGED <<program, queue, op>>
  BY DEF Drive, BlockOnResult, BlockOnWait, CResult, CWait, AsioResult, AsioExchange,
         ResumableResult, ContainerResult, opVars
<1>2. CASE BlockOnResult(f) \/ BlockOnWait(f) \/ CResult(f) \/ CWait(f)
  <2>1. program.driver \in {"block_on", "c_main"}
    BY <1>2 DEF BlockOnResult, BlockOnWait, CResult, CWait
  <2>2. driver[f] # "scheduled"
    BY <2>1, FutureFacts DEF Places
  <2> QED BY <1>1, <2>1, <2>2, ExpectedStays
<1>3. CASE AsioResult(f) \/ ContainerResult(f)
  <2>1. stage[f] = "end" /\ program.driver # "to_resumable"
    BY <1>3 DEF AsioResult, ContainerResult, Returned
  <2>2. driver[f] = "polling"
    BY <2>1 DEF FutureInv, InPoll
  <2> QED BY <1>1, <2>2, ExpectedStays
<1>4. CASE AsioExchange(f)
  <2>1. driver[f] = "polled"
    BY <1>4 DEF AsioExchange
  <2> QED BY <1>1, <2>1, ExpectedStays
<1>5. CASE ResumableResult(f)
  <2>1. stage[f] = "end" /\ program.driver = "to_resumable"
    BY <1>5 DEF ResumableResult, Returned
  <2>2. driver[f] = "polling" \/ result[f] = "pending"
    BY <2>1 DEF FutureInv, InPoll, Resumable
  <2>3. driver[f] = "polling" \/ driver' = driver
    BY <1>5, <2>2 DEF ResumableResult
  <2> QED BY <1>1, <2>3, ExpectedStays
<1> QED BY <1>2, <1>3, <1>4, <1>5 DEF Drive

LEMMA OperateExpected ==
    ASSUME TypeOK, NEW f \in Used, FutureInv(f), Expected(f),
           Operate(f), ~Expire(f), ResultWakes(f) /\ waker[f] => program.driver # "to_asio"
    PROVE  UNCHANGED queue /\ Expected(f)'
<1>1. CASE SleepIsOver(f)
  <2>1. UNCHANGED <<program, queue, driver>> /\ op[f] = "running"
    BY <1>1 DEF SleepIsOver, driverVars
  <2> QED BY <2>1, ExpectedStays
<1>2. CASE ResultUnlocks(f) \/ ThreadLeaves(f)
  <2>1. /\ UNCHANGED <<program, queue, driver>> /\ op[f] \in {"woken", "leaving"}
        /\ op'[f] \in {"leaving", "done"}
    BY <1>2, FutureFacts DEF ResultUnlocks, ThreadLeaves, driverVars, TypeOK, OpTypes
  <2> QED BY <2>1, ExpectedStays
<1>3. CASE ResultWakes(f)
  <2>1. /\ UNCHANGED program /\ op[f] = "result" /\ op'[f] \in {"waking", "woken"}
        /\ IF waker[f] THEN Wake(f) ELSE UNCHANGED <<driver, queue>>
    BY <1>3, FutureFacts DEF ResultWakes, driverVars, TypeOK, OpTypes
  <2>2. CASE ~waker[f]
    BY <2>1, <2>2, ExpectedStays
  <2>3. CASE waker[f]
    <3>1. program.driver # "to_asio" /\ Wake(f) /\ UNCHANGED queue
      BY <1>3, <2>1, <2>3, WakeFacts
    <3>2. driver'[f] = driver[f] \/ driver[f] # "scheduled"
      BY <2>1, <2>3, <3>1, WakeFacts, ProgramFacts
         DEF FutureInv, InPoll, Resumable, TypeOK, Drivers
    <3> QED BY <2>1, <3>1, <3>2, ExpectedStays
  <2> QED BY <2>2, <2>3
<1> QED BY <1>1, <1>2, <1>3 DEF Operate

\* The loop's thread holds the lock of what wakes a to_asio, which then waits.
LEMMA AsioWaits ==
    ASSUME TypeOK, NEW f \in Used, FutureInv(f), OneAtATime, program.driver = "to_asio",
           Locked(f)
    PROVE  driver[f] = "waiting"
<1>1. /\ driver[f] \in {"unborn", "start", "polling", "polled", "waiting", "over"}
      /\ at[f] \in 1..Len(Body(f)) /\ Len(Body(f)) \in Nat
  BY FutureFacts DEF Places, FutureInv, IsAwaited, Locked
<1>2. at[f] # 0 /\ at[f] # Len(Body(f)) + 1
  BY <1>1
<1>3. driver[f] # "unborn" /\ driver[f] # "over"
  BY <1>2 DEF FutureInv, Ends
<1>4. ~Active(f)
  BY DEF OneAtATime
<1> QED BY <1>1, <1>3, <1>4 DEF Active

LEMMA PostingSteps ==
    ASSUME TypeOK, NEW f \in Used, FutureInv(f), Expected(f), Distinct(queue),
           program.driver = "to_asio" => OneAtATime,
           \/ StartOperation(f)
           \/ Expire(f)
           \/ Schedule(f)
           \/ ResultWakes(f) /\ waker[f] /\ program.driver = "to_asio"
    PROVE  QueueGrows(f) /\ Expected(f)'
<1>1. queue \in Seq(Handlers) /\ f \in Futures
  BY FutureFacts DEF TypeOK
<1>2. CASE StartOperation(f)
  <2>1. ~Posted("spawn", f) /\ Post("spawn", f)
    BY <1>2 DEF StartOperation, Expected
  <2>2. \A n : Posted(n, f)' <=> Posted(n, f) \/ n = "spawn"
    BY <1>1, <2>1, FutureFacts, PostFacts
  <2>3. UNCHANGED <<program, driver>> /\ op[f] = "none" /\ op'[f] = "posted"
    BY <1>1, <1>2 DEF StartOperation, TypeOK, OpTypes
  <2>4. driver[f] = "polling"
    BY <1>2, MidPollFacts DEF StartOperation
  <2> QED BY <2>1, <2>2, <2>3, <2>4 DEF QueueGrows, Expected
<1>3. CASE Expire(f)
  <2>1. ~Posted("finish", f) /\ Post("finish", f)
    BY <1>3 DEF Expire, Expected
  <2>2. \A n : Posted(n, f)' <=> Posted(n, f) \/ n = "finish"
    BY <1>1, <2>1, FutureFacts, PostFacts
  <2>3. UNCHANGED <<program, driver>> /\ op[f] = "running" /\ op'[f] = "expired"
    BY <1>1, <1>3 DEF Expire, TypeOK, OpTypes
  <2> QED BY <2>1, <2>2, <2>3 DEF QueueGrows, Expected
<1>4. CASE Schedule(f)
  <2>1. /\ UNCHANGED program /\ driver[f] = "resumed" /\ driver'[f] = "scheduled"
        /\ op'[f] = op[f] \/ (op[f] = "waking" /\ op'[f] = "woken")
        /\ Post("poll", f)
    BY <1>1, <1>4 DEF Schedule, TypeOK, OpTypes, DriverTypes
  <2>2. program.driver # "to_asio"
    BY <2>1, FutureFacts DEF Places
  <2>3. ~Posted("poll", f)
    BY <2>1, <2>2 DEF Expected
  <2>4. \A n : Posted(n, f)' <=> Posted(n, f) \/ n = "poll"
    BY <1>1, <2>1, <2>3, FutureFacts, PostFacts
  <2> QED BY <2>1, <2>2, <2>3, <2>4 DEF QueueGrows, Expected
<1>5. CASE ResultWakes(f) /\ waker[f] /\ program.driver = "to_asio"
  <2>1. UNCHANGED program /\ op[f] = "result" /\ op'[f] \in {"waking", "woken"} /\ Wake(f)
    BY <1>1, <1>5 DEF ResultWakes, TypeOK, OpTypes
  <2>2. driver[f] = "waiting"
    BY <1>5, <2>1, AsioWaits DEF Locked
  <2>3. Post("poll", f) /\ driver'[f] = "waiting"
    BY <1>5, <2>1, <2>2, WakeFacts
  <2>4. ~Posted("poll", f)
    BY <1>5, <2>1 DEF Expected
  <2>5. \A n : Posted(n, f)' <=> Posted(n, f) \/ n = "poll"
    BY <1>1, <2>3, <2>4, FutureFacts, PostFacts
  <2> QED BY <1>5, <2>1, <2>2, <2>3, <2>4, <2>5 DEF QueueGrows, Expected
<1> QED BY <1>2, <1>3, <1>4, <1>5

\* What the step of a future does to the handlers it is posted in.
LEMMA FutureExpected ==
    ASSUME TypeOK, NEW f \in Used, FutureInv(f), Expected(f), Distinct(queue),
           program.driver = "to_asio" => OneAtATime,
           Poll(f) \/ Drive(f) \/ Operate(f)
    PROVE  QueueGrows(f) /\ Expected(f)'
BY PollExpected, DriveExpected, OperateExpected, PostingSteps DEF QueueGrows

\* What stays of the program.
LEMMA ProgramStays ==
    ASSUME NEW f, Poll(f) \/ Drive(f) \/ Operate(f) PROVE UNCHANGED program
BY DEF Poll, PollStart, PollCall, PollYield, StartOperation, PollForeign, BodyGoesOn, BodyEnds,
       Drive, BlockOnResult, BlockOnWait, CResult, CWait, AsioResult, AsioExchange,
       ResumableResult, ContainerResult, Schedule,
       Operate, Expire, SleepIsOver, ResultWakes, ResultUnlocks, ThreadLeaves

LEMMA FutureKeepsQueue ==
    ASSUME TypeOK, \A g \in Used : FutureInv(g), QueueInv,
           program.driver = "to_asio" => OneAtATime,
           NEW f \in Used, Poll(f) \/ Drive(f) \/ Operate(f)
    PROVE  /\ QueueGrows(f) /\ Distinct(queue')
           /\ \A g \in Used : Expected(g)'
<1>1. QueueGrows(f) /\ Expected(f)' /\ OthersStay(f)
  BY FutureExpected, FutureKeeps DEF QueueInv, Keeps
<1>2. /\ Distinct(queue')
      /\ \A n, g : g # f => (Posted(n, g)' <=> Posted(n, g))
  BY <1>1, QueueGrowsFacts DEF QueueInv
<1>3. UNCHANGED program
  BY ProgramStays
<1>4. ASSUME NEW g \in Used \ {f} PROVE Expected(g)'
  <2>1. g \in Futures \ {f}
    BY FutureFacts
  <2>2. op'[g] = op[g] /\ driver'[g] = driver[g]
    BY <1>1, <2>1 DEF OthersStay
  <2>3. Expected(g) /\ \A n : Posted(n, g)' <=> Posted(n, g)
    BY <1>2 DEF QueueInv
  <2> QED BY <1>3, <2>2, <2>3 DEF Expected
<1> QED BY <1>1, <1>2, <1>4

------------------------------------------------------------------------------
(* The steps of a future under to_asio.                                    *)

\* The loop's thread is in its driver, or leaves the driver alone.  Only the end
\* of what it awaits moves asio_main.
AsioMoves(f) ==
    /\ \/ Active(f) /\ ~Locked(f)' /\ driver'[f] # "unborn"
       \/ driver'[f] = driver[f] /\ (Locked(f)' => Locked(f)) /\ UNCHANGED mainVars
    /\ \/ UNCHANGED mainVars
       \/ /\ main = "suspended" /\ step <= Len(program.script)
          /\ program.script[step] = ToAsio(f)
          /\ main' = "run" /\ step' = step + 1 /\ ~Active(f)'
    /\ NeverWaits(program, f) => HasWoken(f)'

LEMMA PollUnderAsio ==
    ASSUME TypeOK, NEW f \in Used, FutureInv(f), program.driver = "to_asio", OneAtATime,
           NeverWaits(program, f) => HasWoken(f), Poll(f)
    PROVE  AsioMoves(f)
<1> USE DEF TypeOK, PollTypes, OpTypes, DriverTypes
<1>1. UNCHANGED mainVars /\ f \in Futures
  BY FutureFacts DEF Poll, PollStart, PollCall, PollYield, StartOperation, PollForeign, BodyGoesOn,
         BodyEnds
<1>2. \A i \in DOMAIN Body(f) : NeverWaits(program, f) => Body(f)[i].on # "foreign"
  BY DEF NeverWaits, Body
<1>3. CASE PollStart(f)
  <2>1. /\ driver[f] = "start" /\ driver'[f] = "polling" /\ stage'[f] = "leaf"
        /\ op'[f] = op[f]
    BY <1>1, <1>3 DEF PollStart, opVars
  <2>2. Active(f) /\ ~Locked(f)
    BY <2>1 DEF Active, OneAtATime
  <2> QED BY <1>1, <2>1, <2>2 DEF AsioMoves, HasWoken, Locked
<1>4. ASSUME stage[f] \in {"leaf", "body"}, driver'[f] = driver[f],
             op'[f] \in {op[f], "none", "posted", "running"},
             NeverWaits(program, f) =>
                stage'[f] = "body" \/ result'[f] = "ready" \/ flag'[f]
      PROVE  AsioMoves(f)
  <2>1. driver[f] = "polling"
    BY <1>4, MidPollFacts
  <2>2. Active(f) /\ ~Locked(f)
    BY <2>1 DEF Active, OneAtATime
  <2> QED BY <1>1, <1>4, <2>1, <2>2 DEF AsioMoves, HasWoken, Locked
<1>5. CASE PollCall(f)
  <2>1. /\ stage[f] = "leaf" /\ driver'[f] = driver[f] /\ op'[f] = op[f] /\ stage'[f] = "body"
    BY <1>1, <1>5 DEF PollCall, LeafDone, opVars, driverVars
  <2> QED BY <1>4, <2>1
<1>6. CASE PollYield(f)
  <2>1. stage[f] = "leaf" /\ Wake(f) /\ op'[f] = op[f] /\ UNCHANGED program
    BY <1>6 DEF PollYield, opVars
  <2>2. driver'[f] = driver[f] /\ flag'[f]
    BY <2>1, WakeFacts
  <2> QED BY <1>4, <2>1, <2>2
<1>7. CASE StartOperation(f)
  <2>1. /\ stage[f] = "leaf" /\ AwaitsForeign(f) /\ driver'[f] = driver[f]
        /\ op'[f] = "posted"
    BY <1>1, <1>7 DEF StartOperation
  <2>2. ~NeverWaits(program, f)
    BY <1>2, <2>1, MidPollFacts DEF AwaitsForeign
  <2> QED BY <1>4, <2>1, <2>2
<1>8. CASE PollForeign(f)
  <2>1. /\ stage[f] = "leaf" /\ AwaitsForeign(f) /\ driver'[f] = driver[f]
        /\ op'[f] = op[f]
    BY <1>8 DEF PollForeign, driverVars
  <2>2. ~NeverWaits(program, f)
    BY <1>2, <2>1, MidPollFacts DEF AwaitsForeign
  <2> QED BY <1>4, <2>1, <2>2
<1>9. CASE BodyGoesOn(f)
  <2>1. /\ stage[f] = "body" /\ Wake(f) /\ UNCHANGED program
        /\ op'[f] \in {"none", "running"}
    BY <1>1, <1>9 DEF BodyGoesOn
  <2>2. driver'[f] = driver[f] /\ flag'[f]
    BY <2>1, WakeFacts
  <2> QED BY <1>4, <2>1, <2>2
<1>10. CASE BodyEnds(f)
  <2>1. /\ stage[f] = "body" /\ driver'[f] = driver[f] /\ op'[f] = op[f]
        /\ result'[f] = "ready"
    BY <1>1, <1>10 DEF BodyEnds, driverVars
  <2> QED BY <1>4, <2>1
<1> QED BY <1>3, <1>5, <1>6, <1>7, <1>8, <1>9, <1>10 DEF Poll

LEMMA DriveUnderAsio ==
    ASSUME TypeOK, NEW f \in Used, FutureInv(f), program.driver = "to_asio", OneAtATime,
           NeverWaits(program, f) => HasWoken(f), Drive(f)
    PROVE  AsioMoves(f)
<1> USE DEF TypeOK, PollTypes, OpTypes, DriverTypes
<1>1. f \in Futures /\ driver[f] # "resumed"
  BY FutureFacts DEF Places
<1>2. AsioResult(f) \/ AsioExchange(f)
  BY <1>1 DEF Drive, BlockOnResult, BlockOnWait, CResult, CWait, ResumableResult,
              ContainerResult, Schedule
<1>3. CASE AsioResult(f)
  <2>1. /\ stage[f] = "end" /\ stage'[f] = "idle" /\ flag'[f] = flag[f] /\ op'[f] = op[f]
        /\ result'[f] = result[f]
    BY <1>1, <1>3 DEF AsioResult, Returned, opVars
  <2>2. driver[f] = "polling" /\ Active(f) /\ ~Locked(f)
    BY <2>1 DEF FutureInv, InPoll, Active, OneAtATime
  <2>3. CASE result[f] = "ready"
    <3>1. /\ driver'[f] = "over"
          /\ \/ UNCHANGED mainVars
             \/ /\ main = "suspended" /\ step <= Len(program.script)
                /\ program.script[step] = ToAsio(f)
                /\ main' = "run" /\ step' = step + 1
      BY <1>1, <1>3, <2>3 DEF AsioResult, Goes, mainVars
    <3> QED BY <2>1, <2>2, <3>1 DEF AsioMoves, HasWoken, Locked, Active
  <2>4. CASE result[f] = "pending"
    <3>1. driver'[f] = "polled" /\ UNCHANGED mainVars
      BY <1>1, <1>3, <2>4 DEF AsioResult, Goes
    <3>2. NeverWaits(program, f) => flag'[f]
      BY <2>1, <2>4 DEF HasWoken
    <3> QED BY <2>1, <2>2, <3>1, <3>2 DEF AsioMoves, HasWoken, Locked, Active
  <2> QED BY <2>3, <2>4, FutureFacts
<1>4. CASE AsioExchange(f)
  <2>1. /\ driver[f] = "polled" /\ driver'[f] = IF flag[f] THEN "start" ELSE "waiting"
        /\ UNCHANGED mainVars /\ op'[f] = op[f] /\ stage'[f] = stage[f]
    BY <1>1, <1>4 DEF AsioExchange, Goes, opVars, pollVars
  <2>2. Active(f) /\ ~Locked(f) /\ stage[f] = "idle"
    BY <2>1, IdleFacts DEF Active, OneAtATime
  <2> QED BY <2>1, <2>2 DEF AsioMoves, HasWoken, Locked
<1> QED BY <1>2, <1>3, <1>4

LEMMA OperateUnderAsio ==
    ASSUME TypeOK, NEW f \in Used, FutureInv(f), program.driver = "to_asio", OneAtATime,
           NeverWaits(program, f) => HasWoken(f), Operate(f)
    PROVE  AsioMoves(f)
<1> USE DEF TypeOK, PollTypes, OpTypes, DriverTypes
<1>1. f \in Futures /\ program.adapter = "from_asio"
  BY FutureFacts, ProgramFacts
<1>2. UNCHANGED <<program, mainVars, stage, result>>
  BY DEF Operate, Expire, SleepIsOver, ResultWakes, ResultUnlocks, ThreadLeaves, pollVars
<1>3. driver'[f] = driver[f] /\ (flag'[f] = flag[f] \/ flag'[f])
  <2>1. Wake(f) \/ UNCHANGED <<driver, flag>>
    BY DEF Operate, Expire, SleepIsOver, ResultWakes, ResultUnlocks, ThreadLeaves, driverVars
  <2> QED BY <1>2, <2>1, WakeFacts
<1>4. Locked(f)' => Locked(f)
  BY <1>1 DEF Operate, Expire, SleepIsOver, ResultWakes, ResultUnlocks, ThreadLeaves, Locked
<1>5. NeverWaits(program, f) => HasWoken(f)'
  BY <1>2, <1>3 DEF HasWoken
<1> QED BY <1>2, <1>3, <1>4, <1>5 DEF AsioMoves

LEMMA FutureKeepsAsio ==
    ASSUME IInv, program.driver = "to_asio", NEW f \in Used, Poll(f) \/ Drive(f) \/ Operate(f)
    PROVE  AsioInv'
<1>1. /\ TypeOK /\ \A g \in Used : FutureInv(g)
      /\ OneAtATime /\ MadeOnce /\ Woken /\ SpawnedBegins
      /\ QueueInv /\ Distinct(queue)
  BY DEF IInv, AsioInv, QueueInv
<1>2. UNCHANGED program /\ Used' = Used
  BY ProgramStays DEF Used
<1>3. AsioMoves(f)
  BY <1>1, PollUnderAsio, DriveUnderAsio, OperateUnderAsio DEF Woken
<1>4. /\ \A g \in Used \ {f} :
            /\ driver'[g] = driver[g] /\ op'[g] = op[g] /\ flag'[g] = flag[g]
            /\ stage'[g] = stage[g] /\ result'[g] = result[g]
      /\ TypeOK'
  <2>1. OthersStay(f) /\ TypeOK'
    BY <1>1, FutureKeeps DEF Keeps
  <2>2. Used \subseteq Futures
    BY <1>1, FutureFacts
  <2> QED BY <2>1, <2>2 DEF OthersStay
<1>5. /\ \A g : Posted("begin", g)' <=> Posted("begin", g)
      /\ MainPosted' <=> MainPosted
      /\ \A g : BeginsBeforeMain(g) => BeginsBeforeMain(g)'
  BY <1>1, FutureKeepsQueue, QueueGrowsFacts
<1>6. /\ Len(program.script) \in Nat /\ DOMAIN program.script = 1..Len(program.script)
      /\ step \in 1..(Len(program.script) + 1)
  BY <1>1, ProgramFacts DEF TypeOK, MainTypes
<1>7. \A g \in Used \ {f} : (Active(g)' <=> Active(g)) /\ (Locked(g)' <=> Locked(g))
  BY <1>4 DEF Active, Locked
<1>8. OneAtATime'
  <2>1. CASE Active(f) /\ ~Locked(f)'
    <3>1. main # "run" /\ \A g \in Used : ~Locked(g) /\ (g # f => ~Active(g))
      BY <1>1, <2>1 DEF OneAtATime
    <3>2. \A g \in Used : ~Locked(g)' /\ (g # f => ~Active(g)')
      BY <1>7, <2>1, <3>1
    <3>3. main' = "run" => ~Active(f)'
      BY <1>3, <3>1 DEF AsioMoves, mainVars
    <3> QED BY <1>2, <3>2, <3>3 DEF OneAtATime
  <2>2. CASE driver'[f] = driver[f] /\ (Locked(f)' => Locked(f)) /\ UNCHANGED mainVars
    <3>1. \A g \in Used : (Active(g)' <=> Active(g)) /\ (Locked(g)' => Locked(g))
      BY <1>7, <2>2 DEF Active
    <3> QED BY <1>1, <1>2, <2>2, <3>1 DEF OneAtATime, mainVars
  <2> QED BY <1>3, <2>1, <2>2 DEF AsioMoves
<1>9. \A g \in Used : driver[g] = "unborn" <=> driver'[g] = "unborn"
  BY <1>3, <1>4 DEF AsioMoves, Active
<1>10. \A g \in Used : driver[g] = "over" => driver'[g] = "over"
  BY <1>3, <1>4 DEF AsioMoves, Active
<1>11. Woken'
  <2>1. \A g \in Used : NeverWaits(program, g) => HasWoken(g)'
    BY <1>1, <1>3, <1>4 DEF Woken, HasWoken, AsioMoves
  <2> QED BY <1>2, <2>1 DEF Woken, NeverWaits
<1>12. CASE UNCHANGED mainVars
  <2>1. \A i : Ahead(i)' <=> Ahead(i)
    BY <1>5, <1>12 DEF Ahead, mainVars
  <2>2. MadeOnce'
    BY <1>1, <1>2, <1>5, <1>9, <2>1 DEF MadeOnce, Makes
  <2>3. SpawnedBegins'
    BY <1>1, <1>2, <1>5, <1>9, <1>10, <1>12 DEF SpawnedBegins, NeverWaits, mainVars
  <2> QED BY <1>8, <1>11, <2>2, <2>3 DEF AsioInv
<1>13. CASE /\ main = "suspended" /\ step <= Len(program.script)
            /\ program.script[step] = ToAsio(f)
            /\ main' = "run" /\ step' = step + 1
  <2>1. \A i \in DOMAIN program.script : Ahead(i)' => Ahead(i)
    BY <1>6, <1>13 DEF Ahead
  <2>2. MadeOnce'
    BY <1>1, <1>2, <1>5, <1>9, <2>1 DEF MadeOnce, Makes
  <2>3. \A i \in DOMAIN program.script : i < step' => i < step \/ i = step
    BY <1>6, <1>13
  <2>4. (\A g : program.script[step] # Spawn(g)) /\ program.script[step] # Timer
    BY <1>13 DEF ToAsio, Spawn, Timer
  <2>5. SpawnedBegins'
    <3> SUFFICES ASSUME NEW i \in DOMAIN program.script, NEW g \in Used,
                        i < step', program.script[i] = Spawn(g)
                 PROVE  /\ driver'[g] # "unborn" \/ Posted("begin", g)'
                        /\ \A j \in DOMAIN program.script :
                              i < j /\ j < step' /\ program.script[j] = Timer
                                /\ NeverWaits(program, g) =>
                                  \/ driver'[g] = "over"
                                  \/ MainPosted' /\ (driver'[g] # "unborn" \/ BeginsBeforeMain(g)')
      BY <1>2 DEF SpawnedBegins, NeverWaits
    <3>1. i < step /\ \A j \in DOMAIN program.script :
                        j < step' /\ program.script[j] = Timer => j < step
      BY <2>3, <2>4
    <3> QED BY <1>1, <1>5, <1>9, <1>10, <3>1 DEF SpawnedBegins
  <2> QED BY <1>8, <1>11, <2>2, <2>5 DEF AsioInv
<1> QED BY <1>3, <1>12, <1>13 DEF AsioMoves

LEMMA OthersKeep ==
    ASSUME TypeOK, UNCHANGED program, NEW f, OthersStay(f),
           NEW g \in Used \ {f}, FutureInv(g)
    PROVE  FutureInv(g)'
<1>1. g \in Futures \ {f} /\ Body(g)' = Body(g)
  BY FutureFacts, TypesStay
<1>2. /\ at'[g] = at[g] /\ stage'[g] = stage[g] /\ result'[g] = result[g]
      /\ op'[g] = op[g] /\ waker'[g] = waker[g]
      /\ driver'[g] = driver[g] /\ flag'[g] = flag[g]
  BY <1>1 DEF OthersStay
<1>3. Ends(g)' /\ IsAwaited(g)' /\ InPoll(g)'
  BY <1>1, <1>2 DEF FutureInv, Ends, IsAwaited, InPoll, Resumable
<1> QED BY <1>3 DEF FutureInv

LEMMA FutureStep ==
    ASSUME IInv, NEW f \in Used, Poll(f) \/ Drive(f) \/ Operate(f)
    PROVE  IInv'
<1>1. /\ TypeOK /\ \A g \in Used : FutureInv(g)
      /\ QueueInv
      /\ program.driver = "to_asio" => AsioInv /\ OneAtATime /\ MadeOnce /\ Woken
  BY DEF IInv, AsioInv
<1>2. UNCHANGED program /\ Used' = Used
  BY ProgramStays DEF Used
<1>3. TypeOK' /\ FutureInv(f)' /\ OthersStay(f)
  BY <1>1, FutureKeeps DEF Keeps
<1>4. \A g \in Used' : FutureInv(g)'
  BY <1>1, <1>2, <1>3, OthersKeep
<1>5. QueueGrows(f) /\ Distinct(queue') /\ \A g \in Used : Expected(g)'
  BY <1>1, FutureKeepsQueue
<1>6. MainPosted' <=> MainPosted
  BY <1>1, <1>5, QueueGrowsFacts DEF QueueInv
<1>7. MainPosted' => program.driver = "to_asio" /\ main' = "suspended"
  <2> SUFFICES ASSUME MainPosted PROVE program.driver = "to_asio" /\ main' = "suspended"
    BY <1>6
  <2>1. program.driver = "to_asio" /\ main = "suspended"
    BY <1>1 DEF QueueInv
  <2>2. AsioMoves(f)
    BY <1>1, <2>1, PollUnderAsio, DriveUnderAsio, OperateUnderAsio DEF Woken
  <2>3. ASSUME step <= Len(program.script), program.script[step] = ToAsio(f), Active(f)
        PROVE  FALSE
    <3>1. step \in DOMAIN program.script
      BY <1>1, <2>3, ProgramFacts DEF TypeOK, MainTypes
    <3>2. driver[f] = "unborn"
      BY <1>1, <2>1, <2>3, <3>1 DEF MadeOnce, Ahead, Makes
    <3> QED BY <2>3, <3>2 DEF Active
  <2>4. UNCHANGED mainVars
    BY <2>2, <2>3 DEF AsioMoves
  <2> QED BY <2>1, <2>4 DEF mainVars
<1>8. QueueInv'
  BY <1>2, <1>5, <1>7 DEF QueueInv
<1>9. program'.driver = "to_asio" => AsioInv'
  BY <1>2, FutureKeepsAsio
<1> QED BY <1>3, <1>4, <1>8, <1>9 DEF IInv

------------------------------------------------------------------------------
(* The steps of the loop.                                                  *)

\* When the loop is free nobody polls.
LEMMA FreeLoop ==
    ASSUME IInv, LoopIsFree
    PROVE  /\ main # "run"
           /\ OnLoop => \A f \in Used : ~Active(f) /\ stage[f] = "idle"
           /\ program.driver = "to_asio" => \A f \in Used : ~Locked(f)
<1>1. program.driver = "to_asio" => program.adapter = "from_asio"
  BY ProgramFacts DEF IInv, TypeOK
<1>2. ASSUME OnLoop, NEW f \in Used PROVE driver[f] # "polling"
  <2>1. stage[f] = "idle"
    BY <1>2 DEF LoopIsFree
  <2> QED BY <2>1 DEF IInv, FutureInv, InPoll, Resumable
<1> QED BY <1>1, <1>2 DEF LoopIsFree, OnLoop, Active

\* The handler that runs, and what it finds and does.
RunsMain ==
    /\ Head(queue) = <<"main", None>> /\ MainPosted
    /\ program.driver = "to_asio" /\ main = "suspended"
    /\ main' = "run" /\ UNCHANGED <<op, driver, flag>>

RunsOperation(f) ==
    /\ UNCHANGED <<driver, flag, main>>
    /\ \/ /\ Head(queue) = <<"spawn", f>> /\ op[f] = "posted"
          /\ op' = [op EXCEPT ![f] = "running"]
       \/ /\ Head(queue) = <<"finish", f>> /\ op[f] = "expired"
          /\ op' = [op EXCEPT ![f] = "result"]

RunsPoll(f) ==
    /\ UNCHANGED <<op, flag, main>>
    /\ Head(queue) = <<"poll", f>>
    /\ driver[f] = IF program.driver = "to_asio" THEN "waiting" ELSE "scheduled"
    /\ \/ driver' = [driver EXCEPT ![f] = "start"]
       \/ program.driver = "to_asio" /\ UNCHANGED driver

RunsBegin(f) ==
    /\ UNCHANGED <<op, main>>
    /\ Head(queue) = <<"begin", f>>
    /\ program.driver = "to_asio" /\ driver[f] = "unborn"
    /\ Begins(f)

LEMMA HandlerFacts ==
    ASSUME IInv, RunHandler
    PROVE  /\ LoopIsFree /\ queue # <<>> /\ queue' = Tail(queue)
           /\ UNCHANGED <<program, taskVars, pollVars, waker, step, destroyed>>
           /\ \/ RunsMain
              \/ \E f \in Used : RunsOperation(f) \/ RunsPoll(f) \/ RunsBegin(f)
<1>1. /\ LoopIsFree /\ queue # <<>> /\ queue' = Tail(queue)
      /\ UNCHANGED <<program, taskVars, pollVars, waker, step, destroyed>>
  BY DEF RunHandler
<1>2. TypeOK /\ queue \in Seq(Handlers) /\ Distinct(queue) /\ QueueInv
  BY DEF IInv, TypeOK, QueueInv
<1>3. Head(queue) \in Handlers /\ \A n, g : <<n, g>> = Head(queue) => Posted(n, g)
  BY <1>1, <1>2, TakeFacts
<1>4. CASE Head(queue) = <<"main", None>>
  <2>1. Head(queue)[1] = "main"
    BY <1>4
  <2>2. main' = "run" /\ UNCHANGED <<op, driver, flag>>
    BY <2>1 DEF RunHandler
  <2>3. MainPosted
    BY <1>3, <1>4 DEF MainPosted
  <2> QED BY <1>1, <1>2, <1>4, <2>2, <2>3 DEF QueueInv, RunsMain
<1>5. ASSUME NEW n \in {"spawn", "finish", "poll", "begin"}, NEW g \in Used,
             Head(queue) = <<n, g>>
      PROVE  RunsOperation(g) \/ RunsPoll(g) \/ RunsBegin(g)
  <2>1. Posted(n, g) /\ Expected(g)
    BY <1>2, <1>3, <1>5 DEF QueueInv
  <2>2. Head(queue)[1] = n /\ Head(queue)[2] = g
    BY <1>5
  <2>3. CASE n = "spawn"
    BY <1>5, <2>1, <2>2, <2>3 DEF RunHandler, Expected, RunsOperation
  <2>4. CASE n = "finish"
    BY <1>5, <2>1, <2>2, <2>4 DEF RunHandler, Expected, RunsOperation
  <2>5. CASE n = "poll"
    <3> DEFINE to == IF flag[g] \/ program.driver # "to_asio" THEN "start" ELSE driver[g]
    <3>1. UNCHANGED <<op, flag, main>> /\ driver' = [driver EXCEPT ![g] = to]
      BY <2>2, <2>5 DEF RunHandler, Goes
    <3>2. to = "start" \/ (program.driver = "to_asio" /\ to = driver[g])
      OBVIOUS
    <3> HIDE DEF to
    <3>3. [driver EXCEPT ![g] = driver[g]] = driver
      BY <1>2 DEF TypeOK, DriverTypes
    <3>4. \/ driver' = [driver EXCEPT ![g] = "start"]
          \/ program.driver = "to_asio" /\ UNCHANGED driver
      BY <3>1, <3>2, <3>3
    <3> QED BY <1>5, <2>1, <2>5, <3>1, <3>4 DEF Expected, RunsPoll
  <2>6. CASE n = "begin"
    BY <1>5, <2>1, <2>2, <2>6 DEF RunHandler, Expected, RunsBegin
  <2> QED BY <2>3, <2>4, <2>5, <2>6
<1>6. \/ Head(queue) = <<"main", None>>
      \/ \E n \in {"spawn", "finish", "poll", "begin"}, g \in Used : Head(queue) = <<n, g>>
  BY <1>3 DEF Handlers
<1> QED BY <1>1, <1>4, <1>5, <1>6

\* One future is about to be polled, or nothing but its operation changes.
LEMMA HandlerTypes ==
    ASSUME IInv, RunHandler
    PROVE  TypeOK'
<1>1. /\ LoopIsFree /\ queue # <<>> /\ queue' = Tail(queue)
      /\ UNCHANGED <<program, taskVars, pollVars, waker, step, destroyed>>
      /\ \/ RunsMain
         \/ \E f \in Used : RunsOperation(f) \/ RunsPoll(f) \/ RunsBegin(f)
  BY HandlerFacts
<1>2. TypeOK /\ queue \in Seq(Handlers) /\ Distinct(queue)
  BY DEF IInv, TypeOK, QueueInv
<1>3. queue' \in Seq(Handlers)
  BY <1>1, <1>2, TakeFacts
<1>4. op' \in [Futures -> {"none", "posted", "running", "expired", "result", "waking",
                           "woken", "leaving", "done"}]
  BY <1>1, <1>2 DEF TypeOK, OpTypes, RunsMain, RunsOperation, RunsPoll, RunsBegin
<1>5. OpTypes'
  BY <1>1, <1>2, <1>4 DEF TypeOK, OpTypes
<1>6. "start" \in Places
  BY DEF Places
<1>7. /\ driver' \in [Futures -> {"unborn"} \cup Places]
      /\ \A f \in Used : driver'[f] \in Places
      /\ flag' \in [Futures -> BOOLEAN]
  <2>1. /\ driver \in [Futures -> {"unborn"} \cup Places] /\ \A f \in Used : driver[f] \in Places
        /\ flag \in [Futures -> BOOLEAN] /\ Used \subseteq Futures
    BY <1>2, ProgramFacts DEF TypeOK, DriverTypes
  <2>2. CASE UNCHANGED <<driver, flag>>
    BY <2>1, <2>2
  <2>3. CASE \E f \in Used : RunsPoll(f) \/ RunsBegin(f)
    BY <1>6, <2>1, <2>3 DEF RunsPoll, RunsBegin, Begins
  <2> QED BY <1>1, <2>2, <2>3 DEF RunsMain, RunsOperation
<1>8. DriverTypes'
  BY <1>1, <1>2, <1>7, TypesStay DEF DriverTypes
<1>9. MainTypes'
  BY <1>1, <1>2 DEF TypeOK, MainTypes, RunsMain, RunsOperation, RunsPoll, RunsBegin
<1> QED BY <1>1, <1>2, <1>3, <1>5, <1>8, <1>9, TypesStay DEF TypeOK

LEMMA HandlerFutures ==
    ASSUME IInv, RunHandler, NEW g \in Used
    PROVE  FutureInv(g)'
<1>1. /\ LoopIsFree
      /\ UNCHANGED <<program, taskVars, pollVars, waker>>
      /\ \/ RunsMain
         \/ \E f \in Used : RunsOperation(f) \/ RunsPoll(f) \/ RunsBegin(f)
  BY HandlerFacts
<1>2. TypeOK /\ FutureInv(g)
  BY DEF IInv
<1>3. UNCHANGED <<program, at, stage, result, waker>>
  BY <1>1 DEF taskVars, pollVars
<1>4. CASE RunsMain
  <2>1. OthersStay(None)
    BY <1>3, <1>4 DEF RunsMain, OthersStay
  <2>2. g # None
    <3>1. g \in Futures
      BY <1>2, FutureFacts
    <3> QED BY <3>1 DEF Futures, None
  <2> QED BY <1>2, <1>3, <2>1, <2>2, OthersKeep
<1>5. ASSUME NEW f \in Used, RunsOperation(f) \/ RunsPoll(f) \/ RunsBegin(f)
      PROVE  FutureInv(g)'
  <2>1. f \in Futures /\ Body(g)' = Body(g)
    BY <1>2, <1>3, FutureFacts, TypesStay
  <2>2. CASE g # f
    <3>1. OthersStay(f)
      BY <1>2, <1>3, <1>5, <2>1
         DEF TypeOK, OpTypes, DriverTypes, OthersStay, RunsOperation, RunsPoll, RunsBegin, Begins
    <3> QED BY <1>2, <1>3, <2>2, <3>1, OthersKeep
  <2>3. CASE g = f /\ RunsOperation(f)
    <3>1. /\ UNCHANGED <<driver, flag>>
          /\ \/ op[g] = "posted" /\ op'[g] = "running"
             \/ op[g] = "expired" /\ op'[g] = "result"
      BY <1>2, <2>1, <2>3 DEF TypeOK, OpTypes, RunsOperation
    <3>2. Ends(g)' /\ IsAwaited(g)' /\ InPoll(g)'
      BY <1>2, <1>3, <2>1, <3>1 DEF FutureInv, Ends, IsAwaited, InPoll, Resumable
    <3> QED BY <3>2 DEF FutureInv
  <2>4. CASE g = f /\ (RunsPoll(f) \/ RunsBegin(f))
    <3>1. /\ UNCHANGED op
          /\ driver'[g] = driver[g] \/ driver'[g] = "start"
          /\ flag'[g] = flag[g] \/ flag'[g]
          /\ \/ program.driver = "to_asio" /\ driver[g] \in {"waiting", "unborn"}
             \/ driver[g] = "scheduled"
      BY <1>2, <2>1, <2>4 DEF TypeOK, DriverTypes, RunsPoll, RunsBegin, Begins
    <3>2. stage[g] = "idle"
      <4>1. OnLoop
        BY <1>2, <3>1, FutureFacts DEF OnLoop, Places
      <4> QED BY <1>1, <4>1, FreeLoop
    <3>3. program.driver # "c_main"
      BY <1>2, <3>1, FutureFacts DEF Places
    <3>4. Ends(g)' /\ IsAwaited(g)'
      BY <1>2, <1>3, <2>1, <3>1, <3>2, <3>3 DEF FutureInv, Ends, IsAwaited
    <3>5. InPoll(g)'
      BY <1>2, <1>3, <3>1, <3>2 DEF FutureInv, InPoll, Resumable
    <3> QED BY <3>4, <3>5 DEF FutureInv
  <2> QED BY <1>5, <2>2, <2>3, <2>4
<1> QED BY <1>1, <1>4, <1>5

LEMMA HandlerQueue ==
    ASSUME IInv, RunHandler
    PROVE  QueueInv'
<1>1. /\ queue # <<>> /\ queue' = Tail(queue) /\ UNCHANGED program
      /\ \/ RunsMain
         \/ \E f \in Used : RunsOperation(f) \/ RunsPoll(f) \/ RunsBegin(f)
  BY HandlerFacts
<1>2. TypeOK /\ queue \in Seq(Handlers) /\ Distinct(queue) /\ QueueInv /\ Used' = Used
  BY <1>1 DEF IInv, TypeOK, QueueInv, Used
<1>3. /\ Distinct(queue')
      /\ \A n, g : Posted(n, g)' <=> Posted(n, g) /\ <<n, g>> # Head(queue)
  BY <1>1, <1>2, TakeFacts
<1>4. MainPosted' => program'.driver = "to_asio" /\ main' = "suspended"
  <2>1. MainPosted' => MainPosted /\ Head(queue) # <<"main", None>>
    BY <1>3 DEF MainPosted
  <2> QED BY <1>1, <1>2, <2>1 DEF QueueInv, RunsMain, RunsOperation, RunsPoll, RunsBegin
<1>5. ASSUME NEW g \in Used PROVE Expected(g)'
  <2>1. Expected(g) /\ \A n : Posted(n, g)' <=> Posted(n, g) /\ <<n, g>> # Head(queue)
    BY <1>2, <1>3 DEF QueueInv
  <2>2. CASE UNCHANGED <<op, driver>>
    BY <1>1, <2>1, <2>2 DEF Expected
  <2>3. ASSUME NEW f \in Used, RunsOperation(f) \/ RunsPoll(f) \/ RunsBegin(f)
        PROVE  Expected(g)'
    <3>1. f \in Futures
      BY <1>2, FutureFacts
    <3>2. CASE g # f
      <4>1. g \in Futures
        BY <1>2, FutureFacts
      <4>2. op'[g] = op[g] /\ driver'[g] = driver[g]
        BY <1>2, <2>3, <3>2, <4>1
           DEF TypeOK, OpTypes, DriverTypes, RunsOperation, RunsPoll, RunsBegin, Begins
      <4> QED BY <1>1, <2>1, <4>2 DEF Expected
    <3>3. CASE g = f /\ RunsOperation(f)
      <4>1. /\ UNCHANGED driver
            /\ \/ Head(queue) = <<"spawn", g>> /\ op[g] = "posted" /\ op'[g] = "running"
               \/ Head(queue) = <<"finish", g>> /\ op[g] = "expired" /\ op'[g] = "result"
        BY <1>2, <3>1, <3>3 DEF TypeOK, OpTypes, RunsOperation
      <4> QED BY <1>1, <2>1, <4>1 DEF Expected
    <3>4. CASE g = f /\ RunsPoll(f)
      <4>1. /\ UNCHANGED op /\ Head(queue) = <<"poll", g>>
            /\ driver[g] \in {"waiting", "scheduled"}
        BY <3>4 DEF RunsPoll
      <4> QED BY <1>1, <2>1, <4>1 DEF Expected
    <3>5. CASE g = f /\ RunsBegin(f)
      <4>1. UNCHANGED op /\ Head(queue) = <<"begin", g>> /\ driver[g] = "unborn"
            /\ program.driver = "to_asio"
        BY <3>5 DEF RunsBegin
      <4> QED BY <1>1, <2>1, <4>1 DEF Expected
    <3> QED BY <2>3, <3>2, <3>3, <3>4, <3>5
  <2> QED BY <1>1, <2>2, <2>3 DEF RunsMain
<1> QED BY <1>2, <1>3, <1>4, <1>5 DEF QueueInv

LEMMA HandlerAsio ==
    ASSUME IInv, RunHandler, program.driver = "to_asio"
    PROVE  AsioInv'
<1>1. /\ LoopIsFree /\ queue # <<>> /\ queue' = Tail(queue)
      /\ UNCHANGED <<program, step, stage, result>>
      /\ \/ RunsMain
         \/ \E f \in Used : RunsOperation(f) \/ RunsPoll(f) \/ RunsBegin(f)
  BY HandlerFacts DEF pollVars
<1>2. /\ TypeOK /\ queue \in Seq(Handlers) /\ Distinct(queue) /\ QueueInv
      /\ OneAtATime /\ MadeOnce /\ Woken /\ SpawnedBegins
  BY DEF IInv, TypeOK, QueueInv, AsioInv
<1>3. /\ \A n, g : Posted(n, g)' <=> Posted(n, g) /\ <<n, g>> # Head(queue)
      /\ \A n, g : <<n, g>> = Head(queue) => Posted(n, g)
      /\ \A g : BeginsBeforeMain(g) /\ Head(queue) # <<"begin", g>> =>
            Head(queue) # <<"main", None>> /\ BeginsBeforeMain(g)'
  BY <1>1, <1>2, TakeFacts
<1>4. Used' = Used /\ Used \subseteq Futures
  BY <1>1, <1>2, FutureFacts DEF Used
<1>5. main # "run" /\ \A g \in Used : ~Active(g) /\ ~Locked(g) /\ stage[g] = "idle"
  BY <1>1, FreeLoop DEF OnLoop
<1>6. \A g \in Used : NeverWaits(program, g) => driver[g] \in {"unborn", "over"}
  <2> SUFFICES ASSUME NEW g \in Used, NeverWaits(program, g)
               PROVE  driver[g] \in {"unborn", "over"}
    OBVIOUS
  <2>1. driver[g] \in {"unborn", "start", "polling", "polled", "waiting", "over"}
    BY <1>2, FutureFacts DEF Places
  <2>2. driver[g] # "waiting" /\ ~Active(g)
    BY <1>2, <1>5 DEF Woken, HasWoken
  <2> QED BY <2>1, <2>2 DEF Active
<1>7. CASE RunsMain
  <2>1. /\ Head(queue) = <<"main", None>> /\ MainPosted /\ main' = "run"
        /\ UNCHANGED <<op, driver, flag>>
    BY <1>7 DEF RunsMain
  <2>2. OneAtATime' /\ Woken'
    BY <1>1, <1>2, <1>4, <1>5, <2>1
       DEF OneAtATime, Active, Locked, Woken, HasWoken, NeverWaits
  <2>3. \A g : Posted("begin", g)' <=> Posted("begin", g)
    BY <1>3, <2>1
  <2>4. MadeOnce'
    <3>1. \A i : Ahead(i)' => Ahead(i)
      BY <1>1, <2>1 DEF Ahead
    <3> QED BY <1>1, <1>2, <1>4, <2>1, <2>3, <3>1 DEF MadeOnce, Makes
  <2>5. SpawnedBegins'
    <3>1. \A g \in Used : NeverWaits(program, g) /\ MainPosted
                             /\ (driver[g] # "unborn" \/ BeginsBeforeMain(g)) =>
                          driver[g] = "over"
      BY <1>3, <1>6, <2>1
    <3>2. \A i \in DOMAIN program.script : \A g \in Used :
             i < step /\ program.script[i] = Spawn(g) =>
                /\ driver[g] # "unborn" \/ Posted("begin", g)
                /\ \A j \in DOMAIN program.script :
                      i < j /\ j < step /\ program.script[j] = Timer /\ NeverWaits(program, g) =>
                          driver[g] = "over"
      BY <1>2, <3>1 DEF SpawnedBegins
    <3> QED BY <1>1, <1>4, <2>1, <2>3, <3>2 DEF SpawnedBegins, NeverWaits
  <2> QED BY <2>2, <2>4, <2>5 DEF AsioInv
<1>8. ASSUME NEW f \in Used, RunsOperation(f) \/ RunsPoll(f) \/ RunsBegin(f)
      PROVE  AsioInv'
  <2>1. /\ UNCHANGED main /\ Head(queue) # <<"main", None>>
        /\ driver[f] \notin {"over"} \/ UNCHANGED driver
    BY <1>8 DEF RunsOperation, RunsPoll, RunsBegin
  <2>2. MainPosted' <=> MainPosted
    BY <1>3, <2>1 DEF MainPosted
  <2>3. \A g \in Used \ {f} : driver'[g] = driver[g] /\ op'[g] = op[g] /\ flag'[g] = flag[g]
    BY <1>2, <1>4, <1>8
       DEF TypeOK, OpTypes, DriverTypes, RunsOperation, RunsPoll, RunsBegin, Begins
  <2>4. \A g \in Used \ {f} : ~Active(g)' /\ ~Locked(g)'
    BY <1>5, <2>3 DEF Active, Locked
  <2>5. ~Active(f)' \/ ~Locked(f)'
    <3>1. CASE RunsOperation(f)
      BY <1>5, <3>1 DEF RunsOperation, Active
    <3>2. CASE RunsPoll(f) \/ RunsBegin(f)
      BY <1>5, <3>2 DEF RunsPoll, RunsBegin, Locked
    <3> QED BY <1>8, <3>1, <3>2
  <2>6. OneAtATime'
    BY <1>4, <1>5, <2>1, <2>4, <2>5 DEF OneAtATime
  <2>7. ASSUME NEW g \in Used
        PROVE  /\ \/ driver'[g] = driver[g] /\ (Posted("begin", g)' <=> Posted("begin", g))
                  \/ driver'[g] = "start" /\ driver[g] = "waiting"
                     /\ (Posted("begin", g)' <=> Posted("begin", g))
                  \/ driver'[g] = "start" /\ driver[g] = "unborn" /\ Posted("begin", g)
               /\ BeginsBeforeMain(g) => BeginsBeforeMain(g)' \/ driver'[g] = "start"
               /\ driver[g] = "over" => driver'[g] = "over"
    <3>1. CASE g # f
      <4>1. Head(queue) # <<"begin", g>>
        BY <1>8, <3>1 DEF RunsOperation, RunsPoll, RunsBegin
      <4> QED BY <1>3, <2>3, <3>1, <4>1
    <3>2. CASE g = f /\ RunsOperation(f)
      <4>1. Head(queue) # <<"begin", g>> /\ UNCHANGED driver
        BY <3>2 DEF RunsOperation
      <4> QED BY <1>3, <4>1
    <3>3. CASE g = f /\ RunsPoll(f)
      <4>1. /\ Head(queue) # <<"begin", g>> /\ driver[g] = "waiting"
            /\ driver'[g] = "start" \/ driver'[g] = driver[g]
        BY <1>2, <1>4, <3>3 DEF RunsPoll, TypeOK, DriverTypes
      <4> QED BY <1>3, <4>1
    <3>4. CASE g = f /\ RunsBegin(f)
      <4>1. /\ Head(queue) = <<"begin", g>> /\ driver[g] = "unborn"
            /\ driver'[g] = "start"
        BY <1>2, <1>4, <3>4 DEF RunsBegin, Begins, TypeOK, DriverTypes
      <4> QED BY <1>3, <4>1
    <3> QED BY <1>8, <3>1, <3>2, <3>3, <3>4
  <2>8. MadeOnce'
    <3>1. \A i : Ahead(i)' <=> Ahead(i)
      BY <1>1, <2>1, <2>2 DEF Ahead
    <3>2. \A i \in DOMAIN program.script : \A g \in Used :
             Ahead(i) /\ Makes(program, i, g) => driver'[g] = "unborn" /\ ~Posted("begin", g)'
      BY <1>2, <2>7 DEF MadeOnce
    <3> QED BY <1>1, <1>4, <3>1, <3>2 DEF MadeOnce, Makes
  <2>9. Woken'
    <3>1. \A g \in Used : NeverWaits(program, g) => driver'[g] \in {"unborn", "over", "start"}
      BY <1>6, <2>7
    <3>2. \A g \in Used : NeverWaits(program, g) => HasWoken(g)'
      BY <1>1, <1>5, <3>1 DEF HasWoken
    <3> QED BY <1>1, <1>4, <3>2 DEF Woken, NeverWaits
  <2>10. SpawnedBegins'
    <3>1. \A g \in Used :
             /\ driver[g] # "unborn" \/ Posted("begin", g) =>
                   driver'[g] # "unborn" \/ Posted("begin", g)'
             /\ driver[g] # "unborn" \/ BeginsBeforeMain(g) =>
                   driver'[g] # "unborn" \/ BeginsBeforeMain(g)'
             /\ driver[g] = "over" => driver'[g] = "over"
      BY <2>7
    <3>2. \A i \in DOMAIN program.script : \A g \in Used :
             i < step /\ program.script[i] = Spawn(g) =>
                /\ driver'[g] # "unborn" \/ Posted("begin", g)'
                /\ \A j \in DOMAIN program.script :
                      i < j /\ j < step /\ program.script[j] = Timer /\ NeverWaits(program, g) =>
                          \/ driver'[g] = "over"
                          \/ MainPosted' /\ (driver'[g] # "unborn" \/ BeginsBeforeMain(g)')
      BY <1>2, <2>2, <3>1 DEF SpawnedBegins
    <3> QED BY <1>1, <1>4, <3>2 DEF SpawnedBegins, NeverWaits
  <2> QED BY <2>6, <2>8, <2>9, <2>10 DEF AsioInv
<1> QED BY <1>1, <1>7, <1>8

LEMMA HandlerStep ==
    ASSUME IInv, RunHandler PROVE IInv'
<1>1. UNCHANGED program /\ Used' = Used
  BY HandlerFacts DEF Used
<1> QED BY <1>1, HandlerTypes, HandlerFutures, HandlerQueue, HandlerAsio DEF IInv

\* asio_main exists under to_asio only.
LEMMA MainFacts ==
    ASSUME IInv, main # "over"
    PROVE  /\ TypeOK /\ QueueInv /\ \A f \in Used : FutureInv(f)
           /\ program.driver = "to_asio"
           /\ OneAtATime /\ MadeOnce /\ Woken /\ SpawnedBegins
           /\ IsScript(program)
           /\ Len(program.script) \in Nat /\ DOMAIN program.script = 1..Len(program.script)
           /\ step \in 1..(Len(program.script) + 1)
           /\ main = "run" => ~MainPosted
<1>1. TypeOK /\ QueueInv /\ \A f \in Used : FutureInv(f)
  BY DEF IInv
<1>2. program.driver = "to_asio" /\ step \in 1..(Len(program.script) + 1)
  BY <1>1 DEF TypeOK, MainTypes
<1> QED BY <1>1, <1>2, ProgramFacts DEF IInv, TypeOK, AsioInv, QueueInv

\* The kinds of steps of asio_main.
MainAwaits(f) ==
    /\ step <= Len(program.script) /\ program.script[step] = ToAsio(f)
    /\ driver[f] = "unborn" /\ ~Posted("begin", f)
    /\ Begins(f)
    /\ main' = "suspended" /\ UNCHANGED <<step, queue>>

MainSpawns(f) ==
    /\ step <= Len(program.script) /\ program.script[step] = Spawn(f)
    /\ driver[f] = "unborn" /\ ~Posted("begin", f)
    /\ Post("begin", f)
    /\ step' = step + 1 /\ UNCHANGED <<main, driver, flag>>

MainOtherwise ==
    /\ UNCHANGED driverVars
    /\ \/ step > Len(program.script) /\ main' = "over" /\ UNCHANGED step
       \/ main' = "suspended" /\ UNCHANGED step
       \/ /\ step <= Len(program.script) /\ program.script[step].do = "get"
          /\ step' = step + 1 /\ UNCHANGED main

LEMMA MainStepFacts ==
    ASSUME IInv, MainStep
    PROVE  /\ UNCHANGED <<program, taskVars, pollVars, opVars, destroyed>>
           /\ MainOtherwise \/ \E f \in Used : MainAwaits(f) \/ MainSpawns(f)
<1>1. main = "run" /\ UNCHANGED <<program, taskVars, pollVars, opVars, destroyed>>
  BY DEF MainStep
<1>2. CASE step > Len(program.script)
  BY <1>1, <1>2 DEF MainStep, MainOtherwise
<1>3. CASE step <= Len(program.script)
  <2> DEFINE now == program.script[step]
  <2>1. /\ TypeOK /\ MadeOnce /\ IsScript(program) /\ step \in DOMAIN program.script
        /\ ~(step > Len(program.script))
    BY <1>1, <1>3, MainFacts
  <2>2. now \in AStep
    BY <2>1, ProgramFacts, ElementOfSeq DEF TypeOK
  <2>3. now = Timer \/ now.future \in Used
    BY <2>1 DEF IsScript, Used
  <2>4. /\ now.do = "await" => now = ToAsio(now.future)
        /\ now.do = "spawn" => now = Spawn(now.future)
    BY <2>2 DEF AStep, ToAsio, Spawn
  <2>5. ASSUME NEW f \in Used, now = ToAsio(f) \/ now = Spawn(f)
        PROVE  driver[f] = "unborn" /\ ~Posted("begin", f)
    BY <1>1, <2>1, <2>5 DEF MadeOnce, Ahead, Makes
  <2>6. /\ now.do \in {"timer", "await", "spawn", "get"}
        /\ now.do = "timer" => main' = "suspended" /\ UNCHANGED <<step, driverVars>>
        /\ now.do = "await" =>
              main' = "suspended" /\ Begins(now.future) /\ UNCHANGED <<step, queue>>
        /\ now.do = "spawn" =>
              Post("begin", now.future) /\ step' = step + 1 /\ UNCHANGED <<main, driver, flag>>
        /\ now.do = "get" => step' = step + 1 /\ UNCHANGED <<main, driverVars>>
    BY <1>3, <2>1, <2>2 DEF MainStep, AStep
  <2>7. now.do \in {"await", "spawn"} => now.future \in Used
    BY <2>3 DEF Timer
  <2>8. CASE now.do \in {"timer", "get"}
    BY <1>1, <1>3, <2>6, <2>8 DEF MainOtherwise
  <2>9. CASE now.do = "await"
    <3>1. MainAwaits(now.future)
      BY <1>3, <2>4, <2>5, <2>6, <2>7, <2>9 DEF MainAwaits
    <3> QED BY <1>1, <2>7, <2>9, <3>1
  <2>10. CASE now.do = "spawn"
    <3>1. MainSpawns(now.future)
      BY <1>3, <2>4, <2>5, <2>6, <2>7, <2>10 DEF MainSpawns
    <3> QED BY <1>1, <2>7, <2>10, <3>1
  <2> QED BY <1>1, <2>6, <2>8, <2>9, <2>10
<1> QED BY <1>1, <1>2, <1>3, MainFacts

LEMMA MainOtherwiseStep ==
    ASSUME IInv, MainStep, MainOtherwise PROVE IInv'
<1>1. /\ UNCHANGED <<program, taskVars, pollVars, opVars, destroyed, driver, flag, queue>>
      /\ main = "run"
      /\ \/ step > Len(program.script) /\ main' = "over" /\ UNCHANGED step
         \/ main' = "suspended" /\ UNCHANGED step
         \/ /\ step <= Len(program.script) /\ program.script[step].do = "get"
            /\ step' = step + 1 /\ UNCHANGED main
  BY MainStepFacts DEF MainOtherwise, driverVars, MainStep
<1>2. /\ TypeOK /\ QueueInv /\ \A f \in Used : FutureInv(f)
      /\ program.driver = "to_asio"
      /\ OneAtATime /\ MadeOnce /\ Woken /\ SpawnedBegins
      /\ Len(program.script) \in Nat /\ DOMAIN program.script = 1..Len(program.script)
      /\ step \in 1..(Len(program.script) + 1)
      /\ ~MainPosted
  BY <1>1, MainFacts
<1>3. Used' = Used /\ UNCHANGED <<stage, result, op>>
  BY <1>1 DEF Used, pollVars, opVars
<1>4. main' \in {"run", "suspended", "over"} /\ step' \in 1..(Len(program.script) + 1)
  BY <1>1, <1>2
<1>5. TypeOK'
  BY <1>1, <1>2, <1>4, TypesStay DEF TypeOK, MainTypes
<1>6. \A f \in Used' : FutureInv(f)'
  <2>1. OthersStay(None) /\ Used \subseteq Futures
    BY <1>1, <1>2, FutureFacts DEF OthersStay, taskVars, pollVars, opVars
  <2>2. None \notin Futures
    BY DEF Futures, None
  <2> QED BY <1>1, <1>2, <1>3, <2>1, <2>2, OthersKeep
<1>7. /\ \A n, g : Posted(n, g)' <=> Posted(n, g)
      /\ ~MainPosted'
      /\ Distinct(queue)' <=> Distinct(queue)
  BY <1>1, <1>2 DEF Posted, MainPosted, Distinct
<1>8. QueueInv'
  BY <1>1, <1>2, <1>3, <1>7 DEF QueueInv, Expected
<1>9. OneAtATime' /\ Woken'
  BY <1>1, <1>2, <1>3 DEF OneAtATime, Active, Locked, Woken, HasWoken, NeverWaits
<1>10. MadeOnce'
  <2>1. \A i \in DOMAIN program.script : Ahead(i)' => Ahead(i)
    BY <1>1, <1>2, <1>7 DEF Ahead
  <2> QED BY <1>1, <1>2, <1>3, <1>7, <2>1 DEF MadeOnce, Makes
<1>11. SpawnedBegins'
  <2>1. \A i \in DOMAIN program.script :
           i < step' /\ (program.script[i] = Timer \/ \E f : program.script[i] = Spawn(f)) =>
               i < step
    <3>1. program.script[step].do = "get" =>
             program.script[step] # Timer /\ \A f : program.script[step] # Spawn(f)
      BY DEF Timer, Spawn
    <3> QED BY <1>1, <1>2, <3>1
  <2>2. \A i \in DOMAIN program.script : \A g \in Used :
           i < step' /\ program.script[i] = Spawn(g) =>
              /\ driver[g] # "unborn" \/ Posted("begin", g)
              /\ \A j \in DOMAIN program.script :
                    i < j /\ j < step' /\ program.script[j] = Timer /\ NeverWaits(program, g) =>
                        driver[g] = "over"
    BY <1>2, <2>1 DEF SpawnedBegins
  <2> QED BY <1>1, <1>3, <1>7, <2>2 DEF SpawnedBegins, NeverWaits
<1> QED BY <1>5, <1>6, <1>8, <1>9, <1>10, <1>11 DEF IInv, AsioInv

LEMMA MainAwaitsStep ==
    ASSUME IInv, MainStep, NEW f \in Used, MainAwaits(f) PROVE IInv'
<1>1. /\ UNCHANGED <<program, taskVars, pollVars, opVars, destroyed, step, queue>>
      /\ main = "run" /\ main' = "suspended"
      /\ step <= Len(program.script) /\ program.script[step] = ToAsio(f)
      /\ driver[f] = "unborn" /\ ~Posted("begin", f)
      /\ driver' = [driver EXCEPT ![f] = "start"] /\ flag' = [flag EXCEPT ![f] = TRUE]
  BY MainStepFacts DEF MainAwaits, MainStep, Begins
<1>2. /\ TypeOK /\ QueueInv /\ \A g \in Used : FutureInv(g)
      /\ program.driver = "to_asio"
      /\ OneAtATime /\ MadeOnce /\ Woken /\ SpawnedBegins /\ IsScript(program)
      /\ Len(program.script) \in Nat /\ DOMAIN program.script = 1..Len(program.script)
      /\ step \in 1..(Len(program.script) + 1)
      /\ ~MainPosted
  BY <1>1, MainFacts
<1>3. /\ Used' = Used /\ Used \subseteq Futures /\ f \in Futures /\ step \in DOMAIN program.script
      /\ UNCHANGED <<at, stage, result, op, waker>> /\ "start" \in Places
  <2>1. Used \subseteq Futures
    BY <1>2, FutureFacts
  <2>2. step \in DOMAIN program.script
    BY <1>1, <1>2
  <2> QED BY <1>1, <2>1, <2>2 DEF Used, taskVars, pollVars, opVars, Places
<1>4. /\ driver'[f] = "start" /\ flag'[f]
      /\ \A g \in Futures \ {f} : driver'[g] = driver[g] /\ flag'[g] = flag[g]
      /\ driver' \in [Futures -> {"unborn"} \cup Places]
      /\ \A g \in Used : driver'[g] \in Places
      /\ flag' \in [Futures -> BOOLEAN]
  BY <1>1, <1>2, <1>3 DEF TypeOK, DriverTypes
<1>5. TypeOK'
  <2>1. DriverTypes'
    BY <1>1, <1>2, <1>4, TypesStay DEF DriverTypes
  <2>2. MainTypes'
    BY <1>1, <1>2 DEF MainTypes, TypeOK
  <2> QED BY <1>1, <1>2, <2>1, <2>2, TypesStay DEF TypeOK
<1>6. \A g \in Used' : FutureInv(g)'
  <2>1. OthersStay(f)
    BY <1>3, <1>4 DEF OthersStay
  <2>2. stage[f] = "idle" /\ FutureInv(f) /\ Body(f)' = Body(f)
    BY <1>1, <1>2, IdleFacts, TypesStay
  <2>3. Ends(f)' /\ IsAwaited(f)' /\ InPoll(f)'
    BY <1>1, <1>2, <1>3, <1>4, <2>2 DEF FutureInv, Ends, IsAwaited, InPoll
  <2> QED BY <1>1, <1>2, <1>3, <2>1, <2>3, OthersKeep DEF FutureInv
<1>7. /\ \A n, g : Posted(n, g)' <=> Posted(n, g)
      /\ \A g : BeginsBeforeMain(g)' <=> BeginsBeforeMain(g)
      /\ ~MainPosted'
      /\ Distinct(queue)' <=> Distinct(queue)
  BY <1>1, <1>2 DEF Posted, MainPosted, Distinct, BeginsBeforeMain
<1>8. QueueInv'
  <2>1. Expected(f)'
    BY <1>1, <1>2, <1>7, <1>3 DEF QueueInv, Expected
  <2>2. \A g \in Used \ {f} : Expected(g)'
    BY <1>1, <1>2, <1>3, <1>4, <1>7 DEF QueueInv, Expected
  <2> QED BY <1>2, <1>3, <1>7, <2>1, <2>2 DEF QueueInv
<1>9. OneAtATime'
  <2>1. \A g \in Used : ~Locked(g)' /\ (g # f => ~Active(g)')
    BY <1>1, <1>2, <1>3, <1>4 DEF OneAtATime, Active, Locked
  <2> QED BY <1>1, <1>3, <2>1 DEF OneAtATime
<1>10. Woken'
  <2>1. \A g \in Used : NeverWaits(program, g) => HasWoken(g)'
    BY <1>2, <1>3, <1>4 DEF Woken, HasWoken
  <2> QED BY <1>1, <1>3, <2>1 DEF Woken, NeverWaits
<1>11. MadeOnce'
  <2>1. ASSUME NEW i \in DOMAIN program.script, NEW g \in Used, Ahead(i)', Makes(program, i, g)
        PROVE  driver'[g] = "unborn" /\ ~Posted("begin", g)'
    <3>1. step < i
      BY <1>1, <1>7, <2>1 DEF Ahead
    <3>2. g # f
      BY <1>1, <1>2, <1>3, <2>1, <3>1 DEF IsScript, Makes
    <3>3. driver[g] = "unborn" /\ ~Posted("begin", g)
      BY <1>2, <2>1, <3>1 DEF MadeOnce, Ahead
    <3> QED BY <1>3, <1>4, <1>7, <3>2, <3>3
  <2> QED BY <1>1, <1>3, <2>1 DEF MadeOnce, Makes
<1>12. SpawnedBegins'
  <2>1. \A g \in Used : /\ driver[g] # "unborn" => driver'[g] # "unborn"
                        /\ driver[g] = "over" => driver'[g] = "over"
    BY <1>1, <1>3, <1>4
  <2>2. \A i \in DOMAIN program.script : \A g \in Used :
           i < step /\ program.script[i] = Spawn(g) =>
              /\ driver'[g] # "unborn" \/ Posted("begin", g)
              /\ \A j \in DOMAIN program.script :
                    i < j /\ j < step /\ program.script[j] = Timer /\ NeverWaits(program, g) =>
                        driver'[g] = "over"
    BY <1>2, <2>1 DEF SpawnedBegins
  <2> QED BY <1>1, <1>3, <1>7, <2>2 DEF SpawnedBegins, NeverWaits
<1> QED BY <1>5, <1>6, <1>8, <1>9, <1>10, <1>11, <1>12 DEF IInv, AsioInv

LEMMA MainSpawnsStep ==
    ASSUME IInv, MainStep, NEW f \in Used, MainSpawns(f) PROVE IInv'
<1>1. /\ UNCHANGED <<program, taskVars, pollVars, opVars, destroyed, driver, flag>>
      /\ main = "run" /\ main' = "run" /\ step' = step + 1
      /\ step <= Len(program.script) /\ program.script[step] = Spawn(f)
      /\ driver[f] = "unborn" /\ ~Posted("begin", f) /\ Post("begin", f)
  BY MainStepFacts DEF MainSpawns, MainStep
<1>2. /\ TypeOK /\ QueueInv /\ \A g \in Used : FutureInv(g)
      /\ program.driver = "to_asio"
      /\ OneAtATime /\ MadeOnce /\ Woken /\ SpawnedBegins /\ IsScript(program)
      /\ Len(program.script) \in Nat /\ DOMAIN program.script = 1..Len(program.script)
      /\ step \in 1..(Len(program.script) + 1)
      /\ ~MainPosted
  BY <1>1, MainFacts
<1>3. /\ Used' = Used /\ UNCHANGED <<stage, result, op>>
      /\ step \in DOMAIN program.script /\ step' \in 1..(Len(program.script) + 1)
  <2>1. step \in DOMAIN program.script /\ step' \in 1..(Len(program.script) + 1)
    BY <1>1, <1>2
  <2> QED BY <1>1, <2>1 DEF Used, pollVars, opVars
<1>4. /\ queue \in Seq(Handlers) /\ Distinct(queue) /\ <<"begin", f>> \in Handlers
      /\ f # None /\ queue' \in Seq(Handlers)
  <2>1. queue \in Seq(Handlers) /\ Distinct(queue) /\ <<"begin", f>> \in Handlers
    BY <1>2, FutureFacts DEF TypeOK, QueueInv
  <2>2. f \in Futures
    BY <1>2, FutureFacts
  <2> QED BY <1>1, <2>1, <2>2, AppendProperties DEF Post, Futures, None
<1>5. TypeOK'
  <2>1. MainTypes'
    BY <1>1, <1>2, <1>3 DEF MainTypes, TypeOK
  <2> QED BY <1>1, <1>2, <1>4, <2>1, TypesStay DEF TypeOK
<1>6. \A g \in Used' : FutureInv(g)'
  <2>1. OthersStay(None) /\ Used \subseteq Futures
    BY <1>1, <1>2, FutureFacts DEF OthersStay, taskVars, pollVars, opVars
  <2>2. None \notin Futures
    BY DEF Futures, None
  <2> QED BY <1>1, <1>2, <1>3, <2>1, <2>2, OthersKeep
<1>7. /\ Distinct(queue')
      /\ \A n, g : Posted(n, g)' <=> Posted(n, g) \/ (n = "begin" /\ g = f)
  BY <1>1, <1>4, PostFacts
<1>8. ~MainPosted'
  BY <1>2, <1>7 DEF MainPosted
<1>9. QueueInv'
  <2>1. \A g \in Used : Expected(g)'
    BY <1>1, <1>2, <1>3, <1>7 DEF QueueInv, Expected
  <2> QED BY <1>3, <1>7, <1>8, <2>1 DEF QueueInv
<1>10. OneAtATime' /\ Woken'
  BY <1>1, <1>2, <1>3 DEF OneAtATime, Active, Locked, Woken, HasWoken, NeverWaits
<1>11. MadeOnce'
  <2>1. ASSUME NEW i \in DOMAIN program.script, NEW g \in Used, Ahead(i)', Makes(program, i, g)
        PROVE  driver[g] = "unborn" /\ ~Posted("begin", g)'
    <3>1. step < i
      BY <1>1, <1>2, <2>1 DEF Ahead
    <3>2. g \in Futures /\ f \in Futures
      BY <1>2, FutureFacts
    <3>3. g # f
      BY <1>1, <1>2, <1>3, <2>1, <3>1, <3>2 DEF IsScript, Makes
    <3>4. driver[g] = "unborn" /\ ~Posted("begin", g)
      BY <1>2, <2>1, <3>1 DEF MadeOnce, Ahead
    <3> QED BY <1>7, <3>3, <3>4
  <2> QED BY <1>1, <1>3, <2>1 DEF MadeOnce, Makes
<1>12. SpawnedBegins'
  <2>1. program.script[step] # Timer /\ \A g : program.script[step] = Spawn(g) => g = f
    BY <1>1 DEF Timer, Spawn
  <2>2. \A i \in DOMAIN program.script : i < step' => i < step \/ i = step
    BY <1>1, <1>2
  <2>3. ASSUME NEW i \in DOMAIN program.script, NEW g \in Used,
               i < step', program.script[i] = Spawn(g)
        PROVE  /\ driver[g] # "unborn" \/ Posted("begin", g)'
               /\ \A j \in DOMAIN program.script :
                     i < j /\ j < step' /\ program.script[j] = Timer /\ NeverWaits(program, g) =>
                         driver[g] = "over"
    <3>1. CASE i = step
      <4>1. g = f /\ \A j \in DOMAIN program.script : ~(i < j /\ j < step')
        BY <1>1, <1>2, <2>1, <2>3, <3>1
      <4> QED BY <1>7, <4>1
    <3>2. CASE i < step
      <4>1. \A j \in DOMAIN program.script : j < step' /\ program.script[j] = Timer => j < step
        BY <2>1, <2>2
      <4> QED BY <1>2, <1>7, <2>3, <3>2, <4>1 DEF SpawnedBegins
    <3> QED BY <2>2, <2>3, <3>1, <3>2
  <2> QED BY <1>1, <1>3, <2>3 DEF SpawnedBegins, NeverWaits
<1> QED BY <1>5, <1>6, <1>9, <1>10, <1>11, <1>12 DEF IInv, AsioInv

LEMMA MainTimerStep ==
    ASSUME IInv, MainTimer PROVE IInv'
<1>1. /\ UNCHANGED <<program, taskVars, pollVars, opVars, driver, flag, main, destroyed>>
      /\ main = "suspended" /\ step <= Len(program.script) /\ program.script[step] = Timer
      /\ <<"main", None>> \notin {queue[i] : i \in DOMAIN queue}
      /\ step' = step + 1 /\ Post("main", None)
  BY DEF MainTimer
<1>2. /\ TypeOK /\ QueueInv /\ \A g \in Used : FutureInv(g)
      /\ program.driver = "to_asio"
      /\ OneAtATime /\ MadeOnce /\ Woken /\ SpawnedBegins
      /\ Len(program.script) \in Nat /\ DOMAIN program.script = 1..Len(program.script)
      /\ step \in 1..(Len(program.script) + 1)
  BY <1>1, MainFacts
<1>3. /\ queue \in Seq(Handlers) /\ Distinct(queue) /\ <<"main", None>> \in Handlers
      /\ queue' \in Seq(Handlers)
  <2>1. queue \in Seq(Handlers) /\ Distinct(queue) /\ <<"main", None>> \in Handlers
    BY <1>2 DEF TypeOK, QueueInv, Handlers
  <2> QED BY <1>1, <2>1, AppendProperties DEF Post
<1>4. ~MainPosted
  <2>1. DOMAIN queue = 1..Len(queue)
    BY <1>3, LenProperties
  <2> QED BY <1>1, <2>1 DEF MainPosted, Posted, Contains
<1>5. /\ Distinct(queue')
      /\ \A n, g : Posted(n, g)' <=> Posted(n, g) \/ (n = "main" /\ g = None)
      /\ \A g : BeginsBeforeMain(g) => BeginsBeforeMain(g)'
      /\ \A g : Posted("begin", g) => BeginsBeforeMain(g)'
  BY <1>1, <1>3, <1>4, PostFacts DEF MainPosted
<1>6. MainPosted' /\ \A n \in {"spawn", "finish", "poll", "begin"} : \A g :
                      Posted(n, g)' <=> Posted(n, g)
  BY <1>5 DEF MainPosted
<1>7. /\ Used' = Used /\ UNCHANGED <<stage, result, op>>
      /\ step' \in 1..(Len(program.script) + 1)
  <2>1. step' \in 1..(Len(program.script) + 1)
    BY <1>1, <1>2
  <2> QED BY <1>1, <2>1 DEF Used, pollVars, opVars
<1>8. TypeOK'
  <2>1. MainTypes'
    BY <1>1, <1>2, <1>7 DEF MainTypes, TypeOK
  <2> QED BY <1>1, <1>2, <1>3, <2>1, TypesStay DEF TypeOK
<1>9. \A g \in Used' : FutureInv(g)'
  <2>1. OthersStay(None) /\ Used \subseteq Futures
    BY <1>1, <1>2, FutureFacts DEF OthersStay, taskVars, pollVars, opVars
  <2>2. None \notin Futures
    BY DEF Futures, None
  <2> QED BY <1>1, <1>2, <1>7, <2>1, <2>2, OthersKeep
<1>10. QueueInv'
  <2>1. \A g \in Used : Expected(g)'
    BY <1>1, <1>2, <1>6, <1>7 DEF QueueInv, Expected
  <2> QED BY <1>1, <1>2, <1>5, <1>7, <2>1 DEF QueueInv
<1>11. OneAtATime' /\ Woken'
  BY <1>1, <1>2, <1>7 DEF OneAtATime, Active, Locked, Woken, HasWoken, NeverWaits
<1>12. MadeOnce'
  <2>1. \A i \in DOMAIN program.script : Ahead(i)' => Ahead(i)
    BY <1>1, <1>2 DEF Ahead
  <2> QED BY <1>1, <1>2, <1>6, <1>7, <2>1 DEF MadeOnce, Makes
<1>13. SpawnedBegins'
  <2>1. \A g : program.script[step] # Spawn(g)
    BY <1>1 DEF Timer, Spawn
  <2>2. \A i \in DOMAIN program.script : i < step' => i < step \/ i = step
    BY <1>1, <1>2
  <2>3. ASSUME NEW i \in DOMAIN program.script, NEW g \in Used,
               i < step', program.script[i] = Spawn(g)
        PROVE  /\ driver[g] # "unborn" \/ Posted("begin", g)
               /\ \A j \in DOMAIN program.script :
                     i < j /\ j < step' /\ program.script[j] = Timer /\ NeverWaits(program, g) =>
                         \/ driver[g] = "over"
                         \/ MainPosted' /\ (driver[g] # "unborn" \/ BeginsBeforeMain(g)')
    <3>1. i < step
      BY <2>1, <2>2, <2>3
    <3>2. driver[g] # "unborn" \/ Posted("begin", g)
      BY <1>2, <2>3, <3>1 DEF SpawnedBegins
    <3> QED BY <1>5, <1>6, <3>2
  <2> QED BY <1>1, <1>6, <1>7, <2>3 DEF SpawnedBegins, NeverWaits
<1> QED BY <1>8, <1>9, <1>10, <1>11, <1>12, <1>13 DEF IInv, AsioInv

------------------------------------------------------------------------------
(* The theorems.  The families are those that the run checks.              *)

LEMMA IInvStep == IInv /\ [Next]_vars => IInv'
<1> SUFFICES ASSUME IInv, [Next]_vars PROVE IInv'
  OBVIOUS
<1>1. CASE UNCHANGED vars
  <2>1. /\ UNCHANGED <<program, taskVars, pollVars, opVars, mainVars, destroyed>>
        /\ UNCHANGED <<at, stage, result, op, waker, driver, flag, queue, step, main>>
        /\ Used' = Used
    BY <1>1 DEF vars, taskVars, pollVars, opVars, driverVars, mainVars, Used
  <2>2. /\ TypeOK /\ \A g \in Used : FutureInv(g)
        /\ QueueInv /\ (program.driver = "to_asio" => AsioInv)
    BY DEF IInv
  <2>3. TypeOK'
    BY <2>1, <2>2, TypesStay DEF TypeOK
  <2>4. \A g \in Used' : FutureInv(g)'
    <3>1. OthersStay(None) /\ Used \subseteq Futures
      BY <2>1, <2>2, FutureFacts DEF OthersStay
    <3>2. None \notin Futures
      BY DEF Futures, None
    <3> QED BY <2>1, <2>2, <3>1, <3>2, OthersKeep
  <2>5. /\ \A n, g : Posted(n, g)' <=> Posted(n, g)
        /\ \A g : BeginsBeforeMain(g)' <=> BeginsBeforeMain(g)
        /\ MainPosted' <=> MainPosted
        /\ Distinct(queue)' <=> Distinct(queue)
    BY <2>1 DEF Posted, BeginsBeforeMain, MainPosted, Distinct
  <2>6. QueueInv'
    BY <2>1, <2>2, <2>5 DEF QueueInv, Expected
  <2>7. ASSUME AsioInv PROVE AsioInv'
    <3>1. OneAtATime' /\ Woken'
      BY <2>1, <2>7 DEF AsioInv, OneAtATime, Active, Locked, Woken, HasWoken, NeverWaits
    <3>2. MadeOnce'
      BY <2>1, <2>5, <2>7 DEF AsioInv, MadeOnce, Ahead, Makes
    <3>3. SpawnedBegins'
      BY <2>1, <2>5, <2>7 DEF AsioInv, SpawnedBegins, NeverWaits
    <3> QED BY <3>1, <3>2, <3>3 DEF AsioInv
  <2> QED BY <2>1, <2>2, <2>3, <2>4, <2>6, <2>7 DEF IInv
<1>2. CASE \E f \in Used : Poll(f) \/ Drive(f) \/ Operate(f)
  BY <1>2, FutureStep
<1>3. CASE MainStep
  BY <1>3, MainStepFacts, MainOtherwiseStep, MainAwaitsStep, MainSpawnsStep
<1> QED BY <1>1, <1>2, <1>3, HandlerStep, MainTimerStep DEF Next

LEMMA IInvAlways ==
    ASSUME Families \subseteq CompatibleFamilies PROVE Spec => []IInv
<1>1. Init => IInv
  BY IInvInit
<1> QED BY <1>1, IInvStep, PTL DEF Spec

\* Types: every program, with tasks of any length, stays one of those that the
\* drivers and the adapters know, and every variable in its range.
THEOREM TypeCorrect ==
    ASSUME Families \subseteq CompatibleFamilies PROVE Spec => []TypeOK
<1>1. IInv => TypeOK
  BY DEF IInv
<1> QED BY <1>1, IInvAlways, PTL

\* No handler is posted for a driver that is gone, and no operation is in, or
\* before, a wake of one: op_state, the driver coroutines of to_resumable and of
\* future_container, and block_on's frame are not used after their end.
THEOREM NothingIsStale ==
    ASSUME Families \subseteq CompatibleFamilies PROVE Spec => []NothingStale
<1>1. IInv => NothingStale
  <2> SUFFICES ASSUME IInv PROVE NothingStale
    OBVIOUS
  <2>1. TypeOK /\ QueueInv /\ \A f \in Used : FutureInv(f)
    BY DEF IInv
  <2>2. ASSUME NEW i \in DOMAIN queue, queue[i][1] = "poll"
        PROVE  driver[queue[i][2]] # "over"
    <3>1. i \in 1..Len(queue) /\ queue[i] \in Handlers
      BY <2>1, LenProperties, ElementOfSeq DEF TypeOK
    <3>2. PICK f \in Used : queue[i] = <<"poll", f>>
      BY <2>2, <3>1 DEF Handlers
    <3>3. Posted("poll", f)
      BY <3>1, <3>2 DEF Posted, Contains
    <3>4. driver[f] # "over"
      BY <2>1, <3>3 DEF QueueInv, Expected
    <3> QED BY <3>2, <3>4
  <2>3. ASSUME NEW f \in Used, Locked(f) PROVE driver[f] # "over"
    <3>1. at[f] \in 1..Len(Body(f)) /\ Len(Body(f)) \in Nat
      BY <2>1, <2>3, FutureFacts DEF FutureInv, IsAwaited, Locked
    <3>2. at[f] # Len(Body(f)) + 1
      BY <3>1
    <3> QED BY <2>1, <3>2 DEF FutureInv, Ends
  <2> QED BY <2>2, <2>3 DEF NothingStale
<1> QED BY <1>1, IInvAlways, PTL

\* get() on the loop's thread finds its result: what was spawned has begun, and
\* a task that waits for nobody has ended, before the timer that asio_main
\* waited for has expired.
THEOREM GetNeverBlocks ==
    ASSUME Families \subseteq CompatibleFamilies PROVE Spec => []GetDoesNotBlock
<1>1. IInv => GetDoesNotBlock
  <2> SUFFICES ASSUME IInv, main = "run", step <= Len(program.script),
                      program.script[step].do = "get"
               PROVE  driver[program.script[step].future] = "over"
    BY DEF GetDoesNotBlock
  <2> DEFINE f == program.script[step].future
  <2>1. /\ TypeOK /\ SpawnedBegins /\ IsScript(program) /\ ~MainPosted
        /\ Len(program.script) \in Nat /\ DOMAIN program.script = 1..Len(program.script)
        /\ step \in 1..(Len(program.script) + 1)
    BY MainFacts
  <2>2. step \in DOMAIN program.script
    BY <2>1
  <2>3. f \in Used
    BY <2>1, <2>2 DEF IsScript, Timer, Used
  <2>4. NeverWaits(program, f) /\ \E i, j \in 1..(step - 1) :
            i < j /\ program.script[i] = Spawn(f) /\ program.script[j] = Timer
    BY <2>1, <2>2 DEF IsScript, GetsAfterTimer
  <2> HIDE DEF f
  <2>5. PICK i, j \in 1..(step - 1) :
            i < j /\ program.script[i] = Spawn(f) /\ program.script[j] = Timer
    BY <2>4
  <2>6. i \in DOMAIN program.script /\ j \in DOMAIN program.script /\ i < step /\ j < step
    BY <2>1, <2>2
  <2>7. driver[f] = "over"
    BY <2>1, <2>3, <2>4, <2>5, <2>6 DEF SpawnedBegins
  <2> QED BY <2>7 DEF f
<1> QED BY <1>1, IInvAlways, PTL

\* The loop's thread is in the driver of f, or goes there before anything else.
InTurn(f) == stage[f] # "idle" \/ driver[f] \in {"start", "polled"}

\* set_result() is in a waker as long as the driver that this has resumed is on
\* its way to schedule(); and the loop's thread is in one thing at a time.
InOnePlace(f) ==
    /\ op[f] = "waking" => driver[f] = "resumed"
    /\ OnLoop /\ program.adapter = "from_asio" /\ InTurn(f) => ~Locked(f)

LockInv == \A f \in Used : InOnePlace(f)

\* The steps of the future itself.
LEMMA OwnStepInOnePlace ==
    ASSUME TypeOK, NEW f \in Used, FutureInv(f), InOnePlace(f),
           Poll(f) \/ Drive(f) \/ Operate(f)
    PROVE  InOnePlace(f)'
<1>1. /\ f \in Futures /\ driver[f] \in Places
      /\ program.driver \in Drivers
      /\ program.adapter = "from_asio" => program.adapter # "to_pollable"
      /\ UNCHANGED program /\ OnLoop' = OnLoop
  <2>1. f \in Futures /\ driver[f] \in Places /\ program.driver \in Drivers
    BY FutureFacts, ProgramFacts DEF TypeOK
  <2>2. UNCHANGED program
    BY ProgramStays
  <2> QED BY <2>1, <2>2 DEF OnLoop
<1> USE DEF TypeOK, PollTypes, OpTypes, DriverTypes
<1>2. CASE Poll(f)
  <2>1. /\ driver[f] # "resumed" /\ InTurn(f)
        /\ op'[f] \in {op[f], "posted", "running", "none"}
    BY <1>1, <1>2 DEF Poll, PollStart, PollCall, PollYield, StartOperation, PollForeign,
                      BodyGoesOn, BodyEnds, InTurn, opVars
  <2> QED BY <1>1, <2>1 DEF InOnePlace, Locked
<1>3. CASE Drive(f) /\ ~Schedule(f)
  <2>1. UNCHANGED op /\ (InTurn(f) \/ ~OnLoop)
    BY <1>1, <1>3 DEF Drive, BlockOnResult, BlockOnWait, CResult, CWait, AsioResult, AsioExchange,
                      ResumableResult, ContainerResult, Returned, InTurn, OnLoop, opVars
  <2>2. driver[f] = "resumed" => driver'[f] = "resumed"
    <3> SUFFICES ASSUME driver[f] = "resumed" PROVE driver'[f] = "resumed"
      OBVIOUS
    <3>1. program.driver \in {"to_resumable", "future_container"}
      BY <1>1 DEF Places
    <3>2. ResumableResult(f) \/ ContainerResult(f)
      BY <1>3, <3>1 DEF Drive, BlockOnResult, BlockOnWait, CResult, CWait, AsioResult,
                        AsioExchange
    <3>3. CASE ResumableResult(f)
      <4>1. program.driver = "to_resumable" /\ stage[f] = "end"
        BY <3>3 DEF ResumableResult, Returned
      <4>2. result[f] = "pending"
        BY <4>1 DEF FutureInv, InPoll, Resumable
      <4> QED BY <3>3, <4>2 DEF ResumableResult
    <3>4. CASE ContainerResult(f)
      <4>1. program.driver = "future_container" /\ stage[f] = "end"
        BY <3>4 DEF ContainerResult, Returned
      <4> QED BY <4>1 DEF FutureInv, InPoll
    <3> QED BY <3>2, <3>3, <3>4
  <2> QED BY <1>1, <2>1, <2>2 DEF InOnePlace, Locked
<1>4. CASE Schedule(f)
  <2>1. /\ driver[f] = "resumed" /\ driver'[f] = "scheduled" /\ UNCHANGED stage
        /\ op'[f] = IF op[f] = "waking" THEN "woken" ELSE op[f]
    BY <1>1, <1>4 DEF Schedule, pollVars
  <2> QED BY <1>1, <2>1 DEF InOnePlace, InTurn, Locked
<1>5. CASE Expire(f) \/ SleepIsOver(f) \/ ResultUnlocks(f) \/ ThreadLeaves(f)
  <2>1. op'[f] # "waking" /\ (Locked(f)' => program.adapter = "to_pollable")
    BY <1>1, <1>5 DEF Expire, SleepIsOver, ResultUnlocks, ThreadLeaves, Locked
  <2> QED BY <1>1, <2>1 DEF InOnePlace
<1>6. CASE ResultWakes(f)
  <2>1. /\ Locked(f) /\ UNCHANGED stage
        /\ op'[f] = IF driver'[f] = driver[f] THEN "woken" ELSE "waking"
        /\ Wake(f) \/ UNCHANGED driver
    BY <1>1, <1>6 DEF ResultWakes, Locked, pollVars, driverVars
  <2>2. driver'[f] \in {driver[f], "resumed"}
    BY <1>1, <2>1, WakeFacts DEF Drivers
  <2> QED BY <1>1, <2>1, <2>2 DEF InOnePlace, InTurn
<1> QED BY <1>2, <1>3, <1>4, <1>5, <1>6 DEF Operate

LEMMA LockInvStep == IInv /\ LockInv /\ [Next]_vars => LockInv'
<1> SUFFICES ASSUME IInv, LockInv, [Next]_vars PROVE LockInv'
  OBVIOUS
<1>1. /\ TypeOK /\ \A f \in Used : FutureInv(f) /\ InOnePlace(f)
      /\ Used \subseteq Futures
      /\ program.driver = "to_asio" => OneAtATime
  BY FutureFacts DEF IInv, AsioInv, LockInv
<1>2. CASE \E g \in Used : Poll(g) \/ Drive(g) \/ Operate(g)
  <2>1. PICK g \in Used : Poll(g) \/ Drive(g) \/ Operate(g)
    BY <1>2
  <2>2. OthersStay(g) /\ UNCHANGED program
    BY <1>1, <2>1, FutureKeeps, ProgramStays DEF Keeps
  <2>3. InOnePlace(g)'
    BY <1>1, <2>1, OwnStepInOnePlace
  <2>4. \A f \in Used \ {g} : InOnePlace(f)'
    BY <1>1, <2>2 DEF OthersStay, InOnePlace, InTurn, Locked, OnLoop
  <2> QED BY <2>2, <2>3, <2>4 DEF LockInv, Used
\* The loop's thread is free: it holds no lock, or is about to poll nobody.
<1>3. CASE RunHandler
  <2>1. /\ LoopIsFree /\ UNCHANGED <<program, stage>>
        /\ RunsMain \/ \E g \in Used : RunsOperation(g) \/ RunsPoll(g) \/ RunsBegin(g)
    BY <1>3, HandlerFacts DEF pollVars
  <2>2. \A f \in Used : /\ program.adapter = "from_asio" => ~Locked(f)
                        /\ OnLoop => ~InTurn(f)
    BY <2>1 DEF LoopIsFree, InTurn
  <2>3. CASE RunsMain
    BY <1>1, <2>1, <2>3 DEF RunsMain, LockInv, InOnePlace, InTurn, Locked, OnLoop, Used
  <2>4. ASSUME NEW g \in Used, RunsOperation(g), NEW f \in Used PROVE InOnePlace(f)'
    <3>1. UNCHANGED driver /\ (op'[f] = op[f] \/ op'[f] \in {"running", "result"})
      BY <1>1, <2>4 DEF RunsOperation, TypeOK, OpTypes
    <3>2. OnLoop' => ~InTurn(f)'
      BY <2>1, <2>2, <3>1 DEF InTurn, OnLoop
    <3> QED BY <1>1, <3>1, <3>2 DEF InOnePlace
  <2>5. ASSUME NEW g \in Used, RunsPoll(g) \/ RunsBegin(g), NEW f \in Used PROVE InOnePlace(f)'
    <3>1. /\ UNCHANGED op
          /\ driver[f] = "resumed" => driver'[f] = "resumed"
      BY <1>1, <2>5 DEF RunsPoll, RunsBegin, Begins, TypeOK, DriverTypes
    <3> QED BY <1>1, <2>1, <2>2, <3>1 DEF InOnePlace, Locked
  <2> QED BY <2>1, <2>3, <2>4, <2>5 DEF LockInv, Used
\* asio_main runs: nobody is in set_result(), and no driver is a coroutine.
<1>4. CASE MainStep
  <2>1. /\ main = "run" /\ UNCHANGED <<program, op, stage>>
    BY <1>4 DEF MainStep, pollVars, opVars
  <2>2. program.driver = "to_asio"
    BY <1>1, <2>1 DEF TypeOK, MainTypes
  <2>3. ASSUME NEW f \in Used PROVE ~Locked(f)
    BY <1>1, <2>1, <2>2, <2>3 DEF OneAtATime
  <2>4. \A f \in Used : InOnePlace(f)'
    BY <2>1, <2>3 DEF InOnePlace, Locked
  <2> QED BY <2>1, <2>4 DEF LockInv, Used
<1>5. CASE MainTimer \/ UNCHANGED vars
  <2>1. UNCHANGED <<program, op, stage, driver>>
    BY <1>5 DEF MainTimer, vars, pollVars, opVars, driverVars
  <2> QED BY <1>1, <2>1 DEF LockInv, InOnePlace, InTurn, Locked, OnLoop, Used
<1> QED BY <1>2, <1>3, <1>4, <1>5 DEF Next

\* For tasks of any length, under each driver and with either adapter: no poll asks
\* for the lock of an operation's state whose set_result() is below it on the stack
\* or was interrupted on its thread.  The waker leaves the poll to the loop, and the
\* loop starts none before it has left set_result().
THEOREM NeverLocksTwice ==
    ASSUME Families \subseteq CompatibleFamilies PROVE Spec => []NoSelfDeadlock
<1>1. Init => LockInv
  <2> SUFFICES ASSUME Init, NEW f \in Used PROVE InOnePlace(f)
    BY DEF LockInv
  <2>1. f \in Futures
    BY IInvInit, FutureFacts DEF IInv
  <2>2. op = [g \in Futures |-> "none"]
    BY DEF Init
  <2> QED BY <2>1, <2>2 DEF InOnePlace, Locked
<1>2. IInv /\ LockInv => NoSelfDeadlock
  <2> SUFFICES ASSUME IInv, LockInv, NEW f \in Used, stage[f] = "leaf", Locked(f)
               PROVE  ~OnThisThread(f)
    BY DEF NoSelfDeadlock
  <2>1. FutureInv(f) /\ InOnePlace(f)
    BY DEF IInv, LockInv
  <2>2. driver[f] = "polling"
    BY <2>1 DEF FutureInv, InPoll, Resumable
  <2> QED BY <2>1, <2>2 DEF InOnePlace, InTurn, OnThisThread
<1> QED BY <1>1, <1>2, LockInvStep, IInvAlways, PTL DEF Spec

------------------------------------------------------------------------------
(* The results.                                                            *)

\* The awaits that have given their result: those before the one at which the
\* task is suspended, and that one once it was ready.
Passed(f) == IF stage[f] = "body" \/ at[f] = 0 THEN at[f] ELSE at[f] - 1

SumIs(f) ==
    /\ sum[f] = GivenBy(Body(f))[Passed(f)]
    /\ at[f] = Len(Body(f)) + 1 => failed[f] = program.throws

SumInv == \A f \in Futures : IF f \in Used THEN SumIs(f) ELSE sum[f] = 0

LEMMA BodyGives ==
    ASSUME TypeOK, NEW f \in Used
    PROVE  /\ GivenBy(Body(f))[0] = 0
           /\ \A k \in 1..Len(Body(f)) :
                 /\ GivenBy(Body(f))[k] = GivenBy(Body(f))[k - 1] + Body(f)[k].gives
                 /\ GivenBy(Body(f))[k - 1] \in Int /\ Body(f)[k].gives \in Int
                 /\ Body(f)[k].on = "call" => Body(f)[k].gives = 0
<1>1. Body(f) \in Seq(AnAwait)
  BY DEF TypeOK, Compatible, IsProgram, Used, Body
<1>2. Len(Body(f)) \in Nat /\ \A k \in 1..Len(Body(f)) : Body(f)[k] \in AnAwait
  BY <1>1, LenProperties, ElementOfSeq
<1>3. \A k \in 1..Len(Body(f)) : k - 1 \in 0..Len(Body(f))
  BY <1>2
<1> QED BY <1>1, <1>2, <1>3, GivenByFacts DEF AnAwait

LEMMA PollSums ==
    ASSUME TypeOK, NEW f \in Used, FutureInv(f), SumIs(f), Poll(f)
    PROVE  SumIs(f)' /\ \A g \in Futures \ {f} : sum'[g] = sum[g] /\ failed'[g] = failed[g]
<1> DEFINE total == GivenBy(Body(f))
<1>1. /\ f \in Futures /\ at[f] \in Nat /\ Len(Body(f)) \in Nat
      /\ sum \in [Futures -> Int] /\ stage \in [Futures -> {"idle", "leaf", "body", "end"}]
      /\ at \in [Futures -> Nat] /\ failed \in [Futures -> BOOLEAN]
  BY FutureFacts DEF TypeOK, TaskTypes, PollTypes
<1>2. UNCHANGED program /\ Body(f)' = Body(f)
  BY TypesStay DEF Poll, PollStart, PollCall, PollYield, StartOperation, PollForeign, BodyGoesOn,
                   BodyEnds
<1>3. sum[f] = total[Passed(f)] /\ (at[f] = Len(Body(f)) + 1 => failed[f] = program.throws)
  BY DEF SumIs
<1>4. SumIs(f)' <=>
        /\ sum'[f] = total[Passed(f)']
        /\ at'[f] = Len(Body(f)) + 1 => failed'[f] = program.throws
  BY <1>2 DEF SumIs
<1>5. /\ total[0] = 0
      /\ \A k \in 1..Len(Body(f)) :
            /\ total[k] = total[k - 1] + Body(f)[k].gives
            /\ total[k - 1] \in Int /\ Body(f)[k].gives \in Int
            /\ Body(f)[k].on = "call" => Body(f)[k].gives = 0
  BY BodyGives
<1>6. stage[f] = "leaf" =>
        /\ at[f] = 0 => Await(f).on = "call" /\ Passed(f) = 0
        /\ at[f] # 0 => /\ at[f] \in 1..Len(Body(f)) /\ Await(f) = Body(f)[at[f]]
                        /\ Passed(f) = at[f] - 1 /\ at[f] # Len(Body(f)) + 1
  BY <1>1, MidPollFacts, FutureFacts DEF Passed
<1> HIDE DEF total
<1>7. CASE UNCHANGED <<at, sum, failed, stage>> \/ (PollStart(f) /\ UNCHANGED <<at, sum, failed>>)
  <2>1. stage'[f] = stage[f] \/ (stage[f] = "idle" /\ stage'[f] = "leaf")
    BY <1>1, <1>7, IdleFacts DEF PollStart
  <2>2. UNCHANGED <<at, sum, failed>>
    BY <1>7
  <2>3. Passed(f)' = Passed(f)
    BY <2>1, <2>2 DEF Passed
  <2> QED BY <1>3, <1>4, <2>2, <2>3
<1>8. CASE PollStart(f) \/ StartOperation(f)
  BY <1>7, <1>8 DEF PollStart, StartOperation, taskVars, pollVars
<1>9. CASE PollCall(f)
  <2>1. /\ UNCHANGED <<at, sum, failed>> /\ stage[f] = "leaf" /\ Await(f).on = "call"
        /\ stage' = [stage EXCEPT ![f] = "body"]
    BY <1>9 DEF PollCall, LeafDone, taskVars
  <2>2. Passed(f)' = at[f]
    BY <1>1, <2>1 DEF Passed
  <2>3. total[at[f]] = total[Passed(f)]
    <3>1. CASE at[f] = 0
      BY <1>6, <2>1, <3>1
    <3>2. CASE at[f] # 0
      <4>1. total[at[f]] = total[at[f] - 1] + 0 /\ total[at[f] - 1] \in Int
        BY <1>5, <1>6, <2>1, <3>2
      <4> QED BY <1>6, <2>1, <3>2, <4>1
    <3> QED BY <3>1, <3>2
  <2> QED BY <1>3, <1>4, <2>1, <2>2, <2>3
<1>10. ASSUME UNCHANGED <<at, failed>>, stage[f] = "leaf", Await(f).on # "call",
              \/ /\ stage' = [stage EXCEPT ![f] = "body"]
                 /\ sum' = [sum EXCEPT ![f] = @ + Await(f).gives]
              \/ stage' = [stage EXCEPT ![f] = "end"] /\ UNCHANGED sum
       PROVE  SumIs(f)' /\ \A g \in Futures \ {f} : sum'[g] = sum[g] /\ failed'[g] = failed[g]
  <2>1. /\ at[f] # 0 /\ at[f] \in 1..Len(Body(f)) /\ Await(f) = Body(f)[at[f]]
        /\ Passed(f) = at[f] - 1 /\ at[f] # Len(Body(f)) + 1
    BY <1>6, <1>10
  <2>2. CASE /\ stage' = [stage EXCEPT ![f] = "body"]
             /\ sum' = [sum EXCEPT ![f] = @ + Await(f).gives]
    <3>1. Passed(f)' = at[f]
      BY <1>1, <1>10, <2>2 DEF Passed
    <3>2. sum'[f] = sum[f] + Await(f).gives /\ at'[f] = at[f]
      BY <1>1, <1>10, <2>2
    <3>3. total[at[f]] = total[at[f] - 1] + Body(f)[at[f]].gives
      BY <1>5, <2>1
    <3>4. SumIs(f)'
      BY <1>3, <1>4, <2>1, <3>1, <3>2, <3>3
    <3> QED BY <1>1, <1>10, <2>2, <3>4
  <2>3. CASE stage' = [stage EXCEPT ![f] = "end"] /\ UNCHANGED sum
    <3>1. Passed(f)' = Passed(f)
      BY <1>1, <1>10, <2>1, <2>3 DEF Passed
    <3> QED BY <1>3, <1>4, <1>10, <2>3, <3>1
  <2> QED BY <1>10, <2>2, <2>3
<1>11. CASE PollYield(f) \/ PollForeign(f)
  BY <1>10, <1>11 DEF PollYield, PollForeign, AwaitsForeign, LeafDone, Pending
<1>12. CASE BodyGoesOn(f) \/ BodyEnds(f)
  <2>1. /\ UNCHANGED sum /\ stage[f] = "body" /\ stage' = [stage EXCEPT ![f] = "end"]
        /\ at' = [at EXCEPT ![f] = at[f] + 1]
    BY <1>12 DEF BodyGoesOn, BodyEnds, Pending
  <2>2. Passed(f) = at[f] /\ Passed(f)' = at[f]
    <3>1. stage'[f] = "end" /\ at'[f] = at[f] + 1
      BY <1>1, <2>1
    <3>2. at[f] + 1 # 0 /\ (at[f] + 1) - 1 = at[f]
      BY <1>1
    <3> QED BY <2>1, <3>1, <3>2 DEF Passed
  <2>3. \/ UNCHANGED failed /\ at'[f] # Len(Body(f)) + 1
        \/ failed' = [failed EXCEPT ![f] = program.throws]
    <3>1. CASE BodyEnds(f)
      BY <3>1 DEF BodyEnds
    <3>2. CASE BodyGoesOn(f)
      <4>1. UNCHANGED failed /\ at[f] + 1 \in 1..Len(Body(f))
        BY <3>2, FutureFacts DEF BodyGoesOn
      <4> QED BY <1>1, <2>1, <4>1
    <3> QED BY <1>12, <3>1, <3>2
  <2> QED BY <1>1, <1>3, <1>4, <2>1, <2>2, <2>3
<1> QED BY <1>8, <1>9, <1>11, <1>12 DEF Poll

\* No other step gives anything to a task, or touches a result that it awaits.
LEMMA OtherSums ==
    ASSUME NEW f \in Used, SumIs(f), UNCHANGED <<program, taskVars>>,
           stage'[f] = stage[f] \/ (stage[f] # "body" /\ stage'[f] # "body")
    PROVE  SumIs(f)'
<1>1. UNCHANGED <<at, sum, failed, program>> /\ Body(f)' = Body(f)
  BY DEF taskVars, Body
<1>2. Passed(f)' = Passed(f)
  BY <1>1 DEF Passed
<1> QED BY <1>1, <1>2 DEF SumIs

LEMMA SumStep == IInv /\ SumInv /\ [Next]_vars => SumInv'
<1> SUFFICES ASSUME IInv, SumInv, [Next]_vars PROVE SumInv'
  OBVIOUS
<1>1. /\ TypeOK /\ \A f \in Used : FutureInv(f) /\ SumIs(f)
      /\ \A f \in Futures \ Used : sum[f] = 0
      /\ Used \subseteq Futures
  BY FutureFacts DEF IInv, SumInv
<1>2. UNCHANGED program /\ Used' = Used
  <2>1. ASSUME NEW f \in Used, Poll(f) PROVE UNCHANGED program
    BY <2>1 DEF Poll, PollStart, PollCall, PollYield, StartOperation, PollForeign, BodyGoesOn,
                BodyEnds
  <2>2. ASSUME NEW f \in Used, Drive(f) PROVE UNCHANGED program
    BY <2>2 DEF Drive, BlockOnResult, BlockOnWait, CResult, CWait, AsioResult, AsioExchange,
                ResumableResult, ContainerResult, Schedule
  <2>3. ASSUME NEW f \in Used, Operate(f) PROVE UNCHANGED program
    BY <2>3 DEF Operate, Expire, SleepIsOver, ResultWakes, ResultUnlocks, ThreadLeaves
  <2>4. RunHandler \/ MainStep \/ MainTimer \/ UNCHANGED vars => UNCHANGED program
    BY DEF RunHandler, MainStep, MainTimer, vars
  <2> QED BY <2>1, <2>2, <2>3, <2>4 DEF Next, Used
<1>3. CASE \E f \in Used : Poll(f)
  <2>1. PICK f \in Used : Poll(f)
    BY <1>3
  <2>2. SumIs(f)' /\ \A g \in Futures \ {f} : sum'[g] = sum[g] /\ failed'[g] = failed[g]
    BY <1>1, <2>1, PollSums
  <2>3. OthersStay(f)
    BY <1>1, <2>1, FutureKeeps DEF Keeps
  <2>4. ASSUME NEW g \in Used, g # f PROVE SumIs(g)'
    <3>1. /\ at'[g] = at[g] /\ stage'[g] = stage[g] /\ sum'[g] = sum[g]
          /\ failed'[g] = failed[g] /\ Body(g)' = Body(g) /\ SumIs(g)
      BY <1>1, <1>2, <2>2, <2>3, <2>4 DEF OthersStay, Body
    <3>2. Passed(g)' = Passed(g)
      BY <3>1 DEF Passed
    <3> QED BY <1>2, <3>1, <3>2 DEF SumIs
  <2> QED BY <1>1, <1>2, <2>1, <2>2, <2>4 DEF SumInv
<1>4. ASSUME UNCHANGED taskVars,
             \A f \in Used :
                stage'[f] = stage[f] \/ (stage[f] # "body" /\ stage'[f] # "body")
      PROVE  SumInv'
  <2>1. \A f \in Used : SumIs(f)'
    BY <1>1, <1>2, <1>4, OtherSums
  <2> QED BY <1>1, <1>2, <1>4, <2>1 DEF SumInv, taskVars
<1>5. CASE \E f \in Used : Drive(f)
  <2>1. PICK f \in Used : Drive(f)
    BY <1>5
  <2>2. UNCHANGED taskVars /\ (UNCHANGED stage \/ Returned(f))
    BY <2>1 DEF Drive, BlockOnResult, BlockOnWait, CResult, CWait, AsioResult, AsioExchange,
           ResumableResult, ContainerResult, Schedule, pollVars
  <2>3. stage \in [Futures -> {"idle", "leaf", "body", "end"}]
    BY <1>1 DEF TypeOK, PollTypes
  <2> QED BY <1>1, <1>4, <2>2, <2>3 DEF Returned
<1>6. CASE (\E f \in Used : Operate(f)) \/ RunHandler \/ MainStep \/ MainTimer \/ UNCHANGED vars
  <2>1. UNCHANGED <<taskVars, stage>>
    BY <1>6 DEF Operate, Expire, SleepIsOver, ResultWakes, ResultUnlocks, ThreadLeaves,
           RunHandler, MainStep, MainTimer, vars, pollVars
  <2> QED BY <1>4, <2>1
<1> QED BY <1>3, <1>5, <1>6 DEF Next

\* A program that has finished has the result that its source announces: the
\* sum of what its awaits give, each counted once, whatever the driver and the
\* adapter; a task that throws has failed.
THEOREM ResultsAreAnnounced ==
    ASSUME Families \subseteq CompatibleFamilies PROVE Spec => []ResultsAsAnnounced
<1>1. Init => SumInv
  <2> SUFFICES ASSUME Init PROVE SumInv
    OBVIOUS
  <2>1. IInv
    BY IInvInit
  <2>2. TypeOK
    BY <2>1 DEF IInv
  <2>3. /\ at = [f \in Futures |-> 0] /\ sum = [f \in Futures |-> 0]
    BY DEF Init
  <2>4. \A f \in Used : f \in Futures /\ GivenBy(Body(f))[0] = 0 /\ Len(Body(f)) \in Nat
    BY <2>2, BodyGives, FutureFacts
  <2> QED BY <2>3, <2>4 DEF SumInv, SumIs, Passed
<1>2. IInv /\ SumInv => ResultsAsAnnounced
  <2> SUFFICES ASSUME IInv, SumInv, Finished
               PROVE  IF program.throws THEN failed[1]
                      ELSE program.times * (sum[1] + sum[2] + sum[3]) + program.plus
                              = program.announced
    BY DEF ResultsAsAnnounced
  <2>1. TypeOK /\ Compatible(program) /\ \A f \in Used : FutureInv(f) /\ SumIs(f)
    BY FutureFacts DEF IInv, SumInv, TypeOK
  <2>2. PICK n \in Futures : program.bodies \in [1..n -> Seq(AnAwait)]
    BY <2>1 DEF Compatible, IsProgram
  <2>3. Used = 1..n /\ 1 \in Used
    BY <2>2 DEF Used, Futures
  <2>4. ASSUME NEW f \in Used
        PROVE  sum[f] = Given(Body(f)) /\ failed[f] = program.throws
    <3>1. driver[f] = "over"
      BY DEF Finished
    <3>2. /\ at[f] = Len(Body(f)) + 1 /\ Len(Body(f)) \in Nat /\ stage[f] # "body"
      <4>1. stage[f] = "idle"
        BY <2>1, <3>1, IdleFacts
      <4> QED BY <2>1, <3>1, <4>1, FutureFacts DEF FutureInv, Ends
    <3>3. Passed(f) = Len(Body(f))
      BY <3>2 DEF Passed
    <3> QED BY <2>1, <3>2, <3>3 DEF SumIs, Given
  <2>5. \A f \in Futures : sum[f] = TaskGives(program, f)
    BY <2>4 DEF SumInv, TaskGives, Body, Used
  <2>6. 1 \in Futures /\ 2 \in Futures /\ 3 \in Futures
    BY DEF Futures
  <2>7. CASE program.throws
    BY <2>3, <2>4, <2>7
  <2>8. CASE ~program.throws
    BY <2>1, <2>5, <2>6, <2>8 DEF Compatible, Announces
  <2> QED BY <2>7, <2>8
<1> QED BY <1>1, <1>2, IInvInit, IInvStep, SumStep, PTL DEF Spec
==============================================================================

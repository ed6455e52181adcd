------------------------------ MODULE WaitProofs ------------------------------
(***************************************************************************)
(* Theorems about Wait for any number of children.                         *)
(***************************************************************************)
EXTENDS Wait, TLAPS

USE MaxChildrenAssumption

\* wait_first polls nobody once there is a winner, and what it has passed in
\* the poll that is running, or in an earlier one, is pending.
FirstStops ==
    /\ mode = "first" /\ phase \in {"idle", "polling"} =>
           \A c \in Children : child[c] \notin {"completed", "misused"}
    /\ mode = "first" => stored = {}

\* Every child that the running poll has passed has been polled.
PassedArePolled ==
    /\ phase = "polling" => \A c \in Children : c < i => child[c] # "fresh"
    /\ phase = "idle" => i = 1

IInv ==
    /\ TypeOK
    /\ KeepsResults
    /\ NoRepoll
    /\ FirstStops
    /\ OneWinner
    /\ PassedArePolled
    /\ AllRegistered

LEMMA IInvInit == Init => IInv
<1> SUFFICES ASSUME Init PROVE IInv
  OBVIOUS
<1> USE DEF Init, Children, Indexes
<1>1. TypeOK
  <2>1. n \in 0..MaxChildren /\ n \in Nat
    OBVIOUS
  <2>2. i \in 1..n + 1 /\ winner \in 0..n
    BY <2>1
  <2>3. done \in [Indexes -> BOOLEAN] /\ child \in [Indexes -> ChildStates]
    BY DEF ChildStates
  <2> QED
    BY <2>1, <2>2, <2>3 DEF TypeOK
<1>2. \A c \in Children : child[c] = "fresh"
  OBVIOUS
<1>3. stored = {c \in Children : child[c] = "completed"}
  BY <1>2
<1> QED
  BY <1>1, <1>2, <1>3 DEF IInv, KeepsResults, NoRepoll, FirstStops, OneWinner,
                          PassedArePolled, AllRegistered

LEMMA IInvStep == IInv /\ [Next]_vars => IInv'
<1> SUFFICES ASSUME IInv, [Next]_vars PROVE IInv'
  OBVIOUS
<1> USE DEF IInv, TypeOK, Children, Indexes, ChildStates
<1>1. CASE UNCHANGED vars
  BY <1>1 DEF vars, KeepsResults, NoRepoll, FirstStops, OneWinner,
              PassedArePolled, AllRegistered
<1>2. ASSUME NEW c \in Children, Happen(c) PROVE IInv'
  <2>1. done' \in [Indexes -> BOOLEAN]
    BY <1>2 DEF Happen
  <2> QED BY <1>2, <2>1 DEF Happen, shape, KeepsResults, NoRepoll, FirstStops,
                            OneWinner, PassedArePolled, AllRegistered
<1>3. ASSUME NEW c \in Children, Tell(c) PROVE IInv'
  BY <1>3 DEF Tell, shape, KeepsResults, NoRepoll, FirstStops, OneWinner,
              PassedArePolled, AllRegistered
<1>4. CASE PollStart
  <2>1. TypeOK'
    <3>1. mode' = mode /\ n' = n /\ done' = done /\ child' = child
          /\ stored' = stored /\ winner' = winner
      BY <1>4 DEF PollStart, shape
    <3>2. i' \in 1..n + 1
      BY <1>4 DEF PollStart
    <3> QED
      BY <1>4, <3>1, <3>2 DEF PollStart
  <2>2. KeepsResults' /\ NoRepoll' /\ OneWinner'
    BY <1>4 DEF PollStart, shape, KeepsResults, NoRepoll, OneWinner, FirstStops
  <2>3. FirstStops' /\ PassedArePolled' /\ AllRegistered'
    BY <1>4 DEF PollStart, shape, FirstStops, PassedArePolled, AllRegistered
  <2> QED
    BY <2>1, <2>2, <2>3
<1>5. CASE SkipStored
  BY <1>5 DEF SkipStored, Polling, shape, KeepsResults, NoRepoll, FirstStops,
              OneWinner, PassedArePolled, AllRegistered
<1>6. CASE PollForAll
  BY <1>6 DEF PollForAll, PollOf, Polling, shape, KeepsResults, NoRepoll, FirstStops,
              OneWinner, PassedArePolled, AllRegistered
<1>7. CASE PollForFirst
  BY <1>7 DEF PollForFirst, PollOf, Polling, shape, KeepsResults, NoRepoll, FirstStops,
              OneWinner, PassedArePolled, AllRegistered
<1>8. CASE PollEnd
  BY <1>8 DEF PollEnd, shape, KeepsResults, NoRepoll, FirstStops, OneWinner,
              PassedArePolled, AllRegistered
<1>9. CASE Drop
  BY <1>9 DEF Drop, shape, KeepsResults, NoRepoll, FirstStops, OneWinner,
              PassedArePolled, AllRegistered
<1> QED BY <1>1, <1>2, <1>3, <1>4, <1>5, <1>6, <1>7, <1>8, <1>9 DEF Next, PollStep

------------------------------------------------------------------------------
LEMMA IInvAlways == Spec => []IInv
<1> QED BY IInvInit, IInvStep, PTL DEF Spec

\* The variables keep their types, for any number of awaitables.
THEOREM TypeCorrect == Spec => []TypeOK
<1>1. IInv => TypeOK
  BY DEF IInv
<1> QED BY <1>1, IInvAlways, PTL

\* Between two polls every awaitable that is not done holds the waker that the
\* last poll brought (poll() of wait_all.cppm and wait_first.cppm).
THEOREM RegistersAll == Spec => []AllRegistered
<1>1. IInv => AllRegistered
  BY DEF IInv
<1> QED BY <1>1, IInvAlways, PTL

\* wait_first takes the result of one awaitable and completes with it.
THEOREM TakesOne == Spec => []OneWinner
<1>1. IInv => OneWinner
  BY DEF IInv
<1> QED BY <1>1, IInvAlways, PTL

\* wait_all has the result of every awaitable that has given one.
THEOREM LosesNoResult == Spec => []KeepsResults
<1>1. IInv => KeepsResults
  BY DEF IInv
<1> QED BY <1>1, IInvAlways, PTL

\* Neither polls an awaitable that has given its result.
THEOREM PollsNoneAgain == Spec => []NoRepoll
<1>1. IInv => NoRepoll
  BY DEF IInv
<1> QED BY <1>1, IInvAlways, PTL

------------------------------------------------------------------------------
\* What has completed is done, and so is what wait_all has the result of.
CompletedIsDone == \A c \in Children : child[c] = "completed" => done[c]

LEMMA DoneAlways == Spec => []CompletedIsDone
<1>1. Init => CompletedIsDone
  BY DEF Init, CompletedIsDone, Children, Indexes
<1>2. TypeOK /\ CompletedIsDone /\ [Next]_vars => CompletedIsDone'
  BY DEF TypeOK, CompletedIsDone, ChildStates, Children, Indexes, Next, PollStep, vars,
         shape, Happen, Tell, PollStart, SkipStored, PollForAll, PollForFirst, PollEnd,
         Drop, PollOf, Polling
<1> QED BY <1>1, <1>2, TypeCorrect, PTL DEF Spec

LEMMA ContractStep ==
    IInv /\ CompletedIsDone /\ [Next]_vars => [Contract!Next]_(Contract!vars)
<1> SUFFICES ASSUME IInv, CompletedIsDone, [Next]_vars
             PROVE  [Contract!Next]_(Contract!vars)
  OBVIOUS
<1> USE DEF IInv, TypeOK, Children, Indexes, shape, Contract!Next, Contract!vars
<1>0. mode = "all" => \A c \in stored : done[c]
  BY DEF KeepsResults, CompletedIsDone
<1>1. CASE UNCHANGED vars
  BY <1>1 DEF vars, WillComplete, AllDone, AnyDone
<1>2. ASSUME NEW c \in Children, Happen(c) PROVE [Contract!Next]_(Contract!vars)
  <2> USE <1>2 DEF Happen
  <2>1. UNCHANGED <<mode, n, phase, polled, woken>>
    OBVIOUS
  <2>2. AllDone = FALSE
    BY DEF AllDone
  <2>3. AnyDone' = TRUE
    BY DEF AnyDone
  <2>4. /\ AllDone' \in BOOLEAN /\ AnyDone \in BOOLEAN
        /\ WillComplete \in BOOLEAN /\ WillComplete' \in BOOLEAN
    BY DEF AllDone, AnyDone, WillComplete
  <2>5. WillComplete => WillComplete'
    BY DEF WillComplete
  <2>6. /\ mode = "all" => (WillComplete = FALSE) /\ (WillComplete' => AllDone')
        /\ mode # "all" => (WillComplete => AnyDone)
    BY <1>0 DEF AllDone, AnyDone, WillComplete
  <2> HIDE <1>2 DEF IInv, TypeOK, Children, Indexes
  <2>7. CASE mode = "all" /\ AllDone' = FALSE
    BY <2>1, <2>2, <2>4, <2>6, <2>7
  <2>8. CASE mode = "all" /\ AllDone' = TRUE
    BY <2>1, <2>2, <2>4, <2>6, <2>8 DEF Contract!Happen
  <2>9. CASE mode # "all" /\ AnyDone = FALSE
    BY <2>1, <2>3, <2>4, <2>6, <2>9 DEF Contract!Happen
  <2>10. CASE mode # "all" /\ AnyDone = TRUE
    BY <2>1, <2>3, <2>4, <2>5, <2>10 DEF Contract!Notice
  <2> QED BY <2>4, <2>7, <2>8, <2>9, <2>10
<1>3. ASSUME NEW c \in Children, Tell(c) PROVE Contract!Wake("w")
  BY <1>3 DEF Tell, Contract!Wake, WillComplete, AllDone, AnyDone
<1>4. CASE PollStart
  <2> USE <1>4 DEF PollStart
  <2>1. WillComplete' <=> IF mode = "all" THEN AllDone ELSE AnyDone
    BY <1>0 DEF WillComplete, AllDone, AnyDone
  <2>2. AllDone' = AllDone /\ AnyDone' = AnyDone
    BY DEF AllDone, AnyDone
  <2> QED BY <2>1, <2>2 DEF Contract!Start
<1>5. ASSUME phase = "polling", phase' = "polling", WillComplete' = WillComplete,
             UNCHANGED <<mode, n, done, polled, woken>>
      PROVE  UNCHANGED Contract!vars
  BY <1>5 DEF AllDone, AnyDone
<1>6. CASE SkipStored \/ PollForAll
  <2>1. WillComplete' = WillComplete
    BY <1>6 DEF SkipStored, PollForAll, PollOf, Polling, WillComplete
  <2> QED BY <1>5, <1>6, <2>1 DEF SkipStored, PollForAll, Polling
<1>7. CASE PollForFirst
  <2>1. CASE done[i]
    <3>1. WillComplete
      BY <1>7, <2>1 DEF PollForFirst, Polling, WillComplete
    <3> QED BY <1>7, <2>1, <3>1
            DEF PollForFirst, Polling, AllDone, AnyDone, Contract!Complete
  <2>2. CASE ~done[i]
    <3>1. WillComplete' = WillComplete
      BY <1>7, <2>2 DEF PollForFirst, Polling, WillComplete
    <3> QED BY <1>5, <1>7, <2>2, <3>1 DEF PollForFirst, Polling
  <2> QED BY <2>1, <2>2
<1>8. CASE PollEnd
  <2>1. WillComplete <=> mode = "all" /\ stored = Children
    <3>1. \A c \in Children : ~(c >= i)
      BY <1>8 DEF PollEnd
    <3>2. (\A c \in Children : c \in stored) <=> stored = Children
      OBVIOUS
    <3> QED BY <3>1, <3>2 DEF WillComplete
  <2>2. AllDone' = AllDone /\ AnyDone' = AnyDone
    BY <1>8 DEF PollEnd, AllDone, AnyDone
  <2>3. CASE WillComplete
    BY <1>8, <2>1, <2>2, <2>3 DEF PollEnd, Contract!Complete
  <2>4. CASE ~WillComplete
    BY <1>8, <2>1, <2>2, <2>4 DEF PollEnd, Contract!Pending
  <2> QED BY <2>3, <2>4
<1>9. CASE Drop
  BY <1>9 DEF Drop, AllDone, AnyDone, Contract!Drop
<1> QED BY <1>1, <1>2, <1>3, <1>4, <1>6, <1>7, <1>8, <1>9 DEF Next, PollStep

\* The safety part of IsAwaitable: awaitables combined by wait_all or wait_first
\* are one awaitable, which waits for all of them or for any.
THEOREM KeepsContract == Spec => Contract!Init /\ [][Contract!Next]_(Contract!vars)
<1>1. Init => Contract!Init
  BY DEF Init, Contract!Init, AllDone, AnyDone
<1> QED BY <1>1, ContractStep, IInvAlways, DoneAlways, PTL DEF Spec
==============================================================================

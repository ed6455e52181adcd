--------------------------- MODULE AwaitableProofs ---------------------------
(***************************************************************************)
(* Theorems about the awaitables that threads wake: SingleEvent for any    *)
(* setters and any wakers, block_on with such an event, and Sleep for any  *)
(* wakers and any deadline.                                                *)
(***************************************************************************)
EXTENDS BlockOn, TLAPS

\* A setter that has stored its value has set the event.
DecidedIsReady ==
    \A s \in Setters : setPc[s] = "wake" \/ copied[s] # Noop => ready

\* A setter that has not been used has copied no waker.
NewCopiedNothing == \A s \in Setters : setPc[s] = "new" => copied[s] = Noop

\* Until the event is set the stored waker is that of the last poll.
StoredWhilePending ==
    ~ready /\ pollPc \in {"result", "idle"} /\ pollWaker # Noop => waker = pollWaker

\* Until the event is set a destroyed awaitable has left no waker in it.
ClearedAtTheEnd == ~ready /\ pollPc = "destroyed" => waker = Noop

IInv ==
    /\ TypeOK
    /\ OneResult
    /\ DecidedIsReady
    /\ NewCopiedNothing
    /\ StoredWhilePending
    /\ ClearedAtTheEnd
    /\ NoLostWakeup

LEMMA IInvInit == Init => IInv
<1> QED
  BY DEF Init, IInv, TypeOK, SetterLocations, PollLocations, OneResult, DecidedIsReady,
         NewCopiedNothing, StoredWhilePending, ClearedAtTheEnd, NoLostWakeup

------------------------------------------------------------------------------
\* The types, one action at a time.
LEMMA TypeStep == TypeOK /\ [Next]_vars => TypeOK'
<1> SUFFICES ASSUME TypeOK, [Next]_vars PROVE TypeOK'
  OBVIOUS
<1> USE DEF TypeOK, setterState, PollLocations, SetterLocations
<1>1. CASE UNCHANGED vars
  BY <1>1 DEF vars
<1>2. ASSUME NEW w \in Wakers, PollStart(w) PROVE TypeOK'
  BY <1>2 DEF PollStart
<1>3. CASE PollSetWaker
  BY <1>3 DEF PollSetWaker, StoreWaker, Called
<1>4. CASE PollResult
  BY <1>4 DEF PollResult
<1>5. CASE Destroy
  BY <1>5 DEF Destroy, StoreWaker, Called
<1>6. CASE Replace
  BY <1>6 DEF Replace
<1>7. ASSUME NEW s \in Setters, Set(s) PROVE TypeOK'
  BY <1>7 DEF Set
<1>8. ASSUME NEW s \in Setters, SetWake(s) PROVE TypeOK'
  BY <1>8 DEF SetWake, Called
<1>9. ASSUME NEW s \in Setters, DropSetter(s) PROVE TypeOK'
  BY <1>9 DEF DropSetter
<1> QED
  BY <1>1, <1>2, <1>3, <1>4, <1>5, <1>6, <1>7, <1>8, <1>9 DEF Next

LEMMA IInvStep == IInv /\ [Next]_vars => IInv'
<1> SUFFICES ASSUME IInv, [Next]_vars PROVE IInv'
  OBVIOUS
<1> USE DEF IInv
<1>0. TypeOK /\ TypeOK'
  BY TypeStep
<1> USE DEF OneResult, DecidedIsReady, NewCopiedNothing, StoredWhilePending,
            ClearedAtTheEnd, NoLostWakeup, setterState
<1>1. CASE UNCHANGED vars
  BY <1>0, <1>1 DEF vars
<1>2. ASSUME NEW w \in Wakers, PollStart(w) PROVE IInv'
  BY <1>0, <1>2 DEF PollStart
<1>3. CASE PollSetWaker
  BY <1>0, <1>3 DEF PollSetWaker, StoreWaker, Called
<1>4. CASE PollResult
  BY <1>0, <1>4 DEF PollResult
<1>5. CASE Destroy
  BY <1>0, <1>5 DEF Destroy, StoreWaker, Called
<1>6. CASE Replace
  BY <1>0, <1>6 DEF Replace
<1>7. ASSUME NEW s \in Setters, Set(s) PROVE IInv'
  <2>1. CASE ready
    BY <1>0, <1>7, <2>1 DEF Set, TypeOK
  <2>2. CASE ~ready
    <3>1. /\ \A t \in Setters : setPc[t] # "wake" /\ copied[t] = Noop
          /\ ready' /\ result' = s /\ copied'[s] = waker /\ setPc'[s] = "wake"
          /\ \A t \in Setters \ {s} : copied'[t] = copied[t] /\ setPc'[t] = setPc[t]
          /\ UNCHANGED <<waker, pollPc, pollWaker, woken>>
      BY <1>7, <2>2 DEF Set, TypeOK
    <3> QED BY <1>0, <2>2, <3>1
  <2> QED BY <2>1, <2>2
<1>8. ASSUME NEW s \in Setters, SetWake(s) PROVE IInv'
  <2>1. /\ \A t \in Setters \ {s} : setPc'[t] = setPc[t]
        /\ setPc[s] = "wake" /\ setPc'[s] = "done"
        /\ woken \subseteq woken'
        /\ copied[s] # Noop => copied[s] \in woken'
        /\ UNCHANGED <<ready, result, waker, pollPc, pollWaker, copied>>
    BY <1>8 DEF SetWake, Called, TypeOK
  <2> QED BY <1>0, <2>1
<1>9. ASSUME NEW s \in Setters, DropSetter(s) PROVE IInv'
  <2>1. /\ \A t \in Setters \ {s} : setPc'[t] = setPc[t]
        /\ setPc[s] = "new" /\ setPc'[s] = "dropped"
        /\ UNCHANGED <<ready, result, waker, pollPc, pollWaker, woken, copied>>
    BY <1>9 DEF DropSetter, TypeOK
  <2> QED BY <1>0, <2>1
<1> QED
  BY <1>1, <1>2, <1>3, <1>4, <1>5, <1>6, <1>7, <1>8, <1>9 DEF Next

LEMMA IInvAlways == Spec => []IInv
<1> QED BY IInvInit, IInvStep, PTL DEF Spec

------------------------------------------------------------------------------
\* The variables keep their types, for any setters and any wakers.
THEOREM TypeCorrect == Spec => []TypeOK
<1>1. IInv => TypeOK
  BY DEF IInv
<1> QED BY <1>1, IInvAlways, PTL

\* Among any number of copies of the setter, set() of one decides the result and
\* no other wakes (mark_ready() of single_event.cppm).
THEOREM OneSetterDecides == Spec => []OneResult
<1>1. IInv => OneResult
  BY DEF IInv
<1> QED BY <1>1, IInvAlways, PTL

\* A poll that was pending is followed by a wake of its waker once the event is
\* set, even when set() runs between set_waker() and poll_result(), and however
\* often the waker was replaced.
THEOREM LosesNoWakeup == Spec => []NoLostWakeup
<1>1. IInv => NoLostWakeup
  BY DEF IInv
<1> QED BY <1>1, IInvAlways, PTL

\* A set() after the awaitable was destroyed has no waker to call.
THEOREM NoWakerAfterDestruction == Spec => LaterSetFindsNoWaker
<1>1. ASSUME IInv, [Next]_vars, NEW s \in Setters, setPc[s] = "new", pollPc = "destroyed"
      PROVE  copied'[s] = Noop
  <2> USE <1>1 DEF IInv
  <2>1. copied[s] = Noop /\ (~ready => waker = Noop)
    BY DEF NewCopiedNothing, ClearedAtTheEnd
  <2>2. CASE UNCHANGED vars
    BY <2>1, <2>2 DEF vars
  <2>3. ASSUME NEW w \in Wakers, PollStart(w) PROVE copied'[s] = Noop
    BY <2>1, <2>3 DEF PollStart, setterState
  <2>4. CASE PollSetWaker \/ PollResult \/ Destroy \/ Replace
    BY <2>1, <2>4 DEF PollSetWaker, PollResult, Destroy, Replace, setterState
  <2>5. ASSUME NEW t \in Setters, Set(t) \/ SetWake(t) \/ DropSetter(t)
        PROVE  copied'[s] = Noop
    BY <2>1, <2>5 DEF Set, SetWake, DropSetter, TypeOK
  <2> QED BY <2>2, <2>3, <2>4, <2>5 DEF Next
<1>2. IInv /\ [Next]_vars =>
          [\A s \in Setters :
              setPc[s] = "new" /\ pollPc = "destroyed" => copied'[s] = Noop]_vars
  BY <1>1
<1> QED BY <1>2, IInvAlways, PTL DEF Spec, LaterSetFindsNoWaker

------------------------------------------------------------------------------
\* Each step of the event is a step of an awaitable or leaves it alone.
LEMMA ContractStep ==
    TypeOK /\ [Next]_vars => [Contract!Next]_(Contract!vars)
<1> SUFFICES ASSUME TypeOK, [Next]_vars PROVE [Contract!Next]_(Contract!vars)
  OBVIOUS
<1> USE DEF TypeOK, PollLocations, setterState, Contract!Next, Contract!vars
<1>1. CASE UNCHANGED vars
  BY <1>1 DEF vars
<1>2. ASSUME NEW w \in Wakers, PollStart(w) PROVE Contract!Start(w)
  BY <1>2 DEF PollStart, Contract!Start
<1>3. CASE PollSetWaker
  <2>1. /\ UNCHANGED <<ready, pollWaker>>
        /\ pollPc = "poll" /\ pollPc' = "result"
        /\ woken' = woken \/ woken' = woken \cup ({pollWaker} \ {Noop})
    BY <1>3 DEF PollSetWaker, StoreWaker, Called
  <2>2. CASE woken' = woken
    BY <2>1, <2>2
  <2>3. CASE woken' # woken
    BY <2>1, <2>3 DEF Contract!Wake
  <2> QED BY <2>2, <2>3
<1>4. CASE PollResult
  BY <1>4 DEF PollResult, Contract!Pending, Contract!Complete
<1>5. CASE Destroy \/ Replace
  BY <1>5 DEF Destroy, Replace, StoreWaker, Called, Contract!Drop
<1>6. ASSUME NEW s \in Setters, Set(s)
      PROVE  Contract!Happen \/ UNCHANGED Contract!vars
  BY <1>6 DEF Set, Contract!Happen
<1>7. ASSUME NEW s \in Setters, SetWake(s)
      PROVE  UNCHANGED Contract!vars \/ \E w \in Wakers : Contract!Wake(w)
  BY <1>7 DEF SetWake, Called, Contract!Wake
<1>8. ASSUME NEW s \in Setters, DropSetter(s) PROVE UNCHANGED Contract!vars
  BY <1>8 DEF DropSetter
<1> QED BY <1>1, <1>2, <1>3, <1>4, <1>5, <1>6, <1>7, <1>8 DEF Next

\* The safety part of IsAwaitable: the event starts as an awaitable and takes
\* an awaitable's steps.  That it tells its executor in the end is liveness.
THEOREM KeepsContract == Spec => Contract!Init /\ [][Contract!Next]_(Contract!vars)
<1>1. Init => Contract!Init
  BY DEF Init, Contract!Init
<1> QED BY <1>1, ContractStep, TypeCorrect, PTL DEF Spec

------------------------------------------------------------------------------
(* block_on: most of it follows from what holds of the event.               *)

LEMMA WdIsAWaker == Wd \in Wakers /\ Wd # Noop
  BY WdAssumption, NoopAssumption

\* Every step of the loop is a step of the event or leaves it alone.
LEMMA LoopStepIsEventStep == [LoopNext]_allVars => [Next]_vars
<1> SUFFICES ASSUME [LoopNext]_allVars PROVE [Next]_vars
  OBVIOUS
<1>1. CASE UNCHANGED allVars
  BY <1>1 DEF allVars
<1>2. CASE Reset
  BY <1>2, WdIsAWaker DEF Reset, Next
<1>3. CASE LoopSetWaker \/ LoopResult \/ DestroyAwaitable
  BY <1>3 DEF LoopSetWaker, LoopResult, DestroyAwaitable, Next
<1>4. CASE Check \/ SpuriousWakeup
  BY <1>4 DEF Check, SpuriousWakeup
<1>5. ASSUME NEW s \in Setters, SetEvent(s) \/ WakeStore(s) \/ DropEvent(s)
      PROVE  Next
  BY <1>5 DEF SetEvent, WakeStore, DropEvent, Next
<1>6. ASSUME NEW s \in Setters, NotifyAll(s) PROVE UNCHANGED vars
  BY <1>6 DEF NotifyAll
<1> QED BY <1>1, <1>2, <1>3, <1>4, <1>5, <1>6 DEF LoopNext

\* The safety part of IsAnExecutor: block_on polls as an executor may, so that
\* what holds of the event under any executor holds under the loop.
THEOREM LoopIsAnExecutor == LoopSpec => Spec
<1>1. LoopInit => Init
  BY DEF LoopInit
<1> QED BY <1>1, LoopStepIsEventStep, PTL DEF LoopSpec, Spec

LEMMA EventAlways == LoopSpec => [](TypeOK /\ NoLostWakeup)
<1> QED BY LoopIsAnExecutor, TypeCorrect, LosesNoWakeup, PTL

------------------------------------------------------------------------------
\* Every poll is one with &wd, and where the loop tests notified the last one was
\* pending.
PolledPending ==
    /\ loopPc \in {"reset", "check", "waiting"} => pollPc = "idle"
    /\ loopPc \in {"poll", "check", "waiting"} => pollWaker = Wd

\* notified is set while the thread sleeps only if notify_all() is to come.
NotifyComes == loopPc = "waiting" /\ notified => notifying # {}

LoopInv == LoopTypeOK /\ PolledPending /\ NotifyComes

LEMMA LoopInvInit == LoopInit => LoopInv
<1> SUFFICES ASSUME LoopInit PROVE LoopInv
  OBVIOUS
<1>1. TypeOK
  BY IInvInit DEF LoopInit, IInv
<1>2. loopPc = "reset" /\ notifying = {} /\ pollPc = "idle"
  BY DEF LoopInit, Init
<1> QED BY <1>1, <1>2
        DEF LoopInv, LoopTypeOK, LoopLocations, PolledPending, NotifyComes

LEMMA LoopInvStep == LoopInv /\ [LoopNext]_allVars => LoopInv'
<1> SUFFICES ASSUME LoopInv, [LoopNext]_allVars PROVE LoopInv'
  OBVIOUS
<1>1. TypeOK /\ TypeOK'
  BY TypeStep, LoopStepIsEventStep DEF LoopInv, LoopTypeOK
<1> USE DEF LoopInv, LoopTypeOK, LoopLocations, PolledPending, NotifyComes, notified,
            LoopGoto
<1>2. CASE UNCHANGED allVars
  BY <1>1, <1>2 DEF allVars, vars
<1>3. CASE Reset
  BY <1>1, <1>3 DEF Reset, PollStart
<1>4. CASE LoopSetWaker
  BY <1>1, <1>4 DEF LoopSetWaker, PollSetWaker
<1>5. CASE LoopResult
  BY <1>1, <1>5 DEF LoopResult, PollResult
<1>6. CASE Check
  BY <1>1, <1>6 DEF Check, vars
<1>7. CASE SpuriousWakeup
  BY <1>1, <1>7 DEF SpuriousWakeup, vars
<1>8. CASE DestroyAwaitable
  BY <1>1, <1>8 DEF DestroyAwaitable, Destroy, Replace
<1>9. ASSUME NEW s \in Setters, SetEvent(s) PROVE LoopInv'
  BY <1>1, <1>9 DEF SetEvent, Set
<1>10. ASSUME NEW s \in Setters, WakeStore(s) PROVE LoopInv'
  BY <1>1, <1>10 DEF WakeStore, SetWake, Called
<1>11. ASSUME NEW s \in Setters, NotifyAll(s) PROVE LoopInv'
  BY <1>1, <1>11 DEF NotifyAll, vars
<1>12. ASSUME NEW s \in Setters, DropEvent(s) PROVE LoopInv'
  BY <1>1, <1>12 DEF DropEvent, DropSetter
<1> QED BY <1>2, <1>3, <1>4, <1>5, <1>6, <1>7, <1>8, <1>9, <1>10, <1>11, <1>12
        DEF LoopNext

LEMMA LoopInvAlways == LoopSpec => []LoopInv
<1> QED BY LoopInvInit, LoopInvStep, PTL DEF LoopSpec

\* The types, and that the loop is in poll() exactly when the event is polled.
THEOREM LoopTypeCorrect == LoopSpec => []LoopTypeOK
<1>1. LoopInv => LoopTypeOK
  BY DEF LoopInv
<1> QED BY <1>1, LoopInvAlways, PTL

\* block_on never sleeps on an event that is set with nobody left to notify it,
\* wherever set() falls between the poll, the test of notified and the wait.
THEOREM MissesNoNotify == LoopSpec => []NoMissedNotify
<1>1. LoopInv /\ TypeOK /\ NoLostWakeup => NoMissedNotify
  BY WdIsAWaker DEF LoopInv, PolledPending, NotifyComes, NoLostWakeup, NoMissedNotify,
                    notified
<1> QED BY <1>1, LoopInvAlways, EventAlways, PTL

------------------------------------------------------------------------------
(* sleep: a system of its own, which has its wakers and the variables of    *)
(* its poll in common with the event's.  Horizon is a natural number there  *)
(* (HorizonAssumption of Sleep).                                            *)

CONSTANT Horizon                              \* see Sleep.tla
VARIABLES now, deadline, started, callback    \* see Sleep.tla

Sleep == INSTANCE Sleep

\* A callback is registered by the poll that stores the first waker, and runs
\* when the deadline has passed.
Registration ==
    /\ pollPc # "reset" => (started <=> callback # "none")
    /\ callback = "run" => Sleep!Due

\* The shared waker is set between the first such poll and reset().
WakerSet ==
    /\ started <=> waker # Noop
    /\ pollPc = "reset" => ~started
    /\ pollPc \in {"poll", "store"} => pollWaker # Noop

SleepInv == Sleep!TypeOK /\ Registration /\ WakerSet

LEMMA SleepInvInit ==
    ASSUME Horizon \in Nat
    PROVE  Sleep!Init => SleepInv
<1> SUFFICES ASSUME Sleep!Init PROVE SleepInv
  OBVIOUS
<1>1. Sleep!TypeOK
  <2>1. 0 \in 0..Horizon
    OBVIOUS
  <2> QED BY <2>1 DEF Sleep!Init, Sleep!TypeOK, Sleep!PollLocations
<1>2. Registration /\ WakerSet
  BY DEF Sleep!Init, Registration, WakerSet
<1> QED BY <1>1, <1>2 DEF SleepInv

LEMMA SleepInvStep ==
    ASSUME Horizon \in Nat, SleepInv, [Sleep!Next]_(Sleep!vars)
    PROVE  SleepInv'
<1> USE NoopAssumption
    DEF SleepInv, Sleep!TypeOK, Sleep!PollLocations, Registration, WakerSet,
        Sleep!Due, Sleep!clock
<1>1. CASE UNCHANGED Sleep!vars
  BY <1>1 DEF Sleep!vars
<1>2. CASE Sleep!Tick
  BY <1>2 DEF Sleep!Tick
<1>3. ASSUME NEW w \in Wakers, Sleep!PollStart(w) PROVE SleepInv'
  BY <1>3 DEF Sleep!PollStart
<1>4. CASE Sleep!PollCheck
  BY <1>4 DEF Sleep!PollCheck
<1>5. CASE Sleep!PollStore
  BY <1>5 DEF Sleep!PollStore
<1>6. CASE Sleep!Fire
  BY <1>6 DEF Sleep!Fire
<1>7. CASE Sleep!Reset
  BY <1>7 DEF Sleep!Reset
<1> QED
  BY <1>1, <1>2, <1>3, <1>4, <1>5, <1>6, <1>7 DEF Sleep!Next

LEMMA SleepInvAlways ==
    ASSUME Horizon \in Nat
    PROVE  Sleep!Spec => []SleepInv
<1>1. SleepInv /\ [Sleep!Next]_(Sleep!vars) => SleepInv'
  BY SleepInvStep
<1> QED BY <1>1, SleepInvInit, PTL DEF Sleep!Spec

------------------------------------------------------------------------------
\* With one waker, as under one executor, what NoLostWakeup rests on: a poll
\* that goes on to store the waker has one in store already if the callback has
\* run since the clock was read, and then it has been called.
OneWaker ==
    /\ started => waker = pollWaker
    /\ pollPc = "idle" /\ pollWaker # Noop => started
    /\ pollPc = "store" /\ callback = "run" => pollWaker \in woken
    /\ Sleep!NoLostWakeup

LEMMA OneWakerInit == Sleep!Init => OneWaker
<1> QED BY DEF Sleep!Init, OneWaker, Sleep!NoLostWakeup

LEMMA OneWakerStep ==
    ASSUME \A v, w \in Wakers : v = w, SleepInv, OneWaker, [Sleep!Next]_(Sleep!vars)
    PROVE  OneWaker'
<1> USE NoopAssumption
    DEF SleepInv, Sleep!TypeOK, Sleep!PollLocations, Registration, WakerSet,
        OneWaker, Sleep!NoLostWakeup, Sleep!clock
<1>1. CASE UNCHANGED Sleep!vars
  BY <1>1 DEF Sleep!vars
<1>2. CASE Sleep!Tick
  BY <1>2 DEF Sleep!Tick
<1>3. ASSUME NEW w \in Wakers, Sleep!PollStart(w) PROVE OneWaker'
  BY <1>3 DEF Sleep!PollStart
<1>4. CASE Sleep!PollCheck
  BY <1>4 DEF Sleep!PollCheck
<1>5. CASE Sleep!PollStore
  BY <1>5 DEF Sleep!PollStore
<1>6. CASE Sleep!Fire
  BY <1>6 DEF Sleep!Fire
<1>7. CASE Sleep!Reset
  BY <1>7 DEF Sleep!Reset
<1> QED
  BY <1>1, <1>2, <1>3, <1>4, <1>5, <1>6, <1>7 DEF Sleep!Next

------------------------------------------------------------------------------
\* The variables keep their types, for any wakers and any deadline.
THEOREM SleepTypeCorrect ==
    ASSUME Horizon \in Nat
    PROVE  Sleep!Spec => []Sleep!TypeOK
<1>1. SleepInv => Sleep!TypeOK
  BY DEF SleepInv
<1> QED BY <1>1, SleepInvAlways, PTL

\* The callback of a sleep that was destroyed or assigned to calls nobody
\* (reset() of sleep.cppm).
THEOREM QuietAfterReset ==
    ASSUME Horizon \in Nat
    PROVE  Sleep!Spec => Sleep!NoWakeAfterReset
<1>1. SleepInv /\ [Sleep!Next]_(Sleep!vars) =>
          [pollPc = "reset" => woken' = woken]_(Sleep!vars)
  BY DEF SleepInv, WakerSet, Sleep!TypeOK, Sleep!PollLocations, Sleep!Next, Sleep!vars,
         Sleep!Tick, Sleep!PollStart, Sleep!PollCheck, Sleep!PollStore, Sleep!Fire,
         Sleep!Reset
<1> QED BY <1>1, SleepInvAlways, PTL DEF Sleep!Spec, Sleep!NoWakeAfterReset

\* A sleep that is polled with one waker only, as by one executor, never waits
\* without a callback to come or a wake that has come.  With two wakers this
\* fails: see the findings of the README.
THEOREM SleepLosesNoWakeup ==
    ASSUME Horizon \in Nat, \A v, w \in Wakers : v = w
    PROVE  Sleep!Spec => []Sleep!NoLostWakeup
<1>1. SleepInv /\ OneWaker /\ [Sleep!Next]_(Sleep!vars) => OneWaker'
  BY OneWakerStep
<1>2. OneWaker => Sleep!NoLostWakeup
  BY DEF OneWaker
<1> QED BY <1>1, <1>2, OneWakerInit, SleepInvAlways, PTL DEF Sleep!Spec

------------------------------------------------------------------------------
\* Each step of the sleep is a step of an awaitable or leaves it alone.
LEMMA SleepContractStep ==
    ASSUME Horizon \in Nat, Sleep!TypeOK, [Sleep!Next]_(Sleep!vars)
    PROVE  [Sleep!Contract!Next]_(Sleep!Contract!vars)
<1> USE DEF Sleep!PollLocations, Sleep!Contract!Next, Sleep!Contract!vars
<1>0. Sleep!Due \in BOOLEAN /\ Sleep!Due' \in BOOLEAN /\ pollPc \in Sleep!PollLocations
  BY DEF Sleep!Due, Sleep!TypeOK
<1>1. CASE UNCHANGED Sleep!vars
  BY <1>1 DEF Sleep!vars, Sleep!Due
<1>2. CASE Sleep!Tick
  <2>1. Sleep!Due => Sleep!Due'
    BY <1>2 DEF Sleep!Tick, Sleep!TypeOK, Sleep!Due
  <2>2. UNCHANGED <<pollPc, pollWaker, woken>>
    BY <1>2 DEF Sleep!Tick
  <2>3. CASE Sleep!Due' = Sleep!Due
    BY <2>2, <2>3
  <2>4. CASE ~Sleep!Due /\ Sleep!Due'
    BY <1>0, <2>2, <2>4 DEF Sleep!Contract!Happen
  <2> QED BY <1>0, <2>1, <2>3, <2>4
<1>3. ASSUME NEW w \in Wakers, Sleep!PollStart(w) PROVE Sleep!Contract!Start(w)
  <2>1. Sleep!Due' = Sleep!Due
    BY <1>3 DEF Sleep!PollStart, Sleep!clock, Sleep!Due
  <2> QED BY <1>0, <1>3, <2>1 DEF Sleep!PollStart, Sleep!Contract!Start
<1>4. CASE Sleep!PollCheck
  <2>1. Sleep!Due' = Sleep!Due
    BY <1>4 DEF Sleep!PollCheck, Sleep!clock, Sleep!Due
  <2> QED BY <1>0, <1>4, <2>1 DEF Sleep!PollCheck, Sleep!Contract!Complete
<1>5. CASE Sleep!PollStore
  <2>1. Sleep!Due' = Sleep!Due
    BY <1>5 DEF Sleep!PollStore, Sleep!clock, Sleep!Due
  <2> QED BY <1>0, <1>5, <2>1 DEF Sleep!PollStore, Sleep!Contract!Pending
<1>6. CASE Sleep!Fire
  <2>1. Sleep!Due' = Sleep!Due
    BY <1>6 DEF Sleep!Fire, Sleep!clock, Sleep!Due
  <2>2. waker \in Wakers \cup {Noop} /\ woken' = woken \cup ({waker} \ {Noop})
    BY <1>6 DEF Sleep!Fire, Sleep!TypeOK
  <2>3. CASE waker = Noop
    BY <1>6, <2>1, <2>2, <2>3 DEF Sleep!Fire
  <2>4. CASE waker # Noop
    BY <1>6, <2>1, <2>2, <2>4 DEF Sleep!Fire, Sleep!Contract!Wake
  <2> QED BY <2>3, <2>4
<1>7. CASE Sleep!Reset
  <2>1. Sleep!Due' = Sleep!Due
    BY <1>7 DEF Sleep!Reset, Sleep!clock, Sleep!Due
  <2> QED BY <1>0, <1>7, <2>1 DEF Sleep!Reset, Sleep!Contract!Drop
<1> QED BY <1>1, <1>2, <1>3, <1>4, <1>5, <1>6, <1>7 DEF Sleep!Next

\* The safety part of IsAwaitable, with any number of wakers: the sleep completes
\* only when its deadline has passed, and does in every poll that begins then.
THEOREM SleepKeepsContract ==
    ASSUME Horizon \in Nat
    PROVE  Sleep!Spec =>
              Sleep!Contract!Init /\ [][Sleep!Contract!Next]_(Sleep!Contract!vars)
<1>1. Sleep!Init => Sleep!Contract!Init
  BY DEF Sleep!Init, Sleep!Contract!Init, Sleep!Due
<1>2. Sleep!TypeOK /\ [Sleep!Next]_(Sleep!vars) =>
          [Sleep!Contract!Next]_(Sleep!Contract!vars)
  BY SleepContractStep
<1> QED BY <1>1, <1>2, SleepTypeCorrect, PTL DEF Sleep!Spec
==============================================================================

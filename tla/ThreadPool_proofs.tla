-------------------------- MODULE ThreadPool_proofs -------------------------
(* Proofs about ThreadPool, for all values of its constants.               *)
EXTENDS ThreadPool, FiniteSetTheorems, SequenceTheorems, TLAPS

-----------------------------------------------------------------------------
(* The ring indices and the condition variables.                           *)

\* One turn around the ring at most: the remainder is a subtraction.
LEMMA RingIndex ==
    ASSUME NEW c \in Nat \ {0}, NEW x \in 0 .. c - 1, NEW k \in 0 .. c
    PROVE  /\ (x + k) % c = IF x + k < c THEN x + k ELSE x + k - c
           /\ (x + k) % c \in 0 .. c - 1
OBVIOUS

\* A signal moves at most one thread, from "wait" to "woken".
LEMMA SignalWorkers ==
    ASSUME wpc \in [Slot -> WorkerPC], Signal(wpc, wpc')
    PROVE  /\ wpc' \in [Slot -> WorkerPC]
           /\ \A i \in Slot : \/ wpc'[i] = wpc[i]
                              \/ wpc[i] = "wait" /\ wpc'[i] = "woken"
BY DEF Signal, WorkerPC

LEMMA SignalAdders ==
    ASSUME ppc \in [Producer -> AdderPC], Signal(ppc, ppc')
    PROVE  /\ ppc' \in [Producer -> AdderPC]
           /\ \A p \in Producer : \/ ppc'[p] = ppc[p]
                                  \/ ppc[p] = "wait" /\ ppc'[p] = "woken"
BY DEF Signal, AdderPC

\* The slots, and so any set of them, are finite in number.
LEMMA SlotFinite == IsFiniteSet(Slot) /\ Cardinality(Slot) = maxNUM
BY PoolAssumption, FS_Interval DEF Slot

LEMMA NewSlotFinite == IsFiniteSet(NewSlot)
<1>1. NewSlot \in SUBSET Slot
  BY DEF NewSlot, FreeSlot
<1> QED
  BY <1>1, SlotFinite, FS_Subset

-----------------------------------------------------------------------------
(* Type correctness.  By itself TypeOK is not inductive: the manager's     *)
(* countdown and the destroyer's index stay in range because of where the  *)
(* two threads are.                                                        *)

TypeInv ==
    /\ TypeOK
    /\ mpc = "signal" => msignal > 0
    /\ dpc \in {"join", "joining"} => di < maxNUM

USE DEF ring, worker, manager, adder, destroy

LEMMA TypeInit == Init => TypeInv
<1> SUFFICES ASSUME Init PROVE TypeInv
  OBVIOUS
<1> USE PoolAssumption DEF Init
<1>1. /\ taskqueue \in [Cell -> Task \cup {NoTask}]
      /\ queueFront \in Cell /\ queueRear \in Cell /\ queueSize \in 0 .. queueCapacity
  BY DEF Cell
<1>2. busyNUM \in Int /\ liveNUM \in Int /\ exitNUM \in 0 .. NUMBER
  BY DEF NUMBER
<1>9. shutdown \in BOOLEAN
  OBVIOUS
<1>8. sample \in [queueSize : Nat, liveNum : Int, busyNum : Int]
  BY DEF NoSample
<1>3. wpc \in [Slot -> WorkerPC] /\ wtask \in [Slot -> Task \cup {NoTask}]
  BY DEF WorkerPC
<1>4. mpc \in ManagerPC /\ msignal \in 0 .. NUMBER /\ mpc # "signal"
  BY DEF ManagerPC, NUMBER
<1>5. ppc \in [Producer -> AdderPC] /\ ptask \in [Producer -> Task \cup {NoTask}]
  BY DEF AdderPC
<1>6. dpc \in DestroyPC /\ di \in 0 .. maxNUM /\ dpc \notin {"join", "joining"}
  BY DEF DestroyPC
<1>7. arg \in [Task -> {"free", "passed", "queued", "held", "leaked"}]
  OBVIOUS
<1> QED
  BY <1>1, <1>2, <1>3, <1>4, <1>5, <1>6, <1>7, <1>8, <1>9
     DEF TypeInv, TypeOK

LEMMA TypeTakeOrWait ==
    ASSUME TypeInv, NEW i \in Slot, TakeOrWait(i)
    PROVE  /\ taskqueue' = taskqueue /\ queueRear' = queueRear
           /\ queueFront' \in Cell /\ queueSize' \in 0 .. queueCapacity
           /\ wpc' \in [Slot -> WorkerPC]
           /\ wtask' \in [Slot -> Task \cup {NoTask}]
           /\ ppc' \in [Producer -> AdderPC]
           /\ arg' \in [Task -> {"free", "passed", "queued", "held", "leaked"}]
<1> USE DEF TypeInv, TypeOK
<1>1. CASE ~shutdown /\ queueSize = 0
  BY <1>1, PoolAssumption DEF TakeOrWait, TakeFront, WorkerPC
<1>2. CASE shutdown
  BY <1>2, PoolAssumption DEF TakeOrWait, TakeFront, WorkerPC
<1>3. CASE ~shutdown /\ queueSize > 0
  <2>1. Signal(ppc, ppc') /\ queueFront' = (queueFront + 1) % queueCapacity
    BY <1>3 DEF TakeOrWait, TakeFront
  <2>2. ppc' \in [Producer -> AdderPC]
    BY <2>1, SignalAdders
  <2>3. queueFront' \in Cell
    BY <2>1, RingIndex, PoolAssumption DEF Cell
  <2> QED
    BY <1>3, <2>2, <2>3, PoolAssumption DEF TakeOrWait, TakeFront, WorkerPC
<1> QED
  BY <1>1, <1>2, <1>3 DEF TakeOrWait, TakeFront

LEMMA TypeStep == TypeInv /\ [Next]_vars => TypeInv'
<1> SUFFICES ASSUME TypeInv, [Next]_vars PROVE TypeInv'
  OBVIOUS
<1> USE PoolAssumption DEF TypeInv, TypeOK
<1>1. ASSUME NEW i \in Slot, WorkerStep(i) PROVE TypeInv'
  <2>1. CASE WorkerEnter(i)
    BY <2>1, TypeTakeOrWait DEF WorkerEnter
  <2>2. CASE WorkerRetire(i)
    BY <2>2 DEF WorkerRetire, WorkerPC, NUMBER
  <2>3. CASE WorkerResume(i)
    BY <2>3, TypeTakeOrWait DEF WorkerResume, NUMBER
  <2>4. CASE WorkerExit(i) \/ WorkerBusy(i) \/ WorkerIdle(i)
    BY <2>4 DEF WorkerExit, WorkerBusy, WorkerIdle, WorkerPC
  <2> QED
    BY <1>1, <2>1, <2>2, <2>3, <2>4 DEF WorkerStep
<1>2. ASSUME NEW i \in Slot, WorkerRun(i) \/ WorkerSpurious(i) PROVE TypeInv'
  BY <1>2 DEF WorkerRun, WorkerSpurious, WorkerPC
<1>3. CASE ManagerStep
  <2> USE DEF ManagerPC
  <2>1. CASE ManagerTop
    BY <2>1 DEF ManagerTop
  <2>2. CASE ManagerSample
    BY <2>2 DEF ManagerSample
  <2>3. CASE ManagerSampleBusy
    BY <2>3 DEF ManagerSampleBusy, AfterGrow, NoSample
  <2>4. CASE ManagerGrow
    <3>1. Cardinality(NewSlot) \in Nat
      BY NewSlotFinite, FS_CardinalityType
    <3> QED
      BY <2>4, <3>1 DEF ManagerGrow, AfterGrow, NoSample, WorkerPC
  <2>5. CASE ManagerShrink
    BY <2>5 DEF ManagerShrink, NoSample, NUMBER
  <2>6. CASE ManagerSignal
    <3>1. wpc' \in [Slot -> WorkerPC]
      BY <2>6, SignalWorkers DEF ManagerSignal
    <3> QED
      BY <2>6, <3>1 DEF ManagerSignal, NUMBER
  <2> QED
    BY <1>3, <2>1, <2>2, <2>3, <2>4, <2>5, <2>6 DEF ManagerStep
<1>4. ASSUME NEW p \in Producer, AddStep(p) PROVE TypeInv'
  <2>1. CASE AddWait(p) \/ AddRefused(p)
    BY <2>1 DEF AddWait, AddRefused, AdderPC
  <2>2. CASE AddEnqueue(p)
    <3>1. wpc' \in [Slot -> WorkerPC]
      BY <2>2, SignalWorkers DEF AddEnqueue, Enqueue
    <3>2. queueRear' \in Cell
      BY <2>2, RingIndex DEF AddEnqueue, Enqueue, Cell
    <3>3. taskqueue' \in [Cell -> Task \cup {NoTask}]
      BY <2>2 DEF AddEnqueue, Enqueue
    <3>5. queueSize' \in 0 .. queueCapacity
      BY <2>2 DEF AddEnqueue, Enqueue
    <3>6. arg' \in [Task -> {"free", "passed", "queued", "held", "leaked"}]
      BY <2>2 DEF AddEnqueue, Enqueue
    <3>4. /\ ppc' \in [Producer -> AdderPC]
          /\ ptask' \in [Producer -> Task \cup {NoTask}]
      BY <2>2 DEF AddEnqueue, Enqueue, AdderPC
    <3> QED
      BY <2>2, <3>1, <3>2, <3>3, <3>4, <3>5, <3>6 DEF AddEnqueue, Enqueue
  <2> QED
    BY <1>4, <2>1, <2>2 DEF AddStep
<1>5. ASSUME NEW p \in Producer, NEW t \in Task, AddCall(p, t) PROVE TypeInv'
  BY <1>5 DEF AddCall, AdderPC
<1>6. ASSUME NEW p \in Producer, AddSpurious(p) PROVE TypeInv'
  BY <1>6 DEF AddSpurious, AdderPC
<1>7. CASE StopProducers \/ DestroyBegin \/ DestroyStep
  <2> USE DEF DestroyPC
  <2>1. CASE DestroyBroadcast
    BY <2>1 DEF DestroyBroadcast, Broadcast, WorkerPC, AdderPC
  <2>2. CASE StopProducers \/ DestroyBegin
    BY <2>2 DEF StopProducers, DestroyBegin
  <2>3. CASE DestroyJoinManager \/ DestroyCheck \/ DestroyJoin \/ DestroyJoined
    BY <2>3 DEF DestroyJoinManager, DestroyCheck, DestroyJoin, DestroyJoined
  <2> QED
    BY <1>7, <2>1, <2>2, <2>3 DEF DestroyStep
<1>8. CASE UNCHANGED vars
  BY <1>8 DEF vars
<1> QED
  BY <1>1, <1>2, <1>3, <1>4, <1>5, <1>6, <1>7, <1>8 DEF Next

\* Every variable keeps its type, whatever the sizes of the pool.
THEOREM TypeCorrect == Spec => []TypeOK
<1>1. TypeInv => TypeOK
  BY DEF TypeInv
<1> QED
  BY TypeInit, TypeStep, <1>1, PTL DEF Spec

-----------------------------------------------------------------------------
(* The size of the pool.                                                   *)

LEMMA LiveFinite == IsFiniteSet(Live) /\ Cardinality(Live) <= maxNUM
<1>1. Live \in SUBSET Slot
  BY DEF Live
<1> QED
  BY <1>1, SlotFinite, FS_Subset

\* A step that neither adds nor retires a worker.
LEMMA LiveSame ==
    ASSUME PoolSize, liveNUM' = liveNUM, Live' = Live \/ shutdown',
           shutdown \in BOOLEAN, shutdown => shutdown'
    PROVE  PoolSize'
BY DEF PoolSize

LEMMA PoolSizeInit == Init => PoolSize
<1> SUFFICES ASSUME Init PROVE PoolSize
  OBVIOUS
<1>1. Live = 0 .. minNUM - 1
  BY PoolAssumption DEF Init, Live, Slot
<1>2. Cardinality(Live) = minNUM
  BY <1>1, FS_Interval, PoolAssumption
<1> QED
  BY <1>2, PoolAssumption DEF Init, PoolSize

LEMMA PoolSizeStep == TypeInv /\ PoolSize /\ [Next]_vars => PoolSize'
<1> SUFFICES ASSUME TypeInv, PoolSize, [Next]_vars PROVE PoolSize'
  OBVIOUS
<1>0. shutdown \in BOOLEAN /\ wpc \in [Slot -> WorkerPC] /\ ppc \in [Producer -> AdderPC]
  BY DEF TypeInv, TypeOK
<1>1. ASSUME NEW i \in Slot, WorkerStep(i) PROVE PoolSize'
  <2>1. CASE WorkerEnter(i) \/ WorkerResume(i)
    <3>1. liveNUM' = liveNUM /\ shutdown' = shutdown
      BY <2>1 DEF WorkerEnter, WorkerResume
    <3>2. CASE shutdown
      BY <1>0, <3>1, <3>2, LiveSame
    <3>3. CASE ~shutdown
      <4>1. \/ wpc' = [wpc EXCEPT ![i] = "wait"]
            \/ wpc' = [wpc EXCEPT ![i] = "got"]
        BY <2>1, <3>3 DEF WorkerEnter, WorkerResume, TakeOrWait, TakeFront
      <4>2. Live' = Live
        BY <1>0, <2>1, <4>1 DEF WorkerEnter, WorkerResume, Live
      <4> QED
        BY <1>0, <3>1, <4>2, LiveSame
    <3> QED
      BY <3>2, <3>3
  <2>2. CASE WorkerRetire(i)
    <3>1. Live' = Live \ {i} /\ i \in Live
      BY <1>0, <2>2 DEF WorkerRetire, Live
    <3>2. Cardinality(Live') = Cardinality(Live) - 1
      BY <3>1, LiveFinite, FS_RemoveElement
    <3>3. liveNUM \in Int /\ liveNUM > minNUM /\ liveNUM' = liveNUM - 1
          /\ shutdown' = shutdown
      BY <2>2 DEF WorkerRetire, TypeInv, TypeOK
    <3> QED
      BY <3>2, <3>3, PoolAssumption DEF PoolSize
  <2>3. CASE WorkerExit(i) \/ WorkerBusy(i) \/ WorkerIdle(i)
    <3>1. liveNUM' = liveNUM /\ shutdown' = shutdown
      BY <2>3 DEF WorkerExit, WorkerBusy, WorkerIdle
    <3>2. Live' = Live
      BY <1>0, <2>3 DEF WorkerExit, WorkerBusy, WorkerIdle, Live
    <3> QED
      BY <1>0, <3>1, <3>2, LiveSame
  <2> QED
    BY <1>1, <2>1, <2>2, <2>3 DEF WorkerStep
<1>2. ASSUME NEW i \in Slot, WorkerRun(i) \/ WorkerSpurious(i) PROVE PoolSize'
  <2>1. liveNUM' = liveNUM /\ shutdown' = shutdown
    BY <1>2 DEF WorkerRun, WorkerSpurious
  <2>2. Live' = Live
    BY <1>0, <1>2 DEF WorkerRun, WorkerSpurious, Live
  <2> QED
    BY <1>0, <2>1, <2>2, LiveSame
<1>3. CASE ManagerGrow
  <2>1. Live' = Live \cup NewSlot /\ Live \cap NewSlot = {}
    BY <1>0, <1>3 DEF ManagerGrow, Live, NewSlot, FreeSlot
  <2>2. Cardinality(Live') = Cardinality(Live) + Cardinality(NewSlot)
    BY <2>1, LiveFinite, NewSlotFinite, FS_Union, FS_EmptySet, FS_CardinalityType
  <2>3. Cardinality(Live') <= maxNUM
    <3>1. Live' \in SUBSET Slot
      BY DEF Live
    <3> QED
      BY <3>1, SlotFinite, FS_Subset
  <2>4. liveNUM' = liveNUM + Cardinality(NewSlot) /\ shutdown' = shutdown
        /\ liveNUM \in Int /\ Cardinality(NewSlot) \in Nat
    BY <1>3, NewSlotFinite, FS_CardinalityType DEF ManagerGrow, TypeInv, TypeOK
  <2> QED
    BY <2>2, <2>3, <2>4, PoolAssumption DEF PoolSize
<1>4. CASE ManagerStep /\ ~ManagerGrow
  <2>1. liveNUM' = liveNUM /\ shutdown' = shutdown
    BY <1>4 DEF ManagerStep, ManagerTop, ManagerSample, ManagerSampleBusy,
                ManagerShrink, ManagerSignal
  <2>2. wpc' = wpc \/ Signal(wpc, wpc')
    BY <1>4 DEF ManagerStep, ManagerTop, ManagerSample, ManagerSampleBusy,
                ManagerShrink, ManagerSignal
  <2>3. Live' = Live
    BY <1>0, <2>2, SignalWorkers DEF Live
  <2> QED
    BY <1>0, <2>1, <2>3, LiveSame
<1>5. ASSUME NEW p \in Producer, NEW t \in Task, AddCall(p, t) PROVE PoolSize'
  BY <1>0, <1>5, LiveSame DEF AddCall, Live
<1>6. ASSUME NEW p \in Producer, AddStep(p) \/ AddSpurious(p) PROVE PoolSize'
  <2>1. liveNUM' = liveNUM /\ shutdown' = shutdown
    BY <1>6 DEF AddStep, AddWait, AddRefused, AddEnqueue, Enqueue, AddSpurious
  <2>2. wpc' = wpc \/ Signal(wpc, wpc')
    BY <1>6 DEF AddStep, AddWait, AddRefused, AddEnqueue, Enqueue, AddSpurious
  <2>3. Live' = Live
    BY <1>0, <2>2, SignalWorkers DEF Live
  <2> QED
    BY <1>0, <2>1, <2>3, LiveSame
<1>7. CASE StopProducers \/ DestroyBegin \/ DestroyStep
  <2>1. liveNUM' = liveNUM /\ (shutdown => shutdown')
    BY <1>7 DEF StopProducers, DestroyBegin, DestroyStep, DestroyBroadcast, DestroyJoinManager,
                DestroyCheck, DestroyJoin, DestroyJoined
  <2>2. wpc' = wpc \/ wpc' = Broadcast(wpc)
    BY <1>7 DEF StopProducers, DestroyBegin, DestroyStep, DestroyBroadcast, DestroyJoinManager,
                DestroyCheck, DestroyJoin, DestroyJoined
  <2>3. Live' = Live
    BY <1>0, <2>2 DEF Live, Broadcast
  <2> QED
    BY <1>0, <2>1, <2>3, LiveSame
<1>8. CASE UNCHANGED vars
  BY <1>0, <1>8, LiveSame DEF vars, Live
<1> QED
  BY <1>1, <1>2, <1>3, <1>4, <1>5, <1>6, <1>7, <1>8 DEF Next

\* Until the pool is destroyed liveNUM counts the live workers, and they are
\* between minNUM and maxNUM.
THEOREM PoolSizeCorrect == Spec => []PoolSize
BY TypeInit, TypeStep, PoolSizeInit, PoolSizeStep, PTL DEF Spec

-----------------------------------------------------------------------------
(* The busy counter.                                                       *)

LEMMA BusyFinite == IsFiniteSet(Busy)
<1>1. Busy \in SUBSET Slot
  BY DEF Busy
<1> QED
  BY <1>1, SlotFinite, FS_Subset

LEMMA BusyInit == Init => BusyAccurate
<1> SUFFICES ASSUME Init PROVE BusyAccurate
  OBVIOUS
<1>1. Busy = {}
  BY DEF Init, Busy
<1> QED
  BY <1>1, FS_EmptySet DEF Init, BusyAccurate

LEMMA BusyStep == TypeInv /\ BusyAccurate /\ [Next]_vars => BusyAccurate'
<1> SUFFICES ASSUME TypeInv, BusyAccurate, [Next]_vars PROVE BusyAccurate'
  OBVIOUS
<1>0. wpc \in [Slot -> WorkerPC] /\ busyNUM \in Int
  BY DEF TypeInv, TypeOK
<1>a. ASSUME busyNUM' = busyNUM, Busy' = Busy PROVE BusyAccurate'
  BY <1>a DEF BusyAccurate
<1>1. ASSUME NEW i \in Slot, WorkerEnter(i) \/ WorkerResume(i) PROVE BusyAccurate'
  <2>1. \/ wpc' = [wpc EXCEPT ![i] = "wait"]
        \/ wpc' = [wpc EXCEPT ![i] = "exit"]
        \/ wpc' = [wpc EXCEPT ![i] = "got"]
    BY <1>1 DEF WorkerEnter, WorkerResume, TakeOrWait, TakeFront
  <2>2. Busy' = Busy
    BY <1>0, <1>1, <2>1 DEF WorkerEnter, WorkerResume, Busy
  <2> QED
    BY <1>1, <1>a, <2>2 DEF WorkerEnter, WorkerResume
<1>2. ASSUME NEW i \in Slot, WorkerRetire(i) \/ WorkerExit(i) \/ WorkerRun(i)
                             \/ WorkerSpurious(i)
      PROVE  BusyAccurate'
  <2>1. Busy' = Busy
    BY <1>0, <1>2 DEF WorkerRetire, WorkerExit, WorkerRun, WorkerSpurious, Busy
  <2> QED
    BY <1>2, <1>a, <2>1 DEF WorkerRetire, WorkerExit, WorkerRun, WorkerSpurious
<1>3. ASSUME NEW i \in Slot, WorkerBusy(i) PROVE BusyAccurate'
  <2>1. Busy' = Busy \cup {i} /\ i \notin Busy
    BY <1>0, <1>3 DEF WorkerBusy, Busy
  <2>2. Cardinality(Busy') = Cardinality(Busy) + 1
    BY <2>1, BusyFinite, FS_AddElement
  <2> QED
    BY <1>3, <2>2 DEF WorkerBusy, BusyAccurate
<1>4. ASSUME NEW i \in Slot, WorkerIdle(i) PROVE BusyAccurate'
  <2>1. Busy' = Busy \ {i} /\ i \in Busy
    BY <1>0, <1>4 DEF WorkerIdle, Busy
  <2>2. Cardinality(Busy') = Cardinality(Busy) - 1
    BY <2>1, BusyFinite, FS_RemoveElement
  <2> QED
    BY <1>4, <2>2 DEF WorkerIdle, BusyAccurate
<1>5. CASE ManagerStep
  <2>1. busyNUM' = busyNUM
    BY <1>5 DEF ManagerStep, ManagerTop, ManagerSample, ManagerSampleBusy,
                ManagerGrow, ManagerShrink, ManagerSignal
  <2>2. wpc' = wpc \/ Signal(wpc, wpc') \/ ManagerGrow
    BY <1>5 DEF ManagerStep, ManagerTop, ManagerSample, ManagerSampleBusy,
                ManagerShrink, ManagerSignal
  <2>3. Busy' = Busy
    BY <1>0, <2>2, SignalWorkers DEF ManagerGrow, NewSlot, FreeSlot, Busy
  <2> QED
    BY <1>a, <2>1, <2>3
<1>6. ASSUME NEW p \in Producer, AddStep(p) \/ AddSpurious(p) PROVE BusyAccurate'
  <2>1. busyNUM' = busyNUM /\ (wpc' = wpc \/ Signal(wpc, wpc'))
    BY <1>6 DEF AddStep, AddWait, AddRefused, AddEnqueue, Enqueue, AddSpurious
  <2>2. Busy' = Busy
    BY <1>0, <2>1, SignalWorkers DEF Busy
  <2> QED
    BY <1>a, <2>1, <2>2
<1>7. ASSUME NEW p \in Producer, NEW t \in Task, AddCall(p, t) PROVE BusyAccurate'
  BY <1>a, <1>7 DEF AddCall, Busy
<1>8. CASE StopProducers \/ DestroyBegin \/ DestroyStep
  <2>1. busyNUM' = busyNUM /\ (wpc' = wpc \/ wpc' = Broadcast(wpc))
    BY <1>8 DEF StopProducers, DestroyBegin, DestroyStep, DestroyBroadcast, DestroyJoinManager,
                DestroyCheck, DestroyJoin, DestroyJoined
  <2>2. Busy' = Busy
    BY <1>0, <2>1 DEF Busy, Broadcast
  <2> QED
    BY <1>a, <2>1, <2>2
<1>9. CASE UNCHANGED vars
  BY <1>9, <1>a DEF vars, Busy
<1> QED
  BY <1>1, <1>2, <1>3, <1>4, <1>5, <1>6, <1>7, <1>8, <1>9 DEF Next, WorkerStep

\* busyNUM counts the workers between its increment and its decrement.
THEOREM BusyCorrect == Spec => []BusyAccurate
BY TypeInit, TypeStep, BusyInit, BusyStep, PTL DEF Spec

-----------------------------------------------------------------------------
(* Destroying the pool.                                                    *)

\* What makes FreedUnused inductive: the destroyer has joined the manager, so no
\* slot it has passed is filled again; nobody sleeps once it has broadcast.
DestroyInv ==
    /\ shutdown <=> dpc \notin {"idle", "stop"}
    /\ JoinProducersFirst /\ shutdown => \A p \in Producer : ppc[p] = "idle"
    /\ dpc \in {"check", "join", "joining", "freed"} =>
           mpc = "done" /\ \A j \in Slot : j < di => wpc[j] = "none"
    /\ dpc \in {"idle", "stop", "broadcast", "joinManager"} => di = 0
    /\ dpc = "freed" => di = maxNUM
    /\ NobodySleeps

LEMMA DestroyInit == Init => DestroyInv
BY DEF Init, DestroyInv, NobodySleeps

LEMMA DestroyInvStep == TypeInv /\ DestroyInv /\ [Next]_vars => DestroyInv'
<1> SUFFICES ASSUME TypeInv, DestroyInv, [Next]_vars PROVE DestroyInv'
  OBVIOUS
<1> USE DEF DestroyInv, NobodySleeps
<1>0. /\ shutdown \in BOOLEAN /\ wpc \in [Slot -> WorkerPC]
      /\ ppc \in [Producer -> AdderPC] /\ di \in 0 .. maxNUM
  BY DEF TypeInv, TypeOK
<1>1. ASSUME NEW i \in Slot, WorkerEnter(i) \/ WorkerResume(i) PROVE DestroyInv'
  <2>1. CASE shutdown
    BY <1>0, <1>1, <2>1 DEF WorkerEnter, WorkerResume, TakeOrWait, TakeFront
  <2>2. CASE ~shutdown
    BY <1>0, <1>1, <2>2 DEF WorkerEnter, WorkerResume
  <2> QED
    BY <2>1, <2>2
<1>2. ASSUME NEW i \in Slot, WorkerRetire(i) \/ WorkerExit(i) \/ WorkerRun(i)
                     \/ WorkerSpurious(i) \/ WorkerBusy(i) \/ WorkerIdle(i)
      PROVE  DestroyInv'
  BY <1>0, <1>2 DEF WorkerRetire, WorkerExit, WorkerRun, WorkerSpurious,
                    WorkerBusy, WorkerIdle
<1>3. CASE ManagerStep
  <2>1. mpc # "done" /\ UNCHANGED <<shutdown, dpc, ppc, di>>
    BY <1>3 DEF ManagerStep, ManagerTop, ManagerSample, ManagerSampleBusy,
                ManagerGrow, ManagerShrink, ManagerSignal
  <2>2. wpc' = wpc \/ Signal(wpc, wpc') \/ ManagerGrow
    BY <1>3 DEF ManagerStep, ManagerTop, ManagerSample, ManagerSampleBusy,
                ManagerShrink, ManagerSignal
  <2>3. \A j \in Slot : wpc[j] # "wait" => wpc'[j] # "wait"
    BY <1>0, <2>2, SignalWorkers DEF ManagerGrow, NewSlot, FreeSlot
  <2> QED
    BY <1>0, <2>1, <2>3
<1>4. ASSUME NEW p \in Producer, AddStep(p) \/ AddSpurious(p) PROVE DestroyInv'
  <2>1. UNCHANGED <<shutdown, dpc, mpc, di>>
        /\ (wpc' = wpc \/ (~shutdown /\ Signal(wpc, wpc')))
    BY <1>4 DEF AddStep, AddWait, AddRefused, AddEnqueue, Enqueue, AddSpurious
  <2>2. /\ ~JoinProducersFirst \/ ~shutdown
        /\ shutdown => \A q \in Producer : ppc[q] # "wait" => ppc'[q] # "wait"
    BY <1>0, <1>4 DEF AddStep, AddWait, AddRefused, AddEnqueue, Enqueue, AddSpurious
  <2> QED
    BY <1>0, <2>1, <2>2
<1>5. ASSUME NEW p \in Producer, NEW t \in Task, AddCall(p, t) PROVE DestroyInv'
  BY <1>0, <1>5 DEF AddCall
<1>6. CASE StopProducers \/ DestroyBegin
  BY <1>0, <1>6 DEF StopProducers, DestroyBegin
<1>7. CASE DestroyBroadcast
  BY <1>0, <1>7 DEF DestroyBroadcast, Broadcast
<1>8. CASE DestroyCheck
  BY <1>0, <1>8, PoolAssumption DEF DestroyCheck, Slot
<1>9. CASE DestroyJoinManager \/ DestroyJoin \/ DestroyJoined
  <2>1. CASE DestroyJoined
    BY <1>0, <2>1, PoolAssumption DEF DestroyJoined, Slot
  <2>2. CASE DestroyJoinManager
    BY <1>0, <2>2, PoolAssumption DEF DestroyJoinManager, Slot
  <2>3. CASE DestroyJoin
    BY <1>0, <2>3 DEF DestroyJoin
  <2> QED
    BY <1>9, <2>1, <2>2, <2>3
<1>10. CASE UNCHANGED vars
  BY <1>10 DEF vars
<1> QED
  BY <1>1, <1>2, <1>3, <1>4, <1>5, <1>6, <1>7, <1>8, <1>9, <1>10
     DEF Next, WorkerStep, DestroyStep

\* No thread is asleep once the destroyer has broadcast.
THEOREM NobodySleepsCorrect == Spec => []NobodySleeps
<1>1. DestroyInv => NobodySleeps
  BY DEF DestroyInv
<1> QED
  BY TypeInit, TypeStep, DestroyInit, DestroyInvStep, <1>1, PTL DEF Spec

\* Nothing is left that could touch the pool when it is freed.
THEOREM FreedUnusedCorrect == Spec => []FreedUnused
<1>1. TypeInv /\ DestroyInv => FreedUnused
  BY DEF TypeInv, TypeOK, DestroyInv, FreedUnused, Slot
<1> QED
  BY TypeInit, TypeStep, DestroyInit, DestroyInvStep, <1>1, PTL DEF Spec

-----------------------------------------------------------------------------
(* The ring and the owners of the tasks.                                   *)

\* The cells from queueFront on, for as many as the ring has.
LEMMA CellOfIs ==
    ASSUME TypeInv
    PROVE  /\ CellOf(0) = queueFront
           /\ \A k \in 0 .. queueCapacity :
                 /\ CellOf(k) \in Cell
                 /\ CellOf(k) = IF queueFront + k < queueCapacity
                                THEN queueFront + k
                                ELSE queueFront + k - queueCapacity
<1>1. queueFront \in 0 .. queueCapacity - 1 /\ queueCapacity \in Nat \ {0}
  BY PoolAssumption DEF TypeInv, TypeOK, Cell
<1>2. \A k \in 0 .. queueCapacity :
          /\ CellOf(k) \in Cell
          /\ CellOf(k) = IF queueFront + k < queueCapacity
                         THEN queueFront + k
                         ELSE queueFront + k - queueCapacity
  BY <1>1, RingIndex DEF CellOf, Cell
<1> QED
  BY <1>1, <1>2

LEMMA CellOfInjective ==
    ASSUME TypeInv, NEW j \in 0 .. queueCapacity - 1,
           NEW k \in 0 .. queueCapacity - 1, CellOf(j) = CellOf(k)
    PROVE  j = k
<1>1. queueFront \in 0 .. queueCapacity - 1 /\ queueCapacity \in Nat \ {0}
  BY PoolAssumption DEF TypeInv, TypeOK, Cell
<1> QED
  BY <1>1, CellOfIs

\* Stepping an index by one is stepping along the ring by one.
LEMMA CellOfNext ==
    ASSUME TypeInv, NEW k \in 0 .. queueCapacity - 1
    PROVE  /\ (CellOf(k) + 1) % queueCapacity = CellOf(k + 1)
           /\ (CellOf(1) + k) % queueCapacity = CellOf(k + 1)
<1>1. queueFront \in 0 .. queueCapacity - 1 /\ queueCapacity \in Nat \ {0}
  BY PoolAssumption DEF TypeInv, TypeOK, Cell
<1>2. /\ CellOf(k) \in 0 .. queueCapacity - 1
      /\ CellOf(k) = IF queueFront + k < queueCapacity
                     THEN queueFront + k ELSE queueFront + k - queueCapacity
  BY <1>1, CellOfIs DEF Cell
<1>3. /\ CellOf(k + 1) \in 0 .. queueCapacity - 1
      /\ CellOf(k + 1) = IF queueFront + (k + 1) < queueCapacity
                         THEN queueFront + (k + 1)
                         ELSE queueFront + (k + 1) - queueCapacity
  BY <1>1, CellOfIs DEF Cell
<1>4. /\ CellOf(1) \in 0 .. queueCapacity - 1
      /\ CellOf(1) = IF queueFront + 1 < queueCapacity
                     THEN queueFront + 1 ELSE queueFront + 1 - queueCapacity
  BY <1>1, CellOfIs DEF Cell
<1>5. (CellOf(k) + 1) % queueCapacity = CellOf(k + 1)
  <2>1. (CellOf(k) + 1) % queueCapacity =
            IF CellOf(k) + 1 < queueCapacity
            THEN CellOf(k) + 1 ELSE CellOf(k) + 1 - queueCapacity
    BY <1>1, <1>2
  <2> QED
    BY <1>1, <1>2, <1>3, <2>1
<1>6. (CellOf(1) + k) % queueCapacity = CellOf(k + 1)
  <2>1. (CellOf(1) + k) % queueCapacity =
            IF CellOf(1) + k < queueCapacity
            THEN CellOf(1) + k ELSE CellOf(1) + k - queueCapacity
    BY <1>1, <1>4
  <2> QED
    BY <1>1, <1>3, <1>4, <2>1
<1> QED
  BY <1>5, <1>6

\* What threadPoolAdd does to the ring.
LEMMA EnqueueRing ==
    ASSUME TypeInv, queueRear = CellOf(queueSize), NEW p \in Producer, AddEnqueue(p)
    PROVE  /\ queueSize \in 0 .. queueCapacity - 1 /\ queueSize' = queueSize + 1
           /\ \A k \in Int : CellOf(k)' = CellOf(k)
           /\ \A k \in 0 .. queueSize - 1 : taskqueue'[CellOf(k)] = taskqueue[CellOf(k)]
           /\ taskqueue'[CellOf(queueSize)] = ptask[p]
           /\ queueRear' = CellOf(queueSize + 1)
<1>1. /\ queueSize \in 0 .. queueCapacity - 1 /\ queueSize' = queueSize + 1
      /\ taskqueue \in [Cell -> Task \cup {NoTask}]
      /\ taskqueue' = [taskqueue EXCEPT ![queueRear] = ptask[p]]
      /\ queueRear' = (queueRear + 1) % queueCapacity
      /\ queueFront' = queueFront
  BY PoolAssumption DEF TypeInv, TypeOK, AddEnqueue, Enqueue
<1>2. \A k \in Int : CellOf(k)' = CellOf(k)
  BY <1>1 DEF CellOf
<1>3. \A k \in 0 .. queueSize : CellOf(k) \in Cell
  BY <1>1, CellOfIs, PoolAssumption
<1>4. \A k \in 0 .. queueSize - 1 : CellOf(k) # CellOf(queueSize)
  BY <1>1, CellOfInjective, PoolAssumption
<1>5. queueRear' = CellOf(queueSize + 1)
  BY <1>1, CellOfNext
<1> QED
  BY <1>1, <1>2, <1>3, <1>4, <1>5, PoolAssumption

\* What a worker that takes a task does to the ring.
LEMMA TakeRing ==
    ASSUME TypeInv, queueFront' = (queueFront + 1) % queueCapacity
    PROVE  \A k \in 0 .. queueCapacity - 1 : CellOf(k)' = CellOf(k + 1)
<1>1. queueFront' = CellOf(1)
  BY DEF CellOf
<1> QED
  BY <1>1, CellOfNext DEF CellOf

\* A step that leaves the ring, the owners and the arguments alone.
LEMMA OwnerSame ==
    ASSUME OneOwner, UNCHANGED <<taskqueue, queueFront, queueRear, queueSize,
                                 wtask, ptask, arg>>,
           Holding' = Holding, Adding' = Adding
    PROVE  OneOwner'
BY DEF OneOwner, OwnerOK, CellOf

LEMMA OwnerInit == Init => OneOwner
<1> SUFFICES ASSUME Init PROVE OneOwner
  OBVIOUS
<1>1. queueRear = CellOf(queueSize)
  BY CellOfIs, TypeInit DEF Init
<1> QED
  BY <1>1 DEF Init, OneOwner, OwnerOK, Holding, Adding

\* A worker that takes the front task takes it over from the ring.
LEMMA OwnerTake ==
    ASSUME TypeInv, OneOwner, NEW i \in Slot, wpc[i] \in {"lock", "woken"},
           TakeOrWait(i), ptask' = ptask
    PROVE  OneOwner'
<1>0. /\ wpc \in [Slot -> WorkerPC] /\ wtask \in [Slot -> Task \cup {NoTask}]
      /\ ppc \in [Producer -> AdderPC]
      /\ queueSize \in 0 .. queueCapacity /\ shutdown \in BOOLEAN
      /\ arg \in [Task -> {"free", "passed", "queued", "held", "leaked"}]
  BY DEF TypeInv, TypeOK
<1>1. CASE shutdown \/ queueSize = 0
  <2>1. \/ wpc' = [wpc EXCEPT ![i] = "wait"]
        \/ wpc' = [wpc EXCEPT ![i] = "exit"]
    BY <1>0, <1>1 DEF TakeOrWait, TakeFront
  <2>2. Holding' = Holding
    BY <1>0, <2>1 DEF Holding
  <2>3. UNCHANGED <<taskqueue, queueFront, queueRear, queueSize, wtask, ppc, arg>>
    BY <1>0, <1>1 DEF TakeOrWait, TakeFront
  <2>4. Adding' = Adding
    BY <2>3 DEF Adding
  <2> QED
    BY <2>2, <2>3, <2>4, OwnerSame
<1>2. CASE ~shutdown /\ queueSize > 0
  <2> DEFINE t == taskqueue[queueFront]
  <2>1. /\ wpc' = [wpc EXCEPT ![i] = "got"]
        /\ wtask' = [wtask EXCEPT ![i] = t]
        /\ arg' = [arg EXCEPT ![t] = "held"]
        /\ queueFront' = (queueFront + 1) % queueCapacity
        /\ queueSize' = queueSize - 1
        /\ Signal(ppc, ppc')
        /\ UNCHANGED <<taskqueue, queueRear>>
    BY <1>2 DEF TakeOrWait, TakeFront
  <2>2. t = taskqueue[CellOf(0)] /\ 0 \in 0 .. queueSize - 1
    BY <1>0, <1>2, CellOfIs
  <2>3. t \in Task /\ arg[t] = "queued"
    BY <2>2 DEF OneOwner, OwnerOK
  <2>4. \A k \in 0 .. queueCapacity - 1 : CellOf(k)' = CellOf(k + 1)
    BY <2>1, TakeRing
  <2>5. Holding' = Holding \cup {i} /\ i \notin Holding
    BY <1>0, <2>1 DEF Holding
  <2>6. Adding' = Adding
    BY <1>0, <2>1, SignalAdders DEF Adding
  <2>7. (queueRear = CellOf(queueSize))'
    <3>1. PICK k \in 0 .. queueCapacity - 1 : k = queueSize - 1
      BY <1>0, <1>2, PoolAssumption
    <3>2. CellOf(k)' = CellOf(k + 1) /\ k + 1 = queueSize
      BY <1>0, <2>4, <3>1
    <3>3. CellOf(queueSize)' = CellOf(k)'
      BY <2>1, <3>1 DEF CellOf
    <3> QED
      BY <2>1, <3>2, <3>3 DEF OneOwner, OwnerOK
  <2>8. \A k \in 0 .. queueSize' - 1 :
            /\ k \in 0 .. queueCapacity - 1 /\ k + 1 \in 0 .. queueSize - 1
            /\ k + 1 # 0
            /\ taskqueue'[CellOf(k)'] = taskqueue[CellOf(k + 1)]
    <3> TAKE k \in 0 .. queueSize' - 1
    <3>1. /\ k \in 0 .. queueCapacity - 1 /\ k + 1 \in 0 .. queueSize - 1
          /\ k + 1 # 0
      BY <1>0, <1>2, <2>1, PoolAssumption
    <3>2. taskqueue'[CellOf(k)'] = taskqueue[CellOf(k + 1)]
      BY <2>1, <2>4, <3>1
    <3> QED
      BY <3>1, <3>2
  <2>9. \A k \in 0 .. queueSize' - 1 :
            /\ taskqueue[CellOf(k + 1)] \in Task
            /\ taskqueue[CellOf(k + 1)] # t
            /\ arg[taskqueue[CellOf(k + 1)]] = "queued"
    BY <2>2, <2>8 DEF OneOwner, OwnerOK
  <2>10. (\A k \in 0 .. queueSize - 1 :
            taskqueue[CellOf(k)] \in Task /\ arg[taskqueue[CellOf(k)]] = "queued")'
    BY <1>0, <2>1, <2>8, <2>9
  <2>11. (\A j, k \in 0 .. queueSize - 1 :
            taskqueue[CellOf(j)] = taskqueue[CellOf(k)] => j = k)'
    <3>1. \A j, k \in 0 .. queueSize - 1 :
            taskqueue[CellOf(j)] = taskqueue[CellOf(k)] => j = k
      BY DEF OneOwner
    <3>2. SUFFICES ASSUME NEW j \in 0 .. queueSize' - 1, NEW k \in 0 .. queueSize' - 1,
                          taskqueue'[CellOf(j)'] = taskqueue'[CellOf(k)']
                   PROVE  j = k
      OBVIOUS
    <3>3. j + 1 = k + 1
      BY <2>8, <3>1, <3>2
    <3> QED
      BY <1>0, <2>1, <3>3
  <2>12. (\A j \in Holding : wtask[j] \in Task /\ arg[wtask[j]] = "held")'
         /\ \A j \in Holding : wtask[j] # t
    BY <1>0, <2>1, <2>3, <2>5 DEF OneOwner, OwnerOK, Holding
  <2>13. (\A j, k \in Holding : wtask[j] = wtask[k] => j = k)'
    BY <1>0, <2>1, <2>5, <2>12 DEF OneOwner, Holding
  <2>14. (\A p \in Adding : ptask[p] \in Task /\ arg[ptask[p]] = "passed")'
         /\ (\A p, q \in Adding : ptask[p] = ptask[q] => p = q)'
    BY <1>0, <2>1, <2>3, <2>6 DEF OneOwner, OwnerOK
  <2> QED
    BY <2>7, <2>10, <2>11, <2>12, <2>13, <2>14 DEF OneOwner, OwnerOK
<1> QED
  BY <1>0, <1>1, <1>2

\* A producer that enqueues hands its argument over to the ring.
LEMMA OwnerEnqueue ==
    ASSUME TypeInv, OneOwner, NEW p \in Producer, AddEnqueue(p)
    PROVE  OneOwner'
<1> DEFINE t == ptask[p]
<1>0. /\ wpc \in [Slot -> WorkerPC] /\ ppc \in [Producer -> AdderPC]
      /\ ptask \in [Producer -> Task \cup {NoTask}]
      /\ arg \in [Task -> {"free", "passed", "queued", "held", "leaked"}]
  BY DEF TypeInv, TypeOK
<1>1. /\ queueSize \in 0 .. queueCapacity - 1 /\ queueSize' = queueSize + 1
      /\ \A k \in Int : CellOf(k)' = CellOf(k)
      /\ \A k \in 0 .. queueSize - 1 : taskqueue'[CellOf(k)] = taskqueue[CellOf(k)]
      /\ taskqueue'[CellOf(queueSize)] = t
      /\ queueRear' = CellOf(queueSize + 1)
  BY EnqueueRing DEF OneOwner, OwnerOK
<1>2. /\ ppc' = [ppc EXCEPT ![p] = "idle"] /\ ptask' = [ptask EXCEPT ![p] = NoTask]
      /\ arg' = [arg EXCEPT ![t] = "queued"]
      /\ wtask' = wtask /\ Signal(wpc, wpc') /\ queueFront' = queueFront
      /\ ppc[p] \in {"enter", "woken"}
  BY DEF AddEnqueue, Enqueue
<1>3. Holding' = Holding
  BY <1>0, <1>2, SignalWorkers DEF Holding
<1>4. Adding' = Adding \ {p} /\ p \in Adding
  BY <1>0, <1>2 DEF Adding
<1>5. t \in Task /\ arg[t] = "passed"
  BY <1>4 DEF OneOwner, OwnerOK
<1>6. (queueRear = CellOf(queueSize))'
  BY <1>1, <1>2 DEF CellOf
<1>7. \A k \in 0 .. queueSize - 1 :
          /\ taskqueue[CellOf(k)] \in Task /\ taskqueue[CellOf(k)] # t
          /\ arg[taskqueue[CellOf(k)]] = "queued"
  BY <1>5 DEF OneOwner, OwnerOK
<1>8. \A k \in 0 .. queueSize' - 1 :
          /\ k \in 0 .. queueSize - 1 \/ k = queueSize
          /\ CellOf(k)' = CellOf(k)
  BY <1>1
<1>9. (\A k \in 0 .. queueSize - 1 :
          taskqueue[CellOf(k)] \in Task /\ arg[taskqueue[CellOf(k)]] = "queued")'
  BY <1>0, <1>1, <1>2, <1>5, <1>7, <1>8
<1>10. (\A j, k \in 0 .. queueSize - 1 :
          taskqueue[CellOf(j)] = taskqueue[CellOf(k)] => j = k)'
  <2>1. \A j, k \in 0 .. queueSize - 1 :
            taskqueue[CellOf(j)] = taskqueue[CellOf(k)] => j = k
    BY DEF OneOwner
  <2> QED
    BY <1>1, <1>7, <1>8, <2>1
<1>11. (\A j \in Holding : wtask[j] \in Task /\ arg[wtask[j]] = "held")'
       /\ (\A j, k \in Holding : wtask[j] = wtask[k] => j = k)'
  BY <1>0, <1>2, <1>3, <1>5 DEF OneOwner, OwnerOK
<1>12. (\A q \in Adding : ptask[q] \in Task /\ arg[ptask[q]] = "passed")'
       /\ (\A q, r \in Adding : ptask[q] = ptask[r] => q = r)'
  BY <1>0, <1>2, <1>4, <1>5 DEF OneOwner, OwnerOK, Adding
<1> QED
  BY <1>6, <1>9, <1>10, <1>11, <1>12 DEF OneOwner, OwnerOK

LEMMA OwnerStep == TypeInv /\ OneOwner /\ [Next]_vars => OneOwner'
<1> SUFFICES ASSUME TypeInv, OneOwner, [Next]_vars PROVE OneOwner'
  OBVIOUS
<1>0. /\ wpc \in [Slot -> WorkerPC] /\ ppc \in [Producer -> AdderPC]
      /\ wtask \in [Slot -> Task \cup {NoTask}]
      /\ ptask \in [Producer -> Task \cup {NoTask}]
      /\ arg \in [Task -> {"free", "passed", "queued", "held", "leaked"}]
  BY DEF TypeInv, TypeOK
<1>1. ASSUME NEW i \in Slot, WorkerEnter(i) \/ WorkerResume(i) PROVE OneOwner'
  BY <1>1, OwnerTake DEF WorkerEnter, WorkerResume
<1>2. ASSUME NEW i \in Slot, WorkerRetire(i) \/ WorkerExit(i) \/ WorkerBusy(i)
                             \/ WorkerIdle(i) \/ WorkerSpurious(i)
      PROVE  OneOwner'
  <2>1. Holding' = Holding
    BY <1>0, <1>2 DEF WorkerRetire, WorkerExit, WorkerBusy, WorkerIdle,
                      WorkerSpurious, Holding
  <2>2. UNCHANGED <<ring, wtask, ppc, ptask, arg>>
    BY <1>2 DEF WorkerRetire, WorkerExit, WorkerBusy, WorkerIdle, WorkerSpurious
  <2> QED
    BY <2>1, <2>2, OwnerSame DEF Adding
<1>3. ASSUME NEW i \in Slot, WorkerRun(i) PROVE OneOwner'
  <2>1. Holding' = Holding \ {i} /\ i \in Holding
    BY <1>0, <1>3 DEF WorkerRun, Holding
  <2>2. wtask[i] \in Task /\ arg[wtask[i]] = "held"
    BY <2>1 DEF OneOwner, OwnerOK
  <2>3. /\ wtask' = [wtask EXCEPT ![i] = NoTask]
        /\ arg' = [arg EXCEPT ![wtask[i]] = "free"]
        /\ UNCHANGED <<ring, ppc, ptask>>
    BY <1>3 DEF WorkerRun
  <2>4. Adding' = Adding
    BY <2>3 DEF Adding
  <2>5. (\A j \in Holding : wtask[j] \in Task /\ arg[wtask[j]] = "held")'
        /\ (\A j, k \in Holding : wtask[j] = wtask[k] => j = k)'
    BY <1>0, <2>1, <2>2, <2>3 DEF OneOwner, OwnerOK, Holding
  <2>6. (\A p \in Adding : ptask[p] \in Task /\ arg[ptask[p]] = "passed")'
        /\ (\A p, q \in Adding : ptask[p] = ptask[q] => p = q)'
    BY <1>0, <2>2, <2>3, <2>4 DEF OneOwner, OwnerOK
  <2>7. /\ (queueRear = CellOf(queueSize))'
        /\ (\A k \in 0 .. queueSize - 1 : taskqueue[CellOf(k)] \in Task
                                         /\ arg[taskqueue[CellOf(k)]] = "queued")'
        /\ (\A j, k \in 0 .. queueSize - 1 :
               taskqueue[CellOf(j)] = taskqueue[CellOf(k)] => j = k)'
    BY <1>0, <2>2, <2>3 DEF OneOwner, OwnerOK, CellOf
  <2> QED
    BY <2>5, <2>6, <2>7 DEF OneOwner, OwnerOK
<1>4. CASE ManagerStep
  <2>1. UNCHANGED <<ring, wtask, ppc, ptask, arg>>
    BY <1>4 DEF ManagerStep, ManagerTop, ManagerSample, ManagerSampleBusy,
                ManagerGrow, ManagerShrink, ManagerSignal
  <2>2. wpc' = wpc \/ Signal(wpc, wpc') \/ ManagerGrow
    BY <1>4 DEF ManagerStep, ManagerTop, ManagerSample, ManagerSampleBusy,
                ManagerShrink, ManagerSignal
  <2>3. Holding' = Holding
    BY <1>0, <2>2, SignalWorkers DEF ManagerGrow, NewSlot, FreeSlot, Holding
  <2> QED
    BY <2>1, <2>3, OwnerSame DEF Adding
<1>5. ASSUME NEW p \in Producer, AddWait(p) \/ AddSpurious(p) PROVE OneOwner'
  <2>1. Adding' = Adding /\ UNCHANGED <<ring, wpc, wtask, ptask, arg>>
    BY <1>0, <1>5 DEF AddWait, AddSpurious, Adding
  <2> QED
    BY <2>1, OwnerSame DEF Holding
<1>6. ASSUME NEW p \in Producer, AddRefused(p) PROVE OneOwner'
  <2>1. Adding' = Adding \ {p} /\ p \in Adding
    BY <1>0, <1>6 DEF AddRefused, Adding
  <2>2. ptask[p] \in Task /\ arg[ptask[p]] = "passed"
    BY <2>1 DEF OneOwner, OwnerOK
  <2>3. /\ ptask' = [ptask EXCEPT ![p] = NoTask]
        /\ arg' = [arg EXCEPT ![ptask[p]] = "leaked"]
        /\ UNCHANGED <<ring, wpc, wtask>>
    BY <1>6 DEF AddRefused
  <2>4. Holding' = Holding
    BY <2>3 DEF Holding
  <2>5. (\A q \in Adding : ptask[q] \in Task /\ arg[ptask[q]] = "passed")'
        /\ (\A q, r \in Adding : ptask[q] = ptask[r] => q = r)'
    BY <1>0, <2>1, <2>2, <2>3 DEF OneOwner, OwnerOK, Adding
  <2>6. /\ (\A j \in Holding : wtask[j] \in Task /\ arg[wtask[j]] = "held")'
        /\ (\A j, k \in Holding : wtask[j] = wtask[k] => j = k)'
    BY <1>0, <2>2, <2>3, <2>4 DEF OneOwner, OwnerOK
  <2>7. /\ (queueRear = CellOf(queueSize))'
        /\ (\A k \in 0 .. queueSize - 1 : taskqueue[CellOf(k)] \in Task
                                         /\ arg[taskqueue[CellOf(k)]] = "queued")'
        /\ (\A j, k \in 0 .. queueSize - 1 :
               taskqueue[CellOf(j)] = taskqueue[CellOf(k)] => j = k)'
    BY <1>0, <2>2, <2>3 DEF OneOwner, OwnerOK, CellOf
  <2> QED
    BY <2>5, <2>6, <2>7 DEF OneOwner, OwnerOK
<1>7. ASSUME NEW p \in Producer, AddEnqueue(p) PROVE OneOwner'
  BY <1>7, OwnerEnqueue
<1>8. ASSUME NEW p \in Producer, NEW t \in Task, AddCall(p, t) PROVE OneOwner'
  <2>1. Adding' = Adding \cup {p} /\ p \notin Adding
    BY <1>0, <1>8 DEF AddCall, Adding
  <2>2. /\ ptask' = [ptask EXCEPT ![p] = t] /\ arg[t] = "free"
        /\ arg' = [arg EXCEPT ![t] = "passed"]
        /\ UNCHANGED <<ring, wpc, wtask>>
    BY <1>8 DEF AddCall
  <2>3. Holding' = Holding
    BY <2>2 DEF Holding
  <2>4. (\A q \in Adding : ptask[q] \in Task /\ arg[ptask[q]] = "passed")'
        /\ (\A q, r \in Adding : ptask[q] = ptask[r] => q = r)'
    BY <1>0, <2>1, <2>2 DEF OneOwner, OwnerOK, Adding
  <2>5. /\ (\A j \in Holding : wtask[j] \in Task /\ arg[wtask[j]] = "held")'
        /\ (\A j, k \in Holding : wtask[j] = wtask[k] => j = k)'
    BY <1>0, <2>2, <2>3 DEF OneOwner, OwnerOK
  <2>6. /\ (queueRear = CellOf(queueSize))'
        /\ (\A k \in 0 .. queueSize - 1 : taskqueue[CellOf(k)] \in Task
                                         /\ arg[taskqueue[CellOf(k)]] = "queued")'
        /\ (\A j, k \in 0 .. queueSize - 1 :
               taskqueue[CellOf(j)] = taskqueue[CellOf(k)] => j = k)'
    BY <1>0, <2>2 DEF OneOwner, OwnerOK, CellOf
  <2> QED
    BY <2>4, <2>5, <2>6 DEF OneOwner, OwnerOK
<1>9. CASE StopProducers \/ DestroyBegin \/ DestroyStep
  <2>1. /\ UNCHANGED <<ring, wtask, ptask, arg>>
        /\ wpc' = wpc \/ wpc' = Broadcast(wpc)
        /\ ppc' = ppc \/ ppc' = Broadcast(ppc)
    BY <1>9 DEF StopProducers, DestroyBegin, DestroyStep, DestroyBroadcast, DestroyJoinManager,
                DestroyCheck, DestroyJoin, DestroyJoined
  <2>2. Holding' = Holding /\ Adding' = Adding
    BY <1>0, <2>1 DEF Holding, Adding, Broadcast
  <2> QED
    BY <2>1, <2>2, OwnerSame
<1>10. CASE UNCHANGED vars
  BY <1>10, OwnerSame DEF vars, Holding, Adding
<1> QED
  BY <1>1, <1>2, <1>3, <1>4, <1>5, <1>6, <1>7, <1>8, <1>9, <1>10
     DEF Next, WorkerStep, AddStep

\* A task is in one cell of the ring or with one worker, and never in two places.
THEOREM OneOwnerCorrect == Spec => []OneOwner
BY TypeInit, TypeStep, OwnerInit, OwnerStep, PTL DEF Spec

-----------------------------------------------------------------------------
(* The pool implements the queue of TaskQueue.                             *)

Running == {wtask[i] : i \in Holding}

\* The queued tasks, as the sequence TaskQueue sees.
LEMMA PendingIs ==
    ASSUME TypeInv, OneOwner
    PROVE  /\ Pending \in Seq(Task) /\ Len(Pending) = queueSize
           /\ queueSize \in Nat
           /\ \A k \in 1 .. queueSize : Pending[k] = taskqueue[CellOf(k - 1)]
<1>1. queueSize \in Nat
  BY PoolAssumption DEF TypeInv, TypeOK
<1>2. \A k \in 1 .. queueSize : k - 1 \in 0 .. queueSize - 1
  BY <1>1
<1>3. \A k \in 1 .. queueSize : taskqueue[CellOf(k - 1)] \in Task
  BY <1>2 DEF OneOwner, OwnerOK
<1>4. Pending \in [1 .. queueSize -> Task]
  BY <1>3 DEF Pending
<1>5. Pending \in Seq(Task) /\ Len(Pending) = queueSize
  BY <1>1, <1>4
<1> QED
  BY <1>1, <1>5 DEF Pending

\* A step that leaves the ring and the running tasks alone is a stutter.
LEMMA QueueStutter ==
    ASSUME UNCHANGED <<taskqueue, queueFront, queueSize, shutdown, wtask>>,
           Holding' = Holding
    PROVE  UNCHANGED Queue!vars
<1>1. Pending' = Pending
  BY DEF Pending, CellOf
<1> QED
  BY <1>1 DEF Queue!vars

LEMMA QueueTake ==
    ASSUME TypeInv, OneOwner, NEW i \in Slot, wpc[i] \in {"lock", "woken"},
           TakeOrWait(i), shutdown' = shutdown
    PROVE  [Queue!Next]_(Queue!vars)
<1>0. /\ wpc \in [Slot -> WorkerPC] /\ wtask \in [Slot -> Task \cup {NoTask}]
      /\ queueSize \in 0 .. queueCapacity /\ shutdown \in BOOLEAN
  BY DEF TypeInv, TypeOK
<1>1. CASE shutdown \/ queueSize = 0
  <2>1. Holding' = Holding
    BY <1>0, <1>1 DEF TakeOrWait, TakeFront, Holding
  <2>2. UNCHANGED <<taskqueue, queueFront, queueSize, wtask>>
    BY <1>0, <1>1 DEF TakeOrWait, TakeFront
  <2> QED
    BY <2>1, <2>2, QueueStutter
<1>2. CASE ~shutdown /\ queueSize > 0
  <2>1. /\ wpc' = [wpc EXCEPT ![i] = "got"]
        /\ wtask' = [wtask EXCEPT ![i] = taskqueue[queueFront]]
        /\ queueFront' = (queueFront + 1) % queueCapacity
        /\ queueSize' = queueSize - 1
        /\ taskqueue' = taskqueue
    BY <1>2 DEF TakeOrWait, TakeFront
  <2>2. \A k \in 0 .. queueCapacity - 1 : CellOf(k)' = CellOf(k + 1)
    BY <2>1, TakeRing
  <2>3. /\ Pending \in Seq(Task) /\ Len(Pending) = queueSize
        /\ \A k \in 1 .. queueSize : Pending[k] = taskqueue[CellOf(k - 1)]
    BY PendingIs
  <2>4. \A k \in 1 .. queueSize - 1 :
            /\ k - 1 \in 0 .. queueCapacity - 1
            /\ k + 1 \in 1 .. queueSize
            /\ k - 1 + 1 = k /\ k + 1 - 1 = k
    BY <1>0, PoolAssumption
  <2>5. \A k \in 1 .. queueSize - 1 :
            taskqueue'[CellOf(k - 1)'] = Pending[k + 1]
    BY <2>1, <2>2, <2>3, <2>4
  <2>6. Pending' = [k \in 1 .. queueSize - 1 |-> Pending[k + 1]]
    BY <2>1, <2>5 DEF Pending
  <2>7. Pending' = Tail(Pending) /\ Pending # << >>
    <3>1. Pending # << >>
      BY <1>2, <2>3
    <3>2. /\ Tail(Pending) \in Seq(Task) /\ Len(Tail(Pending)) = queueSize - 1
          /\ \A k \in 1 .. queueSize - 1 : Tail(Pending)[k] = Pending[k + 1]
      BY <2>3, <3>1, HeadTailProperties
    <3>3. Tail(Pending) \in [1 .. queueSize - 1 -> Task]
      BY <3>2, LenProperties
    <3> QED
      BY <2>6, <3>1, <3>2, <3>3
  <2>8. Head(Pending) = taskqueue[queueFront]
    BY <1>0, <1>2, <2>3, CellOfIs
  <2>9. Holding' = Holding \cup {i} /\ i \notin Holding
    BY <1>0, <2>1 DEF Holding
  <2>10. Running' = Running \cup {Head(Pending)}
    BY <1>0, <2>1, <2>8, <2>9 DEF Running, Holding
  <2> QED
    BY <1>2, <2>7, <2>10 DEF Queue!Next, Queue!Start, Running
<1> QED
  BY <1>0, <1>1, <1>2

LEMMA QueueAccept ==
    ASSUME TypeInv, OneOwner, NEW p \in Producer, AddEnqueue(p)
    PROVE  Queue!Accept(ptask[p]) /\ ptask[p] \in Task
<1> DEFINE t == ptask[p]
<1>0. wpc \in [Slot -> WorkerPC] /\ queueCapacity \in Nat
  BY PoolAssumption DEF TypeInv, TypeOK
<1>1. /\ queueSize \in 0 .. queueCapacity - 1 /\ queueSize' = queueSize + 1
      /\ \A k \in Int : CellOf(k)' = CellOf(k)
      /\ \A k \in 0 .. queueSize - 1 : taskqueue'[CellOf(k)] = taskqueue[CellOf(k)]
      /\ taskqueue'[CellOf(queueSize)] = t
  BY EnqueueRing DEF OneOwner, OwnerOK
<1>2. /\ ~shutdown /\ shutdown' = shutdown /\ wtask' = wtask /\ Signal(wpc, wpc')
      /\ p \in Adding
  BY DEF AddEnqueue, Enqueue, Adding
<1>3. t \in Task /\ arg[t] = "passed"
  BY <1>2 DEF OneOwner, OwnerOK
<1>4. /\ Pending \in Seq(Task) /\ Len(Pending) = queueSize
      /\ \A k \in 1 .. queueSize : Pending[k] = taskqueue[CellOf(k - 1)]
  BY PendingIs
<1>5. \A k \in 1 .. queueSize : k - 1 \in 0 .. queueSize - 1 /\ k - 1 \in Int
  BY <1>1
<1>6. \A k \in 1 .. queueSize : Pending[k] # t
  BY <1>3, <1>4, <1>5 DEF OneOwner, OwnerOK
<1>7. t \notin Running
  BY <1>3 DEF OneOwner, OwnerOK, Running
<1>8. Pending' = [k \in 1 .. queueSize + 1 |-> IF k = queueSize + 1 THEN t ELSE Pending[k]]
  <2>1. \A k \in 1 .. queueSize + 1 : k \in 1 .. queueSize \/ k = queueSize + 1
    BY <1>1
  <2>2. ASSUME NEW k \in 1 .. queueSize + 1
        PROVE  taskqueue'[CellOf(k - 1)'] =
                   IF k = queueSize + 1 THEN t ELSE Pending[k]
    <3>1. CASE k = queueSize + 1
      BY <1>1, <3>1
    <3>2. CASE k \in 1 .. queueSize
      BY <1>1, <1>4, <1>5, <3>2
    <3> QED
      BY <2>1, <3>1, <3>2
  <2> QED
    BY <1>1, <2>2 DEF Pending
<1>9. Pending' = Append(Pending, t)
  BY <1>1, <1>3, <1>4, <1>8
<1>10. Running' = Running
  BY <1>0, <1>2, SignalWorkers DEF Running, Holding
<1>11. ~shutdown /\ Len(Pending) < queueCapacity
  BY <1>0, <1>1, <1>2, <1>4
<1>12. t \notin Running /\ \A k \in 1 .. Len(Pending) : Pending[k] # t
  BY <1>4, <1>6, <1>7
<1>13. Queue!Accept(t)
  BY <1>2, <1>9, <1>10, <1>11, <1>12 DEF Queue!Accept, Running
<1> QED
  BY <1>3, <1>13

LEMMA QueueInit == Init => Queue!Init
<1> SUFFICES ASSUME Init PROVE Queue!Init
  OBVIOUS
<1>1. Pending = << >>
  BY DEF Init, Pending
<1>2. Holding = {}
  BY DEF Init, Holding
<1> QED
  BY <1>1, <1>2 DEF Init, Queue!Init

LEMMA QueueStep == TypeInv /\ OneOwner /\ [Next]_vars => [Queue!Next]_(Queue!vars)
<1> SUFFICES ASSUME TypeInv, OneOwner, [Next]_vars PROVE [Queue!Next]_(Queue!vars)
  OBVIOUS
<1>0. wpc \in [Slot -> WorkerPC] /\ wtask \in [Slot -> Task \cup {NoTask}]
  BY DEF TypeInv, TypeOK
<1>1. ASSUME NEW i \in Slot, WorkerEnter(i) \/ WorkerResume(i)
      PROVE  [Queue!Next]_(Queue!vars)
  BY <1>1, QueueTake DEF WorkerEnter, WorkerResume
<1>2. ASSUME NEW i \in Slot, WorkerRetire(i) \/ WorkerExit(i) \/ WorkerBusy(i)
                             \/ WorkerIdle(i) \/ WorkerSpurious(i)
      PROVE  [Queue!Next]_(Queue!vars)
  <2>1. Holding' = Holding
    BY <1>0, <1>2 DEF WorkerRetire, WorkerExit, WorkerBusy, WorkerIdle,
                      WorkerSpurious, Holding
  <2>2. UNCHANGED <<ring, wtask, shutdown>>
    BY <1>2 DEF WorkerRetire, WorkerExit, WorkerBusy, WorkerIdle, WorkerSpurious
  <2> QED
    BY <2>1, <2>2, QueueStutter
<1>3. ASSUME NEW i \in Slot, WorkerRun(i) PROVE [Queue!Next]_(Queue!vars)
  <2>1. Holding' = Holding \ {i} /\ i \in Holding
    BY <1>0, <1>3 DEF WorkerRun, Holding
  <2>2. wtask[i] \in Task
    BY <2>1 DEF OneOwner, OwnerOK
  <2>3. wtask' = [wtask EXCEPT ![i] = NoTask] /\ UNCHANGED <<ring, shutdown>>
    BY <1>3 DEF WorkerRun
  <2>4. \A j \in Holding : wtask[j] = wtask[i] => j = i
    BY <2>1 DEF OneOwner
  <2>5. Running' = Running \ {wtask[i]} /\ wtask[i] \in Running
    BY <1>0, <2>1, <2>3, <2>4 DEF Running, Holding
  <2>6. Pending' = Pending
    BY <2>3 DEF Pending, CellOf
  <2>7. PICK t \in Task : t = wtask[i]
    BY <2>2
  <2>8. Queue!Finish(t)
    BY <2>3, <2>5, <2>6, <2>7 DEF Queue!Finish, Running
  <2> QED
    BY <2>8 DEF Queue!Next
<1>4. CASE ManagerStep
  <2>1. UNCHANGED <<ring, wtask, shutdown>>
    BY <1>4 DEF ManagerStep, ManagerTop, ManagerSample, ManagerSampleBusy,
                ManagerGrow, ManagerShrink, ManagerSignal
  <2>2. wpc' = wpc \/ Signal(wpc, wpc') \/ ManagerGrow
    BY <1>4 DEF ManagerStep, ManagerTop, ManagerSample, ManagerSampleBusy,
                ManagerShrink, ManagerSignal
  <2>3. Holding' = Holding
    BY <1>0, <2>2, SignalWorkers DEF ManagerGrow, NewSlot, FreeSlot, Holding
  <2> QED
    BY <2>1, <2>3, QueueStutter
<1>5. ASSUME NEW p \in Producer, AddWait(p) \/ AddSpurious(p) \/ AddRefused(p)
      PROVE  [Queue!Next]_(Queue!vars)
  BY <1>5, QueueStutter DEF AddWait, AddSpurious, AddRefused, Holding
<1>6. ASSUME NEW p \in Producer, AddEnqueue(p) PROVE [Queue!Next]_(Queue!vars)
  BY <1>6, QueueAccept DEF Queue!Next
<1>7. ASSUME NEW p \in Producer, NEW t \in Task, AddCall(p, t)
      PROVE  [Queue!Next]_(Queue!vars)
  BY <1>7, QueueStutter DEF AddCall, Holding
<1>8. CASE DestroyBegin
  <2>1. Pending' = Pending /\ Running' = Running
    BY <1>8 DEF DestroyBegin, Pending, CellOf, Running, Holding
  <2>2. CASE ~shutdown
    BY <1>8, <2>1, <2>2 DEF DestroyBegin, Queue!Next, Queue!Close, Running
  <2>3. CASE shutdown
    BY <1>8, <2>1, <2>3 DEF DestroyBegin, Queue!vars, Running, TypeInv, TypeOK
  <2> QED
    BY <2>2, <2>3
<1>9. CASE StopProducers \/ DestroyStep
  <2>1. /\ UNCHANGED <<ring, wtask, shutdown>>
        /\ wpc' = wpc \/ wpc' = Broadcast(wpc)
    BY <1>9 DEF StopProducers, DestroyStep, DestroyBroadcast, DestroyJoinManager,
                DestroyCheck, DestroyJoin, DestroyJoined
  <2>2. Holding' = Holding
    BY <1>0, <2>1 DEF Holding, Broadcast
  <2> QED
    BY <2>1, <2>2, QueueStutter
<1>10. CASE UNCHANGED vars
  BY <1>10, QueueStutter DEF vars, Holding
<1> QED
  BY <1>1, <1>2, <1>3, <1>4, <1>5, <1>6, <1>7, <1>8, <1>9, <1>10
     DEF Next, WorkerStep, AddStep

\* Tasks start in the order they were added, each once, and none after the pool
\* is closed.
THEOREM ImplementsQueue == Spec => QueueSpec
BY TypeInit, TypeStep, OwnerInit, OwnerStep, QueueInit, QueueStep, PTL
   DEF Spec, QueueSpec, Queue!Spec

-----------------------------------------------------------------------------
(* No producer sleeps beside a free cell.                                  *)

LEMMA WokenFinite == IsFiniteSet(Woken) /\ Cardinality(Woken) \in Nat
<1>1. Woken \in SUBSET Producer
  BY DEF Woken
<1> QED
  BY <1>1, PoolAssumption, FS_Subset, FS_CardinalityType

LEMMA NotFullInit == Init => NoLostNotFull
BY DEF Init, NoLostNotFull

LEMMA NotFullTake ==
    ASSUME TypeInv, NoLostNotFull, NEW i \in Slot, TakeOrWait(i),
           shutdown' = shutdown
    PROVE  NoLostNotFull'
<1>0. /\ ppc \in [Producer -> AdderPC] /\ queueSize \in 0 .. queueCapacity
      /\ shutdown \in BOOLEAN
  BY DEF TypeInv, TypeOK
<1>1. CASE ppc' = ppc /\ queueSize' = queueSize
  BY <1>1 DEF NoLostNotFull, Woken
<1>2. CASE queueSize' = queueSize - 1 /\ Signal(ppc, ppc')
  <2>1. CASE \E p \in Producer : ppc[p] = "wait"
    <3>1. PICK p \in Producer : ppc[p] = "wait" /\ ppc' = [ppc EXCEPT ![p] = "woken"]
      BY <1>0, <1>2, <2>1 DEF Signal
    <3>2. Woken' = Woken \cup {p} /\ p \notin Woken
      BY <1>0, <3>1 DEF Woken
    <3>3. Cardinality(Woken') = Cardinality(Woken) + 1
      BY <3>2, WokenFinite, FS_AddElement
    <3> QED
      BY <1>0, <1>2, <2>1, <3>3, WokenFinite, PoolAssumption DEF NoLostNotFull
  <2>2. CASE ~ \E p \in Producer : ppc[p] = "wait"
    <3>1. ppc' = ppc
      BY <1>0, <1>2, <2>2 DEF Signal
    <3> QED
      BY <2>2, <3>1 DEF NoLostNotFull
  <2> QED
    BY <2>1, <2>2
<1> QED
  BY <1>0, <1>1, <1>2 DEF TakeOrWait, TakeFront

LEMMA NotFullStep ==
    TypeInv /\ DestroyInv /\ NoLostNotFull /\ [Next]_vars => NoLostNotFull'
<1> SUFFICES ASSUME TypeInv, DestroyInv, NoLostNotFull, [Next]_vars
             PROVE  NoLostNotFull'
  OBVIOUS
<1>0. /\ ppc \in [Producer -> AdderPC] /\ queueSize \in 0 .. queueCapacity
      /\ shutdown \in BOOLEAN /\ queueCapacity \in Nat
  BY PoolAssumption DEF TypeInv, TypeOK
<1>a. ASSUME UNCHANGED <<queueSize, ppc, shutdown>> PROVE NoLostNotFull'
  BY <1>a DEF NoLostNotFull, Woken
<1>1. ASSUME NEW i \in Slot, WorkerEnter(i) \/ WorkerResume(i) PROVE NoLostNotFull'
  BY <1>1, NotFullTake DEF WorkerEnter, WorkerResume
<1>2. ASSUME NEW i \in Slot, WorkerRetire(i) \/ WorkerExit(i) \/ WorkerRun(i)
                     \/ WorkerSpurious(i) \/ WorkerBusy(i) \/ WorkerIdle(i)
      PROVE  NoLostNotFull'
  BY <1>2, <1>a DEF WorkerRetire, WorkerExit, WorkerRun, WorkerSpurious,
                    WorkerBusy, WorkerIdle
<1>3. CASE ManagerStep
  BY <1>3, <1>a DEF ManagerStep, ManagerTop, ManagerSample, ManagerSampleBusy,
                    ManagerGrow, ManagerShrink, ManagerSignal
<1>4. ASSUME NEW p \in Producer, AddWait(p) PROVE NoLostNotFull'
  <2>1. queueSize' = queueCapacity
    BY <1>4 DEF AddWait
  <2>2. Cardinality(Woken)' \in Nat
    <3>1. Woken' \in SUBSET Producer
      BY DEF Woken
    <3> QED
      BY <3>1, PoolAssumption, FS_Subset, FS_CardinalityType
  <2> QED
    BY <1>0, <2>1, <2>2, PoolAssumption DEF NoLostNotFull
<1>5. ASSUME NEW p \in Producer, AddRefused(p) PROVE NoLostNotFull'
  BY <1>5 DEF AddRefused, NoLostNotFull
<1>6. ASSUME NEW p \in Producer, AddEnqueue(p) PROVE NoLostNotFull'
  <2>1. queueSize' = queueSize + 1 /\ shutdown' = shutdown
        /\ ppc' = [ppc EXCEPT ![p] = "idle"]
    BY <1>6 DEF AddEnqueue, Enqueue
  <2>2. Woken' = Woken \ {p}
    BY <1>0, <2>1 DEF Woken
  <2>3. Cardinality(Woken') >= Cardinality(Woken) - 1 /\ Cardinality(Woken') \in Nat
    <3>1. /\ IsFiniteSet(Woken')
          /\ Cardinality(Woken') = IF p \in Woken THEN Cardinality(Woken) - 1
                                   ELSE Cardinality(Woken)
      BY <2>2, WokenFinite, FS_RemoveElement
    <3>2. Cardinality(Woken') \in Nat
      BY <3>1, FS_CardinalityType
    <3> QED
      BY <3>1, <3>2, WokenFinite
  <2>4. (\E q \in Producer : ppc'[q] = "wait") => \E q \in Producer : ppc[q] = "wait"
    BY <1>0, <2>1
  <2> QED
    BY <1>0, <2>1, <2>3, <2>4, WokenFinite DEF NoLostNotFull
<1>7. ASSUME NEW p \in Producer, AddSpurious(p) PROVE NoLostNotFull'
  <2>1. queueSize' = queueSize /\ shutdown' = shutdown
        /\ ppc' = [ppc EXCEPT ![p] = "woken"] /\ ppc[p] = "wait"
    BY <1>7 DEF AddSpurious
  <2>2. Woken' = Woken \cup {p} /\ p \notin Woken
    BY <1>0, <2>1 DEF Woken
  <2>3. Cardinality(Woken') = Cardinality(Woken) + 1
    BY <2>2, WokenFinite, FS_AddElement
  <2> QED
    BY <1>0, <2>1, <2>3, WokenFinite DEF NoLostNotFull
<1>8. ASSUME NEW p \in Producer, NEW t \in Task, AddCall(p, t) PROVE NoLostNotFull'
  <2>1. queueSize' = queueSize /\ shutdown' = shutdown
        /\ ppc' = [ppc EXCEPT ![p] = "enter"] /\ ppc[p] = "idle"
    BY <1>8 DEF AddCall
  <2>2. Woken' = Woken
    BY <1>0, <2>1 DEF Woken
  <2>3. (\E q \in Producer : ppc'[q] = "wait") => \E q \in Producer : ppc[q] = "wait"
    BY <1>0, <2>1
  <2> QED
    BY <2>1, <2>2, <2>3 DEF NoLostNotFull
<1>9. CASE DestroyBegin \/ DestroyBroadcast
  <2>1. shutdown'
    BY <1>9 DEF DestroyBegin, DestroyBroadcast, DestroyInv
  <2> QED
    BY <2>1 DEF NoLostNotFull
<1>10. CASE StopProducers \/ DestroyJoinManager \/ DestroyCheck \/ DestroyJoin
            \/ DestroyJoined
  BY <1>10, <1>a DEF StopProducers, DestroyJoinManager, DestroyCheck, DestroyJoin, DestroyJoined
<1>11. CASE UNCHANGED vars
  BY <1>11, <1>a DEF vars
<1> QED
  BY <1>1, <1>2, <1>3, <1>4, <1>5, <1>6, <1>7, <1>8, <1>9, <1>10, <1>11
     DEF Next, WorkerStep, AddStep, DestroyStep

\* A producer only sleeps while the ring is full or being filled by one that woke.
THEOREM NoLostNotFullCorrect == Spec => []NoLostNotFull
BY TypeInit, TypeStep, DestroyInit, DestroyInvStep, NotFullInit, NotFullStep, PTL
   DEF Spec

-----------------------------------------------------------------------------
(* What the pool may rely on, whatever app/config.ini says.                *)

Conf == INSTANCE Configuration

\* No line of the file makes config_handler leave the type of Config: what it is given
\* for a key of [thread_pool] is an int, because it comes from atoi.
THEOREM HandlerTyped ==
    ASSUME NEW cfg \in Conf!Config, NEW section, NEW name, NEW value,
           section = "log" => value \in STRING, section = "thread_pool" => value \in Conf!Int32
    PROVE  Conf!config_handler(cfg, section, name, value) \in Conf!Config
<1>1. CASE section = "log" /\ name = "path"
  BY <1>1 DEF Conf!config_handler, Conf!Config
<1>2. CASE section = "log" /\ name = "json_path"
  BY <1>2 DEF Conf!config_handler, Conf!Config
<1>3. CASE section = "thread_pool" /\ name = "task_num"
  BY <1>3 DEF Conf!config_handler, Conf!Config
<1>4. CASE section = "thread_pool" /\ name = "thread_max"
  BY <1>4 DEF Conf!config_handler, Conf!Config
<1>5. CASE section = "thread_pool" /\ name = "thread_min"
  BY <1>5 DEF Conf!config_handler, Conf!Config
<1>6. CASE ~ \/ section = "log" /\ name \in {"path", "json_path"}
             \/ section = "thread_pool" /\ name \in {"task_num", "thread_max", "thread_min"}
  BY <1>6 DEF Conf!config_handler
<1> QED
  BY <1>1, <1>2, <1>3, <1>4, <1>5, <1>6

\* The parameters that gateway_server_menu passes to Thread_init are those that
\* ThreadPool's PoolAssumption asks for, and still are of type int: 0 < min < max and
\* 0 < queue, for a file that is missing, incomplete or has negative numbers.  The one
\* exception is thread_min = INT_MAX, where pool_min + 1 overflows.
THEOREM ParametersFit ==
    ASSUME NEW c \in Conf!Config, c.thread_min < Conf!INT_MAX
    PROVE  /\ Conf!pool_min(c) \in Conf!Int32 /\ Conf!pool_min(c) > 0
           /\ Conf!pool_max(c) \in Conf!Int32 /\ Conf!pool_max(c) > Conf!pool_min(c)
           /\ Conf!pool_queue(c) \in Conf!Int32 /\ Conf!pool_queue(c) > 0
<1> DEFINE max == Conf!INT_MAX
<1>1. max \in Nat /\ max > 100
  BY DEF Conf!INT_MAX
<1>2. /\ c.thread_min \in Int /\ c.thread_min <= max
      /\ c.thread_max \in Int /\ c.thread_max <= max
      /\ c.task_num \in Int /\ c.task_num <= max
      /\ Conf!Int32 = -max - 1 .. max
  BY <1>1 DEF Conf!Config, Conf!Int32
<1>3. c.thread_min < max
  OBVIOUS
<1> HIDE DEF max
<1>4. Conf!pool_min(c) \in Conf!Int32 /\ Conf!pool_min(c) > 0 /\ Conf!pool_min(c) < max
  BY <1>1, <1>2, <1>3 DEF Conf!pool_min
<1>5. Conf!pool_max(c) \in Conf!Int32 /\ Conf!pool_max(c) > Conf!pool_min(c)
  BY <1>1, <1>2, <1>4 DEF Conf!pool_max
<1>6. Conf!pool_queue(c) \in Conf!Int32 /\ Conf!pool_queue(c) > 0
  BY <1>1, <1>2 DEF Conf!pool_queue
<1> QED
  BY <1>4, <1>5, <1>6
=============================================================================

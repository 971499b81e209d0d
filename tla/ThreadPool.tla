----------------------------- MODULE ThreadPool -----------------------------
(***************************************************************************)
(* The worker pool of src/src/thread_pool.c: a bounded ring of tasks, a    *)
(* table of worker slots (threadIDs), a manager thread that grows and      *)
(* shrinks the pool, the producers that call threadPoolAdd and the one     *)
(* thread that calls threadPoolDestory.                                    *)
(*                                                                         *)
(* Granularity.  A critical section of mutexPool or of mutexBusy is one    *)
(* step: everything it touches except shutdown and threadIDs is only       *)
(* touched under that mutex, shutdown only goes from 0 to 1, and a slot    *)
(* cleared in the middle of the manager's scan can be moved before or      *)
(* after the whole scan.  What the code does outside the mutexes (setting  *)
(* shutdown, clearing a slot, the destroyer's test and re-read of a slot,  *)
(* the manager's two signals) is a step of its own.  pthread_cond_signal   *)
(* wakes an arbitrary waiter, and a waiter may wake spuriously.            *)
(***************************************************************************)
EXTENDS Integers, FiniteSets, Sequences

CONSTANTS
    minNUM,         \* workers created at start, and never fewer
    maxNUM,         \* number of slots in threadIDs
    queueCapacity,  \* number of cells of taskqueue
    Task,           \* the heap blocks passed as arg
    NoTask,         \* no block: an unset cell, a worker without a task
    Producer,       \* threads that call threadPoolAdd
    JoinProducersFirst  \* TRUE: threadPoolDestory is called when they have ended

\* gateway_server_menu never passes other values: minNUM is positive, maxNUM
\* is larger than minNUM and the queue has room (menu.c:96-98).
ASSUME PoolAssumption ==
    /\ minNUM \in Nat \ {0}
    /\ maxNUM \in Nat /\ maxNUM > minNUM
    /\ queueCapacity \in Nat \ {0}
    /\ NoTask \notin Task
    /\ IsFiniteSet(Producer)
    /\ JoinProducersFirst \in BOOLEAN

NUMBER == 2                 \* workers added or asked to exit at a time
Slot   == 0 .. maxNUM - 1   \* indices of threadIDs
Cell   == 0 .. queueCapacity - 1

VARIABLES
    taskqueue, queueFront, queueRear, queueSize,   \* the ring
    busyNUM, liveNUM, exitNUM, shutdown,           \* the counters
    wpc,      \* per slot, where its worker is; "none" iff threadIDs[i] = 0
    wtask,    \* per slot, the worker's local copy of its task
    mpc,      \* where the manager is
    sample,   \* the manager's locals queueSize, liveNum, busyNum
    msignal,  \* signals the manager still has to send
    ppc,      \* per producer, where it is in threadPoolAdd
    ptask,    \* per producer, its argument
    dpc, di,  \* where the destroyer is, and its loop index
    arg       \* per heap block, who owns it

ring    == <<taskqueue, queueFront, queueRear, queueSize>>
worker  == <<wpc, wtask>>
manager == <<mpc, sample, msignal>>
adder   == <<ppc, ptask>>
destroy == <<dpc, di>>
vars    == <<ring, busyNUM, liveNUM, exitNUM, shutdown, worker, manager,
             adder, destroy, arg>>

NoSample == [queueSize |-> 0, liveNum |-> 0, busyNum |-> 0]

Init ==
    /\ taskqueue = [c \in Cell |-> NoTask]
    /\ queueFront = 0 /\ queueRear = 0 /\ queueSize = 0
    /\ busyNUM = 0 /\ liveNUM = minNUM /\ exitNUM = 0 /\ shutdown = FALSE
    /\ wpc = [i \in Slot |-> IF i < minNUM THEN "lock" ELSE "none"]
    /\ wtask = [i \in Slot |-> NoTask]
    /\ mpc = "top" /\ sample = NoSample /\ msignal = 0
    /\ ppc = [p \in Producer |-> "idle"] /\ ptask = [p \in Producer |-> NoTask]
    /\ dpc = "idle" /\ di = 0
    /\ arg = [t \in Task |-> "free"]

-----------------------------------------------------------------------------
(* Condition variables: the waiters are the threads whose pc is "wait".    *)

\* pthread_cond_signal on a condition whose waiters have program counters pc:
\* next is pc with one waiter woken, or pc itself when nobody waits.
Signal(pc, next) ==
    IF \E x \in DOMAIN pc : pc[x] = "wait"
    THEN \E x \in DOMAIN pc : pc[x] = "wait" /\ next = [pc EXCEPT ![x] = "woken"]
    ELSE next = pc

\* Mutant: pthread_cond_signal where the code broadcasts, one waiter is woken.
BroadcastOne(pc) ==
    LET first == CHOOSE x \in DOMAIN pc : pc[x] = "wait"
    IN  IF \E x \in DOMAIN pc : pc[x] = "wait"
        THEN [pc EXCEPT ![first] = "woken"] ELSE pc

\* pthread_cond_broadcast.
Broadcast(pc) == [x \in DOMAIN pc |-> IF pc[x] = "wait" THEN "woken" ELSE pc[x]]

-----------------------------------------------------------------------------
(* A worker, named by its slot.                                            *)

\* Mutant: a stack where the code has a queue, the newest task is taken.
TakeNewest(i) ==
    LET t == taskqueue[(queueFront + queueSize - 1) % queueCapacity] IN
    /\ ~shutdown /\ queueSize > 0
    /\ wpc' = [wpc EXCEPT ![i] = "got"]
    /\ wtask' = [wtask EXCEPT ![i] = t]
    /\ arg' = [arg EXCEPT ![t] = "held"]
    /\ queueRear' = (queueFront + queueSize - 1) % queueCapacity
    /\ queueSize' = queueSize - 1
    /\ UNCHANGED <<taskqueue, queueFront>>

\* The front task leaves the ring.
TakeFront(i) ==
    /\ ~shutdown /\ queueSize > 0
    /\ wpc' = [wpc EXCEPT ![i] = "got"]
    /\ wtask' = [wtask EXCEPT ![i] = taskqueue[queueFront]]
    /\ arg' = [arg EXCEPT ![taskqueue[queueFront]] = "held"]
    /\ queueFront' = (queueFront + 1) % queueCapacity
    /\ queueSize' = queueSize - 1
    /\ UNCHANGED <<taskqueue, queueRear>>

\* Mutant: the worker waits while the queue is empty, shutdown or not.
TakeOrWaitForever(i) ==
    \/ /\ queueSize = 0
       /\ wpc' = [wpc EXCEPT ![i] = "wait"]
       /\ UNCHANGED <<ring, wtask, ppc, arg>>
    \/ /\ shutdown /\ queueSize > 0
       /\ wpc' = [wpc EXCEPT ![i] = "exit"]
       /\ UNCHANGED <<ring, wtask, ppc, arg>>
    \/ TakeFront(i) /\ Signal(ppc, ppc')

\* Mutant: notFull is signalled only when the queue was full.
TakeOrWaitSignalFull(i) ==
    \/ /\ ~shutdown /\ queueSize = 0
       /\ wpc' = [wpc EXCEPT ![i] = "wait"]
       /\ UNCHANGED <<ring, wtask, ppc, arg>>
    \/ /\ shutdown
       /\ wpc' = [wpc EXCEPT ![i] = "exit"]
       /\ UNCHANGED <<ring, wtask, ppc, arg>>
    \/ /\ TakeFront(i)
       /\ IF queueSize = queueCapacity THEN Signal(ppc, ppc') ELSE UNCHANGED ppc

\* The body of the critical section once the exit request has been dealt
\* with: wait when there is nothing to do, leave on shutdown, or take the
\* front task and signal notFull.
TakeOrWait(i) ==
    \/ /\ ~shutdown /\ queueSize = 0
       /\ wpc' = [wpc EXCEPT ![i] = "wait"]
       /\ UNCHANGED <<ring, wtask, ppc, arg>>
    \/ /\ shutdown
       /\ wpc' = [wpc EXCEPT ![i] = "exit"]
       /\ UNCHANGED <<ring, wtask, ppc, arg>>
    \/ TakeFront(i) /\ Signal(ppc, ppc')

\* The worker takes mutexPool at the top of its loop.
WorkerEnter(i) ==
    /\ wpc[i] = "lock"
    /\ TakeOrWait(i)
    /\ UNCHANGED <<busyNUM, liveNUM, exitNUM, shutdown, manager, ptask, destroy>>

\* Mutant: the request is obeyed whatever the size of the pool.
WorkerRetireAlways(i) ==
    /\ wpc[i] = "woken" /\ exitNUM > 0
    /\ exitNUM' = exitNUM - 1
    /\ liveNUM' = liveNUM - 1
    /\ wpc' = [wpc EXCEPT ![i] = "exit"]
    /\ UNCHANGED <<ring, busyNUM, shutdown, wtask, manager, adder, destroy, arg>>

\* pthread_cond_wait returns and an exit request is pending that the pool can
\* afford: the worker uses it up and leaves.
WorkerRetire(i) ==
    /\ wpc[i] = "woken" /\ exitNUM > 0 /\ liveNUM > minNUM
    /\ exitNUM' = exitNUM - 1
    /\ liveNUM' = liveNUM - 1
    /\ wpc' = [wpc EXCEPT ![i] = "exit"]
    /\ UNCHANGED <<ring, busyNUM, shutdown, wtask, manager, adder, destroy, arg>>

\* pthread_cond_wait returns and the worker stays: a request the pool cannot
\* afford is used up all the same, then the loop condition is tested again.
WorkerResume(i) ==
    /\ wpc[i] = "woken" /\ ~(exitNUM > 0 /\ liveNUM > minNUM)
    /\ exitNUM' = IF exitNUM > 0 THEN exitNUM - 1 ELSE exitNUM
    /\ TakeOrWait(i)
    /\ UNCHANGED <<busyNUM, liveNUM, shutdown, manager, ptask, destroy>>

\* threadexit: clear the own slot, without the mutex, and end.
WorkerExit(i) ==
    /\ wpc[i] = "exit"
    /\ wpc' = [wpc EXCEPT ![i] = "none"]
    /\ UNCHANGED <<ring, busyNUM, liveNUM, exitNUM, shutdown, wtask, manager,
                   adder, destroy, arg>>

WorkerBusy(i) ==
    /\ wpc[i] = "got"
    /\ busyNUM' = busyNUM + 1
    /\ wpc' = [wpc EXCEPT ![i] = "run"]
    /\ UNCHANGED <<ring, liveNUM, exitNUM, shutdown, wtask, manager, adder,
                   destroy, arg>>

\* The task's function returns and its argument is freed.
WorkerRun(i) ==
    /\ wpc[i] = "run"
    /\ wpc' = [wpc EXCEPT ![i] = "done"]
    /\ wtask' = [wtask EXCEPT ![i] = NoTask]
    /\ arg' = [arg EXCEPT ![wtask[i]] = "free"]
    /\ UNCHANGED <<ring, busyNUM, liveNUM, exitNUM, shutdown, manager, adder,
                   destroy>>

\* Mutant: a task that is over is still counted.
WorkerIdleUncounted(i) ==
    /\ wpc[i] = "done"
    /\ wpc' = [wpc EXCEPT ![i] = "lock"]
    /\ UNCHANGED <<ring, busyNUM, liveNUM, exitNUM, shutdown, wtask, manager,
                   adder, destroy, arg>>

WorkerIdle(i) ==
    /\ wpc[i] = "done"
    /\ busyNUM' = busyNUM - 1
    /\ wpc' = [wpc EXCEPT ![i] = "lock"]
    /\ UNCHANGED <<ring, liveNUM, exitNUM, shutdown, wtask, manager, adder,
                   destroy, arg>>

\* A spurious wakeup of pthread_cond_wait.
WorkerSpurious(i) ==
    /\ wpc[i] = "wait"
    /\ wpc' = [wpc EXCEPT ![i] = "woken"]
    /\ UNCHANGED <<ring, busyNUM, liveNUM, exitNUM, shutdown, wtask, manager,
                   adder, destroy, arg>>

WorkerStep(i) ==
    WorkerEnter(i) \/ WorkerRetire(i) \/ WorkerResume(i) \/ WorkerExit(i)
        \/ WorkerBusy(i) \/ WorkerIdle(i)

-----------------------------------------------------------------------------
(* The manager.                                                            *)

\* The two decisions of one round, taken from values that may be stale.
WantsMore(s)  == s.queueSize > s.liveNum - s.busyNum /\ s.liveNum < maxNUM
WantsFewer(s) == s.busyNum * 2 < s.liveNum /\ s.liveNum > minNUM

\* while(!shutdown), and then the sleep of three seconds.
ManagerTop ==
    /\ mpc = "top"
    /\ mpc' = IF shutdown THEN "done" ELSE "sample"
    /\ UNCHANGED <<ring, busyNUM, liveNUM, exitNUM, shutdown, worker, sample,
                   msignal, adder, destroy, arg>>

ManagerSample ==
    /\ mpc = "sample"
    /\ mpc' = "sampleBusy"
    /\ sample' = [queueSize |-> queueSize, liveNum |-> liveNUM, busyNum |-> 0]
    /\ UNCHANGED <<ring, busyNUM, liveNUM, exitNUM, shutdown, worker, msignal,
                   adder, destroy, arg>>

\* Where a round goes once growing is done with or not needed.
AfterGrow(s) == IF WantsFewer(s) THEN "shrink" ELSE "top"

ManagerSampleBusy ==
    /\ mpc = "sampleBusy"
    /\ LET s == [queueSize |-> sample.queueSize, liveNum |-> sample.liveNum,
                 busyNum |-> busyNUM]
       IN  /\ mpc' = IF WantsMore(s) THEN "grow" ELSE AfterGrow(s)
           /\ sample' = IF mpc' = "top" THEN NoSample ELSE s
    /\ UNCHANGED <<ring, busyNUM, liveNUM, exitNUM, shutdown, worker, msignal,
                   adder, destroy, arg>>

\* The slots the scan fills: the first NUMBER empty ones.
FreeSlot == {i \in Slot : wpc[i] = "none"}
NewSlot  == {i \in FreeSlot : Cardinality({j \in FreeSlot : j < i}) < NUMBER}

ManagerGrow ==
    /\ mpc = "grow"
    /\ wpc' = [i \in Slot |-> IF i \in NewSlot THEN "lock" ELSE wpc[i]]
    /\ liveNUM' = liveNUM + Cardinality(NewSlot)
    /\ mpc' = AfterGrow(sample)
    /\ sample' = IF mpc' = "top" THEN NoSample ELSE sample
    /\ UNCHANGED <<ring, busyNUM, exitNUM, shutdown, wtask, msignal, adder,
                   destroy, arg>>

ManagerShrink ==
    /\ mpc = "shrink"
    /\ exitNUM' = NUMBER
    /\ mpc' = "signal"
    /\ msignal' = NUMBER
    /\ sample' = NoSample
    /\ UNCHANGED <<ring, busyNUM, liveNUM, shutdown, worker, adder, destroy, arg>>

\* One of the signals on notEmpty, sent without the mutex.
ManagerSignal ==
    /\ mpc = "signal"
    /\ Signal(wpc, wpc')
    /\ msignal' = msignal - 1
    /\ mpc' = IF msignal = 1 THEN "top" ELSE "signal"
    /\ UNCHANGED <<ring, busyNUM, liveNUM, exitNUM, shutdown, wtask, sample,
                   adder, destroy, arg>>

ManagerStep ==
    ManagerTop \/ ManagerSample \/ ManagerSampleBusy \/ ManagerGrow
        \/ ManagerShrink \/ ManagerSignal

-----------------------------------------------------------------------------
(* A producer: accept_thread, or any caller of threadPoolAdd.              *)

\* The caller allocates an argument and calls threadPoolAdd.  A call that is made
\* when the destruction has begun is like one that has not taken the mutex by then.
AddCall(p, t) ==
    /\ ppc[p] = "idle" /\ arg[t] = "free"
    /\ dpc = "idle"
    /\ ppc' = [ppc EXCEPT ![p] = "enter"]
    /\ ptask' = [ptask EXCEPT ![p] = t]
    /\ arg' = [arg EXCEPT ![t] = "passed"]
    /\ UNCHANGED <<ring, busyNUM, liveNUM, exitNUM, shutdown, worker, manager,
                   destroy>>

\* The critical section, from the entry or after pthread_cond_wait.
AddWait(p) ==
    /\ ppc[p] \in {"enter", "woken"}
    /\ queueSize = queueCapacity /\ ~shutdown
    /\ ppc' = [ppc EXCEPT ![p] = "wait"]
    /\ UNCHANGED <<ring, busyNUM, liveNUM, exitNUM, shutdown, worker, manager,
                   ptask, destroy, arg>>

\* Shutdown: the call returns and nobody frees the argument.
AddRefused(p) ==
    /\ ppc[p] \in {"enter", "woken"}
    /\ shutdown
    /\ ppc' = [ppc EXCEPT ![p] = "idle"]
    /\ ptask' = [ptask EXCEPT ![p] = NoTask]
    /\ arg' = [arg EXCEPT ![ptask[p]] = "leaked"]
    /\ UNCHANGED <<ring, busyNUM, liveNUM, exitNUM, shutdown, worker, manager,
                   destroy>>

\* The task enters the ring and notEmpty is signalled.
Enqueue(p) ==
    /\ taskqueue' = [taskqueue EXCEPT ![queueRear] = ptask[p]]
    /\ queueRear' = (queueRear + 1) % queueCapacity
    /\ queueSize' = queueSize + 1
    /\ Signal(wpc, wpc')
    /\ ppc' = [ppc EXCEPT ![p] = "idle"]
    /\ ptask' = [ptask EXCEPT ![p] = NoTask]
    /\ arg' = [arg EXCEPT ![ptask[p]] = "queued"]
    /\ UNCHANGED <<queueFront, busyNUM, liveNUM, exitNUM, shutdown, wtask,
                   manager, destroy>>

\* Mutant: if where the code has while, the awoken producer does not look again.
AddEnqueueUnchecked(p) ==
    /\ ppc[p] \in {"enter", "woken"} /\ ~shutdown
    /\ ppc[p] = "enter" => queueSize # queueCapacity
    /\ Enqueue(p)

AddEnqueue(p) ==
    /\ ppc[p] \in {"enter", "woken"}
    /\ ~shutdown /\ queueSize # queueCapacity
    /\ Enqueue(p)

AddSpurious(p) ==
    /\ ppc[p] = "wait"
    /\ ppc' = [ppc EXCEPT ![p] = "woken"]
    /\ UNCHANGED <<ring, busyNUM, liveNUM, exitNUM, shutdown, worker, manager,
                   ptask, destroy, arg>>

AddStep(p) == AddWait(p) \/ AddRefused(p) \/ AddEnqueue(p)

-----------------------------------------------------------------------------
(* threadPoolDestory, and what gateway_server_menu does before it.         *)

\* The user's q: running is cleared, the producers make no further call and are
\* waited for.
StopProducers ==
    /\ dpc = "idle"
    /\ dpc' = "stop"
    /\ UNCHANGED <<ring, busyNUM, liveNUM, exitNUM, shutdown, worker, manager,
                   adder, di, arg>>

\* shutdown = 1, outside the mutex.
DestroyBegin ==
    /\ \/ ~JoinProducersFirst /\ dpc = "idle"
       \/ dpc = "stop" /\ \A p \in Producer : ppc[p] = "idle"
    /\ shutdown' = TRUE
    /\ dpc' = "broadcast"
    /\ UNCHANGED <<ring, busyNUM, liveNUM, exitNUM, worker, manager, adder, di, arg>>

\* Mutant: only the workers are woken.
DestroyBroadcastWorkers ==
    /\ dpc = "broadcast"
    /\ wpc' = Broadcast(wpc)
    /\ dpc' = "joinManager"
    /\ UNCHANGED <<ring, busyNUM, liveNUM, exitNUM, shutdown, wtask, manager,
                   adder, di, arg>>

DestroyBroadcast ==
    /\ dpc = "broadcast"
    /\ wpc' = Broadcast(wpc)
    /\ ppc' = Broadcast(ppc)
    /\ dpc' = "joinManager"
    /\ UNCHANGED <<ring, busyNUM, liveNUM, exitNUM, shutdown, wtask, manager,
                   ptask, di, arg>>

\* Mutant: the manager is not waited for.
DestroyJoinNobody ==
    /\ dpc = "joinManager"
    /\ dpc' = "check"
    /\ UNCHANGED <<ring, busyNUM, liveNUM, exitNUM, shutdown, worker, manager,
                   adder, di, arg>>

DestroyJoinManager ==
    /\ dpc = "joinManager" /\ mpc = "done"
    /\ dpc' = "check"
    /\ UNCHANGED <<ring, busyNUM, liveNUM, exitNUM, shutdown, worker, manager,
                   adder, di, arg>>

\* if (threadIDs[i] != 0), and the end of the loop: the pool is freed.
DestroyCheck ==
    /\ dpc = "check"
    /\ \/ di = maxNUM /\ dpc' = "freed" /\ UNCHANGED di
       \/ di < maxNUM /\ wpc[di] # "none" /\ dpc' = "join" /\ UNCHANGED di
       \/ di < maxNUM /\ wpc[di] = "none" /\ dpc' = "check" /\ di' = di + 1
    /\ UNCHANGED <<ring, busyNUM, liveNUM, exitNUM, shutdown, worker, manager,
                   adder, arg>>

\* pthread_join(threadIDs[i]) reads the slot again; a worker may have cleared
\* it in between, and pthread_join(0) is undefined: nothing is modelled of the
\* destroyer after that.
DestroyJoin ==
    /\ dpc = "join"
    /\ dpc' = IF wpc[di] = "none" THEN "crashed" ELSE "joining"
    /\ UNCHANGED <<ring, busyNUM, liveNUM, exitNUM, shutdown, worker, manager,
                   adder, di, arg>>

DestroyJoined ==
    /\ dpc = "joining" /\ wpc[di] = "none"
    /\ dpc' = "check"
    /\ di' = di + 1
    /\ UNCHANGED <<ring, busyNUM, liveNUM, exitNUM, shutdown, worker, manager,
                   adder, arg>>

DestroyStep ==
    DestroyBroadcast \/ DestroyJoinManager \/ DestroyCheck \/ DestroyJoin
        \/ DestroyJoined

-----------------------------------------------------------------------------
Next ==
    \/ \E i \in Slot : WorkerStep(i) \/ WorkerRun(i) \/ WorkerSpurious(i)
    \/ ManagerStep
    \/ \E p \in Producer : AddStep(p) \/ AddSpurious(p)
                           \/ \E t \in Task : AddCall(p, t)
    \/ StopProducers
    \/ DestroyBegin
    \/ DestroyStep

Spec == Init /\ [][Next]_vars

\* running has been cleared, or the pool is being destroyed.
Ending == dpc # "idle"

\* Every thread that is not blocked goes on; nobody is bound to call
\* threadPoolAdd, to quit, or to be woken spuriously.  A task may run for ever (a
\* client stays connected) until running is cleared, which ends every
\* client_worker.
Fairness ==
    /\ \A i \in Slot : WF_vars(WorkerStep(i)) /\ WF_vars(Ending /\ WorkerRun(i))
    /\ WF_vars(ManagerStep)
    /\ \A p \in Producer : WF_vars(AddStep(p))
    /\ WF_vars(dpc = "stop" /\ DestroyBegin) /\ WF_vars(DestroyStep)

FairSpec == Spec /\ Fairness

-----------------------------------------------------------------------------
(* Type correctness.                                                       *)

WorkerPC  == {"none", "lock", "wait", "woken", "got", "run", "done", "exit"}
ManagerPC == {"top", "sample", "sampleBusy", "grow", "shrink", "signal", "done"}
AdderPC   == {"idle", "enter", "wait", "woken"}
DestroyPC == {"idle", "stop", "broadcast", "joinManager", "check", "join", "joining",
              "freed", "crashed"}

\* Every variable has its type; the ring indices stay in the array.
TypeOK ==
    /\ taskqueue \in [Cell -> Task \cup {NoTask}]
    /\ queueFront \in Cell /\ queueRear \in Cell /\ queueSize \in 0 .. queueCapacity
    /\ busyNUM \in Int /\ liveNUM \in Int
    /\ exitNUM \in 0 .. NUMBER /\ shutdown \in BOOLEAN
    /\ wpc \in [Slot -> WorkerPC] /\ wtask \in [Slot -> Task \cup {NoTask}]
    /\ mpc \in ManagerPC /\ msignal \in 0 .. NUMBER
    /\ sample \in [queueSize : Nat, liveNum : Int, busyNum : Int]
    /\ ppc \in [Producer -> AdderPC] /\ ptask \in [Producer -> Task \cup {NoTask}]
    /\ dpc \in DestroyPC /\ di \in 0 .. maxNUM
    /\ arg \in [Task -> {"free", "passed", "queued", "held", "leaked"}]

-----------------------------------------------------------------------------
(* The counters the manager decides on.                                    *)

\* The workers that have not decided to end.
Live == {i \in Slot : wpc[i] \notin {"none", "exit"}}

\* The manager and the workers add and retire workers from decisions taken
\* earlier, outside the mutex or under another one.  Until the pool is being
\* destroyed, liveNUM is still the number of live workers, and the pool neither
\* falls below minNUM nor grows past maxNUM.
PoolSize ==
    /\ liveNUM >= minNUM
    /\ ~shutdown => liveNUM = Cardinality(Live) /\ liveNUM <= maxNUM

\* The workers between the two updates of busyNUM.
Busy == {i \in Slot : wpc[i] \in {"run", "done"}}

\* busyNUM, kept under mutexBusy while the tasks move under mutexPool, counts
\* them, so the manager never sees a negative number of busy workers or more of
\* them than there are slots.
BusyAccurate == busyNUM = Cardinality(Busy)

-----------------------------------------------------------------------------
(* The tasks.                                                              *)

\* The cell of the k-th queued task, from 0.
CellOf(k) == (queueFront + k) % queueCapacity

\* The workers that hold a task.
Holding == {i \in Slot : wpc[i] \in {"got", "run"}}
\* The producers inside threadPoolAdd.
Adding  == {p \in Producer : ppc[p] # "idle"}

\* The part of a task's life each of its owners sees.
OwnerOK ==
    /\ queueRear = CellOf(queueSize)
    /\ \A k \in 0 .. queueSize - 1 :
           taskqueue[CellOf(k)] \in Task /\ arg[taskqueue[CellOf(k)]] = "queued"
    /\ \A i \in Holding : wtask[i] \in Task /\ arg[wtask[i]] = "held"
    /\ \A p \in Adding : ptask[p] \in Task /\ arg[ptask[p]] = "passed"

\* A task accepted by threadPoolAdd sits in one cell of the ring or in the hands
\* of one worker, never in two: no argument is run twice, freed twice, or
\* overwritten by the wrap-around of queueRear before it was run.
OneOwner ==
    /\ OwnerOK
    /\ \A j, k \in 0 .. queueSize - 1 :
           taskqueue[CellOf(j)] = taskqueue[CellOf(k)] => j = k
    /\ \A i, j \in Holding : wtask[i] = wtask[j] => i = j
    /\ \A p, q \in Adding : ptask[p] = ptask[q] => p = q

\* threadPoolAdd and the workers implement the queue of TaskQueue.
Pending == [k \in 1 .. queueSize |-> taskqueue[CellOf(k - 1)]]
Queue == INSTANCE TaskQueue WITH
             Capacity <- queueCapacity,
             pending  <- Pending,
             running  <- {wtask[i] : i \in Holding},
             closed   <- shutdown
QueueSpec == Queue!Spec

-----------------------------------------------------------------------------
(* The condition variables.                                                *)

\* The producers woken from notFull that have not taken the mutex again.
Woken == {p \in Producer : ppc[p] = "woken"}

\* A producer never sleeps on notFull beside a free cell that no awoken
\* producer is on its way to fill, although one signal is sent per task taken
\* and another producer may take the cell first.
NoLostNotFull ==
    ~shutdown /\ (\E p \in Producer : ppc[p] = "wait")
        => queueSize + Cardinality(Woken) >= queueCapacity

\* shutdown is set without the mutex, so a thread may test it just before and
\* sleep just after; none is asleep once the broadcasts are done, and none
\* falls asleep later.
NobodySleeps ==
    shutdown /\ dpc # "broadcast" =>
        /\ \A i \in Slot : wpc[i] # "wait"
        /\ \A p \in Producer : ppc[p] # "wait"

-----------------------------------------------------------------------------
(* Destroying the pool.                                                    *)

\* When threadPoolDestory frees the pool no thread is left that could touch it:
\* the manager, the workers it started late, the ones that were retiring and, when
\* they are joined first as in gateway_server_menu, the producers.
FreedUnused ==
    dpc = "freed" =>
        /\ mpc = "done"
        /\ \A i \in Slot : wpc[i] = "none"
        /\ JoinProducersFirst => \A p \in Producer : ppc[p] = "idle"

\* Quitting ends, in the freed pool or in pthread_join(0) (see JoinsThreads),
\* although workers sleep, run, retire or are being created meanwhile, and although
\* gateway_stop first waits for a producer that may be blocked on a full queue
\* (gateway.c:263, menu.c:131-136): while the queue has more cells than minNUM, as
\* in app/config.ini, a full queue beside sleeping workers makes the manager add one.
QuitEnds == Ending ~> dpc \in {"freed", "crashed"}

\* The comment at thread_pool.c:205: all workers are joined, the ones that have
\* exited included.  A worker that clears its slot between the test of
\* threadIDs[i] and the call makes it pthread_join(0).
JoinsThreads == dpc # "crashed"

\* README 4.4: an added task wakes a worker.  No task stays queued for ever while
\* a worker sleeps.
QueuedTaskRuns ==
    ~ <>[](~shutdown /\ queueSize > 0 /\ \E i \in Slot : wpc[i] = "wait")
=============================================================================

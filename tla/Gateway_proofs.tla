--------------------------- MODULE Gateway_proofs ---------------------------
(* Proofs about Gateway, for all values of its constants.                  *)
EXTENDS Gateway, SequenceTheorems, WellFoundedInduction, TLAPS

-----------------------------------------------------------------------------
(* Type correctness.  By itself TypeOK is not inductive: the heartbeat's    *)
(* index, a task's descriptor and the frames it has left are in range       *)
(* because of where the threads are.  One part for each owner of variables. *)

DeviceType == [fd : FD \cup {0}, idle : {"fresh", "quiet", "silent"},
               fail : Nat, id : Conn \cup {NoConn}]

TableType ==
    /\ devices \in [Index -> DeviceType] /\ device_count \in 0 .. MaxClients
    /\ \A i \in Entry : devices[i].fd \in FD

KernelType ==
    /\ fdtab \in [FD -> Conn \cup {NoConn}]
    /\ conn \in [Conn -> {"new", "open", "hup", "dropped"}]
    /\ inbox \in [Conn -> 0 .. MaxFrames] /\ full \subseteq Conn

PoolType == pending \in Seq(Conn) /\ active \subseteq Conn /\ closed \in BOOLEAN

TaskPC == {"none", "queued", "select", "parse", "found", "answer", "send", "leave",
           "close"}

TaskType ==
    /\ wpc \in [Conn -> TaskPC]
    /\ wfd \in [Conn -> FD \cup {0}] /\ wsrc \in [Conn -> Conn \cup {NoConn}]
    /\ wbuf \in [Conn -> 0 .. MaxFrames]
    /\ wdev \in [Conn -> Index] /\ wto \in [Conn -> FD \cup {0}]
    /\ \A c \in Conn : /\ wpc[c] # "none" => wfd[c] \in FD
                       /\ wpc[c] = "parse" => wbuf[c] > 0

AcceptType ==
    /\ apc \in {"select", "add", "submit", "stopped"}
    /\ aconn \in Conn \cup {NoConn} /\ afd \in FD \cup {0}
    /\ apc \in {"add", "submit"} => aconn \in Conn /\ afd \in FD

BeatType ==
    /\ hpc \in {"none", "idle", "scan", "ping", "send", "sent", "stopped"}
    /\ hi \in 0 .. MaxClients /\ hto \in FD \cup {0}
    /\ hpc \in {"ping", "send", "sent"} => hi < MaxClients

StopType ==
    /\ ri \in 0 .. MaxClients
    /\ spc \in {"starting", "serving", "restart", "stop", "joinAccept", "joinHeartbeat",
                "closeAll", "destroy", "joinWorkers", "freed"}
    /\ devices_mutex \in {"free", "heartbeat", "console"}

FlagType == running \in BOOLEAN /\ listening \in BOOLEAN /\ hfail \in BOOLEAN

TypeInv ==
    /\ TableType /\ KernelType /\ PoolType /\ TaskType
    /\ AcceptType /\ BeatType /\ StopType /\ FlagType

LEMMA TypeInvIsType == TypeInv => TypeOK
BY DEF TypeInv, TypeOK, TableType, KernelType, PoolType, TaskType, AcceptType,
       BeatType, StopType, FlagType, DeviceType, TaskPC

USE DEF table, kernel, pool, task, accept, beat, stop

\* Where entry j of the table was before entry i left it.
WasAt(i, j) == IF j < i THEN j ELSE j + 1

\* One entry leaves, the others keep their order and what is in them.
LEMMA RemoveOne ==
    ASSUME TableType, NEW i \in Entry, RemoveEntry(i)
    PROVE  /\ device_count' \in 0 .. MaxClients /\ device_count' = device_count - 1
           /\ \A j \in Entry' : /\ WasAt(i, j) \in Entry \ {i}
                                /\ devices'[j] = devices[WasAt(i, j)]
           /\ \A j, k \in Entry' : WasAt(i, j) = WasAt(i, k) => j = k
           /\ \A k \in Entry \ {i} : \E j \in Entry' : WasAt(i, j) = k
           /\ \A j \in Index : \E k \in Index : devices'[j] = devices[k]
           /\ TableType'
<1>0. /\ device_count \in Nat /\ device_count <= MaxClients /\ MaxClients \in Nat
      /\ i \in Nat /\ i < device_count
  BY GatewayAssumption DEF TableType, Entry, Index
<1>1. device_count' \in 0 .. MaxClients /\ device_count' = device_count - 1
  BY <1>0 DEF RemoveEntry
<1>2. ASSUME NEW j \in Entry'
      PROVE  WasAt(i, j) \in Entry \ {i} /\ devices'[j] = devices[WasAt(i, j)]
  <2>1. j \in Index /\ j \in Nat /\ j < device_count - 1
    BY <1>0, <1>1 DEF Entry, Index
  <2> QED
    BY <1>0, <2>1 DEF RemoveEntry, WasAt, Entry, Index
<1>3. ASSUME NEW k \in Entry \ {i}
      PROVE  \E j \in Entry' : WasAt(i, j) = k
  <2>1. k \in Nat /\ k < device_count /\ k # i
    BY <1>0 DEF Entry, Index
  <2> DEFINE j == IF k < i THEN k ELSE k - 1
  <2>2. j \in Nat /\ j < device_count - 1 /\ WasAt(i, j) = k
    BY <1>0, <2>1 DEF WasAt
  <2>3. j \in Entry'
    BY <1>0, <1>1, <2>2 DEF Entry, Index
  <2> QED
    BY <2>2, <2>3
<1>4. ASSUME NEW j \in Index
      PROVE  \E k \in Index : devices'[j] = devices[k]
  <2>1. j + 1 \in Index \/ ~(j < device_count - 1)
    BY <1>0 DEF Index
  <2> QED
    BY <2>1 DEF RemoveEntry
<1>5. devices' \in [Index -> DeviceType]
  BY <1>4 DEF RemoveEntry, TableType
<1>6. TableType'
  BY <1>1, <1>2, <1>5 DEF TableType
<1>7. \A j, k \in Entry' : WasAt(i, j) = WasAt(i, k) => j = k
  BY <1>0 DEF WasAt, Entry, Index
<1> QED
  BY <1>1, <1>2, <1>3, <1>4, <1>6, <1>7

\* Closing opens nothing.
LEMMA CloseOnly ==
    ASSUME KernelType, NEW F, CloseAll(F)
    PROVE  /\ \A f \in FD : fdtab'[f] = IF f \in F THEN NoConn ELSE fdtab[f]
           /\ \A c \in Conn : \/ conn'[c] = conn[c]
                              \/ /\ conn[c] = "open" /\ conn'[c] = "dropped"
                                 /\ \E f \in F : fdtab[f] = c
           /\ inbox' = inbox /\ full' = full => KernelType'
BY DEF KernelType, CloseAll

\* What EntryOf finds is an entry for the descriptor.
LEMMA EntryOfIs ==
    ASSUME NEW f
    PROVE  \A i \in EntryOf(f) : i \in Entry /\ devices[i].fd = f
BY DEF EntryOf, Entry

LEMMA LeastNatural ==
    ASSUME NEW S, S \subseteq Nat, S # {}
    PROVE  \E m \in S : \A n \in S : m <= n
<1> DEFINE R == {ss \in Nat \X Nat : ss[1] < ss[2]}
<1>1. IsWellFoundedOn(R, Nat)
  BY NatLessThanWellFounded DEF OpToRel
<1>2. \E m \in S : \A n \in S : <<n, m>> \notin R
  <2> HIDE DEF R
  <2> QED
    BY <1>1, WFMin
<1>3. \A m, n \in S : <<n, m>> \notin R => m <= n
  OBVIOUS
<1> QED
  BY <1>2, <1>3

\* And it finds one when there is one.
LEMMA EntryFound ==
    ASSUME TableType, NEW f, EntryOf(f) = {}
    PROVE  \A i \in Entry : devices[i].fd # f
<1> DEFINE S == {i \in Entry : devices[i].fd = f}
<1> SUFFICES ASSUME S # {} PROVE FALSE
  OBVIOUS
<1>1. S \subseteq Nat
  BY GatewayAssumption DEF Entry, Index
<1>2. PICK m \in S : \A n \in S : m <= n
  BY <1>1, LeastNatural
<1>3. \A j \in Index : j < m => devices[j].fd # f
  BY <1>1, <1>2, GatewayAssumption DEF TableType, Entry, Index
<1> QED
  BY <1>2, <1>3 DEF Entry, EntryOf

LEMMA TypeInit == Init => TypeInv
<1> SUFFICES ASSUME Init PROVE TypeInv
  OBVIOUS
<1> USE GatewayAssumption DEF Init
<1>1. TableType
  BY DEF TableType, DeviceType, NoDevice, Entry, Index
<1>2. KernelType
  BY DEF KernelType
<1>3. PoolType
  BY EmptySeq DEF PoolType, Pool!Init
<1>4. TaskType
  BY DEF TaskType, TaskPC, Index
<1>5. AcceptType /\ BeatType /\ StopType
  BY DEF AcceptType, BeatType, StopType
<1>6. FlagType
  BY DEF FlagType
<1> QED
  BY <1>1, <1>2, <1>3, <1>4, <1>5, <1>6 DEF TypeInv

\* Each part depends on its own variables only.
LEMMA TypeSame ==
    ASSUME TypeInv
    PROVE  /\ UNCHANGED table => TableType'
           /\ UNCHANGED kernel => KernelType'
           /\ UNCHANGED pool => PoolType'
           /\ UNCHANGED task => TaskType'
           /\ UNCHANGED accept => AcceptType'
           /\ UNCHANGED beat => BeatType'
           /\ UNCHANGED <<stop, devices_mutex>> => StopType'
           /\ UNCHANGED <<running, listening, hfail>> => FlagType'
BY DEF TypeInv, TableType, KernelType, PoolType, TaskType, AcceptType, BeatType,
       StopType, FlagType, Entry

\* The queued tasks are distinct, and the pool runs the others that exist.
QueueInv ==
    /\ \A k \in 1 .. Len(pending) : wpc[pending[k]] = "queued"
    /\ \A k, l \in 1 .. Len(pending) : pending[k] = pending[l] => k = l
    /\ \A c \in Conn : c \in active <=> wpc[c] \notin {"none", "queued"}

LEMMA QueueInit == Init => QueueInv
BY EmptySeq DEF Init, Pool!Init, QueueInv

\* A running task that stays one leaves the queue as it is.
LEMMA QueueSame ==
    ASSUME TypeInv, QueueInv, UNCHANGED pool, NEW c \in Conn, NEW p,
           wpc' = [wpc EXCEPT ![c] = p],
           wpc[c] \notin {"none", "queued"}, p \notin {"none", "queued"}
    PROVE  QueueInv'
BY DEF TypeInv, TaskType, PoolType, QueueInv

LEMMA QueueStep == TypeInv /\ QueueInv /\ [Next]_vars => QueueInv'
<1> SUFFICES ASSUME TypeInv, QueueInv, [Next]_vars PROVE QueueInv'
  OBVIOUS
<1>0. UNCHANGED <<pool, wpc>> => QueueInv'
  BY DEF QueueInv
<1>1. /\ pending \in Seq(Conn) /\ active \subseteq Conn
      /\ wpc \in [Conn -> TaskPC] /\ (apc = "submit" => aconn \in Conn)
  BY DEF TypeInv, PoolType, TaskType, AcceptType
<1>2. CASE Submit
  <2>1. /\ aconn \in Conn /\ aconn \notin active /\ active' = active
        /\ \A k \in 1 .. Len(pending) : pending[k] # aconn
        /\ pending' = Append(pending, aconn) /\ wpc' = [wpc EXCEPT ![aconn] = "queued"]
    BY <1>1, <1>2 DEF Submit, Pool!Accept
  <2>2. /\ Len(pending') = Len(pending) + 1 /\ Len(pending) \in Nat
        /\ \A k \in 1 .. Len(pending) : pending'[k] = pending[k] /\ pending[k] \in Conn
        /\ pending'[Len(pending) + 1] = aconn
    BY <1>1, <2>1
  <2> QED
    BY <1>1, <2>1, <2>2 DEF QueueInv
<1>3. CASE WorkerStart
  <2>1. /\ pending # << >> /\ pending' = Tail(pending)
        /\ active' = active \cup {Head(pending)}
        /\ wpc' = [wpc EXCEPT ![Head(pending)] = WorkerLoop]
        /\ WorkerLoop \notin {"none", "queued"}
    BY <1>3 DEF WorkerStart, Pool!Start, WorkerLoop
  <2>2. /\ Len(pending') = Len(pending) - 1 /\ Len(pending) \in Nat \ {0}
        /\ \A k \in 1 .. Len(pending') : pending'[k] = pending[k + 1]
        /\ \A k \in 1 .. Len(pending) : pending[k] \in Conn
        /\ Head(pending) = pending[1]
    BY <1>1, <2>1
  <2> QED
    BY <1>1, <2>1, <2>2 DEF QueueInv
<1>4. ASSUME NEW c \in Conn, WorkerClose(c) PROVE QueueInv'
  <2>1. /\ c \in active /\ pending' = pending /\ active' = active \ {c}
        /\ wpc' = [wpc EXCEPT ![c] = "none"]
    BY <1>4 DEF WorkerClose, Pool!Finish
  <2>2. \A k \in 1 .. Len(pending) : pending[k] \in Conn /\ pending[k] # c
    BY <1>1, <2>1 DEF QueueInv
  <2> QED
    BY <1>1, <2>1, <2>2 DEF QueueInv
<1>5. ASSUME NEW c \in Conn, WorkerStep(c), ~WorkerClose(c) PROVE QueueInv'
  <2>1. /\ UNCHANGED pool
        /\ wpc[c] \notin {"none", "queued"}
        /\ \E p : wpc' = [wpc EXCEPT ![c] = p] /\ p \notin {"none", "queued"}
    BY <1>5 DEF WorkerStep, WorkerRecv, WorkerFind, WorkerActivity, WorkerAnswer,
                WorkerSend, WorkerRemove, NextFrame, WorkerLoop
  <2> QED
    BY <2>1, QueueSame
<1>6. CASE StopDestroy
  BY <1>6 DEF StopDestroy, Pool!Close, QueueInv
<1>7. ASSUME NEW c \in Conn, SendFrame(c) \/ HangUp(c) \/ Stall(c) \/ Drain(c)
      PROVE  QueueInv'
  BY <1>0, <1>7 DEF SendFrame, HangUp, Stall, Drain
<1>8. ASSUME NEW i \in Index, Age(i) PROVE QueueInv'
  BY <1>0, <1>8 DEF Age
<1>9. CASE AcceptTimeout \/ AddDevice \/ Accept
  BY <1>0, <1>9 DEF AcceptTimeout, AddDevice, Accept
<1>10. CASE HeartbeatStep
  BY <1>0, <1>10 DEF HeartbeatStep, HeartbeatBegin, HeartbeatStop, HeartbeatDrop,
                     HeartbeatPing, HeartbeatSend, HeartbeatSent, HeartbeatCharge,
                     HeartbeatReset, HeartbeatEnd
<1>11. CASE ConsoleStep \/ RestartBegin \/ Quit
  BY <1>0, <1>11 DEF ConsoleStep, StartHeartbeat, RestartSend, RestartEnd, RestartBegin,
                     Quit
<1>12. CASE StopListen \/ StopJoin \/ StopClose \/ StopFree
  BY <1>0, <1>12 DEF StopListen, StopJoin, StopClose, StopFree
<1>13. CASE UNCHANGED vars
  BY <1>0, <1>13 DEF vars
<1> QED
  BY <1>2, <1>3, <1>4, <1>5, <1>6, <1>7, <1>8, <1>9, <1>10, <1>11, <1>12, <1>13
     DEF Next, AcceptStep, StopStep

\* Only add_device and remove_device change an entry's descriptor.
LEMMA SameDescriptors ==
    ASSUME TypeInv,
           \/ \E c \in Conn : \/ WorkerRecv(c) \/ WorkerFind(c) \/ WorkerActivity(c)
                              \/ WorkerAnswer(c) \/ WorkerSend(c) \/ WorkerClose(c)
           \/ \E i \in Index : Age(i)
           \/ HeartbeatStep /\ ~HeartbeatDrop
    PROVE  \A i \in Index : devices'[i].fd = devices[i].fd
<1>0. devices \in [Index -> DeviceType]
  BY DEF TypeInv, TableType
<1>1. ASSUME NEW c \in Conn, WorkerActivity(c) PROVE \A i \in Index : devices'[i].fd = devices[i].fd
  BY <1>0, <1>1 DEF WorkerActivity, DeviceType
<1>2. ASSUME NEW c \in Conn, WorkerAnswer(c) PROVE \A i \in Index : devices'[i].fd = devices[i].fd
  BY <1>0, <1>2 DEF WorkerAnswer, AnswerDirect, AnswerHandler, DeviceType
<1>3. ASSUME NEW c \in Conn, WorkerRecv(c) \/ WorkerFind(c) \/ WorkerSend(c) \/ WorkerClose(c)
      PROVE  UNCHANGED devices
  BY <1>3 DEF WorkerRecv, WorkerFind, WorkerSend, WorkerClose
<1>4. ASSUME NEW i \in Index, Age(i) PROVE \A j \in Index : devices'[j].fd = devices[j].fd
  BY <1>0, <1>4 DEF Age, DeviceType
<1>5. CASE HeartbeatCharge \/ HeartbeatReset
  BY <1>0, <1>5 DEF HeartbeatCharge, HeartbeatReset, DeviceType
<1>6. CASE HeartbeatBegin \/ HeartbeatStop \/ HeartbeatPing \/ HeartbeatSend
           \/ HeartbeatSent \/ HeartbeatEnd
  BY <1>6 DEF HeartbeatBegin, HeartbeatStop, HeartbeatPing, HeartbeatSend, HeartbeatSent,
              HeartbeatEnd
<1> QED
  BY <1>1, <1>2, <1>3, <1>4, <1>5, <1>6 DEF HeartbeatStep

LEMMA TypeAccept == TypeInv /\ (AcceptStep \/ Accept) => TypeInv'
<1> SUFFICES ASSUME TypeInv, AcceptStep \/ Accept PROVE TypeInv'
  OBVIOUS
<1> USE GatewayAssumption DEF TypeInv
<1>1. CASE AcceptTimeout
  <2>1. AcceptType'
    BY <1>1 DEF AcceptTimeout, AcceptLoop, AcceptType
  <2> QED
    BY <1>1, <2>1, TypeSame DEF AcceptTimeout
<1>2. CASE AddDevice /\ device_count >= MaxClients
  <2>1. /\ CloseAll({afd})
        /\ UNCHANGED <<running, listening, devices_mutex, table, inbox, full, pool, task,
                       beat, stop>>
    BY <1>2 DEF AddDevice, TableType
  <2>2. AcceptType'
    BY <1>2 DEF AddDevice, AcceptLoop, AcceptType, TableType
  <2> QED
    BY <2>1, <2>2, CloseOnly, TypeSame
<1>3. CASE AddDevice /\ device_count < MaxClients
  <2>1. device_count \in Index /\ device_count \in Nat /\ MaxClients \in Nat
    BY <1>3 DEF TableType, Index
  <2>2. /\ apc = "add" /\ apc' = "submit" /\ UNCHANGED <<aconn, afd>>
        /\ devices' = [devices EXCEPT ![device_count] = [NoDevice EXCEPT !.fd = afd]]
        /\ device_count' = device_count + 1 /\ UNCHANGED kernel
    BY <1>3, <2>1 DEF AddDevice
  <2>3. AcceptType' /\ afd \in FD
    BY <2>2 DEF AcceptType
  <2>4. [NoDevice EXCEPT !.fd = afd] \in DeviceType
    BY <2>3 DEF NoDevice, DeviceType
  <2>5. [NoDevice EXCEPT !.fd = afd].fd = afd
    BY DEF NoDevice
  <2>6. TableType'
    BY <2>1, <2>2, <2>3, <2>4, <2>5 DEF TableType, Entry, Index
  <2> QED
    BY <1>3, <2>2, <2>3, <2>6, TypeSame DEF AddDevice
<1>4. CASE Submit
  <2>1. PoolType'
    BY <1>4 DEF Submit, Pool!Accept, PoolType, AcceptType
  <2>2. TaskType' /\ AcceptType'
    BY <1>4 DEF Submit, AcceptLoop, TaskType, TaskPC, AcceptType
  <2> QED
    BY <1>4, <2>1, <2>2, TypeSame DEF Submit
<1>5. CASE Accept
  <2>1. KernelType' /\ AcceptType'
    BY <1>5 DEF Accept, KernelType, AcceptType
  <2> QED
    BY <1>5, <2>1, TypeSame DEF Accept
<1>6. MaxClients \in Nat /\ device_count \in Nat
  BY DEF TableType
<1> QED
  BY <1>1, <1>2, <1>3, <1>4, <1>5, <1>6 DEF AcceptStep

LEMMA TypeWorker ==
    ASSUME TypeInv, NEW c \in Conn, WorkerStep(c)
    PROVE  TypeInv'
<1> USE GatewayAssumption DEF TypeInv
<1>1. CASE WorkerRecv(c)
  <2>1. wpc[c] = "select" /\ wfd[c] \in FD
    BY <1>1 DEF WorkerRecv, TaskType
  <2>2. fdtab[wfd[c]] # NoConn => fdtab[wfd[c]] \in Conn
    BY <2>1 DEF KernelType
  <2>3. KernelType'
    BY <1>1, <2>1, <2>2 DEF WorkerRecv, KernelType
  <2>4. TaskType'
    BY <1>1, <2>1, <2>2 DEF WorkerRecv, WorkerLoop, TaskType, TaskPC, KernelType
  <2> QED
    BY <1>1, <2>3, <2>4, TypeSame DEF WorkerRecv
<1>2. CASE WorkerFind(c)
  <2>1. wbuf[c] \in 1 .. MaxFrames /\ wbuf[c] - 1 \in 0 .. MaxFrames
    BY <1>2 DEF WorkerFind, TaskType
  <2>2. \A i \in EntryOf(wfd[c]) : i \in Index
    BY DEF EntryOf
  <2>3. TaskType'
    BY <1>2, <2>1, <2>2 DEF WorkerFind, NextFrame, WorkerLoop, TaskType, TaskPC
  <2> QED
    BY <1>2, <2>3, TypeSame DEF WorkerFind
<1>3. CASE WorkerActivity(c)
  <2>1. TableType'
    BY <1>3 DEF WorkerActivity, TableType, DeviceType, Entry
  <2>2. TaskType'
    BY <1>3 DEF WorkerActivity, TaskType, TaskPC
  <2> QED
    BY <1>3, <2>1, <2>2, TypeSame DEF WorkerActivity
<1>4. CASE WorkerAnswer(c)
  <2>1. wdev[c] \in Index /\ 0 \in Index /\ wsrc[c] \in Conn \cup {NoConn}
    BY DEF TaskType, Index
  <2>2. devices[wdev[c]].fd \in FD \cup {0} /\ wfd[c] \in FD \cup {0}
    BY <2>1 DEF TableType, TaskType, DeviceType
  <2>3. device_count' = device_count
        /\ \/ devices' = devices
           \/ devices' = [devices EXCEPT ![wdev[c]].id = wsrc[c]]
    BY <1>4 DEF WorkerAnswer, AnswerDirect, AnswerHandler
  <2>4. TableType'
    BY <2>1, <2>3 DEF TableType, DeviceType, Entry
  <2>5. TaskType'
    BY <1>4, <2>1, <2>2
       DEF WorkerAnswer, AnswerDirect, AnswerHandler, TaskType, TaskPC
  <2> QED
    BY <1>4, <2>4, <2>5, TypeSame DEF WorkerAnswer
<1>5. CASE WorkerSend(c)
  <2>1. TaskType'
    BY <1>5 DEF WorkerSend, NextFrame, WorkerLoop, TaskType, TaskPC
  <2> QED
    BY <1>5, <2>1, TypeSame DEF WorkerSend
<1>6. CASE WorkerRemove(c)
  <2>1. TableType'
    BY <1>6, EntryOfIs, RemoveOne, TypeSame DEF WorkerRemove
  <2>2. TaskType'
    BY <1>6 DEF WorkerRemove, TaskType, TaskPC
  <2> QED
    BY <1>6, <2>1, <2>2, TypeSame DEF WorkerRemove
<1>7. CASE WorkerClose(c)
  <2>1. KernelType'
    BY <1>7, CloseOnly DEF WorkerClose
  <2>2. PoolType' /\ TaskType'
    BY <1>7 DEF WorkerClose, Pool!Finish, PoolType, TaskType, TaskPC
  <2> QED
    BY <1>7, <2>1, <2>2, TypeSame DEF WorkerClose
<1> QED
  BY <1>1, <1>2, <1>3, <1>4, <1>5, <1>6, <1>7 DEF WorkerStep

LEMMA TypeHeartbeat == TypeInv /\ HeartbeatStep => TypeInv'
<1> SUFFICES ASSUME TypeInv, HeartbeatStep PROVE TypeInv'
  OBVIOUS
<1> USE GatewayAssumption DEF TypeInv
<1>0. device_count \in 0 .. MaxClients /\ MaxClients \in Nat
  BY DEF TableType
<1>1. CASE HeartbeatBegin \/ HeartbeatStop \/ HeartbeatPing \/ HeartbeatSent \/ HeartbeatEnd
  <2>1. BeatType'
    BY <1>0, <1>1 DEF HeartbeatBegin, HeartbeatStop, HeartbeatPing, HeartbeatSent,
                      HeartbeatEnd, HeartbeatLoop, BeatType
  <2>2. StopType'
    BY <1>1 DEF HeartbeatBegin, HeartbeatStop, HeartbeatPing, HeartbeatSent, HeartbeatEnd,
                StopType
  <2>3. FlagType'
    BY <1>1 DEF HeartbeatBegin, HeartbeatStop, HeartbeatPing, HeartbeatSent, HeartbeatEnd,
                FlagType
  <2> QED
    BY <1>1, <2>1, <2>2, <2>3, TypeSame
       DEF HeartbeatBegin, HeartbeatStop, HeartbeatPing, HeartbeatSent, HeartbeatEnd
<1>2. CASE HeartbeatSend
  <2>1. hi \in Index
    BY <1>2 DEF HeartbeatSend, BeatType, Index
  <2>2. devices[hi].fd \in FD \cup {0}
    BY <2>1 DEF TableType, DeviceType
  <2>3. BeatType'
    BY <1>2, <2>2 DEF HeartbeatSend, BeatType
  <2> QED
    BY <1>2, <2>3, TypeSame DEF HeartbeatSend
<1>3. CASE HeartbeatDrop
  <2>1. hi \in Entry
    BY <1>0, <1>3 DEF HeartbeatDrop, BeatType, Entry, Index
  <2>2. TableType' /\ KernelType'
    BY <1>3, <2>1, CloseOnly, RemoveOne DEF HeartbeatDrop
  <2> QED
    BY <1>3, <2>2, TypeSame DEF HeartbeatDrop
<1>4. CASE HeartbeatCharge \/ HeartbeatReset
  <2>1. hi \in Index
    BY <1>0, <1>4 DEF HeartbeatCharge, HeartbeatReset, BeatType, Index
  <2>2. device_count' = device_count /\ \E n \in Nat :
           devices' = devices \/ devices' = [devices EXCEPT ![hi].fail = n]
    BY <1>4, <2>1 DEF HeartbeatCharge, HeartbeatReset, TableType, DeviceType
  <2>3. TableType'
    BY <2>1, <2>2 DEF TableType, DeviceType, Entry
  <2>4. BeatType'
    BY <1>0, <1>4 DEF HeartbeatCharge, HeartbeatReset, BeatType
  <2>5. StopType' /\ FlagType'
    BY <1>4 DEF HeartbeatCharge, HeartbeatReset, StopType, FlagType
  <2> QED
    BY <1>4, <2>3, <2>4, <2>5, TypeSame DEF HeartbeatCharge, HeartbeatReset
<1> QED
  BY <1>1, <1>2, <1>3, <1>4 DEF HeartbeatStep

LEMMA TypeStep == TypeInv /\ QueueInv /\ [Next]_vars => TypeInv'
<1> SUFFICES ASSUME TypeInv, QueueInv, [Next]_vars PROVE TypeInv'
  OBVIOUS
<1> USE GatewayAssumption DEF TypeInv
<1>1. ASSUME NEW c \in Conn, SendFrame(c) \/ HangUp(c) \/ Stall(c) \/ Drain(c)
      PROVE  TypeInv'
  <2>1. KernelType'
    BY <1>1 DEF SendFrame, HangUp, Stall, Drain, KernelType
  <2> QED
    BY <1>1, <2>1, TypeSame DEF SendFrame, HangUp, Stall, Drain
<1>2. ASSUME NEW i \in Index, Age(i) PROVE TypeInv'
  <2>1. TableType'
    BY <1>2 DEF Age, TableType, DeviceType, Entry
  <2> QED
    BY <1>2, <2>1, TypeSame DEF Age
<1>3. CASE WorkerStart
  <2>1. Head(pending) \in Conn /\ PoolType'
    BY <1>3 DEF WorkerStart, Pool!Start, PoolType
  <2>2. TaskType'
    <3>1. wfd[Head(pending)] \in FD
      <4>1. pending \in Seq(Conn) /\ pending # << >>
        BY <1>3 DEF WorkerStart, Pool!Start, PoolType
      <4>2. Head(pending) = pending[1] /\ 1 \in 1 .. Len(pending)
        BY <4>1
      <4>3. wpc[Head(pending)] = "queued"
        BY <4>2 DEF QueueInv
      <4> QED
        BY <2>1, <4>3 DEF TaskType
    <3> QED
      BY <1>3, <2>1, <3>1 DEF WorkerStart, WorkerLoop, TaskType, TaskPC
  <2> QED
    BY <1>3, <2>1, <2>2, TypeSame DEF WorkerStart
<1>4. CASE ConsoleStep \/ RestartBegin \/ Quit
  <2>1. StopType'
    BY <1>4 DEF ConsoleStep, StartHeartbeat, RestartSend, RestartEnd, RestartBegin, Quit,
                StopType, TableType
  <2>2. BeatType'
    BY <1>4 DEF ConsoleStep, StartHeartbeat, RestartSend, RestartEnd, RestartBegin, Quit,
                BeatType
  <2>3. FlagType'
    BY <1>4 DEF ConsoleStep, StartHeartbeat, RestartSend, RestartEnd, RestartBegin, Quit,
                FlagType
  <2> QED
    BY <1>4, <2>1, <2>2, <2>3, TypeSame DEF ConsoleStep, StartHeartbeat, RestartSend, RestartEnd,
                                RestartBegin, Quit
<1>5. CASE StopStep
  <2>1. UNCHANGED <<task, accept, beat>> /\ StopType'
    BY <1>5 DEF StopStep, StopListen, StopJoin, StopClose, StopDestroy, StopFree, StopType
  <2>5. FlagType'
    BY <1>5 DEF StopStep, StopListen, StopJoin, StopClose, StopDestroy, StopFree, FlagType
  <2>2. CASE StopListen \/ StopJoin \/ StopFree
    BY <2>1, <2>5, <2>2, TypeSame DEF StopListen, StopJoin, StopFree
  <2>3. CASE StopClose
    <3>1. KernelType'
      BY <2>3, CloseOnly DEF StopClose
    <3>2. TableType'
      BY <2>3 DEF StopClose, TableType, Entry, Index
    <3> QED
      BY <2>1, <2>5, <2>3, <3>1, <3>2, TypeSame DEF StopClose
  <2>4. CASE StopDestroy
    BY <2>1, <2>5, <2>4, TypeSame DEF StopDestroy, Pool!Close, TypeInv, PoolType
  <2> QED
    BY <1>5, <2>2, <2>3, <2>4 DEF StopStep
<1>6. CASE UNCHANGED vars
  BY <1>6, TypeSame DEF vars
<1> QED
  BY <1>1, <1>2, <1>3, <1>4, <1>5, <1>6, TypeAccept, TypeWorker, TypeHeartbeat DEF Next

\* Every variable keeps its type, for any number of clients, descriptors and
\* entries: no index leaves the table (add_device, remove_device, heartbeat_thread_func).
THEOREM TypeCorrect == Spec => []TypeOK
BY TypeInit, TypeStep, QueueInit, QueueStep, TypeInvIsType, PTL DEF Spec

-----------------------------------------------------------------------------
(* Every entry is served.  That some task has the entry's descriptor is not  *)
(* inductive: descriptors are reused, so that two entries may share one, and *)
(* a task removes the first entry that has its own.  What is kept is that    *)
(* the entries can be assigned to different tasks, each with the descriptor  *)
(* of its entry and its remove_device still to come.                         *)

\* A connection has a task only from Submit on.
FreshInv ==
    /\ \A c \in Conn : conn[c] = "new" => wpc[c] = "none"
    /\ apc \in {"add", "submit"} => wpc[aconn] = "none" /\ conn[aconn] # "new"

LEMMA FreshInit == Init => FreshInv
BY DEF Init, FreshInv

LEMMA FreshStep == TypeInv /\ QueueInv /\ FreshInv /\ [Next]_vars => FreshInv'
<1> SUFFICES ASSUME TypeInv, QueueInv, FreshInv, [Next]_vars PROVE FreshInv'
  OBVIOUS
<1>0. /\ TableType /\ KernelType /\ wpc \in [Conn -> TaskPC]
      /\ conn \in [Conn -> {"new", "open", "hup", "dropped"}]
      /\ apc \in {"add", "submit"} => aconn \in Conn
  BY DEF TypeInv, TaskType, KernelType, AcceptType
<1>a. ASSUME apc' = apc \/ apc' \notin {"add", "submit"}, aconn' = aconn,
             \A c \in Conn : /\ conn'[c] = "new" <=> conn[c] = "new"
                             /\ wpc[c] = "none" => wpc'[c] = "none"
      PROVE  FreshInv'
  BY <1>0, <1>a DEF FreshInv
<1>1. CASE Accept
  BY <1>0, <1>1 DEF Accept, FreshInv
<1>2. CASE Submit
  <2>1. /\ aconn \in Conn /\ conn[aconn] # "new" /\ UNCHANGED kernel
        /\ wpc' = [wpc EXCEPT ![aconn] = "queued"] /\ apc' \notin {"add", "submit"}
    BY <1>0, <1>2 DEF Submit, AcceptLoop, FreshInv
  <2> QED
    BY <1>0, <2>1 DEF FreshInv
<1>3. CASE AcceptTimeout
  BY <1>0, <1>3, <1>a DEF AcceptTimeout, AcceptLoop
<1>4. CASE AddDevice
  <2>1. CASE device_count >= MaxClients /\ CloseAll({afd}) /\ apc' = AcceptLoop
    BY <1>0, <1>4, <1>a, <2>1, CloseOnly DEF AddDevice, AcceptLoop
  <2>2. CASE apc' = "submit" /\ UNCHANGED conn
    BY <1>0, <1>4, <2>2 DEF AddDevice, FreshInv
  <2> QED
    BY <1>4, <2>1, <2>2 DEF AddDevice
<1>5. CASE WorkerStart
  <2>1. wpc[Head(pending)] = "queued" /\ Head(pending) \in Conn
    BY <1>5 DEF WorkerStart, Pool!Start, QueueInv, TypeInv, PoolType
  <2> QED
    BY <1>0, <1>5, <1>a, <2>1 DEF WorkerStart
<1>6. ASSUME NEW c \in Conn, WorkerStep(c) PROVE FreshInv'
  <2>1. UNCHANGED accept /\ wpc[c] # "none" /\ \E p : wpc' = [wpc EXCEPT ![c] = p]
    BY <1>6 DEF WorkerStep, WorkerRecv, WorkerFind, WorkerActivity, WorkerAnswer,
                WorkerSend, WorkerRemove, WorkerClose, NextFrame
  <2>2. \A d \in Conn : conn'[d] = "new" <=> conn[d] = "new"
    <3>1. UNCHANGED conn \/ CloseAll({wfd[c]})
      BY <1>6 DEF WorkerStep, WorkerRecv, WorkerFind, WorkerActivity, WorkerAnswer,
                  WorkerSend, WorkerRemove, WorkerClose
    <3> QED
      BY <1>0, <3>1, CloseOnly
  <2> QED
    BY <1>0, <1>a, <2>1, <2>2
<1>7. ASSUME NEW c \in Conn, SendFrame(c) \/ HangUp(c) \/ Stall(c) \/ Drain(c)
      PROVE  FreshInv'
  BY <1>0, <1>7, <1>a DEF SendFrame, HangUp, Stall, Drain
<1>8. ASSUME NEW i \in Index, Age(i) PROVE FreshInv'
  BY <1>8, <1>a DEF Age
<1>9. CASE HeartbeatDrop \/ StopClose
  <2>1. \E F : CloseAll(F)
    BY <1>9 DEF HeartbeatDrop, StopClose
  <2>2. UNCHANGED <<accept, wpc>>
    BY <1>9 DEF HeartbeatDrop, StopClose
  <2> QED
    BY <1>0, <1>a, <2>1, <2>2, CloseOnly
<1>10. CASE HeartbeatStep /\ ~HeartbeatDrop
  BY <1>10, <1>a DEF HeartbeatStep, HeartbeatBegin, HeartbeatStop, HeartbeatPing,
                     HeartbeatSend, HeartbeatSent, HeartbeatCharge, HeartbeatReset,
                     HeartbeatEnd
<1>11. CASE ConsoleStep \/ RestartBegin \/ Quit
  BY <1>11, <1>a DEF ConsoleStep, StartHeartbeat, RestartSend, RestartEnd, RestartBegin,
                     Quit
<1>12. CASE StopListen \/ StopJoin \/ StopDestroy \/ StopFree
  BY <1>12, <1>a DEF StopListen, StopJoin, StopDestroy, StopFree
<1>13. CASE UNCHANGED vars
  BY <1>13, <1>a DEF vars
<1> QED
  BY <1>1, <1>2, <1>3, <1>4, <1>5, <1>6, <1>7, <1>8, <1>9, <1>10, <1>11, <1>12, <1>13
     DEF Next, AcceptStep, StopStep

\* Connection c has a task, or is about to, that will call remove_device for f.
Assigned(c, f) ==
    \/ wpc[c] \notin {"none", "close"} /\ wfd[c] = f
    \/ apc = "submit" /\ aconn = c /\ afd = f

ServedBy(s) ==
    /\ s \in [Entry -> Conn]
    /\ \A i \in Entry : Assigned(s[i], devices[i].fd)
    /\ \A i, j \in Entry : s[i] = s[j] => i = j

Served == \E s \in [Entry -> Conn] : ServedBy(s)

LEMMA ServedInit == Init => Served
<1> SUFFICES ASSUME Init PROVE Served
  OBVIOUS
<1>1. Entry = {}
  BY DEF Init, Entry, Index
<1>2. [i \in Entry |-> CHOOSE c \in Conn : TRUE] \in [Entry -> Conn]
  BY <1>1
<1> QED
  BY <1>1, <1>2 DEF Served, ServedBy

\* No entry is added and no task gives up its own.
LEMMA ServedSame ==
    ASSUME Served,
           \A i \in Entry' : i \in Entry /\ devices'[i].fd = devices[i].fd,
           \A c \in Conn, f \in FD \cup {0} : Assigned(c, f) => Assigned(c, f)',
           \A i \in Entry : devices[i].fd \in FD \cup {0}
    PROVE  Served'
<1>1. PICK s \in [Entry -> Conn] : ServedBy(s)
  BY DEF Served
<1>2. PICK t : t = [i \in Entry' |-> s[i]]
  OBVIOUS
<1>3. t \in [Entry' -> Conn]
  BY <1>2
<1>4. \A i \in Entry' : Assigned(t[i], devices[i].fd)'
  <2> SUFFICES ASSUME NEW i \in Entry' PROVE Assigned(t[i], devices[i].fd)'
    OBVIOUS
  <2>1. t[i] = s[i] /\ s[i] \in Conn /\ Assigned(s[i], devices[i].fd)
    BY <1>1, <1>2 DEF ServedBy
  <2>2. Assigned(s[i], devices[i].fd) => Assigned(t[i], devices[i].fd)'
    BY <2>1 DEF Assigned
  <2> QED
    BY <2>1, <2>2
<1>5. \A i, j \in Entry' : t[i] = t[j] => i = j
  BY <1>1, <1>2 DEF ServedBy
<1>6. ServedBy(t)'
  BY <1>3, <1>4, <1>5 DEF ServedBy
<1> QED
  BY <1>3, <1>6 DEF Served

\* Entry i leaves, and task d with it unless no task gives up its own (d is then
\* none of Conn): the task of i takes over d's entry, which has the same descriptor.
LEMMA ServedRemove ==
    ASSUME TypeInv, Served, NEW i \in Entry, RemoveEntry(i), NEW d,
           \A c \in Conn, f \in FD \cup {0} :
              /\ c # d /\ Assigned(c, f) => Assigned(c, f)'
              /\ c = d /\ Assigned(c, f) => f = devices[i].fd
    PROVE  Served'
<1>0. TableType
  BY DEF TypeInv
<1>1. PICK s \in [Entry -> Conn] : ServedBy(s)
  BY DEF Served
<1>2. PICK t : t = [j \in Entry' |-> IF s[WasAt(i, j)] = d THEN s[i] ELSE s[WasAt(i, j)]]
  OBVIOUS
<1>3. \A j \in Entry' : /\ WasAt(i, j) \in Entry \ {i}
                        /\ devices'[j] = devices[WasAt(i, j)]
  BY <1>0, RemoveOne
<1>4. t \in [Entry' -> Conn]
  BY <1>2, <1>3
<1>5. \A j \in Entry' : Assigned(t[j], devices[j].fd)'
  <2> SUFFICES ASSUME NEW j \in Entry' PROVE Assigned(t[j], devices[j].fd)'
    OBVIOUS
  <2>1. PICK k \in Entry : k = WasAt(i, j) /\ k # i /\ devices'[j] = devices[k]
    BY <1>3
  <2>2. PICK f \in FD : f = devices[k].fd
    BY <1>0 DEF TableType
  <2>3. /\ Assigned(s[k], f) /\ Assigned(s[i], devices[i].fd)
        /\ s[k] \in Conn /\ s[i] \in Conn /\ s[i] # s[k]
    BY <1>1, <2>1, <2>2 DEF ServedBy
  <2>4. t[j] \in Conn /\ t[j] # d /\ Assigned(t[j], f)
    BY <1>2, <2>1, <2>2, <2>3
  <2>5. Assigned(t[j], f)'
    BY <2>2, <2>4
  <2> QED
    BY <2>1, <2>2, <2>5 DEF Assigned
<1>6. \A j, k \in Entry' : t[j] = t[k] => j = k
  <2> SUFFICES ASSUME NEW j \in Entry', NEW k \in Entry', t[j] = t[k] PROVE j = k
    OBVIOUS
  <2>1. WasAt(i, j) = WasAt(i, k)
    BY <1>1, <1>2, <1>3 DEF ServedBy
  <2> QED
    BY <1>0, <2>1, RemoveOne
<1>7. ServedBy(t)'
  BY <1>4, <1>5, <1>6 DEF ServedBy
<1> QED
  BY <1>4, <1>7 DEF Served

\* The new entry's task is the one the accept thread is about to queue.
LEMMA ServedAdd ==
    ASSUME TypeInv, FreshInv, Served, AddDevice, device_count < MaxClients
    PROVE  Served'
<1>0. /\ device_count \in Nat /\ MaxClients \in Nat /\ device_count \in Index
      /\ devices \in [Index -> DeviceType] /\ aconn \in Conn
      /\ apc = "add" /\ wpc[aconn] = "none"
  BY GatewayAssumption DEF TypeInv, TableType, AcceptType, AddDevice, FreshInv, Index
<1>1. /\ devices' = [devices EXCEPT ![device_count] = [NoDevice EXCEPT !.fd = afd]]
      /\ device_count' = device_count + 1 /\ apc' = "submit"
      /\ UNCHANGED <<aconn, afd, wpc, wfd>>
  BY <1>0 DEF AddDevice
<1>2. PICK s \in [Entry -> Conn] : ServedBy(s)
  BY DEF Served
<1>3. PICK t : t = [j \in Entry' |-> IF j = device_count THEN aconn ELSE s[j]]
  OBVIOUS
<1>4. \A j \in Entry' : j # device_count => j \in Entry /\ devices'[j] = devices[j]
  BY <1>0, <1>1 DEF Entry, Index
<1>5. devices'[device_count].fd = afd
  BY <1>0, <1>1 DEF NoDevice
<1>6. \A j \in Entry : s[j] # aconn
  BY <1>0, <1>2 DEF ServedBy, Assigned
<1>7. t \in [Entry' -> Conn]
  BY <1>0, <1>3, <1>4
<1>8. \A j \in Entry' : Assigned(t[j], devices[j].fd)'
  BY <1>0, <1>1, <1>2, <1>3, <1>4, <1>5 DEF ServedBy, Assigned
<1>9. \A j, k \in Entry' : t[j] = t[k] => j = k
  BY <1>2, <1>3, <1>4, <1>6 DEF ServedBy
<1>10. ServedBy(t)'
  BY <1>7, <1>8, <1>9 DEF ServedBy
<1> QED
  BY <1>7, <1>10 DEF Served

LEMMA ServedStep ==
    TypeInv /\ QueueInv /\ FreshInv /\ Served /\ [Next]_vars => Served'
<1> SUFFICES ASSUME TypeInv, QueueInv, FreshInv, Served, [Next]_vars PROVE Served'
  OBVIOUS
<1>0. /\ TableType /\ wpc \in [Conn -> TaskPC] /\ wfd \in [Conn -> FD \cup {0}]
      /\ apc \in {"add", "submit"} => aconn \in Conn
      /\ \A i \in Entry : devices[i].fd \in FD \cup {0}
      /\ device_count \in Nat /\ MaxClients \in Nat
  BY GatewayAssumption DEF TypeInv, TaskType, AcceptType, TableType
<1>a. ASSUME UNCHANGED table,
             \A c \in Conn, f \in FD \cup {0} : Assigned(c, f) => Assigned(c, f)'
      PROVE  Served'
  BY <1>0, <1>a, ServedSame DEF Entry
<1>b. ASSUME UNCHANGED <<table, wpc, wfd, accept>> PROVE Served'
  BY <1>a, <1>b DEF Assigned
<1>1. CASE AddDevice
  <2>1. CASE device_count < MaxClients
    BY <1>1, <2>1, ServedAdd
  <2>2. CASE device_count >= MaxClients
    BY <1>0, <1>1, <1>a, <2>2 DEF AddDevice, Assigned
  <2> QED
    BY <1>0, <2>1, <2>2
<1>2. CASE Submit
  <2>1. /\ aconn \in Conn /\ wpc[aconn] = "none" /\ UNCHANGED table
        /\ wpc' = [wpc EXCEPT ![aconn] = "queued"] /\ wfd' = [wfd EXCEPT ![aconn] = afd]
    BY <1>0, <1>2 DEF Submit, FreshInv
  <2> QED
    BY <1>0, <1>a, <2>1 DEF Assigned
<1>3. CASE AcceptTimeout \/ Accept
  BY <1>3, <1>a DEF AcceptTimeout, AcceptLoop, Accept, Assigned
<1>4. CASE WorkerStart
  <2>1. WorkerLoop \notin {"none", "close"}
    BY DEF WorkerLoop
  <2> QED
    BY <1>0, <1>4, <1>a, <2>1 DEF WorkerStart, Assigned
<1>5. ASSUME NEW c \in Conn, WorkerRemove(c) PROVE Served'
  <2>1. /\ wpc[c] = "leave" /\ wpc' = [wpc EXCEPT ![c] = "close"]
        /\ UNCHANGED <<wfd, accept>>
    BY <1>5 DEF WorkerRemove
  <2>2. CASE EntryOf(wfd[c]) = {} /\ UNCHANGED table
    <3>1. \A i \in Entry : devices[i].fd # wfd[c]
      BY <1>0, <2>2, EntryFound
    <3>2. PICK s \in [Entry -> Conn] : ServedBy(s)
      BY DEF Served
    <3>3. \A i \in Entry : s[i] # c
      BY <2>1, <3>1, <3>2 DEF ServedBy, Assigned, FreshInv
    <3>4. ServedBy(s)'
      BY <1>0, <2>1, <2>2, <3>2, <3>3 DEF ServedBy, Assigned, Entry
    <3> QED
      BY <2>2, <3>4 DEF Served, Entry
  <2>3. ASSUME NEW i \in EntryOf(wfd[c]), RemoveEntry(i) PROVE Served'
    <3>1. i \in Entry /\ devices[i].fd = wfd[c]
      BY EntryOfIs
    <3>2. \A d \in Conn, f \in FD \cup {0} :
             /\ d # c /\ Assigned(d, f) => Assigned(d, f)'
             /\ d = c /\ Assigned(d, f) => f = devices[i].fd
      BY <1>0, <2>1, <3>1 DEF Assigned, FreshInv
    <3> QED
      BY <2>3, <3>1, <3>2, ServedRemove DEF Assigned
  <2> QED
    BY <1>5, <2>2, <2>3 DEF WorkerRemove
<1>6. ASSUME NEW c \in Conn, WorkerStep(c), ~WorkerRemove(c) PROVE Served'
  <2>1. /\ UNCHANGED <<accept, device_count>>
        /\ \/ /\ UNCHANGED wfd /\ wpc[c] \notin {"none", "close"}
              /\ \E p : wpc' = [wpc EXCEPT ![c] = p] /\ p \notin {"none", "close"}
           \/ /\ wpc[c] = "close" /\ wpc' = [wpc EXCEPT ![c] = "none"]
              /\ wfd' = [wfd EXCEPT ![c] = 0]
    BY <1>6 DEF WorkerStep, WorkerRecv, WorkerFind, WorkerActivity, WorkerAnswer,
                AnswerDirect, AnswerHandler, WorkerSend, WorkerClose, NextFrame, WorkerLoop
  <2>2. \A i \in Index : devices'[i].fd = devices[i].fd
    BY <1>6, SameDescriptors DEF WorkerStep
  <2>3. \A d \in Conn, f \in FD \cup {0} : Assigned(d, f) => Assigned(d, f)'
    BY <1>0, <2>1 DEF Assigned
  <2>4. \A i \in Entry' : i \in Entry /\ devices'[i].fd = devices[i].fd
    BY <2>1, <2>2 DEF Entry
  <2> QED
    BY <1>0, <2>3, <2>4, ServedSame
<1>7. ASSUME NEW i \in Index, Age(i) PROVE Served'
  <2>1. \A j \in Index : devices'[j].fd = devices[j].fd
    BY <1>7, SameDescriptors
  <2> QED
    BY <1>0, <1>7, <2>1, ServedSame DEF Age, Entry, Assigned
<1>8. ASSUME NEW c \in Conn, SendFrame(c) \/ HangUp(c) \/ Stall(c) \/ Drain(c)
      PROVE  Served'
  BY <1>8, <1>b DEF SendFrame, HangUp, Stall, Drain
<1>9. CASE HeartbeatDrop
  <2>1. hi \in Entry /\ RemoveEntry(hi) /\ UNCHANGED <<wpc, wfd, accept>>
    BY <1>0, <1>9 DEF HeartbeatDrop, TypeInv, BeatType, TableType, Entry, Index
  <2>2. \E d : d \notin Conn
    BY GatewayAssumption
  <2> QED
    BY <2>1, <2>2, ServedRemove DEF Assigned
<1>10. CASE HeartbeatCharge \/ HeartbeatReset
  <2>1. \A j \in Index : devices'[j].fd = devices[j].fd
    BY <1>10, SameDescriptors DEF HeartbeatStep, HeartbeatCharge, HeartbeatReset, HeartbeatDrop
  <2> QED
    BY <1>0, <1>10, <2>1, ServedSame DEF HeartbeatCharge, HeartbeatReset, Entry, Assigned
<1>11. CASE HeartbeatBegin \/ HeartbeatStop \/ HeartbeatPing \/ HeartbeatSend
            \/ HeartbeatSent \/ HeartbeatEnd
  BY <1>11, <1>b DEF HeartbeatBegin, HeartbeatStop, HeartbeatPing, HeartbeatSend,
                     HeartbeatSent, HeartbeatEnd
<1>12. CASE ConsoleStep \/ RestartBegin \/ Quit
  BY <1>12, <1>b DEF ConsoleStep, StartHeartbeat, RestartSend, RestartEnd, RestartBegin,
                     Quit
<1>13. CASE StopClose
  <2>1. Entry' = {} /\ UNCHANGED <<wpc, wfd, accept>>
    BY <1>13 DEF StopClose, Entry, Index
  <2> QED
    BY <1>0, <2>1, ServedSame DEF Assigned
<1>14. CASE StopListen \/ StopJoin \/ StopDestroy \/ StopFree
  BY <1>14, <1>b DEF StopListen, StopJoin, StopDestroy, StopFree
<1>15. CASE UNCHANGED vars
  BY <1>15, <1>b DEF vars
<1> QED
  BY <1>1, <1>2, <1>3, <1>4, <1>5, <1>6, <1>7, <1>8, <1>9, <1>10, <1>11, <1>12, <1>13,
     <1>14, <1>15 DEF Next, AcceptStep, HeartbeatStep, StopStep

\* Every entry of the table has a task, or is about to have one, whatever the
\* heartbeat drops and however descriptors are reused (gateway.c 388-400, 471-559).
THEOREM EntriesServedCorrect == Spec => []EntriesServed
<1>1. TypeInv /\ Served => EntriesServed
  <2> SUFFICES ASSUME TypeInv, Served PROVE EntriesServed
    OBVIOUS
  <2>1. PICK s \in [Entry -> Conn] : ServedBy(s)
    BY DEF Served
  <2> QED
    BY <2>1 DEF ServedBy, Assigned, EntriesServed
<1> QED
  BY TypeInit, TypeStep, QueueInit, QueueStep, FreshInit, FreshStep, ServedInit, ServedStep,
     <1>1, PTL DEF Spec

-----------------------------------------------------------------------------
(* The order of stopping: which threads are over at each stage.  That no     *)
(* descriptor is left needs one more fact, that each open one is held: by an *)
(* entry, by a running task, or by the accept thread that adds the entry.    *)

Working == spc \in {"starting", "serving", "restart"}

Emptied == spc \in {"destroy", "joinWorkers", "freed"}

StopInv ==
    /\ running <=> Working
    /\ Emptied \/ spc \in {"joinHeartbeat", "closeAll"} => apc = "stopped"
    /\ Emptied \/ spc = "closeAll" => hpc = "stopped"
    /\ Emptied => device_count = 0
    /\ closed <=> spc \in {"joinWorkers", "freed"}
    /\ spc = "freed" => active = {}

LEMMA StopInit == Init => StopInv
BY DEF Init, Pool!Init, StopInv, Working, Emptied

LEMMA StopInvStep == TypeInv /\ StopInv /\ [Next]_vars => StopInv'
<1> SUFFICES ASSUME TypeInv, StopInv, [Next]_vars PROVE StopInv'
  OBVIOUS
<1>0. /\ TableType /\ StopType /\ FlagType /\ closed \in BOOLEAN
      /\ device_count \in Nat
  BY DEF TypeInv, TableType, PoolType
<1>a. ASSUME UNCHANGED <<running, spc, closed>>, apc = "stopped" => apc' = "stopped",
             hpc = "stopped" => hpc' = "stopped", device_count = 0 => device_count' = 0,
             spc = "freed" => active' = active
      PROVE  StopInv'
  BY <1>a DEF StopInv, Working, Emptied
<1>b. Emptied => Entry = {}
  BY DEF StopInv, Entry, Index
<1>1. CASE AcceptStep \/ Accept
  <2>1. apc # "stopped" /\ UNCHANGED <<running, spc, closed, active, hpc>>
    BY <1>1 DEF AcceptStep, AcceptTimeout, AddDevice, Submit, Accept, Pool!Accept
  <2> QED
    BY <2>1 DEF StopInv, Working, Emptied
<1>2. CASE WorkerStart
  <2>1. ~closed /\ UNCHANGED <<running, spc, closed, apc, hpc, device_count>>
    BY <1>2 DEF WorkerStart, Pool!Start
  <2> QED
    BY <2>1 DEF StopInv, Working, Emptied
<1>3. ASSUME NEW c \in Conn, WorkerStep(c) PROVE StopInv'
  <2>1. UNCHANGED <<running, spc, closed, apc, hpc>>
    BY <1>3 DEF WorkerStep, WorkerRecv, WorkerFind, WorkerActivity, WorkerAnswer, WorkerSend,
                WorkerRemove, WorkerClose, Pool!Finish
  <2>2. device_count = 0 => device_count' = 0
    <3>1. device_count' = device_count \/ \E i \in EntryOf(wfd[c]) : RemoveEntry(i)
      BY <1>3 DEF WorkerStep, WorkerRecv, WorkerFind, WorkerActivity, WorkerAnswer, WorkerSend,
                  WorkerRemove, WorkerClose
    <3> QED
      BY <3>1, EntryOfIs DEF Entry, Index
  <2>3. active' = active \/ active' = active \ {c}
    BY <1>3 DEF WorkerStep, WorkerRecv, WorkerFind, WorkerActivity, WorkerAnswer, WorkerSend,
                WorkerRemove, WorkerClose, Pool!Finish
  <2> QED
    BY <2>1, <2>2, <2>3 DEF StopInv, Working, Emptied
<1>4. CASE HeartbeatStep
  <2>1. hpc # "stopped" /\ UNCHANGED <<running, spc, closed, apc, active>>
    BY <1>4 DEF HeartbeatStep, HeartbeatBegin, HeartbeatStop, HeartbeatDrop, HeartbeatPing,
                HeartbeatSend, HeartbeatSent, HeartbeatCharge, HeartbeatReset, HeartbeatEnd
  <2> QED
    BY <2>1 DEF StopInv, Working, Emptied
<1>5. CASE ConsoleStep \/ RestartBegin \/ Quit
  <2>1. Working /\ UNCHANGED closed
    BY <1>5 DEF ConsoleStep, StartHeartbeat, RestartSend, RestartEnd, RestartBegin, Quit,
                Working
  <2>2. \/ UNCHANGED running /\ Working'
        \/ running' = FALSE /\ spc' = "stop"
    BY <1>5 DEF ConsoleStep, StartHeartbeat, RestartSend, RestartEnd, RestartBegin, Quit,
                Working
  <2> QED
    BY <2>1, <2>2 DEF StopInv, Working, Emptied
<1>6. CASE StopListen \/ StopJoin \/ StopClose
  BY <1>6 DEF StopListen, StopJoin, StopClose, StopInv, Working, Emptied
<1>7. CASE StopDestroy
  BY <1>7 DEF StopDestroy, Pool!Close, StopInv, Working, Emptied
<1>8. CASE StopFree
  BY <1>8 DEF StopFree, StopInv, Working, Emptied
<1>9. ASSUME NEW c \in Conn, SendFrame(c) \/ HangUp(c) \/ Stall(c) \/ Drain(c)
      PROVE  StopInv'
  BY <1>9, <1>a DEF SendFrame, HangUp, Stall, Drain
<1>10. ASSUME NEW i \in Index, Age(i) PROVE StopInv'
  BY <1>10, <1>a DEF Age
<1>11. CASE UNCHANGED vars
  BY <1>11, <1>a DEF vars
<1> QED
  BY <1>1, <1>2, <1>3, <1>4, <1>5, <1>6, <1>7, <1>8, <1>9, <1>10, <1>11 DEF Next, StopStep

FdHeld ==
    \A f \in FD : fdtab[f] # NoConn =>
        \/ \E i \in Entry : devices[i].fd = f
        \/ \E c \in active : wfd[c] = f
        \/ apc = "add" /\ afd = f

LEMMA FdHeldInit == Init => FdHeld
BY DEF Init, FdHeld

LEMMA FdHeldStep ==
    TypeInv /\ QueueInv /\ FreshInv /\ StopInv /\ FdHeld /\ [Next]_vars => FdHeld'
<1> SUFFICES ASSUME TypeInv, QueueInv, FreshInv, StopInv, FdHeld, [Next]_vars PROVE FdHeld'
  OBVIOUS
<1>0. /\ TableType /\ KernelType /\ active \subseteq Conn /\ aconn \in Conn \cup {NoConn}
      /\ fdtab \in [FD -> Conn \cup {NoConn}]
      /\ wfd \in [Conn -> FD \cup {0}] /\ wpc \in [Conn -> TaskPC]
      /\ device_count \in Nat /\ MaxClients \in Nat /\ device_count <= MaxClients
  BY GatewayAssumption DEF TypeInv, TableType, KernelType, PoolType, TaskType, AcceptType
\* No descriptor is opened and none of its holders lets go.
<1>a. ASSUME \A f \in FD : fdtab'[f] # NoConn => fdtab[f] # NoConn,
             \A i \in Entry : i \in Entry' /\ devices'[i].fd = devices[i].fd,
             \A c \in active : c \in active' /\ wfd'[c] = wfd[c],
             apc = "add" => UNCHANGED <<apc, afd>>
      PROVE  FdHeld'
  BY <1>a DEF FdHeld
<1>b. ASSUME UNCHANGED <<fdtab, device_count, active, wfd, apc, afd>>,
             \A i \in Index : devices'[i].fd = devices[i].fd
      PROVE  FdHeld'
  BY <1>a, <1>b DEF Entry
<1>1. CASE AcceptTimeout
  BY <1>1, <1>a DEF AcceptTimeout, Entry
<1>2. CASE Accept
  <2>1. PICK c \in Conn, f \in FD : /\ fdtab' = [fdtab EXCEPT ![f] = c]
                                    /\ apc' = "add" /\ afd' = f
    BY <1>2 DEF Accept
  <2>2. apc # "add" /\ UNCHANGED <<table, active, wfd>>
    BY <1>2 DEF Accept
  <2> QED
    BY <1>0, <2>1, <2>2 DEF FdHeld, Entry
<1>3. CASE AddDevice
  <2>1. UNCHANGED <<active, wfd>>
    BY <1>3 DEF AddDevice
  <2>2. CASE device_count >= MaxClients
    <3>1. CloseAll({afd}) /\ UNCHANGED table
      BY <1>0, <1>3, <2>2 DEF AddDevice
    <3> QED
      BY <1>0, <2>1, <3>1, CloseOnly DEF FdHeld, Entry
  <2>3. CASE device_count < MaxClients
    <3>1. /\ devices' = [devices EXCEPT ![device_count] = [NoDevice EXCEPT !.fd = afd]]
          /\ device_count' = device_count + 1 /\ UNCHANGED fdtab
      BY <1>0, <1>3, <2>3 DEF AddDevice
    <3>2. device_count \in Entry' /\ devices'[device_count].fd = afd
      BY <1>0, <2>3, <3>1 DEF NoDevice, TableType, Entry, Index
    <3>3. \A i \in Entry : i \in Entry' /\ devices'[i].fd = devices[i].fd
      BY <1>0, <3>1 DEF TableType, Entry, Index
    <3> QED
      BY <2>1, <3>1, <3>2, <3>3 DEF FdHeld
  <2> QED
    BY <1>0, <2>2, <2>3
<1>4. CASE Submit
  <2>1. aconn \notin active /\ UNCHANGED <<fdtab, table, active>> /\ apc = "submit"
        /\ wfd' = [wfd EXCEPT ![aconn] = afd]
    BY <1>4 DEF Submit, Pool!Accept
  <2> QED
    BY <1>0, <1>a, <2>1 DEF Entry
<1>5. CASE WorkerStart
  BY <1>0, <1>5, <1>a DEF WorkerStart, Pool!Start, Entry
<1>6. ASSUME NEW c \in Conn, WorkerRemove(c) PROVE FdHeld'
  <2>1. UNCHANGED <<fdtab, active, wfd, apc, afd>> /\ c \in active
    BY <1>6 DEF WorkerRemove, QueueInv
  <2>2. CASE UNCHANGED table
    BY <1>b, <2>1, <2>2 DEF Entry
  <2>3. ASSUME NEW i \in EntryOf(wfd[c]), RemoveEntry(i) PROVE FdHeld'
    <3>1. i \in Entry /\ devices[i].fd = wfd[c]
      BY EntryOfIs
    <3>2. \A k \in Entry \ {i} : \E j \in Entry' : devices'[j] = devices[k]
      BY <1>0, <2>3, <3>1, RemoveOne
    <3> QED
      BY <2>1, <3>1, <3>2 DEF FdHeld
  <2> QED
    BY <1>6, <2>2, <2>3 DEF WorkerRemove
<1>7. ASSUME NEW c \in Conn, WorkerClose(c) PROVE FdHeld'
  <2>1. /\ CloseAll({wfd[c]}) /\ active' = active \ {c}
        /\ wfd' = [wfd EXCEPT ![c] = 0] /\ UNCHANGED <<table, apc, afd>>
    BY <1>7 DEF WorkerClose, Pool!Finish
  <2> QED
    BY <1>0, <2>1, CloseOnly DEF FdHeld, Entry
<1>8. ASSUME NEW c \in Conn, WorkerStep(c), ~WorkerRemove(c), ~WorkerClose(c)
      PROVE  FdHeld'
  <2>1. UNCHANGED <<fdtab, device_count, active, wfd, apc, afd>>
    BY <1>8 DEF WorkerStep, WorkerRecv, WorkerFind, WorkerActivity, WorkerAnswer, WorkerSend
  <2>2. \A i \in Index : devices'[i].fd = devices[i].fd
    BY <1>8, SameDescriptors DEF WorkerStep
  <2> QED
    BY <1>b, <2>1, <2>2
<1>9. ASSUME NEW c \in Conn, SendFrame(c) \/ HangUp(c) \/ Stall(c) \/ Drain(c)
      PROVE  FdHeld'
  BY <1>9, <1>b DEF SendFrame, HangUp, Stall, Drain
<1>10. ASSUME NEW i \in Index, Age(i) PROVE FdHeld'
  <2>1. \A j \in Index : devices'[j].fd = devices[j].fd
    BY <1>10, SameDescriptors
  <2> QED
    BY <1>10, <1>b, <2>1 DEF Age
<1>11. CASE HeartbeatDrop
  <2>1. /\ CloseAll({devices[hi].fd}) /\ RemoveEntry(hi) /\ hi \in Entry
        /\ UNCHANGED <<active, wfd, apc, afd>>
    BY <1>0, <1>11 DEF HeartbeatDrop, TypeInv, BeatType, Entry, Index
  <2>2. \A k \in Entry \ {hi} : \E j \in Entry' : devices'[j] = devices[k]
    BY <1>0, <2>1, RemoveOne
  <2> QED
    BY <1>0, <2>1, <2>2, CloseOnly DEF FdHeld
<1>12. CASE HeartbeatStep /\ ~HeartbeatDrop
  <2>1. UNCHANGED <<fdtab, device_count, active, wfd, apc, afd>>
    BY <1>12 DEF HeartbeatStep, HeartbeatBegin, HeartbeatStop, HeartbeatPing, HeartbeatSend,
                 HeartbeatSent, HeartbeatCharge, HeartbeatReset, HeartbeatEnd
  <2>2. \A j \in Index : devices'[j].fd = devices[j].fd
    BY <1>12, SameDescriptors DEF HeartbeatStep
  <2> QED
    BY <1>b, <2>1, <2>2
<1>13. CASE ConsoleStep \/ RestartBegin \/ Quit
  BY <1>13, <1>b DEF ConsoleStep, StartHeartbeat, RestartSend, RestartEnd, RestartBegin,
                     Quit
<1>14. CASE StopClose
  <2>1. /\ CloseAll({devices[i].fd : i \in {j \in Index : j < device_count}})
        /\ UNCHANGED <<active, wfd, apc, afd>>
    BY <1>14 DEF StopClose
  <2>2. \A f \in FD : fdtab'[f] # NoConn =>
           fdtab[f] # NoConn /\ \A i \in Entry : devices[i].fd # f
    BY <1>0, <2>1, CloseOnly DEF Entry
  <2> QED
    BY <2>1, <2>2 DEF FdHeld
<1>15. CASE StopListen \/ StopJoin \/ StopDestroy \/ StopFree
  BY <1>15, <1>b DEF StopListen, StopJoin, StopDestroy, StopFree, Pool!Close
<1>16. CASE UNCHANGED vars
  BY <1>16, <1>b DEF vars
<1> QED
  BY <1>1, <1>2, <1>3, <1>4, <1>5, <1>6, <1>7, <1>8, <1>9, <1>10, <1>11, <1>12, <1>13,
     <1>14, <1>15, <1>16 DEF Next, AcceptStep, StopStep

\* Quitting frees the gateway only when no thread uses it and no descriptor is left
\* open, whenever clients came, hung up or timed out (menu.c 127-138, gateway_stop).
THEOREM FreedUnusedCorrect == Spec => []FreedUnused
<1>1. TypeInv /\ QueueInv /\ StopInv /\ FdHeld => FreedUnused
  <2> SUFFICES ASSUME TypeInv, QueueInv, StopInv, FdHeld, spc = "freed" PROVE FreedUnused
    BY DEF FreedUnused
  <2>1. /\ apc = "stopped" /\ hpc = "stopped" /\ closed /\ active = {} /\ Entry = {}
    BY DEF StopInv, Emptied, Entry, Index
  <2>2. \A c \in Conn : wpc[c] \in {"none", "queued"}
    BY <2>1 DEF QueueInv
  <2>3. \A f \in FD : fdtab[f] = NoConn
    BY <2>1 DEF FdHeld
  <2> QED
    BY <2>1, <2>2, <2>3 DEF FreedUnused
<1> QED
  BY TypeInit, TypeStep, QueueInit, QueueStep, FreshInit, FreshStep, StopInit, StopInvStep,
     FdHeldInit, FdHeldStep, <1>1, PTL DEF Spec

-----------------------------------------------------------------------------
(* The table and the descriptors as long as the heartbeat drops no device.  *)
(* A descriptor is then open from accept until its own worker closes it, and *)
(* the entry for it is gone by then: accept cannot return a descriptor that  *)
(* a task or an entry still names.  A drop breaks this, and the theorems.    *)

OwnFd ==
    \A c \in Conn : wpc[c] # "none" =>
        \/ fdtab[wfd[c]] = c
        \/ fdtab[wfd[c]] = NoConn /\ Emptied

AcceptedOpen ==
    /\ apc \in {"add", "submit"} => fdtab[afd] = aconn
    /\ apc = "add" => \A i \in Entry : devices[i].fd # afd

RemovedFirst == \A c \in Conn : wpc[c] = "close" => \A i \in Entry : devices[i].fd # wfd[c]

\* A worker leaves at the end of its connection, or of the gateway.
LeavesAtEnd == \A c \in Conn : wpc[c] \in {"leave", "close"} => ~running \/ conn[c] # "open"

ExactInv == TableExact /\ OwnFd /\ AcceptedOpen /\ RemovedFirst /\ LeavesAtEnd

LEMMA ExactInit == Init => ExactInv
BY DEF Init, ExactInv, TableExact, OwnFd, AcceptedOpen, RemovedFirst, LeavesAtEnd,
       Entry, Index

\* What the other facts say of a descriptor that the accept thread has.
LEMMA AcceptedFd ==
    ASSUME TypeInv, FreshInv, StopInv, ExactInv, apc \in {"add", "submit"}
    PROVE  /\ ~Emptied /\ afd \in FD /\ aconn \in Conn /\ wpc[aconn] = "none"
           /\ \A c \in Conn : wpc[c] # "none" => wfd[c] # afd
BY DEF TypeInv, AcceptType, FreshInv, StopInv, ExactInv, OwnFd, AcceptedOpen, Emptied

\* A step that opens, closes, adds and removes nothing.
LEMMA ExactSame ==
    ASSUME TypeInv, ExactInv,
           UNCHANGED <<device_count, fdtab, wfd, accept>>,
           running' => running, Emptied => Emptied',
           \A i \in Index : devices'[i].fd = devices[i].fd,
           \A c \in Conn :
              /\ wpc[c] = "none" => wpc'[c] = "none"
              /\ wpc'[c] = "close" => wpc[c] = "close"
              /\ wpc'[c] \in {"leave", "close"} =>
                    wpc[c] \in {"leave", "close"} \/ ~running' \/ conn'[c] # "open"
              /\ conn'[c] = "open" => conn[c] = "open"
    PROVE  ExactInv'
<1>1. Entry' = Entry
  BY DEF Entry
<1>2. TableExact' /\ AcceptedOpen' /\ RemovedFirst'
  BY <1>1 DEF ExactInv, TableExact, AcceptedOpen, RemovedFirst, Entry
<1>3. OwnFd' /\ LeavesAtEnd'
  BY DEF ExactInv, OwnFd, LeavesAtEnd
<1> QED
  BY <1>2, <1>3 DEF ExactInv

LEMMA ExactAccept ==
    ASSUME TypeInv, FreshInv, StopInv, ExactInv, Accept PROVE ExactInv'
<1>0. /\ fdtab \in [FD -> Conn \cup {NoConn}] /\ NoConn \notin Conn
      /\ \A c \in Conn : wpc[c] # "none" => wfd[c] \in FD
      /\ conn \in [Conn -> {"new", "open", "hup", "dropped"}]
      /\ \A i \in Entry : devices[i].fd \in FD
  BY GatewayAssumption DEF TypeInv, KernelType, TaskType, TableType
<1>1. PICK c \in Conn, f \in FD :
         /\ conn[c] = "new" /\ fdtab[f] = NoConn
         /\ fdtab' = [fdtab EXCEPT ![f] = c] /\ conn' = [conn EXCEPT ![c] = "open"]
         /\ apc' = "add" /\ aconn' = c /\ afd' = f
  BY DEF Accept
<1>2. apc = "select" /\ UNCHANGED <<running, table, wpc, wfd, spc>>
  BY DEF Accept
<1>3. ~Emptied
  BY <1>2 DEF StopInv
<1>4. Entry' = Entry /\ \A i \in Entry : devices[i].fd # f /\ fdtab'[devices[i].fd] # NoConn
  BY <1>0, <1>1, <1>2 DEF ExactInv, TableExact, Entry
<1>5. TableExact' /\ AcceptedOpen' /\ RemovedFirst'
  BY <1>0, <1>1, <1>2, <1>4 DEF ExactInv, TableExact, AcceptedOpen, RemovedFirst
<1>6. OwnFd'
  BY <1>0, <1>1, <1>2, <1>3 DEF ExactInv, OwnFd
<1>7. LeavesAtEnd'
  BY <1>0, <1>1, <1>2 DEF ExactInv, LeavesAtEnd, FreshInv
<1> QED
  BY <1>2, <1>5, <1>6, <1>7 DEF ExactInv

LEMMA ExactAdd ==
    ASSUME TypeInv, FreshInv, StopInv, ExactInv, AddDevice PROVE ExactInv'
<1>0. /\ KernelType /\ apc = "add" /\ devices \in [Index -> DeviceType]
      /\ fdtab \in [FD -> Conn \cup {NoConn}] /\ NoConn \notin Conn
      /\ \A c \in Conn : wpc[c] # "none" => wfd[c] \in FD
      /\ \A i \in Entry : devices[i].fd \in FD
      /\ device_count \in Nat /\ MaxClients \in Nat
  BY GatewayAssumption DEF TypeInv, KernelType, TaskType, TableType, AddDevice
<1>1. /\ ~Emptied /\ afd \in FD /\ fdtab[afd] = aconn /\ aconn \in Conn
      /\ \A i \in Entry : devices[i].fd # afd
      /\ \A c \in Conn : wpc[c] # "none" => wfd[c] # afd
  BY <1>0, AcceptedFd DEF ExactInv, AcceptedOpen
<1>2. UNCHANGED <<running, wpc, wfd, spc, aconn, afd>>
  BY DEF AddDevice
<1>3. CASE device_count >= MaxClients
  <2>1. CloseAll({afd}) /\ UNCHANGED table /\ apc' \notin {"add", "submit"}
    BY <1>0, <1>3 DEF AddDevice, AcceptLoop
  <2>2. \A f \in FD : f # afd => fdtab'[f] = fdtab[f]
    BY <1>0, <2>1, CloseOnly
  <2>3. \A c \in Conn : conn'[c] = "open" => conn[c] = "open"
    BY <1>0, <2>1, CloseOnly
  <2>4. TableExact' /\ AcceptedOpen' /\ RemovedFirst'
    BY <1>0, <1>1, <1>2, <2>1, <2>2 DEF ExactInv, TableExact, AcceptedOpen, RemovedFirst, Entry
  <2>5. OwnFd' /\ LeavesAtEnd'
    BY <1>0, <1>1, <1>2, <2>2, <2>3 DEF ExactInv, OwnFd, LeavesAtEnd
  <2> QED
    BY <2>1, <2>4, <2>5 DEF ExactInv
<1>4. CASE device_count < MaxClients
  <2>1. /\ devices' = [devices EXCEPT ![device_count] = [NoDevice EXCEPT !.fd = afd]]
        /\ device_count' = device_count + 1 /\ apc' = "submit" /\ UNCHANGED <<fdtab, conn>>
    BY <1>0, <1>4 DEF AddDevice
  <2>2. devices'[device_count].fd = afd
    BY <1>0, <1>4, <2>1 DEF NoDevice, Index
  <2>3. \A i \in Index : i # device_count => devices'[i] = devices[i]
    BY <1>0, <2>1
  <2>4. \A i \in Entry' : i # device_count => i \in Entry /\ devices'[i] = devices[i]
    BY <1>0, <2>1, <2>3 DEF Entry, Index
  <2>5. TableExact'
    BY <1>0, <1>1, <2>1, <2>2, <2>4 DEF ExactInv, TableExact
  <2>6. AcceptedOpen' /\ RemovedFirst'
    BY <1>1, <1>2, <2>1, <2>2, <2>4 DEF ExactInv, AcceptedOpen, RemovedFirst
  <2>7. OwnFd' /\ LeavesAtEnd'
    BY <1>2, <2>1 DEF ExactInv, OwnFd, LeavesAtEnd, Emptied
  <2> QED
    BY <2>5, <2>6, <2>7 DEF ExactInv
<1> QED
  BY <1>0, <1>3, <1>4

LEMMA ExactRemove ==
    ASSUME TypeInv, ExactInv, NEW c \in Conn, WorkerRemove(c) PROVE ExactInv'
<1>0. /\ TableType /\ wpc \in [Conn -> TaskPC] /\ wpc[c] = "leave"
      /\ wpc' = [wpc EXCEPT ![c] = "close"]
      /\ UNCHANGED <<running, kernel, wfd, accept, spc>>
  BY DEF TypeInv, TaskType, WorkerRemove
<1>1. OwnFd' /\ LeavesAtEnd'
  BY <1>0 DEF ExactInv, OwnFd, LeavesAtEnd, Emptied
<1>2. CASE EntryOf(wfd[c]) = {} /\ UNCHANGED table
  <2>1. Entry' = Entry /\ \A i \in Entry : devices[i].fd # wfd[c]
    BY <1>0, <1>2, EntryFound DEF Entry
  <2>2. TableExact' /\ AcceptedOpen' /\ RemovedFirst'
    BY <1>0, <1>2, <2>1 DEF ExactInv, TableExact, AcceptedOpen, RemovedFirst
  <2> QED
    BY <1>1, <1>2, <2>2 DEF ExactInv
<1>3. ASSUME NEW i \in EntryOf(wfd[c]), RemoveEntry(i) PROVE ExactInv'
  <2>1. i \in Entry /\ devices[i].fd = wfd[c]
    BY EntryOfIs
  <2>2. /\ \A j \in Entry' : /\ WasAt(i, j) \in Entry \ {i}
                             /\ devices'[j] = devices[WasAt(i, j)]
        /\ \A j, k \in Entry' : WasAt(i, j) = WasAt(i, k) => j = k
    BY <1>0, <1>3, <2>1, RemoveOne
  <2>3. TableExact'
    BY <1>0, <2>2 DEF ExactInv, TableExact
  <2>4. \A j \in Entry' : devices'[j].fd # wfd[c]
    BY <2>1, <2>2 DEF ExactInv, TableExact
  <2>5. AcceptedOpen' /\ RemovedFirst'
    BY <1>0, <2>2, <2>4 DEF ExactInv, AcceptedOpen, RemovedFirst
  <2> QED
    BY <1>1, <2>3, <2>5 DEF ExactInv
<1> QED
  BY <1>2, <1>3 DEF WorkerRemove

LEMMA ExactClose ==
    ASSUME TypeInv, FreshInv, StopInv, ExactInv, NEW c \in Conn, WorkerClose(c)
    PROVE  ExactInv'
<1>0. /\ KernelType /\ wpc \in [Conn -> TaskPC] /\ wfd \in [Conn -> FD \cup {0}]
      /\ \A d \in Conn : wpc[d] # "none" => wfd[d] \in FD
      /\ \A i \in Entry : devices[i].fd \in FD
      /\ wpc[c] = "close" /\ CloseAll({wfd[c]}) /\ wpc' = [wpc EXCEPT ![c] = "none"]
      /\ wfd' = [wfd EXCEPT ![c] = 0] /\ UNCHANGED <<running, table, accept, spc>>
      /\ NoConn \notin Conn
  BY GatewayAssumption DEF TypeInv, KernelType, TaskType, TableType, WorkerClose
<1>1. /\ \A f \in FD : fdtab'[f] = IF f = wfd[c] THEN NoConn ELSE fdtab[f]
      /\ \A d \in Conn : conn'[d] = "open" => conn[d] = "open"
  BY <1>0, CloseOnly
<1>2. Entry' = Entry /\ \A i \in Entry : devices[i].fd # wfd[c]
  BY <1>0 DEF ExactInv, RemovedFirst, Entry
<1>3. TableExact'
  BY <1>0, <1>1, <1>2 DEF ExactInv, TableExact
<1>4. AcceptedOpen'
  BY <1>0, <1>1, <1>2, AcceptedFd DEF ExactInv, AcceptedOpen
<1>5. RemovedFirst' /\ LeavesAtEnd'
  BY <1>0, <1>1, <1>2 DEF ExactInv, RemovedFirst, LeavesAtEnd
<1>6. OwnFd'
  BY <1>0, <1>1 DEF ExactInv, OwnFd, Emptied
<1> QED
  BY <1>0, <1>3, <1>4, <1>5, <1>6 DEF ExactInv

LEMMA ExactWorker ==
    ASSUME TypeInv, StopInv, ExactInv, NEW c \in Conn,
           \/ WorkerRecv(c) \/ WorkerFind(c) \/ WorkerActivity(c) \/ WorkerAnswer(c)
           \/ WorkerSend(c)
    PROVE  ExactInv'
<1>0. wpc \in [Conn -> TaskPC] /\ devices \in [Index -> DeviceType]
  BY DEF TypeInv, TaskType, TableType
<1>1. UNCHANGED <<device_count, fdtab, conn, wfd, accept, running, spc>>
  BY DEF WorkerRecv, WorkerFind, WorkerActivity, WorkerAnswer, WorkerSend
<1>2. \A i \in Index : devices'[i].fd = devices[i].fd
  BY SameDescriptors
<1>3. wpc[c] \notin {"none", "close"}
      /\ \E p : wpc' = [wpc EXCEPT ![c] = p] /\ p # "close"
                /\ (p = "leave" => (~running \/ conn[c] # "open"))
  <2>1. CASE WorkerRecv(c)
    <3> DEFINE d == fdtab[wfd[c]]
    <3>1. wpc[c] = "select" /\ (d = c \/ (d = NoConn /\ ~running))
      BY <2>1 DEF WorkerRecv, ExactInv, OwnFd, StopInv, Emptied, Working
    <3>2. \/ wpc' = [wpc EXCEPT ![c] = "parse"] \/ wpc' = [wpc EXCEPT ![c] = WorkerLoop]
          \/ wpc' = [wpc EXCEPT ![c] = "leave"] /\ (d # NoConn => conn[d] # "open")
      BY <2>1 DEF WorkerRecv
    <3> QED
      BY <3>1, <3>2, GatewayAssumption DEF WorkerLoop
  <2>2. CASE ~WorkerRecv(c)
    BY <2>2 DEF WorkerFind, WorkerActivity, WorkerAnswer, WorkerSend, NextFrame, WorkerLoop
  <2> QED
    BY <2>1, <2>2
<1> QED
  BY <1>0, <1>1, <1>2, <1>3, ExactSame DEF Emptied

LEMMA ExactStep ==
    TypeInv /\ QueueInv /\ FreshInv /\ StopInv /\ ExactInv /\ [Next]_vars /\ ~HeartbeatDrop
        => ExactInv'
<1> SUFFICES ASSUME TypeInv, QueueInv, FreshInv, StopInv, ExactInv, [Next]_vars,
                    ~HeartbeatDrop
             PROVE  ExactInv'
  OBVIOUS
<1>0. /\ TableType /\ wpc \in [Conn -> TaskPC] /\ devices \in [Index -> DeviceType]
      /\ conn \in [Conn -> {"new", "open", "hup", "dropped"}] /\ KernelType
  BY DEF TypeInv, TaskType, TableType, KernelType
<1>a. ASSUME UNCHANGED <<table, fdtab, conn, wpc, wfd, accept>>, running' => running,
             Emptied => Emptied'
      PROVE  ExactInv'
  BY <1>a, ExactSame DEF ExactInv
<1>1. CASE AcceptTimeout
  BY <1>1 DEF AcceptTimeout, AcceptLoop, ExactInv, TableExact, OwnFd, AcceptedOpen,
              RemovedFirst, LeavesAtEnd, Entry, Emptied
<1>2. CASE Submit
  <2>1. /\ apc = "submit" /\ apc' \notin {"add", "submit"}
        /\ UNCHANGED <<running, table, fdtab, conn, spc>>
        /\ wpc' = [wpc EXCEPT ![aconn] = "queued"] /\ wfd' = [wfd EXCEPT ![aconn] = afd]
    BY <1>2 DEF Submit, AcceptLoop
  <2>2. aconn \in Conn /\ fdtab[afd] = aconn
    BY <2>1, AcceptedFd DEF ExactInv, AcceptedOpen
  <2>3. OwnFd' /\ AcceptedOpen'
    BY <1>0, <2>1, <2>2 DEF TypeInv, TaskType, ExactInv, OwnFd, AcceptedOpen, Emptied
  <2>4. TableExact' /\ RemovedFirst' /\ LeavesAtEnd'
    BY <1>0, <2>1, <2>2 DEF TypeInv, TaskType, ExactInv, TableExact, RemovedFirst,
                            LeavesAtEnd, Entry
  <2> QED
    BY <2>1, <2>3, <2>4 DEF ExactInv
<1>3. CASE WorkerStart
  <2>1. /\ Head(pending) \in Conn /\ wpc[Head(pending)] = "queued"
        /\ wpc' = [wpc EXCEPT ![Head(pending)] = WorkerLoop]
        /\ UNCHANGED <<table, fdtab, conn, wfd, accept, running, spc>>
    BY <1>3 DEF WorkerStart, Pool!Start, QueueInv, TypeInv, PoolType
  <2>2. WorkerLoop = "select" \/ (WorkerLoop = "leave" /\ ~running)
    BY DEF WorkerLoop
  <2> QED
    BY <1>0, <2>1, <2>2, ExactSame DEF ExactInv, Emptied
<1>4. ASSUME NEW c \in Conn, WorkerStep(c) PROVE ExactInv'
  BY <1>4, ExactWorker, ExactRemove, ExactClose DEF WorkerStep
<1>5. ASSUME NEW c \in Conn, SendFrame(c) \/ HangUp(c) \/ Stall(c) \/ Drain(c)
      PROVE  ExactInv'
  <2>1. UNCHANGED <<table, fdtab, wpc, wfd, accept, running, spc>>
        /\ \A d \in Conn : conn'[d] = "open" => conn[d] = "open"
    BY <1>0, <1>5 DEF SendFrame, HangUp, Stall, Drain
  <2> QED
    BY <2>1, ExactSame DEF ExactInv, Emptied
<1>6. ASSUME NEW i \in Index, Age(i) PROVE ExactInv'
  <2>1. UNCHANGED <<device_count, fdtab, conn, wpc, wfd, accept, running, spc>>
    BY <1>6 DEF Age
  <2>2. \A j \in Index : devices'[j].fd = devices[j].fd
    BY <1>6, SameDescriptors
  <2> QED
    BY <2>1, <2>2, ExactSame DEF Emptied
<1>7. CASE HeartbeatStep
  <2>1. UNCHANGED <<device_count, fdtab, conn, wpc, wfd, accept, running, spc>>
    BY <1>7 DEF HeartbeatStep, HeartbeatBegin, HeartbeatStop, HeartbeatPing, HeartbeatSend,
                HeartbeatSent, HeartbeatCharge, HeartbeatReset, HeartbeatEnd
  <2>2. \A j \in Index : devices'[j].fd = devices[j].fd
    BY <1>7, SameDescriptors
  <2> QED
    BY <2>1, <2>2, ExactSame DEF Emptied
<1>8. CASE ConsoleStep \/ RestartBegin \/ Quit
  <2>1. UNCHANGED <<table, fdtab, conn, wpc, wfd, accept>> /\ ~Emptied
    BY <1>8 DEF ConsoleStep, StartHeartbeat, RestartSend, RestartEnd, RestartBegin, Quit,
                Emptied
  <2>2. running' => running
    BY <1>8 DEF ConsoleStep, StartHeartbeat, RestartSend, RestartEnd, RestartBegin, Quit
  <2> QED
    BY <1>a, <2>1, <2>2
<1>9. CASE StopClose
  <2>1. /\ CloseAll({devices[i].fd : i \in {j \in Index : j < device_count}})
        /\ spc' = "destroy" /\ apc = "stopped" /\ Entry' = {}
        /\ UNCHANGED <<running, devices, wpc, wfd, accept>>
    BY <1>9 DEF StopClose, StopInv, Entry, Index
  <2>2. /\ \A f \in FD : fdtab'[f] \in {fdtab[f], NoConn}
        /\ \A c \in Conn : conn'[c] = "open" => conn[c] = "open"
    BY <1>0, <2>1, CloseOnly
  <2>3. OwnFd' /\ LeavesAtEnd'
    BY <2>1, <2>2 DEF TypeInv, TaskType, ExactInv, OwnFd, LeavesAtEnd, Emptied
  <2>4. TableExact' /\ AcceptedOpen' /\ RemovedFirst'
    BY <2>1 DEF TableExact, AcceptedOpen, RemovedFirst
  <2> QED
    BY <2>1, <2>3, <2>4 DEF ExactInv
<1>10. CASE StopListen \/ StopJoin \/ StopDestroy \/ StopFree
  <2>1. UNCHANGED <<running, table, fdtab, conn, wpc, wfd, accept>> /\ (Emptied => Emptied')
    BY <1>10 DEF StopListen, StopJoin, StopDestroy, StopFree, Emptied
  <2> QED
    BY <1>a, <2>1
<1>11. CASE UNCHANGED vars
  BY <1>11, <1>a DEF vars, Emptied
<1> QED
  BY <1>1, <1>2, <1>3, <1>4, <1>5, <1>6, <1>7, <1>8, <1>9, <1>10, <1>11, ExactAccept,
     ExactAdd DEF Next, AcceptStep, StopStep

\* Up to its first drop the heartbeat harms nobody.
Exact == TypeInv /\ QueueInv /\ FreshInv /\ StopInv /\ ExactInv

LEMMA ExactAlways == Spec /\ [][~HeartbeatDrop]_vars => []Exact
<1>1. Init => Exact
  BY TypeInit, QueueInit, FreshInit, StopInit, ExactInit DEF Exact
<1>2. Exact /\ [Next]_vars /\ [~HeartbeatDrop]_vars => Exact'
  <2>1. CASE UNCHANGED vars
    BY <2>1 DEF vars, Exact, TypeInv, TableType, KernelType, PoolType, TaskType, AcceptType,
                BeatType, StopType, FlagType, QueueInv, FreshInv, StopInv, ExactInv,
                TableExact, OwnFd, AcceptedOpen, RemovedFirst, LeavesAtEnd, Entry, Emptied,
                Working
  <2>2. ASSUME Exact, [Next]_vars, ~HeartbeatDrop PROVE Exact'
    BY <2>2, TypeStep, QueueStep, FreshStep, StopInvStep, ExactStep DEF Exact
  <2> QED
    BY <2>1, <2>2
<1> QED
  BY <1>1, <1>2, PTL DEF Spec

\* Where no device stays idle for more than 30 s, the heartbeat has nobody to drop.
NoneSilent == ~MayBeSilent => \A i \in Index : devices[i].idle # "silent"

LEMMA NoneSilentStep == TypeInv /\ NoneSilent /\ [Next]_vars => NoneSilent'
<1> SUFFICES ASSUME TypeInv, NoneSilent, [Next]_vars, ~MayBeSilent
             PROVE  \A i \in Index : devices'[i].idle # "silent"
  BY DEF NoneSilent
<1>0. TableType /\ devices \in [Index -> DeviceType]
      /\ \A i \in Index : devices[i].idle # "silent"
  BY DEF TypeInv, TableType, NoneSilent
<1>1. CASE AddDevice
  BY <1>0, <1>1 DEF AddDevice, NoDevice, DeviceType
<1>2. CASE AcceptTimeout \/ Submit \/ Accept \/ WorkerStart
  BY <1>0, <1>2 DEF AcceptTimeout, Submit, Accept, WorkerStart
<1>3. ASSUME NEW c \in Conn, WorkerActivity(c) PROVE \A i \in Index : devices'[i].idle # "silent"
  BY <1>0, <1>3 DEF WorkerActivity, DeviceType
<1>4. ASSUME NEW c \in Conn, WorkerAnswer(c) PROVE \A i \in Index : devices'[i].idle # "silent"
  BY <1>0, <1>4 DEF WorkerAnswer, AnswerDirect, AnswerHandler, DeviceType
<1>5. ASSUME NEW c \in Conn, WorkerRemove(c) PROVE \A i \in Index : devices'[i].idle # "silent"
  BY <1>0, <1>5, EntryOfIs, RemoveOne DEF WorkerRemove
<1>6. ASSUME NEW c \in Conn, WorkerRecv(c) \/ WorkerFind(c) \/ WorkerSend(c) \/ WorkerClose(c)
      PROVE  \A i \in Index : devices'[i].idle # "silent"
  BY <1>0, <1>6 DEF WorkerRecv, WorkerFind, WorkerSend, WorkerClose
<1>7. ASSUME NEW i \in Index, Age(i) PROVE \A j \in Index : devices'[j].idle # "silent"
  BY <1>0, <1>7 DEF Age, DeviceType
<1>8. CASE HeartbeatDrop
  <2>1. hi \in Index
    BY <1>8, GatewayAssumption DEF HeartbeatDrop, TypeInv, BeatType, TableType, Index
  <2> QED
    BY <1>0, <1>8, <2>1 DEF HeartbeatDrop
<1>9. CASE HeartbeatCharge \/ HeartbeatReset
  BY <1>0, <1>9 DEF HeartbeatCharge, HeartbeatReset, DeviceType
<1>10. CASE HeartbeatBegin \/ HeartbeatStop \/ HeartbeatPing \/ HeartbeatSend
            \/ HeartbeatSent \/ HeartbeatEnd
  BY <1>0, <1>10 DEF HeartbeatBegin, HeartbeatStop, HeartbeatPing, HeartbeatSend,
                     HeartbeatSent, HeartbeatEnd
<1>11. CASE ConsoleStep \/ RestartBegin \/ Quit \/ StopStep
  BY <1>0, <1>11 DEF ConsoleStep, StartHeartbeat, RestartSend, RestartEnd, RestartBegin, Quit,
                     StopStep, StopListen, StopJoin, StopClose, StopDestroy, StopFree
<1>12. ASSUME NEW c \in Conn, SendFrame(c) \/ HangUp(c) \/ Stall(c) \/ Drain(c)
       PROVE  \A i \in Index : devices'[i].idle # "silent"
  BY <1>0, <1>12 DEF SendFrame, HangUp, Stall, Drain
<1>13. CASE UNCHANGED vars
  BY <1>0, <1>13 DEF vars
<1> QED
  BY <1>1, <1>2, <1>3, <1>4, <1>5, <1>6, <1>7, <1>8, <1>9, <1>10, <1>11, <1>12, <1>13
     DEF Next, AcceptStep, WorkerStep, HeartbeatStep

LEMMA NoDrop == ~MayBeSilent => (Spec => [][~HeartbeatDrop]_vars)
<1> SUFFICES ASSUME ~MayBeSilent PROVE Spec => [][~HeartbeatDrop]_vars
  OBVIOUS
<1>1. Init => NoneSilent
  BY DEF Init, NoneSilent, NoDevice
<1>2. TypeInv /\ NoneSilent => [~HeartbeatDrop]_vars
  <2> SUFFICES ASSUME TypeInv, NoneSilent, HeartbeatDrop PROVE FALSE
    OBVIOUS
  <2>1. hi \in Index /\ devices[hi].idle = "silent"
    BY GatewayAssumption DEF HeartbeatDrop, TypeInv, BeatType, TableType, Index
  <2> QED
    BY <2>1 DEF NoneSilent
<1> QED
  BY <1>1, <1>2, TypeInit, TypeStep, QueueInit, QueueStep, NoneSilentStep, PTL DEF Spec

\* No two entries share a descriptor and each is open, as long as the heartbeat
\* has dropped nobody (add_device, remove_device, client_worker).
THEOREM TableExactUntilDrop == Spec /\ [][~HeartbeatDrop]_vars => []TableExact
<1>1. Exact => TableExact
  BY DEF Exact, ExactInv
<1> QED
  BY <1>1, ExactAlways, PTL

\* In particular where no device stays silent.
THEOREM TableExactCorrect == ~MayBeSilent => (Spec => []TableExact)
BY TableExactUntilDrop, NoDrop, PTL

\* A worker reads, answers and closes its own client's descriptor, under the same
\* condition: accept reuses none that a task still has (gateway.c 471-559).
THEOREM WorkerOwnsFdUntilDrop == Spec /\ [][~HeartbeatDrop]_vars => []WorkerOwnsFd
<1>1. Exact => WorkerOwnsFd
  BY DEF Exact, ExactInv, OwnFd, WorkerOwnsFd
<1> QED
  BY <1>1, ExactAlways, PTL

\* In particular where no device stays silent.  GatewayFdReuse shows that the
\* condition is needed.
THEOREM WorkerOwnsFdCorrect == ~MayBeSilent => (Spec => []WorkerOwnsFd)
BY WorkerOwnsFdUntilDrop, NoDrop, PTL
=============================================================================

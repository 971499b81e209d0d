------------------------------ MODULE Gateway -------------------------------
(***************************************************************************)
(* The TCP gateway of src/src/gateway.c as gateway_server_menu runs it: the *)
(* accept thread, the heartbeat thread, one client_worker task per          *)
(* connection, the device table they share, and the order in which menu.c   *)
(* stops them.  The pool the tasks run on is the abstract TaskQueue, which  *)
(* ThreadPool implements.  External: the kernel's descriptor table and the  *)
(* clients at the other end of the connections.                             *)
(*                                                                         *)
(* Abstractions.  A frame is a unit of a connection's input, its command is *)
(* chosen when it is handled.  The age of last_active_time is one of        *)
(* "fresh" (at most 10 s), "quiet" (at most 30 s) and "silent".  A slot of  *)
(* devices keeps its contents when device_count shrinks, as the array does. *)
(* A critical section of devices_mutex is one step, except the heartbeat's  *)
(* and that of the console's r, which span several entries.  A client whose *)
(* buffers are full, because it does not read, blocks whoever sends to it.  *)
(***************************************************************************)
EXTENDS Naturals, Sequences, FiniteSets

CONSTANTS
    Conn,           \* the connections clients make, each once
    NoConn,
    FD,             \* descriptors accept can return, numbers
    MaxClients,     \* GATEWAY_MAX_CLIENTS
    FailLimit,      \* failed heartbeats before a device is dropped (3)
    QueueCapacity,  \* of the pool
    PoolWorkers,    \* tasks the pool runs at a time
    MaxFrames,      \* bound: frames a client has in flight
    MayBeSilent,    \* TRUE: a device may stay idle for more than 30 s
    MayStall,       \* TRUE: a client may stop reading for a while
    Restarts        \* TRUE: the user types r

ASSUME GatewayAssumption ==
    /\ NoConn \notin Conn /\ IsFiniteSet(Conn)
    /\ FD \subseteq Nat \ {0} /\ IsFiniteSet(FD)
    /\ MaxClients \in Nat \ {0} /\ FailLimit \in Nat \ {0}
    /\ QueueCapacity \in Nat \ {0} /\ PoolWorkers \in Nat \ {0}
    /\ MaxFrames \in Nat \ {0} /\ MayBeSilent \in BOOLEAN
    /\ MayStall \in BOOLEAN /\ Restarts \in BOOLEAN

Index == 0 .. MaxClients - 1

VARIABLES
    running, listening,                    \* ctx->running, listen_fd is open
    devices, device_count, devices_mutex,  \* the table; who holds its mutex
    fdtab,      \* external: per descriptor, the connection it is open on
    conn,       \* external: per connection, its state
    inbox,      \* external: frames received by the kernel and not read
    full,       \* external: the clients that do not read, their buffers full
    pending, active, closed,               \* the pool's tasks (TaskQueue)
    wpc, wfd,   \* per task, where its client_worker is; its warg->fd
    wsrc, wbuf, \* whose frames it has read, and how many are left to parse
    wdev, wto,  \* the device pointer it has looked up; where it will answer
    apc, aconn, afd,                       \* the accept thread
    hpc, hi, hfail, hto,                   \* the heartbeat thread
    spc, ri     \* the console and the thread that stops the gateway; index of r

table  == <<devices, device_count>>
kernel == <<fdtab, conn, inbox, full>>
pool   == <<pending, active, closed>>
task   == <<wpc, wfd, wsrc, wbuf, wdev, wto>>
accept == <<apc, aconn, afd>>
beat   == <<hpc, hi, hfail, hto>>
stop   == <<spc, ri>>
vars   == <<running, listening, table, devices_mutex, kernel, pool, task,
            accept, beat, stop>>

Pool == INSTANCE TaskQueue WITH
            Task <- Conn, Capacity <- QueueCapacity, running <- active

NoDevice == [fd |-> 0, idle |-> "fresh", fail |-> 0, id |-> NoConn]

Init ==
    /\ running = TRUE /\ listening = TRUE
    /\ devices = [i \in Index |-> NoDevice] /\ device_count = 0
    /\ devices_mutex = "free"
    /\ fdtab = [f \in FD |-> NoConn] /\ conn = [c \in Conn |-> "new"]
    /\ inbox = [c \in Conn |-> 0] /\ full = {}
    /\ Pool!Init
    /\ wpc = [c \in Conn |-> "none"] /\ wfd = [c \in Conn |-> 0]
    /\ wsrc = [c \in Conn |-> NoConn] /\ wbuf = [c \in Conn |-> 0]
    /\ wdev = [c \in Conn |-> 0] /\ wto = [c \in Conn |-> 0]
    /\ apc = "select" /\ aconn = NoConn /\ afd = 0
    /\ hpc = "none" /\ hi = 0 /\ hfail = FALSE /\ hto = 0
    /\ spc = "starting" /\ ri = 0

-----------------------------------------------------------------------------
(* The device table and the descriptors.                                   *)

\* The first entry for descriptor f, as a set: empty when there is none.
EntryOf(f) ==
    {i \in Index : /\ i < device_count /\ devices[i].fd = f
                   /\ \A j \in Index : j < i => devices[j].fd # f}

\* Mutant: the loop that moves the later entries starts one too far.
RemoveNext(i) ==
    /\ devices' = [j \in Index |-> IF i < j /\ j < device_count - 1
                                   THEN devices[j + 1] ELSE devices[j]]
    /\ device_count' = device_count - 1

\* Entry i leaves the table and the later ones move down.
RemoveEntry(i) ==
    /\ devices' = [j \in Index |-> IF i <= j /\ j < device_count - 1
                                   THEN devices[j + 1] ELSE devices[j]]
    /\ device_count' = device_count - 1

\* shutdown() and close() of the descriptors F, whichever connections they are
\* open on by now; closing a closed descriptor does nothing.
CloseAll(F) ==
    /\ fdtab' = [f \in FD |-> IF f \in F THEN NoConn ELSE fdtab[f]]
    /\ conn' = [c \in Conn |-> IF conn[c] = "open" /\ \E f \in F : fdtab[f] = c
                               THEN "dropped" ELSE conn[c]]

\* send() on descriptor f returns: there is room, or the connection is over.
SendReturns(f) ==
    \A c \in full : f # 0 /\ fdtab[f] = c => conn[c] # "open"

-----------------------------------------------------------------------------
(* The clients (external).                                                 *)

SendFrame(c) ==
    /\ conn[c] = "open" /\ inbox[c] < MaxFrames
    /\ inbox' = [inbox EXCEPT ![c] = @ + 1]
    /\ UNCHANGED <<running, listening, table, devices_mutex, fdtab, conn,
                   full, pool, task, accept, beat, stop>>

HangUp(c) ==
    /\ conn[c] = "open"
    /\ conn' = [conn EXCEPT ![c] = "hup"]
    /\ UNCHANGED <<running, listening, table, devices_mutex, fdtab, inbox, full,
                   pool, task, accept, beat, stop>>

\* A client stops reading and its buffers fill up; it reads again.
Stall(c) ==
    /\ MayStall /\ conn[c] = "open" /\ c \notin full
    /\ full' = full \cup {c}
    /\ UNCHANGED <<running, listening, table, devices_mutex, fdtab, conn, inbox,
                   pool, task, accept, beat, stop>>

Drain(c) ==
    /\ c \in full
    /\ full' = full \ {c}
    /\ UNCHANGED <<running, listening, table, devices_mutex, fdtab, conn, inbox,
                   pool, task, accept, beat, stop>>

\* Time passes for a device that sends nothing; during a scan it stands still,
\* because the heartbeat thread reads the clock once, before it.
Age(i) ==
    /\ i < device_count /\ hpc = "idle"
    /\ \/ devices[i].idle = "fresh" /\ devices' = [devices EXCEPT ![i].idle = "quiet"]
       \/ /\ devices[i].idle = "quiet" /\ MayBeSilent
          /\ devices' = [devices EXCEPT ![i].idle = "silent"]
    /\ UNCHANGED <<running, listening, device_count, devices_mutex, kernel, pool,
                   task, accept, beat, stop>>

-----------------------------------------------------------------------------
(* The accept thread.                                                      *)

\* Mutant: while (1).
AcceptForever == "select"

\* Where the loop condition leads.
AcceptLoop == IF running THEN "select" ELSE "stopped"

\* select() times out after a second, or fails because listen_fd was closed, or
\* looks at no descriptor because it was closed just before (listen_fd is -1, and
\* FD_SET(-1) goes unnoticed); the loop condition is read again.
AcceptTimeout ==
    /\ apc = "select"
    /\ apc' = AcceptLoop
    /\ UNCHANGED <<running, listening, table, devices_mutex, kernel, pool, task,
                   aconn, afd, beat, stop>>

\* A client that has connected; accept() returns the lowest free descriptor.
Accept ==
    /\ apc = "select" /\ listening
    /\ \E c \in Conn, f \in FD :
          /\ conn[c] = "new" /\ fdtab[f] = NoConn
          /\ \A g \in FD : g < f => fdtab[g] # NoConn
          /\ fdtab' = [fdtab EXCEPT ![f] = c]
          /\ conn' = [conn EXCEPT ![c] = "open"]
          /\ apc' = "add" /\ aconn' = c /\ afd' = f
    /\ UNCHANGED <<running, listening, table, devices_mutex, inbox, full,
                   pool, task, beat, stop>>

\* Mutant: add_device without the bound.
AddDeviceUnbounded ==
    /\ apc = "add" /\ devices_mutex = "free"
    /\ devices' = [devices EXCEPT ![device_count % MaxClients] =
                        [NoDevice EXCEPT !.fd = afd]]
    /\ device_count' = device_count + 1
    /\ apc' = "submit"
    /\ UNCHANGED <<running, listening, devices_mutex, kernel, pool, task, aconn,
                   afd, beat, stop>>

\* add_device, and its failure: the table is full, the client is dropped.
AddDevice ==
    /\ apc = "add" /\ devices_mutex = "free"
    /\ \/ /\ device_count >= MaxClients
          /\ CloseAll({afd})
          /\ apc' = AcceptLoop
          /\ UNCHANGED table
       \/ /\ device_count < MaxClients
          /\ devices' = [devices EXCEPT ![device_count] = [NoDevice EXCEPT !.fd = afd]]
          /\ device_count' = device_count + 1
          /\ apc' = "submit"
          /\ UNCHANGED <<fdtab, conn>>
    /\ UNCHANGED <<running, listening, devices_mutex, inbox, full, pool, task,
                   aconn, afd, beat, stop>>

\* threadPoolAdd; the accept thread waits here while the queue is full.
Submit ==
    /\ apc = "submit"
    /\ Pool!Accept(aconn)
    /\ wpc' = [wpc EXCEPT ![aconn] = "queued"]
    /\ wfd' = [wfd EXCEPT ![aconn] = afd]
    /\ apc' = AcceptLoop /\ aconn' = NoConn /\ afd' = 0
    /\ UNCHANGED <<running, listening, table, devices_mutex, kernel, wsrc, wbuf,
                   wdev, wto, beat, stop>>

AcceptStep == AcceptTimeout \/ AddDevice \/ Submit

-----------------------------------------------------------------------------
(* client_worker, named by the connection its task was made for.           *)

\* Where the loop condition leads.
WorkerLoop == IF running THEN "select" ELSE "leave"

\* A frame has been handled and left more are in the buffer.
NextFrame(c, left) ==
    /\ wpc' = [wpc EXCEPT ![c] = IF left > 0 THEN "parse" ELSE WorkerLoop]
    /\ wsrc' = [wsrc EXCEPT ![c] = IF left > 0 THEN @ ELSE NoConn]

WorkerStart ==
    /\ Cardinality(active) < PoolWorkers
    /\ Pool!Start
    /\ wpc' = [wpc EXCEPT ![Head(pending)] = WorkerLoop]
    /\ UNCHANGED <<running, listening, table, devices_mutex, kernel, wfd, wsrc,
                   wbuf, wdev, wto, accept, beat, stop>>

\* Mutant: recv() returning 0 is taken for a timeout.
WorkerRecvIgnoreEnd(c) ==
    LET d == fdtab[wfd[c]] IN
    /\ wpc[c] = "select"
    /\ \/ /\ d # NoConn /\ inbox[d] > 0
          /\ wsrc' = [wsrc EXCEPT ![c] = d]
          /\ wbuf' = [wbuf EXCEPT ![c] = inbox[d]]
          /\ inbox' = [inbox EXCEPT ![d] = 0]
          /\ wpc' = [wpc EXCEPT ![c] = "parse"]
       \/ /\ d # NoConn => inbox[d] = 0
          /\ wpc' = [wpc EXCEPT ![c] = WorkerLoop]
          /\ UNCHANGED <<wsrc, wbuf, inbox>>
    /\ UNCHANGED <<running, listening, table, devices_mutex, fdtab, conn,
                   full, pool,
                   wfd, wdev, wto, accept, beat, stop>>

\* select() and recv() on the worker's descriptor, whatever it is open on:
\* everything received so far, nothing within two seconds, or the end.
WorkerRecv(c) ==
    LET d == fdtab[wfd[c]] IN
    /\ wpc[c] = "select"
    /\ \/ /\ d # NoConn /\ inbox[d] > 0
          /\ wsrc' = [wsrc EXCEPT ![c] = d]
          /\ wbuf' = [wbuf EXCEPT ![c] = inbox[d]]
          /\ inbox' = [inbox EXCEPT ![d] = 0]
          /\ wpc' = [wpc EXCEPT ![c] = "parse"]
       \/ /\ d # NoConn /\ inbox[d] = 0 /\ conn[d] = "open"
          /\ wpc' = [wpc EXCEPT ![c] = WorkerLoop]
          /\ UNCHANGED <<wsrc, wbuf, inbox>>
       \/ /\ d # NoConn => inbox[d] = 0 /\ conn[d] # "open"
          /\ wpc' = [wpc EXCEPT ![c] = "leave"]
          /\ UNCHANGED <<wsrc, wbuf, inbox>>
    /\ UNCHANGED <<running, listening, table, devices_mutex, fdtab, conn,
                   full, pool,
                   wfd, wdev, wto, accept, beat, stop>>

\* find_device_by_fd for the next frame: a pointer into the table, which is
\* kept after the mutex is released; a frame without a device is ignored.
WorkerFind(c) ==
    /\ wpc[c] = "parse" /\ devices_mutex = "free"
    /\ wbuf' = [wbuf EXCEPT ![c] = @ - 1]
    /\ \/ EntryOf(wfd[c]) = {} /\ NextFrame(c, wbuf[c] - 1) /\ UNCHANGED wdev
       \/ /\ \E i \in EntryOf(wfd[c]) : wdev' = [wdev EXCEPT ![c] = i]
          /\ wpc' = [wpc EXCEPT ![c] = "found"]
          /\ UNCHANGED wsrc
    /\ UNCHANGED <<running, listening, table, devices_mutex, kernel, pool, wfd,
                   wto, accept, beat, stop>>

\* update_device_activity looks the descriptor up again.
WorkerActivity(c) ==
    /\ wpc[c] = "found" /\ devices_mutex = "free"
    /\ devices' = [i \in Index |-> IF i \in EntryOf(wfd[c])
                                   THEN [devices[i] EXCEPT !.idle = "fresh"]
                                   ELSE devices[i]]
    /\ wpc' = [wpc EXCEPT ![c] = "answer"]
    /\ UNCHANGED <<running, listening, device_count, devices_mutex, kernel, pool,
                   wfd, wsrc, wbuf, wdev, wto, accept, beat, stop>>

\* PONG, or CMD_ERROR when no handler is registered: sent on warg->fd.
AnswerDirect(c) ==
    /\ wto' = [wto EXCEPT ![c] = wfd[c]]
    /\ UNCHANGED devices

\* A registered handler: it answers on dev->fd, read through the pointer with
\* no mutex held, and handle_register writes the entry's identity through it.
AnswerHandler(c) ==
    /\ wto' = [wto EXCEPT ![c] = devices[wdev[c]].fd]
    /\ \/ UNCHANGED devices
       \/ devices' = [devices EXCEPT ![wdev[c]].id = wsrc[c]]

WorkerAnswer(c) ==
    /\ wpc[c] = "answer"
    /\ AnswerDirect(c) \/ AnswerHandler(c)
    /\ wpc' = [wpc EXCEPT ![c] = "send"]
    /\ wdev' = [wdev EXCEPT ![c] = 0]
    /\ UNCHANGED <<running, listening, device_count, devices_mutex, kernel, pool,
                   wfd, wsrc, wbuf, accept, beat, stop>>

\* send() on whatever the descriptor is open on by now; it blocks while that
\* client does not read.
WorkerSend(c) ==
    /\ wpc[c] = "send" /\ SendReturns(wto[c])
    /\ NextFrame(c, wbuf[c])
    /\ wto' = [wto EXCEPT ![c] = 0]
    /\ UNCHANGED <<running, listening, table, devices_mutex, kernel, pool, wfd,
                   wbuf, wdev, accept, beat, stop>>

\* Mutant: the worker leaves without remove_device.
WorkerRemoveNothing(c) ==
    /\ wpc[c] = "leave" /\ devices_mutex = "free"
    /\ wpc' = [wpc EXCEPT ![c] = "close"]
    /\ UNCHANGED <<running, listening, table, devices_mutex, kernel, pool, wfd,
                   wsrc, wbuf, wdev, wto, accept, beat, stop>>

\* Mutant: remove_device closes the descriptor, which the worker closes again.
WorkerRemoveAndClose(c) ==
    /\ wpc[c] = "leave" /\ devices_mutex = "free"
    /\ \/ EntryOf(wfd[c]) = {} /\ UNCHANGED table
       \/ \E i \in EntryOf(wfd[c]) : RemoveEntry(i)
    /\ CloseAll({wfd[c]})
    /\ wpc' = [wpc EXCEPT ![c] = "close"]
    /\ UNCHANGED <<running, listening, devices_mutex, inbox, full, pool, wfd, wsrc,
                   wbuf, wdev, wto, accept, beat, stop>>

\* remove_device.
WorkerRemove(c) ==
    /\ wpc[c] = "leave" /\ devices_mutex = "free"
    /\ \/ EntryOf(wfd[c]) = {} /\ UNCHANGED table
       \/ \E i \in EntryOf(wfd[c]) : RemoveEntry(i)
    /\ wpc' = [wpc EXCEPT ![c] = "close"]
    /\ UNCHANGED <<running, listening, devices_mutex, kernel, pool, wfd, wsrc,
                   wbuf, wdev, wto, accept, beat, stop>>

\* shutdown() and close(), and the task is over.
WorkerClose(c) ==
    /\ wpc[c] = "close"
    /\ CloseAll({wfd[c]})
    /\ Pool!Finish(c)
    /\ wpc' = [wpc EXCEPT ![c] = "none"]
    /\ wfd' = [wfd EXCEPT ![c] = 0]
    /\ UNCHANGED <<running, listening, table, devices_mutex, inbox, full, wsrc,
                   wbuf, wdev, wto, accept, beat, stop>>

WorkerStep(c) ==
    WorkerRecv(c) \/ WorkerFind(c)
        \/ WorkerActivity(c) \/ WorkerAnswer(c) \/ WorkerSend(c)
        \/ WorkerRemove(c) \/ WorkerClose(c)

-----------------------------------------------------------------------------
(* The heartbeat thread.                                                   *)

\* Where the loop condition leads.
HeartbeatLoop == IF running THEN "idle" ELSE "stopped"

\* A check is due.  The loop condition was tested before the sleep, so one more
\* scan may start after the gateway was told to stop.
HeartbeatBegin ==
    /\ hpc = "idle" /\ devices_mutex = "free"
    /\ devices_mutex' = "heartbeat" /\ hpc' = "scan" /\ hi' = 0
    /\ UNCHANGED <<running, listening, table, kernel, pool, task, accept, hfail,
                   hto, stop>>

\* No check is due, and the gateway was told to stop.
HeartbeatStop ==
    /\ hpc = "idle" /\ HeartbeatLoop = "stopped"
    /\ hpc' = "stopped"
    /\ UNCHANGED <<running, listening, table, devices_mutex, kernel, pool, task,
                   accept, hi, hfail, hto, stop>>

\* Silent for too long: closed and removed, the index stays.
HeartbeatDrop ==
    /\ hpc = "scan" /\ hi < device_count
    /\ devices[hi].idle = "silent" /\ devices[hi].fail >= FailLimit
    /\ CloseAll({devices[hi].fd})
    /\ RemoveEntry(hi)
    /\ UNCHANGED <<running, listening, devices_mutex, inbox, full, pool, task,
                   accept, beat, stop>>

\* Due for a PING: the mutex is released around the send.
HeartbeatPing ==
    /\ hpc = "scan" /\ hi < device_count
    /\ \/ devices[hi].idle = "silent" /\ devices[hi].fail < FailLimit
       \/ devices[hi].idle = "quiet"
    /\ hfail' = (devices[hi].idle = "silent")
    /\ devices_mutex' = "free"
    /\ hpc' = "ping"
    /\ UNCHANGED <<running, listening, table, kernel, pool, task, accept, hi, hto, stop>>

\* The PING is sent to the descriptor that the entry has now, without the mutex;
\* the send may block.
HeartbeatSend ==
    /\ hpc = "ping"
    /\ LET f == devices[hi].fd IN
       \/ SendReturns(f) /\ hpc' = "sent" /\ UNCHANGED hto
       \/ ~SendReturns(f) /\ hpc' = "send" /\ hto' = f
    /\ UNCHANGED <<running, listening, table, devices_mutex, kernel, pool, task,
                   accept, hi, hfail, stop>>

HeartbeatSent ==
    /\ hpc = "send" /\ SendReturns(hto)
    /\ hpc' = "sent" /\ hto' = 0
    /\ UNCHANGED <<running, listening, table, devices_mutex, kernel, pool, task,
                   accept, hi, hfail, stop>>

\* Mutant: the failure is not counted.
HeartbeatForgive ==
    /\ hpc = "sent" /\ devices_mutex = "free"
    /\ devices_mutex' = "heartbeat"
    /\ hpc' = "scan" /\ hi' = hi + 1 /\ hfail' = FALSE
    /\ UNCHANGED <<running, listening, table, kernel, pool, task, accept, hto, stop>>

\* The mutex is taken again and the entry at the old address is charged with the
\* failure; it may be another device's by now.
HeartbeatCharge ==
    /\ hpc = "sent" /\ devices_mutex = "free"
    /\ devices' = IF hfail THEN [devices EXCEPT ![hi].fail = @ + 1] ELSE devices
    /\ devices_mutex' = "heartbeat"
    /\ hpc' = "scan" /\ hi' = hi + 1 /\ hfail' = FALSE
    /\ UNCHANGED <<running, listening, device_count, kernel, pool, task, accept, hto,
                   stop>>

HeartbeatReset ==
    /\ hpc = "scan" /\ hi < device_count
    /\ devices[hi].idle = "fresh"
    /\ devices' = [devices EXCEPT ![hi].fail = 0]
    /\ hi' = hi + 1
    /\ UNCHANGED <<running, listening, device_count, devices_mutex, kernel, pool,
                   task, accept, hpc, hfail, hto, stop>>

HeartbeatEnd ==
    /\ hpc = "scan" /\ hi >= device_count
    /\ devices_mutex' = "free" /\ hpc' = HeartbeatLoop /\ hi' = 0
    /\ UNCHANGED <<running, listening, table, kernel, pool, task, accept, hfail,
                   hto, stop>>

HeartbeatStep ==
    HeartbeatBegin \/ HeartbeatStop \/ HeartbeatDrop \/ HeartbeatPing
        \/ HeartbeatSend \/ HeartbeatSent \/ HeartbeatCharge \/ HeartbeatReset \/ HeartbeatEnd

-----------------------------------------------------------------------------
(* The console: gateway_run_interactive and interactive_thread_func.         *)

\* The heartbeat thread is started after the accept thread, or cannot be: then
\* the gateway is stopped.
StartHeartbeat ==
    /\ spc = "starting"
    /\ \/ hpc' = "idle" /\ spc' = "serving" /\ UNCHANGED running
       \/ hpc' = "stopped" /\ spc' = "stop" /\ running' = FALSE
    /\ UNCHANGED <<listening, table, devices_mutex, kernel, pool, task, accept, hi,
                   hfail, hto, ri>>

\* r: a frame to every device, under the mutex all the while.
RestartBegin ==
    /\ spc = "serving" /\ Restarts /\ devices_mutex = "free"
    /\ devices_mutex' = "console" /\ spc' = "restart"
    /\ UNCHANGED <<running, listening, table, kernel, pool, task, accept, beat, ri>>

RestartSend ==
    /\ spc = "restart" /\ ri < device_count
    /\ SendReturns(devices[ri].fd)
    /\ ri' = ri + 1
    /\ UNCHANGED <<running, listening, table, devices_mutex, kernel, pool, task,
                   accept, beat, spc>>

RestartEnd ==
    /\ spc = "restart" /\ ri >= device_count
    /\ devices_mutex' = "free" /\ spc' = "serving" /\ ri' = 0
    /\ UNCHANGED <<running, listening, table, kernel, pool, task, accept, beat>>

ConsoleStep == StartHeartbeat \/ RestartSend \/ RestartEnd

\* q, the end of the input, or a console thread that cannot be started.
Quit ==
    /\ spc = "serving"
    /\ running' = FALSE
    /\ spc' = "stop"
    /\ UNCHANGED <<listening, table, devices_mutex, kernel, pool, task, accept, beat, ri>>

-----------------------------------------------------------------------------
(* Stopping: gateway_stop, threadPoolDestory, gateway_cleanup.              *)

StopListen ==
    /\ spc = "stop"
    /\ listening' = FALSE
    /\ spc' = "joinAccept"
    /\ UNCHANGED <<running, table, devices_mutex, kernel, pool, task, accept, beat, ri>>

StopJoin ==
    /\ \/ spc = "joinAccept" /\ apc = "stopped" /\ spc' = "joinHeartbeat"
       \/ spc = "joinHeartbeat" /\ hpc = "stopped" /\ spc' = "closeAll"
    /\ UNCHANGED <<running, listening, table, devices_mutex, kernel, pool, task,
                   accept, beat, ri>>

\* Mutant: the table is emptied and the descriptors are left to the workers.
StopForget ==
    /\ spc = "closeAll" /\ devices_mutex = "free"
    /\ device_count' = 0
    /\ spc' = "destroy"
    /\ UNCHANGED <<running, listening, devices, devices_mutex, kernel, pool, task,
                   accept, beat, ri>>

\* Every device's descriptor is closed and the table emptied, while workers may
\* still be running.
StopClose ==
    /\ spc = "closeAll" /\ devices_mutex = "free"
    /\ CloseAll({devices[i].fd : i \in {j \in Index : j < device_count}})
    /\ device_count' = 0
    /\ spc' = "destroy"
    /\ UNCHANGED <<running, listening, devices, devices_mutex, inbox, full,
                   pool, task, accept, beat, ri>>

\* threadPoolDestory: no task starts any more, the running ones are waited for;
\* then gateway_cleanup frees ctx.
StopDestroy ==
    /\ spc = "destroy"
    /\ Pool!Close
    /\ spc' = "joinWorkers"
    /\ UNCHANGED <<running, listening, table, devices_mutex, kernel, task, accept, beat, ri>>

StopFree ==
    /\ spc = "joinWorkers" /\ active = {}
    /\ spc' = "freed"
    /\ UNCHANGED <<running, listening, table, devices_mutex, kernel, pool, task,
                   accept, beat, ri>>

StopStep == StopListen \/ StopJoin \/ StopClose \/ StopDestroy \/ StopFree

-----------------------------------------------------------------------------
Next ==
    \/ \E c \in Conn : SendFrame(c) \/ HangUp(c) \/ Stall(c) \/ Drain(c)
                       \/ WorkerStep(c)
    \/ \E i \in Index : Age(i)
    \/ AcceptStep \/ Accept \/ WorkerStart
    \/ HeartbeatStep
    \/ ConsoleStep \/ RestartBegin \/ Quit \/ StopStep

Spec == Init /\ [][Next]_vars

-----------------------------------------------------------------------------
(* Properties.                                                             *)

Entry == {i \in Index : i < device_count}

TypeOK ==
    /\ running \in BOOLEAN /\ listening \in BOOLEAN
    /\ devices \in [Index -> [fd : FD \cup {0}, idle : {"fresh", "quiet", "silent"},
                              fail : Nat, id : Conn \cup {NoConn}]]
    /\ device_count \in 0 .. MaxClients
    /\ devices_mutex \in {"free", "heartbeat", "console"}
    /\ fdtab \in [FD -> Conn \cup {NoConn}]
    /\ conn \in [Conn -> {"new", "open", "hup", "dropped"}]
    /\ inbox \in [Conn -> 0 .. MaxFrames] /\ full \subseteq Conn
    /\ pending \in Seq(Conn) /\ active \subseteq Conn /\ closed \in BOOLEAN
    /\ wpc \in [Conn -> {"none", "queued", "select", "parse", "found",
                         "answer", "send", "leave", "close"}]
    /\ wfd \in [Conn -> FD \cup {0}] /\ wsrc \in [Conn -> Conn \cup {NoConn}]
    /\ wbuf \in [Conn -> 0 .. MaxFrames]
    /\ wdev \in [Conn -> Index] /\ wto \in [Conn -> FD \cup {0}]
    /\ apc \in {"select", "add", "submit", "stopped"}
    /\ aconn \in Conn \cup {NoConn} /\ afd \in FD \cup {0}
    /\ hpc \in {"none", "idle", "scan", "ping", "send", "sent", "stopped"}
    /\ hi \in 0 .. MaxClients /\ hfail \in BOOLEAN /\ hto \in FD \cup {0}
    /\ ri \in 0 .. MaxClients
    /\ spc \in {"starting", "serving", "restart", "stop", "joinAccept",
                "joinHeartbeat", "closeAll",
                "destroy", "joinWorkers", "freed"}

\* While no device times out, the table is exact (add_device, remove_device, the
\* order accept and client_worker call them in): no two entries share a
\* descriptor, and the descriptor of each is still open.
TableExact ==
    \A i \in Entry : /\ fdtab[devices[i].fd] # NoConn
                     /\ \A j \in Entry : devices[i].fd = devices[j].fd => i = j

\* While no device times out, the descriptor a client_worker reads and closes is
\* the one of its own client, or closed: descriptors are reused by accept only
\* after the worker is done with them (gateway.c 471-559).
WorkerOwnsFd ==
    \A c \in Conn : wpc[c] # "none" => fdtab[wfd[c]] \in {c, NoConn}

\* Every entry is served: a task for its descriptor is queued or running, or the
\* accept thread is about to queue one (accept_thread_func 388-400).  An entry
\* without a task would occupy its slot until the heartbeat times it out.
EntriesServed ==
    \A i \in Entry : \/ \E c \in Conn : wpc[c] # "none" /\ wfd[c] = devices[i].fd
                     \/ apc = "submit" /\ afd = devices[i].fd

\* When gateway_cleanup frees ctx nothing uses it any more, no task will start,
\* and no descriptor is left open, whenever clients connected, hung up or timed
\* out on the way (menu.c 127-138, gateway_stop, threadPoolDestory).
FreedUnused ==
    spc = "freed" =>
        /\ apc = "stopped" /\ hpc = "stopped" /\ closed
        /\ \A c \in Conn : wpc[c] \in {"none", "queued"}
        /\ \A f \in FD : fdtab[f] = NoConn

(* What the repository says, and the gateway does not do where devices fall silent. *)

\* A client that has not hung up is disconnected only for a reason: the gateway is
\* stopping, the table was full when it connected, or its own entry has been silent for
\* more than 30 s with three failed heartbeats (README.md:275, 281; gateway.c 388-391,
\* 427-436).  It is not so once the heartbeat has closed a descriptor that a worker still
\* has: the worker closes the number again, when it may be another client's.
OnlySilentDropped ==
    [][\A c \in Conn :
          conn[c] = "open" /\ conn'[c] = "dropped" =>
             \/ ~running
             \/ apc = "add" /\ aconn = c /\ device_count = MaxClients
             \/ \E i \in Entry : /\ fdtab[devices[i].fd] = c
                                 /\ devices[i].idle = "silent"
                                 /\ devices[i].fail >= FailLimit]_vars

\* README.md:275: a device is dropped when it has not answered three times.  So not
\* one that has sent frames, which nobody reads because its task still waits for a
\* worker (gateway.c:400 and 428).
AnswerCounts ==
    [][\A c \in Conn :
          ( /\ running /\ wpc[c] = "queued" /\ Cardinality(active) = PoolWorkers
            /\ conn[c] = "open" /\ conn'[c] = "dropped" ) => inbox[c] = 0]_vars

\* gateway.h:61, heartbeat_fail counts the failures of the device: while the heartbeat has
\* let go of the mutex to send a PING, the entry it will charge stays that of the
\* device (gateway.c 438-442).
PingedStays ==
    [][{hpc, hpc'} \subseteq {"ping", "send", "sent"} =>
          devices'[hi].fd = devices[hi].fd]_vars

\* A response goes to the client whose request it answers, or nowhere: the SEQ of
\* protocol.h:19 matches a response with a request of the same client
\* (gateway.c 512-530, menu.c 43, 70, 85).
RepliesToSender ==
    \A c \in Conn : wpc[c] = "send" => fdtab[wto[c]] \in {wsrc[c], NoConn}

\* A registered identity is that of the client the entry is for: dev_id is "the
\* unique identifier of the device" (gateway.h:59; menu.c 55-69).
IdentityOwn ==
    \A i \in Entry : devices[i].id # NoConn /\ fdtab[devices[i].fd] # NoConn
                        => devices[i].id = fdtab[devices[i].fd]

\* The scheduler runs every thread, a thread that waits for devices_mutex gets it in
\* the end, for its holders let it go, and a thread blocked in send() goes on when
\* its client has read.  Nothing is assumed of when the pool starts a task.
FairSpec ==
    /\ Spec
    /\ SF_vars(AcceptStep) /\ SF_vars(HeartbeatStep)
    /\ SF_vars(ConsoleStep) /\ SF_vars(StopStep)
    /\ \A c \in Conn : SF_vars(WorkerStep(c))

\* Every client reads again what the gateway sends it.
ReadingSpec == FairSpec /\ \A c \in Conn : WF_vars(Drain(c))

\* Quitting ends, with the gateway freed.  gateway_stop joins the heartbeat before
\* it closes the clients' sockets (gateway.c:268-283), so that a client that never
\* reads again can keep it from ending: this holds of ReadingSpec, not of FairSpec.
QuitCompletes == spc = "stop" ~> spc = "freed"

\* The descriptor of a client that has hung up is closed once its worker runs.
HangUpReleased ==
    \A c \in Conn : conn[c] = "hup" /\ wpc[c] = "select"
                        ~> \A f \in FD : fdtab[f] # c

\* A device that stays silent does not stay in the table (gateway.c 427-443), as
\* long as all clients read: the heartbeat sends to one after the other.
SilentKicked ==
    \A i \in Index :
        []<>(~running \/ i >= device_count \/ devices[i].idle # "silent")
=============================================================================

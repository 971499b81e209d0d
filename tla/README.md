# Formal models of linux_file_manager

TLA+ modules, TLC runs and TLAPS proofs for the program in `src/`: a menu-driven file manager that also
drives GPIO pins and runs a TCP gateway on a thread pool, whose events go through a JSON log, a Python
ETL and a rotation script into MySQL.

    tlc -workers 2 -config PoolSafety.cfg MCThreadPool     # one run
    tlapm ThreadPool_proofs.tla                             # the proofs of one component, in <module>_proofs.tla

`PROJECT.json` lists the components, the runs with their properties, one mutated definition per checked
property, the lines of source each definition stands for, the findings, the hazards and the theorems.

## 1. Inventory

| component | state | operations | interacts with |
|---|---|---|---|
| thread pool (`thread_pool.c`) | ring of tasks, worker slots `threadIDs`, `liveNUM`, `busyNUM`, `exitNUM`, `shutdown`, two mutexes, two conditions | `Thread_init`, `threadPoolAdd`, `worker`, `manager`, `threadexit`, `threadPoolDestory` | is called by the accept thread and by `gateway_server_menu`, runs `client_worker` |
| TCP gateway (`gateway.c`) | `running`, `listen_fd`, table `devices`/`device_count` under `devices_mutex`, handler list, descriptors | accept thread, heartbeat thread, one `client_worker` per connection, console with `q`, `s`, `l`, `r`, `gateway_stop`, `gateway_cleanup` | pool, protocol, handlers, JSON log |
| handlers and `gateway_server_menu` (`menu.c`) | the two global pointers | register, sensor data, GPIO control; start and stop | gateway, pool, JSON log |
| frame protocol (`protocol.c`) | none | build, parse, checksum | gateway (`recv_buf` in `client_worker`), test client (own copy) |
| JSON event log (`log_json.c`) | descriptor, `json_initialized`, mutex | init, append a line, close | handlers; the file is read by the ETL and moved by the rotation |
| ETL (`test/log_etl.py`) | `.last_offset`, transaction | read from the offset, batches, commit, save | event log, MySQL |
| rotation (`test/log_rotate.sh`) | archives | mv, touch, rm of `.last_offset`, deletion of old archives and rows | event log, ETL, MySQL |
| test client (`test/client.c`) | socket, sequence number | requests, heartbeat, `handle_server_data` | gateway |
| files (`file_manager.c`) | none | create, delete, append, read, copy, info | the tree of the file system, other processes |
| directories (`directory.c`, `path_manager.c`) | none | recursive mkdir, rmdir, list | the same |
| menu (`menu.c`) | none | one case per command, messages chosen from `errno` | files, directories, log, gateway |
| GPIO driver (`gpio.c`) | list of taken pins | init, set, get, toggle, uninit, cleanup | sysfs; `main.c` |
| run-time log (`log.c`) | descriptor, mutex, file lock | append, view | everybody; leaves its own `errno` |
| configuration (`config.c`, inih) | `config` | parse `config.ini`, once | pool (its parameters), logs (their paths) |
| launcher (`test/run_client.sh`) | `.client_pids`, `.supervisor_pid`, processes | start, stop, supervisor | test clients, gateway |
| console helpers (`common.c`), Makefile | - | I/O only | - |

What is hard in it, and what makes each part correct:

- **Pool.** Four kinds of threads share counters under two mutexes; `shutdown` and `threadIDs` are used
  without any. The manager acts on values that are stale by then. Correct: a task is run once and in
  order, nobody sleeps for ever, the counters are what they say, the destruction ends and frees nothing
  that is in use.
- **Gateway.** The accept thread, the heartbeat and the workers add, move and remove table entries;
  pointers into the table and descriptor numbers outlive the critical sections. Correct: the table is
  exact, a descriptor is closed by its owner, answers go to the device that asked, stopping ends
  although a send may block.
- **Protocol.** TCP cuts and joins frames. Correct: handlers get what was sent, once and in order.
- **Pipeline.** Three programs share a log, an offset file and a table, each may die between two steps. Correct:
  each event reaches the table, once.
- **Client.** Heartbeats answered by both sides, one `recv` looked at at a time, sends that
  block. Correct: each request is acknowledged once, a heartbeat has one answer, nobody waits for ever.
- **Files and directories.** Several processes on one tree; commands are several system calls. Correct:
  a copy is exact, an acknowledged write stays, mkdir and its message agree; a message names the reason
  for which the call failed, although `errno` is looked at after the log has been written.
- **GPIO.** Calls that fail half way, a list that is shortened while it is walked, a kernel that
  remembers pins across restarts. Correct: the list says what is taken, the cleanup releases it as far as the kernel lets it.
- **Launcher.** Two files name processes, which end and whose numbers return; a supervisor removes the
  files behind a script that may write them again, and its `rm` may outlive it. Correct: what runs is listed, stop leaves nothing.
- **Configuration.** Correct: whatever the file says, the pool gets parameters it can work with.

The hazards, each at its line, with the properties that watch it, are in `PROJECT.json`.

## 2. The modules

| module | models | state and steps |
|---|---|---|
| `TaskQueue` | what the pool promises | `pending`, `running`, `closed`; Accept, Start, Finish, Close |
| `ThreadPool` | `thread_pool.c` | the ring and counters under their C names; one program counter per worker slot, manager, producer and destroyer; `arg` is the owner of each heap block |
| `Gateway` | `gateway.c` with its console, the handlers, the order of stopping in `menu.c` | the table and flags under their C names; `fdtab`, `conn`, `inbox` and `full` (who does not read) are the kernel; `spc` is the console and then the stopping; the pool is an instance of `TaskQueue` |
| `FrameStream` | `protocol.c` and the loop over `recv_buf` | bytes on the wire, in the buffer, the parse offset, the frames handled |
| `EventPipeline` | `log_json.c`, `log_etl.py`, `log_rotate.sh` | files that outlive their names and age, the archive, the offset file, the open transaction, the rows and what has ever been one |
| `TestClient` | `test/client.c` with the gateway's side of the exchange | frames up, pieces of frames down, the frame each side has in a blocking `send` |
| `FileManager` | menu cases 1-9 with `file_manager.c`, `directory.c`, `path_manager.c`, `log_write` | the tree and the files (external), per process the command it is in, its descriptors, `errno` and what the function returned |
| `Gpio` | `gpio.c` and `main.c` | the kernel's pins (external), the list of pins, the cleanup loop |
| `Launcher` | `run_client.sh` | the process table (external), the two files, the next command of each script; a supervisor is a process with a status, and so is an `rm` whose supervisor was killed after it forked it |
| `Configuration` | `config_handler`, `config_load`, the parser's lines, `menu.c:96-98` | operators only: the file is a sequence of lines, folded into `config` |
| `*_proofs` | the theorems about `ThreadPool`, `Gateway`, `FrameStream`, `EventPipeline`, `FileManager`, `TestClient`, `Gpio` and `Launcher`; those about `Configuration` are in `ThreadPool_proofs` | section 4 |
| `MC*` | small instances | symmetry and the sets a cfg cannot write |

**Granularity.** A critical section is one step; what the code does outside it is a step of its own:
setting `shutdown`, clearing a slot, the two reads of a slot by the destroyer, the manager's signals, the
use of a device pointer after `find_device_by_fd`, the send between the heartbeat's two critical
sections. In `FileManager` a step is a system call, in `EventPipeline` a read of a line, a commit, the
truncation and the write of the offset file, a command of the shell scripts (in
`Launcher` also one pass over the file of numbers). `pthread_cond_signal` wakes an arbitrary
waiter and waiters may wake spuriously. Thread and process steps interleave freely.

**How they compose.** `ThreadPool` implements `TaskQueue` (property `QueueSpec` of run `PoolSafety`, theorem `ImplementsQueue`,
with the ring read as a sequence and the tasks held by workers as `running`); `Gateway` runs its workers
on an instance of `TaskQueue`, so what is shown of it holds on the real pool, except for the wake-up that
the pool may lose (see below): each use of the pool in `Gateway` is an action of that instance, so it keeps to
`TaskQueue` by construction, and `Gateway` assumes no fairness of the start of a task, so none of its
liveness properties needs it. `FrameStream` justifies that
`Gateway` and `TestClient` treat a frame towards the gateway as a unit. `MCThreadPool` takes the sizes of the
pool from a configuration file that `Configuration` reads, with an indented line after a section's header
(a pair of its own) and one after a pair (a further value of it), a key that is missing and one that comes twice; `ParametersFit` shows that every other file gives sizes that `ThreadPool` allows.

**Data that is abstracted.** A task, client, event or block of a file is a model value or a number; a
frame's command is chosen when it is handled; ages of devices have three values (at most 10 s, at most
30 s, more); texts and formats are left out. Undefined behaviour: `pthread_join(0)` is a state
`crashed`; the uninitialised `verify` of `gpio_init` may compare either way.

## 3. The runs

Bounds are constants of the models: `MaxFrames` frames in flight per client, `MaxEvents`, `MaxFiles`,
`MaxFaults` in the pipeline, `MaxPings`, `MaxRequests` and `SocketRoom` of the client, `MaxTurns` (commands begun), `MaxBlocks` of the
file commands, `MaxStarts` of the program, `MaxNoise`; the launcher has a
finite set of process numbers, is interrupted once, and one other process runs beside it at a time. Deadlock is not checked in any run, because every model stops
where the program does or where a bound is used up; that the program stops where it should is what the
liveness properties and `FreedUnused` say.

### Runs that pass

| run | instance | shows |
|---|---|---|
| `PoolSafety` | 1-2 workers, queue of 2, 4 tasks, 2 producers, the destruction at any time | `TypeOK`, `PoolSize`, `BusyAccurate`, `OneOwner`; `NoLostNotFull`: no producer sleeps beside a free cell that nobody is coming to fill; `NobodySleeps` about the destruction; `QueueSpec`: the pool refines `TaskQueue` |
| `PoolShutdown` | 1-2 workers, queue of 2, 3 tasks, a producer that is waited for before the destruction, as `gateway_stop` waits for the accept thread | `FreedUnused`; `QuitEnds`: once `running` is cleared, the producer ends and the pool is freed |
| `GatewayTable` | 3 clients, 2 descriptors, nobody silent for 30 s | `TableExact`, `WorkerOwnsFd` |
| `GatewayTimeout` | 2 clients, 1 table entry, time-outs at any time | `TypeOK`, `EntriesServed`, `FreedUnused` |
| `GatewayLive` | 1 client that may fall silent and may stop reading for a while, the command `r` at any time, time-outs after three failures, a heartbeat that may not start | `QuitCompletes`, `HangUpReleased`, `SilentKicked` |
| `LauncherRuns` | 1 terminal, 2 clients per start, 4 process numbers that are used again, clients started by hand and other programs, one interruption, killed supervisors whose `rm` goes on | `ClientsListed`, `SupervisorKnown`, `StopLeavesNone`, `CleansUp`, `SupervisorEnds` |
| `FrameStream` | 3 frames with payloads that contain the magic numbers, every way of cutting them, one piece of noise | `InOrder`, `InSync`, `HalfFrame`, `AllHandled` |
| `EtlPipeline` | 4 events, batches of 2, one rotation, expiry of archives and rows, two faults, the log reopened at will | `ExactlyOnce` until something fails or is rotated; `NothingSkipped` and `AllImported` whatever fails, until something is rotated; `BatchContiguous` always |
| `ClientWhole` | 4 requests, 3 heartbeats from either side, sockets with room for 3 frames, frames not cut | `RequestsConserved`, `AllAcked` |
| `FileCommands` | 2 processes, three of the nine commands between them in any order, the paths `d`, `d/a`, `b`, two files, full disk, failing reads | `CopyFaithful`, `AppendsKept`, `MkdirObstructed` |
| `GpioPins` | 3 pins, room for 2, 2 starts, every write of a file may fail | `TypeOK`, `ListAccurate`, `CleanupReleases` |

Why these bounds are enough to meet the cases. With two slots and `NUMBER` = 2 the manager both grows by
less than it wants and sends one more exit request than the pool can afford; a queue of 1 or 2 wraps and
fills; two producers are the fewest that can contend for a cell, and four tasks are more than queue and
workers hold. One table entry and two descriptors are the fewest in which a client finds the table full
while a descriptor is free and a number is reused; three clients are the fewest in which an entry moves
while a third client connects. Liveness of the gateway is checked with one client, whose frames and
whose silence may come at any time; the queue has room for every client there and in the other gateway
runs, since a producer that waits for room waits on the pool's `notFull` and is a question for
`PoolShutdown`. A batch of 2 in 4 events has full and partial batches and lines appended during each. A
tree with a directory, a name in it and a name beside it has a parent that another process removes or
makes first, and two names that a copy can join. Four process numbers are two clients and two supervisors, an old (or its `rm`) and a
new one. `FrameStream` is given frames that are read long before `recv_buf` is full, so that the end of the buffer is not
reached by its run; `HalfFrameCorrect` is what says that it never is. `EventPipeline`, `FrameStream`, `FileManager`, `TestClient` and `Launcher` state a `TypeOK` too, which their runs
leave out: TLC has checked it on the same instances.

`PoolSize` is about the time before the destruction, `QuitEnds` is checked for a queue with room for two tasks
(as shipped it has 100; one lost wake-up does not fill it) and `QuitCompletes` for clients that read, and
`TableExact` and `WorkerOwnsFd` about gateways whose devices do not fall silent. `ClientsListed`, `SupervisorKnown`
and `StopLeavesNone` are about one terminal, scripts that were not interrupted, and histories in which no orphaned `rm` took a
file that named a running client or supervisor (`Undisturbed`); `CleansUp` and `SupervisorEnds` hold unless a number
on file is by now another program's (`TakenOver`), which the supervisor takes for a client. The conditions of the
pipeline's properties are in the table.
The configurations below show where the code goes wrong without them.

### Runs that show a disagreement with the repository

`PoolLostWakeup` is a run of `PROJECT.json` with a finding. The other
configurations of this table are not listed there; TLC violates the one property of each in seconds and
prints the trace (`tlc -config X.cfg M`, with the module the table names).

| configuration | module | what happens | where the repository says otherwise |
|---|---|---|---|
| `PoolLostWakeup` | `MCThreadPool` | the signal for a task wakes a worker that retires; the task waits while another worker sleeps | README.md:155 |
| `GatewayFdReuse` | `MCGateway` | heartbeat and worker close the same number; in between accept reused it: a live client is cut off | README.md:275 |
| `PoolJoinRace` | `MCThreadPool` | `pthread_join(0)`: a slot is tested, cleared by its worker, and read again | thread_pool.c:205 |
| `PoolQuitHang` | `MCThreadPool` | a queue with room for one, and the wake-up of the last worker lost: the producer never gets room, and `q` waits for it for ever | README.md:155 |
| `GatewayQuitHang` | `MCGateway` | a client that never reads again keeps a `send` of the heartbeat from returning; `gateway_stop` joins the heartbeat before it closes the sockets | gateway.c:267-273 |
| `GatewayUnserved` | `MCGateway` | a client that has sent frames, but waits for a worker, is dropped as silent | README.md:275 |
| `GatewayCharge` | `MCGateway` | the table moves while the heartbeat sends without the mutex: the failure is counted for another device | gateway.h:61 |
| `GatewayStaleDevice` | `MCGateway` | an answer goes to another client, through a device pointer whose entry has moved; with `IdentityOwn` for the property, an identity is written into another device's entry | README.md:672, gateway.h:59 |
| `EtlDuplicates` | `EventPipeline` | a failed run imports committed lines again | README.md:363, 679 |
| `EtlOffset` | `EventPipeline` | an ETL run saves its offset after the rotation has reset it | log_rotate.sh:56 |
| `EtlStranded` | `EventPipeline` | after a rotation the gateway goes on writing into the archive | README.md:678 |
| `EtlExpired` | `EventPipeline` | an archive is deleted whose events the ETL has not read | README.md:678 |
| `ClientPingPong` | `TestClient` | `CMD_PONG` = `CMD_PING`: both sides answer for ever | gateway.c:516, client.c:140 |
| `ClientSplit` | `TestClient` | the client drops half a frame | client.c:133 |
| `ClientJam` | `TestClient` | client and gateway answer each other's heartbeats, the buffers fill up, each waits in `send` for the other to read | README.md:417 |
| `FileMkdirExists` | `MCFileManager` | "Create directory success" where a file is | menu.c:867 |
| `FileCopyDir` | `MCFileManager` | a copy that fails to read empties the destination and succeeds; with `CopyKeepsSource` for the property, a copy of a file to itself does | README.md:127 |
| `FileReadEmpty` | `MCFileManager` | an empty file is read with success and shown as the failure of an earlier command, whose `errno` is still there | file_manager.c:254 |
| `FileLogErrno` | `MCFileManager` | the disk is full: the log's `write` fails after the command has, and the menu shows another reason | menu.c:405-415, 535-550 |
| `FileCopyRace` | `MCFileManager` | the destination's directory is removed during the copy, and the menu says that the source does not exist | menu.c:678 |
| `LauncherTwoTerminals` | `Launcher` | a stop in one terminal removes the files that a start in another has just written | run_client.sh:42-57 |
| `LauncherInterrupted` | `Launcher` | Ctrl-C between launching a client and noting it: the next stop leaves it running | README.md:429 |
| `LauncherOrphan` | `Launcher` | a start kills the old supervisor, but not the `rm` that it has just forked, which takes the file with the number of the new client: the next stop leaves a client running | README.md:433 |
| `LauncherReuse` | `Launcher` | a number in a file is another program's by now, which stop kills; it may be the gateway's. With `ByHandSpared` for the property, stop without the file of numbers kills clients that were started by hand | README.md:433, 429 |
| `GpioOverflow` | `Gpio` | a pin beyond `GPIO_MAX_PINS` is taken and never released | gpio.c:267 |

### Fairness

- *Pool*: weak fairness of every thread that is not blocked (the scheduler runs it). Nobody is bound to
  call `threadPoolAdd` or to quit, to be woken spuriously, or, until the user quits, to finish a task: a
  client may stay connected for ever. Afterwards a task ends, because `running` has been cleared.
- *Gateway*: strong fairness of each thread: what it waits for, `devices_mutex` or room in a client's
  buffers, comes and goes (the heartbeat holds the mutex for one scan and then sleeps). Nothing is assumed
  about what clients send and when the pool starts a task. `ReadingSpec`, which `GatewayLive` uses, adds that
  every client reads again in the end; `GatewayQuitHang` shows that `QuitCompletes` needs it.
- *Launcher*: a script that has begun goes on, and so do a supervisor and an `rm` it has forked. Clients, other
  programs and the user are bound to nothing.
- *FrameStream, TestClient*: the worker runs and TCP delivers. *EventPipeline*: cron starts the ETL again
  and again, and the database accepts a run in the end (faults are bounded).
- The pass and the violation runs of the pool use the same fairness: the lost wake-up is not an artefact
  of a thread that is never scheduled.

## 4. What is proved

The theorems hold for every value of the constants that the `ASSUME` of each model allows: any number of
threads, clients, entries, events, processes, paths, pins, and any bound. TLC evaluates the assumptions in each run. They say
that sizes and bounds are natural numbers, that clients, descriptors and process numbers are finitely many, and what follows: `PoolAssumption` has what `menu.c:96-98` guarantees (`minNUM` positive, `maxNUM`
larger, a queue with room); `StreamAssumption` that devices keep to the limit of the protocol and
noise does not contain the first magic number; `FileAssumption` that the parents of a path are paths; and several that a marker such as
"free" or "no process" is not an element of the set it is added to.

Every proof of a safety property has the same form: an invariant that is stronger than the property, one
lemma for the initial state, one step (or lemma) for each action, and a last step in temporal logic. TLC checked
the strengthened invariants on the instances of section 3 before they were proved, except those that quantify over sequences
(`FrameStream`, `TestClient`), which it cannot evaluate.
Action properties follow from the invariant in the state before the step.

**Pool** (`ThreadPool_proofs`)

| theorem | argument |
|---|---|
| `TypeCorrect` | `TypeInv` strengthens `TypeOK` with two facts about program counters: `msignal` is positive while the manager is signalling (else the countdown would leave its range), and `di` is below `maxNUM` while the destroyer joins a slot |
| `PoolSizeCorrect` | with `TypeInv`; the cases that matter are the growing scan (it takes only empty slots, at most `NUMBER` of them) and the retiring worker (its guard tests the current `liveNUM`, not the manager's sample) |
| `BusyCorrect` | `busyNUM` against the cardinality of the set of workers between its two updates |
| `OneOwnerCorrect` | arithmetic of the ring (`RingIndex`, `CellOfInjective`, `CellOfNext`), then `OwnerTake` and `OwnerEnqueue` for the two steps that move a task |
| `NobodySleepsCorrect`, `FreedUnusedCorrect` | `DestroyInv`: the slots the destroyer has passed stay empty because it has joined the manager, the only one that fills a slot; nobody sleeps after the broadcasts because every test of `shutdown` comes under the mutex and after it was set |
| `NoLostNotFullCorrect` | counting the free cells against the awoken producers, step by step |
| `ImplementsQueue` | refinement mapping `Pending`, `running`, `closed`; each step is a step of `TaskQueue` or leaves its variables alone (`QueueStutter`, `QueueTake`, `QueueAccept`) |

**Configuration** (also in `ThreadPool_proofs`, whose constants it gives values): `HandlerTyped`, one setting of the file leaves
`config` what it is declared to be, by the cases of `config_handler`; and `ParametersFit`, the parameters that
`gateway_server_menu` passes on are positive ints with `minNUM` below `maxNUM`, which is `PoolAssumption`, for
every `config` but one with `thread_min` = INT_MAX, whose `pool_min + 1` overflows. With them the
theorems about the pool apply to it whatever the file says.

**Gateway** (`Gateway_proofs`)

| theorem | argument |
|---|---|
| `TypeCorrect` | `TypeInv` ties the registers to the place where their thread is: the heartbeat's index is in the table while it scans, a task has a descriptor from the moment it is submitted, `QueueInv` says that the pool's `pending` and `active` are the tasks that are queued and that run |
| `EntriesServedCorrect` | `FreshInv` (a connection has a task only from its submission on) and `Served`: there is an injective assignment of tasks to entries. A bare "each entry has a task" is not inductive: when a task ends, `remove_device` takes out one entry, and another entry with the same reused number would lose its task as well. Holds with time-outs |
| `FreedUnusedCorrect` | `StopInv` orders the end: who has ended when the console is at each step of `gateway_stop`, the pool's destruction and `gateway_cleanup`; `FdHeld`: an open descriptor is listed, about to be listed, or a worker's |
| `TableExactUntilDrop`, `WorkerOwnsFdUntilDrop` | of a gateway whose heartbeat drops nobody. `ExactInv`: a task's descriptor is its client's until `gateway_stop` closes everything (`OwnFd`), no entry names it any more when the worker closes it (`RemovedFirst`), accept has only descriptors that are its own (`AcceptedOpen`), and a worker leaves its loop only when its client has gone or the gateway ends. The property, the owner of a descriptor and the order of removing and closing carry each other, none is inductive alone |
| `TableExactCorrect`, `WorkerOwnsFdCorrect` | with `MayBeSilent = FALSE`, the instance of `GatewayTable`, the heartbeat never drops anybody. Where devices do fall silent, heartbeat and worker both close a descriptor: `GatewayFdReuse` |

**Protocol** (`FrameStream_proofs`). The invariant has a ghost: there are a byte sequence `S`, a position `b` in it
and for each frame its start and end, such that `S` holds the frames in order with noise between them
(`Layout`), what is in the buffer and on the wire is `S` from `b` on (`Ends`), and the parse position is
between the end of the last frame handled and the start of the next (`Place`). `ParseAtFrame` and
`ParseAtNoise` say what `proto_parse_frame` makes of the two kinds of places. From it follow `TypeCorrect`, `InOrderCorrect`, `HalfFrameCorrect`
(a parser that waits is at a frame, and a frame is shorter than `PROTO_FRAME_MAX`), `StaysOpen` and `InSyncCorrect` (without noise
each frame ends where the next begins; `Flattened` puts contiguous pieces together again). Of the checksum only that it is a
function of the bytes is used.

**Pipeline** (`EventPipeline_proofs`)

| theorem | argument |
|---|---|
| `TypeCorrect` | files and offsets: an offset that is saved or read is within its file; needs `Recent` typed by induction on the table (least counterexample, since induction theorems are out of reach) |
| `BatchContiguousCorrect` | `PieceInv`: the transaction with the batch ends at the current offset of the file that was opened; files only grow, also those that have been moved away |
| `NothingSkippedCorrect` | `SkipInv`: what was taken before the current transaction has been committed, and so has everything before the saved offset, through a failed run and a half-written offset file |
| `ExactlyOnceCorrect` | `OnceInv`: without faults the table counts up to the place where the open transaction begins, and the next run begins there |

**File commands** (`FileManager_proofs`). Types, `Local` (which descriptors are open at which step) and the
tree. The contents are handled by `Effect`: every step of a process keeps the files, empties one, adds a block at the end of
one, or rewrites one in a copy. `AppendsKeptCorrect` follows for each of the four; `CopyFaithfulCorrect` from `CopyPart`, what a process in its copy
loop has written is the beginning of what it has read from, as long as nobody tore it, which the `Effect` of another process keeps;
`MkdirObstructedCorrect` from `Tree` (whatever exists has a directory for parent) and `Named`, which prefix a
recursive mkdir has reached.

**Client** (`TestClient_proofs`): `TypeCorrect` and `RequestsConservedCorrect`, from an invariant about `Total`, the requests, acknowledgements
and answers that are somewhere: every step makes it larger by what it adds to `requests` (`Keeps`), and one `recv` leaves it or makes it
smaller. `HandleFew` says that `handle_server_data` finds at most the acknowledgements that begin in a buffer, whatever is in it;
`HandleFrames` that it finds every frame of a buffer of whole frames, which is what `recv` returns when TCP
cuts none (`FramesKept`, `FramesSplit`). That the loop has a result at all is `ScanExists`, that it has only one `ScanUnique`,
both by the last place at which they would fail. The first half of `RequestsConserved` therefore holds with cut frames
too: the client loses acknowledgements then (`ClientSplit`), and never counts one twice.

**Pins** (`Gpio_proofs`): `TypeCorrect`, `ListAccurateCorrect`, `CleanupReleasesCorrect`, from `Loop`: `i` is the
length of the list, because the loop goes from the end and every turn removes one entry; and `Accounted`: a pin that
`gpio_init` took is on the list, did not fit into it, or its unexport has failed.

**Launcher** (`Launcher_proofs`): `ClientsListedCorrect`, `SupervisorKnownCorrect`, `StopLeavesNoneCorrect` for one terminal
(`OneTerminal`; `LauncherTwoTerminals` shows why), any number of processes and clients, numbers used again
or not. `Orderly` says at each line of the script what each supervisor has read and may still remove,
and which clients are listed; it holds as long as the script is `Undisturbed`. The first two properties need every start to
have killed the old supervisor; an `rm` that this supervisor leaves behind is harmless unless it comes so late that the new
start has listed a client, which is what `stray` records and `LauncherOrphan` shows.

Only model-checked:

- the liveness properties (`QuitEnds`, `QuitCompletes`, `HangUpReleased`, `SilentKicked`, `AllHandled`,
  `AllImported`, `AllAcked`, `CleansUp`, `SupervisorEnds`), which need fairness and ENABLED and are beyond the prover;
- what `proto_checksum` and the fold of `config_load` compute.

## 5. What is not modelled, and why

- The console helpers and the build rules: nothing is decided there. Of the vendored ini parser what a line
  of each kind does is modelled, how the text of a line is split is not; of the run-time log the append and
  its `errno`, not the mutex and the file lock around one `write` with `O_APPEND`, nor `log_view`.
- `log_init` exits when the path of the log is missing in the file; `main` has taken the GPIO pins by then
  and does not release them, which `Gpio` has as a killed run.
- `pthread_create`, `malloc` and `mutex_init` failing in `Thread_init` and in the manager (in the gateway:
  a heartbeat thread that cannot be started is modelled).
- Commands that only print: `log_view`, the gateway's `s`, `l`, `h`, the client's `h`, `s`, `v`.
- ETL runs that overlap because cron starts one before the last has ended: `EventPipeline` has one at a time.
  Nothing in `log_etl.py` locks the offset file.
- In `Launcher` an `rm` keeps the number of its supervisor until it is done, and a pass over the file of numbers is one step.
- Permissions (every existing path is accessible), symbolic links, the text of the messages.
- Lines of the event log that are no JSON (the handlers write fixed texts).
- Noise that looks like the start of a frame, and lengths above the protocol's limit. A length that does not fit makes the
  parser wait, and the worker end the connection when the buffer is full, which nobody promises otherwise; one that fits into `recv_buf`
  is copied beyond the end of `payload_copy` (gateway.c:524-526), and the model has no state for what follows.

## 6. Plan

The order was: the pool (most threads, everything runs on it), the gateway, the protocol, the pipeline, the client,
the file commands, the pins, then the launcher and the configuration; then the proofs, in the same order. Every component is
modelled and model-checked, and the safety of every component is proved. Next:

1. **Gateway with time-outs**: what is left of `TableExact` and `WorkerOwnsFd` when the heartbeat does
   drop clients. `TableExactUntilDrop` says it up to the first drop.
2. **Heartbeat counting**: `gateway.h:61` calls `heartbeat_fail` consecutive failures, but an answered
   PING resets it only if a scan finds the device active within the last 10 s, and the count goes to the
   entry at the old address. Needs a history of PINGs per device.
3. **Gateway on ThreadPool** directly, with one worker lost, for the client whose task waits although a
   worker sleeps.
4. **Failures of `Thread_init` and of the manager's `pthread_create`.**

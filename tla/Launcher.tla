------------------------------ MODULE Launcher ------------------------------
(***************************************************************************)
(* The launcher of the test clients (test/run_client.sh): its start and stop *)
(* modes, the two PID files and the supervisor that cleans up behind the     *)
(* clients.  The files outlive the processes they name, the supervisor works *)
(* beside the next start or stop, and an rm it has forked outlives it.       *)
(*                                                                         *)
(* External: the process table, the gateway, and processes of other programs. *)
(* One pass over PID_FILE is one step.                                       *)
(***************************************************************************)
EXTENDS Naturals, FiniteSets

CONSTANTS
    Script,     \* terminals the script is run from
    Pid,        \* process numbers
    COUNT,      \* clients per start
    Absent,     \* content of a file that does not exist
    Interrupts, \* TRUE: a script may be ended between two of its commands
    Reuse       \* TRUE: process numbers wrap around, a file may name a new process

ASSUME LauncherAssumption ==
    /\ COUNT \in Nat \ {0} /\ IsFiniteSet(Pid)
    /\ Absent \notin Pid /\ \A P \in SUBSET Pid : Absent # P
    /\ Interrupts \in BOOLEAN /\ Reuse \in BOOLEAN

VARIABLES
    proc,           \* external: per process number, what runs under it; a supervisor
                    \* is "supervisor" between its looks, then "removing", "removing own"
    PID_FILE,       \* the process numbers in it, or Absent
    SUPERVISOR_PID, \* the process number in it, or Absent
    pc,             \* the next command of each script
    left,           \* clients a start has still to launch
    PID,            \* $! of a start: the client or supervisor it has just launched
    interrupted,    \* history: a script has been ended in the middle
    stray           \* history: an orphaned rm took a number that was still in use

files == <<PID_FILE, SUPERVISOR_PID>>
vars  == <<proc, files, pc, left, PID, interrupted, stray>>

Clients     == {p \in Pid : proc[p] = "client"}
ByName      == {p \in Pid : proc[p] \in {"client", "by hand"}}    \* pgrep -f "${CLIENT_BIN}"
Removing    == {p \in Pid : proc[p] \in {"removing", "removing own"}}
Supervisors == {p \in Pid : proc[p] = "supervisor"} \union Removing
Orphans     == {p \in Pid : proc[p] \in {"rm", "rm own"}}
Alive(p)    == proc[p] # "free" /\ p \notin Orphans

Init ==
    /\ proc = [p \in Pid |-> "free"]
    /\ PID_FILE = Absent /\ SUPERVISOR_PID = Absent
    /\ pc = [s \in Script |-> "prompt"] /\ left = [s \in Script |-> 0]
    /\ PID = [s \in Script |-> Absent]
    /\ interrupted = FALSE /\ stray = FALSE

Step(s, from, to) == pc[s] = from /\ pc' = [pc EXCEPT ![s] = to]

Child(removing) == IF removing = "removing" THEN "rm" ELSE "rm own"

\* kill -9, or kill: the client has no handler for SIGTERM.  A supervisor at one of its
\* removals may have forked rm, a process of its own, which goes on.  (Here the rm
\* keeps its parent's place, and that number is not given again before it is done.)
Kill(P) ==
    \E R \in SUBSET (P \intersect Removing) :
        proc' = [p \in Pid |-> IF p \in R THEN Child(proc[p])
                               ELSE IF p \in P \ Orphans THEN "free" ELSE proc[p]]

Ends(p) == proc' = [proc EXCEPT ![p] = "free"]

Listed == IF PID_FILE = Absent THEN {} ELSE PID_FILE

\* The numbers the script still knows, and those that fork() may give.
Remembered == Listed \union {SUPERVISOR_PID} \union {PID[s] : s \in Script}
Unused     == {p \in Pid : proc[p] = "free" /\ (Reuse \/ p \notin Remembered)}

-----------------------------------------------------------------------------
(* Start mode.                                                             *)

\* Clients that are left over from an earlier start are killed by their name.
StartClean(s) ==
    /\ Step(s, "prompt", "probe")
    /\ Kill(ByName)
    /\ UNCHANGED <<files, left, PID, interrupted, stray>>

\* The gateway listens or does not.
StartProbe(s) ==
    /\ Step(s, "probe", "truncate") \/ Step(s, "probe", "prompt")
    /\ UNCHANGED <<proc, files, left, PID, interrupted, stray>>

StartTruncate(s) ==
    /\ Step(s, "truncate", "old supervisor")
    /\ PID_FILE' = {}
    /\ UNCHANGED <<proc, SUPERVISOR_PID, left, PID, interrupted, stray>>

\* Mutant: the file is removed, the supervisor goes on.
StartForgetOld(s) ==
    /\ Step(s, "old supervisor", "launch")
    /\ SUPERVISOR_PID' = Absent
    /\ left' = [left EXCEPT ![s] = COUNT]
    /\ UNCHANGED <<proc, PID_FILE, PID, interrupted, stray>>

\* The supervisor of an earlier start is killed, without a look at what runs under
\* its number today.
StartKillOld(s) ==
    /\ Step(s, "old supervisor", "launch")
    /\ Kill({SUPERVISOR_PID})
    /\ SUPERVISOR_PID' = Absent
    /\ left' = [left EXCEPT ![s] = COUNT]
    /\ UNCHANGED <<PID_FILE, PID, interrupted, stray>>

Fork(s, kind) ==
    \E p \in Unused :
        /\ proc' = [proc EXCEPT ![p] = kind]
        /\ PID' = [PID EXCEPT ![s] = p]

StartLaunch(s) ==
    /\ Step(s, "launch", "append")
    /\ Fork(s, "client")
    /\ left' = [left EXCEPT ![s] = @ - 1]
    /\ UNCHANGED <<files, interrupted, stray>>

\* Mutant: > for >>.
StartOverwrite(s) ==
    /\ Step(s, "append", IF left[s] > 0 THEN "launch" ELSE "supervise")
    /\ PID_FILE' = {PID[s]}
    /\ UNCHANGED <<proc, SUPERVISOR_PID, left, PID, interrupted, stray>>

\* >> creates the file if it is gone.
StartAppend(s) ==
    /\ Step(s, "append", IF left[s] > 0 THEN "launch" ELSE "supervise")
    /\ PID_FILE' = Listed \union {PID[s]}
    /\ UNCHANGED <<proc, SUPERVISOR_PID, left, PID, interrupted, stray>>

StartSupervise(s) ==
    /\ Step(s, "supervise", "note")
    /\ Fork(s, "supervisor")
    /\ UNCHANGED <<files, left, interrupted, stray>>

StartNote(s) ==
    /\ Step(s, "note", "prompt")
    /\ SUPERVISOR_PID' = PID[s]
    /\ PID' = [PID EXCEPT ![s] = Absent]
    /\ UNCHANGED <<proc, PID_FILE, left, interrupted, stray>>

Start(s) ==
    \/ StartClean(s) \/ StartProbe(s) \/ StartTruncate(s) \/ StartKillOld(s)
    \/ StartLaunch(s) \/ StartAppend(s) \/ StartSupervise(s) \/ StartNote(s)

-----------------------------------------------------------------------------
(* Stop mode.                                                              *)

\* Mutant: the file is removed, the supervisor goes on.
StopForgetSupervisor(s) ==
    /\ Step(s, "prompt", "stop")
    /\ SUPERVISOR_PID' = Absent
    /\ UNCHANGED <<proc, PID_FILE, left, PID, interrupted, stray>>

StopSupervisor(s) ==
    /\ Step(s, "prompt", "stop")
    /\ Kill({SUPERVISOR_PID})
    /\ SUPERVISOR_PID' = Absent
    /\ UNCHANGED <<PID_FILE, left, PID, interrupted, stray>>

\* Without PID_FILE the clients are killed by their name.
StopNoFile(s) ==
    /\ Step(s, "stop", "prompt") /\ PID_FILE = Absent
    /\ Kill(ByName)
    /\ UNCHANGED <<files, left, PID, interrupted, stray>>

StopTerm(s) ==
    /\ Step(s, "stop", "kill") /\ PID_FILE # Absent
    /\ Kill(Listed)
    /\ UNCHANGED <<files, left, PID, interrupted, stray>>

\* One second later, with SIGKILL.
StopKill(s) ==
    /\ Step(s, "kill", "remove")
    /\ Kill(Listed)
    /\ UNCHANGED <<files, left, PID, interrupted, stray>>

StopRemove(s) ==
    /\ Step(s, "remove", "prompt")
    /\ PID_FILE' = Absent
    /\ UNCHANGED <<proc, SUPERVISOR_PID, left, PID, interrupted, stray>>

Stop(s) == StopSupervisor(s) \/ StopNoFile(s) \/ StopTerm(s) \/ StopKill(s) \/ StopRemove(s)

\* Ctrl-C, or the terminal is closed; what runs in the background goes on.  Bound: once.
Interrupt(s) ==
    /\ Interrupts /\ ~interrupted /\ pc[s] # "prompt"
    /\ pc' = [pc EXCEPT ![s] = "prompt"] /\ interrupted' = TRUE
    /\ left' = [left EXCEPT ![s] = 0] /\ PID' = [PID EXCEPT ![s] = Absent]
    /\ UNCHANGED <<proc, files, stray>>

-----------------------------------------------------------------------------
(* The supervisor: every three seconds.                                    *)

\* Mutant: it looks only for the file.
WatchFileOnly(p) ==
    /\ proc[p] = "supervisor" /\ PID_FILE = Absent
    /\ proc' = [proc EXCEPT ![p] = "removing own"]
    /\ UNCHANGED <<files, pc, left, PID, interrupted, stray>>

WatchEnds(p) ==
    /\ proc[p] = "supervisor"
    /\ \A q \in Listed : ~Alive(q)
    /\ proc' = [proc EXCEPT ![p] = IF PID_FILE = Absent THEN "removing own" ELSE "removing"]
    /\ UNCHANGED <<files, pc, left, PID, interrupted, stray>>

\* The supervisor waits for its rm: nothing else of it happens in between.
WatchRemove(p) ==
    /\ proc[p] = "removing"
    /\ PID_FILE' = Absent
    /\ proc' = [proc EXCEPT ![p] = "removing own"]
    /\ UNCHANGED <<SUPERVISOR_PID, pc, left, PID, interrupted, stray>>

WatchRemoveOwn(p) ==
    /\ proc[p] = "removing own"
    /\ SUPERVISOR_PID' = Absent
    /\ Ends(p)
    /\ UNCHANGED <<PID_FILE, pc, left, PID, interrupted, stray>>

\* The rm of a supervisor that has been killed since it forked it.
OrphanRemove(p) ==
    /\ proc[p] = "rm" /\ Ends(p)
    /\ PID_FILE' = Absent
    /\ stray' = (stray \/ Clients \intersect Listed # {})
    /\ UNCHANGED <<SUPERVISOR_PID, pc, left, PID, interrupted>>

OrphanRemoveOwn(p) ==
    /\ proc[p] = "rm own" /\ Ends(p)
    /\ SUPERVISOR_PID' = Absent
    /\ stray' = (stray \/ SUPERVISOR_PID \in Supervisors)
    /\ UNCHANGED <<PID_FILE, pc, left, PID, interrupted>>

Watch(p) == WatchEnds(p) \/ WatchRemove(p) \/ WatchRemoveOwn(p)
Orphan(p) == OrphanRemove(p) \/ OrphanRemoveOwn(p)

-----------------------------------------------------------------------------
(* The world around.                                                       *)

\* A client ends because the gateway has gone, has dropped it, or somebody killed it.
ClientExit(p) ==
    /\ proc[p] = "client"
    /\ Ends(p)
    /\ UNCHANGED <<files, pc, left, PID, interrupted, stray>>

\* Other programs, and clients that the user starts by hand.  Bound: one at a time.
OtherStart(p) ==
    /\ p \in Unused /\ \A q \in Pid : proc[q] \notin {"stranger", "by hand"}
    /\ \E kind \in {"stranger", "by hand"} : proc' = [proc EXCEPT ![p] = kind]
    /\ UNCHANGED <<files, pc, left, PID, interrupted, stray>>

OtherExit(p) ==
    /\ proc[p] \in {"stranger", "by hand"}
    /\ Ends(p)
    /\ UNCHANGED <<files, pc, left, PID, interrupted, stray>>

Command(s) == Start(s) \/ Stop(s)

Next ==
    \/ \E s \in Script : Command(s) \/ Interrupt(s)
    \/ \E p \in Pid : Watch(p) \/ Orphan(p) \/ ClientExit(p) \/ OtherStart(p) \/ OtherExit(p)

Spec == Init /\ [][Next]_vars

\* The shells and their children run on.  The user and the clients are bound to nothing.
FairSpec ==
    /\ Spec
    /\ \A s \in Script : WF_vars(pc[s] # "prompt" /\ Command(s))
    /\ \A p \in Pid : WF_vars(Watch(p) \/ Orphan(p))

-----------------------------------------------------------------------------
(* Properties.                                                             *)

\* No script was ended in the middle of its work, no orphaned rm took a number in use.
Undisturbed == ~interrupted /\ ~stray
AtPrompt    == Undisturbed /\ \A s \in Script : pc[s] = "prompt"

\* Every variable has its type.
TypeOK ==
    /\ proc \in [Pid -> {"free", "client", "supervisor", "removing", "removing own",
                         "rm", "rm own", "stranger", "by hand"}]
    /\ PID_FILE = Absent \/ PID_FILE \subseteq Pid
    /\ SUPERVISOR_PID \in Pid \union {Absent}
    /\ left \in [Script -> 0 .. COUNT]

\* Between two runs of the script PID_FILE names every client that runs.  The
\* supervisor of an earlier start may be about to remove the file when a start begins,
\* and is killed before the first client is listed (run_client.sh 91-112, 147-160).
\* Only an rm that it had already forked can still take the file of the new start.
ClientsListed == AtPrompt => Clients \subseteq Listed

\* And at most one supervisor runs, the one that SUPERVISOR_PID names.
SupervisorKnown == AtPrompt => Supervisors \subseteq {SUPERVISOR_PID}

NoneLeft == (Clients \union Supervisors)' = {}

\* When stop is done, no client and no supervisor is left (README.md:429), also when
\* an rm of an earlier supervisor has taken a file that listed only dead clients.
StopLeavesNone ==
    [][\A s \in Script :
        (StopNoFile(s) \/ StopRemove(s)) /\ Undisturbed => NoneLeft]_vars

\* A number in PID_FILE is another program's by now.
TakenOver == \E q \in Listed \ Clients : Alive(q)

\* When the clients have gone, the supervisor ends by itself and leaves no PID_FILE
\* behind, unless new clients are started (run_client.sh:165), or it takes another
\* program for one of its clients.
CleansUp ==
    Clients = {} ~> \/ Clients # {} \/ TakenOver \/ ~Undisturbed
                    \/ Supervisors = {} /\ PID_FILE = Absent

\* Also after a script was ended in the middle, or a file was lost to an orphaned rm,
\* no supervisor goes on for ever.
SupervisorEnds == Clients = {} ~> (Clients # {} \/ TakenOver \/ Supervisors = {})

(* What the repository says, and the script does not do.                     *)

\* README.md:433: stop ends exactly what the script started; here after a start that
\* was ended with Ctrl-C, or that lost its file to an rm of an earlier supervisor.
StopRecovers == [][\A s \in Script : StopNoFile(s) \/ StopRemove(s) => NoneLeft]_vars

\* README.md:429, "stop: only the clients started by this script".
ByHandSpared ==
    [][\A s \in Script : Stop(s) =>
        \A p \in Pid : proc[p] = "by hand" => proc'[p] = "by hand"]_vars

\* README.md:433: stop kills exactly what was started, never the gateway by mistake.
StrangersSpared ==
    [][\A s \in Script : Stop(s) =>
        \A p \in Pid : proc[p] = "stranger" => proc'[p] = "stranger"]_vars
=============================================================================

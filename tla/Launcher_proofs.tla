-------------------------- MODULE Launcher_proofs --------------------------
(* Proofs about Launcher, for any number of process numbers and clients,    *)
(* whether numbers are used again or not, and whether the script is ended in *)
(* the middle or not.                                                      *)
EXTENDS Launcher, TLAPS

-----------------------------------------------------------------------------
(* Types, for any number of terminals.  A start launches only while it has   *)
(* clients left, and appends the number of a process it has launched.        *)

Kind == {"free", "client", "supervisor", "removing", "removing own", "rm", "rm own",
         "stranger", "by hand"}

StartStep == {"probe", "truncate", "old supervisor", "launch", "append", "supervise",
              "note"}
StopStep  == {"stop", "kill", "remove"}

ProcType == proc \in [Pid -> Kind]

FileType ==
    /\ PID_FILE = Absent \/ PID_FILE \subseteq Pid
    /\ SUPERVISOR_PID \in Pid \union {Absent}

ScriptType ==
    /\ pc \in [Script -> {"prompt"} \union StartStep \union StopStep]
    /\ left \in [Script -> 0 .. COUNT]
    /\ PID \in [Script -> Pid \union {Absent}]
    /\ \A s \in Script : /\ pc[s] = "launch" => left[s] > 0
                         /\ pc[s] = "append" => PID[s] \in Pid

TypeInv ==
    /\ ProcType /\ FileType /\ ScriptType
    /\ interrupted \in BOOLEAN /\ stray \in BOOLEAN

LEMMA TypeInvInit == Init => TypeInv
<1> SUFFICES ASSUME Init PROVE TypeInv
  OBVIOUS
<1>1. ProcType
  BY DEF Init, ProcType, Kind
<1>2. FileType
  BY DEF Init, FileType
<1>3. ScriptType
  BY LauncherAssumption DEF Init, ScriptType
<1> QED
  BY <1>1, <1>2, <1>3 DEF Init, TypeInv

LEMMA ListedType == FileType => Listed \subseteq Pid
BY DEF FileType, Listed

\* What a kill leaves: of a supervisor at most the rm it has forked.
LEMMA KillLeaves ==
    ASSUME ProcType, NEW P, Kill(P)
    PROVE  /\ proc' \in [Pid -> Kind]
           /\ Clients' = Clients \ P /\ Supervisors' = Supervisors \ P
           /\ Removing' = Removing \ P
<1>1. PICK R \in SUBSET (P \intersect Removing) :
         proc' = [p \in Pid |-> IF p \in R THEN Child(proc[p])
                                ELSE IF p \in P \ Orphans THEN "free" ELSE proc[p]]
  BY DEF Kill
<1>2. ASSUME NEW p \in Pid
      PROVE  /\ proc'[p] \in Kind
             /\ p \in P /\ proc[p] \notin {"rm", "rm own"}
                  => proc'[p] \in {"free", "rm", "rm own"}
             /\ p \in P /\ proc[p] \in {"rm", "rm own"} => proc'[p] = proc[p]
             /\ p \notin P => proc'[p] = proc[p]
  <2>1. p \in R => p \in P /\ proc[p] \in {"removing", "removing own"}
    BY DEF Removing
  <2>2. p \in Orphans <=> proc[p] \in {"rm", "rm own"}
    BY DEF Orphans
  <2>3. proc'[p] = IF p \in R THEN Child(proc[p])
                   ELSE IF p \in P \ Orphans THEN "free" ELSE proc[p]
    BY <1>1
  <2>4. Child(proc[p]) \in {"rm", "rm own"}
    BY DEF Child
  <2> QED
    BY <2>1, <2>2, <2>3, <2>4 DEF ProcType, Kind
<1>3. proc' \in [Pid -> Kind]
  BY <1>1, <1>2
<1>4. Clients' = Clients \ P
  BY <1>2 DEF Clients
<1>5. Removing' = Removing \ P
  BY <1>2 DEF Removing
<1>6. Supervisors' = Supervisors \ P
  BY <1>2, <1>5 DEF Supervisors
<1> QED
  BY <1>3, <1>4, <1>5, <1>6

\* What the end of a process leaves.
LEMMA EndsLeaves ==
    ASSUME ProcType, NEW p \in Pid, Ends(p)
    PROVE  /\ proc' \in [Pid -> Kind]
           /\ Clients' = Clients \ {p} /\ Supervisors' = Supervisors \ {p}
           /\ Removing' = Removing \ {p}
<1>1. \A q \in Pid : proc'[q] = IF q = p THEN "free" ELSE proc[q]
  BY DEF Ends, ProcType
<1>2. proc' \in [Pid -> Kind]
  BY DEF Ends, ProcType, Kind
<1>3. Clients' = Clients \ {p}
  BY <1>1 DEF Clients
<1>4. Removing' = Removing \ {p}
  BY <1>1 DEF Removing
<1>5. Supervisors' = Supervisors \ {p}
  BY <1>1, <1>4 DEF Supervisors
<1> QED
  BY <1>2, <1>3, <1>4, <1>5

\* What a start of a process adds.
LEMMA ForkAdds ==
    ASSUME ProcType, NEW s \in Script, NEW kind \in {"client", "supervisor"},
           Fork(s, kind), ScriptType
    PROVE  \E p \in Pid :
             /\ PID' = [PID EXCEPT ![s] = p] /\ PID'[s] = p
             /\ proc' \in [Pid -> Kind] /\ Removing' = Removing
             /\ Clients' = IF kind = "client" THEN Clients \union {p} ELSE Clients
             /\ Supervisors' = IF kind = "client" THEN Supervisors
                                                  ELSE Supervisors \union {p}
<1>1. PICK p \in Unused : /\ proc' = [proc EXCEPT ![p] = kind]
                          /\ PID' = [PID EXCEPT ![s] = p]
  BY DEF Fork
<1>2. p \in Pid /\ proc[p] = "free"
  BY DEF Unused
<1>3. PID'[s] = p
  BY <1>1 DEF ScriptType
<1>4. proc' \in [Pid -> Kind]
  BY <1>1 DEF ProcType, Kind
<1>5. \A q \in Pid : proc'[q] = IF q = p THEN kind ELSE proc[q]
  BY <1>1, <1>2 DEF ProcType
<1>8. Removing' = Removing
  BY <1>2, <1>5 DEF Removing
<1>6. CASE kind = "client"
  <2>1. Clients' = Clients \union {p}
    BY <1>2, <1>5, <1>6 DEF Clients
  <2>2. Supervisors' = Supervisors
    BY <1>2, <1>5, <1>6, <1>8 DEF Supervisors
  <2> QED
    BY <1>1, <1>2, <1>3, <1>4, <1>6, <1>8, <2>1, <2>2
<1>7. CASE kind = "supervisor"
  <2>1. Clients' = Clients
    BY <1>2, <1>5, <1>7 DEF Clients
  <2>2. Supervisors' = Supervisors \union {p}
    BY <1>2, <1>5, <1>7, <1>8 DEF Supervisors
  <2> QED
    BY <1>1, <1>2, <1>3, <1>4, <1>7, <1>8, <2>1, <2>2
<1> QED
  BY <1>6, <1>7

LEMMA TypeInvNext == TypeInv /\ [Next]_vars => TypeInv'
<1> SUFFICES ASSUME TypeInv, [Next]_vars PROVE TypeInv'
  OBVIOUS
<1> USE LauncherAssumption DEF TypeInv, files
<1> DEFINE S == {"prompt"} \union StartStep \union StopStep
<1>1. ASSUME NEW s \in Script, Start(s) PROVE TypeInv'
  <2>1. CASE StartClean(s)
    <3>1. proc' \in [Pid -> Kind]
      BY <2>1, KillLeaves DEF StartClean
    <3>2. /\ UNCHANGED <<files, left, PID, interrupted, stray>>
          /\ pc' = [pc EXCEPT ![s] = "probe"]
      BY <2>1 DEF StartClean, Step
    <3> QED
      BY <3>1, <3>2 DEF ProcType, FileType, ScriptType, StartStep
  <2>2. CASE StartProbe(s)
    BY <2>2 DEF StartProbe, Step, ProcType, FileType, ScriptType, StartStep
  <2>3. CASE StartTruncate(s)
    BY <2>3 DEF StartTruncate, Step, ProcType, FileType, ScriptType, StartStep
  <2>4. CASE StartKillOld(s)
    <3>1. ProcType' /\ FileType'
      BY <2>4, KillLeaves DEF StartKillOld, ProcType, FileType
    <3>2. /\ pc' = [pc EXCEPT ![s] = "launch"] /\ left' = [left EXCEPT ![s] = COUNT]
          /\ PID' = PID
      BY <2>4 DEF StartKillOld, Step
    <3>3. left' \in [Script -> 0 .. COUNT] /\ left'[s] > 0
      BY <3>2 DEF ScriptType
    <3>4. pc' \in [Script -> S] /\ pc'[s] = "launch"
      BY <3>2 DEF ScriptType, StartStep
    <3>5. ASSUME NEW r \in Script
          PROVE  /\ pc'[r] = "launch" => left'[r] > 0
                 /\ pc'[r] = "append" => PID'[r] \in Pid
      BY <3>2, <3>3, <3>4 DEF ScriptType
    <3>6. ScriptType'
      BY <3>2, <3>3, <3>4, <3>5 DEF ScriptType
    <3> QED
      BY <2>4, <3>1, <3>6 DEF StartKillOld
  <2>5. CASE StartLaunch(s)
    <3>1. PICK p \in Pid : /\ PID' = [PID EXCEPT ![s] = p]
                           /\ proc' \in [Pid -> Kind]
      BY <2>5, ForkAdds DEF StartLaunch
    <3>2. ProcType' /\ FileType'
      BY <2>5, <3>1 DEF StartLaunch, ProcType, FileType
    <3>3. left' \in [Script -> 0 .. COUNT]
      BY <2>5 DEF StartLaunch, Step, ScriptType
    <3>4. PID' \in [Script -> Pid \union {Absent}] /\ PID'[s] \in Pid
      BY <3>1 DEF ScriptType
    <3>5. pc' = [pc EXCEPT ![s] = "append"]
      BY <2>5 DEF StartLaunch, Step
    <3>6. \A r \in Script : r # s => pc'[r] = pc[r] /\ left'[r] = left[r] /\ PID'[r] = PID[r]
      BY <2>5, <3>1, <3>5 DEF StartLaunch, ScriptType
    <3>7. pc' \in [Script -> S] /\ pc'[s] = "append"
      BY <3>5 DEF ScriptType, StartStep
    <3>8. ASSUME NEW r \in Script
          PROVE  /\ pc'[r] = "launch" => left'[r] > 0
                 /\ pc'[r] = "append" => PID'[r] \in Pid
      BY <3>4, <3>6, <3>7, <3>8 DEF ScriptType
    <3>9. ScriptType'
      BY <3>3, <3>4, <3>7, <3>8 DEF ScriptType
    <3> QED
      BY <2>5, <3>2, <3>9 DEF StartLaunch
  <2>6. CASE StartAppend(s)
    <3>1. PID[s] \in Pid
      BY <2>6 DEF StartAppend, Step, ScriptType
    <3>2. FileType' /\ ProcType'
      BY <2>6, <3>1, ListedType DEF StartAppend, ProcType, FileType
    <3>3. ScriptType'
      BY <2>6 DEF StartAppend, Step, ScriptType, StartStep
    <3> QED
      BY <2>6, <3>2, <3>3 DEF StartAppend
  <2>7. CASE StartSupervise(s)
    <3>1. PICK p \in Pid : /\ PID' = [PID EXCEPT ![s] = p]
                           /\ proc' \in [Pid -> Kind]
      BY <2>7, ForkAdds DEF StartSupervise
    <3>2. ProcType' /\ FileType'
      BY <2>7, <3>1 DEF StartSupervise, ProcType, FileType
    <3>3. ScriptType'
      BY <2>7, <3>1 DEF StartSupervise, Step, ScriptType, StartStep
    <3> QED
      BY <2>7, <3>2, <3>3 DEF StartSupervise
  <2>8. CASE StartNote(s)
    BY <2>8 DEF StartNote, Step, ProcType, FileType, ScriptType
  <2> QED
    BY <1>1, <2>1, <2>2, <2>3, <2>4, <2>5, <2>6, <2>7, <2>8 DEF Start
<1>2. ASSUME NEW s \in Script, Stop(s) PROVE TypeInv'
  <2>1. /\ UNCHANGED <<interrupted, stray, left, PID>>
        /\ \E to \in {"prompt"} \union StopStep : pc' = [pc EXCEPT ![s] = to]
    BY <1>2 DEF Stop, StopSupervisor, StopNoFile, StopTerm, StopKill, StopRemove, Step,
                StopStep
  <2>2. ScriptType'
    BY <2>1 DEF ScriptType, StopStep
  <2>3. \/ UNCHANGED proc
        \/ \E P : Kill(P)
    BY <1>2 DEF Stop, StopSupervisor, StopNoFile, StopTerm, StopKill, StopRemove
  <2>4. ProcType'
    BY <2>1, <2>3, KillLeaves DEF ProcType
  <2>5. FileType'
    BY <1>2 DEF Stop, StopSupervisor, StopNoFile, StopTerm, StopKill, StopRemove, FileType
  <2> QED
    BY <2>1, <2>2, <2>4, <2>5
<1>3. ASSUME NEW s \in Script, Interrupt(s) PROVE TypeInv'
  BY <1>3 DEF Interrupt, ProcType, FileType, ScriptType
<1>4. ASSUME NEW p \in Pid, Watch(p) \/ Orphan(p) PROVE TypeInv'
  <2>1. UNCHANGED <<pc, left, PID, interrupted>> /\ stray' \in BOOLEAN
    BY <1>4 DEF Watch, WatchEnds, WatchRemove, WatchRemoveOwn, Orphan, OrphanRemove,
                OrphanRemoveOwn
  <2>2. ScriptType'
    BY <2>1 DEF ScriptType
  <2>3. proc' \in [Pid -> Kind]
    BY <1>4 DEF Watch, WatchEnds, WatchRemove, WatchRemoveOwn, Orphan, OrphanRemove,
                OrphanRemoveOwn, Ends, ProcType, Kind
  <2>4. FileType'
    BY <1>4 DEF Watch, WatchEnds, WatchRemove, WatchRemoveOwn, Orphan, OrphanRemove,
                OrphanRemoveOwn, FileType
  <2> QED
    BY <2>1, <2>2, <2>3, <2>4 DEF ProcType
<1>5. ASSUME NEW p \in Pid, ClientExit(p) \/ OtherStart(p) \/ OtherExit(p) PROVE TypeInv'
  <2>1. proc' \in [Pid -> Kind]
    BY <1>5 DEF ClientExit, OtherStart, OtherExit, Ends, ProcType, Kind
  <2> QED
    BY <1>5, <2>1 DEF ClientExit, OtherStart, OtherExit, ProcType, FileType, ScriptType
<1>6. CASE UNCHANGED vars
  BY <1>6 DEF vars, ProcType, FileType, ScriptType
<1> QED
  BY <1>1, <1>2, <1>3, <1>4, <1>5, <1>6 DEF Next, Command

\* Every variable has its type, for any number of terminals: no file holds anything
\* but process numbers, and no start launches more than COUNT clients.
THEOREM TypeCorrect == Spec => []TypeOK
<1>1. Init => TypeInv
  BY TypeInvInit
<1>2. TypeInv /\ [Next]_vars => TypeInv'
  BY TypeInvNext
<1>3. TypeInv => TypeOK
  BY DEF TypeInv, TypeOK, ProcType, FileType, ScriptType, Kind
<1> QED
  BY <1>1, <1>2, <1>3, PTL DEF Spec
-----------------------------------------------------------------------------
(* One terminal.  At each command of the script: which supervisors run, which *)
(* clients run, and that a supervisor which is about to remove PID_FILE has     *)
(* seen the last client go.  Clients are launched only between StartKillOld    *)
(* and StartSupervise, where no supervisor runs.                             *)

OneTerminal == \E s : Script = {s}

SupervisorPart ==
    \A s \in Script :
        /\ pc[s] \in {"prompt", "probe", "truncate", "old supervisor"}
             => Supervisors \subseteq {SUPERVISOR_PID}
        /\ pc[s] \in {"launch", "append", "supervise"} \union StopStep => Supervisors = {}
        /\ pc[s] = "note" => Supervisors \subseteq {PID[s]}

ClientPart ==
    \A s \in Script :
        /\ pc[s] \in {"prompt", "launch", "supervise", "note", "stop"}
             => Clients \subseteq Listed
        /\ pc[s] = "append" => Clients \subseteq Listed \union {PID[s]}
        /\ pc[s] \in {"probe", "truncate", "old supervisor", "kill", "remove"}
             => Clients = {}

EndPart == Removing # {} => Clients = {}

Orderly == SupervisorPart /\ ClientPart /\ EndPart

Inv == TypeInv /\ (Undisturbed => Orderly)

LEMMA InvInit == Init => Inv
BY TypeInvInit
   DEF Init, Inv, Orderly, SupervisorPart, ClientPart, EndPart, StopStep, Clients,
       Removing, Supervisors, Listed

\* Nothing but processes that end: EndPart stays.
LEMMA EndKept ==
    ASSUME EndPart, Removing' \subseteq Removing, Clients' \subseteq Clients
    PROVE  EndPart'
BY DEF EndPart

LEMMA SameProcesses ==
    ASSUME UNCHANGED proc
    PROVE  Clients' = Clients /\ Supervisors' = Supervisors /\ Removing' = Removing
BY DEF Clients, Supervisors, Removing

LEMMA SameFile == ASSUME UNCHANGED PID_FILE PROVE Listed' = Listed
BY DEF Listed

\* No process runs under Absent.
LEMMA NoneAbsent == Absent \notin Clients /\ Absent \notin Supervisors
BY LauncherAssumption DEF Clients, Supervisors, Removing

LEMMA OrderlyStart ==
    ASSUME OneTerminal, TypeInv, Orderly, NEW s \in Script, Start(s)
    PROVE  Orderly'
<1> USE LauncherAssumption DEF TypeInv, ScriptType, files
<1>0. Script = {s}
  BY DEF OneTerminal
<1>1. CASE StartClean(s)
  <2>1. pc'[s] = "probe" /\ pc[s] = "prompt" /\ SUPERVISOR_PID' = SUPERVISOR_PID
    BY <1>1 DEF StartClean, Step
  <2>2. Clients' = {} /\ Supervisors' = Supervisors /\ Removing' \subseteq Removing
    <3>1. /\ Clients' = Clients \ ByName /\ Supervisors' = Supervisors \ ByName
          /\ Removing' = Removing \ ByName
      BY <1>1, KillLeaves DEF StartClean
    <3> QED
      BY <3>1 DEF ByName, Clients, Supervisors, Removing
  <2> QED
    BY <1>0, <2>1, <2>2, EndKept DEF Orderly, SupervisorPart, ClientPart, StopStep
<1>2. CASE StartProbe(s)
  <2>1. /\ pc[s] = "probe" /\ pc'[s] \in {"truncate", "prompt"}
        /\ UNCHANGED <<proc, files>>
    BY <1>2 DEF StartProbe, Step
  <2> QED
    BY <1>0, <2>1, EndKept, SameProcesses
       DEF Orderly, SupervisorPart, ClientPart, StopStep
<1>3. CASE StartTruncate(s)
  <2>1. /\ pc[s] = "truncate" /\ pc'[s] = "old supervisor"
        /\ UNCHANGED <<proc, SUPERVISOR_PID>>
    BY <1>3 DEF StartTruncate, Step
  <2> QED
    BY <1>0, <2>1, EndKept, SameProcesses
       DEF Orderly, SupervisorPart, ClientPart, StopStep
<1>4. CASE StartKillOld(s)
  <2>1. /\ pc[s] = "old supervisor" /\ pc'[s] = "launch" /\ UNCHANGED PID_FILE
    BY <1>4 DEF StartKillOld, Step
  <2>2. Clients' = {} /\ Supervisors' = {} /\ Removing' \subseteq Removing
    <3>1. /\ Clients' = Clients \ {SUPERVISOR_PID}
          /\ Supervisors' = Supervisors \ {SUPERVISOR_PID}
          /\ Removing' = Removing \ {SUPERVISOR_PID}
      BY <1>4, KillLeaves DEF StartKillOld
    <3> QED
      BY <1>0, <2>1, <3>1 DEF Orderly, SupervisorPart, ClientPart
  <2> QED
    BY <1>0, <2>1, <2>2, EndKept DEF Orderly, SupervisorPart, ClientPart, StopStep
<1>5. CASE StartLaunch(s)
  <2>1. pc[s] = "launch" /\ pc'[s] = "append" /\ UNCHANGED PID_FILE
    BY <1>5 DEF StartLaunch, Step
  <2>2. Clients' = Clients \union {PID'[s]} /\ Supervisors' = {}
    BY <1>0, <1>5, <2>1, ForkAdds DEF StartLaunch, Orderly, SupervisorPart
  <2>3. Clients \subseteq Listed'
    BY <1>0, <2>1, SameFile DEF Orderly, ClientPart
  <2>4. Removing' = {}
    BY <2>2 DEF Supervisors
  <2> QED
    BY <1>0, <2>1, <2>2, <2>3, <2>4
       DEF Orderly, SupervisorPart, ClientPart, EndPart, StopStep
<1>6. CASE StartAppend(s)
  <2>1. /\ pc[s] = "append" /\ pc'[s] \in {"launch", "supervise"}
        /\ UNCHANGED proc /\ PID[s] \in Pid
        /\ PID_FILE' = Listed \union {PID[s]}
    BY <1>6 DEF StartAppend, Step
  <2>2. Listed' = Listed \union {PID[s]}
    <3>1. Listed \union {PID[s]} \in SUBSET Pid
      BY <2>1, ListedType
    <3> QED
      BY <2>1, <3>1 DEF Listed
  <2> QED
    BY <1>0, <2>1, <2>2, EndKept, SameProcesses
       DEF Orderly, SupervisorPart, ClientPart, StopStep
<1>7. CASE StartSupervise(s)
  <2>1. pc[s] = "supervise" /\ pc'[s] = "note" /\ UNCHANGED PID_FILE
    BY <1>7 DEF StartSupervise, Step
  <2>2. Supervisors = {}
    BY <1>0, <2>1 DEF Orderly, SupervisorPart
  <2>3. PICK p \in Pid : /\ PID'[s] = p /\ Removing' = Removing
                         /\ Clients' = Clients /\ Supervisors' = {p}
    <3>1. Fork(s, "supervisor")
      BY <1>7 DEF StartSupervise
    <3> QED
      BY <3>1, <2>2, ForkAdds
  <2> QED
    BY <1>0, <2>1, <2>3, EndKept, SameFile
       DEF Orderly, SupervisorPart, ClientPart, StopStep
<1>8. CASE StartNote(s)
  <2>1. /\ pc[s] = "note" /\ pc'[s] = "prompt" /\ SUPERVISOR_PID' = PID[s]
        /\ UNCHANGED <<proc, PID_FILE>>
    BY <1>8 DEF StartNote, Step
  <2> QED
    BY <1>0, <2>1, EndKept, SameProcesses, SameFile
       DEF Orderly, SupervisorPart, ClientPart, StopStep
<1> QED
  BY <1>1, <1>2, <1>3, <1>4, <1>5, <1>6, <1>7, <1>8 DEF Start

LEMMA OrderlyStop ==
    ASSUME OneTerminal, TypeInv, Orderly, NEW s \in Script, Stop(s)
    PROVE  /\ Orderly'
           /\ StopNoFile(s) \/ StopRemove(s) => Clients' = {} /\ Supervisors' = {}
<1> USE LauncherAssumption DEF TypeInv, ScriptType, files
<1>0. Script = {s}
  BY DEF OneTerminal
<1>1. CASE StopSupervisor(s)
  <2>1. /\ pc[s] = "prompt" /\ pc'[s] = "stop" /\ UNCHANGED PID_FILE
    BY <1>1 DEF StopSupervisor, Step
  <2>2. /\ Clients' \subseteq Clients /\ Supervisors' = {}
        /\ Removing' \subseteq Removing
    BY <1>0, <1>1, <2>1, KillLeaves DEF StopSupervisor, Orderly, SupervisorPart
  <2>3. ~StopNoFile(s) /\ ~StopRemove(s)
    BY <2>1 DEF StopNoFile, StopRemove, Step
  <2> QED
    BY <1>0, <2>1, <2>2, <2>3, EndKept, SameFile
       DEF Orderly, SupervisorPart, ClientPart, StopStep
<1>2. CASE StopNoFile(s)
  <2>1. /\ pc[s] = "stop" /\ pc'[s] = "prompt"
    BY <1>2 DEF StopNoFile, Step
  <2>2. Clients' = {} /\ Supervisors' = {}
    <3>1. Clients' = Clients \ ByName /\ Supervisors' = Supervisors \ ByName
      BY <1>2, KillLeaves DEF StopNoFile
    <3> QED
      BY <1>0, <2>1, <3>1 DEF ByName, Clients, Orderly, SupervisorPart, StopStep
  <2> QED
    BY <1>0, <2>1, <2>2 DEF Orderly, SupervisorPart, ClientPart, EndPart, StopStep
<1>3. CASE StopTerm(s) \/ StopKill(s)
  <2>1. /\ pc[s] \in {"stop", "kill"} /\ pc'[s] \in {"kill", "remove"}
        /\ UNCHANGED files /\ Kill(Listed)
    BY <1>3 DEF StopTerm, StopKill, Step
  <2>2. Clients' = {} /\ Supervisors' = {}
    <3>1. Clients' = Clients \ Listed /\ Supervisors' = Supervisors \ Listed
      BY <2>1, KillLeaves
    <3>2. Supervisors = {}
      BY <1>0, <2>1 DEF Orderly, SupervisorPart, StopStep
    <3>3. Clients \subseteq Listed
      BY <1>0, <2>1 DEF Orderly, ClientPart
    <3> QED
      BY <3>1, <3>2, <3>3
  <2>3. ~StopNoFile(s) /\ ~StopRemove(s)
    BY <2>1 DEF StopNoFile, StopRemove, Step
  <2> QED
    BY <1>0, <2>1, <2>2, <2>3 DEF Orderly, SupervisorPart, ClientPart, EndPart, StopStep
<1>4. CASE StopRemove(s)
  <2>1. /\ pc[s] = "remove" /\ pc'[s] = "prompt" /\ UNCHANGED proc
    BY <1>4 DEF StopRemove, Step
  <2>2. Clients' = {} /\ Supervisors' = {}
    BY <1>0, <2>1, SameProcesses DEF Orderly, SupervisorPart, ClientPart, StopStep
  <2> QED
    BY <1>0, <2>1, <2>2 DEF Orderly, SupervisorPart, ClientPart, EndPart, StopStep
<1> QED
  BY <1>1, <1>2, <1>3, <1>4 DEF Stop

LEMMA OrderlyWatch ==
    ASSUME OneTerminal, TypeInv, Orderly, NEW p \in Pid, Watch(p)
    PROVE  Orderly'
<1> USE DEF TypeInv, files
<1>1. PICK s : Script = {s}
  BY DEF OneTerminal
<1>2. p \in Supervisors /\ pc' = pc /\ PID' = PID
  BY DEF Watch, WatchEnds, WatchRemove, WatchRemoveOwn, Supervisors, Removing
<1>3. pc[s] \in {"prompt", "probe", "truncate", "old supervisor", "note"}
  BY <1>1, <1>2 DEF Orderly, SupervisorPart, ScriptType, StartStep, StopStep
<1>4. Clients \subseteq Listed
  BY <1>1, <1>3 DEF Orderly, ClientPart
<1>5. CASE WatchEnds(p)
  <2>1. /\ UNCHANGED <<PID_FILE, SUPERVISOR_PID>>
        /\ \A q \in Listed : ~Alive(q)
    BY <1>5 DEF WatchEnds
  <2>2. Clients = {}
    BY <1>4, <2>1 DEF Clients, Alive, Orphans
  <2>3. \A q \in Pid : proc'[q] = IF q = p THEN proc'[p] ELSE proc[q]
    BY <1>5 DEF WatchEnds, ProcType
  <2>4. proc[p] = "supervisor" /\ proc'[p] \in {"removing", "removing own"}
    BY <1>5 DEF WatchEnds, ProcType
  <2>5. Clients' = {}
    BY <2>2, <2>3, <2>4 DEF Clients
  <2>6. Supervisors' = Supervisors
    BY <2>3, <2>4 DEF Supervisors, Removing
  <2> QED
    BY <1>1, <1>2, <2>1, <2>5, <2>6 DEF Orderly, SupervisorPart, ClientPart, EndPart
<1>6. CASE WatchRemove(p)
  <2>1. UNCHANGED SUPERVISOR_PID /\ proc[p] = "removing"
    BY <1>6 DEF WatchRemove
  <2>2. Clients = {}
    BY <2>1 DEF Orderly, EndPart, Removing
  <2>3. \A q \in Pid : proc'[q] = IF q = p THEN "removing own" ELSE proc[q]
    BY <1>6 DEF WatchRemove, ProcType
  <2>4. Clients' = {}
    BY <2>1, <2>2, <2>3 DEF Clients
  <2>5. Supervisors' = Supervisors
    BY <2>1, <2>3 DEF Supervisors, Removing
  <2> QED
    BY <1>1, <1>2, <2>1, <2>4, <2>5 DEF Orderly, SupervisorPart, ClientPart, EndPart
<1>7. CASE WatchRemoveOwn(p)
  <2>1. proc[p] = "removing own" /\ UNCHANGED PID_FILE /\ Ends(p)
    BY <1>7 DEF WatchRemoveOwn
  <2>2. Clients = {}
    BY <2>1 DEF Orderly, EndPart, Removing
  <2>3. Clients' = {} /\ Supervisors' = Supervisors \ {p}
    BY <2>1, <2>2, EndsLeaves
  <2>4. Supervisors' = {}
    BY <1>1, <1>2, <1>3, <2>3 DEF Orderly, SupervisorPart
  <2> QED
    BY <1>1, <1>2, <2>3, <2>4 DEF Orderly, SupervisorPart, ClientPart, EndPart
<1> QED
  BY <1>5, <1>6, <1>7 DEF Watch

\* An orphaned rm that takes no number in use.
LEMMA OrderlyOrphan ==
    ASSUME OneTerminal, TypeInv, Orderly, NEW p \in Pid, Orphan(p), ~stray'
    PROVE  Orderly'
<1> USE DEF TypeInv
<1>1. UNCHANGED <<pc, PID>> /\ Ends(p) /\ proc[p] \in {"rm", "rm own"}
  BY DEF Orphan, OrphanRemove, OrphanRemoveOwn
<1>2. p \notin Clients /\ p \notin Supervisors /\ p \notin Removing
  BY <1>1 DEF Clients, Supervisors, Removing
<1>3. Clients' = Clients /\ Supervisors' = Supervisors /\ Removing' = Removing
  <2>1. /\ Clients' = Clients \ {p} /\ Supervisors' = Supervisors \ {p}
        /\ Removing' = Removing \ {p}
    BY <1>1, EndsLeaves
  <2> QED
    BY <1>2, <2>1
<1>4. EndPart'
  BY <1>3, EndKept DEF Orderly
<1>5. CASE OrphanRemove(p)
  <2>1. UNCHANGED SUPERVISOR_PID /\ Clients \intersect Listed = {}
    BY <1>5 DEF OrphanRemove
  <2>2. SupervisorPart'
    BY <1>1, <1>3, <2>1 DEF Orderly, SupervisorPart
  <2>3. ClientPart'
    BY <1>1, <1>3, <2>1 DEF Orderly, ClientPart
  <2> QED
    BY <1>4, <2>2, <2>3 DEF Orderly
<1>6. CASE OrphanRemoveOwn(p)
  <2>1. UNCHANGED PID_FILE /\ SUPERVISOR_PID \notin Supervisors
    BY <1>6 DEF OrphanRemoveOwn
  <2>2. SupervisorPart'
    BY <1>1, <1>3, <2>1 DEF Orderly, SupervisorPart
  <2>3. ClientPart'
    BY <1>1, <1>3, <2>1, SameFile DEF Orderly, ClientPart
  <2> QED
    BY <1>4, <2>2, <2>3 DEF Orderly
<1> QED
  BY <1>5, <1>6 DEF Orphan

LEMMA OrderlyWorld ==
    ASSUME OneTerminal, TypeInv, Orderly, NEW p \in Pid,
           ClientExit(p) \/ OtherStart(p) \/ OtherExit(p)
    PROVE  Orderly'
<1> USE DEF TypeInv, files
<1>1. UNCHANGED <<files, pc, PID>>
  BY DEF ClientExit, OtherStart, OtherExit
<1>2. /\ Clients' \subseteq Clients /\ Supervisors' \subseteq Supervisors
      /\ Removing' \subseteq Removing
  <2>1. CASE ClientExit(p) \/ OtherExit(p)
    BY <2>1, EndsLeaves DEF ClientExit, OtherExit
  <2>2. CASE OtherStart(p)
    BY <2>2 DEF OtherStart, ProcType, Clients, Supervisors, Removing
  <2> QED
    BY <2>1, <2>2
<1>3. EndPart'
  BY <1>1, <1>2, EndKept DEF Orderly
<1>4. SupervisorPart'
  BY <1>1, <1>2 DEF Orderly, SupervisorPart
<1>5. ClientPart'
  BY <1>1, <1>2, SameFile DEF Orderly, ClientPart
<1> QED
  BY <1>3, <1>4, <1>5 DEF Orderly

LEMMA InvNext == OneTerminal /\ Inv /\ [Next]_vars => Inv'
<1> SUFFICES ASSUME OneTerminal, Inv, [Next]_vars, Undisturbed' PROVE Orderly'
  BY TypeInvNext DEF Inv
<1>1. Undisturbed
  <2>1. /\ UNCHANGED interrupted \/ interrupted'
        /\ UNCHANGED stray \/ \E p \in Pid : Orphan(p)
    BY DEF Next, Command, Start, Stop, StartClean, StartProbe, StartTruncate,
       StartKillOld, StartLaunch, StartAppend, StartSupervise, StartNote, StopSupervisor,
       StopNoFile, StopTerm, StopKill, StopRemove, Interrupt, Watch, WatchEnds,
       WatchRemove, WatchRemoveOwn, Orphan, OrphanRemove, OrphanRemoveOwn, ClientExit,
       OtherStart, OtherExit, vars
  <2>2. (\E p \in Pid : Orphan(p)) => (stray => stray')
    BY DEF Orphan, OrphanRemove, OrphanRemoveOwn
  <2> QED
    BY <2>1, <2>2 DEF Undisturbed, Inv, TypeInv
<1>2. TypeInv /\ Orderly
  BY <1>1 DEF Inv
<1>3. ASSUME NEW s \in Script, Interrupt(s) PROVE FALSE
  BY <1>3 DEF Interrupt, Undisturbed
<1>4. CASE UNCHANGED vars
  <2>1. UNCHANGED <<proc, PID_FILE, SUPERVISOR_PID, pc, PID>>
    BY <1>4 DEF vars, files
  <2> QED
    BY <1>2, <2>1, EndKept, SameProcesses, SameFile
       DEF Orderly, SupervisorPart, ClientPart
<1>5. ~stray'
  BY DEF Undisturbed
<1> QED
  BY <1>2, <1>3, <1>4, <1>5, OrderlyStart, OrderlyStop, OrderlyWatch, OrderlyOrphan,
     OrderlyWorld DEF Next, Command

LEMMA InvHolds == OneTerminal => (Spec => []Inv)
<1> SUFFICES ASSUME OneTerminal PROVE Spec => []Inv
  OBVIOUS
<1>1. Init => Inv
  BY InvInit
<1>2. Inv /\ [Next]_vars => Inv'
  BY InvNext
<1> QED
  BY <1>1, <1>2, PTL DEF Spec

\* From one terminal: between two runs of the script PID_FILE names every client that
\* runs.  No supervisor removes the file of a later start (run_client.sh 91-112, 147-160),
\* unless the rm it had forked outlives it and takes numbers that are in use.
THEOREM ClientsListedCorrect == OneTerminal => (Spec => []ClientsListed)
<1> SUFFICES ASSUME OneTerminal PROVE Spec => []ClientsListed
  OBVIOUS
<1>1. Inv => ClientsListed
  BY DEF OneTerminal, Inv, Orderly, ClientPart, ClientsListed, AtPrompt
<1> QED
  BY <1>1, InvHolds, PTL

\* From one terminal: at most one supervisor runs, the one SUPERVISOR_PID names.
THEOREM SupervisorKnownCorrect == OneTerminal => (Spec => []SupervisorKnown)
<1> SUFFICES ASSUME OneTerminal PROVE Spec => []SupervisorKnown
  OBVIOUS
<1>1. Inv => SupervisorKnown
  BY DEF OneTerminal, Inv, Orderly, SupervisorPart, SupervisorKnown, AtPrompt
<1> QED
  BY <1>1, InvHolds, PTL

\* From one terminal: when stop is done, no client and no supervisor is left
\* (README.md:429), unless a run of the script was ended in the middle or lost its file
\* to the rm of an earlier supervisor.
THEOREM StopLeavesNoneCorrect == OneTerminal => (Spec => StopLeavesNone)
<1> SUFFICES ASSUME OneTerminal PROVE Spec => StopLeavesNone
  OBVIOUS
<1>1. ASSUME Inv, NEW s \in Script, StopNoFile(s) \/ StopRemove(s), Undisturbed
      PROVE  NoneLeft
  <2>1. Clients' = {} /\ Supervisors' = {}
    BY <1>1, OrderlyStop DEF Inv, Stop
  <2> QED
    BY <2>1 DEF NoneLeft
<1>2. Inv => [\A s \in Script :
                (StopNoFile(s) \/ StopRemove(s)) /\ Undisturbed => NoneLeft]_vars
  BY <1>1
<1> QED
  BY <1>2, InvHolds, PTL DEF StopLeavesNone
=============================================================================

---------------------------- MODULE FileManager -----------------------------
(***************************************************************************)
(* The file and directory commands of the menu: src/src/menu.c, cases 1 to 9, *)
(* with file_manager.c, directory.c, path_manager.c and log.c below them.     *)
(* Several copies of the program (or one of them and another process that     *)
(* uses the same calls) work on one tree; each runs one command at a time, and *)
(* the steps of a command are its system calls.                              *)
(*                                                                         *)
(* External: the tree and its files.  A path is the sequence of its names; a   *)
(* file outlives its name while it is open, and may have several names.       *)
(* Contents are sequences of blocks, one per read() of fm_copy or write() of   *)
(* fm_write.  Permissions are left out: every existing path is accessible.     *)
(*                                                                         *)
(* Every function writes a line to the run-time log before it returns, and the *)
(* menu looks at errno only then.  Nothing here reads the log; what counts is   *)
(* that its write() may fail on a full disk and leave its own errno.           *)
(***************************************************************************)
EXTENDS Naturals, FiniteSets, SequencesExt

CONSTANTS
    Proc,
    Path,       \* the paths the users name
    Ino,        \* files
    Commands,   \* the menu's commands in use
    MaxTurns,   \* bound: commands begun, by all processes
    MaxBlocks,  \* bound: blocks of a file at the start
    DiskFills,  \* TRUE: a write may find the disk full
    ReadsFail   \* TRUE: a read may fail

Command == {"create", "delete", "write", "read", "copy", "info", "list", "mkdir", "rmdir"}

ASSUME FileAssumption ==
    /\ \A q \in Path : Len(q) \in Nat \ {0} /\ \A k \in 1 .. Len(q) : SubSeq(q, 1, k) \in Path
    /\ \A kind \in {"dir", "free", "none"} : kind \notin Ino
    /\ Commands \subseteq Command /\ MaxTurns \in Nat /\ MaxBlocks \in Nat
    /\ DiskFills \in BOOLEAN /\ ReadsFail \in BOOLEAN

VARIABLES
    node,       \* external: per path, "free", "dir" or the file it names
    data,       \* external: per file, its blocks
    pc, cmd, src, dst,
    level,      \* path_mkdir_recursive: the prefix it works on
    ifd, ofd,   \* what fm_read, fm_copy read from; what fm_write, fm_copy write to
    offset,     \* position of both of fm_copy's descriptors
    buf,        \* the block fm_copy has read
    errno,      \* ENOSPC and EIO, which the menu does not tell apart, are "other"
    ret,        \* what the fm_ or dir_ function returned: "ok", "fail", or "empty" for 0 bytes
    turns,      \* commands begun
    acked,      \* history: <<file, block>> of each write reported as a success
    torn        \* history: another process has changed the copy's files, or a read failed

disk == <<node, data>>
regs == <<src, dst, level, ifd, ofd, offset, buf>>
vars == <<disk, pc, cmd, regs, errno, ret, turns, acked, torn>>

Block == ({"hole"} \union Proc \union Ino) \X Nat \X BOOLEAN
Hole  == <<"hole", 0, TRUE>>

\* The root is always there.
Exists(q) == q # << >> => node[q] # "free"
IsDir(q)  == q # << >> => node[q] = "dir"
Children(q) == {r \in Path : Len(r) > 1 /\ Front(r) = q /\ node[r] # "free"}
OpenFiles   == {ifd[p] : p \in Proc} \union {ofd[p] : p \in Proc}
UnusedIno   == {i \in Ino : i \notin OpenFiles /\ \A q \in Path : node[q] # i}

Init ==
    /\ node \in [Path -> Ino \union {"dir", "free"}]
    /\ \A q \in Path : Exists(q) => IsDir(Front(q))
    /\ data \in {[i \in Ino |-> [j \in 1 .. len[i] |-> <<i, j, TRUE>>]] :
                    len \in [Ino -> 0 .. MaxBlocks]}
    /\ pc = [p \in Proc |-> "menu"] /\ cmd = [p \in Proc |-> "none"]
    /\ src = [p \in Proc |-> << >>] /\ dst = [p \in Proc |-> << >>]
    /\ level = [p \in Proc |-> 0]
    /\ ifd = [p \in Proc |-> "none"] /\ ofd = [p \in Proc |-> "none"]
    /\ offset = [p \in Proc |-> 0] /\ buf = [p \in Proc |-> Hole]
    /\ errno = [p \in Proc |-> "other"]
    /\ ret = [p \in Proc |-> "none"]
    /\ turns = 0
    /\ acked = {} /\ torn = [p \in Proc |-> FALSE]

-----------------------------------------------------------------------------
(* The menu.                                                               *)

\* A case of the switch: it asks for the path, or for two, and makes the call.  errno
\* keeps the value that the last failing call of an earlier command has left.
Begin(p, command, q, r) ==
    /\ pc[p] = "menu" /\ command \in Commands /\ turns < MaxTurns
    /\ turns' = turns + 1
    /\ pc' = [pc EXCEPT ![p] = command] /\ cmd' = [cmd EXCEPT ![p] = command]
    /\ src' = [src EXCEPT ![p] = q] /\ dst' = [dst EXCEPT ![p] = r]
    /\ level' = [level EXCEPT ![p] = 1]
    /\ UNCHANGED <<disk, ifd, ofd, offset, buf, errno, ret, acked, torn>>

MenuCreate(p) == \E q \in Path : Begin(p, "create", q, << >>)
MenuDelete(p) == \E q \in Path : Begin(p, "delete", q, << >>)
MenuWrite(p)  == \E q \in Path : Begin(p, "write", q, << >>)
MenuRead(p)   == \E q \in Path : Begin(p, "read", q, << >>)
MenuCopy(p)   == \E q, r \in Path : Begin(p, "copy", q, r)
MenuInfo(p)   == \E q \in Path : Begin(p, "info", q, << >>)
MenuList(p)   == \E q \in Path : Begin(p, "list", q, << >>)
MenuMkdir(p)  == \E q \in Path : Begin(p, "mkdir", q, << >>)
MenuRmdir(p)  == \E q \in Path : Begin(p, "rmdir", q, << >>)

\* The function is done: it will log, and return `result`; a system call has failed
\* with the errno e.
Return(p, result) ==
    /\ ret' = [ret EXCEPT ![p] = result] /\ pc' = [pc EXCEPT ![p] = "log"]
    /\ UNCHANGED <<errno, cmd>>

FailAt(p, label, e) ==
    /\ ret' = [ret EXCEPT ![p] = "fail"] /\ pc' = [pc EXCEPT ![p] = label]
    /\ errno' = [errno EXCEPT ![p] = e] /\ UNCHANGED cmd

Fail(p, e) == FailAt(p, "log", e)

Step(p, label) ==
    pc' = [pc EXCEPT ![p] = label] /\ UNCHANGED <<ret, errno, cmd>>

\* The errno of a call for a path that is not there: a file is taken for a directory,
\* or nothing is.
NoEntry(q) == IF \E k \in 1 .. Len(q) - 1 : node[SubSeq(q, 1, k)] \in Ino
              THEN "ENOTDIR" ELSE "ENOENT"

\* What the case of the command prints when the function has not succeeded.
Message(command, e) ==
    CASE e = "ENOENT" /\ command = "copy"                       -> "source missing"
      [] e = "ENOENT" /\ command \in Command \ {"copy", "delete", "mkdir"} -> "missing"
      [] e = "EACCES" /\ command # "delete"                     -> "denied"
      [] e = "EISDIR" /\ command \in {"read", "write"}          -> "is a directory"
      [] e = "ENOTDIR" /\ command = "list"                      -> "no directory"
      [] e = "EEXIST" /\ command = "mkdir"                      -> "exists"
      [] e = "ENOTEMPTY" /\ command = "rmdir"                   -> "not empty"
      [] OTHER -> "failed"

\* log_write, and the end of the function.  On a full disk the line is not written and
\* errno is that of the log; the tests of access() in fm_copy set errno again after
\* they have logged.
Log(p) ==
    /\ pc[p] \in {"log", "log missing", "log denied"}
    /\ \E full \in (IF DiskFills THEN BOOLEAN ELSE {FALSE}) :
          errno' = [errno EXCEPT ![p] =
                        CASE pc[p] = "log missing" -> "ENOENT"
                          [] pc[p] = "log denied" -> "EACCES"
                          [] pc[p] = "log" /\ full -> "other"
                          [] OTHER -> @]
    /\ pc' = [pc EXCEPT ![p] = "print"]
    /\ UNCHANGED <<disk, regs, cmd, ret, turns, acked, torn>>

Printed(p) == IF ret[p] = "ok" THEN "success" ELSE Message(cmd[p], errno[p])

\* The menu prints its message.  Of errno only what a later message can show is kept:
\* that of fm_read, which is the only one without a failing call.
Show(p) ==
    /\ pc[p] = "print"
    /\ pc' = [pc EXCEPT ![p] = "menu"] /\ cmd' = [cmd EXCEPT ![p] = "none"]
    /\ src' = [src EXCEPT ![p] = << >>] /\ dst' = [dst EXCEPT ![p] = << >>]
    /\ level' = [level EXCEPT ![p] = 0]
    /\ offset' = [offset EXCEPT ![p] = 0] /\ buf' = [buf EXCEPT ![p] = Hole]
    /\ errno' = [errno EXCEPT ![p] = IF @ \in {"ENOENT", "EACCES", "EISDIR"} THEN @ ELSE "other"]
    /\ ret' = [ret EXCEPT ![p] = "none"] /\ torn' = [torn EXCEPT ![p] = FALSE]
    /\ UNCHANGED <<disk, ifd, ofd, turns, acked>>

-----------------------------------------------------------------------------
(* Files.                                                                  *)

\* open(q) with O_CREAT makes a new, empty file.
NewFile(q, i) ==
    /\ i \in UnusedIno
    /\ node' = [node EXCEPT ![q] = i]
    /\ data' = [data EXCEPT ![i] = << >>]
    /\ acked' = {a \in acked : a[1] # i}

fm_create(p) ==
    LET q == src[p] IN
    /\ pc[p] = "create"
    /\ \/ node[q] \in Ino /\ Return(p, "ok") /\ UNCHANGED <<disk, acked>>
       \/ node[q] = "dir" /\ Fail(p, "EISDIR") /\ UNCHANGED <<disk, acked>>
       \/ /\ ~Exists(q) /\ ~IsDir(Front(q))
          /\ Fail(p, NoEntry(q)) /\ UNCHANGED <<disk, acked>>
       \/ /\ ~Exists(q) /\ IsDir(Front(q))
          /\ Return(p, "ok") /\ \E i \in Ino : NewFile(q, i)
    /\ UNCHANGED <<regs, turns, torn>>

fm_delete(p) ==
    LET q == src[p] IN
    /\ pc[p] = "delete"
    /\ IF node[q] \in Ino
       THEN node' = [node EXCEPT ![q] = "free"] /\ Return(p, "ok")
       ELSE UNCHANGED node /\ Fail(p, IF node[q] = "dir" THEN "EISDIR" ELSE NoEntry(q))
    /\ UNCHANGED <<data, regs, turns, acked, torn>>

\* fm_write: open without O_CREAT.
WriteOpen(p) ==
    LET q == src[p] IN
    /\ pc[p] = "write"
    /\ IF node[q] \in Ino
       THEN ofd' = [ofd EXCEPT ![p] = node[q]] /\ Step(p, "append")
       ELSE /\ UNCHANGED ofd
            /\ Fail(p, IF node[q] = "dir" THEN "EISDIR" ELSE NoEntry(q))
    /\ UNCHANGED <<disk, src, dst, level, ifd, offset, buf, turns, acked, torn>>

\* A copy of another process whose files this one changes is no longer expected to
\* be exact: `files` are those it writes into, `lost` those in which it takes blocks away.
Disturb(p, files, lost) ==
    torn' = [q \in Proc |-> torn[q] \/ (q # p /\ (ofd[q] \in files \/ ifd[q] \in lost))]

\* Writing at a position: what is there is overwritten, a gap is filled with holes.
WriteAt(s, pos, b) ==
    [j \in 1 .. (IF Len(s) > pos THEN Len(s) ELSE pos + 1) |->
        IF j = pos + 1 THEN b ELSE IF j <= Len(s) THEN s[j] ELSE Hole]

\* Mutant of AppendBlock: without O_APPEND.
AppendBlockAtStart(i, b) == data' = [data EXCEPT ![i] = WriteAt(@, 0, b)]

AppendBlock(i, b) == data' = [data EXCEPT ![i] = Append(@, b)]

\* fm_write: one write() with O_APPEND.  A short write counts as a success.
WriteAppend(p) ==
    LET i == ofd[p] IN
    /\ pc[p] = "append"
    /\ \/ \E whole \in (IF DiskFills THEN BOOLEAN ELSE {TRUE}) :
            /\ AppendBlock(i, <<p, turns, whole>>)
            /\ acked' = acked \union {<<i, <<p, turns, whole>>>>}
            /\ Return(p, "ok")
            /\ Disturb(p, {i}, {})
       \/ DiskFills /\ Fail(p, "other") /\ UNCHANGED <<data, acked, torn>>
    /\ ofd' = [ofd EXCEPT ![p] = "none"]
    /\ UNCHANGED <<node, src, dst, level, ifd, offset, buf, turns>>

\* fm_read: a directory can be opened, too.
ReadOpen(p) ==
    LET q == src[p] IN
    /\ pc[p] = "read"
    /\ IF Exists(q)
       THEN ifd' = [ifd EXCEPT ![p] = node[q]] /\ Step(p, "read block")
       ELSE UNCHANGED ifd /\ Fail(p, NoEntry(q))
    /\ UNCHANGED <<disk, src, dst, level, ofd, offset, buf, turns, acked, torn>>

\* fm_read: one read().  The menu takes a length of 0 for a failure, although no call
\* has set errno.
ReadBlock(p) ==
    /\ pc[p] = "read block"
    /\ \/ ifd[p] = "dir" /\ Fail(p, "EISDIR")
       \/ ifd[p] \in Ino /\ data[ifd[p]] # << >> /\ Return(p, "ok")
       \/ ifd[p] \in Ino /\ data[ifd[p]] = << >> /\ Return(p, "empty")
       \/ ReadsFail /\ Fail(p, "other")
    /\ ifd' = [ifd EXCEPT ![p] = "none"]
    /\ UNCHANGED <<disk, src, dst, level, ofd, offset, buf, turns, acked, torn>>

\* fm_info: stat().
fm_info(p) ==
    /\ pc[p] = "info"
    /\ IF Exists(src[p]) THEN Return(p, "ok") ELSE Fail(p, NoEntry(src[p]))
    /\ UNCHANGED <<disk, regs, turns, acked, torn>>

\* dir_list: opendir() and what it reads.
dir_list(p) ==
    LET q == src[p] IN
    /\ pc[p] = "list"
    /\ IF node[q] = "dir" THEN Return(p, "ok")
       ELSE Fail(p, IF node[q] \in Ino THEN "ENOTDIR" ELSE NoEntry(q))
    /\ UNCHANGED <<disk, regs, turns, acked, torn>>

-----------------------------------------------------------------------------
(* fm_copy.                                                                *)

copyUnchanged == <<src, dst, level, turns>>

\* access(src, F_OK); access(src, R_OK) fails in the same way as open() if the source
\* has gone since.
CopyAccess(p) ==
    /\ pc[p] = "copy"
    /\ IF Exists(src[p]) THEN Step(p, "copy open")
       ELSE FailAt(p, "log missing", NoEntry(src[p]))
    /\ UNCHANGED <<disk, regs, turns, acked, torn>>

\* open(src); a directory can be opened, too.
CopyOpen(p) ==
    LET q == src[p] IN
    /\ pc[p] = "copy open"
    /\ \/ Exists(q) /\ ifd' = [ifd EXCEPT ![p] = node[q]] /\ Step(p, "copy check")
       \/ ~Exists(q) /\ UNCHANGED ifd /\ FailAt(p, "log denied", NoEntry(q))
       \/ ~Exists(q) /\ UNCHANGED ifd /\ Fail(p, NoEntry(q))
    /\ UNCHANGED <<disk, copyUnchanged, ofd, offset, buf, acked, torn>>

\* access(dir_path, W_OK) of a destination with a '/' in it.
CopyCheck(p) ==
    /\ pc[p] = "copy check"
    /\ IF Exists(Front(dst[p]))
       THEN Step(p, "copy create") /\ UNCHANGED ifd
       ELSE /\ FailAt(p, "log denied", NoEntry(dst[p]))
            /\ ifd' = [ifd EXCEPT ![p] = "none"]
    /\ UNCHANGED <<disk, copyUnchanged, ofd, offset, buf, acked, torn>>

\* Mutant of OpenExisting: without O_TRUNC.
OpenExistingKeep(p, i) ==
    ofd' = [ofd EXCEPT ![p] = i] /\ UNCHANGED <<disk, acked, torn>>

\* open of an existing file with O_WRONLY | O_TRUNC.
OpenExisting(p, i) ==
    /\ ofd' = [ofd EXCEPT ![p] = i]
    /\ data' = [data EXCEPT ![i] = << >>] /\ UNCHANGED node
    /\ acked' = {a \in acked : a[1] # i}
    /\ Disturb(p, {i}, {i})

\* open(dst, O_CREAT | O_WRONLY | O_TRUNC).  If the destination's directory has gone
\* since CopyCheck, errno is ENOENT and the menu says that the source is missing.
CopyCreate(p) ==
    LET q == dst[p]
        GiveUp(e) == /\ Fail(p, e)
                     /\ ifd' = [ifd EXCEPT ![p] = "none"]
                     /\ UNCHANGED <<disk, ofd, acked, torn>>
    IN
    /\ pc[p] = "copy create"
    /\ \/ node[q] \in Ino /\ OpenExisting(p, node[q]) /\ Step(p, "copy read") /\ UNCHANGED ifd
       \/ node[q] = "dir" /\ GiveUp("EISDIR")
       \/ ~Exists(q) /\ ~IsDir(Front(q)) /\ GiveUp(NoEntry(q))
       \/ /\ ~Exists(q) /\ IsDir(Front(q))
          /\ \E i \in Ino : NewFile(q, i) /\ ofd' = [ofd EXCEPT ![p] = i]
          /\ Step(p, "copy read") /\ UNCHANGED <<ifd, torn>>
    /\ UNCHANGED <<copyUnchanged, offset, buf>>

CopyEnd(p) ==
    /\ ifd' = [ifd EXCEPT ![p] = "none"] /\ ofd' = [ofd EXCEPT ![p] = "none"]

\* read() of the next block.  The loop ends on 0, and on an error just the same: the
\* copy of a directory (EISDIR), or of a file that cannot be read, is a success.
CopyRead(p) ==
    LET i == ifd[p] IN
    /\ pc[p] = "copy read"
    /\ \/ /\ i \in Ino /\ offset[p] < Len(data[i])
          /\ buf' = [buf EXCEPT ![p] = data[i][offset[p] + 1]]
          /\ Step(p, "copy write") /\ UNCHANGED <<ifd, ofd, torn>>
       \/ /\ i \in Ino => offset[p] >= Len(data[i])
          /\ CopyEnd(p) /\ Return(p, "ok") /\ UNCHANGED <<buf, torn>>
       \/ /\ i \in Ino /\ ReadsFail
          /\ CopyEnd(p) /\ Return(p, "ok") /\ UNCHANGED buf
          /\ torn' = [torn EXCEPT ![p] = TRUE]
    /\ UNCHANGED <<disk, copyUnchanged, offset, acked>>

CopyWrite(p) ==
    LET o == ofd[p] IN
    /\ pc[p] = "copy write"
    /\ \/ /\ data' = [data EXCEPT ![o] = WriteAt(@, offset[p], buf[p])]
          /\ offset' = [offset EXCEPT ![p] = @ + 1]
          /\ acked' = {a \in acked : a[1] # o}
          /\ Disturb(p, {o}, {o})
          /\ Step(p, "copy read") /\ UNCHANGED <<ifd, ofd>>
       \/ /\ DiskFills /\ CopyEnd(p) /\ Fail(p, "other")
          /\ UNCHANGED <<data, offset, acked, torn>>
    /\ UNCHANGED <<node, copyUnchanged, buf>>

-----------------------------------------------------------------------------
(* Directories.                                                            *)

mkdirUnchanged == <<data, src, dst, ifd, ofd, offset, buf, turns, acked, torn>>

Prefix(p) == SubSeq(src[p], 1, level[p])

\* path_mkdir_recursive: on to the next prefix, or back to dir_create.
NextLevel(p) ==
    IF level[p] < Len(src[p])
    THEN level' = [level EXCEPT ![p] = @ + 1] /\ Step(p, "mkdir")
    ELSE UNCHANGED level /\ Return(p, "ok")

\* path_mkdir_recursive: access() of the prefix, which leaves its errno behind.
MkdirProbe(p) ==
    /\ pc[p] = "mkdir"
    /\ IF Exists(Prefix(p)) THEN NextLevel(p)
       ELSE /\ pc' = [pc EXCEPT ![p] = "mkdir make"]
            /\ errno' = [errno EXCEPT ![p] = NoEntry(Prefix(p))]
            /\ UNCHANGED <<level, ret, cmd>>
    /\ UNCHANGED <<node, mkdirUnchanged>>

\* Mutant of MkdirMake: EEXIST is an error.
MkdirMakeStrict(p) ==
    LET q == Prefix(p) IN
    /\ pc[p] = "mkdir make"
    /\ IF ~Exists(q) /\ IsDir(Front(q))
       THEN node' = [node EXCEPT ![q] = "dir"] /\ NextLevel(p)
       ELSE UNCHANGED <<node, level>> /\ Fail(p, IF Exists(q) THEN "EEXIST" ELSE NoEntry(q))
    /\ UNCHANGED mkdirUnchanged

\* path_mkdir_recursive: mkdir() of a prefix that was not there.
MkdirMake(p) ==
    LET q == Prefix(p) IN
    /\ pc[p] = "mkdir make"
    /\ \/ Exists(q) /\ NextLevel(p) /\ UNCHANGED node
       \/ /\ ~Exists(q) /\ IsDir(Front(q))
          /\ node' = [node EXCEPT ![q] = "dir"] /\ NextLevel(p)
       \/ /\ ~Exists(q) /\ ~IsDir(Front(q))
          /\ Fail(p, NoEntry(q)) /\ UNCHANGED <<node, level>>
    /\ UNCHANGED mkdirUnchanged

\* dir_delete: rmdir().
dir_delete(p) ==
    LET q == src[p] IN
    /\ pc[p] = "rmdir"
    /\ \/ /\ node[q] = "dir" /\ Children(q) = {}
          /\ node' = [node EXCEPT ![q] = "free"] /\ Return(p, "ok")
       \/ /\ node[q] = "dir" /\ Children(q) # {}
          /\ UNCHANGED node /\ Fail(p, "ENOTEMPTY")
       \/ node[q] \in Ino /\ UNCHANGED node /\ Fail(p, "ENOTDIR")
       \/ ~Exists(q) /\ UNCHANGED node /\ Fail(p, NoEntry(q))
    /\ UNCHANGED <<level, mkdirUnchanged>>

-----------------------------------------------------------------------------
Menu(p) == MenuCreate(p) \/ MenuDelete(p) \/ MenuWrite(p) \/ MenuRead(p) \/ MenuCopy(p)
           \/ MenuInfo(p) \/ MenuList(p) \/ MenuMkdir(p) \/ MenuRmdir(p) \/ Log(p) \/ Show(p)
File(p) == fm_create(p) \/ fm_delete(p) \/ WriteOpen(p) \/ WriteAppend(p)
           \/ ReadOpen(p) \/ ReadBlock(p) \/ fm_info(p)
Copy(p) == CopyAccess(p) \/ CopyOpen(p) \/ CopyCheck(p) \/ CopyCreate(p)
           \/ CopyRead(p) \/ CopyWrite(p)
Directory(p) == dir_list(p) \/ MkdirProbe(p) \/ MkdirMake(p) \/ dir_delete(p)

Next == \E p \in Proc : Menu(p) \/ File(p) \/ Copy(p) \/ Directory(p)

Spec == Init /\ [][Next]_vars

-----------------------------------------------------------------------------
(* Properties.                                                             *)

\* Every variable has its type, and the tree is one: what exists is in a directory.
TypeOK ==
    /\ node \in [Path -> Ino \union {"dir", "free"}]
    /\ \A q \in Path : Exists(q) => IsDir(Front(q))
    /\ \A i \in Ino : \A j \in DOMAIN data[i] : data[i][j] \in Block
    /\ \A p \in Proc :
        /\ pc[p] \in Command \union {"menu", "append", "read block", "copy open",
                "copy check", "copy create", "copy read", "copy write", "mkdir make",
                "log", "log missing", "log denied", "print"}
        /\ ifd[p] \in Ino \union {"dir", "none"} /\ ofd[p] \in Ino \union {"none"}
        /\ pc[p] = "menu" => ifd[p] = "none" /\ ofd[p] = "none"

\* A copy of a file to another file that nobody else writes to or cuts short ends, when
\* fm_copy says it succeeded, with the destination equal to the source as it is at
\* that moment, whatever was appended to the source meanwhile and whatever the
\* destination held before, as long as no read fails.
CopyFaithful ==
    [][\A p \in Proc :
        /\ pc[p] = "copy read" /\ pc'[p] = "log" /\ ret'[p] = "ok"
        /\ ifd[p] \in Ino /\ ifd[p] # ofd[p] /\ ~torn'[p]
        => data[ofd[p]] = data[ifd[p]]]_vars

\* A write reported as a success stays in its file, however the writes of several
\* processes interleave, until a copy overwrites that file or its last name is gone.
AppendsKept ==
    \A a \in acked : \E j \in DOMAIN data[a[1]] : data[a[1]][j] = a[2]

\* Creating a directory fails only if something else than a directory, or nothing,
\* is at that moment where its parent should be: never because another process has
\* just created the same prefix.
MkdirObstructed ==
    [][\A p \in Proc :
        (pc[p] = "mkdir make" /\ pc'[p] = "log" /\ ret'[p] = "fail")
        => ~IsDir(Front(Prefix(p)))]_vars

(* What the messages and comments of the program say, and the code does not do.  *)

\* "Create directory success" (menu.c:867) is about a directory.
MkdirMakesDirectory ==
    [][\A p \in Proc :
        (pc[p] \in {"mkdir", "mkdir make"} /\ pc'[p] = "log" /\ ret'[p] = "ok")
        => node'[src[p]] = "dir"]_vars

\* A copy that succeeded has read its source to the end.
CopyComplete ==
    [][\A p \in Proc :
        (pc[p] = "copy read" /\ pc'[p] = "log" /\ ret'[p] = "ok") => ifd[p] \in Ino]_vars

\* A copy does not change its source.
CopyKeepsSource ==
    [][\A p \in Proc :
        (/\ pc[p] \in {"copy create", "copy read", "copy write"} /\ pc'[p] # pc[p]
         /\ ifd[p] \in Ino)
        => data'[ifd[p]] = data[ifd[p]]]_vars

\* file_manager.c:254, "read file success": what fm_read logs as a success the menu
\* does not show as the failure of some earlier command.
ReadShown == \A p \in Proc : pc[p] = "print" /\ ret[p] = "empty" => Printed(p) # "missing"

\* The message gives the reason for which the call has failed (menu.c 405-415, 535-550).
ReasonShown ==
    [][\A p \in Proc :
        pc[p] = "log" /\ ret[p] = "fail" /\ pc'[p] = "print"
        => Printed(p)' = Message(cmd[p], errno[p])]_vars

\* "Source file does not exist" (menu.c:678) is said of the source: it is not there when
\* the call fails whose errno the menu goes by.
SourceMissingTrue ==
    [][\A p \in Proc :
        (/\ pc[p] \in {"copy", "copy open", "copy create"} /\ pc'[p] # pc[p]
         /\ ret'[p] = "fail" /\ errno'[p] = "ENOENT")
        => ~Exists(src[p])]_vars
=============================================================================

------------------------- MODULE FileManager_proofs -------------------------
(* Proofs about FileManager, for any number of processes, paths, files and    *)
(* commands, on a disk that fills up or not, with reads that fail or not.     *)
EXTENDS FileManager, SequenceTheorems, TLAPS

-----------------------------------------------------------------------------
(* The registers of the commands: which descriptors are open where.         *)

CopyLoop   == {"copy read", "copy write"}
SourceOpen == {"read block", "copy check", "copy create"} \union CopyLoop
Done       == {"log", "log missing", "log denied", "print"}
Label      == Command \union {"menu", "append", "copy open", "mkdir make"}
                      \union SourceOpen \union Done

RegType ==
    /\ pc \in [Proc -> Label] /\ src \in [Proc -> Path \union {<< >>}]
    /\ ifd \in [Proc -> Ino \union {"dir", "none"}] /\ ofd \in [Proc -> Ino \union {"none"}]
    /\ offset \in [Proc -> Nat] /\ buf \in [Proc -> Block]
    /\ ret \in [Proc -> {"ok", "fail", "empty", "none"}] /\ turns \in Nat

DiskType ==
    /\ node \in [Path -> Ino \union {"dir", "free"}]
    /\ data \in [Ino -> Seq(Block)] /\ acked \subseteq Ino \X Block

TornType == torn \in [Proc -> BOOLEAN]

Local(p) ==
    /\ pc[p] # "menu" => src[p] \in Path
    /\ ifd[p] \in IF pc[p] \in SourceOpen THEN Ino \union {"dir"} ELSE {"none"}
    /\ ofd[p] \in IF pc[p] \in CopyLoop \union {"append"} THEN Ino ELSE {"none"}
    /\ pc[p] \notin CopyLoop \union Done => offset[p] = 0

\* A step of p leaves the registers of the other processes alone.
Others(p) ==
    \A q \in Proc \ {p} :
        /\ pc'[q] = pc[q] /\ src'[q] = src[q] /\ ifd'[q] = ifd[q] /\ ofd'[q] = ofd[q]
        /\ offset'[q] = offset[q] /\ buf'[q] = buf[q]

Regs(p) == RegType' /\ Local(p)' /\ Others(p)

LEMMA ElementInSeq ==
    ASSUME NEW S, NEW s \in Seq(S), NEW k \in Nat, k < Len(s)
    PROVE  s[k + 1] \in S
<1>1. k + 1 \in 1 .. Len(s)
  OBVIOUS
<1> QED
  BY <1>1

LEMMA HoleIsBlock == Hole \in Block
BY DEF Hole, Block

LEMMA RegsMenu ==
    ASSUME RegType, NEW p \in Proc, Local(p), Menu(p)
    PROVE  Regs(p)
<1> USE DEF Regs, RegType, Local, Others, Label, CopyLoop, SourceOpen, Done, Command,
            disk, regs
<1>1. ASSUME NEW c \in Command, NEW q \in Path, NEW r, Begin(p, c, q, r) PROVE Regs(p)
  <2>1. /\ pc[p] = "menu" /\ pc' = [pc EXCEPT ![p] = c] /\ src' = [src EXCEPT ![p] = q]
        /\ turns' = turns + 1 /\ UNCHANGED <<ifd, ofd, offset, buf, ret>>
    BY <1>1 DEF Begin
  <2>2. c \notin SourceOpen \union CopyLoop \union {"append"} \union Done /\ c # "menu"
    OBVIOUS
  <2>3. RegType' /\ Others(p)
    <3>1. c \in Label
      OBVIOUS
    <3> HIDE DEF SourceOpen, CopyLoop, Done, Command, Label
    <3> QED
      BY <2>1, <3>1
  <2>4. pc'[p] = c /\ src'[p] = q /\ offset[p] = 0 /\ ifd[p] = "none" /\ ofd[p] = "none"
    BY <2>1
  <2> HIDE DEF SourceOpen, CopyLoop, Done, Command, Label, RegType, Others
  <2>5. Local(p)'
    BY <2>1, <2>2, <2>4
  <2> QED
    BY <2>3, <2>5
<1>2. CASE Log(p)
  <2>1. /\ pc[p] \in Done /\ pc' = [pc EXCEPT ![p] = "print"]
        /\ UNCHANGED <<src, ifd, ofd, offset, buf, ret, turns>>
    BY <1>2 DEF Log
  <2> QED
    BY <2>1
<1>3. CASE Show(p)
  <2>1. /\ pc[p] = "print" /\ pc' = [pc EXCEPT ![p] = "menu"]
        /\ src' = [src EXCEPT ![p] = << >>] /\ offset' = [offset EXCEPT ![p] = 0]
        /\ buf' = [buf EXCEPT ![p] = Hole] /\ ret' = [ret EXCEPT ![p] = "none"]
        /\ UNCHANGED <<ifd, ofd, turns>>
    BY <1>3 DEF Show
  <2> QED
    BY <2>1, HoleIsBlock
<1> QED
  BY <1>1, <1>2, <1>3 DEF Menu, MenuCreate, MenuDelete, MenuWrite, MenuRead, MenuCopy,
     MenuInfo, MenuList, MenuMkdir, MenuRmdir

\* Where a command ends, or goes on at a label that opens nothing.
LEMMA RegsPlain ==
    ASSUME RegType, NEW p \in Proc, Local(p), pc[p] # "menu",
           UNCHANGED <<src, ifd, ofd, offset, buf, turns>>,
           pc[p] \notin SourceOpen \union {"append"},
           NEW l \in Label, l \notin SourceOpen \union {"append"},
           pc' = [pc EXCEPT ![p] = l],
           ret' \in [Proc -> {"ok", "fail", "empty", "none"}],
           pc[p] \in Done => l \in Done
    PROVE  Regs(p)
BY DEF Regs, RegType, Local, Others, CopyLoop, SourceOpen

LEMMA RetType ==
    ASSUME RegType, NEW p \in Proc,
           \/ \E r \in {"ok", "fail", "empty"} : Return(p, r)
           \/ \E l, e : FailAt(p, l, e)
           \/ \E l : Step(p, l)
    PROVE  ret' \in [Proc -> {"ok", "fail", "empty", "none"}]
BY DEF RegType, Return, FailAt, Step

\* Commands of one system call.
LEMMA RegsOneCall ==
    ASSUME RegType, NEW p \in Proc, Local(p),
           fm_create(p) \/ fm_delete(p) \/ fm_info(p) \/ dir_list(p) \/ dir_delete(p)
    PROVE  Regs(p)
<1>1. /\ pc[p] \in {"create", "delete", "info", "list", "rmdir"}
      /\ UNCHANGED <<src, ifd, ofd, offset, buf, turns>>
      /\ Return(p, "ok") \/ \E e : Fail(p, e)
  BY DEF fm_create, fm_delete, fm_info, dir_list, dir_delete, disk, regs, mkdirUnchanged
<1>2. ret' \in [Proc -> {"ok", "fail", "empty", "none"}]
  BY <1>1, RetType DEF Fail
<1>3. pc' = [pc EXCEPT ![p] = "log"]
  BY <1>1 DEF Return, Fail, FailAt
<1>4. "log" \in Label /\ "log" \notin SourceOpen \union {"append"}
  BY DEF Label, SourceOpen, CopyLoop, Done
<1>5. pc[p] # "menu" /\ pc[p] \notin SourceOpen \union {"append"} /\ pc[p] \notin Done
  BY <1>1 DEF SourceOpen, CopyLoop, Done
<1> QED
  BY <1>1, <1>2, <1>3, <1>4, <1>5, RegsPlain

LEMMA RegsMkdir ==
    ASSUME RegType, NEW p \in Proc, Local(p), MkdirProbe(p) \/ MkdirMake(p)
    PROVE  Regs(p)
<1>1. /\ pc[p] \in {"mkdir", "mkdir make"}
      /\ UNCHANGED <<src, ifd, ofd, offset, buf, turns>>
  BY DEF MkdirProbe, MkdirMake, mkdirUnchanged
<1>2. PICK l \in {"mkdir", "mkdir make", "log"} :
        /\ pc' = [pc EXCEPT ![p] = l]
        /\ ret' \in [Proc -> {"ok", "fail", "empty", "none"}]
  BY RetType DEF MkdirProbe, MkdirMake, NextLevel, Step, Return, Fail, FailAt, RegType
<1>3. /\ l \in Label /\ l \notin SourceOpen \union {"append"}
      /\ pc[p] # "menu" /\ pc[p] \notin SourceOpen \union {"append"} /\ pc[p] \notin Done
  BY <1>1 DEF Label, Command, SourceOpen, CopyLoop, Done
<1> QED
  BY <1>1, <1>2, <1>3, RegsPlain

LEMMA RegsFile ==
    ASSUME RegType, DiskType, NEW p \in Proc, Local(p),
           WriteOpen(p) \/ WriteAppend(p) \/ ReadOpen(p) \/ ReadBlock(p)
    PROVE  Regs(p)
<1> USE DEF Regs, RegType, Local, Others, Label, CopyLoop, SourceOpen, Done, Command
<1>1. CASE WriteOpen(p)
  <2>1. pc[p] = "write" /\ UNCHANGED <<src, ifd, offset, buf, turns>>
    BY <1>1 DEF WriteOpen
  <2>2. CASE node[src[p]] \in Ino
    <3>1. /\ ofd' = [ofd EXCEPT ![p] = node[src[p]]] /\ UNCHANGED ret
          /\ pc' = [pc EXCEPT ![p] = "append"]
      BY <1>1, <2>2 DEF WriteOpen, Step
    <3> QED
      BY <2>1, <2>2, <3>1
  <2>3. CASE node[src[p]] \notin Ino
    <3>1. UNCHANGED ofd /\ \E e : Fail(p, e)
      BY <1>1, <2>3 DEF WriteOpen
    <3>2. pc' = [pc EXCEPT ![p] = "log"] /\ ret' = [ret EXCEPT ![p] = "fail"]
      BY <3>1 DEF Fail, FailAt
    <3> QED
      BY <2>1, <3>1, <3>2
  <2> QED
    BY <2>2, <2>3
<1>2. CASE WriteAppend(p)
  <2>1. /\ pc[p] = "append" /\ UNCHANGED <<src, ifd, offset, buf, turns>>
        /\ ofd' = [ofd EXCEPT ![p] = "none"]
        /\ Return(p, "ok") \/ Fail(p, "other")
    BY <1>2 DEF WriteAppend
  <2>2. pc' = [pc EXCEPT ![p] = "log"]
        /\ \E r \in {"ok", "fail"} : ret' = [ret EXCEPT ![p] = r]
    BY <2>1 DEF Return, Fail, FailAt
  <2> QED
    BY <2>1, <2>2
<1>3. CASE ReadOpen(p)
  <2>1. pc[p] = "read" /\ UNCHANGED <<src, ofd, offset, buf, turns>> /\ src[p] \in Path
    BY <1>3 DEF ReadOpen
  <2>2. CASE Exists(src[p])
    <3>1. /\ ifd' = [ifd EXCEPT ![p] = node[src[p]]] /\ UNCHANGED ret
          /\ pc' = [pc EXCEPT ![p] = "read block"]
      BY <1>3, <2>2 DEF ReadOpen, Step
    <3>2. node[src[p]] \in Ino \union {"dir"}
      BY <2>1, <2>2, FileAssumption DEF Exists, DiskType
    <3> QED
      BY <2>1, <3>1, <3>2
  <2>3. CASE ~Exists(src[p])
    <3>1. UNCHANGED ifd /\ \E e : Fail(p, e)
      BY <1>3, <2>3 DEF ReadOpen
    <3>2. pc' = [pc EXCEPT ![p] = "log"] /\ ret' = [ret EXCEPT ![p] = "fail"]
      BY <3>1 DEF Fail, FailAt
    <3> QED
      BY <2>1, <3>1, <3>2
  <2> QED
    BY <2>2, <2>3
<1>4. CASE ReadBlock(p)
  <2>1. /\ pc[p] = "read block" /\ UNCHANGED <<src, ofd, offset, buf, turns>>
        /\ ifd' = [ifd EXCEPT ![p] = "none"]
        /\ \/ \E r \in {"ok", "empty"} : Return(p, r)
           \/ \E e : Fail(p, e)
    BY <1>4 DEF ReadBlock
  <2>2. pc' = [pc EXCEPT ![p] = "log"]
        /\ \E r \in {"ok", "empty", "fail"} : ret' = [ret EXCEPT ![p] = r]
    BY <2>1 DEF Return, Fail, FailAt
  <2> QED
    BY <2>1, <2>2
<1> QED
  BY <1>1, <1>2, <1>3, <1>4

LEMMA RegsCopyStart ==
    ASSUME RegType, DiskType, NEW p \in Proc, Local(p),
           CopyAccess(p) \/ CopyOpen(p) \/ CopyCheck(p)
    PROVE  Regs(p)
<1> USE DEF Regs, RegType, Local, Others, Label, CopyLoop, SourceOpen, Done, Command
<1>1. CASE CopyAccess(p)
  <2>1. pc[p] = "copy" /\ UNCHANGED <<src, ifd, ofd, offset, buf, turns>>
    BY <1>1 DEF CopyAccess, disk, regs
  <2>2. CASE Exists(src[p])
    <3>1. UNCHANGED ret /\ pc' = [pc EXCEPT ![p] = "copy open"]
      BY <1>1, <2>2 DEF CopyAccess, Step
    <3> QED
      BY <2>1, <3>1
  <2>3. CASE ~Exists(src[p])
    <3>1. pc' = [pc EXCEPT ![p] = "log missing"] /\ ret' = [ret EXCEPT ![p] = "fail"]
      BY <1>1, <2>3 DEF CopyAccess, FailAt
    <3> QED
      BY <2>1, <3>1
  <2> QED
    BY <2>2, <2>3
<1>2. CASE CopyOpen(p)
  <2>1. /\ pc[p] = "copy open" /\ UNCHANGED <<src, ofd, offset, buf, turns>>
        /\ src[p] \in Path
    BY <1>2 DEF CopyOpen, copyUnchanged
  <2>2. CASE Exists(src[p])
    <3>1. /\ ifd' = [ifd EXCEPT ![p] = node[src[p]]] /\ UNCHANGED ret
          /\ pc' = [pc EXCEPT ![p] = "copy check"]
      BY <1>2, <2>2 DEF CopyOpen, Step
    <3>2. node[src[p]] \in Ino \union {"dir"}
      BY <2>1, <2>2, FileAssumption DEF Exists, DiskType
    <3> QED
      BY <2>1, <3>1, <3>2
  <2>3. CASE ~Exists(src[p])
    <3>1. UNCHANGED ifd /\ \E l \in {"log", "log denied"} : \E e : FailAt(p, l, e)
      BY <1>2, <2>3 DEF CopyOpen, Fail
    <3>2. PICK l \in {"log", "log denied"} :
            pc' = [pc EXCEPT ![p] = l] /\ ret' = [ret EXCEPT ![p] = "fail"]
      BY <3>1 DEF FailAt
    <3> QED
      BY <2>1, <3>1, <3>2
  <2> QED
    BY <2>2, <2>3
<1>3. CASE CopyCheck(p)
  <2>1. pc[p] = "copy check" /\ UNCHANGED <<src, ofd, offset, buf, turns>>
    BY <1>3 DEF CopyCheck, copyUnchanged
  <2>2. CASE Exists(Front(dst[p]))
    <3>1. UNCHANGED <<ifd, ret>> /\ pc' = [pc EXCEPT ![p] = "copy create"]
      BY <1>3, <2>2 DEF CopyCheck, Step
    <3> QED
      BY <2>1, <3>1
  <2>3. CASE ~Exists(Front(dst[p]))
    <3>1. /\ ifd' = [ifd EXCEPT ![p] = "none"] /\ ret' = [ret EXCEPT ![p] = "fail"]
          /\ pc' = [pc EXCEPT ![p] = "log denied"]
      BY <1>3, <2>3 DEF CopyCheck, FailAt
    <3> QED
      BY <2>1, <3>1
  <2> QED
    BY <2>2, <2>3
<1> QED
  BY <1>1, <1>2, <1>3

LEMMA RegsCopyLoop ==
    ASSUME RegType, DiskType, NEW p \in Proc, Local(p),
           CopyCreate(p) \/ CopyRead(p) \/ CopyWrite(p)
    PROVE  Regs(p)
<1>0. offset[p] \in Nat /\ offset[p] + 1 \in Nat
  BY DEF RegType
<1> USE DEF Regs, RegType, Local, Others, Label, CopyLoop, SourceOpen, Done, Command
<1>1. ASSUME pc[p] \in {"copy create", "copy read", "copy write"},
             UNCHANGED <<src, offset, buf, turns>>,
             ifd' = [ifd EXCEPT ![p] = "none"],
             (ofd' = ofd /\ ofd[p] = "none") \/ ofd' = [ofd EXCEPT ![p] = "none"],
             NEW r \in {"ok", "fail"}, ret' = [ret EXCEPT ![p] = r],
             pc' = [pc EXCEPT ![p] = "log"]
      PROVE  Regs(p)
  BY <1>1
<1>2. CASE CopyCreate(p)
  <2>1. pc[p] = "copy create" /\ UNCHANGED <<src, offset, buf, turns>>
    BY <1>2 DEF CopyCreate, copyUnchanged
  <2>2. \/ \E i \in Ino : /\ ofd' = [ofd EXCEPT ![p] = i] /\ UNCHANGED <<ifd, ret>>
                          /\ pc' = [pc EXCEPT ![p] = "copy read"]
        \/ /\ ifd' = [ifd EXCEPT ![p] = "none"] /\ UNCHANGED ofd
           /\ ret' = [ret EXCEPT ![p] = "fail"] /\ pc' = [pc EXCEPT ![p] = "log"]
    BY <1>2 DEF CopyCreate, OpenExisting, Step, Fail, FailAt
  <2>3. ASSUME NEW i \in Ino, ofd' = [ofd EXCEPT ![p] = i], UNCHANGED <<ifd, ret>>,
               pc' = [pc EXCEPT ![p] = "copy read"]
        PROVE  Regs(p)
    BY <2>1, <2>3
  <2> QED
    BY <1>1, <2>1, <2>2, <2>3
<1>3. CASE CopyRead(p)
  <2>1. pc[p] = "copy read" /\ UNCHANGED <<src, offset, turns>>
    BY <1>3 DEF CopyRead, copyUnchanged
  <2>2. CASE /\ ifd[p] \in Ino /\ offset[p] < Len(data[ifd[p]])
             /\ buf' = [buf EXCEPT ![p] = data[ifd[p]][offset[p] + 1]]
             /\ Step(p, "copy write") /\ UNCHANGED <<ifd, ofd>>
    <3>1. data[ifd[p]] \in Seq(Block)
      BY <2>2 DEF DiskType
    <3>2. data[ifd[p]][offset[p] + 1] \in Block
      BY <1>0, <2>2, <3>1, ElementInSeq
    <3>3. pc' = [pc EXCEPT ![p] = "copy write"] /\ UNCHANGED ret
      BY <2>2 DEF Step
    <3> QED
      BY <2>1, <2>2, <3>2, <3>3
  <2>3. CASE CopyEnd(p) /\ Return(p, "ok") /\ UNCHANGED buf
    <3>1. /\ ifd' = [ifd EXCEPT ![p] = "none"] /\ ofd' = [ofd EXCEPT ![p] = "none"]
          /\ ret' = [ret EXCEPT ![p] = "ok"] /\ pc' = [pc EXCEPT ![p] = "log"]
      BY <2>3 DEF CopyEnd, Return
    <3> QED
      BY <1>1, <2>1, <2>3, <3>1
  <2> QED
    BY <1>3, <2>2, <2>3 DEF CopyRead
<1>4. CASE CopyWrite(p)
  <2>1. pc[p] = "copy write" /\ UNCHANGED <<src, buf, turns>>
    BY <1>4 DEF CopyWrite, copyUnchanged
  <2>2. CASE /\ offset' = [offset EXCEPT ![p] = @ + 1]
             /\ Step(p, "copy read") /\ UNCHANGED <<ifd, ofd>>
    <3>1. pc' = [pc EXCEPT ![p] = "copy read"] /\ UNCHANGED ret
      BY <2>2 DEF Step
    <3> QED
      BY <1>0, <2>1, <2>2, <3>1
  <2>3. CASE CopyEnd(p) /\ Fail(p, "other") /\ UNCHANGED offset
    <3>1. /\ ifd' = [ifd EXCEPT ![p] = "none"] /\ ofd' = [ofd EXCEPT ![p] = "none"]
          /\ ret' = [ret EXCEPT ![p] = "fail"] /\ pc' = [pc EXCEPT ![p] = "log"]
      BY <2>3 DEF CopyEnd, Fail, FailAt
    <3> QED
      BY <1>1, <2>1, <2>3, <3>1
  <2> QED
    BY <1>4, <2>2, <2>3 DEF CopyWrite
<1> QED
  BY <1>2, <1>3, <1>4

LEMMA RegsKept ==
    ASSUME RegType, DiskType, NEW p \in Proc, Local(p),
           Menu(p) \/ File(p) \/ Copy(p) \/ Directory(p)
    PROVE  Regs(p)
BY RegsMenu, RegsOneCall, RegsMkdir, RegsFile, RegsCopyStart, RegsCopyLoop
   DEF File, Copy, Directory

-----------------------------------------------------------------------------
(* What a step of p does to the contents of files, to the writes that count as *)
(* done, and to the copies of the other processes.                            *)

Kept(p) ==
    UNCHANGED <<data, acked>> /\ \A q \in Proc \ {p} : torn'[q] = torn[q]

Renewed(p, i) ==
    /\ i \in UnusedIno /\ data' = [data EXCEPT ![i] = << >>]
    /\ acked' = {a \in acked : a[1] # i}
    /\ UNCHANGED torn

Extended(p, i, b) ==
    /\ data' = [data EXCEPT ![i] = Append(@, b)]
    /\ acked' = acked \union {<<i, b>>}
    /\ torn' = [q \in Proc |-> torn[q] \/ (q # p /\ ofd[q] = i)]

Rewritten(p, i, s) ==
    /\ data' = [data EXCEPT ![i] = s]
    /\ acked' = {a \in acked : a[1] # i}
    /\ torn' = [q \in Proc |-> torn[q] \/ (q # p /\ (ofd[q] = i \/ ifd[q] = i))]

Effect(p) ==
    \/ Kept(p)
    \/ \E i \in Ino : Renewed(p, i)
    \/ \E i \in Ino : \E b \in Block : Extended(p, i, b)
    \/ \E i \in Ino : \E s \in Seq(Block) : Rewritten(p, i, s)

LEMMA WriteAtType ==
    ASSUME NEW s \in Seq(Block), NEW pos \in Nat, NEW b \in Block
    PROVE  WriteAt(s, pos, b) \in Seq(Block)
<1> DEFINE n == IF Len(s) > pos THEN Len(s) ELSE pos + 1
<1>1. Len(s) \in Nat /\ n \in Nat
  OBVIOUS
<1>2. \A j \in 1 .. n :
        (IF j = pos + 1 THEN b ELSE IF j <= Len(s) THEN s[j] ELSE Hole) \in Block
  BY <1>1, HoleIsBlock
<1> HIDE DEF n
<1>3. [j \in 1 .. n |-> IF j = pos + 1 THEN b ELSE IF j <= Len(s) THEN s[j] ELSE Hole]
         \in [1 .. n -> Block]
  BY <1>2
<1>4. [j \in 1 .. n |-> IF j = pos + 1 THEN b ELSE IF j <= Len(s) THEN s[j] ELSE Hole]
         \in Seq(Block)
  BY <1>1, <1>3, SeqDef
<1> QED
  BY <1>4 DEF WriteAt, n

LEMMA EmptyIsSeq == << >> \in Seq(Block)
BY EmptySeq

LEMMA EffectOf ==
    ASSUME RegType, DiskType, TornType, NEW p \in Proc, Local(p),
           Menu(p) \/ File(p) \/ Copy(p) \/ Directory(p)
    PROVE  TornType' /\ Effect(p)
<1>1. ASSUME UNCHANGED <<data, acked>>,
             \/ UNCHANGED torn
             \/ \E v \in BOOLEAN : torn' = [torn EXCEPT ![p] = v]
      PROVE  TornType' /\ Effect(p)
  BY <1>1 DEF Effect, Kept, TornType
<1>2. ASSUME NEW q, NEW i \in Ino, NewFile(q, i), UNCHANGED torn
      PROVE  TornType' /\ Effect(p)
  <2>1. Renewed(p, i)
    BY <1>2 DEF NewFile, Renewed
  <2> QED
    BY <1>2, <2>1 DEF Effect, TornType
<1>3. CASE Menu(p)
  <2>1. CASE Show(p)
    BY <1>1, <2>1 DEF Show, disk
  <2>2. CASE Log(p)
    BY <1>1, <2>2 DEF Log, disk
  <2>3. CASE \E c, q, r : Begin(p, c, q, r)
    BY <1>1, <2>3 DEF Begin, disk
  <2> QED
    BY <1>3, <2>1, <2>2, <2>3 DEF Menu, MenuCreate, MenuDelete, MenuWrite, MenuRead,
       MenuCopy, MenuInfo, MenuList, MenuMkdir, MenuRmdir
<1>4. CASE File(p) /\ ~fm_create(p) /\ ~WriteAppend(p)
  BY <1>1, <1>4 DEF File, fm_delete, WriteOpen, ReadOpen, ReadBlock, fm_info, disk
<1>5. CASE fm_create(p)
  BY <1>1, <1>2, <1>5 DEF fm_create, disk
<1>6. CASE WriteAppend(p)
  <2>1. ofd[p] \in Ino
    BY <1>6 DEF WriteAppend, Local
  <2>2. CASE UNCHANGED <<data, acked, torn>>
    BY <1>1, <2>2
  <2>3. ASSUME NEW whole \in BOOLEAN, AppendBlock(ofd[p], <<p, turns, whole>>),
               acked' = acked \union {<<ofd[p], <<p, turns, whole>>>>},
               Disturb(p, {ofd[p]}, {})
        PROVE  TornType' /\ Effect(p)
    <3>1. <<p, turns, whole>> \in Block
      BY DEF RegType, Block
    <3>2. Extended(p, ofd[p], <<p, turns, whole>>)
      BY <2>3 DEF Extended, AppendBlock, Disturb
    <3>3. TornType'
      BY <3>2 DEF Extended, TornType
    <3> QED
      BY <2>1, <3>1, <3>2, <3>3 DEF Effect
  <2> QED
    BY <1>6, <2>2, <2>3 DEF WriteAppend
<1>7. ASSUME NEW i \in Ino, NEW s \in Seq(Block), data' = [data EXCEPT ![i] = s],
             acked' = {a \in acked : a[1] # i}, Disturb(p, {i}, {i})
      PROVE  TornType' /\ Effect(p)
  <2>1. Rewritten(p, i, s)
    BY <1>7 DEF Rewritten, Disturb
  <2>2. TornType'
    BY <2>1 DEF Rewritten, TornType
  <2> QED
    BY <2>1, <2>2 DEF Effect
<1>8. CASE CopyAccess(p) \/ CopyOpen(p) \/ CopyCheck(p) \/ CopyRead(p)
  BY <1>1, <1>8 DEF CopyAccess, CopyOpen, CopyCheck, CopyRead, disk
<1>9. CASE CopyCreate(p)
  <2>1. CASE UNCHANGED <<data, acked, torn>>
    BY <1>1, <2>1
  <2>2. CASE node[dst[p]] \in Ino /\ OpenExisting(p, node[dst[p]])
    BY <1>7, <2>2, EmptyIsSeq DEF OpenExisting
  <2>3. CASE (\E i \in Ino : NewFile(dst[p], i)) /\ UNCHANGED torn
    BY <1>2, <2>3
  <2> QED
    BY <1>9, <2>1, <2>2, <2>3 DEF CopyCreate, disk
<1>10. CASE CopyWrite(p)
  <2>1. CASE UNCHANGED <<data, acked, torn>>
    BY <1>1, <2>1
  <2>2. CASE /\ data' = [data EXCEPT ![ofd[p]] = WriteAt(@, offset[p], buf[p])]
             /\ acked' = {a \in acked : a[1] # ofd[p]} /\ Disturb(p, {ofd[p]}, {ofd[p]})
    <3>1. ofd[p] \in Ino
      BY <1>10 DEF CopyWrite, Local, CopyLoop
    <3>2. WriteAt(data[ofd[p]], offset[p], buf[p]) \in Seq(Block)
      BY <3>1, WriteAtType DEF RegType, DiskType
    <3> QED
      BY <1>7, <2>2, <3>1, <3>2
  <2> QED
    BY <1>10, <2>1, <2>2 DEF CopyWrite
<1>11. CASE Directory(p)
  BY <1>1, <1>11 DEF Directory, dir_list, MkdirProbe, MkdirMake, dir_delete, disk,
     mkdirUnchanged
<1> QED
  BY <1>3, <1>4, <1>5, <1>6, <1>8, <1>9, <1>10, <1>11 DEF File, Copy

\* Contents keep their type, and a write that counts as done stays in its file.
LEMMA WritesKept ==
    ASSUME DiskType, AppendsKept, NEW p \in Proc, Effect(p)
    PROVE  /\ data' \in [Ino -> Seq(Block)] /\ acked' \subseteq Ino \X Block
           /\ AppendsKept'
<1> USE DEF DiskType, AppendsKept
<1>1. CASE Kept(p)
  BY <1>1 DEF Kept
<1>2. ASSUME NEW i \in Ino, NEW s \in Seq(Block), data' = [data EXCEPT ![i] = s],
             acked' = {a \in acked : a[1] # i}
      PROVE  /\ data' \in [Ino -> Seq(Block)] /\ acked' \subseteq Ino \X Block
             /\ AppendsKept'
  <2>1. data' \in [Ino -> Seq(Block)] /\ acked' \subseteq Ino \X Block
    BY <1>2
  <2>2. ASSUME NEW a \in acked'
        PROVE  \E j \in DOMAIN data'[a[1]] : data'[a[1]][j] = a[2]
    <3>1. a \in acked /\ a[1] \in Ino /\ a[1] # i
      BY <1>2, <2>2
    <3>2. data'[a[1]] = data[a[1]]
      BY <1>2, <3>1
    <3> QED
      BY <3>1, <3>2
  <2> QED
    BY <2>1, <2>2
<1>3. ASSUME NEW i \in Ino, NEW b \in Block, Extended(p, i, b)
      PROVE  /\ data' \in [Ino -> Seq(Block)] /\ acked' \subseteq Ino \X Block
             /\ AppendsKept'
  <2>1. data[i] \in Seq(Block) /\ Append(data[i], b) \in Seq(Block)
    BY <1>3
  <2>2. data' \in [Ino -> Seq(Block)] /\ acked' \subseteq Ino \X Block
    BY <1>3, <2>1 DEF Extended
  <2>3. ASSUME NEW a \in acked'
        PROVE  \E j \in DOMAIN data'[a[1]] : data'[a[1]][j] = a[2]
    <3>1. a[1] \in Ino /\ data'[i] = Append(data[i], b)
      BY <1>3, <2>2 DEF Extended
    <3>2. CASE a \in acked /\ a[1] # i
      BY <1>3, <3>1, <3>2 DEF Extended
    <3>3. CASE a \in acked /\ a[1] = i
      <4>1. PICK j \in DOMAIN data[i] : data[i][j] = a[2]
        BY <3>3
      <4>2. j \in 1 .. Len(data[i])
        BY <2>1, <4>1
      <4>3. /\ j \in DOMAIN Append(data[i], b)
            /\ Append(data[i], b)[j] = data[i][j]
        BY <2>1, <4>2
      <4> QED
        BY <3>1, <3>3, <4>1, <4>3
    <3>4. CASE a = <<i, b>>
      <4>1. Len(data[i]) + 1 \in DOMAIN Append(data[i], b)
        BY <2>1
      <4>2. Append(data[i], b)[Len(data[i]) + 1] = b
        BY <2>1
      <4> QED
        BY <3>1, <3>4, <4>1, <4>2
    <3> QED
      BY <1>3, <2>3, <3>2, <3>3, <3>4 DEF Extended
  <2> QED
    BY <2>2, <2>3
<1> QED
  BY <1>1, <1>2, <1>3, EmptyIsSeq DEF Effect, Renewed, Rewritten

\* What fm_copy has done so far: the destination holds what it has read, which is a
\* prefix of the source, as long as nobody else has changed the two.
CopyPart(p) ==
    pc[p] \in CopyLoop /\ ~torn[p] /\ ifd[p] \in Ino /\ ifd[p] # ofd[p] =>
       /\ Len(data[ofd[p]]) = offset[p] /\ offset[p] <= Len(data[ifd[p]])
       /\ \A j \in 1 .. offset[p] : data[ofd[p]][j] = data[ifd[p]][j]
       /\ pc[p] = "copy write" => /\ offset[p] < Len(data[ifd[p]])
                                  /\ buf[p] = data[ifd[p]][offset[p] + 1]

LEMMA PrefixStays ==
    ASSUME NEW S, NEW s \in Seq(S), NEW t, t = s \/ \E b \in S : t = Append(s, b),
           NEW n \in Nat, n <= Len(s)
    PROVE  /\ n <= Len(t) /\ \A j \in 1 .. n : t[j] = s[j]
           /\ n < Len(s) => n < Len(t) /\ t[n + 1] = s[n + 1]
<1>1. CASE t = s
  BY <1>1
<1>2. ASSUME NEW b \in S, t = Append(s, b)
      PROVE  /\ n <= Len(t) /\ \A j \in 1 .. n : t[j] = s[j]
             /\ n < Len(s) => n < Len(t) /\ t[n + 1] = s[n + 1]
  <2>1. /\ Len(s) \in Nat /\ Len(t) = Len(s) + 1
        /\ \A j \in 1 .. Len(s) : t[j] = s[j]
    BY <1>2
  <2>2. n < Len(s) => n + 1 \in 1 .. Len(s)
    BY <2>1
  <2>3. \A j \in 1 .. n : j \in 1 .. Len(s)
    BY <2>1
  <2> QED
    BY <2>1, <2>2, <2>3
<1> QED
  BY <1>1, <1>2

\* The step of another process.
LEMMA CopyPartOther ==
    ASSUME RegType, DiskType, TornType, NEW p \in Proc, Others(p), Effect(p),
           NEW q \in Proc \ {p}, Local(q), CopyPart(q)
    PROVE  CopyPart(q)'
<1> SUFFICES ASSUME pc[q] \in CopyLoop, ~torn'[q], ifd[q] \in Ino, ifd[q] # ofd[q]
             PROVE  CopyPart(q)'
  BY DEF CopyPart, Others
<1>1. /\ pc'[q] = pc[q] /\ ifd'[q] = ifd[q] /\ ofd'[q] = ofd[q]
      /\ offset'[q] = offset[q] /\ buf'[q] = buf[q]
  BY DEF Others
<1>2. ofd[q] \in Ino /\ offset[q] \in Nat
  BY DEF Local, RegType
<1>3. ~torn[q] /\ data'[ofd[q]] = data[ofd[q]]
      /\ \/ data'[ifd[q]] = data[ifd[q]]
         \/ \E b \in Block : data'[ifd[q]] = Append(data[ifd[q]], b)
  <2>1. CASE Kept(p)
    BY <2>1 DEF Kept
  <2>2. ASSUME NEW i \in Ino, Renewed(p, i)
        PROVE  ~torn[q] /\ data'[ofd[q]] = data[ofd[q]] /\ data'[ifd[q]] = data[ifd[q]]
    <3>1. i # ifd[q] /\ i # ofd[q]
      BY <2>2 DEF Renewed, UnusedIno, OpenFiles
    <3> QED
      BY <2>2, <3>1, <1>2 DEF Renewed, DiskType
  <2>3. ASSUME NEW i \in Ino, NEW b \in Block, Extended(p, i, b)
        PROVE  ~torn[q] /\ data'[ofd[q]] = data[ofd[q]]
               /\ \/ data'[ifd[q]] = data[ifd[q]]
                  \/ data'[ifd[q]] = Append(data[ifd[q]], b)
    <3>1. ~torn[q] /\ ofd[q] # i
      BY <2>3 DEF Extended
    <3> QED
      BY <2>3, <3>1, <1>2 DEF Extended, DiskType
  <2>4. ASSUME NEW i \in Ino, NEW s \in Seq(Block), Rewritten(p, i, s)
        PROVE  ~torn[q] /\ data'[ofd[q]] = data[ofd[q]] /\ data'[ifd[q]] = data[ifd[q]]
    <3>1. ~torn[q] /\ ofd[q] # i /\ ifd[q] # i
      BY <2>4 DEF Rewritten
    <3> QED
      BY <2>4, <3>1, <1>2 DEF Rewritten, DiskType
  <2> QED
    BY <2>1, <2>2, <2>3, <2>4 DEF Effect
<1>4. /\ Len(data[ofd[q]]) = offset[q] /\ offset[q] <= Len(data[ifd[q]])
      /\ \A j \in 1 .. offset[q] : data[ofd[q]][j] = data[ifd[q]][j]
      /\ pc[q] = "copy write" => /\ offset[q] < Len(data[ifd[q]])
                                 /\ buf[q] = data[ifd[q]][offset[q] + 1]
  BY <1>3 DEF CopyPart
<1>5. data[ifd[q]] \in Seq(Block)
  BY DEF DiskType
<1>6. /\ offset[q] <= Len(data'[ifd[q]])
      /\ \A j \in 1 .. offset[q] : data'[ifd[q]][j] = data[ifd[q]][j]
      /\ offset[q] < Len(data[ifd[q]])
            => /\ offset[q] < Len(data'[ifd[q]])
               /\ data'[ifd[q]][offset[q] + 1] = data[ifd[q]][offset[q] + 1]
  <2>1. PICK s \in Seq(Block) : s = data[ifd[q]]
    BY <1>5
  <2>2. PICK t : t = data'[ifd[q]]
    OBVIOUS
  <2>3. PICK n \in Nat : n = offset[q]
    BY <1>2
  <2>4. (t = s \/ \E b \in Block : t = Append(s, b)) /\ n <= Len(s)
    BY <1>3, <1>4, <2>1, <2>2, <2>3
  <2>5. /\ n <= Len(t) /\ \A j \in 1 .. n : t[j] = s[j]
        /\ n < Len(s) => n < Len(t) /\ t[n + 1] = s[n + 1]
    BY <2>4, PrefixStays
  <2> QED
    BY <2>1, <2>2, <2>3, <2>5
<1> QED
  BY <1>1, <1>3, <1>4, <1>6 DEF CopyPart

\* Only three calls lead into the loop of fm_copy or round it.
LEMMA IntoLoop ==
    ASSUME NEW p \in Proc, RegType, Menu(p) \/ File(p) \/ Copy(p) \/ Directory(p),
           pc'[p] \in CopyLoop
    PROVE  CopyCreate(p) \/ CopyRead(p) \/ CopyWrite(p)
<1> USE DEF CopyLoop, RegType
<1>2. ~Menu(p)
  <2>1. ASSUME NEW c \in Command, NEW q, NEW r, Begin(p, c, q, r) PROVE FALSE
    BY <2>1 DEF Begin, Command
  <2>2. ~Log(p) /\ ~Show(p)
    BY DEF Log, Show
  <2> QED
    BY <2>1, <2>2 DEF Menu, MenuCreate, MenuDelete, MenuWrite, MenuRead, MenuCopy,
       MenuInfo, MenuList, MenuMkdir, MenuRmdir, Command
<1>3. ~File(p)
  BY DEF File, fm_create, fm_delete, WriteOpen, WriteAppend, ReadOpen, ReadBlock, fm_info,
     Return, Fail, FailAt, Step
<1>4. ~Directory(p)
  BY DEF Directory, dir_list, MkdirProbe, MkdirMake, dir_delete, NextLevel, Return, Fail,
     FailAt, Step
<1>5. ~CopyAccess(p) /\ ~CopyOpen(p) /\ ~CopyCheck(p)
  BY DEF CopyAccess, CopyOpen, CopyCheck, Fail, FailAt, Step
<1> QED
  BY <1>2, <1>3, <1>4, <1>5 DEF Copy

\* Writing the next block at the end.
LEMMA WriteNext ==
    ASSUME NEW s \in Seq(Block), NEW n \in Nat, Len(s) = n, NEW b \in Block
    PROVE  /\ Len(WriteAt(s, n, b)) = n + 1 /\ WriteAt(s, n, b)[n + 1] = b
           /\ \A j \in 1 .. n : WriteAt(s, n, b)[j] = s[j]
<1>1. WriteAt(s, n, b) = [j \in 1 .. n + 1 |->
                             IF j = n + 1 THEN b ELSE IF j <= Len(s) THEN s[j] ELSE Hole]
  BY DEF WriteAt
<1>2. WriteAt(s, n, b) \in Seq(Block) /\ DOMAIN WriteAt(s, n, b) = 1 .. n + 1
  BY <1>1, WriteAtType
<1>3. Len(WriteAt(s, n, b)) = n + 1
  BY <1>2, LenProperties
<1>4. /\ n + 1 \in 1 .. n + 1 /\ \A j \in 1 .. n : j \in 1 .. n + 1 /\ j # n + 1 /\ j <= n
  OBVIOUS
<1> QED
  BY <1>1, <1>3, <1>4

LEMMA CopyPartOwn ==
    ASSUME RegType, DiskType, TornType, NEW p \in Proc, Local(p), CopyPart(p),
           Menu(p) \/ File(p) \/ Copy(p) \/ Directory(p), Regs(p)
    PROVE  CopyPart(p)'
<1> SUFFICES ASSUME pc'[p] \in CopyLoop, ~torn'[p], ifd'[p] \in Ino, ifd'[p] # ofd'[p]
             PROVE  CopyPart(p)'
  BY DEF CopyPart
<1>1. CASE CopyCreate(p)
  <2>1. /\ pc[p] = "copy create" /\ UNCHANGED <<offset, ifd>>
        /\ \E i \in Ino : /\ data' = [data EXCEPT ![i] = << >>]
                          /\ ofd' = [ofd EXCEPT ![p] = i]
                          /\ pc' = [pc EXCEPT ![p] = "copy read"]
    BY <1>1 DEF CopyCreate, OpenExisting, NewFile, Step, Fail, FailAt, RegType, CopyLoop
  <2>2. PICK i \in Ino : /\ data' = [data EXCEPT ![i] = << >>]
                         /\ ofd' = [ofd EXCEPT ![p] = i]
                         /\ pc' = [pc EXCEPT ![p] = "copy read"]
    BY <2>1
  <2>3. ofd'[p] = i /\ pc'[p] = "copy read" /\ data'[i] = << >>
    BY <2>2 DEF RegType, DiskType
  <2>4. offset'[p] = 0
    BY <2>1 DEF Local, CopyLoop, Done
  <2>5. data'[ifd'[p]] = data[ifd'[p]] /\ data[ifd'[p]] \in Seq(Block)
    BY <2>2, <2>3 DEF DiskType
  <2>6. 0 <= Len(data'[ifd'[p]])
    BY <2>5
  <2>7. Len(data'[ofd'[p]]) = 0
    BY <2>3, EmptySeq
  <2>8. \A j \in 1 .. offset'[p] : data'[ofd'[p]][j] = data'[ifd'[p]][j]
    BY <2>4
  <2> QED
    BY <2>3, <2>4, <2>6, <2>7, <2>8 DEF CopyPart
<1>2. CASE CopyRead(p)
  <2>1. /\ pc[p] = "copy read" /\ UNCHANGED <<data, offset, ifd, ofd, torn>>
        /\ ifd[p] \in Ino /\ offset[p] < Len(data[ifd[p]])
        /\ buf' = [buf EXCEPT ![p] = data[ifd[p]][offset[p] + 1]]
        /\ pc' = [pc EXCEPT ![p] = "copy write"]
    BY <1>2 DEF CopyRead, Step, Return, RegType, CopyLoop, disk
  <2>2. buf'[p] = data[ifd[p]][offset[p] + 1]
    BY <2>1 DEF RegType
  <2> QED
    BY <2>1, <2>2 DEF CopyPart, CopyLoop
<1>3. CASE CopyWrite(p)
  <2>1. /\ pc[p] = "copy write" /\ UNCHANGED <<ifd, ofd>>
        /\ data' = [data EXCEPT ![ofd[p]] = WriteAt(@, offset[p], buf[p])]
        /\ offset' = [offset EXCEPT ![p] = @ + 1]
        /\ pc' = [pc EXCEPT ![p] = "copy read"] /\ Disturb(p, {ofd[p]}, {ofd[p]})
    BY <1>3 DEF CopyWrite, Step, Fail, FailAt, RegType, CopyLoop
  <2>2. torn'[p] = torn[p]
    BY <2>1 DEF Disturb, TornType
  <2>3. PICK o \in Ino, i \in Ino : o = ofd[p] /\ i = ifd[p] /\ o # i
    BY <2>1 DEF Local, CopyLoop
  <2>4. PICK n \in Nat, b \in Block : n = offset[p] /\ b = buf[p]
    BY DEF RegType
  <2>5. /\ Len(data[o]) = n /\ n < Len(data[i]) /\ b = data[i][n + 1]
        /\ \A j \in 1 .. n : data[o][j] = data[i][j]
    BY <2>1, <2>2, <2>3, <2>4 DEF CopyPart, CopyLoop
  <2>6. /\ data'[o] = WriteAt(data[o], n, b) /\ data'[i] = data[i] /\ offset'[p] = n + 1
        /\ ofd'[p] = o /\ ifd'[p] = i /\ pc'[p] = "copy read"
    BY <2>1, <2>3, <2>4 DEF RegType, DiskType
  <2>7. data[o] \in Seq(Block) /\ data[i] \in Seq(Block) /\ Len(data[i]) \in Nat
    BY DEF DiskType
  <2>8. /\ Len(data'[o]) = n + 1 /\ data'[o][n + 1] = b
        /\ \A j \in 1 .. n : data'[o][j] = data[o][j]
    <3>1. PICK s \in Seq(Block) : s = data[o]
      BY <2>7
    <3>2. /\ Len(WriteAt(s, n, b)) = n + 1 /\ WriteAt(s, n, b)[n + 1] = b
          /\ \A j \in 1 .. n : WriteAt(s, n, b)[j] = s[j]
      BY <2>5, <3>1, WriteNext
    <3> QED
      BY <2>6, <3>1, <3>2
  <2>9. \A j \in 1 .. n + 1 : data'[o][j] = data'[i][j]
    <3>1. \A j \in 1 .. n + 1 : j = n + 1 \/ j \in 1 .. n
      OBVIOUS
    <3>2. data'[o][n + 1] = data'[i][n + 1]
      BY <2>5, <2>6, <2>8
    <3>3. \A j \in 1 .. n : data'[o][j] = data'[i][j]
      BY <2>5, <2>6, <2>8
    <3> QED
      BY <3>1, <3>2, <3>3
  <2>10. n + 1 <= Len(data'[i])
    <3>1. PICK m \in Nat : m = Len(data[i])
      BY <2>7
    <3>2. n + 1 <= m
      BY <2>5, <3>1
    <3> QED
      BY <2>6, <3>1, <3>2
  <2> QED
    BY <2>6, <2>8, <2>9, <2>10 DEF CopyPart
<1> QED
  BY <1>1, <1>2, <1>3, IntoLoop

-----------------------------------------------------------------------------
(* The tree: what a step of p does to it, and the names it works on.         *)

NameType == level \in [Proc -> Nat] /\ dst \in [Proc -> Path \union {<< >>}]

MkdirAt == {"mkdir", "mkdir make"}
CopyAt  == {"copy", "copy open", "copy check", "copy create"}

Named(p) ==
    /\ pc[p] \in MkdirAt => level[p] \in 1 .. Len(src[p])
    /\ pc[p] \in CopyAt => dst[p] \in Path

LEMMA NamedMenu ==
    ASSUME RegType, NameType, NEW p \in Proc, Menu(p)
    PROVE  /\ NameType' /\ Named(p)'
           /\ \A q \in Proc \ {p} : level'[q] = level[q] /\ dst'[q] = dst[q]
<1> USE DEF RegType, NameType, Named, MkdirAt, CopyAt
<1>1. ASSUME NEW c, NEW q \in Path, NEW r \in Path \union {<< >>}, Begin(p, c, q, r),
             c = "copy" => r \in Path
      PROVE  /\ NameType' /\ Named(p)'
             /\ \A x \in Proc \ {p} : level'[x] = level[x] /\ dst'[x] = dst[x]
  <2>1. /\ pc' = [pc EXCEPT ![p] = c] /\ src' = [src EXCEPT ![p] = q]
        /\ dst' = [dst EXCEPT ![p] = r] /\ level' = [level EXCEPT ![p] = 1]
        /\ c \in Command
    BY <1>1, FileAssumption DEF Begin
  <2>2. 1 \in 1 .. Len(q)
    BY FileAssumption
  <2>3. c = "copy" \/ c \notin CopyAt
    BY <2>1 DEF Command
  <2>4. level'[p] \in 1 .. Len(src'[p]) /\ dst'[p] = r /\ pc'[p] = c
    BY <2>1, <2>2
  <2>5. Named(p)'
    BY <1>1, <2>3, <2>4
  <2>6. NameType'
    BY <2>1
  <2>7. \A x \in Proc \ {p} : level'[x] = level[x] /\ dst'[x] = dst[x]
    BY <2>1
  <2> QED
    BY <2>5, <2>6, <2>7
<1>2. CASE Log(p)
  BY <1>2 DEF Log, regs
<1>3. CASE Show(p)
  BY <1>3 DEF Show
<1>4. CASE \E q \in Path : \E c \in Command \ {"copy"} : Begin(p, c, q, << >>)
  BY <1>1, <1>4
<1>5. CASE \E q, r \in Path : Begin(p, "copy", q, r)
  BY <1>1, <1>5
<1> QED
  BY <1>2, <1>3, <1>4, <1>5 DEF Menu, MenuCreate, MenuDelete, MenuWrite, MenuRead,
     MenuCopy, MenuInfo, MenuList, MenuMkdir, MenuRmdir, Command

LEMMA NextUpTo ==
    ASSUME NEW l \in Nat, NEW n \in Nat, l < n
    PROVE  l + 1 \in Nat /\ l + 1 \in 1 .. n
OBVIOUS

LEMMA NamedRest ==
    ASSUME RegType, NameType, NEW p \in Proc, Local(p), Named(p),
           File(p) \/ Copy(p) \/ Directory(p)
    PROVE  /\ NameType' /\ Named(p)'
           /\ \A q \in Proc \ {p} : level'[q] = level[q] /\ dst'[q] = dst[q]
<1> USE DEF RegType, NameType, Named, MkdirAt, CopyAt
<1>1. ASSUME UNCHANGED <<level, dst>>, pc'[p] \notin MkdirAt,
             pc'[p] \in CopyAt => pc[p] \in CopyAt
      PROVE  /\ NameType' /\ Named(p)'
             /\ \A q \in Proc \ {p} : level'[q] = level[q] /\ dst'[q] = dst[q]
  BY <1>1
<1>2. CASE File(p)
  <2>1. UNCHANGED <<level, dst>> /\ pc'[p] \notin MkdirAt \union CopyAt
    BY <1>2 DEF File, fm_create, fm_delete, WriteOpen, WriteAppend, ReadOpen, ReadBlock,
       fm_info, regs, Return, Fail, FailAt, Step
  <2> QED
    BY <1>1, <2>1
<1>3. CASE Copy(p)
  <2>1. CASE CopyAccess(p) \/ CopyOpen(p) \/ CopyCheck(p)
    BY <1>1, <2>1 DEF CopyAccess, CopyOpen, CopyCheck, copyUnchanged, regs, Fail, FailAt, Step
  <2>2. CASE CopyCreate(p) \/ CopyRead(p) \/ CopyWrite(p)
    BY <1>1, <2>2 DEF CopyCreate, CopyRead, CopyWrite, copyUnchanged, Return, Fail, FailAt, Step
  <2> QED
    BY <1>3, <2>1, <2>2 DEF Copy
<1>4. CASE dir_list(p) \/ dir_delete(p)
  BY <1>1, <1>4 DEF dir_list, dir_delete, mkdirUnchanged, regs, Return, Fail, FailAt
<1>5. CASE MkdirProbe(p) \/ MkdirMake(p)
  <2>1. UNCHANGED <<dst, src>> /\ pc[p] \in MkdirAt
    BY <1>5 DEF MkdirProbe, MkdirMake, mkdirUnchanged
  <2>2. CASE UNCHANGED level /\ pc'[p] \notin CopyAt
    BY <2>1, <2>2
  <2>3. CASE /\ level[p] < Len(src[p]) /\ level' = [level EXCEPT ![p] = @ + 1]
             /\ Step(p, "mkdir")
    <3>1. src[p] \in Path /\ Len(src[p]) \in Nat
      BY <2>1, FileAssumption DEF Local
    <3>2. PICK l \in Nat, n \in Nat : l = level[p] /\ n = Len(src[p])
      BY <3>1
    <3>3. l + 1 \in Nat /\ l + 1 \in 1 .. n
      <4>1. l < n
        BY <2>3, <3>2
      <4> QED
        BY <4>1, NextUpTo
    <3>4. level' = [level EXCEPT ![p] = l + 1]
      BY <2>3, <3>2
    <3> QED
      BY <2>1, <2>3, <3>2, <3>3, <3>4 DEF Step
  <2> QED
    BY <1>5, <2>2, <2>3 DEF MkdirProbe, MkdirMake, NextLevel, Return, Fail, FailAt
<1> QED
  BY <1>2, <1>3, <1>4, <1>5 DEF Directory

NodeType == node \in [Path -> Ino \union {"dir", "free"}]

\* Whatever exists is in a directory.
Tree == \A q \in Path : Exists(q) => IsDir(Front(q))

\* A name is made where there was none, in a directory; the name of a file is taken away,
\* or that of an empty directory.
TreeStep ==
    \/ UNCHANGED node
    \/ \E q \in Path : \E kind \in Ino \union {"dir"} :
          ~Exists(q) /\ IsDir(Front(q)) /\ node' = [node EXCEPT ![q] = kind]
    \/ \E q \in Path :
          /\ node[q] \in Ino \/ (node[q] = "dir" /\ Children(q) = {})
          /\ node' = [node EXCEPT ![q] = "free"]

LEMMA PathFacts ==
    ASSUME NEW q \in Path
    PROVE  q # << >> /\ (Front(q) = << >> \/ (Len(q) > 1 /\ Front(q) \in Path))
<1>1. PICK n \in Nat \ {0} : n = Len(q)
  BY FileAssumption
<1>2. q # << >>
  BY <1>1, EmptySeq
<1>3. CASE n = 1
  <2>1. Front(q) = SubSeq(q, 1, 0)
    BY <1>1, <1>3 DEF Front
  <2>2. SubSeq(q, 1, 0) = << >>
    BY SubSeqEmpty
  <2> QED
    BY <1>2, <2>1, <2>2
<1>4. CASE n > 1
  <2>1. n - 1 \in 1 .. Len(q)
    BY <1>1, <1>4
  <2> QED
    BY <1>1, <1>2, <1>4, <2>1, FileAssumption DEF Front
<1> QED
  BY <1>1, <1>3, <1>4

LEMMA TreeKept ==
    ASSUME NodeType, Tree, TreeStep
    PROVE  NodeType' /\ Tree'
<1>0. "dir" # "free" /\ "free" \notin Ino /\ "dir" \notin Ino
  BY FileAssumption
<1>1. CASE UNCHANGED node
  BY <1>1 DEF NodeType, Tree, Exists, IsDir
<1>2. ASSUME NEW q \in Path, NEW kind \in Ino \union {"dir"}, ~Exists(q), IsDir(Front(q)),
             node' = [node EXCEPT ![q] = kind]
      PROVE  NodeType' /\ Tree'
  <2>1. NodeType' /\ node[q] = "free"
    BY <1>2 DEF NodeType, Exists
  <2>2. ASSUME NEW r \in Path, Exists(r)'
        PROVE  IsDir(Front(r))'
    <3>1. IsDir(Front(r))
      <4>1. CASE r = q
        BY <1>2, <4>1
      <4>2. CASE r # q
        BY <1>2, <2>2, <4>2 DEF NodeType, Tree, Exists
      <4> QED
        BY <4>1, <4>2
    <3>2. CASE Front(r) = << >>
      BY <3>2 DEF IsDir
    <3>3. CASE Front(r) \in Path /\ Front(r) # << >>
      BY <1>0, <1>2, <2>1, <3>1, <3>3 DEF IsDir, NodeType
    <3> QED
      BY <3>2, <3>3, PathFacts
  <2> QED
    BY <2>1, <2>2 DEF Tree
<1>3. ASSUME NEW q \in Path, node[q] \in Ino \/ (node[q] = "dir" /\ Children(q) = {}),
             node' = [node EXCEPT ![q] = "free"]
      PROVE  NodeType' /\ Tree'
  <2>1. NodeType'
    BY <1>3 DEF NodeType
  <2>2. ASSUME NEW r \in Path, Exists(r)'
        PROVE  IsDir(Front(r))'
    <3>1. r # << >>
      BY PathFacts
    <3>2. node'[r] # "free"
      BY <2>2, <3>1 DEF Exists
    <3>3. r # q /\ node[r] # "free"
      BY <1>3, <3>2 DEF NodeType
    <3>4. IsDir(Front(r))
      BY <3>3 DEF Tree, Exists
    <3>5. CASE Front(r) = << >>
      BY <3>5 DEF IsDir
    <3>6. CASE Len(r) > 1 /\ Front(r) \in Path
      <4>1. node[Front(r)] = "dir"
        BY <3>4, <3>6, PathFacts DEF IsDir
      <4>2. Front(r) # q
        BY <1>0, <1>3, <3>3, <3>6, <4>1 DEF Children
      <4> QED
        BY <1>3, <3>6, <4>1, <4>2 DEF IsDir, NodeType
    <3> QED
      BY <3>5, <3>6, PathFacts
  <2> QED
    BY <2>1, <2>2 DEF Tree
<1> QED
  BY <1>1, <1>2, <1>3 DEF TreeStep

LEMMA TreeStepOf ==
    ASSUME NEW p \in Proc, Local(p), Named(p),
           Menu(p) \/ File(p) \/ Copy(p) \/ Directory(p)
    PROVE  TreeStep
<1>1. ASSUME NEW q \in Path, ~Exists(q), IsDir(Front(q)), NEW i \in Ino, NewFile(q, i)
      PROVE  TreeStep
  BY <1>1 DEF TreeStep, NewFile
<1>2. CASE Menu(p)
  BY <1>2 DEF Menu, MenuCreate, MenuDelete, MenuWrite, MenuRead, MenuCopy, MenuInfo,
     MenuList, MenuMkdir, MenuRmdir, Begin, Log, Show, disk, TreeStep
<1>3. CASE fm_create(p)
  <2>1. src[p] \in Path
    BY <1>3 DEF fm_create, Local
  <2> QED
    BY <1>1, <1>3, <2>1 DEF fm_create, disk, TreeStep
<1>4. CASE fm_delete(p)
  <2>1. src[p] \in Path
    BY <1>4 DEF fm_delete, Local
  <2> QED
    BY <1>4, <2>1 DEF fm_delete, TreeStep, Children
<1>5. CASE File(p) /\ ~fm_create(p) /\ ~fm_delete(p)
  BY <1>5 DEF File, WriteOpen, WriteAppend, ReadOpen, ReadBlock, fm_info, disk, TreeStep
<1>6. CASE CopyCreate(p)
  <2>1. dst[p] \in Path
    BY <1>6 DEF CopyCreate, Named, CopyAt
  <2> QED
    BY <1>1, <1>6, <2>1 DEF CopyCreate, OpenExisting, disk, TreeStep
<1>7. CASE Copy(p) /\ ~CopyCreate(p)
  BY <1>7 DEF Copy, CopyAccess, CopyOpen, CopyCheck, CopyRead, CopyWrite, disk, TreeStep
<1>8. CASE dir_list(p) \/ MkdirProbe(p)
  BY <1>8 DEF dir_list, MkdirProbe, disk, TreeStep
<1>9. CASE MkdirMake(p)
  <2>1. Prefix(p) \in Path
    BY <1>9, FileAssumption DEF MkdirMake, Local, Named, MkdirAt, Prefix
  <2> QED
    BY <1>9, <2>1 DEF MkdirMake, TreeStep
<1>10. CASE dir_delete(p)
  <2>1. src[p] \in Path
    BY <1>10 DEF dir_delete, Local
  <2> QED
    BY <1>10, <2>1 DEF dir_delete, TreeStep
<1> QED
  BY <1>2, <1>3, <1>4, <1>5, <1>6, <1>7, <1>8, <1>9, <1>10 DEF Directory

-----------------------------------------------------------------------------
(* The invariant.                                                          *)

Inv ==
    /\ RegType /\ DiskType /\ TornType /\ NameType /\ Tree /\ AppendsKept
    /\ \A p \in Proc : Local(p) /\ Named(p) /\ CopyPart(p)

LEMMA InitInv == Init => Inv
<1> SUFFICES ASSUME Init PROVE Inv
  OBVIOUS
<1> USE DEF Init
<1>1. RegType
  <2>1. "menu" \in Label
    BY DEF Label
  <2> QED
    BY <2>1, HoleIsBlock DEF RegType
<1>2. data \in [Ino -> Seq(Block)]
  <2>1. PICK len \in [Ino -> 0 .. MaxBlocks] :
          data = [i \in Ino |-> [j \in 1 .. len[i] |-> <<i, j, TRUE>>]]
    OBVIOUS
  <2>2. ASSUME NEW i \in Ino PROVE data[i] \in Seq(Block)
    <3>1. PICK n \in Nat : n = len[i]
      BY <2>1, FileAssumption
    <3>2. \A j \in 1 .. n : j \in Nat
      OBVIOUS
    <3>3. \A j \in 1 .. n : <<i, j, TRUE>> \in Block
      BY <3>2 DEF Block
    <3>4. data[i] = [j \in 1 .. n |-> <<i, j, TRUE>>]
      BY <2>1, <3>1
    <3>5. data[i] \in [1 .. n -> Block]
      BY <3>3, <3>4
    <3> QED
      BY <3>5, SeqDef
  <2>3. data \in [Ino -> Seq(Block)]
    BY <2>1, <2>2
  <2> QED
    BY <2>3
<1>3. DiskType
  BY <1>2 DEF DiskType
<1>4. TornType /\ NameType /\ Tree /\ AppendsKept
  BY DEF TornType, NameType, Tree, AppendsKept
<1>5. ASSUME NEW p \in Proc PROVE Local(p) /\ Named(p) /\ CopyPart(p)
  BY DEF Local, Named, CopyPart, MkdirAt, CopyAt, CopyLoop, SourceOpen
<1> QED
  BY <1>1, <1>3, <1>4, <1>5 DEF Inv

LEMMA NextInv == Inv /\ [Next]_vars => Inv'
<1> SUFFICES ASSUME Inv, [Next]_vars PROVE Inv'
  OBVIOUS
<1>1. CASE UNCHANGED vars
  <2>1. UNCHANGED vars
    BY <1>1
  <2>2. RegType' /\ DiskType'
    BY <2>1 DEF vars, disk, regs, Inv, RegType, DiskType
  <2>3. TornType' /\ NameType' /\ Tree' /\ AppendsKept'
    <3>1. TornType' /\ NameType'
      BY <2>1 DEF vars, disk, regs, Inv, TornType, NameType
    <3>2. Tree'
      BY <2>1 DEF vars, disk, Inv, Tree, Exists, IsDir
    <3>3. AppendsKept'
      BY <2>1 DEF vars, disk, Inv, AppendsKept
    <3> QED
      BY <3>1, <3>2, <3>3
  <2>4. ASSUME NEW p \in Proc PROVE Local(p)' /\ Named(p)' /\ CopyPart(p)'
    <3>1. Local(p) /\ Named(p) /\ CopyPart(p)
      BY DEF Inv
    <3>2. Local(p)'
      BY <2>1, <3>1 DEF vars, disk, regs, Local
    <3>3. Named(p)'
      BY <2>1, <3>1 DEF vars, disk, regs, Named, Exists, IsDir
    <3>4. CopyPart(p)'
      BY <2>1, <3>1 DEF vars, disk, regs, CopyPart, Exists, IsDir
    <3> QED
      BY <3>2, <3>3, <3>4
  <2> QED
    BY <2>2, <2>3, <2>4 DEF Inv
<1>2. ASSUME NEW p \in Proc, Menu(p) \/ File(p) \/ Copy(p) \/ Directory(p)
      PROVE  Inv'
  <2>1. /\ RegType /\ DiskType /\ TornType /\ NameType /\ Tree /\ AppendsKept
        /\ Local(p) /\ Named(p) /\ CopyPart(p)
    BY DEF Inv
  <2>2. Regs(p)
    BY <1>2, <2>1, RegsKept
  <2>3. RegType' /\ Local(p)' /\ Others(p)
    BY <2>2 DEF Regs
  <2>4. TornType' /\ Effect(p)
    BY <1>2, <2>1, EffectOf
  <2>5. data' \in [Ino -> Seq(Block)] /\ acked' \subseteq Ino \X Block /\ AppendsKept'
    BY <2>1, <2>4, WritesKept
  <2>6. NodeType' /\ Tree'
    <3>1. NodeType /\ TreeStep
      BY <1>2, <2>1, TreeStepOf DEF DiskType, NodeType
    <3> QED
      BY <2>1, <3>1, TreeKept
  <2>7. DiskType'
    BY <2>5, <2>6 DEF DiskType, NodeType
  <2>8. /\ NameType' /\ Named(p)'
        /\ \A q \in Proc \ {p} : level'[q] = level[q] /\ dst'[q] = dst[q]
    BY <1>2, <2>1, NamedMenu, NamedRest
  <2>9. CopyPart(p)'
    BY <1>2, <2>1, <2>2, CopyPartOwn
  <2>10. ASSUME NEW q \in Proc \ {p} PROVE Local(q)' /\ Named(q)' /\ CopyPart(q)'
    <3>1. Local(q) /\ Named(q) /\ CopyPart(q)
      BY DEF Inv
    <3>2. Local(q)'
      BY <2>3, <3>1 DEF Others, Local
    <3>3. Named(q)'
      BY <2>3, <2>8, <3>1 DEF Others, Named
    <3>4. CopyPart(q)'
      BY <2>1, <2>3, <2>4, <3>1, CopyPartOther
    <3> QED
      BY <3>2, <3>3, <3>4
  <2> QED
    BY <2>3, <2>4, <2>5, <2>6, <2>7, <2>8, <2>9, <2>10 DEF Inv
<1> QED
  BY <1>1, <1>2 DEF Next

LEMMA InvCorrect == Spec => []Inv
BY InitInv, NextInv, PTL DEF Spec

-----------------------------------------------------------------------------
(* Every variable has its type, and the tree is one (TypeOK).               *)
THEOREM TypeCorrect == Spec => []TypeOK
<1>1. Inv => TypeOK
  <2> SUFFICES ASSUME Inv PROVE TypeOK
    OBVIOUS
  <2>1. \A i \in Ino : \A j \in DOMAIN data[i] : data[i][j] \in Block
    <3>1. \A i \in Ino : data[i] \in Seq(Block)
      BY DEF Inv, DiskType
    <3> QED
      BY <3>1
  <2>2. ASSUME NEW p \in Proc
        PROVE  /\ pc[p] \in Label
               /\ ifd[p] \in Ino \union {"dir", "none"} /\ ofd[p] \in Ino \union {"none"}
               /\ pc[p] = "menu" => ifd[p] = "none" /\ ofd[p] = "none"
    BY DEF Inv, RegType, Local, CopyLoop, SourceOpen
  <2>3. Label = Command \union {"menu", "append", "read block", "copy open",
                "copy check", "copy create", "copy read", "copy write", "mkdir make",
                "log", "log missing", "log denied", "print"}
    BY DEF Label, SourceOpen, CopyLoop, Done
  <2>4. node \in [Path -> Ino \union {"dir", "free"}] /\ Tree
    BY DEF Inv, DiskType
  <2> QED
    BY <2>1, <2>2, <2>3, <2>4 DEF TypeOK, Tree
<1> QED
  BY <1>1, InvCorrect, PTL

(* A write that fm_write has reported as a success stays in its file, whatever *)
(* the other processes append, until a copy overwrites the file or it has no    *)
(* name any more.                                                            *)
THEOREM AppendsKeptCorrect == Spec => []AppendsKept
<1>1. Inv => AppendsKept
  BY DEF Inv
<1> QED
  BY <1>1, InvCorrect, PTL

(* A copy of which fm_copy reports the success has made the destination equal   *)
(* to the source, unless somebody else wrote to the two meanwhile.             *)
THEOREM CopyFaithfulCorrect == Spec => CopyFaithful
<1>1. ASSUME Inv, [Next]_vars, NEW p \in Proc, pc[p] = "copy read", pc'[p] = "log",
             ret'[p] = "ok", ifd[p] \in Ino, ifd[p] # ofd[p], ~torn'[p]
      PROVE  data[ofd[p]] = data[ifd[p]]
  <2>1. RegType /\ DiskType /\ TornType /\ Local(p) /\ CopyPart(p)
    BY <1>1 DEF Inv
  <2>2. PICK r \in Proc : Menu(r) \/ File(r) \/ Copy(r) \/ Directory(r)
    BY <1>1 DEF Next, vars
  <2>3. r = p
    BY <1>1, <2>2, RegsKept DEF Inv, Regs, Others
  <2>4. CopyRead(p)
    BY <1>1, <2>2, <2>3 DEF Menu, MenuCreate, MenuDelete, MenuWrite, MenuRead, MenuCopy,
       MenuInfo, MenuList, MenuMkdir, MenuRmdir, Begin, Log, Show, File, fm_create, fm_delete,
       WriteOpen, WriteAppend, ReadOpen, ReadBlock, fm_info, Copy, CopyAccess, CopyOpen,
       CopyCheck, CopyCreate, CopyWrite, Directory, dir_list, MkdirProbe, MkdirMake, dir_delete
  <2>5. offset[p] >= Len(data[ifd[p]]) /\ ~torn[p]
    BY <1>1, <2>1, <2>4 DEF CopyRead, Step, RegType, TornType
  <2>6. PICK o \in Ino, i \in Ino : o = ofd[p] /\ i = ifd[p]
    BY <1>1, <2>1 DEF Local, CopyLoop
  <2>7. PICK s \in Seq(Block), t \in Seq(Block), n \in Nat :
          s = data[o] /\ t = data[i] /\ n = offset[p]
    BY <2>1 DEF DiskType, RegType
  <2>8. /\ Len(s) = n /\ n <= Len(t) /\ n >= Len(t)
        /\ \A j \in 1 .. n : s[j] = t[j]
    BY <1>1, <2>1, <2>5, <2>6, <2>7 DEF CopyPart, CopyLoop
  <2>9. Len(t) = n
    BY <2>8
  <2>10. s = t
    BY <2>8, <2>9, SeqEqual
  <2> QED
    BY <2>6, <2>7, <2>10
<1>2. Inv /\ [Next]_vars =>
        \A p \in Proc :
          /\ pc[p] = "copy read" /\ pc'[p] = "log" /\ ret'[p] = "ok"
          /\ ifd[p] \in Ino /\ ifd[p] # ofd[p] /\ ~torn'[p]
          => data[ofd[p]] = data[ifd[p]]
  BY <1>1
<1> QED
  BY <1>2, InvCorrect, PTL DEF Spec, CopyFaithful

(* path_mkdir_recursive fails only where no directory is the parent of the      *)
(* prefix it makes, and never because another process has just made it.         *)
THEOREM MkdirObstructedCorrect == Spec => MkdirObstructed
<1>1. ASSUME Inv, [Next]_vars, NEW p \in Proc,
             pc[p] = "mkdir make", pc'[p] = "log", ret'[p] = "fail"
      PROVE  ~IsDir(Front(Prefix(p)))
  <2>1. PICK r \in Proc : Menu(r) \/ File(r) \/ Copy(r) \/ Directory(r)
    BY <1>1 DEF Next, vars
  <2>2. r = p
    BY <1>1, <2>1, RegsKept DEF Inv, Regs, Others
  <2>3. MkdirMake(p)
    BY <1>1, <2>1, <2>2 DEF Menu, MenuCreate, MenuDelete, MenuWrite, MenuRead, MenuCopy,
       MenuInfo, MenuList, MenuMkdir, MenuRmdir, Begin, Log, Show, File, fm_create, fm_delete,
       WriteOpen, WriteAppend, ReadOpen, ReadBlock, fm_info, Copy, CopyAccess, CopyOpen,
       CopyCheck, CopyCreate, CopyRead, CopyWrite, Directory, dir_list, MkdirProbe, dir_delete
  <2>4. ~NextLevel(p)
    BY <1>1 DEF Inv, RegType, NextLevel, Step, Return
  <2> QED
    BY <2>3, <2>4 DEF MkdirMake
<1>2. Inv /\ [Next]_vars =>
        \A p \in Proc :
          (pc[p] = "mkdir make" /\ pc'[p] = "log" /\ ret'[p] = "fail")
          => ~IsDir(Front(Prefix(p)))
  BY <1>1
<1> QED
  BY <1>2, InvCorrect, PTL DEF Spec, MkdirObstructed
=============================================================================

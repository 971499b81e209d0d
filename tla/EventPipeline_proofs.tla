------------------------ MODULE EventPipeline_proofs ------------------------
(* Proofs about EventPipeline, for any number of events, files and failures, *)
(* any batch size, with the rotation or without it.                         *)
EXTENDS EventPipeline, SequenceTheorems, WellFoundedInduction, TLAPS

-----------------------------------------------------------------------------
(* DELETE FROM gateway_events.  Recent is a recursive function: that there    *)
(* is one, and what it leaves of a table, is shown by looking at the shortest *)
(* beginning of the table for which it would not be so.                      *)

\* Any set of numbers that is not empty has a least one.
LEMMA LeastNumber ==
    ASSUME NEW S, S \subseteq Nat, S # {}
    PROVE  \E m \in S : \A n \in S : m <= n
<1> DEFINE R == {ss \in Nat \X Nat : ss[1] < ss[2]}
<1>1. IsWellFoundedOn(R, Nat)
  BY NatLessThanWellFounded DEF OpToRel
<1>2. \E m \in S : \A n \in S : <<n, m>> \notin R
  <2> HIDE DEF R
  <2> QED
    BY <1>1, WFMin
<1>3. \A m, n \in S : <<n, m>> \notin R => m <= n
  OBVIOUS
<1> QED
  BY <1>2, <1>3

\* f[k] is what is kept of the first k rows.
Keeps(f, table, n) ==
    f = [k \in 0 .. n |->
            IF k = 0 THEN << >>
            ELSE IF table[k] > old THEN Append(f[k - 1], table[k]) ELSE f[k - 1]]

LEMMA KeepsExists ==
    ASSUME NEW table, NEW n \in Nat
    PROVE  \E f : Keeps(f, table, n)
<1> DEFINE S == {m \in Nat : ~ \E f : Keeps(f, table, m)}
<1> SUFFICES ASSUME S # {} PROVE FALSE
  OBVIOUS
<1>1. PICK m \in S : \A j \in S : m <= j
  <2>1. S \subseteq Nat
    OBVIOUS
  <2> HIDE DEF S
  <2> QED
    BY <2>1, LeastNumber
<1>2. m \in Nat /\ ~ \E f : Keeps(f, table, m)
  BY <1>1
<1>3. CASE m = 0
  <2>1. Keeps([k \in 0 .. 0 |-> << >>], table, 0)
    BY DEF Keeps
  <2> QED
    BY <2>1, <1>2, <1>3
<1>4. CASE m # 0
  <2>1. m - 1 \in Nat /\ ~(m <= m - 1)
    BY <1>2, <1>4
  <2>2. \E g : Keeps(g, table, m - 1)
    BY <1>1, <2>1
  <2>3. PICK g : Keeps(g, table, m - 1)
    BY <2>2
  <2>4. PICK f : f = [k \in 0 .. m |->
                        IF k < m THEN g[k]
                        ELSE IF table[m] > old THEN Append(g[m - 1], table[m]) ELSE g[m - 1]]
    OBVIOUS
  <2>5. \A k \in 0 .. m - 1 : f[k] = g[k]
    BY <2>1, <2>4
  <2>6. ASSUME NEW k \in 0 .. m
        PROVE  f[k] = IF k = 0 THEN << >>
                      ELSE IF table[k] > old THEN Append(f[k - 1], table[k]) ELSE f[k - 1]
    <3>1. CASE k = m
      <4>1. m - 1 \in 0 .. m - 1
        BY <2>1
      <4> QED
        BY <3>1, <4>1, <2>4, <2>5, <1>4
    <3>2. CASE k # m
      <4>1. k \in 0 .. m - 1
        BY <3>2, <2>1
      <4>2. k # 0 => k - 1 \in 0 .. m - 1
        BY <4>1
      <4>3. g[k] = IF k = 0 THEN << >>
                   ELSE IF table[k] > old THEN Append(g[k - 1], table[k]) ELSE g[k - 1]
        BY <2>3, <4>1 DEF Keeps
      <4> QED
        BY <4>1, <4>2, <4>3, <2>5
    <3> QED
      BY <3>1, <3>2
  <2>7. Keeps(f, table, m)
    BY <2>4, <2>6 DEF Keeps
  <2> QED
    BY <2>7, <1>2
<1> QED
  BY <1>3, <1>4

LEMMA RecentKeeps ==
    ASSUME NEW table, Len(table) \in Nat
    PROVE  \E f : Keeps(f, table, Len(table)) /\ Recent(table) = f[Len(table)]
<1> DEFINE r == CHOOSE f : Keeps(f, table, Len(table))
<1>1. Keeps(r, table, Len(table))
  BY KeepsExists
<1>2. Recent(table) = r[Len(table)]
  BY DEF Recent, Keeps
<1> HIDE DEF r
<1> QED
  BY <1>1, <1>2

\* Of any table, the kept rows are rows of events.
LEMMA RecentType ==
    ASSUME NEW table \in Seq(Event)
    PROVE  Recent(table) \in Seq(Event)
<1>0. Len(table) \in Nat
  BY LenProperties
<1>1. PICK f : Keeps(f, table, Len(table)) /\ Recent(table) = f[Len(table)]
  BY <1>0, RecentKeeps
<1> DEFINE S == {m \in 0 .. Len(table) : f[m] \notin Seq(Event)}
<1>2. SUFFICES ASSUME S # {} PROVE FALSE
  BY <1>0, <1>1
<1>3. PICK m \in S : \A j \in S : m <= j
  <2>1. S \subseteq Nat
    BY <1>0
  <2> HIDE DEF S
  <2> QED
    BY <2>1, <1>2, LeastNumber
<1>4. f[m] = IF m = 0 THEN << >>
             ELSE IF table[m] > old THEN Append(f[m - 1], table[m]) ELSE f[m - 1]
  BY <1>1, <1>3 DEF Keeps
<1>5. m # 0
  BY <1>3, <1>4, EmptySeq
<1>6. m - 1 \in 0 .. Len(table) /\ ~(m <= m - 1) /\ m \in 1 .. Len(table)
  BY <1>0, <1>3, <1>5
<1>7. f[m - 1] \in Seq(Event) /\ table[m] \in Event
  BY <1>3, <1>6, ElementOfSeq
<1>8. Append(f[m - 1], table[m]) \in Seq(Event)
  BY <1>7, AppendProperties
<1>9. f[m] \notin Seq(Event)
  BY <1>3
<1> QED
  BY <1>4, <1>5, <1>7, <1>8, <1>9

\* Of a table that counts up to `last`, a piece is kept that counts up to `last`.
CountsTo(s, last) == \A k \in 1 .. Len(s) : s[k] = last - Len(s) + k

LEMMA RecentCounts ==
    ASSUME NEW table \in Seq(Event), NEW last \in Int, CountsTo(table, last),
           old \in Nat
    PROVE  CountsTo(Recent(table), last)
<1>0. Len(table) \in Nat
  BY LenProperties
<1>1. PICK f : Keeps(f, table, Len(table)) /\ Recent(table) = f[Len(table)]
  BY <1>0, RecentKeeps
<1> DEFINE first == last - Len(table)
           Good(m) == /\ f[m] \in Seq(Int)
                      /\ CountsTo(f[m], first + m)
                      /\ Len(f[m]) > 0 => first + m > old
           S == {m \in 0 .. Len(table) : ~Good(m)}
<1>2. SUFFICES ASSUME S # {} PROVE FALSE
  BY <1>0, <1>1
<1>3. PICK m \in S : \A j \in S : m <= j
  <2>1. S \subseteq Nat
    BY <1>0
  <2> HIDE DEF S
  <2> QED
    BY <2>1, <1>2, LeastNumber
<1>4. f[m] = IF m = 0 THEN << >>
             ELSE IF table[m] > old THEN Append(f[m - 1], table[m]) ELSE f[m - 1]
  BY <1>1, <1>3 DEF Keeps
<1>5. m # 0
  <2> SUFFICES ASSUME m = 0 PROVE FALSE
    OBVIOUS
  <2>1. f[m] = << >>
    BY <1>4
  <2>2. Good(m)
    BY <2>1, EmptySeq DEF CountsTo
  <2> QED
    BY <2>2, <1>3
<1>6. m - 1 \in 0 .. Len(table) /\ ~(m <= m - 1) /\ m \in 1 .. Len(table)
  BY <1>0, <1>3, <1>5
<1>7. Good(m - 1)
  BY <1>3, <1>6
<1>8. table[m] = first + m /\ first + m \in Int
  BY <1>0, <1>6 DEF CountsTo
<1>9. PICK s : s = f[m - 1]
  OBVIOUS
<1>10. /\ s \in Seq(Int) /\ Len(s) \in Nat
       /\ \A k \in 1 .. Len(s) : s[k] = first + (m - 1) - Len(s) + k
       /\ Len(s) > 0 => first + (m - 1) > old
  <2>1. /\ s \in Seq(Int) /\ CountsTo(s, first + (m - 1))
        /\ Len(s) > 0 => first + (m - 1) > old
    BY <1>7, <1>9
  <2>2. first \in Int /\ m \in Int
    BY <1>0, <1>3
  <2> HIDE DEF first, S
  <2>3. Len(s) \in Nat
    BY <2>1, LenProperties
  <2>4. \A k \in 1 .. Len(s) : s[k] = first + (m - 1) - Len(s) + k
    BY <2>1, <2>2, <2>3 DEF CountsTo
  <2> QED
    BY <2>1, <2>2, <2>3, <2>4
<1>11. CASE first + m > old
  <2>1. PICK t : t = Append(s, first + m)
    OBVIOUS
  <2>2. f[m] = t
    BY <1>4, <1>5, <1>8, <1>9, <1>11, <2>1
  <2>3. /\ t \in Seq(Int) /\ Len(t) = Len(s) + 1
        /\ \A k \in 1 .. Len(s) : t[k] = s[k]
        /\ t[Len(s) + 1] = first + m
    BY <1>8, <1>10, <2>1, AppendProperties
  <2>4. ASSUME NEW k \in 1 .. Len(t) PROVE t[k] = first + m - Len(t) + k
    <3>1. CASE k = Len(s) + 1
      BY <3>1, <2>3, <1>0, <1>6, <1>8, <1>10
    <3>2. CASE k # Len(s) + 1
      <4>1. k \in 1 .. Len(s)
        BY <3>2, <2>3, <1>10
      <4>2. t[k] = first + (m - 1) - Len(s) + k
        BY <4>1, <2>3, <1>10
      <4> QED
        BY <4>1, <4>2, <2>3, <1>0, <1>6, <1>10
    <3> QED
      BY <3>1, <3>2
  <2>5. Good(m)
    BY <2>2, <2>3, <2>4, <1>11 DEF CountsTo
  <2> QED
    BY <2>5, <1>3
<1>12. CASE ~(first + m > old)
  <2>1. f[m] = s
    BY <1>4, <1>5, <1>8, <1>9, <1>12
  <2>2. Len(s) = 0
    BY <1>0, <1>6, <1>8, <1>10, <1>12
  <2>3. Good(m)
    BY <2>1, <2>2, <1>10 DEF CountsTo
  <2> QED
    BY <2>3, <1>3
<1> QED
  BY <1>11, <1>12
-----------------------------------------------------------------------------
(* Types.  An offset is never beyond what has been logged, a batch is open     *)
(* only while the ETL reads and a transaction only until it is committed, and  *)
(* a log that comes back after a move is another file.                       *)

Reading == {"read", "commit", "commitLast", "save", "write"}

DiskType ==
    /\ file \in [File -> Seq(Event)] /\ files \in 0 .. MaxFiles /\ live \in 0 .. files
    /\ age \in [File -> 0 .. 2] /\ old \in 0 .. logged
    /\ archive \subseteq 1 .. files /\ live \notin archive
    /\ json_fd \in 0 .. files /\ logged \in 0 .. MaxEvents
    /\ \A f \in File : Len(file[f]) <= logged

EtlType ==
    /\ epc \in {"idle", "open"} \union Reading
    /\ efile \in 0 .. files /\ current_offset \in 0 .. logged
    /\ last_offset \in {Absent} \union (0 .. logged)
    /\ txn \in Seq(Event) /\ batch \in Seq(Event)
    /\ Len(txn) <= BATCH_SIZE /\ Len(batch) < BATCH_SIZE
    /\ epc \in Reading => efile # NoFile
    /\ epc # "read" => batch = << >>
    /\ epc \notin {"commit", "commitLast"} => txn = << >>

TableType == db \in Seq(Event) /\ faults \in 0 .. MaxFaults

RotateType ==
    /\ rpc \in {"idle", "touch", "reset", "expire", "rows"}
    /\ rpc = "touch" => files > 0
    /\ rpc = "touch" /\ live # NoFile => files > 1
    /\ rpc = "reset" => files > 1

TypeInv == DiskType /\ EtlType /\ TableType /\ RotateType

LEMMA TypeInvIsType == TypeInv => TypeOK
<1> SUFFICES ASSUME TypeInv PROVE TypeOK
  OBVIOUS
<1> USE PipelineAssumption DEF File, NoFile
<1>1. live \in File \cup {NoFile} /\ json_fd \in File \cup {NoFile}
      /\ efile \in File \cup {NoFile}
  BY DEF TypeInv, DiskType, EtlType
<1>2. /\ last_offset \in {Absent} \cup (0 .. MaxEvents)
      /\ current_offset \in 0 .. MaxEvents
  BY DEF TypeInv, DiskType, EtlType
<1> QED
  BY <1>1, <1>2 DEF TypeInv, TypeOK, DiskType, EtlType, TableType, RotateType, Reading

LEMMA TypeInvInit == Init => TypeInv
<1> SUFFICES ASSUME Init PROVE TypeInv
  OBVIOUS
<1> USE PipelineAssumption DEF Init, NoFile
<1>0. << >> \in Seq(Event) /\ Len(<< >>) = 0
  BY EmptySeq
<1>1. DiskType
  BY <1>0 DEF DiskType, File
<1>2. EtlType
  BY <1>0 DEF EtlType, Reading
<1>3. TableType /\ RotateType
  BY <1>0 DEF TableType, RotateType
<1> QED
  BY <1>1, <1>2, <1>3 DEF TypeInv

\* What the gateway and the rotation do does not disturb the ETL's own variables.
LEMMA EtlTypeKept ==
    ASSUME EtlType, files \in Nat, logged \in Nat, files' \in Nat, logged' \in Nat,
           files <= files', logged <= logged', UNCHANGED <<etl, txn>>,
           last_offset' \in {last_offset, Absent}
    PROVE  EtlType'
BY DEF EtlType, etl

\* And what the ETL does disturbs no file.
LEMMA DiskTypeKept ==
    ASSUME DiskType, RotateType, UNCHANGED <<disk, json_fd, logged, rpc>>
    PROVE  DiskType' /\ RotateType'
BY DEF DiskType, RotateType, disk

\* One more line in the open file.
LEMMA LogLine ==
    ASSUME DiskType, log_event_json
    PROVE  /\ json_fd \in File /\ logged' = logged + 1 /\ logged' \in Event
           /\ file' \in [File -> Seq(Event)]
           /\ \A f \in File : f # json_fd => file'[f] = file[f]
           /\ file'[json_fd] = Append(file[json_fd], logged + 1)
           /\ Len(file'[json_fd]) = Len(file[json_fd]) + 1
           /\ \A f \in File : \A k \in 1 .. Len(file[f]) : file'[f][k] = file[f][k]
           /\ \A f \in File : Len(file[f]) \in Nat /\ Len(file[f]) <= Len(file'[f])
<1> USE PipelineAssumption
<1>1. json_fd \in File /\ logged' = logged + 1 /\ logged + 1 \in Event
  BY DEF DiskType, log_event_json, File, NoFile, Event
<1>2. \A f \in File : file[f] \in Seq(Event) /\ Len(file[f]) \in Nat
  BY LenProperties DEF DiskType
<1>3. PICK t : t = Append(file[json_fd], logged + 1)
  OBVIOUS
<1>4. /\ t \in Seq(Event) /\ Len(t) = Len(file[json_fd]) + 1
      /\ \A k \in 1 .. Len(file[json_fd]) : t[k] = file[json_fd][k]
  BY <1>1, <1>2, <1>3, AppendProperties
<1>5. file' = [file EXCEPT ![json_fd] = t]
  BY <1>3 DEF log_event_json
<1>6. file' \in [File -> Seq(Event)] /\ file'[json_fd] = t
      /\ \A f \in File : f # json_fd => file'[f] = file[f]
  BY <1>1, <1>4, <1>5 DEF DiskType
<1>7. \A f \in File : \A k \in 1 .. Len(file[f]) : file'[f][k] = file[f][k]
  BY <1>4, <1>6
<1>8. \A f \in File : Len(file[f]) <= Len(file'[f])
  BY <1>2, <1>4, <1>6
<1> QED
  BY <1>1, <1>2, <1>3, <1>4, <1>6, <1>7, <1>8

LEMMA TypeInvLog ==
    ASSUME TypeInv, log_json_init \/ log_event_json \/ log_json_close
    PROVE  TypeInv'
<1> USE PipelineAssumption DEF TypeInv, rows
<1>1. CASE log_json_init
  <2>1. \/ UNCHANGED <<files, live>> /\ live # NoFile
        \/ live = NoFile /\ files < MaxFiles /\ files' = files + 1 /\ live' = files + 1
    BY <1>1 DEF log_json_init, Create
  <2>2. DiskType'
    BY <1>1, <2>1 DEF log_json_init, DiskType, NoFile
  <2>3. EtlType'
    BY <1>1, <2>1, EtlTypeKept DEF log_json_init, DiskType
  <2>4. RotateType'
    BY <1>1, <2>1 DEF log_json_init, DiskType, RotateType
  <2> QED
    BY <1>1, <2>2, <2>3, <2>4 DEF log_json_init, TableType
<1>2. CASE log_event_json
  <2>1. \A f \in File : Len(file'[f]) <= logged'
    <3>1. logged \in Nat /\ logged' = logged + 1 /\ json_fd \in File
      BY <1>2, LogLine DEF DiskType
    <3>2. ASSUME NEW f \in File, f # json_fd PROVE Len(file'[f]) <= logged'
      <4>1. file'[f] = file[f] /\ Len(file[f]) \in Nat /\ Len(file[f]) <= logged
        BY <1>2, <3>2, LogLine DEF DiskType
      <4> QED
        BY <3>1, <4>1
    <3>3. Len(file'[json_fd]) <= logged'
      <4>1. /\ Len(file'[json_fd]) = Len(file[json_fd]) + 1
            /\ Len(file[json_fd]) \in Nat /\ Len(file[json_fd]) <= logged
        BY <1>2, <3>1, LogLine DEF DiskType
      <4> QED
        BY <3>1, <4>1
    <3> QED
      BY <3>2, <3>3
  <2>2. logged' \in 0 .. MaxEvents /\ old' \in 0 .. logged'
    BY <1>2 DEF log_event_json, DiskType
  <2>3. age' \in [File -> 0 .. 2]
    <3>1. age' = [age EXCEPT ![json_fd] = 0]
      BY <1>2 DEF log_event_json
    <3>2. age \in [File -> 0 .. 2] /\ 0 \in 0 .. 2
      BY DEF DiskType
    <3> QED
      BY <3>1, <3>2
  <2>4. DiskType'
    BY <1>2, <2>1, <2>2, <2>3, LogLine DEF log_event_json, DiskType
  <2>5. EtlType'
    BY <1>2, EtlTypeKept DEF log_event_json, DiskType
  <2> QED
    BY <1>2, <2>4, <2>5 DEF log_event_json, TableType, RotateType
<1>3. CASE log_json_close
  <2>1. DiskType'
    BY <1>3 DEF log_json_close, DiskType, disk, NoFile
  <2>2. EtlType'
    BY <1>3, EtlTypeKept DEF log_json_close, DiskType, disk
  <2> QED
    BY <1>3, <2>1, <2>2 DEF log_json_close, TableType, RotateType, disk
<1> QED
  BY <1>1, <1>2, <1>3

\* The line the ETL reads, appended to the batch.
LEMMA ReadLine ==
    ASSUME DiskType, EtlType, EtlRead
    PROVE  \E more \in Seq(Event) :
             /\ efile \in File /\ current_offset + 1 \in 1 .. Len(file[efile])
             /\ Len(more) = Len(batch) + 1
             /\ \A k \in 1 .. Len(batch) : more[k] = batch[k]
             /\ more[Len(batch) + 1] = file[efile][current_offset + 1]
             /\ \/ epc' = "commit" /\ txn' = more /\ batch' = << >>
                \/ epc' = "read" /\ txn' = txn /\ batch' = more /\ Len(more) < BATCH_SIZE
<1> USE PipelineAssumption
<1>1. efile \in File /\ file[efile] \in Seq(Event)
  BY DEF EtlRead, EtlType, DiskType, Reading, File, NoFile
<1>2. current_offset + 1 \in 1 .. Len(file[efile])
  BY <1>1, LenProperties DEF EtlRead, EtlType, DiskType
<1>3. file[efile][current_offset + 1] \in Event
  BY <1>1, <1>2, ElementOfSeq
<1>4. PICK more : more = Append(batch, file[efile][current_offset + 1])
  OBVIOUS
<1>5. /\ more \in Seq(Event) /\ Len(more) = Len(batch) + 1
      /\ \A k \in 1 .. Len(batch) : more[k] = batch[k]
      /\ more[Len(batch) + 1] = file[efile][current_offset + 1]
  BY <1>3, <1>4, AppendProperties DEF EtlType
<1>6. Len(more) \in Nat
  BY <1>5, LenProperties
<1>7. IF Len(more) >= BATCH_SIZE
      THEN epc' = "commit" /\ txn' = more /\ batch' = << >>
      ELSE batch' = more /\ epc' = epc /\ txn' = txn
  BY <1>4 DEF EtlRead
<1> QED
  BY <1>1, <1>2, <1>5, <1>6, <1>7 DEF EtlRead

LEMMA TypeInvEtl ==
    ASSUME TypeInv, EtlBegin \/ EtlStep \/ EtlFail
    PROVE  TypeInv'
<1> USE PipelineAssumption DEF TypeInv, rows
<1>0. << >> \in Seq(Event) /\ Len(<< >>) = 0
  BY EmptySeq
<1>1. DiskType' /\ RotateType'
  BY DiskTypeKept DEF EtlBegin, EtlStep, EtlFail, EtlOpen, EtlRead, EtlCommit, EtlEnd,
     EtlTruncate, EtlWrite
<1>2. files' = files /\ logged' = logged
  BY DEF EtlBegin, EtlStep, EtlFail, EtlOpen, EtlRead, EtlCommit, EtlEnd,
     EtlTruncate, EtlWrite, disk
<1>3. CASE EtlBegin
  <2>1. Saved \in 0 .. logged
    BY DEF DiskType, EtlType, Saved
  <2>2. EtlType'
    BY <1>2, <1>3, <2>1 DEF EtlBegin, EtlType, Reading
  <2> QED
    BY <1>1, <1>3, <2>2 DEF EtlBegin, TableType
<1>4. CASE EtlOpen
  <2>1. EtlType'
    BY <1>2, <1>4 DEF EtlOpen, EtlType, DiskType, Reading
  <2> QED
    BY <1>1, <1>4, <2>1 DEF EtlOpen, TableType
<1>5. CASE EtlRead
  <2>1. PICK more \in Seq(Event) :
             /\ efile \in File /\ current_offset + 1 \in 1 .. Len(file[efile])
             /\ Len(more) = Len(batch) + 1
             /\ \/ epc' = "commit" /\ txn' = more /\ batch' = << >>
                \/ epc' = "read" /\ txn' = txn /\ batch' = more /\ Len(more) < BATCH_SIZE
    BY <1>5, ReadLine
  <2>2. current_offset' \in 0 .. logged'
    BY <1>2, <1>5, <2>1, LenProperties DEF EtlRead, EtlType, DiskType
  <2>3. Len(batch) \in Nat
    BY LenProperties DEF EtlType
  <2>4. epc = "read" /\ txn = << >>
    BY <1>5 DEF EtlRead, EtlType
  <2>5. EtlType'
    <3>1. efile' = efile /\ last_offset' = last_offset
      BY <1>5 DEF EtlRead
    <3>2. CASE epc' = "commit" /\ txn' = more /\ batch' = << >>
      <4>1. Len(txn') <= BATCH_SIZE /\ Len(batch') < BATCH_SIZE
        BY <1>0, <2>1, <2>3, <3>2 DEF EtlType
      <4> QED
        BY <1>0, <1>2, <2>2, <2>4, <3>1, <3>2, <4>1 DEF EtlType, Reading
    <3>3. CASE epc' = "read" /\ txn' = txn /\ batch' = more /\ Len(more) < BATCH_SIZE
      BY <1>2, <2>2, <2>4, <3>1, <3>3 DEF EtlType, Reading
    <3> QED
      BY <2>1, <3>2, <3>3
  <2> QED
    BY <1>1, <1>5, <2>5 DEF EtlRead, TableType
<1>6. CASE EtlCommit
  <2>1. EtlType'
    BY <1>0, <1>2, <1>6 DEF EtlCommit, EtlType, Reading
  <2>2. db' \in Seq(Event)
    BY <1>6, ConcatProperties DEF EtlCommit, EtlType, TableType
  <2> QED
    BY <1>1, <1>6, <2>1, <2>2 DEF EtlCommit, TableType
<1>7. CASE EtlEnd
  <2>1. Len(batch) \in Nat
    BY LenProperties DEF EtlType
  <2>2. EtlType'
    BY <1>0, <1>2, <1>7, <2>1 DEF EtlEnd, EtlType, Reading
  <2> QED
    BY <1>1, <1>7, <2>2 DEF EtlEnd, TableType
<1>8. CASE EtlTruncate
  <2>1. EtlType'
    BY <1>2, <1>8 DEF EtlTruncate, EtlType, Reading
  <2> QED
    BY <1>1, <1>8, <2>1 DEF EtlTruncate, TableType
<1>9. CASE EtlWrite
  <2>1. EtlType'
    BY <1>2, <1>9 DEF EtlWrite, EtlType, DiskType, Reading, NoFile
  <2> QED
    BY <1>1, <1>9, <2>1 DEF EtlWrite, TableType
<1>10. CASE EtlFail
  <2>1. EtlType'
    BY <1>0, <1>2, <1>10 DEF EtlFail, EtlType, DiskType, Reading, NoFile
  <2> QED
    BY <1>1, <1>10, <2>1 DEF EtlFail, TableType
<1> QED
  BY <1>3, <1>4, <1>5, <1>6, <1>7, <1>8, <1>9, <1>10 DEF EtlStep

LEMMA TypeInvRotate ==
    ASSUME TypeInv,
           Age \/ RotateMove \/ RotateTouch \/ RotateReset \/ RotateDelete \/ RotateRows
    PROVE  TypeInv'
<1> USE PipelineAssumption DEF TypeInv, rows
<1>1. CASE Age
  <2>1. age' \in [File -> 0 .. 2]
    BY <1>1 DEF Age, DiskType
  <2>2. DiskType'
    BY <1>1, <2>1 DEF Age, DiskType
  <2>3. EtlType'
    BY <1>1, EtlTypeKept DEF Age, DiskType
  <2> QED
    BY <1>1, <2>2, <2>3 DEF Age, TableType, RotateType
<1>2. CASE RotateMove
  <2>1. DiskType'
    BY <1>2 DEF RotateMove, DiskType, NoFile
  <2>2. EtlType'
    BY <1>2, EtlTypeKept DEF RotateMove, DiskType
  <2>3. RotateType'
    BY <1>2 DEF RotateMove, RotateType, DiskType, NoFile
  <2> QED
    BY <1>2, <2>1, <2>2, <2>3 DEF RotateMove, TableType
<1>3. CASE RotateTouch
  <2>1. \/ UNCHANGED <<files, live>> /\ live # NoFile
        \/ live = NoFile /\ files < MaxFiles /\ files' = files + 1 /\ live' = files + 1
    BY <1>3 DEF RotateTouch, Create
  <2>2. DiskType'
    BY <1>3, <2>1 DEF RotateTouch, DiskType, NoFile
  <2>3. EtlType'
    BY <1>3, <2>1, EtlTypeKept DEF RotateTouch, DiskType
  <2>4. RotateType'
    BY <1>3, <2>1 DEF RotateTouch, RotateType, DiskType
  <2> QED
    BY <1>3, <2>2, <2>3, <2>4 DEF RotateTouch, TableType
<1>4. CASE RotateReset
  <2>1. DiskType'
    BY <1>4 DEF RotateReset, DiskType, disk
  <2>2. EtlType'
    BY <1>4, EtlTypeKept DEF RotateReset, DiskType, disk
  <2> QED
    BY <1>4, <2>1, <2>2 DEF RotateReset, TableType, RotateType, disk
<1>5. CASE RotateDelete
  <2>1. DiskType'
    BY <1>5 DEF RotateDelete, DiskType
  <2>2. EtlType'
    BY <1>5, EtlTypeKept DEF RotateDelete, DiskType
  <2> QED
    BY <1>5, <2>1, <2>2 DEF RotateDelete, TableType, RotateType
<1>6. CASE RotateRows
  <2>1. DiskType'
    BY <1>6 DEF RotateRows, DiskType, disk
  <2>2. EtlType'
    BY <1>6, EtlTypeKept DEF RotateRows, DiskType, disk
  <2>3. TableType'
    BY <1>6, RecentType DEF RotateRows, TableType
  <2> QED
    BY <1>6, <2>1, <2>2, <2>3 DEF RotateRows, RotateType, disk
<1> QED
  BY <1>1, <1>2, <1>3, <1>4, <1>5, <1>6

LEMMA TypeInvNext == TypeInv /\ [Next]_vars => TypeInv'
<1> SUFFICES ASSUME TypeInv, [Next]_vars PROVE TypeInv'
  OBVIOUS
<1>1. CASE UNCHANGED vars
  BY <1>1 DEF vars, disk, rows, etl, TypeInv, DiskType, EtlType, TableType, RotateType
<1> QED
  BY <1>1, TypeInvLog, TypeInvEtl, TypeInvRotate DEF Next

\* Every variable has its type: no batch or transaction outgrows BATCH_SIZE, no offset
\* goes beyond what was logged, and no archived file has the name of the log.
THEOREM TypeCorrect == Spec => []TypeOK
<1>1. Init => TypeInv
  BY TypeInvInit
<1>2. TypeInv /\ [Next]_vars => TypeInv'
  BY TypeInvNext
<1>3. TypeInv => TypeOK
  BY TypeInvIsType
<1> QED
  BY <1>1, <1>2, <1>3, PTL DEF Spec
-----------------------------------------------------------------------------
(* What is read and not committed.                                          *)

\* s is the piece of file f that ends at offset n.
EndsAt(s, f, n) ==
    s # << >> => /\ f \in File /\ Len(s) <= n /\ n <= Len(file[f])
                 /\ \A k \in 1 .. Len(s) : s[k] = file[f][n - Len(s) + k]

PieceInv == EndsAt(txn, efile, current_offset) /\ EndsAt(batch, efile, current_offset)

\* Files only grow.
LEMMA FilesGrow ==
    ASSUME TypeInv, [Next]_vars
    PROVE  /\ \A f \in File :
                /\ Len(file[f]) \in Nat /\ Len(file'[f]) \in Nat
                /\ Len(file[f]) <= Len(file'[f])
                /\ \A k \in 1 .. Len(file[f]) : file'[f][k] = file[f][k]
           /\ files <= files'
<1>1. CASE log_event_json
  <2>1. \A f \in File : Len(file'[f]) \in Nat
    BY <1>1, LogLine, LenProperties DEF TypeInv
  <2> QED
    BY <1>1, <2>1, LogLine DEF TypeInv, DiskType, log_event_json
<1>2. CASE UNCHANGED file /\ (UNCHANGED files \/ files' = files + 1)
  <2>1. \A f \in File : Len(file[f]) \in Nat
    BY LenProperties DEF TypeInv, DiskType
  <2> QED
    BY <1>2, <2>1 DEF TypeInv, DiskType
<1> QED
  BY <1>1, <1>2 DEF Next, vars, disk, log_json_init, log_json_close, EtlBegin, EtlStep,
     EtlFail, EtlOpen, EtlRead, EtlCommit, EtlEnd, EtlTruncate, EtlWrite, Age, RotateMove,
     RotateTouch, RotateReset, RotateDelete, RotateRows, Create

LEMMA EndsAtKept ==
    ASSUME TypeInv, [Next]_vars, NEW s \in Seq(Event), NEW f, NEW n \in Nat, EndsAt(s, f, n)
    PROVE  EndsAt(s, f, n)'
<1> SUFFICES ASSUME s # << >>
             PROVE  /\ f \in File /\ Len(s) <= n /\ n <= Len(file'[f])
                    /\ \A k \in 1 .. Len(s) : s[k] = file'[f][n - Len(s) + k]
  BY DEF EndsAt
<1>1. /\ f \in File /\ Len(s) <= n /\ n <= Len(file[f])
      /\ \A k \in 1 .. Len(s) : s[k] = file[f][n - Len(s) + k]
  BY DEF EndsAt
<1>2. Len(s) \in Nat
  BY LenProperties
<1>3. /\ Len(file[f]) \in Nat /\ Len(file'[f]) \in Nat /\ Len(file[f]) <= Len(file'[f])
      /\ \A k \in 1 .. Len(file[f]) : file'[f][k] = file[f][k]
  BY <1>1, FilesGrow
<1>4. n <= Len(file'[f])
  BY <1>1, <1>3
<1>5. ASSUME NEW k \in 1 .. Len(s) PROVE s[k] = file'[f][n - Len(s) + k]
  <2>1. n - Len(s) + k \in 1 .. Len(file[f])
    BY <1>1, <1>2, <1>3
  <2> QED
    BY <1>1, <1>3, <2>1
<1> QED
  BY <1>1, <1>4, <1>5

\* A line more, at the offset that is one further.
LEMMA EndsAtRead ==
    ASSUME TypeInv, PieceInv, EtlRead, NEW more \in Seq(Event),
           efile \in File, current_offset + 1 \in 1 .. Len(file[efile]),
           Len(more) = Len(batch) + 1,
           \A k \in 1 .. Len(batch) : more[k] = batch[k],
           more[Len(batch) + 1] = file[efile][current_offset + 1]
    PROVE  EndsAt(more, efile, current_offset + 1)
<1>1. Len(batch) \in Nat /\ current_offset \in Nat
  BY LenProperties DEF TypeInv, EtlType, DiskType
<1>2. Len(batch) <= current_offset
  BY <1>1, EmptySeq DEF TypeInv, EtlType, PieceInv, EndsAt
<1>3. Len(file[efile]) \in Nat
  BY LenProperties DEF TypeInv, DiskType
<1>4. ASSUME NEW k \in 1 .. Len(more)
      PROVE  more[k] = file[efile][current_offset + 1 - Len(more) + k]
  <2>1. CASE k = Len(batch) + 1
    <3>1. current_offset + 1 - Len(more) + k = current_offset + 1
      BY <1>1, <2>1
    <3> QED
      BY <2>1, <3>1
  <2>2. CASE k # Len(batch) + 1
    <3>1. k \in 1 .. Len(batch) /\ batch # << >>
      BY <1>1, <2>2, EmptySeq
    <3>2. current_offset + 1 - Len(more) + k = current_offset - Len(batch) + k
      BY <1>1, <3>1
    <3>3. batch[k] = file[efile][current_offset - Len(batch) + k]
      BY <3>1 DEF PieceInv, EndsAt
    <3> QED
      BY <3>1, <3>2, <3>3
  <2> QED
    BY <2>1, <2>2
<1>5. Len(more) <= current_offset + 1 /\ current_offset + 1 <= Len(file[efile])
  BY <1>1, <1>2, <1>3
<1>6. PICK n : n = current_offset + 1
  OBVIOUS
<1>7. \A k \in 1 .. Len(more) : more[k] = file[efile][n - Len(more) + k]
  BY <1>1, <1>4, <1>6
<1>8. EndsAt(more, efile, n)
  BY <1>5, <1>6, <1>7 DEF EndsAt
<1> QED
  BY <1>6, <1>8

LEMMA PieceNext == TypeInv /\ PieceInv /\ [Next]_vars => PieceInv'
<1> SUFFICES ASSUME TypeInv, PieceInv, [Next]_vars PROVE PieceInv'
  OBVIOUS
<1>0. \A f, n : EndsAt(<< >>, f, n) /\ EndsAt(<< >>, f, n)'
  BY DEF EndsAt
<1>1. txn \in Seq(Event) /\ batch \in Seq(Event) /\ current_offset \in Nat
  BY DEF TypeInv, EtlType, DiskType
<1>2. CASE UNCHANGED <<txn, batch, efile, current_offset>>
  <2>1. \A s \in Seq(Event) : \A f, n : n \in Nat /\ EndsAt(s, f, n) => EndsAt(s, f, n)'
    BY EndsAtKept
  <2> QED
    BY <1>1, <1>2, <2>1 DEF PieceInv
<1>3. CASE txn' = << >> /\ batch' = << >>
  BY <1>0, <1>3 DEF PieceInv
<1>4. CASE EtlRead
  <2>1. PICK more \in Seq(Event) :
             /\ efile \in File /\ current_offset + 1 \in 1 .. Len(file[efile])
             /\ Len(more) = Len(batch) + 1
             /\ \A k \in 1 .. Len(batch) : more[k] = batch[k]
             /\ more[Len(batch) + 1] = file[efile][current_offset + 1]
             /\ \/ epc' = "commit" /\ txn' = more /\ batch' = << >>
                \/ epc' = "read" /\ txn' = txn /\ batch' = more /\ Len(more) < BATCH_SIZE
    BY <1>4, ReadLine DEF TypeInv
  <2>2. EndsAt(more, efile, current_offset + 1)
    BY <1>4, <2>1, EndsAtRead
  <2>3. UNCHANGED <<efile, file>> /\ current_offset' = current_offset + 1 /\ txn = << >>
    BY <1>4 DEF EtlRead, disk, TypeInv, EtlType
  <2>4. PICK f, n : f = efile /\ n = current_offset + 1
    OBVIOUS
  <2>5. EndsAt(more, f, n)
    BY <2>2, <2>4
  <2>6. EndsAt(more, f, n)' /\ efile' = f /\ current_offset' = n
    BY <2>3, <2>4, <2>5 DEF EndsAt
  <2> QED
    BY <1>0, <2>1, <2>3, <2>6 DEF PieceInv
<1>5. CASE EtlEnd
  <2>1. txn' = batch /\ batch' = << >> /\ UNCHANGED <<efile, file, current_offset>>
    BY <1>5 DEF EtlEnd, disk
  <2> QED
    BY <2>1 DEF PieceInv, EndsAt
<1>6. CASE EtlCommit
  <2>1. txn' = << >> /\ batch' = << >>
    BY <1>6 DEF EtlCommit, TypeInv, EtlType
  <2> QED
    BY <2>1, <1>3
<1>7. CASE EtlBegin \/ EtlOpen \/ EtlTruncate \/ EtlWrite \/ EtlFail
  <2>1. txn' = << >> /\ batch' = << >>
    BY <1>7 DEF EtlBegin, EtlOpen, EtlTruncate, EtlWrite, EtlFail, TypeInv, EtlType
  <2> QED
    BY <2>1, <1>3
<1> QED
  BY <1>2, <1>4, <1>5, <1>6, <1>7 DEF Next, EtlStep, vars, etl, log_json_init,
     log_event_json, log_json_close, Age, RotateMove, RotateTouch, RotateReset,
     RotateDelete, RotateRows

LEMMA PieceIsContiguous == TypeInv /\ PieceInv => BatchContiguous
<1> SUFFICES ASSUME TypeInv, PieceInv, NEW s, s = txn \o batch, s # << >>
             PROVE  /\ Len(s) <= current_offset /\ current_offset <= Len(file[efile])
                    /\ s = SubSeq(file[efile], current_offset - Len(s) + 1, current_offset)
  BY DEF BatchContiguous
<1>1. s \in Seq(Event) /\ EndsAt(s, efile, current_offset)
  <2>1. txn \in Seq(Event) /\ batch \in Seq(Event) /\ (txn = << >> \/ batch = << >>)
    BY DEF TypeInv, EtlType
  <2>2. CASE txn = << >>
    BY <2>1, <2>2, ConcatEmptySeq DEF PieceInv
  <2>3. CASE batch = << >>
    BY <2>1, <2>3, ConcatEmptySeq DEF PieceInv
  <2> QED
    BY <2>1, <2>2, <2>3
<1>2. /\ efile \in File /\ Len(s) <= current_offset /\ current_offset <= Len(file[efile])
      /\ \A k \in 1 .. Len(s) : s[k] = file[efile][current_offset - Len(s) + k]
  BY <1>1 DEF EndsAt
<1>3. Len(s) \in Nat \ {0} /\ current_offset \in Nat /\ Len(file[efile]) \in Nat
  BY <1>1, <1>2, LenProperties, EmptySeq DEF TypeInv, EtlType, DiskType
<1>4. PICK m : m = current_offset - Len(s) + 1
  OBVIOUS
<1>4a. m \in Int /\ current_offset \in Int
  BY <1>3, <1>4
<1>5. \A k \in m .. current_offset : file[efile][k] \in Event
  <2>1. \A k \in m .. current_offset : k \in 1 .. Len(file[efile])
    BY <1>2, <1>3, <1>4
  <2> QED
    BY <1>2, <2>1, ElementOfSeq DEF TypeInv, DiskType
<1>6. PICK t : t = SubSeq(file[efile], m, current_offset)
  OBVIOUS
<1>7. /\ t \in Seq(Event)
      /\ Len(t) = IF m <= current_offset THEN current_offset - m + 1 ELSE 0
      /\ \A k \in 1 .. current_offset - m + 1 : t[k] = file[efile][m + k - 1]
  BY <1>4a, <1>5, <1>6, SubSeqProperties
<1>8. Len(t) = Len(s) /\ current_offset - m + 1 = Len(s)
  BY <1>2, <1>3, <1>4, <1>7
<1>9. ASSUME NEW k \in 1 .. Len(s) PROVE s[k] = t[k]
  <2>1. m + k - 1 = current_offset - Len(s) + k
    BY <1>3, <1>4
  <2> QED
    BY <1>2, <1>7, <1>8, <2>1
<1>10. s = t
  BY <1>1, <1>7, <1>8, <1>9, SeqEqual
<1> QED
  BY <1>2, <1>4, <1>6, <1>10

\* What a run has read and not committed is one piece of one file, ending at its offset.
THEOREM BatchContiguousCorrect == Spec => []BatchContiguous
<1>1. Init => TypeInv /\ PieceInv
  BY TypeInvInit DEF Init, PieceInv, EndsAt
<1>2. TypeInv /\ PieceInv /\ [Next]_vars => (TypeInv /\ PieceInv)'
  BY TypeInvNext, PieceNext
<1>3. TypeInv /\ PieceInv => BatchContiguous
  BY PieceIsContiguous
<1> QED
  BY <1>1, <1>2, <1>3, PTL DEF Spec
-----------------------------------------------------------------------------
(* As long as there is one log file, its lines up to the saved offset, and up to *)
(* where the piece that is not committed begins, have been committed.           *)

Taken == current_offset - Len(txn) - Len(batch)

Committed(n) == n <= Len(file[1]) /\ \A k \in 1 .. n : file[1][k] \in imported

SkipInv ==
    files <= 1 =>
        /\ Committed(Saved)
        /\ epc # "idle" => /\ Taken >= 0 /\ Committed(Taken)
                           /\ current_offset <= Len(file[1])

Inv == TypeInv /\ PieceInv /\ SkipInv

LEMMA InvInit == Init => Inv
<1> SUFFICES ASSUME Init PROVE Inv
  OBVIOUS
<1>1. TypeInv /\ PieceInv
  BY TypeInvInit DEF Init, PieceInv, EndsAt
<1>2. Saved = 0 /\ Len(file[1]) = 0
  BY PipelineAssumption, EmptySeq DEF Init, Saved, File
<1> QED
  BY <1>1, <1>2 DEF Init, Inv, SkipInv, Committed

LEMMA Numbers ==
    ASSUME TypeInv
    PROVE  /\ Saved \in Nat /\ current_offset \in Nat /\ logged \in Nat
           /\ Len(txn) \in Nat /\ Len(batch) \in Nat /\ Taken \in Int
           /\ 1 \in File /\ Len(file[1]) \in Nat /\ files \in Nat
<1>1. Saved \in Nat /\ current_offset \in Nat /\ logged \in Nat /\ files \in Nat
  BY PipelineAssumption DEF TypeInv, DiskType, EtlType, Saved
<1>2. Len(txn) \in Nat /\ Len(batch) \in Nat
  BY LenProperties DEF TypeInv, EtlType
<1>3. 1 \in File
  BY PipelineAssumption DEF File
<1>4. Len(file[1]) \in Nat
  BY <1>3, LenProperties DEF TypeInv, DiskType
<1> QED
  BY <1>1, <1>2, <1>3, <1>4 DEF Taken

\* Rows may expire, but what was committed was committed.
LEMMA ImportedGrows ==
    ASSUME [Next]_vars PROVE imported \subseteq imported'
BY DEF Next, vars, rows, log_json_init, log_event_json, log_json_close, EtlBegin,
   EtlStep, EtlFail, EtlOpen, EtlRead, EtlCommit, EtlEnd, EtlTruncate, EtlWrite, Age,
   RotateMove, RotateTouch, RotateReset, RotateDelete, RotateRows

LEMMA CommittedKept ==
    ASSUME TypeInv, [Next]_vars, NEW n \in Int, Committed(n)
    PROVE  Committed(n)'
<1>1. /\ Len(file[1]) \in Nat /\ Len(file'[1]) \in Nat /\ Len(file[1]) <= Len(file'[1])
      /\ \A k \in 1 .. Len(file[1]) : file'[1][k] = file[1][k]
  BY Numbers, FilesGrow
<1>2. \A k \in 1 .. n : k \in 1 .. Len(file[1])
  BY <1>1 DEF Committed
<1> QED
  BY <1>1, <1>2, ImportedGrows DEF Committed

\* A line read moves from the rest of the file into the batch, or with the batch
\* into the transaction: how much was taken before it stays what it was.
LEMMA ReadKeepsTaken == ASSUME TypeInv, EtlRead PROVE Taken' = Taken
<1>1. PICK more \in Seq(Event) :
             /\ Len(more) = Len(batch) + 1
             /\ \/ epc' = "commit" /\ txn' = more /\ batch' = << >>
                \/ epc' = "read" /\ txn' = txn /\ batch' = more /\ Len(more) < BATCH_SIZE
  BY ReadLine DEF TypeInv
<1>2. txn = << >> /\ current_offset' = current_offset + 1
  BY DEF EtlRead, TypeInv, EtlType
<1>3. Len(txn) = 0 /\ Len(<< >>) = 0
  BY <1>2, EmptySeq
<1>4. PICK c \in Nat, b \in Nat : c = current_offset /\ b = Len(batch)
  BY Numbers
<1>5. Taken = c - 0 - b
  BY <1>3, <1>4 DEF Taken
<1>6. CASE txn' = more /\ batch' = << >>
  <2>1. Taken' = (c + 1) - (b + 1) - 0
    BY <1>1, <1>2, <1>3, <1>4, <1>6 DEF Taken
  <2> QED
    BY <1>4, <1>5, <2>1
<1>7. CASE txn' = txn /\ batch' = more
  <2>1. Taken' = (c + 1) - 0 - (b + 1)
    BY <1>1, <1>2, <1>3, <1>4, <1>7 DEF Taken
  <2> QED
    BY <1>4, <1>5, <2>1
<1> QED
  BY <1>1, <1>6, <1>7

\* A commit of the transaction reaches the offset.
LEMMA CommitReaches ==
    ASSUME TypeInv, PieceInv, SkipInv, EtlCommit, files <= 1
    PROVE  Committed(current_offset)' /\ Taken' = current_offset'
<1>1. /\ UNCHANGED <<file, current_offset, batch>> /\ txn' = << >> /\ batch = << >>
      /\ imported' = imported \union Range(txn)
  BY DEF EtlCommit, disk, TypeInv, EtlType
<1>2. Len(batch) = 0 /\ Len(txn') = 0
  BY <1>1, EmptySeq
<1>3. current_offset <= Len(file[1]) /\ Committed(current_offset - Len(txn))
  BY <1>2, Numbers DEF SkipInv, Taken, EtlCommit
<1>4. efile = 1
  BY DEF EtlCommit, TypeInv, EtlType, Reading, NoFile, DiskType
<1>5. ASSUME NEW k \in 1 .. current_offset PROVE file[1][k] \in imported'
  <2>1. CASE k <= current_offset - Len(txn)
    <3>1. k \in 1 .. current_offset - Len(txn)
      BY <2>1, Numbers
    <3> QED
      BY <1>1, <1>3, <3>1 DEF Committed
  <2>2. CASE ~(k <= current_offset - Len(txn))
    <3>1. PICK j : j = k - (current_offset - Len(txn))
      OBVIOUS
    <3>2. j \in 1 .. Len(txn) /\ current_offset - Len(txn) + j = k
      BY <2>2, <3>1, Numbers
    <3>3. txn # << >>
      BY <3>2, EmptySeq
    <3>4. txn[j] = file[1][k]
      BY <1>4, <3>2, <3>3 DEF PieceInv, EndsAt
    <3>5. txn[j] \in Range(txn)
      BY <3>2, LenProperties DEF Range, TypeInv, EtlType
    <3> QED
      BY <1>1, <3>4, <3>5
  <2> QED
    BY <2>1, <2>2
<1>6. Taken' = current_offset'
  BY <1>1, <1>2, Numbers DEF Taken
<1> QED
  BY <1>1, <1>3, <1>5, <1>6 DEF Committed

\* What the gateway and the rotation leave as it was, while there is one file.
LEMMA OthersLeave ==
    ASSUME TypeInv, files' <= 1,
           \/ log_json_init \/ log_event_json \/ log_json_close
           \/ Age \/ RotateMove \/ RotateTouch \/ RotateReset \/ RotateDelete \/ RotateRows
           \/ UNCHANGED vars
    PROVE  UNCHANGED <<epc, efile, current_offset, batch, txn, last_offset, faults>>
<1>1. ~RotateReset
  BY DEF RotateReset, TypeInv, RotateType, DiskType, disk
<1> QED
  BY <1>1 DEF etl, vars, log_json_init, log_event_json, log_json_close, Age, RotateMove,
     RotateTouch, RotateDelete, RotateRows

LEMMA SkipNext == TypeInv /\ PieceInv /\ SkipInv /\ [Next]_vars => SkipInv'
<1> SUFFICES ASSUME TypeInv, PieceInv, SkipInv, [Next]_vars, files' <= 1
             PROVE  /\ Committed(Saved)'
                    /\ epc' # "idle" => /\ Taken' >= 0 /\ Committed(Taken)'
                                        /\ current_offset' <= Len(file'[1])
  BY DEF SkipInv
<1>0. files <= 1
  <2>1. files \in Nat /\ files' \in Nat /\ files <= files'
    BY Numbers, FilesGrow, TypeInvNext DEF TypeInv, DiskType
  <2> QED
    BY <2>1
<1>1. /\ Committed(Saved)
      /\ epc # "idle" => /\ Taken >= 0 /\ Committed(Taken)
                         /\ current_offset <= Len(file[1])
  BY <1>0 DEF SkipInv
<1>2. \A n \in Int : Committed(n) => Committed(n)'
  BY CommittedKept
<1>3. /\ Len(file[1]) \in Nat /\ Len(file'[1]) \in Nat /\ Len(file[1]) <= Len(file'[1])
  BY Numbers, FilesGrow
<1>4. \A n \in Int : Saved' = n /\ Committed(n) => Committed(Saved)'
  BY <1>2 DEF Committed
<1>5. \A n \in Int : Taken' = n /\ Committed(n) => Committed(Taken)'
  BY <1>2 DEF Committed
<1>6. UNCHANGED last_offset => Committed(Saved)'
  BY <1>1, <1>4, Numbers DEF Saved
<1>7. CASE \/ log_json_init \/ log_event_json \/ log_json_close
           \/ Age \/ RotateMove \/ RotateTouch \/ RotateReset \/ RotateDelete \/ RotateRows
           \/ UNCHANGED vars
  <2>1. UNCHANGED <<epc, current_offset, batch, txn, last_offset>>
    BY <1>7, OthersLeave
  <2>2. Taken' = Taken
    BY <2>1 DEF Taken
  <2>3. epc' # "idle" => current_offset' <= Len(file'[1])
    BY <1>1, <1>3, <2>1, Numbers
  <2> QED
    BY <1>1, <1>5, <1>6, <2>1, <2>2, <2>3, Numbers
<1>8. CASE EtlBegin
  <2>1. /\ current_offset' = Saved /\ txn' = << >> /\ batch' = << >>
        /\ UNCHANGED <<file, last_offset>>
    BY <1>8 DEF EtlBegin, disk, TypeInv, EtlType
  <2>2. Taken' = Saved
    BY <2>1, EmptySeq, Numbers DEF Taken
  <2>3. Saved <= Len(file[1])
    BY <1>1 DEF Committed
  <2> QED
    BY <1>1, <1>5, <1>6, <2>1, <2>2, <2>3, Numbers
<1>9. CASE EtlOpen
  <2>1. /\ UNCHANGED <<txn, batch, file, last_offset>>
        /\ epc' # "idle" => UNCHANGED current_offset /\ epc # "idle"
    BY <1>9 DEF EtlOpen, disk
  <2>2. epc' # "idle" => Taken' = Taken
    BY <2>1 DEF Taken
  <2> QED
    BY <1>1, <1>5, <1>6, <2>1, <2>2, Numbers
<1>10. CASE EtlRead
  <2>1. PICK more \in Seq(Event) :
             /\ efile \in File /\ current_offset + 1 \in 1 .. Len(file[efile])
             /\ Len(more) = Len(batch) + 1
             /\ \/ epc' = "commit" /\ txn' = more /\ batch' = << >>
                \/ epc' = "read" /\ txn' = txn /\ batch' = more /\ Len(more) < BATCH_SIZE
    BY <1>10, ReadLine DEF TypeInv
  <2>2. /\ epc = "read" /\ txn = << >> /\ current_offset' = current_offset + 1
        /\ UNCHANGED <<last_offset, file>>
    BY <1>10 DEF EtlRead, disk, TypeInv, EtlType
  <2>3. efile = 1
    BY <1>0, <2>1, Numbers DEF File, TypeInv, EtlType, DiskType
  <2>4. current_offset' <= Len(file'[1])
    BY <2>1, <2>2, <2>3, Numbers
  <2>6. Taken' = Taken
    BY <1>10, ReadKeepsTaken
  <2> QED
    BY <1>1, <1>5, <1>6, <2>2, <2>4, <2>6, Numbers
<1>11. CASE EtlCommit
  <2>1. /\ Committed(current_offset)' /\ Taken' = current_offset'
        /\ UNCHANGED <<last_offset, current_offset>> /\ epc # "idle" /\ UNCHANGED file
    BY <1>0, <1>11, CommitReaches DEF EtlCommit, disk
  <2>2. Committed(Taken)'
    BY <2>1 DEF Committed
  <2> QED
    BY <1>1, <1>6, <2>1, <2>2, Numbers
<1>12. CASE EtlEnd
  <2>1. /\ txn = << >> /\ txn' = batch /\ batch' = << >> /\ epc # "idle"
        /\ UNCHANGED <<last_offset, current_offset, file>>
    BY <1>12 DEF EtlEnd, disk, TypeInv, EtlType
  <2>2. Taken' = Taken
    BY <2>1, EmptySeq, Numbers DEF Taken
  <2> QED
    BY <1>1, <1>5, <1>6, <2>1, <2>2, Numbers
<1>13. CASE EtlTruncate
  <2>1. /\ Saved' = 0 /\ epc # "idle" /\ UNCHANGED <<current_offset, txn, batch, file>>
    BY <1>13 DEF EtlTruncate, disk, Saved
  <2>2. Taken' = Taken /\ Committed(0)
    BY <2>1, Numbers DEF Taken, Committed
  <2> QED
    BY <1>1, <1>4, <1>5, <2>1, <2>2, Numbers
<1>14. CASE EtlWrite
  <2>1. /\ txn = << >> /\ batch = << >> /\ epc # "idle" /\ epc' = "idle"
        /\ last_offset' = current_offset
    BY <1>14 DEF EtlWrite, TypeInv, EtlType
  <2>2. Saved' = current_offset /\ Taken = current_offset
    BY <2>1, EmptySeq, Numbers DEF Saved, Taken, Absent
  <2>3. Committed(current_offset)
    BY <1>1, <2>1, <2>2
  <2> QED
    BY <1>4, <2>1, <2>2, <2>3, Numbers
<1>15. CASE EtlFail
  <2>1. UNCHANGED last_offset /\ epc' = "idle"
    BY <1>15 DEF EtlFail
  <2> QED
    BY <1>6, <2>1
<1> QED
  BY <1>7, <1>8, <1>9, <1>10, <1>11, <1>12, <1>13, <1>14, <1>15 DEF Next, EtlStep

LEMMA InvCorrect == Spec => []Inv
<1>1. Init => Inv
  BY InvInit
<1>2. Inv /\ [Next]_vars => Inv'
  BY TypeInvNext, PieceNext, SkipNext DEF Inv
<1> QED
  BY <1>1, <1>2, PTL DEF Spec

\* Whatever fails, a line before the saved offset of a log that was never rotated has
\* been committed.
THEOREM NothingSkippedCorrect == Spec => []NothingSkipped
<1>1. ASSUME Inv, files = 1, live # NoFile, NEW k \in 1 .. Saved
      PROVE  file[live][k] \in imported
  <2>1. live = 1
    BY <1>1 DEF Inv, TypeInv, DiskType, NoFile
  <2> QED
    BY <1>1, <2>1 DEF Inv, SkipInv, Committed
<1>2. Inv => NothingSkipped
  BY <1>1 DEF NothingSkipped
<1> QED
  BY <1>2, InvCorrect, PTL
-----------------------------------------------------------------------------
(* As long as there is one log file it holds the events in order, and while no *)
(* run has failed the table counts up to where the next piece to commit begins. *)

Lines == \A k \in 1 .. Len(file[1]) : file[1][k] = k

Place == IF epc = "idle" THEN Saved ELSE Taken

LinesInv == files <= 1 => Lines /\ Len(file[1]) = logged

OnceInv ==
    files <= 1 /\ faults = 0 => /\ epc = "open" => current_offset = Saved
                                /\ CountsTo(db, Place)

LEMMA LinesNext == TypeInv /\ LinesInv /\ [Next]_vars => LinesInv'
<1> SUFFICES ASSUME TypeInv, LinesInv, [Next]_vars, files' <= 1
             PROVE  Lines' /\ Len(file'[1]) = logged'
  BY DEF LinesInv
<1>1. files <= 1
  <2>1. files \in Nat /\ files' \in Nat /\ files <= files'
    BY Numbers, FilesGrow, TypeInvNext DEF TypeInv, DiskType
  <2> QED
    BY <2>1
<1>2. CASE log_event_json
  <2>1. json_fd = 1
    BY <1>1, <1>2 DEF log_event_json, TypeInv, DiskType, NoFile
  <2>2. /\ logged' = logged + 1 /\ file'[1] = Append(file[1], logged + 1)
        /\ Len(file'[1]) = logged + 1 /\ Len(file[1]) = logged /\ logged \in Nat
        /\ \A k \in 1 .. logged : file'[1][k] = k
        /\ file[1] \in Seq(Event) /\ logged + 1 \in Event
    BY <1>1, <1>2, <2>1, LogLine, Numbers DEF TypeInv, LinesInv, Lines, DiskType
  <2>3. file'[1][logged + 1] = logged + 1
    BY <2>2, AppendProperties
  <2> QED
    BY <2>2, <2>3 DEF Lines
<1>3. CASE UNCHANGED <<file, logged>>
  BY <1>1, <1>3 DEF LinesInv, Lines
<1> QED
  BY <1>2, <1>3 DEF Next, vars, disk, log_json_init, log_json_close, EtlBegin, EtlStep,
     EtlFail, EtlOpen, EtlRead, EtlCommit, EtlEnd, EtlTruncate, EtlWrite, Age, RotateMove,
     RotateTouch, RotateReset, RotateDelete, RotateRows

\* A commit continues the count.
LEMMA CommitCounts ==
    ASSUME TypeInv, PieceInv, LinesInv, files <= 1, epc # "idle", EtlCommit,
           CountsTo(db, Taken)
    PROVE  CountsTo(db, current_offset)'
<1>1. /\ db \in Seq(Event) /\ txn \in Seq(Event) /\ db' = db \o txn
      /\ UNCHANGED <<file, current_offset>> /\ batch = << >>
  BY DEF EtlCommit, disk, TypeInv, EtlType, TableType
<1>2. Len(db) \in Nat /\ Len(batch) = 0
  BY <1>1, LenProperties, EmptySeq
<1>3. PICK t : t = db \o txn
  OBVIOUS
<1>4. /\ Len(t) = Len(db) + Len(txn)
      /\ \A k \in 1 .. Len(db) + Len(txn) :
            t[k] = IF k <= Len(db) THEN db[k] ELSE txn[k - Len(db)]
  BY <1>1, <1>3, ConcatProperties
<1>5. Taken = current_offset - Len(txn)
  BY <1>2, Numbers DEF Taken
<1>6. efile = 1
  BY DEF EtlCommit, TypeInv, EtlType, Reading, NoFile, DiskType
<1>7. ASSUME NEW k \in 1 .. Len(t) PROVE t[k] = current_offset - Len(t) + k
  <2>1. CASE k <= Len(db)
    <3>1. t[k] = db[k] /\ k \in 1 .. Len(db)
      BY <1>2, <1>4, <2>1, Numbers
    <3>2. db[k] = Taken - Len(db) + k
      BY <3>1 DEF CountsTo
    <3> QED
      BY <1>2, <1>4, <1>5, <3>1, <3>2, Numbers
  <2>2. CASE ~(k <= Len(db))
    <3>1. PICK j : j = k - Len(db)
      OBVIOUS
    <3>2. j \in 1 .. Len(txn) /\ t[k] = txn[j] /\ k = Len(db) + j
      BY <1>2, <1>4, <2>2, <3>1, Numbers
    <3>3. txn # << >>
      BY <3>2, EmptySeq
    <3>4. /\ Len(txn) <= current_offset /\ current_offset <= Len(file[1])
          /\ txn[j] = file[1][current_offset - Len(txn) + j]
      BY <1>6, <3>2, <3>3 DEF PieceInv, EndsAt
    <3>5. current_offset - Len(txn) + j \in 1 .. Len(file[1])
      <4>1. PICK c \in Nat, l \in Nat, m \in Nat :
              c = current_offset /\ l = Len(txn) /\ m = Len(file[1])
        BY Numbers
      <4>2. j \in 1 .. l /\ l <= c /\ c <= m
        BY <3>2, <3>4, <4>1
      <4>3. c - l + j \in 1 .. m
        BY <4>2
      <4> QED
        BY <4>1, <4>3
    <3>6. txn[j] = current_offset - Len(txn) + j
      BY <3>4, <3>5 DEF LinesInv, Lines
    <3> QED
      BY <1>2, <1>4, <3>2, <3>6, Numbers
  <2> QED
    BY <2>1, <2>2
<1> QED
  BY <1>1, <1>3, <1>7 DEF CountsTo

LEMMA OnceNext ==
    TypeInv /\ PieceInv /\ LinesInv /\ OnceInv /\ [Next]_vars => OnceInv'
<1> SUFFICES ASSUME TypeInv, PieceInv, LinesInv, OnceInv, [Next]_vars,
                    files' <= 1, faults' = 0
             PROVE  /\ epc' = "open" => current_offset' = Saved'
                    /\ CountsTo(db, Place)'
  BY DEF OnceInv
<1>0. files <= 1 /\ faults = 0
  <2>1. files \in Nat /\ files' \in Nat /\ files <= files'
    BY Numbers, FilesGrow, TypeInvNext DEF TypeInv, DiskType
  <2>3. faults \in Nat
    BY PipelineAssumption DEF TypeInv, TableType
  <2>2. faults' = faults \/ faults' = faults + 1
    BY DEF Next, vars, log_json_init, log_event_json, log_json_close, EtlBegin,
       EtlStep, EtlFail, EtlOpen, EtlRead, EtlCommit, EtlEnd, EtlTruncate, EtlWrite, Age,
       RotateMove, RotateTouch, RotateReset, RotateDelete, RotateRows
  <2> QED
    BY <2>1, <2>2, <2>3
<1>1. /\ epc = "open" => current_offset = Saved
      /\ CountsTo(db, Place)
  BY <1>0 DEF OnceInv
<1>2. Place \in Int
  BY Numbers DEF Place
<1>3. Place' = Place /\ db' = db => CountsTo(db, Place)'
  BY <1>1 DEF CountsTo
<1>4. CASE \/ log_json_init \/ log_event_json \/ log_json_close
           \/ Age \/ RotateMove \/ RotateTouch \/ RotateReset \/ RotateDelete \/ RotateRows
           \/ UNCHANGED vars
  <2>1. UNCHANGED <<epc, current_offset, batch, txn, last_offset>>
    BY <1>4, OthersLeave
  <2>2. Place' = Place /\ Saved' = Saved
    BY <2>1 DEF Place, Taken, Saved
  <2>3. CASE db' = db
    BY <1>1, <1>3, <2>1, <2>2, <2>3
  <2>4. CASE db' = Recent(db)
    <3>1. CountsTo(Recent(db), Place)
      BY <1>1, <1>2, RecentCounts DEF TypeInv, TableType, DiskType
    <3>2. CountsTo(db, Place)'
      BY <2>2, <2>4, <3>1 DEF CountsTo
    <3> QED
      BY <1>1, <2>1, <2>2, <3>2
  <2> QED
    BY <1>4, <2>3, <2>4 DEF vars, rows, log_json_init, log_event_json, log_json_close,
       Age, RotateMove, RotateTouch, RotateReset, RotateDelete, RotateRows
<1>5. CASE EtlBegin
  <2>1. /\ current_offset' = Saved /\ txn' = << >> /\ batch' = << >>
        /\ UNCHANGED <<db, last_offset>> /\ epc = "idle" /\ epc' = "open"
    BY <1>5 DEF EtlBegin, rows, TypeInv, EtlType
  <2>2. Saved' = Saved /\ Taken' = Saved
    BY <2>1, EmptySeq, Numbers DEF Taken, Saved
  <2> QED
    BY <1>3, <2>1, <2>2 DEF Place
<1>6. CASE EtlOpen
  <2>1. /\ txn = << >> /\ batch = << >> /\ UNCHANGED <<txn, batch, db, last_offset>>
        /\ epc = "open"
        /\ \/ epc' = "idle"
           \/ epc' = "read" /\ UNCHANGED current_offset
    BY <1>6 DEF EtlOpen, rows, TypeInv, EtlType
  <2>2. Taken = current_offset /\ Saved' = Saved
    BY <2>1, EmptySeq, Numbers DEF Taken, Saved
  <2>3. Place' = Place
    BY <1>1, <2>1, <2>2 DEF Place, Taken
  <2> QED
    BY <1>3, <2>1, <2>3
<1>7. CASE EtlRead
  <2>1. PICK more \in Seq(Event) :
             /\ Len(more) = Len(batch) + 1
             /\ \/ epc' = "commit" /\ txn' = more /\ batch' = << >>
                \/ epc' = "read" /\ txn' = txn /\ batch' = more /\ Len(more) < BATCH_SIZE
    BY <1>7, ReadLine DEF TypeInv
  <2>2. /\ epc = "read" /\ txn = << >> /\ current_offset' = current_offset + 1
        /\ UNCHANGED <<db>>
    BY <1>7 DEF EtlRead, rows, TypeInv, EtlType
  <2>4. Taken' = Taken
    BY <1>7, ReadKeepsTaken
  <2> QED
    BY <1>3, <2>1, <2>2, <2>4 DEF Place
<1>8. CASE EtlCommit
  <2>1. epc # "idle" /\ epc' \in {"read", "save"}
    BY <1>8 DEF EtlCommit
  <2>2. CountsTo(db, current_offset)'
    BY <1>0, <1>1, <1>8, <2>1, CommitCounts DEF Place
  <2>3. Taken' = current_offset'
    <3>1. batch = << >> /\ batch' = batch /\ txn' = << >> /\ current_offset' = current_offset
      BY <1>8 DEF EtlCommit, TypeInv, EtlType
    <3> QED
      BY <3>1, EmptySeq, Numbers DEF Taken
  <2> QED
    BY <2>1, <2>2, <2>3 DEF Place, CountsTo
<1>9. CASE EtlEnd
  <2>1. /\ txn = << >> /\ txn' = batch /\ batch' = << >> /\ epc = "read"
        /\ epc' \in {"save", "commitLast"} /\ UNCHANGED <<db, current_offset>>
    BY <1>9 DEF EtlEnd, rows, TypeInv, EtlType
  <2>2. Taken' = Taken
    BY <2>1, EmptySeq, Numbers DEF Taken
  <2> QED
    BY <1>3, <2>1, <2>2 DEF Place
<1>10. CASE EtlTruncate
  <2>1. epc = "save" /\ epc' = "write" /\ UNCHANGED <<db, current_offset, txn, batch>>
    BY <1>10 DEF EtlTruncate, rows
  <2> QED
    BY <1>3, <2>1 DEF Place, Taken
<1>11. CASE EtlWrite
  <2>1. /\ txn = << >> /\ batch = << >> /\ epc = "write" /\ epc' = "idle"
        /\ last_offset' = current_offset /\ UNCHANGED db
    BY <1>11 DEF EtlWrite, rows, TypeInv, EtlType
  <2>2. Saved' = current_offset /\ Taken = current_offset
    BY <2>1, EmptySeq, Numbers DEF Saved, Taken, Absent
  <2> QED
    BY <1>3, <2>1, <2>2 DEF Place
<1>12. ASSUME EtlFail PROVE FALSE
  BY <1>0, <1>12 DEF EtlFail
<1> QED
  BY <1>4, <1>5, <1>6, <1>7, <1>8, <1>9, <1>10, <1>11, <1>12 DEF Next, EtlStep

\* While no run has failed and the log was never rotated, the table holds the events in
\* the order in which they were logged, each once and none left out between two others.
THEOREM ExactlyOnceCorrect == Spec => []ExactlyOnce
<1>1. Init => LinesInv /\ OnceInv
  <2> SUFFICES ASSUME Init PROVE LinesInv /\ OnceInv
    OBVIOUS
  <2>1. Len(file[1]) = 0 /\ Len(db) = 0 /\ epc = "idle" /\ logged = 0
    BY PipelineAssumption, EmptySeq DEF Init, File
  <2> QED
    BY <2>1 DEF LinesInv, OnceInv, Lines, CountsTo
<1>2. Inv /\ LinesInv /\ OnceInv /\ [Next]_vars => (LinesInv /\ OnceInv)'
  BY LinesNext, OnceNext DEF Inv
<1>3. ASSUME Inv, OnceInv, faults = 0, files <= 1, NEW k \in 1 .. Len(db) - 1
      PROVE  db[k + 1] = db[k] + 1
  <2>1. Len(db) \in Nat /\ Place \in Int
    BY <1>3, Numbers, LenProperties DEF Inv, TypeInv, TableType, Place
  <2>2. k \in 1 .. Len(db) /\ k + 1 \in 1 .. Len(db)
    BY <2>1
  <2>3. db[k] = Place - Len(db) + k /\ db[k + 1] = Place - Len(db) + (k + 1)
    BY <1>3, <2>2 DEF OnceInv, CountsTo
  <2> QED
    BY <2>1, <2>3
<1>4. Inv /\ OnceInv => ExactlyOnce
  BY <1>3 DEF ExactlyOnce
<1> QED
  BY <1>1, <1>2, <1>4, InvCorrect, PTL DEF Spec
=============================================================================

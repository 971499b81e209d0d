--------------------------- MODULE EventPipeline ----------------------------
(***************************************************************************)
(* The events' way into the database: handlers append lines to the event    *)
(* log (src/src/log_json.c), cron runs test/log_etl.py, which loads new      *)
(* lines from the offset it saved, and test/log_rotate.sh, which archives a  *)
(* log that nobody has written to for a week, and deletes archives and rows    *)
(* of more than 30 days.  External: the file system, where a file outlives its *)
(* name, and the database, with its transactions.                            *)
(*                                                                         *)
(* A line is one event, a valid one: the events are the fixed texts of       *)
(* menu.c's handlers.  Offsets count lines.                                  *)
(***************************************************************************)
EXTENDS Naturals, SequencesExt, FiniteSetsExt

CONSTANTS
    BATCH_SIZE,
    MaxEvents,  \* bound: events logged
    MaxFiles,   \* bound: files that are ever the event log
    MaxFaults,  \* bound: ETL runs that fail
    Rotates     \* TRUE: log_rotate.sh is in the crontab

ASSUME PipelineAssumption ==
    /\ BATCH_SIZE \in Nat \ {0} /\ MaxFiles \in Nat \ {0}
    /\ MaxEvents \in Nat /\ MaxFaults \in Nat /\ Rotates \in BOOLEAN

File   == 1 .. MaxFiles
NoFile == 0
Absent == -1            \* the offset file does not exist, or is empty
Event  == 1 .. MaxEvents

VARIABLES
    file,       \* external: per file, its lines
    files,      \* external: files created so far
    live,       \* external: the file events.json.log names
    age,        \* external: per file, since the last write: 1 over 7, 2 over 30 days
    old,        \* external: the events 1 .. old are over 30 days old
    archive,    \* external: the files that have a name in ARCHIVE_DIR
    json_fd,    \* the file log_json.c has open, NoFile before init and after close
    logged,     \* events the handlers have logged
    last_offset,            \* the content of .last_offset
    db, txn,    \* external: rows of the table; rows of the open transaction
    imported,   \* history: events that were committed at some time
    epc, efile, current_offset, batch,   \* the ETL
    faults,
    rpc         \* the rotation

disk == <<file, files, live, age, old, archive>>
rows == <<db, imported>>
etl  == <<epc, efile, current_offset, batch>>
vars == <<disk, json_fd, logged, last_offset, rows, txn, etl, faults, rpc>>

Init ==
    /\ file = [f \in File |-> << >>] /\ files = 0 /\ live = NoFile
    /\ age = [f \in File |-> 0] /\ old = 0 /\ archive = {}
    /\ json_fd = NoFile /\ logged = 0
    /\ last_offset = Absent /\ db = << >> /\ imported = {} /\ txn = << >>
    /\ epc = "idle" /\ efile = NoFile /\ current_offset = 0 /\ batch = << >>
    /\ faults = 0 /\ rpc = "idle"

-----------------------------------------------------------------------------
(* log_json.c.                                                             *)

\* A new file with the name of the log.
Create == files < MaxFiles /\ files' = files + 1 /\ live' = files + 1

\* log_json_init: open with O_CREAT | O_APPEND.
log_json_init ==
    /\ json_fd = NoFile
    /\ IF live = NoFile THEN Create ELSE UNCHANGED <<files, live>>
    /\ json_fd' = live'
    /\ UNCHANGED <<file, age, old, archive, logged, last_offset, rows, txn, etl, faults, rpc>>

\* log_event_json, called by the handlers: one line, written under json_mutex and
\* the lock of the file.  It goes to the open file, whatever that is called by now.
log_event_json ==
    /\ json_fd # NoFile /\ logged < MaxEvents
    /\ logged' = logged + 1
    /\ file' = [file EXCEPT ![json_fd] = Append(@, logged + 1)]
    /\ age' = [age EXCEPT ![json_fd] = 0]
    /\ UNCHANGED <<files, live, old, archive, json_fd, last_offset, rows, txn, etl, faults, rpc>>

log_json_close ==
    /\ json_fd # NoFile
    /\ json_fd' = NoFile
    /\ UNCHANGED <<disk, logged, last_offset, rows, txn, etl, faults, rpc>>

-----------------------------------------------------------------------------
(* log_etl.py.                                                             *)

\* read_last_offset: no file and an unreadable one mean 0.
Saved == IF last_offset = Absent THEN 0 ELSE last_offset

\* main, up to the connection: with no new lines it ends at once.
EtlBegin ==
    /\ epc = "idle" /\ live # NoFile /\ Saved < Len(file[live])
    /\ epc' = "open" /\ current_offset' = Saved
    /\ UNCHANGED <<disk, json_fd, logged, last_offset, rows, txn, efile, batch,
                   faults, rpc>>

\* open and seek: the log may be another file by now, or have no name.
EtlOpen ==
    /\ epc = "open"
    /\ IF live # NoFile
       THEN epc' = "read" /\ efile' = live /\ UNCHANGED current_offset
       ELSE epc' = "idle" /\ current_offset' = 0 /\ UNCHANGED efile
    /\ UNCHANGED <<disk, json_fd, logged, last_offset, rows, txn, batch, faults, rpc>>

\* Mutant: a full batch is sent but not emptied.
EtlReadKeep ==
    /\ epc = "read" /\ current_offset < Len(file[efile])
    /\ current_offset' = current_offset + 1
    /\ batch' = Append(batch, file[efile][current_offset + 1])
    /\ IF Len(batch') >= BATCH_SIZE THEN epc' = "commit" /\ txn' = batch'
       ELSE UNCHANGED <<epc, txn>>
    /\ UNCHANGED <<disk, json_fd, logged, last_offset, rows, efile, faults, rpc>>

\* One line; a full batch is sent, and committed in the next step.
EtlRead ==
    /\ epc = "read" /\ current_offset < Len(file[efile])
    /\ current_offset' = current_offset + 1
    /\ LET more == Append(batch, file[efile][current_offset + 1]) IN
       IF Len(more) >= BATCH_SIZE
       THEN epc' = "commit" /\ txn' = more /\ batch' = << >>
       ELSE batch' = more /\ UNCHANGED <<epc, txn>>
    /\ UNCHANGED <<disk, json_fd, logged, last_offset, rows, efile, faults, rpc>>

EtlCommit ==
    /\ epc \in {"commit", "commitLast"}
    /\ db' = db \o txn /\ imported' = imported \union Range(txn) /\ txn' = << >>
    /\ epc' = IF epc = "commit" THEN "read" ELSE "save"
    /\ UNCHANGED <<disk, json_fd, logged, last_offset, efile, current_offset, batch,
                   faults, rpc>>

\* Mutant: the last batch, which is not full, is forgotten.
EtlEndEarly ==
    /\ epc = "read" /\ current_offset >= Len(file[efile])
    /\ epc' = "save" /\ batch' = << >>
    /\ UNCHANGED <<disk, json_fd, logged, last_offset, rows, txn, efile,
                   current_offset, faults, rpc>>

\* The end of the file: what is left of the batch is sent.
EtlEnd ==
    /\ epc = "read" /\ current_offset >= Len(file[efile])
    /\ txn' = batch /\ batch' = << >>
    /\ epc' = IF batch = << >> THEN "save" ELSE "commitLast"
    /\ UNCHANGED <<disk, json_fd, logged, last_offset, rows, efile, current_offset,
                   faults, rpc>>

\* save_last_offset: open(.., 'w') truncates, then the number is written.
EtlTruncate ==
    /\ epc = "save"
    /\ last_offset' = Absent
    /\ epc' = "write"
    /\ UNCHANGED <<disk, json_fd, logged, rows, txn, efile, current_offset, batch,
                   faults, rpc>>

\* Mutant: the size of the file is saved, not the offset that was reached.
EtlWriteSize ==
    /\ epc = "write"
    /\ last_offset' = Len(file[efile])
    /\ epc' = "idle" /\ efile' = NoFile /\ current_offset' = 0
    /\ UNCHANGED <<disk, json_fd, logged, rows, txn, batch, faults, rpc>>

EtlWrite ==
    /\ epc = "write"
    /\ last_offset' = current_offset
    /\ epc' = "idle" /\ efile' = NoFile /\ current_offset' = 0
    /\ UNCHANGED <<disk, json_fd, logged, rows, txn, batch, faults, rpc>>

\* Mutant: the offset is saved although the import failed.
EtlFailSaved ==
    /\ epc # "idle" /\ faults < MaxFaults
    /\ faults' = faults + 1
    /\ last_offset' = current_offset
    /\ txn' = << >> /\ batch' = << >>
    /\ epc' = "idle" /\ efile' = NoFile /\ current_offset' = 0
    /\ UNCHANGED <<disk, json_fd, logged, rows, rpc>>

\* The database reports an error, or the process is killed: the transaction is
\* rolled back and nothing is saved.
EtlFail ==
    /\ epc # "idle" /\ faults < MaxFaults
    /\ faults' = faults + 1
    /\ txn' = << >> /\ batch' = << >>
    /\ epc' = "idle" /\ efile' = NoFile /\ current_offset' = 0
    /\ UNCHANGED <<disk, json_fd, logged, last_offset, rows, rpc>>

EtlStep == EtlOpen \/ EtlRead \/ EtlCommit \/ EtlEnd \/ EtlTruncate \/ EtlWrite

-----------------------------------------------------------------------------
(* log_rotate.sh.                                                          *)

\* A week without a write goes by, or a month.
Age ==
    /\ Rotates /\ files > 0
    /\ \/ age' = [f \in File |-> IF f <= files /\ age[f] = 0 THEN 1 ELSE age[f]] /\ UNCHANGED old
       \/ age' = [f \in File |-> IF f <= files THEN 2 ELSE 0] /\ old' = logged
    /\ UNCHANGED <<file, files, live, archive, json_fd, logged, last_offset, rows, txn, etl,
                   faults, rpc>>

\* mv: the name goes to the archive, the open descriptors keep the file.
RotateMove ==
    /\ Rotates /\ rpc = "idle" /\ live # NoFile /\ age[live] > 0 /\ files < MaxFiles
    /\ live' = NoFile /\ archive' = archive \union {live}
    /\ rpc' = "touch"
    /\ UNCHANGED <<file, files, age, old, json_fd, logged, last_offset, rows, txn, etl, faults>>

RotateTouch ==
    /\ rpc = "touch"
    /\ IF live = NoFile THEN Create ELSE UNCHANGED <<files, live>>
    /\ rpc' = "reset"
    /\ UNCHANGED <<file, age, old, archive, json_fd, logged, last_offset, rows, txn, etl, faults>>

\* rm .last_offset.
RotateReset ==
    /\ rpc = "reset"
    /\ last_offset' = Absent
    /\ rpc' = "expire"
    /\ UNCHANGED <<disk, json_fd, logged, rows, txn, etl, faults>>

\* find -mtime +30 -delete, at once if there is nothing to archive.  The archive of a
\* moment ago is as old as the log was.
RotateDelete ==
    /\ Rotates
    /\ \/ rpc = "expire"
       \/ rpc = "idle" /\ old > 0 /\ (live # NoFile => age[live] = 0)
    /\ archive' = {f \in archive : age[f] < 2}
    /\ rpc' = "rows"
    /\ UNCHANGED <<file, files, live, age, old, json_fd, logged, last_offset, rows, txn, etl, faults>>

\* The rows of the last 30 days, in their order.
Recent(table) ==
    LET kept[k \in 0 .. Len(table)] ==
            IF k = 0 THEN << >>
            ELSE IF table[k] > old THEN Append(kept[k - 1], table[k]) ELSE kept[k - 1]
    IN  kept[Len(table)]

\* DELETE FROM gateway_events; without a connection to the database nothing happens.
RotateRows ==
    /\ rpc = "rows"
    /\ db' \in {db, Recent(db)}
    /\ rpc' = "idle"
    /\ UNCHANGED <<disk, imported, json_fd, logged, last_offset, txn, etl, faults>>

-----------------------------------------------------------------------------
Next ==
    \/ log_json_init \/ log_event_json \/ log_json_close
    \/ EtlBegin \/ EtlStep \/ EtlFail
    \/ Age \/ RotateMove \/ RotateTouch \/ RotateReset \/ RotateDelete \/ RotateRows

Spec == Init /\ [][Next]_vars

\* Cron starts the ETL again and again, and a run that does not fail goes on.
FairSpec == Spec /\ WF_vars(EtlBegin \/ EtlStep)

-----------------------------------------------------------------------------
(* Properties.                                                             *)

TypeOK ==
    /\ file \in [File -> Seq(Event)] /\ files \in 0 .. MaxFiles
    /\ live \in File \cup {NoFile} /\ age \in [File -> 0 .. 2]
    /\ old \in 0 .. logged /\ archive \subseteq 1 .. files /\ live \notin archive
    /\ json_fd \in File \cup {NoFile} /\ logged \in 0 .. MaxEvents
    /\ last_offset \in {Absent} \cup 0 .. MaxEvents
    /\ db \in Seq(Event) /\ txn \in Seq(Event) /\ Len(txn) <= BATCH_SIZE
    /\ epc \in {"idle", "open", "read", "commit", "commitLast", "save", "write"}
    /\ efile \in File \cup {NoFile} /\ current_offset \in 0 .. MaxEvents
    /\ batch \in Seq(Event) /\ Len(batch) < BATCH_SIZE
    /\ faults \in 0 .. MaxFaults /\ rpc \in {"idle", "touch", "reset", "expire", "rows"}

\* As long as no run has failed and the log was never rotated, the table holds the
\* events in the order in which they were logged, each one once and none left out
\* between two others, whatever is logged while the ETL runs, however often the
\* gateway is restarted and rows expire (log_etl.py 84-139, log_rotate.sh 81-83).
ExactlyOnce ==
    faults = 0 /\ files <= 1 => \A k \in 1 .. Len(db) - 1 : db[k + 1] = db[k] + 1

\* Whatever fails, a line before the saved offset has been committed, as long as the
\* log was never rotated: a failed run is repeated, and loses nothing (log_etl.py
\* 144-150).
NothingSkipped ==
    files = 1 /\ live # NoFile => \A k \in 1 .. Saved : file[live][k] \in imported

\* What a run has read and not committed is the piece of one file that ends at its
\* offset, whatever fails and whatever happens to the name of the file meanwhile: no
\* line of a batch is dropped, taken twice or mixed with another file's (log_etl.py
\* 117-137).
BatchContiguous ==
    LET read == txn \o batch IN
    read # << >> =>
        /\ Len(read) <= current_offset /\ current_offset <= Len(file[efile])
        /\ read = SubSeq(file[efile], current_offset - Len(read) + 1, current_offset)

\* Every event of a log that is not rotated is in the table in the end, whatever has
\* failed on the way.
AllImported == [](rpc \notin {"touch", "reset"} /\ files <= 1) => []<>(imported = 1 .. logged)

\* log_etl.py:6 and README.md: the saved offset avoids importing lines twice.
NoDuplicates == IsInjective(db)

\* log_rotate.sh:56: .last_offset is removed "to keep the offset from being
\* misplaced".  The saved offset is always one of the file that has the log's name.
OffsetInPlace == live # NoFile /\ rpc = "idle" => Saved <= Len(file[live])

\* README.md, the pipeline goes from the gateway to the table without a gap: an
\* event that is not in the table yet will be read by a later run, or is being read.
NothingStranded ==
    \A e \in 1 .. logged :
        \/ e \in imported
        \/ live # NoFile /\ Contains(file[live], e)
        \/ efile # NoFile /\ Contains(file[efile], e)

\* log_rotate.sh 6-8 keeps archives for 30 days and rows for 30 days: what is deleted
\* with an archive has been in the table.
DeletedImported ==
    \A f \in 1 .. files : f \notin archive \union {live, efile, json_fd} =>
        Range(file[f]) \subseteq imported
=============================================================================

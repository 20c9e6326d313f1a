-------------------------- MODULE DiskPersistence ---------------------------
(***************************************************************************)
(* Persistence on a local disk (backend/persistence.go): a flush appends   *)
(* its entries to one log file and syncs it; a snapshot is written to a    *)
(* temporary file, synced, renamed over the last one, and the log file is  *)
(* then removed whole.                                                     *)
(*                                                                         *)
(* The file system is external: an append may stop in the middle of a      *)
(* record, a power loss keeps what was synced and any part of the rest, a  *)
(* removed file lives on for those who have it open, and opening the       *)
(* temporary file again empties it under whoever is still writing to it.   *)
(***************************************************************************)
EXTENDS Journal

CONSTANT
    File            \* files (inodes) for snapshots

\* There is always room for one more file.
ASSUME FileAssumption ==
    /\ NoSnapshot \notin File
    /\ \A i, j \in File \cup {NoSnapshot} : File \ {i, j} # {}

VARIABLES
    walLog,         \* the records of wal.log; empty when there is no file
    synced,         \* how many of them are on the platter
    handle,         \* handle[f]: the log file flushWAL of f has open
    content,        \* content[i]: the two halves of file i
    tmpFile,        \* the file called snapshot.tmp.gz
    snapshotFile,   \* the file called snapshot.gob.gz
    saver,          \* saver[s]: where saveSnapshotToDisk of s is
    failed,         \* history: failures so far
    unread          \* history: a flush has reported entries as stored that
                    \* stand behind a torn record, where no boot reads them

disk == <<walLog, synced, handle, content, tmpFile, snapshotFile>>
diskVars == <<journal, disk, saver, failed, unread>>

NotSaving == [at |-> "idle"]
Closed == [open |-> FALSE, removed |-> FALSE, written |-> 0]
Torn == [torn |-> TRUE]
Unwritten == [by |-> "nobody"]
Blank == [head |-> Unwritten, tail |-> Unwritten]

\* decodeWAL stops at the first record it cannot parse.
Decoded(log) ==
    LET bad == SelectInSeq(log, LAMBDA e : e = Torn)
    IN  IF bad = 0 THEN log ELSE SubSeq(log, 1, bad - 1)

Readable(i) ==
    i \in File /\ content[i].head # Unwritten /\ content[i].head = content[i].tail

DiskSnapshotWorld ==
    IF Readable(snapshotFile)
    THEN content[snapshotFile].head.world ELSE EmptyWorld

\* What a boot rebuilds.
RecoveredFromDisk == Replay(DiskSnapshotWorld, Decoded(walLog))

DiskInit ==
    /\ JournalInit
    /\ walLog = <<>> /\ synced = 0
    /\ handle = [f \in Flushers |-> Closed]
    /\ content = [i \in File |-> Blank]
    /\ tmpFile = NoSnapshot
    /\ snapshotFile = NoSnapshot
    /\ saver = [s \in Savers |-> NotSaving]
    /\ failed = 0
    /\ unread = FALSE

OffDisk(A) == A /\ UNCHANGED <<disk, saver, failed, unread>>

-----------------------------------------------------------------------------
(* flushWAL *)

OpenLog(f) ==
    /\ batch[f] # <<>> /\ ~ handle[f].open
    /\ handle' = [handle EXCEPT ![f] = [open |-> TRUE, removed |-> FALSE, written |-> 0]]
    /\ UNCHANGED <<journal, walLog, synced, content, tmpFile, snapshotFile, saver, failed, unread>>

Written(f) == handle[f].open /\ batch[f] # <<>> /\ handle[f].written = Len(batch[f])

\* A record that goes to a removed file is in no log.
AppendRecord(f) ==
    /\ handle[f].open /\ handle[f].written < Len(batch[f])
    /\ walLog' = IF handle[f].removed THEN walLog
                 ELSE Append(walLog, batch[f][handle[f].written + 1])
    /\ handle' = [handle EXCEPT ![f].written = @ + 1]
    /\ UNCHANGED <<journal, synced, content, tmpFile, snapshotFile, saver, failed, unread>>

\* An error requeues the whole batch, also what is in the log by then.
FlushFails(f) ==
    /\ failed < given.failures
    /\ handle' = [handle EXCEPT ![f] = Closed]
    /\ Requeue(f)
    /\ failed' = failed + 1
    /\ UNCHANGED <<synced, content, tmpFile, snapshotFile, saver, unread>>

\* The log cannot be opened.
OpenFails(f) ==
    /\ batch[f] # <<>> /\ ~ handle[f].open
    /\ FlushFails(f)
    /\ UNCHANGED walLog

\* A write stops in the middle of a record or between two.
AppendFails(f) ==
    /\ handle[f].open /\ handle[f].written < Len(batch[f])
    /\ walLog' \in {walLog, IF handle[f].removed THEN walLog ELSE Append(walLog, Torn)}
    /\ FlushFails(f)

\* Everything is in the log, but the sync fails.
SyncFails(f) ==
    /\ Written(f)
    /\ FlushFails(f)
    /\ UNCHANGED walLog

\* Variant: no fsync.
VariantSyncedBy(f) == synced
SyncedBy(f) == IF handle[f].removed THEN synced ELSE Len(walLog)

SyncLog(f) ==
    /\ Written(f)
    /\ synced' = SyncedBy(f)
    /\ handle' = [handle EXCEPT ![f] = Closed]
    /\ unread' = (unread \/ Torn \in Range(walLog))
    /\ Flushed(f)
    /\ UNCHANGED <<walLog, content, tmpFile, snapshotFile, saver, failed>>

-----------------------------------------------------------------------------
(* saveSnapshotToDisk *)

MaySaveToDisk(s) ==
    CASE s = "loop"   -> phase = "up" /\ "periodic" \in given.may
      [] s = "boot"   -> phase = "booting"
      [] s = "signal" -> signal = "save"

\* captureSnapshotData takes stateMu, so no command is half written.
CaptureForDisk(s) ==
    /\ MaySaveToDisk(s) /\ saver[s] = NotSaving /\ writing = <<>>
    /\ saver' = [saver EXCEPT ![s] = [at |-> "captured", data |-> [by |-> s, world |-> world]]]
    /\ UNCHANGED <<journal, disk, failed, unread>>

InUse == {tmpFile, snapshotFile}
            \cup {saver[s].file : s \in {t \in Savers : "file" \in DOMAIN saver[t]}}

\* os.Create empties an existing file.
CreateTmp(s) ==
    /\ saver[s].at = "captured"
    /\ LET i == IF tmpFile = NoSnapshot THEN CHOOSE j \in File : j \notin InUse ELSE tmpFile
       IN  /\ tmpFile' = i
           /\ content' = [content EXCEPT ![i] = Blank]
           /\ saver' = [saver EXCEPT ![s] = [at |-> "created", data |-> @.data, file |-> i]]
    /\ UNCHANGED <<journal, walLog, synced, handle, snapshotFile, failed, unread>>

WriteHead(s) ==
    /\ saver[s].at = "created"
    /\ content' = [content EXCEPT ![saver[s].file].head = saver[s].data]
    /\ saver' = [saver EXCEPT ![s].at = "half"]
    /\ UNCHANGED <<journal, walLog, synced, handle, tmpFile, snapshotFile, failed, unread>>

\* The rest of the file, Sync and Close.
WriteTail(s) ==
    /\ saver[s].at = "half"
    /\ content' = [content EXCEPT ![saver[s].file].tail = saver[s].data]
    /\ saver' = [saver EXCEPT ![s].at = "synced"]
    /\ UNCHANGED <<journal, walLog, synced, handle, tmpFile, snapshotFile, failed, unread>>

\* After a save the server is up; the signal goroutine ends the process.
DiskSaveReturns(s) ==
    /\ CASE s = "loop"   -> UNCHANGED journal
         [] s = "boot"   -> phase' = "up"
                            /\ UNCHANGED <<given, volatile, kept, kills, signal, promised>>
         [] s = "signal" -> Exit
    /\ saver' = IF s = "signal" THEN [t \in Savers |-> NotSaving] ELSE [saver EXCEPT ![s] = NotSaving]

\* Variant: the file is renamed before the rest of it is written and synced.
VariantRenameFrom == {"half", "synced"}
RenameFrom == {"synced"}

RenameTmp(s) ==
    /\ saver[s].at \in RenameFrom /\ tmpFile # NoSnapshot
    /\ snapshotFile' = tmpFile
    /\ tmpFile' = NoSnapshot
    /\ saver' = [saver EXCEPT ![s].at = "renamed"]
    /\ UNCHANGED <<journal, walLog, synced, handle, content, failed, unread>>

\* Another saver has renamed the file away.
RenameFails(s) ==
    /\ saver[s].at = "synced" /\ tmpFile = NoSnapshot
    /\ DiskSaveReturns(s)
    /\ UNCHANGED <<disk, failed, unread>>

\* An error while the temporary file is created, written, synced or renamed,
\* or the log cannot be removed.
SaveFails(s) ==
    /\ saver[s].at \in {"captured", "created", "half", "synced", "renamed"}
    /\ failed < given.failures
    /\ failed' = failed + 1
    /\ DiskSaveReturns(s)
    /\ UNCHANGED <<disk, unread>>

\* truncateWAL removes the log file.
TruncateWAL(s) ==
    /\ saver[s].at = "renamed"
    /\ walLog' = <<>> /\ synced' = 0
    /\ handle' = [f \in Flushers |->
                    IF handle[f].open THEN [handle[f] EXCEPT !.removed = TRUE] ELSE handle[f]]
    /\ DiskSaveReturns(s)
    /\ UNCHANGED <<content, tmpFile, snapshotFile, failed, unread>>

-----------------------------------------------------------------------------
(* initPersistence and power loss *)

AppendingNow == \E f \in Flushers : handle[f].open /\ ~ handle[f].removed
                                      /\ handle[f].written < Len(batch[f])

PowerLoss ==
    /\ Kill
    /\ \E n \in synced .. Len(walLog), torn \in BOOLEAN :
          /\ torn => n < Len(walLog) \/ AppendingNow
          /\ walLog' = SubSeq(walLog, 1, n) \o (IF torn THEN <<Torn>> ELSE <<>>)
          /\ synced' = Len(walLog')
    /\ handle' = [f \in Flushers |-> Closed]
    /\ saver' = [s \in Savers |-> NotSaving]
    /\ UNCHANGED <<content, tmpFile, snapshotFile, failed, unread>>

\* With no snapshot, one is saved before the server comes up; with one that
\* cannot be read the server does not start.
DiskBoot ==
    /\ phase = "down"
    /\ snapshotFile = NoSnapshot \/ Readable(snapshotFile)
    /\ world' = RecoveredFromDisk
    /\ walSeq' = SeqAfter(Decoded(walLog))
    /\ phase' = IF snapshotFile = NoSnapshot THEN "booting" ELSE "up"
    /\ UNCHANGED <<given, writing, walBuffer, batch, kept, kills, signal, promised,
                   disk, saver, failed, unread>>

DiskNext ==
    \/ \E c \in Cells : OffDisk(Command(c))
    \/ OffDisk(WriteWALEntry)
    \/ \E f \in Flushers :
          \/ OffDisk(TakeBuffer(f))
          \/ OpenLog(f) \/ AppendRecord(f) \/ SyncLog(f)
          \/ OpenFails(f) \/ AppendFails(f) \/ SyncFails(f)
    \/ \E s \in Savers :
          \/ CaptureForDisk(s) \/ CreateTmp(s) \/ WriteHead(s) \/ WriteTail(s)
          \/ RenameTmp(s) \/ RenameFails(s) \/ SaveFails(s) \/ TruncateWAL(s)
    \/ OffDisk(Signal) \/ OffDisk(SignalFlushed)
    \/ PowerLoss \/ DiskBoot

DiskSpec == DiskInit /\ [][DiskNext]_diskVars

-----------------------------------------------------------------------------
(* Properties. *)

\* What flushWAL has reported as stored is what a boot would rebuild.
KeptIsRecoverable == Covers(RecoveredFromDisk, kept)

\* config.go:12: "walFlushInterval bounds how much play a hard kill can lose":
\* what a flush has stored is never lost.  The code does not keep to it where
\* a record is torn or a snapshot is saved periodically.
FlushBoundsLoss == KeptIsRecoverable

\* The same where neither periodic snapshots nor a stop remove the log while it
\* is written to, and no entry was stored behind a torn record: through power
\* losses in the middle of an append, between the write and the sync of a
\* flush and in the first snapshot, and through flushes that fail with any
\* part of their batch in the log and write all of it again.
PowerLossTakesNothingKept == given.may = {} /\ ~ unread => KeptIsRecoverable

\* A periodic snapshot and the snapshot of a stop may be written at once.
SaversRace == {"periodic", "stop"} \subseteq given.may

\* persistence.go:960, of a stop: "WAL flush first -- it alone guarantees no data
\* loss; the snapshot just makes the next boot faster".  The code does not keep
\* to it where a periodic save runs beside the one of the stop.
StopLosesNothing == phase = "exited" => promised.board \subseteq RecoveredFromDisk.board

\* The file called snapshot.gob.gz is whole at every moment: a save that
\* fails or dies half way leaves the previous one in place.
SnapshotReadable ==
    ~ SaversRace /\ snapshotFile # NoSnapshot => Readable(snapshotFile)
=============================================================================

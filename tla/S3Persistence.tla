--------------------------- MODULE S3Persistence ----------------------------
(***************************************************************************)
(* Persistence in S3 (backend/persistence.go): every flush is one object   *)
(* whose key is its range of sequence numbers, a snapshot is one object    *)
(* that replaces the last, and a snapshot deletes the segments that were   *)
(* listed before its state was captured.                                   *)
(*                                                                         *)
(* S3 itself is external: an upload is atomic, may fail, and may fail      *)
(* towards the client after it was stored; a read at boot may fail.        *)
(***************************************************************************)
EXTENDS Journal

VARIABLES
    segments,   \* segments[<<first, last>>]: the entries of one object
    snapshot,   \* the snapshot object
    saving,     \* saving[s]: where saveSnapshotToS3 of s is
    failures    \* history: failed uploads so far

vars == <<journal, segments, snapshot, saving, failures>>

Idle == [at |-> "idle"]

\* Keys sort like their sequence numbers, which are padded with zeros.
KeyOrder(k, l) == k[1] < l[1] \/ (k[1] = l[1] /\ k[2] < l[2])
Nth(keys, i) == CHOOSE k \in keys : Cardinality({l \in keys : KeyOrder(l, k)}) = i - 1
Logged(keys) == FlattenSeq([i \in 1 .. Cardinality(keys) |-> segments[Nth(keys, i)]])

SnapshotWorld == IF snapshot = NoSnapshot THEN EmptyWorld ELSE snapshot

\* What a boot rebuilds from the segments it can read.
Rebuilt(keys) == Replay(SnapshotWorld, Logged(keys))
Recovered == Rebuilt(DOMAIN segments)

Init ==
    /\ JournalInit
    /\ segments = <<>>
    /\ snapshot = NoSnapshot
    /\ saving = [s \in Savers |-> Idle]
    /\ failures = 0

InMemory(A) == A /\ UNCHANGED <<segments, snapshot, saving, failures>>

-----------------------------------------------------------------------------
(* flushWAL *)

SegmentKey(f) == <<Head(batch[f]).seq, Last(batch[f]).seq>>
Upload(f) == segments' = [k \in DOMAIN segments \cup {SegmentKey(f)} |->
                            IF k = SegmentKey(f) THEN batch[f] ELSE segments[k]]

PutSegment(f) ==
    /\ batch[f] # <<>>
    /\ Upload(f)
    /\ Flushed(f)
    /\ UNCHANGED <<snapshot, saving, failures>>

\* The upload fails; the object may be there all the same.
PutSegmentFails(f) ==
    /\ batch[f] # <<>> /\ failures < given.failures
    /\ Upload(f) \/ UNCHANGED segments
    /\ Requeue(f)
    /\ failures' = failures + 1
    /\ UNCHANGED <<snapshot, saving>>

-----------------------------------------------------------------------------
(* saveSnapshotToS3 *)

MaySave(s) ==
    CASE s = "loop"   -> phase = "up" /\ "periodic" \in given.may
      [] s = "boot"   -> phase = "booting"
      [] s = "signal" -> signal = "save"

\* List the segments; a failed listing deletes nothing this time.
ListSegments(s) ==
    /\ MaySave(s) /\ saving[s] = Idle
    /\ \E listed \in {DOMAIN segments, {}} :
          saving' = [saving EXCEPT ![s] = [at |-> "listed", listed |-> listed]]
    /\ UNCHANGED <<journal, segments, snapshot, failures>>

\* captureSnapshotData takes stateMu, so no command is half written.
Capture(s) ==
    /\ saving[s].at = "listed" /\ writing = <<>>
    /\ saving' = [saving EXCEPT ![s] = [at |-> "captured", listed |-> @.listed, data |-> world]]
    /\ UNCHANGED <<journal, segments, snapshot, failures>>

\* Variant: state first, then the listing.
VariantDeletable(s) == DOMAIN segments
Deletable(s) == saving[s].listed

PutSnapshot(s) ==
    /\ saving[s].at = "captured"
    /\ snapshot' = saving[s].data
    /\ saving' = [saving EXCEPT ![s] = [at |-> "stored", listed |-> Deletable(s)]]
    /\ UNCHANGED <<journal, segments, failures>>

\* After a save the server is up; the signal goroutine ends the process.
SaveReturns(s) ==
    /\ CASE s = "loop"   -> UNCHANGED journal
         [] s = "boot"   -> phase' = "up"
                            /\ UNCHANGED <<given, volatile, kept, kills, signal, promised>>
         [] s = "signal" -> Exit
    /\ saving' = IF s = "signal" THEN [t \in Savers |-> Idle] ELSE [saving EXCEPT ![s] = Idle]

PutSnapshotFails(s) ==
    /\ saving[s].at = "captured" /\ failures < given.failures
    /\ snapshot' \in {snapshot, saving[s].data}
    /\ failures' = failures + 1
    /\ SaveReturns(s)
    /\ UNCHANGED segments

\* The listed segments are deleted in batches, in the order of their keys: an
\* error leaves the later ones behind.  When S3 may also fail for single keys
\* of a batch (its answer lists them, and is not read), any of them may stay.
DeleteSegments(s) ==
    /\ saving[s].at = "stored"
    /\ \E deleted \in SUBSET saving[s].listed :
          /\ "skip" \in given.may \/
                \A k \in deleted, l \in saving[s].listed \ deleted : KeyOrder(k, l)
          /\ segments' = [k \in DOMAIN segments \ deleted |-> segments[k]]
    /\ SaveReturns(s)
    /\ UNCHANGED <<snapshot, failures>>

-----------------------------------------------------------------------------
(* initPersistence *)

Die == Kill /\ saving' = [s \in Savers |-> Idle] /\ UNCHANGED <<segments, snapshot, failures>>

\* Load the snapshot, replay the log on top of it and start the loops.  With
\* no snapshot, one is saved before the server comes up.
Start(keys, whole) ==
    /\ phase = "down"
    /\ world' = Rebuilt(keys)
    /\ walSeq' = SeqAfter(Logged(keys))
    /\ phase' = IF snapshot = NoSnapshot /\ whole THEN "booting" ELSE "up"
    /\ UNCHANGED <<given, writing, walBuffer, batch, kept, kills, signal, promised,
                   segments, snapshot, saving, failures>>

Boot == Start(DOMAIN segments, TRUE)

\* A failed read of the log stops the replay there; the error is logged and
\* the server starts with what it has.
BootWithReadError ==
    /\ "misread" \in given.may
    /\ \E keys \in SUBSET DOMAIN segments :
          /\ \A k \in keys, l \in DOMAIN segments \ keys : KeyOrder(k, l)
          /\ keys # DOMAIN segments
          /\ Start(keys, FALSE)

Next ==
    \/ \E c \in Cells : InMemory(Command(c))
    \/ InMemory(WriteWALEntry)
    \/ \E f \in Flushers : InMemory(TakeBuffer(f)) \/ PutSegment(f) \/ PutSegmentFails(f)
    \/ \E s \in Savers :
          \/ ListSegments(s) \/ Capture(s) \/ PutSnapshot(s) \/ PutSnapshotFails(s)
          \/ DeleteSegments(s)
    \/ InMemory(Signal) \/ InMemory(SignalFlushed)
    \/ Die \/ Boot \/ BootWithReadError

Spec == Init /\ [][Next]_vars

\* The loops run for ever, and S3 does not fail for ever.
Fairness ==
    /\ WF_vars(InMemory(WriteWALEntry))
    /\ \A f \in Flushers : WF_vars(InMemory(TakeBuffer(f))) /\ SF_vars(PutSegment(f))
LiveSpec == Spec /\ Fairness

-----------------------------------------------------------------------------
(* Properties. *)

\* Kills and uploads that fail, but no stop by signal, and reads and deletes
\* do what they are asked.
OrdinaryFaults == given.may \subseteq {"periodic"}

\* The world as the outside sees it: before the server is up, what the next
\* boot will rebuild.  Beyond the ordinary faults nothing is promised, and
\* the store is left empty.
Seen == CASE ~ OrdinaryFaults -> EmptyWorld
          [] OrdinaryFaults /\ phase = "up" -> world
          [] OrdinaryFaults /\ phase # "up" -> Recovered
Secured == IF OrdinaryFaults THEN kept ELSE EmptyWorld

Store == INSTANCE DurableStore WITH world <- Seen, kept <- Secured

\* Persistence in S3 keeps the promise of DurableStore.
ImplementsStore == Store!Spec

\* Every cell played reaches storage in the end, from where a boot rebuilds
\* it, unless the process goes down first: a failed upload is retried.
PlayIsKept ==
    \A c \in Cells :
        c \in world.board /\ OrdinaryFaults ~> (c \in Recovered.board \/ phase # "up")

\* When no periodic snapshot is under way and nothing fails, a stop by signal
\* loses no cell that was on the board when it came, even though the periodic
\* flush may be in the middle of storing some of them.
GracefulStopKeepsBoard ==
    phase = "exited" /\ given.may = {"stop"} /\ failures = 0
        => promised.board \subseteq Recovered.board

\* persistence.go:734: "Anything listed here is fully covered by the capture."
ListedIsCovered ==
    \A s \in Savers : saving[s].at = "captured" =>
        Replay(EmptyWorld, Logged(saving[s].listed \cap DOMAIN segments)).board
            \subseteq saving[s].data.board
=============================================================================

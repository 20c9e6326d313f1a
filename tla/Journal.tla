------------------------------ MODULE Journal -------------------------------
(***************************************************************************)
(* The memory side of persistence (backend/persistence.go): the play that  *)
(* changes the world, the write-ahead entries it appends, and the buffer   *)
(* they wait in.  DiskPersistence and S3Persistence add what a flush and a *)
(* snapshot do with the two kinds of storage.                              *)
(*                                                                         *)
(* A command is abstracted to what persistence tells apart.  Some entries  *)
(* grow the world and may be replayed any number of times in any order     *)
(* (reveal, flag): here a set of cells.  Others carry a whole value and    *)
(* the last one replayed wins (score_update, stats_update, player): here a *)
(* score, one point per cell.  A command writes both kinds, growing first. *)
(***************************************************************************)
EXTENDS Integers, FiniteSets, Sequences, SequencesExt

CONSTANTS
    Cells,          \* the cells that can be revealed
    Circumstances,  \* what a behaviour may have to live with
    NoSnapshot      \* no snapshot has been written yet

\* The circumstances of one behaviour: whether snapshots are saved
\* periodically, whether a signal may stop the server, whether storage may
\* fail to read the log at boot or skip some of the files it is told to
\* delete; and how many cells are played, kills happen and writes fail.
ASSUME JournalAssumption ==
    /\ IsFiniteSet(Cells)
    /\ Circumstances \subseteq
          [may : SUBSET {"periodic", "stop", "misread", "skip"},
           plays : Nat, kills : Nat, failures : Nat]

Flushers == {"ticker", "signal"}        \* goroutines that call flushWAL
Savers == {"loop", "boot", "signal"}    \* goroutines that save snapshots

VARIABLES
    given,      \* the circumstances
    phase,      \* down, booting (initPersistence), up, exited (os.Exit)
    world,      \* the world in memory
    writing,    \* entries the command that holds stateMu has still to append
    walSeq,
    walBuffer,
    batch,      \* batch[f]: the entries flushWAL of f has taken
    kept,       \* history: what flushes that returned no error have stored
    kills,      \* history: kills so far
    signal,     \* the goroutine that handles SIGINT: none, flush, save
    promised    \* history: the world when the signal came

volatile == <<world, writing, walSeq, walBuffer, batch>>
journal == <<given, phase, volatile, kept, kills, signal, promised>>

EmptyWorld == [board |-> {}, score |-> 0]
Worlds == [board : SUBSET Cells, score : Nat]
ASSUME SnapshotAssumption == NoSnapshot \notin Worlds

\* w holds everything that v holds.
Covers(w, v) == v.board \subseteq w.board /\ v.score <= w.score

-----------------------------------------------------------------------------
(* Replay: applyWALEntry, replayReveal, replayScoreUpdate. *)

ApplyWALEntry(w, e) ==
    IF "reveal" \in DOMAIN e THEN [w EXCEPT !.board = @ \cup {e.reveal}]
                             ELSE [w EXCEPT !.score = e.score]

Replay(w, entries) == FoldLeft(ApplyWALEntry, w, entries)

\* applyWALEntry leaves walSeq at the highest sequence it has seen; it starts
\* from zero in every process, snapshots do not record it.
SeqAfter(entries) ==
    FoldLeft(LAMBDA n, e : IF e.seq > n THEN e.seq ELSE n, 0, entries)

-----------------------------------------------------------------------------
JournalInit ==
    /\ given \in Circumstances
    /\ phase = "down"
    /\ world = EmptyWorld
    /\ writing = <<>>
    /\ walSeq = 0
    /\ walBuffer = <<>>
    /\ batch = [f \in Flushers |-> <<>>]
    /\ kept = EmptyWorld
    /\ kills = 0
    /\ signal = "none"
    /\ promised = EmptyWorld

\* handleReveal logs reveals and flags first, then the score.
Entries(c, score) == <<[reveal |-> c], [score |-> score]>>

\* A command changes the world; it keeps stateMu until its entries are
\* written, but the buffer has a lock of its own (walMutex).
Command(c) ==
    /\ phase = "up" /\ writing = <<>>
    /\ c \notin world.board /\ Cardinality(world.board) < given.plays
    /\ world' = [board |-> world.board \cup {c}, score |-> world.score + 1]
    /\ writing' = Entries(c, world.score + 1)
    /\ UNCHANGED <<given, phase, walSeq, walBuffer, batch, kept, kills, signal, promised>>

WriteWALEntry ==
    /\ phase = "up" /\ writing # <<>>
    /\ walSeq' = walSeq + 1
    /\ LET e == Head(writing)
           logged == IF "reveal" \in DOMAIN e THEN [seq |-> walSeq + 1, reveal |-> e.reveal]
                                              ELSE [seq |-> walSeq + 1, score |-> e.score]
       IN  walBuffer' = Append(walBuffer, logged)
    /\ writing' = Tail(writing)
    /\ UNCHANGED <<given, phase, world, batch, kept, kills, signal, promised>>

\* flushWAL takes the whole buffer.
TakeBuffer(f) ==
    /\ batch[f] = <<>> /\ walBuffer # <<>>
    /\ f = "ticker" => phase = "up"
    /\ f = "signal" => signal = "flush"
    /\ batch' = [batch EXCEPT ![f] = walBuffer]
    /\ walBuffer' = <<>>
    /\ UNCHANGED <<given, phase, world, writing, walSeq, kept, kills, signal, promised>>

\* Variant: the entries of a failed flush are dropped.
VariantRequeue(f) ==
    /\ batch' = [batch EXCEPT ![f] = <<>>]
    /\ UNCHANGED <<given, phase, world, writing, walSeq, walBuffer, kept, kills, signal, promised>>

\* requeue: a failed flush puts its entries back at the head of the buffer.
Requeue(f) ==
    /\ walBuffer' = batch[f] \o walBuffer
    /\ batch' = [batch EXCEPT ![f] = <<>>]
    /\ UNCHANGED <<given, phase, world, writing, walSeq, kept, kills, signal, promised>>

\* The entries of f are stored and flushWAL returns nil.
Flushed(f) ==
    /\ batch' = [batch EXCEPT ![f] = <<>>]
    /\ LET stored == Replay(EmptyWorld, batch[f])
       IN  kept' = [board |-> kept.board \cup stored.board,
                    score |-> IF stored.score > kept.score THEN stored.score ELSE kept.score]
    /\ UNCHANGED <<given, phase, world, writing, walSeq, walBuffer, kills, signal, promised>>

\* The process dies: everything in memory is gone.
LoseMemory ==
    /\ world' = EmptyWorld
    /\ writing' = <<>>
    /\ walSeq' = 0
    /\ walBuffer' = <<>>
    /\ batch' = [f \in Flushers |-> <<>>]
    /\ UNCHANGED <<given, kept, promised>>

\* A hard kill, at any moment after the start.
Kill ==
    /\ phase \in {"booting", "up"} /\ kills < given.kills
    /\ phase' = "down"
    /\ kills' = kills + 1
    /\ signal' = "none"
    /\ LoseMemory

\* SIGINT or SIGTERM: persistOnShutdown flushes, saves a snapshot and exits.
\* The loops and the players go on meanwhile.
Signal ==
    /\ phase = "up" /\ signal = "none" /\ "stop" \in given.may
    /\ signal' = "flush"
    /\ promised' = world
    /\ UNCHANGED <<given, phase, volatile, kept, kills>>

\* Variant: the flush is trusted and no snapshot is saved.
VariantSignalFlushed ==
    /\ signal = "flush" /\ batch["signal"] = <<>>
    /\ phase' = "exited" /\ signal' = "none"
    /\ LoseMemory
    /\ UNCHANGED kills

\* Its flush has returned, with or without an error, or had nothing to do.
SignalFlushed ==
    /\ signal = "flush" /\ batch["signal"] = <<>>
    /\ signal' = "save"
    /\ UNCHANGED <<given, phase, volatile, kept, kills, promised>>

Exit ==
    /\ signal = "save"
    /\ phase' = "exited" /\ signal' = "none"
    /\ LoseMemory
    /\ UNCHANGED kills
=============================================================================

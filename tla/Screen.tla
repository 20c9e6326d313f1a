------------------------------- MODULE Screen -------------------------------
(***************************************************************************)
(* From the messages of the server to the pixels of the board              *)
(* (frontend/src/useGameState.js, App.jsx and CanvasRenderer.js).          *)
(*                                                                         *)
(* The server sends which cells are revealed, never their numbers: those   *)
(* follow from the seeds of the chunk and, at its edges, of the chunks     *)
(* around it.  A cell whose seeds are not all known is shown blank and     *)
(* remembered until they are.  Zoomed out, a chunk is drawn from a picture *)
(* of it that is kept until its version changes, a few milliseconds' worth *)
(* of new ones per frame; close up, it is drawn from the cells themselves. *)
(*                                                                         *)
(* One row of chunks stands for the plane.  The server is external but for *)
(* what it answers; a reveal and its broadcast are one step here, see      *)
(* ClientBoard for their orders.  Flags, mines and what a chord opens      *)
(* change a chunk in the same ways and are left out.                       *)
(***************************************************************************)
EXTENDS Integers, Sequences, FiniteSets, SequencesExt

CONSTANTS
    Chunk,         \* chunks in a row: 1, 2, ...
    Cell, ChunkOf,
    Needs,         \* the chunks whose mines the number of a cell counts
    Opens,         \* what a reveal of a cell opens
    Rects,         \* what the server may be asked to subscribe the client to
    Views,         \* what the camera may show: chunks, and whether close up
    RasterCap,     \* pictures kept in any case (RASTER_CACHE_CAP)
    Slack,         \* and how many more than a frame needs
    Circumstances  \* bounds of one behaviour

\* What the bounds are on: reveals by others, clicks, subscriptions, moves of
\* the camera, evictions, lost connections, seed requests without an answer.
ASSUME ScreenAssumption ==
    /\ IsFiniteSet(Chunk) /\ Chunk = 1 .. Cardinality(Chunk) /\ ChunkOf \in [Cell -> Chunk]
    /\ \A c \in Cell : ChunkOf[c] \in Needs[c] /\ Needs[c] \subseteq ChunkOf[c] - 1 .. ChunkOf[c] + 1
    /\ \A c \in Cell : c \in Opens[c] /\ Opens[c] \subseteq Cell
    /\ Rects \subseteq SUBSET Chunk
    /\ Views \subseteq [chunks : SUBSET Chunk, close : BOOLEAN]
    /\ RasterCap \in Nat \ {0} /\ Slack \in Nat
    /\ Circumstances \subseteq [others : Nat, clicks : Nat, syncs : Nat, moves : Nat,
                                evicts : Nat, breaks : Nat, refusals : Nat]

VARIABLES
    given,      \* what may still happen in this behaviour
    board,      \* the server's revealed cells
    subs,       \* the chunks it has subscribed the client to
    connected,
    up, down,   \* messages under way
    look,       \* revealedCells: each cell "hidden", "blank" or with its "number"
    guess,      \* optimisticActions: requests without an answer, and the cell each revealed
    pending,    \* pendingAdjacency
    seeds,      \* seedCache: the chunks in it
    wanted,     \* pendingSeedRequests
    flush,      \* whether its timer is set
    view,       \* what the camera shows
    ticked,     \* tick or the view has changed since effects last ran
    raf,        \* renderRequestId is set
    touched,    \* the chunks with a version (chunkVersion)
    rasters,    \* chunkCaches, least recently used first
    canvas,     \* what is on the screen
    cleared,    \* history: chunks emptied since their version last changed
    refused,    \* history: chunks in a request that got no answer
    left        \* history: guesses forgotten and neither undone nor confirmed

messages == <<up, down>>
server == <<board, subs>>
cells == <<look, guess, pending, left>>
seeding == <<seeds, wanted, flush>>
drawing == <<view, raf, canvas>>
versions == <<touched, rasters, cleared>>
vars == <<given, server, connected, messages, cells, seeding, drawing, ticked, versions, refused>>

CellsOf(ch) == {c \in Cell : ChunkOf[c] = ch}
Around(S) == {d \in Chunk : \E ch \in S : d - ch \in -1 .. 1}

\* What a chunk looks like.
Picture(ch) == [c \in CellsOf(ch) |-> look[c]]
Background(ch) == [c \in CellsOf(ch) |-> "hidden"]

Init ==
    /\ given \in Circumstances
    /\ board = {} /\ subs = {} /\ connected = TRUE
    /\ up = <<>> /\ down = <<>>
    /\ look = [c \in Cell |-> "hidden"] /\ guess = {} /\ pending = {}
    /\ seeds = {} /\ wanted = {} /\ flush = FALSE
    /\ view \in Views /\ ticked = TRUE /\ raf = FALSE
    /\ touched = {} /\ rasters = <<>> /\ canvas = [ch \in {} |-> Background(ch)]
    /\ cleared = {} /\ refused = {} /\ left = {}

\* given with one less of what.
Spend(what) == given[what] > 0 /\ given' = [given EXCEPT ![what] = @ - 1]

-----------------------------------------------------------------------------
(* Numbers. *)

\* countAdjacentMines: -1, here blank, while a seed is missing.
Adjacent(c, known) == IF Needs[c] \subseteq known THEN "number" ELSE "blank"

\* "Never downgrade an already-known number to incomplete".
Kept(c, known) == IF look[c] = "number" THEN "number" ELSE Adjacent(c, known)

\* recomputeAdjacencyAround: the cells that can be completed when the seeds of
\* the chunks S have come.
\* Variant: only those of the chunks themselves.
VariantComplete(waiting, S, known) ==
    {c \in waiting : ChunkOf[c] \in S /\ Needs[c] \subseteq known}
Complete(waiting, S, known) ==
    {c \in waiting : ChunkOf[c] \in Around(S) /\ Needs[c] \subseteq known}

\* bumpChunkVersion: kept pictures of the chunks S are out of date.
Bump(S) ==
    /\ touched' = touched \cup S
    /\ rasters' = [i \in DOMAIN rasters |->
                     [rasters[i] EXCEPT !.fresh = @ /\ rasters[i].chunk \notin S]]
    /\ cleared' = cleared \ S

-----------------------------------------------------------------------------
(* The client receives. *)

\* requestAdjacentSeeds: the seeds around, which a timer asks for.
Wanted(chunks) == wanted \cup (Around(chunks) \ seeds)

\* applyChunkSync for each chunk of a region.
ReceiveSync(m) ==
    LET known == seeds \cup m.chunks
        blanks == {c \in m.opens : Adjacent(c, known) = "blank"}
        now == Complete(pending \cup blanks, m.chunks, known)
    IN  /\ seeds' = known
        /\ look' = [c \in Cell |-> IF c \in m.opens THEN Adjacent(c, known)
                                   ELSE IF c \in now /\ look[c] # "hidden" THEN "number"
                                   ELSE look[c]]
        /\ pending' = (pending \cup blanks) \ now
        /\ left' = left \ m.opens
        /\ Bump(m.chunks \cup {ChunkOf[c] : c \in {d \in now : look[d] # "hidden"}})
        /\ wanted' = Wanted(m.chunks)
        /\ flush' = TRUE
        /\ ticked' = TRUE
        /\ UNCHANGED <<guess, up>>

\* registerPendingAdjacency: cells that an answer or a broadcast shows blank.
Remembered(opens) == pending \cup {c \in opens : look'[c] = "blank"}

\* The cells that the clicks G revealed.
Guessed(G) == {g.cell : g \in G}

\* chunkUpdateBroadcast: the seed of a chunk that is not known is asked for,
\* and what clicks had revealed in the chunk is forgotten.
Forgotten(ch) == {g \in guess : ChunkOf[g.cell] = ch}

ReceiveCast(m) ==
    /\ up' = IF m.chunk \in seeds THEN up
             ELSE Append(up, [is |-> "seeds", chunks |-> {m.chunk}])
    /\ guess' = guess \ Forgotten(m.chunk)
    /\ left' = (left \cup Guessed(Forgotten(m.chunk))) \ m.opens
    /\ look' = [c \in Cell |-> IF c \in m.opens THEN Kept(c, seeds) ELSE look[c]]
    /\ pending' = Remembered(m.opens)
    /\ Bump({m.chunk})
    /\ ticked' = TRUE
    /\ UNCHANGED seeding

\* revealAck: what that click revealed is hidden, then what the server opened
\* in the chunk of the click is shown; nothing if the click has been forgotten.
Asked(request) == {g \in guess : g.request = request}
Reverted(c, request) == IF c \in Guessed(Asked(request)) THEN "hidden" ELSE look[c]

ReceiveAck(m) ==
    LET mine == Asked(m.request)
    IN  IF mine = {} THEN UNCHANGED <<cells, versions, ticked, up, seeding>>
        ELSE /\ look' = [c \in Cell |->
                    IF c \in m.opens /\ Reverted(c, m.request) # "number" THEN Adjacent(c, seeds)
                    ELSE Reverted(c, m.request)]
             /\ pending' = Remembered(m.opens)
             /\ guess' = guess \ mine
             /\ left' = left \ m.opens
             /\ Bump({ChunkOf[c] : c \in Guessed(mine) \cup m.opens})
             /\ ticked' = TRUE
             /\ UNCHANGED <<up, seeding>>

\* seedResponse.  A cell that was hidden again in the meantime is forgotten.
\* Variant: the versions of the chunks stay as they are.
VariantRedrawn(now) == {}
Redrawn(now) == {ChunkOf[c] : c \in now}

ReceiveSeeds(m) ==
    LET known == seeds \cup m.chunks
        done == Complete(pending, m.chunks, known)
        now == {c \in done : look[c] # "hidden"}
    IN  /\ seeds' = known
        /\ look' = [c \in Cell |-> IF c \in now THEN "number" ELSE look[c]]
        /\ pending' = pending \ done
        /\ Bump(Redrawn(now))
        /\ ticked' = (ticked \/ now # {})
        /\ UNCHANGED <<guess, left, up, wanted, flush>>

Receive ==
    /\ connected /\ down # <<>>
    /\ down' = Tail(down)
    /\ UNCHANGED <<given, server, connected, drawing, refused>>
    /\ LET m == Head(down)
       IN  \/ m.is = "sync" /\ ReceiveSync(m)
           \/ m.is = "cast" /\ ReceiveCast(m)
           \/ m.is = "ack" /\ ReceiveAck(m)
           \/ m.is = "seeds" /\ ReceiveSeeds(m)

-----------------------------------------------------------------------------
(* The client acts. *)

\* handleCellClick: a revealed cell may be blank, and is not remembered.  Of
\* all requests only this one has as many clicks still to come.
Click(c) ==
    /\ connected /\ Spend("clicks")
    /\ look[c] = "hidden" /\ ChunkOf[c] \in seeds
    /\ look' = [look EXCEPT ![c] = Adjacent(c, seeds)]
    /\ guess' = guess \cup {[request |-> given.clicks, cell |-> c]}
    /\ up' = Append(up, [is |-> "click", cell |-> c, request |-> given.clicks])
    /\ Bump({ChunkOf[c]})
    /\ ticked' = TRUE
    /\ UNCHANGED <<server, connected, down, pending, left, seeding, drawing, refused>>

\* The timer of requestAdjacentSeeds: one request, for what is still unknown;
\* none, ever, if the connection is down just now.
Flush ==
    /\ flush /\ flush' = FALSE
    /\ wanted' = {}
    /\ up' = IF connected /\ wanted \ seeds # {}
             THEN Append(up, [is |-> "seeds", chunks |-> wanted \ seeds]) ELSE up
    /\ UNCHANGED <<given, server, connected, down, cells, seeds, drawing, ticked, versions, refused>>

\* The camera pans or zooms.
Move ==
    /\ Spend("moves")
    /\ view' \in Views \ {view}
    /\ ticked' = TRUE
    /\ UNCHANGED <<server, connected, messages, cells, seeding, raf, canvas, versions, refused>>

\* Cells and seeds of chunks far away are dropped; far is farther than anything
\* subscribed and what is next to it (WindowNear of ViewingProofs).
Evict ==
    /\ Spend("evicts")
    /\ \E far \in SUBSET (Chunk \ (Around(subs) \cup view.chunks)) \ {{}} :
          /\ look' = [c \in Cell |-> IF ChunkOf[c] \in far THEN "hidden" ELSE look[c]]
          /\ seeds' = seeds \ far
          /\ cleared' = cleared \cup (far \cap touched)
    /\ UNCHANGED <<server, connected, messages, guess, pending, left, wanted, flush, drawing,
                   ticked, touched, rasters, refused>>

\* onclose empties the board; no version changes and no frame is asked for.
Break ==
    /\ connected /\ Spend("breaks")
    /\ connected' = FALSE
    /\ subs' = {} /\ up' = <<>> /\ down' = <<>>
    /\ look' = [c \in Cell |-> "hidden"] /\ guess' = {} /\ pending' = {} /\ left' = {}
    /\ cleared' = touched
    /\ UNCHANGED <<board, seeding, drawing, ticked, touched, rasters, refused>>

Return ==
    /\ ~ connected /\ connected' = TRUE
    /\ UNCHANGED <<given, server, messages, cells, seeding, drawing, ticked, versions, refused>>

-----------------------------------------------------------------------------
(* The server. *)

Subscribe ==
    /\ connected /\ Spend("syncs")
    /\ \E rect \in Rects :
          /\ subs' = rect
          /\ down' = IF rect \subseteq subs THEN down
                     ELSE Append(down, [is |-> "sync", chunks |-> rect \ subs,
                             opens |-> {c \in board : ChunkOf[c] \in rect \ subs}])
    /\ UNCHANGED <<board, connected, up, cells, seeding, drawing, ticked, versions, refused>>

CastsOf(opens, chunks) ==
    {[is |-> "cast", chunk |-> ch, opens |-> opens \cap CellsOf(ch)] :
        ch \in {ChunkOf[c] : c \in opens} \cap chunks}

\* Somebody else reveals cells.
Other ==
    /\ connected /\ Spend("others")
    /\ \E c \in Cell \ board :
          /\ board' = board \cup Opens[c]
          /\ \E casts \in SetToSeqs(CastsOf(Opens[c] \ board, subs)) : down' = down \o casts
    /\ UNCHANGED <<subs, connected, up, cells, seeding, drawing, ticked, versions, refused>>

\* The player's click: the answer and the broadcasts, in any order.
Answer(c, request) ==
    \/ /\ c \notin board
       /\ board' = board \cup Opens[c]
       /\ LET opens == Opens[c] \ board
              ack == [is |-> "ack", request |-> request, opens |-> opens \cap CellsOf(ChunkOf[c])]
          IN  \E answers \in SetToSeqs(CastsOf(opens, Chunk) \cup {ack}) : down' = down \o answers
    \/ down' = Append(down, [is |-> "ack", request |-> request, opens |-> {}]) /\ UNCHANGED board

\* Seed requests have a rate limit, over which they are dropped without a word;
\* so is an answer that finds the client's queue full.
Serve ==
    /\ up # <<>> /\ up' = Tail(up)
    /\ LET m == Head(up)
       IN  \/ m.is = "click" /\ Answer(m.cell, m.request) /\ UNCHANGED <<given, refused>>
           \/ /\ m.is = "seeds"
              /\ down' = Append(down, m)
              /\ UNCHANGED <<given, board, refused>>
           \/ /\ m.is = "seeds" /\ Spend("refusals")
              /\ refused' = refused \cup m.chunks
              /\ UNCHANGED <<down, board>>
    /\ UNCHANGED <<subs, connected, cells, seeding, drawing, ticked, versions>>

-----------------------------------------------------------------------------
(* Frames. *)

\* The effect that follows a render of App asks for a frame.
Effect ==
    /\ ticked /\ ticked' = FALSE
    /\ raf' = TRUE
    /\ UNCHANGED <<given, server, connected, messages, cells, seeding, view, canvas, versions,
                   refused>>

\* A chunk that has never been touched is left to the background.
Needed == view.chunks \cap touched

\* "If eviction ever removes a chunk still on screen, visible chunks re-raster
\* and re-evict each other every frame."
CacheCap(needed) == IF Cardinality(needed) + Slack > RasterCap
                    THEN Cardinality(needed) + Slack ELSE RasterCap

Cached(kept, ch) == {i \in DOMAIN kept : kept[i].chunk = ch}

\* cache.set leaves an entry that is there in its place and makes a new one
\* the last; then the first ones go.
Store(kept, entry) ==
    LET all == IF Cached(kept, entry.chunk) = {} THEN Append(kept, entry)
               ELSE [i \in DOMAIN kept |-> IF kept[i].chunk = entry.chunk THEN entry ELSE kept[i]]
        over == Len(all) - CacheCap(Needed)
    IN  SubSeq(all, IF over > 0 THEN over + 1 ELSE 1, Len(all))

\* One chunk of a frame that has got as far as d: its picture is fresh, or it
\* is taken now, or time is up and it is drawn as it was.
DrawChunk(d, ch) ==
    LET found == Cached(d.kept, ch)
        at == CHOOSE i \in found : TRUE
        entry == IF found = {} THEN [chunk |-> ch, picture |-> Background(ch), fresh |-> FALSE]
                 ELSE d.kept[at]
        taken == [chunk |-> ch, picture |-> Picture(ch), fresh |-> TRUE]
    IN  IF entry.fresh
        THEN {[d EXCEPT !.kept = Append(RemoveAt(@, at), entry),
                        !.drawn[ch] = entry.picture]}
        ELSE {[d EXCEPT !.drawn[ch] = entry.picture, !.again = TRUE]}
             \cup
             (IF d.again THEN {} ELSE
                {[d EXCEPT !.kept = Store(@, taken), !.drawn[ch] = taken.picture, !.some = TRUE]})

\* What a frame may come to, after the chunks up to ch.
DrawnUpTo[ch \in Chunk \cup {0}] ==
    IF ch = 0
    THEN {[kept |-> rasters, drawn |-> [v \in view.chunks |-> Background(v)],
           some |-> FALSE, again |-> FALSE]}
    ELSE IF ch \in Needed THEN UNION {DrawChunk(d, ch) : d \in DrawnUpTo[ch - 1]}
    ELSE DrawnUpTo[ch - 1]

\* Close up, every cell is drawn.
DrawnClose == [ch \in view.chunks |-> Picture(ch)]

\* render.  A frame that comes less than 8.33 ms after the last one only asks
\* for the next: that is this one, later.  One that could not take all the
\* pictures it needs asks for another; it is idle if time was up before the
\* first.
Paint(idle) ==
    /\ raf
    /\ UNCHANGED <<given, server, connected, messages, cells, seeding, view, ticked,
                   touched, cleared, refused>>
    /\ \/ /\ view.close /\ ~ idle
          /\ canvas' = DrawnClose
          /\ raf' = FALSE
          /\ UNCHANGED rasters
       \/ /\ ~ view.close
          /\ \E d \in DrawnUpTo[Cardinality(Chunk)] :
                /\ idle = (d.again /\ ~ d.some)
                /\ canvas' = d.drawn /\ rasters' = d.kept /\ raf' = d.again

Frame == Paint(FALSE)
IdleFrame == Paint(TRUE)

\* What goes on by itself.
Progress == Receive \/ Serve \/ Flush \/ Effect \/ Frame

Next ==
    \/ Progress \/ IdleFrame
    \/ Move \/ Evict \/ Break \/ Return
    \/ \E c \in Cell : Click(c)
    \/ Subscribe \/ Other

\* Messages, answers, timers and frames do not stop while there are any, and
\* not every frame is idle for ever.
Fairness == WF_vars(Progress)

Spec == Init /\ [][Next]_vars /\ Fairness

-----------------------------------------------------------------------------
(* Properties. *)

\* When no frame is asked for, the screen shows the cells as they are: every
\* change has made the pictures it concerns out of date and asked for a frame,
\* and no frame has ended with an old picture.  Except in chunks that were
\* emptied since, of which the old picture stays.
PictureIsCurrent ==
    ~ ticked /\ ~ raf =>
        /\ DOMAIN canvas = view.chunks
        /\ \A ch \in view.chunks \ cleared : canvas[ch] = Picture(ch)

\* A cell that is shown blank is remembered as long as a seed it needs is
\* missing, and no longer: the one that comes last completes it.  Except
\* guesses, which an answer settles or a broadcast makes the client forget.
NoneForgotten ==
    \A c \in Cell : look[c] = "blank" =>
        c \in Guessed(guess) \cup left \/ (c \in pending /\ ~ (Needs[c] \subseteq seeds))

\* "Otherwise they'd render blank forever": in the end every revealed cell of a
\* subscribed chunk on the screen is drawn with its number, whatever order
\* syncs, broadcasts, answers and seeds came in; except where the rate limit
\* refused a seed, and a cell of which a broadcast made the client forget that
\* it only guessed it.
Excused(c) == c \in left \/ (Needs[c] \ seeds) \cap refused # {}

NumbersAppear ==
    <>[](\A c \in Cell : /\ ChunkOf[c] \in subs \cap view.chunks
                         /\ look[c] # "hidden" /\ ~ Excused(c)
                         => ChunkOf[c] \in DOMAIN canvas /\ canvas[ChunkOf[c]][c] = "number")
=============================================================================

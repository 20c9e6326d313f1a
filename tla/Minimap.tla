------------------------------ MODULE Minimap -------------------------------
(***************************************************************************)
(* The streamed minimap (backend/minimap.go, handleMinimapSubscribe in     *)
(* backend/websocket.go, the minimap of frontend/src/useGameState.js).     *)
(*                                                                         *)
(* A client asks for tiles, one per chunk, at some resolution.  The server *)
(* answers with full tiles and then sends what changes: deltas, or a full  *)
(* tile when most of it changed.  Each message has the version of the tile *)
(* on the server; the client lets a message change its copy only if the    *)
(* version allows.  Changes are marked under stateMu; a broadcaster takes  *)
(* the marks under it and sends afterwards; subscribing registers under    *)
(* it, then reads tile by tile, then sends.                                *)
(*                                                                         *)
(* One browser is modelled in detail; Other stands for everybody else.  A  *)
(* tile's picture is the set of its cells that are not unseen: colours are *)
(* a function of the cell, and of the block's cells at a coarse            *)
(* resolution.  The queues to the client are not full here (ClientBoard    *)
(* has what a full one loses), and a request is one batch of registrations *)
(* and one message of tiles.                                               *)
(***************************************************************************)
EXTENDS Integers, Sequences, FiniteSets, FiniteSetsExt

CONSTANTS
    Tile,          \* chunks
    Cell,          \* cells of a chunk
    Blocks,        \* Blocks[r]: the cells that share a pixel at resolution r
    Finest,        \* the resolution the server takes when none was set
    Link,          \* connections of the browser, numbered in order of use
    Player, Other, \* its player's id; the id of somebody else
    Circumstances  \* bounds of one behaviour: steps that change cells, new
                   \* views, joins, lost connections, steps of Other, the
                   \* subscriptions an id may have (maxMinimapSubsPerPlayer),
                   \* the tiles and the resolutions in use

NoId == 0
SubId == Link \cup {Player, Other}
Resolution == DOMAIN Blocks

ASSUME MinimapAssumption ==
    /\ Link \subseteq Nat \ {NoId}
    /\ Player \notin Link /\ Other \notin Link /\ Player # Other /\ NoId \notin SubId
    /\ Finest \in Resolution /\ IsFiniteSet(Tile)
    /\ \A r \in Resolution : UNION Blocks[r] = Cell
    /\ Circumstances \subseteq [changes : Nat, views : Nat, joins : Nat, closes : Nat,
                                others : Nat, cap : Nat,
                                scope : SUBSET Tile, scales : SUBSET Resolution]

VARIABLES
    given,    \* what may still happen in this behaviour
    board,    \* board[t]: cells revealed or flagged
    ids,      \* ids[c]: Player.ID of the connection, or NoId
    subs,     \* minimapSubs
    count,    \* minimapSubCount
    res,      \* minimapPlayerRes, Finest where there is no entry
    tiles,    \* minimapTiles: the tiles some change was marked in
    queued,   \* minimapDirtyTiles
    casts,    \* what the broadcaster has built and not sent
    pump,     \* pump[c]: the subscription the goroutine of c is answering
    up, down, \* up[c]: messages of the client; those on their way to it
    conn,     \* the client's last connection
    connected,\* it is open
    desired,  \* minimapDesiredBySourceRef, all sources together
    active,   \* minimapActiveSubsRef: what the client takes itself to be subscribed to
    resolution, \* currentResolutionRef
    shown,    \* minimapTilesRef: the client's copies
    frames,   \* minimapFullQueueRef: full tiles waiting for an animation frame
    resubscribe, \* the frame that asks for everything again is pending
    kept,     \* history: tiles the last connection shares with another one
              \* of its id: subscribed already when it asked, so that they
              \* are not sent, or sent by both or at the other's resolution
    restarted,\* history: tiles whose versions started over
    overtaken \* history: tiles of which a full picture came after a newer delta

server == <<board, ids, subs, count, res, tiles, queued, casts, pump>>
client == <<conn, connected, desired, active, resolution, shown, frames, resubscribe>>
notes == <<kept, restarted, overtaken>>
minimapVars == <<given, server, up, down, client, notes>>

NoTile == [version |-> 0, dirty |-> {}, there |-> FALSE]
NoCopy == [version |-> 0, cells |-> {}, res |-> 0]
Idle == [busy |-> FALSE, todo |-> {}, batch |-> {}, to |-> NoId, res |-> Finest]

MinimapInit ==
    /\ given \in Circumstances
    /\ board = [t \in Tile |-> {}]
    /\ ids = [c \in Link |-> NoId]
    /\ subs = [t \in Tile |-> {}]
    /\ count = [i \in SubId |-> 0]
    /\ res = [i \in SubId |-> Finest]
    /\ tiles = [t \in Tile |-> NoTile]
    /\ queued = {} /\ casts = {}
    /\ pump = [c \in Link |-> Idle]
    /\ up = [c \in Link |-> <<>>] /\ down = <<>>
    /\ conn = 0 /\ connected = FALSE /\ desired = {} /\ active = {} /\ resolution = Finest
    /\ shown = [t \in Tile |-> NoCopy]
    /\ frames = <<>> /\ resubscribe = FALSE
    /\ kept = {} /\ restarted = {} /\ overtaken = {}

\* given with one less of what.
Spend(what) == given[what] > 0 /\ given' = [given EXCEPT ![what] = @ - 1]

\* sendToPlayer: to the connections of the id, the client's among them or not.
ToPlayer(i, m) ==
    down' = IF connected /\ ids[conn] = i THEN Append(down, m) ELSE down

-----------------------------------------------------------------------------
(* Changes and the broadcaster. *)

\* handleReveal resolves the cells D of a chunk.
Change(t, D) ==
    /\ Spend("changes")
    /\ D # {} /\ D \subseteq Cell \ board[t]
    /\ board' = [board EXCEPT ![t] = @ \cup D]
    /\ IF subs[t] = {} THEN UNCHANGED <<tiles, queued>>
       ELSE /\ tiles' = [tiles EXCEPT ![t].dirty = @ \cup D, ![t].there = TRUE]
            /\ queued' = queued \cup {t}
    /\ UNCHANGED <<ids, subs, count, res, casts, pump, up, down, client, notes>>

\* The message about tile t, version v, at resolution r: the blocks with marks,
\* or everything if they are more than half.
Message(t, v, r) ==
    LET marked == {b \in Blocks[r] : b \cap tiles[t].dirty # {}}
        area == UNION marked
    IN  IF Cardinality(marked) > Cardinality(Blocks[r]) \div 2
        THEN [is |-> "full", tile |-> t, version |-> v, res |-> r, cells |-> board[t]]
        ELSE [is |-> "delta", tile |-> t, version |-> v, res |-> r,
              area |-> area, cells |-> board[t] \cap area]

\* Variant: the version does not count.
VariantNextVersion(v) == IF v = 0 THEN 1 ELSE v
NextVersion(v) == v + 1

\* runMinimapBroadcaster, under the lock: a round.
Broadcast ==
    LET live == {t \in queued : subs[t] # {} /\ tiles[t].dirty # {}}
    IN  /\ queued # {} /\ casts = {}
        /\ queued' = {}
        /\ tiles' = [t \in Tile |->
             IF t \in live THEN [tiles[t] EXCEPT !.version = NextVersion(@), !.dirty = {}]
             ELSE IF t \in queued /\ subs[t] = {} THEN NoTile
             ELSE tiles[t]]
        /\ casts' = UNION {{[to |-> i, msg |-> Message(t, NextVersion(tiles[t].version), res[i])] :
                             i \in subs[t] \ {Other}} : t \in live}
        /\ UNCHANGED <<given, board, ids, subs, count, res, pump, up, down, client, notes>>

\* After it: a message leaves for one of its addressees.
SendCast ==
    \E x \in casts :
        /\ casts' = casts \ {x}
        /\ ToPlayer(x.to, x.msg)
        /\ UNCHANGED <<given, board, ids, subs, count, res, tiles, queued, pump, up, client, notes>>

-----------------------------------------------------------------------------
(* Subscriptions on the server. *)

\* The ids of each tile become s: the tiles nobody is left on are forgotten.
\* Variant: a tile is kept when its last subscriber goes.
VariantLeft(s) == [t \in Tile |-> tiles[t]]
Left(s) == [t \in Tile |-> IF s[t] = {} THEN NoTile ELSE tiles[t]]

KeepOnly(s) ==
    /\ subs' = s
    /\ tiles' = Left(s)
    /\ restarted' = restarted \cup {t \in Tile : s[t] = {} /\ tiles[t].version > 0}

\* Everything kept for id i is dropped.
Without(i) == [t \in Tile |-> subs[t] \ {i}]
Forget(i) ==
    /\ KeepOnly(Without(i))
    /\ count' = [count EXCEPT ![i] = 0]
    /\ res' = [res EXCEPT ![i] = Finest]

\* Variant: those subscribed to already count, too.
VariantAdded(i, new, asked) == Cardinality(asked)
Added(i, new, asked) == Cardinality(new)

\* How many more tiles id i may have.
Room(i) == Max({0, given.cap - count[i]})

\* The goroutine of c takes a message of its connection.
Take(c, what) ==
    /\ ids[c] # NoId /\ ~ pump[c].busy
    /\ up[c] # <<>> /\ Head(up[c]).is = what
    /\ up' = [up EXCEPT ![c] = Tail(@)]

\* The tiles about which another connection of the same id is being answered.
AnsweredElsewhere(c) ==
    UNION {pump[d].todo \cup {f.tile : f \in pump[d].batch} :
             d \in {e \in Link \ {c} : pump[e].to = ids[c]}}

\* handleMinimapSubscribe, first phase: register as many as the cap allows.
Subscribe(c) ==
    /\ Take(c, "subscribe")
    /\ LET m == Head(up[c])
           i == ids[c]
           old == {t \in m.tiles : i \in subs[t]}
       IN  \E new \in kSubset(Min({Room(i), Cardinality(m.tiles \ old)}), m.tiles \ old) :
              /\ subs' = [t \in Tile |-> IF t \in new THEN subs[t] \cup {i} ELSE subs[t]]
              /\ count' = [count EXCEPT ![i] = @ + Added(i, new, new \cup old)]
              /\ res' = [res EXCEPT ![i] = m.res]
              /\ pump' = [pump EXCEPT ![c] = [busy |-> TRUE, todo |-> new, batch |-> {}, to |-> i,
                                              res |-> m.res]]
              /\ kept' = IF ~ connected \/ ids[conn] # i THEN kept
                         ELSE IF c = conn THEN (kept \ new) \cup old \cup (new \cap AnsweredElsewhere(c))
                         ELSE kept \cup m.tiles \cup {t \in Tile : i \in subs[t] /\ res[i] # m.res}
    /\ UNCHANGED <<given, board, ids, tiles, queued, casts, down, client, restarted, overtaken>>

\* Second phase, under a read lock for each tile; an unseen tile is skipped.
ReadTile(c) ==
    \E t \in pump[c].todo :
        /\ pump' = [pump EXCEPT
             ![c].todo = @ \ {t},
             ![c].batch = IF board[t] = {} THEN @
                          ELSE @ \cup {[tile |-> t, version |-> tiles[t].version,
                                        res |-> pump[c].res, cells |-> board[t]]}]
        /\ UNCHANGED <<given, board, ids, subs, count, res, tiles, queued, casts, up, down, client, notes>>

\* The batch is sent, unless it is empty.
SendBatch(c) ==
    /\ pump[c].busy /\ pump[c].todo = {}
    /\ IF pump[c].batch = {} THEN UNCHANGED down
       ELSE ToPlayer(pump[c].to, [is |-> "batch", tiles |-> pump[c].batch])
    /\ pump' = [pump EXCEPT ![c] = Idle]
    /\ UNCHANGED <<given, board, ids, subs, count, res, tiles, queued, casts, up, client, notes>>

Unsubscribe(c) ==
    /\ Take(c, "unsubscribe")
    /\ LET gone == Head(up[c]).tiles
           i == ids[c]
       IN  /\ KeepOnly([t \in Tile |-> IF t \in gone THEN subs[t] \ {i} ELSE subs[t]])
           /\ count' = [count EXCEPT ![i] = @ - Cardinality({t \in gone : i \in subs[t]})]
           /\ queued' = queued \ {t \in gone : subs[t] \subseteq {i}}
    /\ UNCHANGED <<given, board, ids, res, casts, pump, down, client, kept, overtaken>>

\* handleJoin: what was kept under the spectator id is dropped, not moved.
\* A second join is ignored.
Join(c) ==
    /\ Take(c, "join")
    /\ IF ids[c] = Player THEN UNCHANGED <<ids, subs, tiles, count, res, kept, restarted>>
       ELSE /\ ids' = [ids EXCEPT ![c] = Player]
            /\ Forget(ids[c])
            /\ kept' = IF connected /\ c = conn THEN kept \cup {t \in Tile : Player \in subs[t]} ELSE kept
    /\ UNCHANGED <<given, board, queued, casts, pump, down, client, overtaken>>

\* removePlayer, for a connection the client has left; Subscriptions has its
\* two halves apart.
RemovePlayer(c) ==
    /\ ids[c] # NoId /\ ~ (connected /\ c = conn) /\ ~ pump[c].busy
    /\ ids' = [ids EXCEPT ![c] = NoId]
    /\ up' = [up EXCEPT ![c] = <<>>]
    /\ IF \E d \in Link \ {c} : ids[d] = ids[c]
       THEN UNCHANGED <<subs, tiles, count, res, queued, restarted>>
       ELSE /\ Forget(ids[c])
            /\ queued' = queued \ {t \in Tile : subs[t] = {ids[c]}}
    /\ UNCHANGED <<given, board, casts, pump, down, client, kept, overtaken>>

\* Somebody else subscribes to a tile, or leaves it.
OtherSubscribes(t) ==
    /\ Spend("others") /\ Other \notin subs[t]
    /\ subs' = [subs EXCEPT ![t] = @ \cup {Other}]
    /\ count' = [count EXCEPT ![Other] = @ + 1]
    /\ UNCHANGED <<board, ids, res, tiles, queued, casts, pump, up, down, client, notes>>

OtherLeaves(t) ==
    /\ Spend("others") /\ Other \in subs[t]
    /\ KeepOnly([subs EXCEPT ![t] = @ \ {Other}])
    /\ count' = [count EXCEPT ![Other] = @ - 1]
    /\ queued' = IF subs[t] = {Other} THEN queued \ {t} ELSE queued
    /\ UNCHANGED <<board, ids, res, casts, pump, up, down, client, kept, overtaken>>

-----------------------------------------------------------------------------
(* The client. *)

\* applyMinimapFullTile: the picture f replaces the copy unless the copy is newer.
TooOld(f) == shown[f.tile].version > f.version
Meant(f) == f.tile \in active /\ f.res = resolution

\* The next batch of full tiles, in an animation frame (drainMinimapFullQueue).
DrawFrame ==
    /\ frames # <<>>
    /\ frames' = Tail(frames)
    /\ LET fulls == {f \in Head(frames) : Meant(f)}
       IN  /\ shown' = [t \in Tile |->
                LET new == {f \in fulls : f.tile = t /\ ~ TooOld(f)}
                IN  IF new = {} THEN shown[t]
                    ELSE LET f == CHOOSE f \in new : TRUE
                         IN  [version |-> f.version, cells |-> f.cells, res |-> f.res]]
           /\ overtaken' = overtaken \cup {f.tile : f \in {f \in fulls : TooOld(f)}}
    /\ UNCHANGED <<given, server, up, down, conn, connected, desired, active, resolution, resubscribe, kept, restarted>>

\* minimapTileDelta: applied at once.  A tile that has no copy at this
\* resolution starts as unseen.
Delta(m) ==
    LET old == shown[m.tile]
        base == IF old.res = m.res THEN old ELSE [version |-> 0, cells |-> {}, res |-> m.res]
    IN  IF ~ Meant(m) THEN old
        ELSE IF m.version <= base.version THEN base
        ELSE [version |-> m.version, cells |-> (base.cells \ m.area) \cup m.cells, res |-> m.res]

Receive ==
    /\ down # <<>>
    /\ down' = Tail(down)
    /\ LET m == Head(down)
       IN  \/ /\ m.is = "full" /\ frames' = Append(frames, {m}) /\ UNCHANGED shown
           \/ /\ m.is = "batch" /\ frames' = Append(frames, m.tiles) /\ UNCHANGED shown
           \/ /\ m.is = "delta" /\ shown' = [shown EXCEPT ![m.tile] = Delta(m)] /\ UNCHANGED frames
    /\ UNCHANGED <<given, server, up, conn, connected, desired, active, resolution, resubscribe, notes>>

\* Requests for the tiles add at resolution r and the end of those for del.
Requests(add, del, r) ==
    up' = [up EXCEPT ![conn] = @
             \o (IF add = {} THEN <<>> ELSE <<[is |-> "subscribe", tiles |-> add, res |-> r]>>)
             \o (IF del = {} THEN <<>> ELSE <<[is |-> "unsubscribe", tiles |-> del]>>)]

Released(del) == [t \in Tile |-> IF t \in del THEN NoCopy ELSE shown[t]]

\* updateMinimapSubscriptions: the view v at resolution r.  After a change of
\* resolution everything is asked for again.
View(v, r) ==
    /\ Spend("views") /\ connected
    /\ LET add == IF r = resolution THEN v \ active ELSE v
           del == active \ v
       IN  /\ Requests(add, del, r)
           /\ active' = (active \cup add) \ del
           /\ shown' = Released(del)
    /\ desired' = v
    /\ resolution' = r
    /\ UNCHANGED <<server, down, conn, connected, frames, resubscribe, notes>>

\* clearMinimapSubscriptionsFor: a source goes and leaves the view v.
ClearSource(v) ==
    /\ Spend("views") /\ v \subseteq desired /\ v # desired
    /\ desired' = v
    /\ IF ~ connected THEN UNCHANGED <<up, active, shown>>
       ELSE /\ Requests({}, active \ v, resolution)
            /\ active' = active \cap v
            /\ shown' = Released(active \ v)
    /\ UNCHANGED <<server, down, conn, connected, resolution, frames, resubscribe, notes>>

\* onopen of the next connection; resubscribeAll waits for a frame.
Open ==
    /\ ~ connected /\ conn + 1 \in Link
    /\ connected' = TRUE /\ conn' = conn + 1
    /\ ids' = [ids EXCEPT ![conn + 1] = conn + 1]
    /\ active' = {} /\ frames' = <<>> /\ resubscribe' = TRUE
    /\ UNCHANGED <<given, board, subs, count, res, tiles, queued, casts, pump, up, down,
                   desired, resolution, shown, notes>>

ResubscribeAll ==
    /\ resubscribe /\ connected
    /\ resubscribe' = FALSE
    /\ Requests(desired, {}, resolution)
    /\ active' = IF desired = {} THEN active ELSE desired
    /\ UNCHANGED <<given, server, down, conn, connected, desired, resolution, shown, frames, notes>>

\* The player joins, or rejoins with the token of the browser.
AskToJoin ==
    /\ Spend("joins") /\ connected
    /\ up' = [up EXCEPT ![conn] = Append(@, [is |-> "join"])]
    /\ UNCHANGED <<server, down, client, notes>>

\* onclose; what the server still sends goes nowhere.  The copies stay.
Close ==
    /\ Spend("closes") /\ connected
    /\ connected' = FALSE /\ down' = <<>> /\ active' = {} /\ resubscribe' = FALSE
    /\ UNCHANGED <<server, up, conn, desired, resolution, shown, frames, notes>>

-----------------------------------------------------------------------------
MinimapNext ==
    \/ \E t \in given.scope : \/ OtherSubscribes(t) \/ OtherLeaves(t)
                             \/ \E D \in SUBSET Cell : Change(t, D)
    \/ Broadcast \/ SendCast
    \/ \E c \in Link : \/ Subscribe(c) \/ ReadTile(c) \/ SendBatch(c)
                       \/ Unsubscribe(c) \/ Join(c) \/ RemovePlayer(c)
    \/ DrawFrame \/ Receive
    \/ \E v \in SUBSET given.scope : ClearSource(v) \/ \E r \in given.scales : View(v, r)
    \/ Open \/ ResubscribeAll \/ AskToJoin \/ Close

MinimapSpec == MinimapInit /\ [][MinimapNext]_minimapVars

-----------------------------------------------------------------------------
(* Properties. *)

\* Everything sent has arrived and nothing is left to send.
Quiet ==
    /\ connected /\ ~ resubscribe
    /\ up[conn] = <<>> /\ ~ pump[conn].busy
    /\ queued = {} /\ casts = {} /\ down = <<>> /\ frames = <<>>

\* The cap is enforced by a counter kept beside the subscriptions: through
\* repeated requests, withdrawals, joins and removals it stays their number.
CountsAgree == \A i \in SubId : count[i] = Cardinality({t \in Tile : i \in subs[t]})

\* A tile is allocated only while somebody is subscribed to it: withdrawals,
\* joins and removals free it, whoever goes last.
AllocatedForSubscribers == \A t \in Tile : tiles[t].there => subs[t] # {}

\* Once everything has arrived, the client shows what is on the board in each
\* tile it is subscribed to, whatever it asked for and however answers, deltas
\* and full tiles passed each other.  Excepted are the three cases of notes.
ShownIsCurrent ==
    Quiet => \A t \in active \ (kept \cup restarted \cup overtaken) :
                ids[conn] \in subs[t] =>
                    /\ shown[t].cells = board[t]
                    /\ board[t] # {} => shown[t].res = resolution

\* websocket.go:997: "Cell changes between the two phases self-heal because
\* Phase 2 reads from authoritative world state": a tile subscribed to shows
\* the board in the end.  The code does not keep to it: the delta of such a
\* change may pass the full tile.
ChangesSelfHeal ==
    Quiet => \A t \in active \ (kept \cup restarted) :
                ids[conn] \in subs[t] => shown[t].cells = board[t]

=============================================================================

------------------------------ MODULE Overview ------------------------------
(***************************************************************************)
(* The zoomed-out picture of the board (backend/overview.go,               *)
(* overviewRequests.js, applyOverviewSnapshot and applyOverviewPatch of    *)
(* useGameState.js).                                                       *)
(*                                                                         *)
(* The server renders the chunks that changed every 50 ms and counts these *)
(* rounds: overviewRevision.  A client asks for the picture of a region;   *)
(* the server registers it, reads the region batch by batch while the game *)
(* goes on, sends the picture with the revision it began with, then what   *)
(* changed meanwhile, and from then on a patch per round.  A client that   *)
(* names the revision of the copy it has may be told that it is unchanged. *)
(*                                                                         *)
(* A chunk's picture is the number of changes it shows.  One browser is    *)
(* modelled, which never asks for the global image and always replaces its *)
(* subscription (OverviewMinimap.jsx); a batch is one chunk.  A queue that *)
(* is full closes the connection (sendOverview): Close.                    *)
(***************************************************************************)
EXTENDS Integers, Sequences, FiniteSets

CONSTANTS
    Tile,         \* chunks
    Region,       \* what a client may ask for: a rectangle at a resolution
    Covers, Level,\* its chunks; its resolution
    Previews,     \* the regions asked for as a coarse preview
    Fine,         \* resolutions rendered when they are read (32 and 64)
    None,
    Circumstances \* bounds of one behaviour: changes, requests and releases,
                  \* lost connections, snapshots of the world, restarts

ASSUME OverviewAssumption ==
    /\ None \notin Region /\ Previews \subseteq Region
    /\ \A r \in Region : Covers[r] \subseteq Tile /\ Covers[r] # {}
    /\ Circumstances \subseteq [changes : Nat, views : Nat, closes : Nat, saves : Nat, restarts : Nat]

Pictures == [Tile -> Nat]
Subscription == [region : Region, ready : BOOLEAN, pending : SUBSET Tile]
Query == [id : Nat, region : Region, subscribe : BOOLEAN]
Wish == [region : Region, subscribe : BOOLEAN]
RequestMessage ==
    [is : {"request"}, id : Nat, region : Region, subscribe : BOOLEAN, known : Nat]
Job == [q : RequestMessage, revision : Nat, unchanged : BOOLEAN, sent : BOOLEAN,
        todo : SUBSET Tile, cells : Pictures]
PatchOf(S) ==
    [is : {"patch"}, level : {Level[r] : r \in Region}, revision : Nat, cells : [S -> Nat]]

\* nil and null are none of them.
ASSUME NoneAssumption ==
    /\ None \notin Subscription \cup Job \cup Query \cup Wish
    /\ \A S \in SUBSET Tile : None \notin PatchOf(S)

VARIABLES
    given,     \* what may still happen in this behaviour
    board,     \* board[t]: changes of chunk t so far
    saved,     \* the board in the snapshot on disk, or None
    tiles,     \* overviewTiles: the changes each rendered chunk shows
    dirty,     \* overviewDirty
    revision,  \* overviewRevision
    sub,       \* overviewSubs of the client's connection, or None
    pump,      \* the request its goroutine is answering, or None
    cast,      \* the patch the broadcaster has built and not sent, or None
    up, down,  \* messages of the client; those on their way to it
    connected,
    pending, queued, nextId, \* OverviewRequests
    shown,     \* the client's copies: overviewCacheRef
    subscribed,\* overviewSubscriptionRef: the region that patches are for
    asked,     \* requestedRef: the last view asked for on this connection
    greet,     \* the preview that follows onopen is still to be asked for
    rendered,  \* history: the pictures of each revision of this server process
    foreign,   \* history: regions whose copy is of an earlier process
    unrendered \* history: chunks whose changes were replayed at boot and
               \* that have not changed since

server == <<board, saved, tiles, dirty, revision, sub, pump, cast>>
requests == <<pending, queued, nextId>>
client == <<connected, requests, shown, subscribed, asked, greet>>
notes == <<rendered, foreign, unrendered>>
vars == <<given, server, up, down, client, notes>>

Blank == [t \in Tile |-> 0]
NoCopy == [revision |-> 0, cells |-> Blank, there |-> FALSE]

Init ==
    /\ given \in Circumstances
    /\ board = Blank /\ saved = None /\ tiles = Blank /\ dirty = {} /\ revision = 0
    /\ sub = None /\ pump = None /\ cast = None
    /\ up = <<>> /\ down = <<>>
    /\ connected = FALSE /\ pending = None /\ queued = None /\ nextId = 0
    /\ shown = [r \in Region |-> NoCopy]
    /\ subscribed = None /\ asked = None /\ greet = FALSE
    /\ rendered = [v \in {0} |-> Blank]
    /\ foreign = {} /\ unrendered = {}

\* given with one less of what.
Spend(what) == given[what] > 0 /\ given' = [given EXCEPT ![what] = @ - 1]

-----------------------------------------------------------------------------
(* The server. *)

\* A command changes a chunk (minimapOnReveal, minimapOnFlag).
Change(t) ==
    /\ Spend("changes")
    /\ board' = [board EXCEPT ![t] = @ + 1]
    /\ dirty' = dirty \cup {t}
    /\ unrendered' = unrendered \ {t}
    /\ UNCHANGED <<saved, tiles, revision, sub, pump, cast, up, down, client, rendered, foreign>>

\* overviewPixelsLocked: coarse resolutions are rendered in rounds, fine ones
\* when they are read; a change drops what is kept of those.
Pixels(r, t) == IF Level[r] \in Fine THEN board[t] ELSE tiles[t]

\* A patch of region r that shows cells, or None if those are none.
Patch(r, cells, v) ==
    IF DOMAIN cells = {} THEN None
    ELSE [is |-> "patch", level |-> Level[r], revision |-> v, cells |-> cells]

\* What a round does to a subscription that waits for its picture.
\* Variant: it is forgotten.
VariantCollected(s, D) == s
Collected(s, D) == [s EXCEPT !.pending = @ \cup (D \cap Covers[s.region])]

\* broadcastOverview, under the lock: a round renders what changed.
Broadcast ==
    /\ dirty # {} /\ cast = None
    /\ dirty' = {}
    /\ revision' = revision + 1
    /\ tiles' = [t \in Tile |-> IF t \in dirty THEN board[t] ELSE tiles[t]]
    /\ rendered' = [v \in DOMAIN rendered \cup {revision + 1} |->
                      IF v = revision + 1 THEN tiles' ELSE rendered[v]]
    /\ IF sub = None THEN UNCHANGED <<sub, cast>>
       ELSE IF ~ sub.ready THEN sub' = Collected(sub, dirty) /\ UNCHANGED cast
       ELSE /\ cast' = Patch(sub.region, [t \in dirty \cap Covers[sub.region] |-> board[t]],
                             revision + 1)
            /\ UNCHANGED sub
    /\ UNCHANGED <<given, board, saved, pump, up, down, client, foreign, unrendered>>

\* After it.
SendCast ==
    /\ cast # None
    /\ down' = Append(down, cast)
    /\ cast' = None
    /\ UNCHANGED <<given, board, saved, tiles, dirty, revision, sub, pump, up, client, notes>>

Take(what) ==
    /\ pump = None /\ up # <<>> /\ Head(up).is = what
    /\ up' = Tail(up)

\* handleOverviewRequest, first lock: register, and read the revision.
Request ==
    /\ Take("request")
    /\ LET q == Head(up)
           unchanged == q.known # 0 /\ q.known = revision
       IN  /\ sub' = IF q.subscribe THEN [region |-> q.region, ready |-> FALSE, pending |-> {}]
                     ELSE sub
           /\ pump' = [q |-> q, revision |-> revision, unchanged |-> unchanged, sent |-> FALSE,
                       todo |-> IF unchanged THEN {} ELSE Covers[q.region], cells |-> Blank]
    /\ UNCHANGED <<given, board, saved, tiles, dirty, revision, cast, down, client, notes>>

\* assembleOverviewRegion: a batch.
ReadTile ==
    /\ pump # None
    /\ \E t \in pump.todo :
          pump' = [pump EXCEPT !.todo = @ \ {t}, !.cells[t] = Pixels(pump.q.region, t)]
    /\ UNCHANGED <<given, board, saved, tiles, dirty, revision, sub, cast, up, down, client, notes>>

\* The revision a picture is sent with: of the round before it was begun.
\* Variant: of the last round.
VariantStamp(p) == revision
Stamp(p) == p.revision

\* The answer leaves; the goroutine is done unless it has to catch up.
SendSnapshot ==
    /\ pump # None /\ pump.todo = {} /\ ~ pump.sent
    /\ down' = Append(down, [is |-> "snapshot", id |-> pump.q.id, region |-> pump.q.region,
                             revision |-> Stamp(pump), unchanged |-> pump.unchanged,
                             cells |-> pump.cells])
    /\ pump' = IF pump.q.subscribe THEN [pump EXCEPT !.sent = TRUE] ELSE None
    /\ UNCHANGED <<given, board, saved, tiles, dirty, revision, sub, cast, up, client, notes>>

\* Last lock: what changed meanwhile, sent under it.  The subscription is
\* still the one of this request: its goroutine is the only one to replace it.
CatchUp ==
    /\ pump # None /\ pump.sent
    /\ LET patch == Patch(sub.region, [t \in sub.pending |-> Pixels(sub.region, t)], revision)
       IN  down' = IF patch = None THEN down ELSE Append(down, patch)
    /\ sub' = [sub EXCEPT !.ready = TRUE, !.pending = {}]
    /\ pump' = None
    /\ UNCHANGED <<given, board, saved, tiles, dirty, revision, cast, up, client, notes>>

\* releaseOverview.
ReleaseSubscription ==
    /\ Take("release")
    /\ sub' = None
    /\ UNCHANGED <<given, board, saved, tiles, dirty, revision, pump, cast, down, client, notes>>

-----------------------------------------------------------------------------
(* The client. *)

\* The request q leaves, with the revision of the copy there is by then.
Sent(q, copies) ==
    [is |-> "request", id |-> nextId + 1, region |-> q.region, subscribe |-> q.subscribe,
     known |-> IF copies[q.region].there THEN copies[q.region].revision ELSE 0]

Send(q, copies) ==
    /\ up' = Append(up, Sent(q, copies))
    /\ pending' = [id |-> nextId + 1, region |-> q.region, subscribe |-> q.subscribe]
    /\ nextId' = nextId + 1

\* What is queued behind p when q is asked for: nothing, if p will answer it.
Behind(p, q) == IF p.region = q.region /\ p.subscribe = q.subscribe THEN None ELSE q

\* The picture p shows all of q (OverviewRequests.request).
Contains(p, q) == Level[p.region] = Level[q.region] /\ Covers[q.region] \subseteq Covers[p.region]

Ask(q) ==
    IF pending = None THEN Send(q, shown) /\ UNCHANGED queued
    ELSE /\ UNCHANGED <<up, pending, nextId>>
         /\ IF q.subscribe THEN queued' = Behind(pending, q)
            ELSE IF pending.subscribe \/ (queued # None /\ queued.subscribe) THEN UNCHANGED queued
            ELSE queued' = IF Contains(pending, q) THEN None ELSE Behind(pending, q)

\* requestLOD: the overlay shows region r.
View(r) ==
    /\ Spend("views") /\ connected
    /\ ~ (asked = r /\ shown[r].there)
    /\ Ask([region |-> r, subscribe |-> TRUE])
    /\ asked' = r
    /\ UNCHANGED <<server, down, connected, shown, subscribed, greet, notes>>

\* A preview: in the render that follows onopen (App.jsx), before anything
\* comes back, or because there is no copy.
Preview(r) ==
    /\ connected
    /\ \/ greet /\ greet' = FALSE /\ UNCHANGED given
       \/ ~ shown[r].there /\ Spend("views") /\ UNCHANGED greet
    /\ Ask([region |-> r, subscribe |-> FALSE])
    /\ UNCHANGED <<server, down, connected, shown, subscribed, asked, notes>>

\* release: what an answer under way still does.
\* Variant: it subscribes.
VariantReleased(p) == p
Released(p) == IF p = None THEN None ELSE [p EXCEPT !.subscribe = FALSE]

\* The overlay closes.
Release ==
    /\ Spend("views") /\ connected
    /\ queued' = None /\ pending' = Released(pending)
    /\ subscribed' = None /\ asked' = None
    /\ up' = Append(up, [is |-> "release"])
    /\ UNCHANGED <<server, down, connected, nextId, shown, greet, notes>>

\* complete: the answer to the pending request sends the one behind it.
Complete(id, copies) ==
    IF pending = None \/ pending.id # id THEN UNCHANGED <<up, requests>>
    ELSE /\ queued' = None
         /\ IF queued = None THEN pending' = None /\ UNCHANGED <<up, nextId>>
            ELSE Send(queued, copies)

\* applyOverviewSnapshot.
ReceiveSnapshot ==
    /\ ~ greet /\ down # <<>> /\ Head(down).is = "snapshot"
    /\ LET m == Head(down)
           r == m.region
       IN  /\ shown' = [shown EXCEPT ![r] =
                 IF ~ m.unchanged THEN [revision |-> m.revision, there |-> TRUE,
                                        cells |-> [t \in Tile |-> IF t \in Covers[r] THEN m.cells[t] ELSE 0]]
                 ELSE IF @.there THEN [@ EXCEPT !.revision = m.revision] ELSE @]
           /\ subscribed' = IF pending # None /\ pending.id = m.id /\ pending.subscribe THEN r
                            ELSE subscribed
           /\ Complete(m.id, shown')
           /\ foreign' = IF m.unchanged THEN foreign ELSE foreign \ {r}
    /\ down' = Tail(down)
    /\ UNCHANGED <<given, server, connected, asked, greet, rendered, unrendered>>

\* Whether a patch is for this copy.
\* Variant: patches the picture already has are drawn, too.
VariantNewer(m, copy) == TRUE
Newer(m, copy) == m.revision > copy.revision

\* applyOverviewPatch: tiles outside the copy leave its revision behind.
Patched(copy, r, m) ==
    [copy EXCEPT
       !.revision = IF DOMAIN m.cells \subseteq Covers[r] THEN m.revision ELSE @,
       !.cells = [t \in Tile |-> IF t \in DOMAIN m.cells \cap Covers[r] THEN m.cells[t] ELSE @[t]]]

ReceivePatch ==
    /\ down # <<>> /\ Head(down).is = "patch"
    /\ LET m == Head(down)
           r == subscribed
           meant == r # None /\ shown[r].there /\ Level[r] = m.level /\ Newer(m, shown[r])
       IN  shown' = IF meant THEN [shown EXCEPT ![r] = Patched(@, r, m)] ELSE shown
    /\ down' = Tail(down)
    /\ UNCHANGED <<given, server, up, connected, requests, subscribed, asked, greet, notes>>

-----------------------------------------------------------------------------
(* Connections and the server process. *)

\* What both ends forget with a connection; the copies stay.
Disconnected ==
    /\ connected' = FALSE
    /\ sub' = None /\ pump' = None /\ cast' = None
    /\ up' = <<>> /\ down' = <<>>
    /\ pending' = None /\ queued' = None /\ subscribed' = None /\ greet' = FALSE
    /\ UNCHANGED <<nextId, shown, asked>>

\* The connection is lost, the server drops a message, or the timer of a
\* pending request closes it.
Close ==
    /\ Spend("closes") /\ connected
    /\ Disconnected
    /\ UNCHANGED <<board, saved, tiles, dirty, revision, notes>>

\* onopen.
Open ==
    /\ ~ connected
    /\ connected' = TRUE /\ greet' = TRUE /\ asked' = None
    /\ UNCHANGED <<given, server, up, down, requests, shown, subscribed, notes>>

\* A snapshot of the world is saved.
Save ==
    /\ Spend("saves")
    /\ saved' = board
    /\ UNCHANGED <<board, tiles, dirty, revision, sub, pump, cast, up, down, client, notes>>

\* The process ends and starts again.  The snapshot is rendered
\* (rebuildOverviewLocked); the log is replayed on it afterwards and is not.
Restart ==
    /\ Spend("restarts")
    /\ Disconnected
    /\ dirty' = {}
    /\ tiles' = IF saved = None THEN Blank ELSE saved
    /\ revision' = IF saved = None THEN 0 ELSE 1
    /\ rendered' = [v \in {revision'} |-> tiles']
    /\ foreign' = {r \in Region : shown[r].there}
    /\ unrendered' = {t \in Tile : tiles'[t] # board[t]}
    /\ UNCHANGED <<board, saved>>

-----------------------------------------------------------------------------
Next ==
    \/ \E t \in Tile : Change(t)
    \/ Broadcast \/ SendCast
    \/ Request \/ ReadTile \/ SendSnapshot \/ CatchUp \/ ReleaseSubscription
    \/ \E r \in Region : View(r)
    \/ \E r \in Previews : Preview(r)
    \/ Release \/ ReceiveSnapshot \/ ReceivePatch
    \/ Close \/ Open \/ Save \/ Restart

Spec == Init /\ [][Next]_vars

-----------------------------------------------------------------------------
(* Properties. *)

\* Every request is answered and everything sent has arrived.
Quiet ==
    /\ connected /\ ~ greet /\ pending = None
    /\ up = <<>> /\ down = <<>> /\ pump = None /\ cast = None /\ dirty = {}

\* The revision of a copy is not a lie: the copy has every change that was
\* rendered up to it, although the region was read in pieces while the game
\* went on and although old patches meet new copies.  It is what lets the
\* server answer "unchanged".  Excepted are copies of an earlier process.
RevisionsHonest ==
    \A r \in Region \ foreign : shown[r].there =>
        \A t \in Covers[r] : shown[r].cells[t] >= rendered[shown[r].revision][t]

\* A copy never goes back to an older state of a chunk, whatever patch and
\* picture overtake each other.
NeverOlder ==
    [][\A r \in Region \ foreign : \A t \in Tile :
          shown'[r].cells[t] >= shown[r].cells[t]]_shown

\* Once everything has arrived, the region on view shows the board, but for
\* what a boot has replayed without rendering it.
ViewIsCurrent ==
    Quiet /\ asked # None /\ asked \notin foreign =>
        \A t \in Covers[asked] :
            shown[asked].cells[t] = board[t] \/ (t \in unrendered /\ Level[asked] \notin Fine)

\* However requests, answers and releases crossed, the last view asked for is
\* the one both ends hold a subscription for, and none is held after a release.
LastViewServed ==
    Quiet => /\ subscribed = asked
             /\ IF asked = None THEN sub = None
                ELSE sub # None /\ sub.ready /\ sub.region = asked

=============================================================================

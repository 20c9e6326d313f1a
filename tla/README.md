# Infinite minesweeper: specifications, model checks and proofs

TLA+ specifications of the server in `src/backend` and of the web client in
`src/frontend`, from its gestures to the pixels of its board. TLC checks them on
small instances; TLAPS proves, for every instance, what concerns the rules, persistence on
S3, players, subscriptions, what the client holds and what it draws. `PROJECT.json`
maps each definition to the lines it models and lists the runs, the mutants
that show what each property would catch, the hazards and the findings.

    tlc -workers 2 -config MCWorld.cfg MCWorld     # one run
    tlapm WorldProofs.tla                          # one set of proofs

## 1. The system

An endless board is cut into chunks of 64 by 64 cells. Mines are a function of a
secret, the chunk and its density, so only what players did is stored. One Go
process holds everything in maps; browsers connect by websocket.

| Part | Code | State | Operations |
|---|---|---|---|
| Game rules | `game.go`, `achievements.go` | revealed bits, flags, explosions, scores, streaks, statistics, unlocks | `handleReveal`: reveal, flag, chord, each with floods |
| Coordinates | `game.go` | none | world to chunk and index, neighbours |
| Persistence | `persistence.go`, `main.go` | buffer, sequence number; log segments and snapshot in S3, or two files | append, flush, snapshot, truncate, boot, shutdown |
| Players | `websocket.go`, `server.go` | names, index of names, flags, tokens, next id | join, rejoin, rename, flag change, over websocket and HTTP |
| Connections, subscriptions | `websocket.go` | connections per id, views, three subscription maps | connect, join, view, subscribe, unsubscribe, remove, broadcast |
| Client board | `useGameState.js`, `cellStore.js` | shown cells, flags, seeds, unanswered clicks | click, answer, broadcast, synchronisation, reconnect |
| Connection and camera | `useGameState.js`, `App.jsx`, `cellStore.js` | socket, credentials, camera in a ref and in state, last view sent, timers | connect, join, pan, zoom, resize, consider and send a view, evict, retry |
| Gestures | `usePinchPanZoom.js`, `App.jsx` | one drag, one pinch, one timer | pointer and touch events, timers: tap, flag, pan, zoom |
| Drawing | `useGameState.js`, `CanvasRenderer.js`, `App.jsx` | cells waiting for seeds, chunk versions, kept pictures, frame requests | recompute, bump, rasterize, evict, render |
| Leaderboard | `leaderboard.go` | versions sent per connection | ticker, incremental messages |
| Minimap | `minimap.go`, client | tiles, dirty regions, versions, subscriptions | mark, rebuild, full tile, delta |
| Overview | `overview.go`, `overviewRequests.js`, `overviewCache.js` | regional snapshots, patches, one request in flight | request, broadcast, cancel, cache |
| Flag storage, territory | `flags.go`, `territory.go` | sorted slices with a palette, copy on write; a vote per block | set, get, clone; vote |
| Density, multipliers | `density.go` | caches | formulas over floats |

How they interact. `readPump` (one goroutine per connection) reads messages.
Reveals go through a mailbox that one further goroutine per connection empties,
so a client's commands run one after the other; everything else runs in
`readPump` itself. `stateMu` guards the board, the players' maps and the
subscriptions; `playersMu` guards the connections of an id; the log buffer, the
seed cache and the cache of chunk messages have locks of their own.
`handleReveal` holds `stateMu` from its first check to its last log entry,
queues the answer under it, and hands the broadcasts to goroutines after
releasing it. Tickers flush the log, save snapshots, and send minimap, overview
and leaderboard. A signal handler flushes and saves beside the tickers, and
exits.

What is hard here:

- *Kills and torn writes.* The log entries are written by hand next to the state
  changes; a flush can cut the entries of a command apart; a snapshot and the
  log it replaces are two objects; names come from entries that can be older
  than the snapshot they are replayed on.
- *Goroutines.* Two savers, two flushers, removal of a connection in two
  critical sections, broadcasts that overtake answers and synchronisations.
- *Messages that are dropped.* A full queue drops a message and nothing resends
  it.
- *Optimism.* The client applies a click before the answer and has to take it
  back when others have changed the same chunk since.
- *One thread, many turns.* In the browser nothing runs in parallel, but handlers,
  effects, frames and timers read refs that others have written since.
- *Pieces that arrive apart.* The server sends which cells are revealed, never their
  numbers; these follow from seeds that come by other messages.
- *Floods and chords* that cross chunks and must leave the same board whatever
  order players click in.

What makes each part correct:

- Rules: nothing is resolved twice, revealed zeros have no hidden neighbours, a
  chord never explodes, the region stays in one piece, statistics equal what is
  on the board, replaying the log gives the state.
- Persistence: what a flush reported stored survives a kill, whatever save was
  under way (on disk it need not, see section 3); nothing is rebuilt that was not earned; a
  save leaves one whole snapshot.
- Players: one player per name, one identity per token, no flag that was not
  unlocked, all three across boots.
- Subscriptions: the maps agree, nothing leaks, a client in sight of a chunk
  hears of its changes.
- Client: once everything has arrived it shows what the server has.
- Connection and camera: what is on the screen is subscribed and held, nothing that is
  subscribed is evicted, a lost player comes back.
- Gestures: a press comes to one thing, nothing is left of it afterwards.
- Drawing: a screen at rest shows the cells as they are, and every number appears.
- Minimap and overview: the same, for pictures read in pieces while the game goes
  on and for changes sent beside them; a revision or version means what it says.

## 2. The modules

    Geometry          coordinates            WorldProofs
    Board             rules without players
    World             handleReveal + log     WorldProofs       MCWorld
    ClientBoard       one client + server    WorldProofs       MCClientBoard
    Identity          players, names, tokens IdentityProofs    MCIdentity
    Subscriptions     connections, chunks    SubscriptionsProofs MCSubscriptions
    Viewing           camera, connection     ViewingProofs     MCViewing
    Gestures          fingers and mouse      ViewingProofs     MCGestures
    Screen            messages to pixels     ScreenProofs      MCScreen
    Minimap           streamed tiles        IdentityProofs    MCMinimap
    Overview          regional pictures      OverviewProofs    MCOverview
    DurableStore      abstract: what persistence promises
    Journal           buffer, flush, kill, signal
      S3Persistence   implements DurableStore S3Proofs         MCS3Persistence
      DiskPersistence extends Journal        S3Proofs          MCDiskPersistence

`World` and `ClientBoard` extend `Board`; the boards TLC explores are patches of the plane
of `Geometry`. `Induction` holds the lemmas the proofs share. Where two components are proved
about in one module, their `Init`, `Next` and `Spec` have names of their own (`DiskInit`, `GesturesSpec`, `MinimapNext`, `ClientSpec`). The two persistence modules share `Journal`; the
refinement is the `PROPERTY` `ImplementsStore` (`INSTANCE DurableStore WITH`).

**Board, World.** `revealed`, `flags`, `explosions` are the maps of the server
without the chunk level. Each accepted branch of `handleReveal` is one action
(`CorrectFlag`, `WrongFlag`, `Chord`, `RevealMine`, `RevealNumber`,
`RevealZero`) that ends in `Resolve`: cells, counters, statistics, unlocks and
log entries together, as under `stateMu`. Branches that refuse change nothing and
are no actions. A breadth-first search is given by its result: the least set of
zeros closed under the search. `replica` is what the entries written so far would
rebuild; `Restart` puts it in place of the state. `Multiplier` gives the values
`getScoreMultiplier` may take, in percent. Scores are clamped at 32 bits as in
`applyScore`.

**Geometry.** Floor division, indexes, neighbours and the fast path inside a chunk, over the
integers; the code divides 64-bit floats (`game.go:16-17`), which is the same below 2^53.

**Journal, S3Persistence, DiskPersistence, DurableStore.** A command adds a cell
and a point and writes two entries: one of the kind that only adds (reveal,
flag), one of the kind that carries a whole value (score, statistics, player).
Each append to the buffer is a step, so a flush can come in between. On S3 a
flush is one object and a snapshot lists, captures, uploads and deletes in four
steps. On disk a flush opens, appends record by record and syncs; a save
creates, writes in two halves, renames and removes the log. A power loss keeps
what was synced and any prefix of the rest, the last record possibly torn. A flush fails when it
opens the log, between records, inside one, or at the sync with everything in the log; it
then writes the whole batch again. `unread` is the history of whether a flush has reported
entries as stored that stand behind a torn record. A sync that succeeds is taken to cover
all of the file, also what an earlier flush wrote whose sync had failed.
`signal` is the goroutine of `main.go` that flushes and saves while the tickers
go on.

**Identity.** Each handler under `stateMu` is one action; `ReplayPlayer` and
`Restored` are the code of the boot, including that the order in which Go
iterates a map decides who gets a name two players share. Storage is reduced to
what both kinds have in common.

**Subscriptions.** Each critical section and each send is a step; `pump[k]` is
what the goroutine of connection `k` does next. The three maps are edited apart, as in the
code: `Indexed` adds to and takes from the index by chunk, `Gone` and `OverCapacity` are the
two ways a view takes chunks away, and `SubscribeToChunk`, `UnsubscribeFromChunk`,
`ForgetSpectator` and `ForgetPlayer` have edits of their own. `fresh` is the history of which
client copies are current: `Delivered` makes them so, `Change` unmakes those of
ids that are not subscribed.

**ClientBoard.** The server of `World` without scores; a mailbox, broadcasts on
their way in any order, one bounded queue, and a client with its optimistic
record per click. `uncovered` and `flagged` are the server's board, `shown` and `marks`
the client's. What the client knows of mines depends on the seeds it has.

**Viewing.** Handlers, effects of a render (`Effects`), callbacks of a frame (`Frame`),
messages and timers are the steps. The camera is kept in a ref and in state, and the
effect at `App.jsx:903` writes the one over the other (`Synced`); a view goes to the
server from a frame, after `Consider` has compared it with the last one and evicted
what is far. `link` is the connection as the client sees it, `srv`, `subs` and `old` as
the server does. One dimension stands for two; capacity and dropped messages are in
`Subscriptions` and `ClientBoard`; messages of a lost connection vanish; links that
carry a place (`sharedLocation`) are left out.

**Gestures.** The two handlers of one contact are one action, timers fire in between.
The functions of the hook (`OnPointerDown`, `OnTouchStart`, ...) take and return its
state; `presses` is the history of what came of each press. A position is one of two
places of a pointer, more than ten pixels apart. `pointercancel` has no handler, so
`Cancel` leaves everything as it is. The wheel, which only zooms, is left out.

**Screen.** A cell is hidden, blank or shows its number; `Needs` gives the chunks whose
seeds the number takes. `Receive` is the client's reaction to a synchronisation, a
broadcast, an answer and seeds; an answer is matched to its click by the number of the
request (`Asked`), so any number of clicks may wait for theirs. `Flush` is the timer that asks for seeds; `Effect` and
`Frame` lead to the canvas. Far out a frame draws from pictures kept by version, as
many as there is time for (`DrawnUpTo` gives every way a frame may end), possibly none (`IdleFrame`: the
budget is measured from the beginning of the frame, `CanvasRenderer.js:455`, `:490`); close up from
the cells. An answer to a seed request that finds the queue full has the effect of one that the
rate limit refuses (`refused`). Flags, mines and chords change a chunk in the same ways and are left out, as
are two of the three resolutions of pictures, the cap of 512 on one request, and the
orders of answer and broadcast, which `ClientBoard` has. Eviction takes only what is
not near a subscription, which `ViewingProofs` shows (`WindowNear`). A frame that comes
too soon after the last is that frame, later.

**Minimap.** `Change` marks, `Broadcast` takes the marks and builds messages under
the lock, `SendCast` sends one of them. `Subscribe`, `ReadTile` and `SendBatch` are the
phases of a request, with the broadcaster in between. The client draws full
tiles in a later frame (`DrawFrame`) and deltas at once. A picture is the set of
cells that are not unseen; a resolution is a partition of the cells. `Other`
stands for everybody else who subscribes.

**Overview.** A round (`Broadcast`) renders what changed and counts a revision. A
request registers (`Request`), reads one chunk at a time (`ReadTile`), sends
(`SendSnapshot`) and catches up (`CatchUp`). On the client `Ask` is the rule of
`OverviewRequests`: one request pending, one behind it. A chunk's picture is how
many of its changes it shows, so "older" is a comparison of numbers.
`rendered` is the history of what each revision showed. The byte budget of
`OverviewCache` is left out.

## 3. The runs

| Run | Question | Bounds |
|---|---|---|
| `world` | do the rules hold for every sequence of commands and restarts? | two players, six cells in an L over two chunks, two layouts: one mine in the corner, and a wall of two; a multiplier at which a cell rounds to zero points |
| `s3` | does persistence on S3 implement `DurableStore`; what is left of it when reads or deletes fail, and in a stop? | two cells, one kill, one failed upload; circumstances apart |
| `s3_read_error` | are deleted segments covered by the snapshot? | two cells, one boot that cannot read the log |
| `disk` | does a power loss take only what no flush has stored; are snapshots whole? | two cells, three files, two power losses beside one error, or two errors with one cell; periodic saves and a stop with fewer of them |
| `identity` | are names, tokens, flags kept apart and restored? | two players, three names that include both default names, one kill, four entries (or three, with flags) |
| `subscriptions` | do the maps agree, does a client in sight of a chunk hear of changes? | two connections, one player, three chunks, room for two; one view of all three |
| `client` | does the client show what the server has, when everything has arrived? | five cells in two chunks, a mine, a number, three zeros; two clicks of three kinds, others' clicks, two views, a reconnect; a queue of three |
| `minimap` | does the client show the tiles it is subscribed to; do counter, cap and tiles agree? | two tiles of two cells, a fine and a coarse resolution, two connections; one tile in depth, two tiles with room for one or two, joins with a reconnect |
| `overview` | are revisions honest, do copies only get newer, is the last view served? | two chunks, a wide and a narrow coarse region and a fine one, two changes, three views and releases; a reconnect or a restart |
| `gestures` | does a press come to one thing, and leave nothing behind? | three fingers and a mouse, three presses, two places of each |
| `viewing` | is what the screen shows held and subscribed, does a player come back? | two places three chunks apart, two sizes of screen, no prefetch, margin 1, radius 2; one move or resize, one loss, two messages under way |
| `screen` | does the screen show the cells as they are, do all numbers appear? | four chunks in a row, three of them visible from afar, four cells, three of them at edges; one picture kept beyond need; a click beside a foreign reveal, or two clicks; an eviction, or a refused request, or a lost connection, each beside a foreign reveal and up to three views |

*Circumstances.* Several modules start from a constant set of circumstances
(`Circumstances`, `Offers`): how many cells are played, kills happen, calls fail,
and which rare things may happen at all. They are bounds, and they let one run
go deep in several directions without multiplying them. Where a property makes
an exception of one (`OrdinaryFaults`, `SaversRace`), the module says why.

*Why the bounds are enough.* The hazards are about the order of few steps: one
command cut by a flush, one save beside one flush, one removal beside one join,
one click beside one foreign change. Each bound leaves room for the cut and for
one more round of recovery after it; every action and every disjunct fires. Two
chunks are the fewest a flood can cross and the fewest that a picture is read in
pieces of, three cells in a line the fewest in which
proximity (distance two) differs from adjacency, three names the fewest that
make a chain of renames. Every property has a mutant of the code that breaks it
under the bounds of its run. In `viewing` a prefetch of nothing brings the edge of the
screen to the edge of what is subscribed, where it hurts; the real numbers (2 to 8
chunks of prefetch, margin 4, radius 32) satisfy the assumption of the proof, which
`CodeAssumption` in `MCViewing` evaluates. In `screen` pictures are kept for what a frame
needs and no more, which is stricter than the code (a quarter and four more).

*Fairness.* In `s3` the ticker loops run for ever, so appending an entry and taking the
buffer are weakly fair; an upload may fail again and again but not for ever, so
storing a segment is strongly fair. Nothing is assumed of snapshots, kills or signals.
In `gestures` only the timers are weakly fair. In `viewing` and `screen` there is one weak fairness, on `Progress`: effects, frames, messages,
timers and the server's answers (in `viewing` also a socket that opens, the end of a
broken one and the rejoin with stored credentials) do not all stop while there is
something to do; that they come to an end by themselves is part of what is checked. In `screen` a frame that takes no picture, because time was up before the first, may come at any
time and as often as it likes, but not for ever while there is nothing else to do: `NumbersAppear` assumes that some frame
gets as far as one picture, and the code does not see to it. Losses
are bounded in `viewing` and connections break at most once in `screen`. A camera that
moves, a person who clicks and a connection that comes back are never assumed.

*Deadlock.* `CHECK_DEADLOCK FALSE` stands where the server may stop (persistence: it
exits), the bounds run out (`client`, `minimap`, `overview`, `gestures`) or everything comes to
rest, which is what the properties are about (`viewing`, `screen`).

### What the violation shows

`s3_read_error`: a log that cannot be read at boot is only reported
(`persistence.go:596`); the next snapshot deletes it, although "Anything listed here is
fully covered by the capture" (`persistence.go:734`).

### Known divergences

Places where the code does something else than a comment or a page says, which were
met while modelling. The models have them as the code has them. For the first six a
configuration beside those of the runs checks what the sentence says, and
TLC ends it with a behaviour in which it is false (`tlc -config MCDiskTorn.cfg MCDiskPersistence`).

- `MCDiskTorn.cfg`, `FlushBoundsLoss`: a power loss leaves a torn record, which the next life
  neither reads nor removes (`persistence.go:224`, `:338`). What that life flushes goes behind
  it, where the boot after does not look: "`walFlushInterval` bounds how much play a hard
  kill can lose" (`config.go:12`) is not so.
- `MCDiskPeriodic.cfg`, `FlushBoundsLoss`: entries flushed between the capture of a periodic
  snapshot on disk (`persistence.go:776`) and the removal of the log (`:801`) are in neither
  file; the same sentence is not so without any failure.
- `MCDiskStop.cfg`, `StopLosesNothing`: the save of a stop shares its temporary file with a
  periodic save (`persistence.go:778`). The periodic one empties the file that the stop has
  just written; the stop renames it, removes the log and exits, with a snapshot that
  cannot be read: "WAL flush first - it alone guarantees no data loss"
  (`persistence.go:960`).
- `MCSubscriptionsRejoin.cfg`, `OnlyUnusedCleared`: a removal decides under one lock and acts
  under another (`websocket.go:1214-1236`); who comes back in between loses what was
  subscribed for it, although subscriptions are to be cleared "if no other connections
  remain" (`websocket.go:1232`).
- `MCMinimapHeal.cfg`, `ChangesSelfHeal`: the delta of a change between the two phases of a
  request may be sent before the full tile, which the client then discards as too old
  (`useGameState.js:527`); "Cell changes between the two phases self-heal"
  (`websocket.go:997`) is not so.
- `MCGesturesPinch.cfg`, `PinchOnlyZooms`: two fingers put down within 200 ms leave the timer
  of the first running (`usePinchPanZoom.js:117`), and a pinch then places a flag, although
  "long-press to flag, drag to move and pinch to zoom" (`how-to-play/index.html:236`).
- `usePinchPanZoom.js:181`: the last finger of a pinch, lifted without moving, counts as a
  tap, against the same sentence.
- `cellStore.js:43` against `useGameState.js:1102` ("allow first actions when we have no
  reveals at all"): the synchronisation of an empty chunk counts as a reveal, and the
  client then refuses the first click the server would accept.
- `websocket.go:374` against `:339`: a join drops what the spectator id was subscribed
  to; the client counts its minimap tiles as subscribed and does not ask again before
  they leave its view.
- `usePinchPanZoom.js:181` against `how-to-play/index.html:236`: the last finger of a pinch,
  lifted without moving, counts as a tap.
- `websocket.go:875` against `useGameState.js:681` ("otherwise they'd render blank
  forever"): a seed request over the rate limit is dropped, and the client has
  forgotten that it asked.
- `useGameState.js:1444`: the end of a connection empties the stores without bumping a
  version or asking for a frame; what was on the screen stays until it is touched.

### What the exceptions in the properties stand for

Each of these was met as a counterexample; the property states what is left.

- Persistence on S3 beyond `OrdinaryFaults`: the answer of `DeleteObjects` may name
  keys that were not deleted and is not read (`persistence.go:375`); after a
  misread boot sequence numbers start over and a key can be used again.
- `SaversRace`: a periodic save and the save of a stop share one temporary file on
  disk, where `MCDiskStop.cfg` shows what comes of it, and on S3 the older capture can be
  uploaded last.
- `PowerLossTakesNothingKept` speaks of circumstances without periodic snapshots and stops
  because of the window that `MCDiskPeriodic.cfg` shows, and of behaviours in which nothing is
  `unread`: what is reported as stored behind a torn record, left by a write that failed or by a
  power loss, is not read by the next boot (`MCDiskTorn.cfg`). The exception begins with that
  report; until then, and in every behaviour without torn records, nothing kept is lost.
- `PinchNeverPans` (Gestures) speaks of exactly two fingers: a third has begun a drag of
  its own, which pans while all three are down.
- `outdated` (Identity): a boot on a log that ends before its snapshot replays old
  names over newer ones; two players can then share one. A refused rename that
  also changes the flag does not log the flag (`websocket.go:455`), which is
  why `IdentityRestored` leaves flags out.
- `ReplayExact` (World) leaves the streak out: only `score_update` carries it, and it
  is not written at zero points (`game.go:428`), which is what a correct action can
  earn at a low multiplier. After a restart the streak is an older one.
- `alone` (Subscriptions): two connections of one id share one window, each moves
  it, and what is subscribed already is not sent again; one who comes back during a
  removal loses what was subscribed for it (`MCSubscriptionsRejoin.cfg`).
- `kept` (Minimap): the server sends full tiles only of new subscriptions, so one that
  was there already, after a change of resolution (`useGameState.js:2161`) or a
  rejoin, is sent nothing. What the goroutine of an old connection still does for the
  player's id counts as `kept`, too: a late request of it sets the resolution at which
  all his deltas come (`websocket.go:1012`), and what it has read of a tile may arrive
  behind the newer answer to the new connection. `restarted`: the version of a tile starts over when its
  last subscriber leaves, and a client that kept its copy through a reconnect
  takes what follows for old. `overtaken`: a full tile that waits for its frame is
  discarded after a newer delta, with everything the delta did not contain
  (`MCMinimapHeal.cfg`).
- `unrendered` (Overview): a boot renders the snapshot and then replays the log on it
  without marking anything (`persistence.go:499-528`, `:916`); these chunks stay as
  they were in the overview, and in the cache of coarse minimap tiles, until they
  change again. `foreign`: revisions start over with the process, a copy of the
  last one may be told to be unchanged (`overview.go:517`). A preview of the region
  that is subscribed could undo a patch; the client asks for previews only before
  it subscribes or where it has no copy, and `Preview` and `ReceiveSnapshot` have
  these guards.
- `coalesced` (Viewing): a view is recorded as the last one sent before the check that
  there is a connection, and by a spectator too (`useGameState.js:1038-1060`); a join that
  is acknowledged within 220 ms leaves the player without subscriptions until he moves.
  `overtaken`: a page that becomes visible reconnects while its old socket is still
  closing; the end of the old one is ignored (`:1432`), `connected` never changes, and
  nothing sends the view once he has joined. `shared`: the server still has the player's
  old connection; its chunks count as subscribed and are not sent to the new one, whose
  client has emptied its board. A spectator, too, is sent nothing after a reconnect until
  he moves or joins (`Playing` leaves him out).
- `cleared` (Screen): the old picture of a chunk that was emptied stays. `left`: a
  broadcast makes the client forget that it guessed a blank cell, which was never
  remembered as waiting for a seed. `refused`: a chunk whose seed the rate limit refused.
- `lost` (ClientBoard): a message dropped at a full queue is not sent again.
  `crossed`: a refusal that comes after a synchronisation clears cells that the
  synchronisation has shown to be revealed. `unhinged`: a broadcast makes the
  client forget what a click changed in the chunk, and a refusal that comes
  later finds nothing to undo; a chord that was guessed with a flag the server
  refuses leaves its mine on the client's board.

## 4. The proofs

| Module | Theorems about what runs check | Others |
|---|---|---|
| `WorldProofs` | `TypeCorrect`, `ResolvedOnceHolds`, `ZerosOpenHolds`, `ReplayExactHolds`, `ChordNeverExplodesHolds`, `ResolutionFinalHolds`, `RegionConnectedHolds`, `CreditsAddUpHolds`, `UnlocksEarnedHolds` | |
| `WorldProofs`, of `ClientBoard` | `NothingMissingHolds`, `NothingInventedHolds` | `ClientInvariant` |
| `WorldProofs`, of `Geometry` | | `RoundTrip`, `PlaceRoundTrip`, `NeighboursSymmetric`, `SquareSymmetric`, `FastPath` |
| `S3Proofs` | `StoreImplemented` (`ImplementsStore`), `GracefulStopHolds` | |
| `S3Proofs`, of `DiskPersistence` | `SnapshotReadableHolds`, `PowerLossTakesNothingKeptHolds` | |
| `IdentityProofs` | `TokensApartHolds`, `PaidFlagsEarnedHolds`, `IndexExactHolds`, `IdentityRestoredHolds` | |
| `IdentityProofs`, of `Minimap` | `CountsAgreeHolds`, `AllocatedForSubscribersHolds`, `ShownIsCurrentHolds` | `MinimapInvariant` |
| `SubscriptionsProofs` | `NothingLeaksHolds`, `MapsAgreeHolds`, `ViewIsFreshHolds` | |
| `ViewingProofs` | `NeverDeafHolds` | |
| `ViewingProofs`, of `Gestures` | `OneOutcomeHolds`, `RestsCleanHolds`, `PinchNeverPansHolds` | |
| `ScreenProofs` | `NoneForgottenHolds`, `PictureIsCurrentHolds` | |
| `OverviewProofs` | `RevisionsHonestHolds`, `NeverOlderHolds`, `ViewIsCurrentHolds`, `LastViewServedHolds` | |
| `Induction` | | lemmas only |

**Induction over data.** The programs replay logs, walk through lists and count. The
library's induction theorems take the property as an operator, which the provers cannot
instantiate; `Induction` takes it as a set instead, the set of what has the property, and
derives from the well-foundedness of `<` that a set of numbers with 0 and with every
successor holds all of them (`NumbersByInduction`, `IntervalByInduction`,
`SubsetsByInduction`). That a fold, a sum or a join of sequences unfolds, one place after
the other, is proved in the same way (`FoldRecursion`, `SumUnfolds`, `FlattenFacts`):
first that the recursion has a solution, then what it gives at each place. What then
follows by induction is stated as a lemma about the operator: `ReplayFacts`,
`SeqAfterFacts`, `LogFacts`, `SumOfUpdate`.

**World.** For every finite board with a symmetric neighbour relation, every set of
players, layouts, multipliers and advancements that `WorldAssumption` admits:

    IInv == TypeOK /\ ResolvedOnce /\ ZerosOpen /\ ReplayExact
    FullInv == IInv /\ Books,  Books == RegionConnected /\ CreditsAddUp /\ UnlocksEarned

The conjuncts of `IInv` need each other: `ResolvedOnce` after a restart needs
`ReplayExact`; that a flood reaches everything it should needs the closure in `ZerosOpen`;
that a chord does not explode needs flags to stand on mines (`ResolvedOnce`) so that equal
counts mean equal sets (`ChordCoversMines`). The lemmas on `Opened` (`OpenedFacts`,
`FloodSound`, `ChordSound`) carry the search; `CommandStep` and `RestartStep` split
`Next`. `Books` is what has been opened and to whom it was credited. That the region stays
in one piece is an argument about sets: a part of the new region that is closed under
nearness holds all of the old one as soon as it shares a cell with it, and the search
reaches every new cell from a cell near the old region, through zeros. The statistics add up because
each cell, flag and chunk changes its status in one command, by one player; the sums over
players change at his place only (`SumOfUpdate`).

**Geometry.** Coordinates convert both ways for every chunk size (`RoundTrip`,
`PlaceRoundTrip`); adjacency and the square of the proximity check are symmetric on the
whole plane, which is what `BoardAssumption` and `ProximityAssumption` ask of a board; the
fast path of `countAdjacentMines` reads exactly the neighbours. These need no run: the
theorems cover what a run would look at.

**S3Persistence.** `StoreImplemented` is the refinement: for any finite set of cells, any number of
plays, kills and failed uploads, every step of the server is a step of `DurableStore`, or
none, under the mapping of `Seen` and `Secured`. The invariant (`OInv`) is needed as long
as faults are ordinary:

- `Roles`: nobody stops the server, so only the ticker flushes, and one goroutine saves at
  a time.
- `Log`: the objects hold consecutive entries; what waits in memory continues them, or
  starts with what is stored last, when an upload reached storage and was reported as
  failed.
- `Memories`: memory holds what the log says, except for the cell whose entry the command
  is about to write.
- `Saves`: what a save has listed comes before everything else in the log, and the
  snapshot, captured later, holds it. So a boot sees the same after the deletion, and
  after any half of it (`DeleteFacts`).
- `Keeps`: what a flush reported stored is what a boot would rebuild, or less.

There is one lemma per action (`CommandKeepsOrder`, ..., `BootKeepsOrder`), and
`StoreSteps` maps them. What a boot makes of a snapshot and objects (`ReplayOutcome`,
`RebuiltFacts`) is a board that adds both up, and the *last* score of the log, not the
largest. This is where the first attempt failed: a snapshot can be newer than a log that
has not been flushed to its end, and a boot on both goes back to the older score.
`Memories` and `Saves` therefore compare a snapshot with what is logged (`Tops`), not with
the world as a whole.

`GracefulStopHolds` has an invariant of its own (`Stopping`), which needs nothing of the
log: the board of the moment of the signal is in the world, then in the captured world,
then in the snapshot.

**DiskPersistence.** `SnapshotReadableHolds` has the invariant `DiskInv`: without a race one
saver works at a time (`Turns`), and until the rename the temporary file is his alone, and
holds what he has written of it (`TmpFile`); so the file that gets the final name is whole. For
`PowerLossTakesNothingKeptHolds` it is not enough that the log as it is covers what is kept,
since a power loss can leave any prefix beyond what is synced. `Backed` says that each of
these prefixes covers it. What makes it inductive is what happens to a flush that fails with part
or all of its batch in the log (`FailLog`) and writes all of it again: cells only add up, and the
scores in memory, the requeued ones included, climb from what is kept to what the world has
(`Climbs`), so that a repeated, older score never takes the log below what was kept. `Appended` says
that what a flush has written of its batch would be rebuilt, which a sync that succeeds turns into
what is kept, and `FirstSave` that the first snapshot of a life, which replaces the log, is what
the boot has rebuilt (`ReplayAgain`). `FirstTorn` adds that a torn record behind a prefix is
not read. All this holds until something is `unread`.

**Identity.** Two invariants, one on top of the other. `Backed` holds whatever is
replayed: every unlock in memory is in the snapshot or in the log behind it, an entry with
the paid flag stands behind the unlock, and nowhere, neither in memory nor in storage, is
there a token that opens two identities (`TokensApart`, `PaidFlagsEarned`). `Retraced`, as
long as nothing is `outdated`, says what a boot on old entries and a newer snapshot does:
the names go back in time and come forward again, and end where they were, because nobody
takes a name before its owner has given it up in the log (`HandedOver`). `Settling`
follows the maps through that detour, one entry after the other. This holds for any order
in which the boot goes through the players, and gives `IndexExact` and `IdentityRestored`.

**ClientBoard.** For any board, mines, size of the queue and numbers of clicks, views and
connections. Both properties speak of the moment when nothing is under way; the invariant
(`ClientInv`) says where everything is until then. For `NothingMissing`, a resolved cell of a
subscribed chunk is still to be read for a synchronisation, in a broadcast that is not
queued, in a message to the client, or on his board and there in no click that an answer
might still undo (`Tracked`). Each message that shows the cell also sees to the last
part: a broadcast makes the client forget what clicks did in the chunk, a
synchronisation that finds such a click makes the chunk `crossed`, and a click guesses
only what is not shown. For `NothingInvented`, what the client shows is so, or the guess of a
remembered click (`Explained`), and every remembered click has an answer under way or a
command that will get one (`Awaited`). Nothing in this depends on the order in which the queue is
emptied or on the wait of the mailbox for its own broadcasts: `crossed` and `unhinged` are
the only exceptions that swaps of messages call for.

**Subscriptions.** For any connections, players, chunks, views and capacity.
`NothingLeaks` is not inductive: it says that what is kept under an id is used or about to
be dropped, and needs to know who may use an id. `IInv` adds `Registered` (an open
connection is among the connections of its id, and nobody else uses the id of a
spectator). The two halves of a removal are the interesting cases (`LeaveStep`,
`ForgetLeftStep`): the second half drops everything under the id whether or not somebody
has come back, which is why nothing leaks and why one who comes back loses subscriptions.
`MapsAgree` is proved place by place, since each edits the maps in its own way: joins and removals
(`ForgetAgrees`), views with their two kinds of eviction (`ViewAgrees`), single chunks (`AddAgrees`,
`DropAgrees`). Each lemma computes what the three maps hold for the id afterwards, and that nothing
changed for the others (`EditsAgree`).
`ViewIsFresh` needs all of it, and `Sees`: a client alone with its id has, or is about to
be sent, a current copy of all that its id is subscribed to, and shows nothing else.

**Viewing.** `NeverDeafHolds`: for any places, sizes, prefetch, margin and queues, and any
radius that satisfies `RadiusAssumption`, no chunk whose changes the server sends is
missing on the client, but for `shared`. The argument runs through every message under
way, so

    IInv == Types /\ Apart /\ LastIsSent /\ LastCovers /\ NeverDeaf

adds that the server has a connection only while the client has it open (`Apart`), that
behind every view on its way comes, in the end, the one the client recorded as sent
(`LastIsSent`), and that what is subscribed lies in the window of that one, or of none and
is about to be dropped (`LastCovers`): a view that is not sent, being the same as the
last, evicts chunks like one that is. `WindowNear` turns the window into a distance, which
the radius exceeds.

**Screen.** For any chunks, cells and pictures, any number of clicks without an answer and any
order of messages. `NoneForgottenHolds`:
a blank cell waits for a seed that is missing, or is a guess; it rests on `NeededIsNear`,
that the chunks around those whose seeds came include every chunk with a cell that needed
them. `PictureIsCurrentHolds`: pictures that pass for fresh are (`ExactIn`), and a chunk
that was never touched has nothing to show (`Untouched`), so that a frame which asks for
no other has drawn everything as it is. A frame is a recursion over the chunks it may
draw, stopped anywhere by its budget; `DrawnWell` is what has been achieved when it has
come to a chunk.

**Overview.** For any chunks, regions and resolutions. A copy at revision `v` may show some of its
chunks as they became after `v`, since a request reads them one by one while the rounds go on, so
a copy is not simply the picture of its revision. The invariant gives every revision a floor,
what it showed of each chunk, and says of each copy, wherever it is (on the server, in a request that
is being answered, on its way, on the client), that it is not below the floor of its
revision, and of the patches behind it that they form a `Stream`: ordered, never older than
the copy, and together reaching the floor of every revision they raise it to. Taking the
oldest patch of a stream leaves a stream (`StreamTake`); a round adds a patch at its end. `LastViewServed` needs
beside it that there is one round trip at a time (`OneTrip`) and that what the client takes to be
subscribed or pending is what the server has, once it has heard of it (`Wishes`).

**Minimap.** For any finite set of tiles, any cells and resolutions, connections and numbers of
changes, views, joins and lost connections. `CountsAgree` is inductive on the types;
`AllocatedForSubscribers` is part of `TileState`. `ShownIsCurrent` speaks of the moment when
nothing is under way, so the invariant says where every cell is until then (`Tracking`): in a
tile whose requests have been taken up (`Settled`), each cell of the board is marked for the
next round, still to be read, or `Carried`. That is: the copy has it and nothing under way takes it away
(`Safe`); or a picture brings it, waiting for a frame, in a message, in the batch that is
being read or in the hands of the broadcaster, and no picture behind it lacks the cell unless it is
older, nor does a newer delta remove it (`Brings`); or a delta brings it that is newer than the copy and
than every delta before it (`Ahead`). One lemma says for each step a message can take (sent,
arriving, drawn) that what was carried is still carried, whatever stood behind it in the
queues. The rest of the invariant makes the comparisons of versions mean something: no version
under way is above the tile's (`Underway`), the messages of a round have the version of the tile and
lack only what was marked since (`Round`), and a request at another resolution is followed by one
that asks again (`Requesting`). The proof is why `kept` speaks of old connections: without that, the
invariant failed at two steps, each of which gave a counterexample that is too long for the run.

**Gestures.** For any number of fingers, mice and presses. While a press that has had the board
to itself is down, nobody else is down, a live timer of its own is the one the hook remembers, and what
has come of it shows in the drag (`Lonely`, `Along`); once it is over, all that may still come
is its long press, and only if nothing else has come (`Over`). `Rest` says when the hook has no
drag and no pinch: when nobody is down, and no drag while two fingers are. The timer of a
press that was not alone may stay behind, which `MCGesturesPinch.cfg` shows.

**What is assumed.** Of constants, only what the code has: neighbours and the proximity
square are symmetric, the square holds the neighbours (`proximityRadius` is 2, and
`SquareSymmetric` shows the symmetry of the plane); thresholds of advancements are positive; players, advancements, chunks and
the chunks of a view are finite (coordinates are 64-bit integers, a view is a rectangle);
the token that stands for no snapshot is not a world and no file, the one for no subscription no
message; a disk has room for one more file; no finger is a mouse; minimap tiles are
finite, and the pixels of a resolution cover the chunk. TLC evaluates each of these
assumptions in the runs.

**Only model-checked.** Every invariant that a passing run checks is proved. All liveness
(`PlayIsKept`, `LongPressAnswered`, `ShownIsServed`, `ComesBack`, `NumbersAppear`) stays
with TLC: ENABLED and fairness are out of the prover's reach. What `ListedIsCovered` and
the six properties of "Known divergences" say is refuted.

## 5. Not modelled, and the plan

Not modelled because there is nothing to check in a state machine: the drawing of a
cell, dialogs and panels, static files, statistics page, metrics, development bots, generated
encoders, gob and gzip (a snapshot is one value, or two halves), floating-point
density and multipliers.

Planned, in this order:

1. *Leaderboard and queue drops*: versions recorded as sent for messages that were
   dropped.
2. *Pure parts* as operators against reference definitions: palette of a chunk
   (`flags.go:127`), majority vote (`territory.go:36`), token bucket (`types.go:115`),
   the threshold of mines in 32 and in 64 bits (`game.go:88`,
   `useGameState.js:163`).
3. *The cache of chunk messages* (`websocket.go:885`), filled and emptied under `stateMu`.

The modules to be proved about declare no RECURSIVE operator; folds of the
community modules and least sets stand in for loops.

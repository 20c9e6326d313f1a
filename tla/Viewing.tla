------------------------------ MODULE Viewing ------------------------------
(***************************************************************************)
(* The camera, the connection and what of the board both ends think the    *)
(* client has (frontend/src/App.jsx, useGameState.js and cellStore.js).    *)
(*                                                                         *)
(* A browser runs one task at a time: an event handler, a message, a       *)
(* timer, the effects of a render (Effects) or the callbacks asked for     *)
(* before a frame (Frame).  Each is an action; the camera, the state that  *)
(* React has committed and the view the server knows follow each other     *)
(* through several of them.  The server is external to this module but for *)
(* its rectangle of chunks; Subscriptions has the rest of it.              *)
(*                                                                         *)
(* One dimension stands for both: rectangles and distances are taken per   *)
(* coordinate.  Places are chunks, sizes are in chunks.                    *)
(***************************************************************************)
EXTENDS Integers, Sequences

CONSTANTS
    Place,        \* chunks the camera can be centred on
    Size,         \* sizes of the screen, in chunks, at the zooms there are
    Start,        \* the view of the session, where the client begins
    Spawn,        \* the place the server suggests
    MinPrefetch, MaxPrefetch,  \* chunks asked for beyond each edge
    Margin,       \* retentionMargin
    Radius,       \* chunks farther than this are evicted by the client
    MaxMoves,     \* bound: moves of the camera and resizes
    MaxLosses,    \* bound: lost connections and failed attempts
    MaxQueue      \* bound: messages under way to the server

View == [x : Place, n : Size]

ASSUME ViewingAssumption ==
    /\ Place \subseteq Int /\ Size \subseteq Nat \ {0} /\ Start \in View /\ Spawn \in Place
    /\ MinPrefetch \in Nat /\ MaxPrefetch \in Nat /\ MinPrefetch <= MaxPrefetch
    /\ Margin \in Nat /\ Radius \in Nat
    /\ MaxMoves \in Nat /\ MaxLosses \in Nat /\ MaxQueue \in Nat

\* "Radius must stay above the server's subscription+retention rect".
ASSUME RadiusAssumption == \A n \in Size : (n + 2 * MaxPrefetch) \div 2 + Margin <= Radius

VARIABLES
    cam,       \* viewRef and zoomRef: where the camera is
    shown,     \* viewX, viewY: the place React has committed
    frame,     \* what runs before the next frame: "commit" (rafRef), "ask"
               \* (sendViewportUpdate), "spawn" (maybeApply), and "consider"
    effects,   \* the dependencies that have changed since effects last ran
    pending,   \* the view sendViewUpdate is about to consider
    last,      \* lastViewSentRef, or NoView
    held,      \* the chunks in the stores of the client
    link,      \* the connection as the client sees it
    hint,      \* whether serverSpawnRef holds a place not yet applied
    up, down,  \* messages under way to and from the server
    srv,       \* what the server has the connection for
    subs,      \* the chunks it has subscribed the connection's id to
    old,       \* the player's previous connection, if the server has it still
    lapse,     \* history: why the client may be left without its view
    heard,     \* history: whether the last view was sent under the present id
    moves, losses

client == <<cam, shown, frame, effects, pending, last, hint>>
server == <<srv, subs, old>>
vars == <<client, held, link, up, down, server, lapse, heard, moves, losses>>

NoView == [x |-> 0, n |-> 0]
Gone == [there |-> FALSE, kept |-> {}]

Init ==
    /\ cam = Start /\ shown = Start.x
    /\ frame = {"ask"} /\ effects = {} /\ pending = NoView
    /\ last = NoView /\ hint = FALSE
    /\ held = {}
    /\ \E creds \in BOOLEAN :
          link = [sock |-> "connecting", retry |-> FALSE, rejoin |-> FALSE,
                  joined |-> FALSE, creds |-> creds]
    /\ up = <<>> /\ down = <<>>
    /\ srv = "none" /\ subs = {} /\ old = Gone
    /\ lapse = {} /\ heard = FALSE
    /\ moves = 0 /\ losses = 0

-----------------------------------------------------------------------------
(* Rectangles of chunks. *)

Clamp(m) == IF m < MinPrefetch THEN MinPrefetch ELSE IF m > MaxPrefetch THEN MaxPrefetch ELSE m
Wide(n) == n + 2 * Clamp(n \div 2)
First(v) == v.x - Wide(v.n) \div 2

Rect(v) == First(v) .. First(v) + Wide(v.n) - 1
Window(v) == First(v) - Margin .. First(v) + Wide(v.n) - 1 + Margin

\* What evictFarKeys leaves in the stores.
Near(v) == v.x - Radius .. v.x + Radius

-----------------------------------------------------------------------------
(* The camera. *)

\* scheduleViewUpdate
MoveTo(x) ==
    /\ cam' = [cam EXCEPT !.x = x]
    /\ frame' = frame \cup {"commit"}

\* Pans of a player by finger, mouse or key; anyone's double click on a map.
Navigate ==
    /\ moves < MaxMoves /\ moves' = moves + 1
    /\ \E x \in Place \ {cam.x} : MoveTo(x)
    /\ UNCHANGED <<shown, effects, pending, last, hint, held, link, up, down, server, lapse, heard, losses>>

\* Wheel and pinch, around some place of the screen.
Zoom ==
    /\ link.joined
    /\ moves < MaxMoves /\ moves' = moves + 1
    /\ \E n \in Size \ {cam.n}, x \in Place : cam' = [x |-> x, n |-> n]
    /\ frame' = frame \cup {"commit"}
    /\ effects' = effects \cup {"zoom"}
    /\ UNCHANGED <<shown, pending, last, hint, held, link, up, down, server, lapse, heard, losses>>

\* A click commits a camera that is on the move at once.
Click ==
    /\ link.joined /\ "commit" \in frame
    /\ frame' = frame \ {"commit"}
    /\ shown' = cam.x
    /\ effects' = IF shown' # shown THEN effects \cup {"view"} ELSE effects
    /\ UNCHANGED <<cam, pending, last, hint, held, link, up, down, server, lapse, heard, moves, losses>>

\* A resize, or a spectator nudging the server.
Resize ==
    /\ moves < MaxMoves /\ moves' = moves + 1
    /\ frame' = frame \cup {"ask"}
    /\ UNCHANGED <<cam, shown, effects, pending, last, hint, held, link, up, down, server, lapse, heard, losses>>

\* The effects that follow a render, in the order of App.jsx: views are asked
\* for, the camera is set to what was committed, the hint is applied.
\* Variant: nothing is asked for when the player has joined.
VariantAsks(changed) == "view" \in changed \/ ("zoom" \in changed /\ link.joined)
Asks(changed) == changed \cap {"view", "connected"} # {} \/ ("zoom" \in changed /\ link.joined)

\* The camera is set to what was committed.
Synced == IF "view" \in effects THEN shown ELSE cam.x

\* maybeApply, as an effect or before a frame: the hint is applied once.
Spawns(due) == due /\ hint

Effects ==
    /\ effects # {} /\ effects' = {}
    /\ LET spawns == Spawns("connected" \in effects)
           asked == IF Asks(effects) THEN {"ask"} ELSE {}
           again == IF "connected" \in effects THEN {"spawn"} ELSE {}
           moved == IF spawns THEN {"commit"} ELSE {}
       IN  /\ cam' = [cam EXCEPT !.x = IF spawns THEN Spawn ELSE Synced]
           /\ frame' = frame \cup asked \cup again \cup moved
           /\ hint' = (hint /\ ~ spawns)
    /\ UNCHANGED <<shown, pending, last, held, link, up, down, server, lapse, heard, moves, losses>>

-----------------------------------------------------------------------------
(* sendViewUpdate. *)

SameRect == last # NoView /\ First(last) = First(pending) /\ Wide(last.n) = Wide(pending.n)

\* recent: the last view was recorded less than MIN_VIEW_SEND_INTERVAL_MS ago.
Coalesced(recent) == SameRect /\ recent

\* Chunks far from the view are dropped, at most every half minute.
\* Variant: everything out of the rectangle is.
VariantEvictFar(chunks, v) == chunks \cap Rect(v)
EvictFar(chunks, v) == chunks \cap Near(v)

\* Coalesced: the view was recorded as sent already.
Skip ==
    /\ lapse' = IF link.joined /\ ~ heard THEN lapse \cup {"coalesced"} ELSE lapse
    /\ UNCHANGED <<last, up, heard>>

\* A view is recorded as sent before it is known whether it can be.
Send ==
    /\ last' = pending
    /\ IF link.sock = "open" /\ srv # "none"
       THEN /\ Len(up) < MaxQueue
            /\ up' = Append(up, [kind |-> "view", view |-> pending])
            /\ heard' = TRUE
            /\ lapse' = lapse \ {"coalesced", "overtaken"}
       ELSE heard' = FALSE /\ UNCHANGED <<up, lapse>>

\* Time is not modelled: how long ago the last view was recorded is a choice.
Consider ==
    /\ \/ held' = held
       \/ held' = EvictFar(held, pending)
    /\ \E recent \in BOOLEAN : IF Coalesced(recent) THEN Skip ELSE Send

\* The callbacks of one frame; those they ask for run in the next one.  The
\* camera is committed before the hint moves it (early) or after.
Frame ==
    /\ frame # {}
    /\ IF "consider" \in frame THEN Consider ELSE UNCHANGED <<last, held, up, lapse, heard>>
    /\ LET spawns == Spawns("spawn" \in frame)
       IN  /\ pending' = IF "ask" \in frame THEN cam ELSE NoView
           /\ cam' = [cam EXCEPT !.x = IF spawns THEN Spawn ELSE @]
           /\ hint' = (hint /\ ~ spawns)
           /\ \E early \in {"commit" \notin frame, spawns} :
                 /\ shown' = IF "commit" \notin frame THEN shown
                              ELSE IF early THEN cam.x ELSE cam'.x
                 /\ frame' = (IF "ask" \in frame THEN {"consider"} ELSE {})
                       \cup (IF spawns THEN {"ask"} ELSE {})
                       \cup (IF spawns /\ early THEN {"commit"} ELSE {})
           /\ effects' = IF shown' # shown THEN effects \cup {"view"} ELSE effects
    /\ UNCHANGED <<link, down, server, moves, losses>>

-----------------------------------------------------------------------------
(* The connection. *)

\* By the timer, or because the page is visible again.
MayConnect == link.retry \/ link.creds

\* connectWebSocket, which may take the place of a socket that is closing.
Connect ==
    /\ MayConnect
    /\ link.sock \in {"none", "closing"}
    /\ link' = [link EXCEPT !.sock = "connecting", !.retry = FALSE]
    /\ down' = <<>>
    /\ UNCHANGED <<client, held, up, server, lapse, heard, moves, losses>>

\* onopen
Open ==
    /\ link.sock = "connecting"
    /\ link' = [link EXCEPT !.sock = "open", !.rejoin = link.creds]
    /\ srv' = "spectator"
    /\ lapse' = {} /\ heard' = FALSE
    /\ UNCHANGED <<client, held, up, down, subs, old, moves, losses>>

\* joinGame, and the rejoin with stored credentials.  What was sent before it
\* goes to the spectator, whose subscriptions are dropped.
SendJoin ==
    /\ link.sock = "open" /\ srv = "spectator"
    /\ link.rejoin \/ ~ link.joined
    /\ \A i \in DOMAIN up : up[i].kind # "join"
    /\ \A i \in DOMAIN down : down[i].kind # "ack"
    /\ Len(up) < MaxQueue
    /\ up' = Append(up, [kind |-> "join"])
    /\ link' = [link EXCEPT !.rejoin = FALSE]
    /\ heard' = FALSE
    /\ UNCHANGED <<client, held, down, server, lapse, moves, losses>>

Arrive(msg) ==
    CASE msg.kind = "sync" ->
            /\ held' = held \cup msg.chunks
            /\ UNCHANGED <<link, effects, hint, lapse>>
      [] msg.kind = "ack" ->
            /\ link' = [link EXCEPT !.joined = @ \/ msg.ok, !.creds = msg.ok]
            /\ effects' = IF msg.ok /\ ~ link.joined THEN effects \cup {"connected"} ELSE effects
            /\ lapse' = IF msg.ok /\ link.joined /\ ~ heard THEN lapse \cup {"overtaken"} ELSE lapse
            /\ UNCHANGED <<held, hint>>
      [] msg.kind = "hint" ->
            /\ hint' = TRUE
            /\ UNCHANGED <<held, link, effects, lapse>>

Deliver ==
    /\ down # <<>> /\ link.sock \in {"open", "closing"}
    /\ Arrive(Head(down))
    /\ down' = Tail(down)
    /\ UNCHANGED <<cam, shown, frame, pending, last, up, server, heard, moves, losses>>

\* The connection breaks: the server forgets it at once or only later, the
\* client may begin to close it or notice nothing yet.
Lose ==
    /\ losses < MaxLosses /\ losses' = losses + 1
    /\ link.sock = "open" /\ srv # "none"
    /\ \E sock \in {"open", "closing"} : link' = [link EXCEPT !.sock = sock, !.rejoin = FALSE]
    /\ \E stays \in BOOLEAN :
          old' = IF srv = "player" /\ (stays \/ old.there)
                 THEN [there |-> TRUE, kept |-> subs] ELSE old
    /\ srv' = "none" /\ subs' = {} /\ up' = <<>>
    /\ UNCHANGED <<client, held, down, lapse, heard, moves>>

\* onclose: of a connection, or of an attempt.
\* Variant: no new attempt is made when one has failed.
VariantRetries == link.sock # "connecting"
Retries == TRUE

Close ==
    /\ \/ link.sock \in {"open", "closing"} /\ srv = "none" /\ UNCHANGED losses
       \/ link.sock = "connecting" /\ losses < MaxLosses /\ losses' = losses + 1
    /\ link' = [link EXCEPT !.sock = "none", !.retry = Retries, !.rejoin = FALSE, !.joined = FALSE]
    /\ effects' = IF link.joined THEN effects \cup {"connected"} ELSE effects
    /\ held' = {} /\ down' = <<>>
    /\ UNCHANGED <<cam, shown, frame, pending, last, hint, up, server, lapse, heard, moves>>

-----------------------------------------------------------------------------
(* The server. *)

\* ViewUpdate: the chunks of the rectangle that are new are sent, those well
\* outside of it are dropped.
Look(v) ==
    /\ subs' = (subs \cap Window(v)) \cup Rect(v)
    /\ down' = IF Rect(v) \subseteq subs THEN down
               ELSE Append(down, [kind |-> "sync", chunks |-> Rect(v) \ subs])
    /\ UNCHANGED <<srv, old, lapse>>

\* handleJoin: what the spectator was subscribed to is dropped.  The player has
\* no subscriptions, unless an old connection of his holds some.
Admit ==
    /\ srv' = "player"
    /\ subs' = old.kept
    /\ old' = [old EXCEPT !.kept = {}]
    /\ lapse' = IF old.there THEN lapse \cup {"shared"} ELSE lapse
    /\ down' = down \o <<[kind |-> "ack", ok |-> TRUE], [kind |-> "hint"]>>

Refuse ==
    /\ down' = Append(down, [kind |-> "ack", ok |-> FALSE])
    /\ UNCHANGED <<srv, subs, old, lapse>>

Serve ==
    /\ up # <<>> /\ up' = Tail(up)
    /\ \/ Head(up).kind = "view" /\ Look(Head(up).view)
       \/ Head(up).kind = "join" /\ (Admit \/ Refuse)
    /\ UNCHANGED <<client, held, link, heard, moves, losses>>

\* The server notices that the previous connection is dead.
Reap ==
    /\ old.there /\ old' = Gone
    /\ UNCHANGED <<client, held, link, up, down, srv, subs, lapse, heard, moves, losses>>

Next ==
    \/ Navigate \/ Zoom \/ Click \/ Resize \/ Effects \/ Frame
    \/ Connect \/ Open \/ SendJoin \/ Deliver \/ Lose \/ Close
    \/ Serve \/ Reap

\* What goes on by itself: effects, frames, timers and messages, the answers of
\* the server, and the stored credentials, which are used once per connection.
Progress ==
    \/ Effects \/ Frame \/ Deliver \/ Serve
    \/ link.retry /\ Connect
    \/ Open \/ Close
    \/ link.rejoin /\ SendJoin

\* Not all of it stops while there is something to do.
Fairness == WF_vars(Progress)

Spec == Init /\ [][Next]_vars /\ Fairness

-----------------------------------------------------------------------------
(* Properties. *)

Coming == UNION {down[i].chunks : i \in {j \in DOMAIN down : down[j].kind = "sync"}}
Leaving(c) == \E i \in DOMAIN up : up[i].kind = "view" /\ c \notin Window(up[i].view)

\* "Still-subscribed chunks would be dropped locally and never resynced": a
\* chunk the server holds the client to be subscribed to is in its stores, on
\* its way there, or about to be unsubscribed by a view that is on its way;
\* through evictions, pans and reconnects.  The exception is a player whose old
\* connection the server still had when he joined again.
NeverDeaf == "shared" \notin lapse => \A c \in subs : c \in held \cup Coming \/ Leaving(c)

Playing == link.sock = "open" /\ srv = "player" /\ link.joined

\* When the camera and the connection come to rest, a player has on his side and
\* is subscribed to on the other everything the camera shows; unless his view
\* was taken for one just sent before he had joined (coalesced), his connection
\* took the place of one whose end was not noticed (overtaken) or he shared his
\* id with the old one (shared): then it takes another move.
ShownIsServed == <>[](Playing /\ lapse = {} => Rect(cam) \subseteq held \cap subs)

\* A client with stored credentials ends up playing, however connections and
\* attempts fail and whatever it was doing then.
ComesBack == <>[](link.creds => Playing)
=============================================================================

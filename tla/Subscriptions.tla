---------------------------- MODULE Subscriptions ----------------------------
(***************************************************************************)
(* Connections, identities and chunk subscriptions (backend/websocket.go). *)
(*                                                                         *)
(* A connection starts as a spectator under an id of its own and moves to  *)
(* a player's id when it joins; several connections may share that id.     *)
(* Subscriptions belong to ids.  The server sends a chunk when it is added *)
(* and broadcasts its changes to the ids subscribed, so a client's copy of *)
(* a chunk stays fresh only while its id stays subscribed.                 *)
(*                                                                         *)
(* Every action is one critical section of stateMu or playersMu, or one    *)
(* send.  The goroutine that reads a connection (readPump) runs them in    *)
(* order; those of other connections come in between.  What the same       *)
(* handlers do to the minimap and the overview is left out.                *)
(***************************************************************************)
EXTENDS Integers, Sequences, FiniteSets, SequencesExt, Functions

CONSTANTS
    Conn,     \* connections; the spectator id of k is k
    Player,   \* ids of players
    Chunk,
    Views,    \* views: the chunks in the rectangle around them, and those near
              \* enough to it to be kept (retentionMargin)
    MaxSubs   \* maxPlayerSubs

NoId == "none"
Id == Conn \cup Player

ASSUME SubscriptionsAssumption ==
    /\ Conn \cap Player = {} /\ NoId \notin Id
    /\ Views \subseteq [rect : SUBSET Chunk, near : SUBSET Chunk]
    /\ \A v \in Views : v.rect \subseteq v.near /\ IsFiniteSet(v.rect)
    /\ MaxSubs \in Nat \ {0}

VARIABLES
    id,          \* id[k]: Player.ID of the connection, or NoId
    players,     \* players[i]: the connections that use id i
    pump,        \* pump[k]: what the goroutine of k has to do next
    playerViews, \* the ids whose view is recorded
    subs,        \* subs[c]: the ids subscribed to c
    playerSubs,  \* playerSubs[i]: the chunks i is subscribed to
    lastSeen,    \* playerSubLastSeen[i]: the same chunks, oldest tick first
    fresh,       \* fresh[k]: the chunks of which k's client has a current copy
    shown,       \* shown[k]: the chunks its client has in view and was sent
    alone        \* history: whether no other connection has used k's id; for
                 \* one that is not alone fresh and shown are no longer kept

maps == <<subs, playerSubs, lastSeen>>
vars == <<id, players, pump, playerViews, maps, fresh, shown, alone>>

Idle == [do |-> "read"]
Off == [do |-> "off"]

Init ==
    /\ id = [k \in Conn |-> NoId]
    /\ players = [i \in Id |-> {}]
    /\ pump = [k \in Conn |-> Off]
    /\ playerViews = {}
    /\ subs = [c \in Chunk |-> {}]
    /\ playerSubs = [i \in Id |-> {}]
    /\ lastSeen = [i \in Id |-> <<>>]
    /\ fresh = [k \in Conn |-> {}]
    /\ shown = [k \in Conn |-> {}]
    /\ alone = [k \in Conn |-> TRUE]

-----------------------------------------------------------------------------
(* What the capacity takes away. *)

Without(seq, S) ==
    FoldLeft(LAMBDA rest, c : IF c \in S THEN rest ELSE Append(rest, c), <<>>, seq)

\* The tick at which c was seen, 0 where there is none.
SeenAt(seen, c) == IF c \in Range(seen) THEN CHOOSE n \in DOMAIN seen : seen[n] = c ELSE 0

\* The n chunks of S that were seen the longest ago.
Oldest(S, n, seen) ==
    {c \in S : Cardinality({d \in S : SeenAt(seen, d) < SeenAt(seen, c)}) < n}

\* Of the chunks held, the oldest over the capacity, those of rect last of all.
\* Variant: those of rect first.
VariantOverCapacity(held, rect, seen) ==
    LET over == Cardinality(held) - MaxSubs
        inside == held \cap rect
    IN  Oldest(inside, over, seen)
        \cup Oldest(held \ rect, over - Cardinality(inside), seen)
OverCapacity(held, rect, seen) ==
    LET over == Cardinality(held) - MaxSubs
        outside == held \ rect
    IN  Oldest(outside, over, seen)
        \cup Oldest(held \cap rect, over - Cardinality(outside), seen)

-----------------------------------------------------------------------------
(* What a client has of the chunks. *)

Delivered(i, S) ==
    fresh' = [k \in Conn |-> IF k \in players[i] /\ alone[k] THEN fresh[k] \cup S ELSE fresh[k]]

-----------------------------------------------------------------------------
(* Connections. *)

Connect(k) ==
    /\ pump[k] = Off
    /\ id' = [id EXCEPT ![k] = k]
    /\ players' = [players EXCEPT ![k] = {k}]
    /\ pump' = [pump EXCEPT ![k] = Idle]
    /\ alone' = [alone EXCEPT ![k] = TRUE]
    /\ UNCHANGED <<playerViews, maps, fresh, shown>>

\* handleJoin: what was kept under the spectator id is dropped, map by map.
ForgetSpectator(k) ==
    /\ playerViews' = playerViews \ {k}
    /\ playerSubs' = [playerSubs EXCEPT ![k] = {}]
    /\ lastSeen' = [lastSeen EXCEPT ![k] = <<>>]
    /\ subs' = [c \in Chunk |-> subs[c] \ {k}]

\* handleJoin: the connection moves from its spectator id to the player's; the
\* client sends its view again.
Join(k, p) ==
    /\ pump[k] = Idle /\ id[k] = k
    /\ id' = [id EXCEPT ![k] = p]
    /\ players' = [players EXCEPT ![k] = {}, ![p] = @ \cup {k}]
    /\ ForgetSpectator(k)
    /\ LET others == {j \in Conn : id[j] = p}
       IN  alone' = [j \in Conn |-> IF j \in others \/ (j = k /\ others # {})
                                       THEN FALSE ELSE alone[j]]
    /\ shown' = [j \in Conn |-> IF alone'[j] /\ j # k THEN shown[j] ELSE {}]
    /\ fresh' = [j \in Conn |-> IF alone'[j] THEN fresh[j] ELSE {}]
    /\ UNCHANGED pump

\* removePlayer, under playersMu: the connection leaves its id.
\* Variant: the id is taken to be in use still.
VariantNobodyElse(k) == FALSE
NobodyElse(k) == players[id[k]] = {k}

Leave(k) ==
    /\ pump[k] = Idle
    /\ players' = [players EXCEPT ![id[k]] = @ \ {k}]
    /\ pump' = [pump EXCEPT ![k] = [do |-> "forget", all |-> NobodyElse(k)]]
    /\ fresh' = [fresh EXCEPT ![k] = {}]
    /\ shown' = [shown EXCEPT ![k] = {}]
    /\ UNCHANGED <<id, playerViews, maps, alone>>

\* removePlayer: what was kept under id i is dropped, map by map.
\* Variant: the index by chunk is left alone.
VariantForgetPlayer(i) ==
    /\ playerSubs' = [playerSubs EXCEPT ![i] = {}]
    /\ lastSeen' = [lastSeen EXCEPT ![i] = <<>>]
    /\ playerViews' = playerViews \ {i}
    /\ UNCHANGED subs
ForgetPlayer(i) ==
    /\ subs' = [c \in Chunk |-> subs[c] \ {i}]
    /\ playerSubs' = [playerSubs EXCEPT ![i] = {}]
    /\ lastSeen' = [lastSeen EXCEPT ![i] = <<>>]
    /\ playerViews' = playerViews \ {i}

\* removePlayer, under stateMu: what the id had is dropped when k was the last.
ForgetLeft(k) ==
    /\ pump[k].do = "forget"
    /\ IF pump[k].all THEN ForgetPlayer(id[k]) ELSE UNCHANGED <<playerViews, maps>>
    /\ id' = [id EXCEPT ![k] = NoId]
    /\ pump' = [pump EXCEPT ![k] = Off]
    /\ UNCHANGED <<players, fresh, shown, alone>>

-----------------------------------------------------------------------------
(* ViewUpdate. *)

\* With maxViewCells and the real capacity every view fits.
Fits(v) == Cardinality(v.rect) <= MaxSubs

\* The view is recorded.  From here on the client shows it.
RecordView(k, v) ==
    /\ pump[k] = Idle
    /\ playerViews' = playerViews \cup {id[k]}
    /\ pump' = [pump EXCEPT ![k] = [do |-> "subscribe", view |-> v]]
    /\ shown' = [shown EXCEPT ![k] = IF Fits(v) THEN @ \cap v.rect ELSE {}]
    /\ UNCHANGED <<id, players, maps, fresh, alone>>

\* The chunks that are added: the ones to be sent.
Adds(i, v) == v.rect \ playerSubs[i]

\* The chunks of the rectangle are seen now, in any order.
Touched(i, v, order) == Without(lastSeen[i], v.rect) \o order

\* The chunks that go: the far ones, then the ones over the capacity.
Gone(i, v, seen) ==
    LET held == playerSubs[i] \cup Adds(i, v)
    IN  (held \ v.near) \cup OverCapacity(held \cap v.near, v.rect, seen)

\* The index by chunk after those of adds were added, and those of gone dropped.
\* Variant: what goes is not taken out of the index.
VariantIndexed(i, adds, gone) ==
    [c \in Chunk |-> IF c \in adds THEN subs[c] \cup {i} ELSE subs[c]]
Indexed(i, adds, gone) ==
    [c \in Chunk |-> IF c \in gone THEN subs[c] \ {i}
                     ELSE IF c \in adds THEN subs[c] \cup {i} ELSE subs[c]]

SubscribeView(k) ==
    /\ pump[k].do = "subscribe"
    /\ LET v == pump[k].view
           i == id[k]
       IN  /\ \E order \in SetToSeqs(v.rect) :
                 LET seen == Touched(i, v, order)
                     gone == Gone(i, v, seen)
                 IN  /\ subs' = Indexed(i, Adds(i, v), gone)
                     /\ playerSubs' = [playerSubs EXCEPT ![i] = (@ \cup Adds(i, v)) \ gone]
                     /\ lastSeen' = [lastSeen EXCEPT ![i] = Without(seen, gone)]
           /\ pump' = [pump EXCEPT ![k] =
                 [do |-> "send", copy |-> Adds(i, v), shows |-> IF Fits(v) THEN v.rect ELSE {}]]
    /\ UNCHANGED <<id, players, playerViews, fresh, shown, alone>>

\* sendChunkRegionSync sends the chunks that were added to every connection of
\* the id, without a lock.  It reads them after the subscription, under the read
\* lock; later than the model has it only makes them newer.
Send(k) ==
    /\ pump[k].do = "send"
    /\ Delivered(id[k], pump[k].copy)
    /\ shown' = [shown EXCEPT ![k] = IF alone[k] THEN pump[k].shows ELSE {}]
    /\ pump' = [pump EXCEPT ![k] = Idle]
    /\ UNCHANGED <<id, players, playerViews, maps, alone>>

-----------------------------------------------------------------------------
(* Single chunks. *)

\* subscribeToChunk; the web client does not use it.
SubscribeToChunk(k, c) ==
    /\ pump[k] = Idle
    /\ LET i == id[k]
           held == playerSubs[i] \cup {c}
           seen == Append(Without(lastSeen[i], {c}), c)
           evicted == Oldest(held \ {c}, Cardinality(held) - MaxSubs, seen)
       IN  /\ subs' = [d \in Chunk |-> IF d = c THEN subs[d] \cup {i}
                                       ELSE IF d \in evicted THEN subs[d] \ {i} ELSE subs[d]]
           /\ playerSubs' = [playerSubs EXCEPT ![i] = held \ evicted]
           /\ lastSeen' = [lastSeen EXCEPT ![i] = Without(seen, evicted)]
    /\ pump' = [pump EXCEPT ![k] = [do |-> "send", copy |-> {c}, shows |-> {}]]
    /\ shown' = [shown EXCEPT ![k] = {}]
    /\ UNCHANGED <<id, players, playerViews, fresh, alone>>

UnsubscribeFromChunk(k, c) ==
    /\ pump[k] = Idle
    /\ subs' = [subs EXCEPT ![c] = @ \ {id[k]}]
    /\ playerSubs' = [playerSubs EXCEPT ![id[k]] = @ \ {c}]
    /\ lastSeen' = [lastSeen EXCEPT ![id[k]] = Without(@, {c})]
    /\ shown' = [shown EXCEPT ![k] = @ \ {c}]
    /\ UNCHANGED <<id, players, pump, playerViews, fresh, alone>>

\* A change of c, broadcast to the ids that are subscribed: copies of others,
\* and those read but not sent yet, are out of date.
Change(c) ==
    LET told == {k \in Conn : \E i \in subs[c] : k \in players[i]}
    IN  /\ fresh' = [k \in Conn |-> IF k \in told THEN fresh[k] ELSE fresh[k] \ {c}]
        /\ pump' = [k \in Conn |->
              IF pump[k].do = "send" /\ id[k] \notin subs[c]
              THEN [pump[k] EXCEPT !.copy = @ \ {c}] ELSE pump[k]]
        /\ UNCHANGED <<id, players, playerViews, maps, shown, alone>>

Next ==
    \/ \E k \in Conn :
          \/ Connect(k) \/ Leave(k) \/ ForgetLeft(k)
          \/ \E p \in Player : Join(k, p)
          \/ \E v \in Views : RecordView(k, v)
          \/ SubscribeView(k) \/ Send(k)
          \/ \E c \in Chunk : SubscribeToChunk(k, c) \/ UnsubscribeFromChunk(k, c)
    \/ \E c \in Chunk : Change(c)

Spec == Init /\ [][Next]_vars

-----------------------------------------------------------------------------
(* Properties. *)

\* The three maps agree: who gets the changes of a chunk, what an id is
\* subscribed to and when it last saw it.  A view, a single chunk, a join and a
\* removal each edit them one after the other and by different rules.
MapsAgree ==
    \A i \in Id :
        /\ playerSubs[i] = {c \in Chunk : i \in subs[c]}
        /\ playerSubs[i] = Range(lastSeen[i])

\* Nothing is left of an id that no connection uses: when the last one has
\* gone, what was kept under it is dropped or about to be.
NothingLeaks ==
    \A i \in Id :
        playerSubs[i] # {} \/ i \in playerViews =>
            \/ players[i] # {}
            \/ \E k \in Conn : id[k] = i /\ pump[k].do = "forget" /\ pump[k].all

\* "Only clear subscriptions if no other connections remain for this playerID"
\* (websocket.go:1232): a removal takes nothing from an id in use.
OnlyUnusedCleared ==
    [][\A k \in Conn, i \in Id :
          ForgetLeft(k) /\ playerSubs'[i] # playerSubs[i] => players[i] = {}]_vars

\* A client that has its id to itself sees the world as it is: of what it has
\* in view and was sent once it misses no change, whatever it panned over in
\* between and whatever was evicted or dropped for being far.
ViewIsFresh == \A k \in Conn : alone[k] => shown[k] \subseteq fresh[k]

=============================================================================

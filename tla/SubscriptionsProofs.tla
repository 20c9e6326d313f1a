------------------------ MODULE SubscriptionsProofs -------------------------
(***************************************************************************)
(* Proofs about Subscriptions for any set of connections, players, chunks  *)
(* and views: nothing is kept under an id that nobody uses, the maps of    *)
(* subscriptions agree with each other, and a client that is alone with    *)
(* its id has a current copy of what it looks at.                          *)
(***************************************************************************)
EXTENDS Subscriptions, Induction

\* The steps a goroutine can be in.
Pump ==
    {Idle, Off}
    \cup [do : {"forget"}, all : BOOLEAN]
    \cup [do : {"subscribe"}, view : Views]
    \cup [do : {"send"}, copy : SUBSET Chunk, shows : SUBSET Chunk]

Shape ==
    /\ id \in [Conn -> Id \cup {NoId}]
    /\ players \in [Id -> SUBSET Conn]
    /\ pump \in [Conn -> Pump]
    /\ DOMAIN playerSubs = Id
    /\ playerViews \subseteq Id

\* A connection that is open is one of those of its id; one that is being
\* removed still has its id; a spectator's id is used by nobody else.
Reading(k) == pump[k].do \notin {"off", "forget"}
Registered ==
    \A k \in Conn :
        /\ pump[k].do # "off" => id[k] \in Id
        /\ Reading(k) => k \in players[id[k]]
        /\ id[k] \in Conn => id[k] = k

\* NothingLeaks is not inductive: that the last connection sees itself as the
\* last needs Registered.
IInv == Shape /\ Registered /\ NothingLeaks

\* Something is kept under id i; a connection is about to drop it.
Holds(i) == playerSubs[i] # {} \/ i \in playerViews
Leaving(k, i) == id[k] = i /\ pump[k].do = "forget" /\ pump[k].all

\* A step that leaves users and goroutines alone, apart from the goroutine of
\* one open connection, may keep more under the id of that connection only.
LEMMA PumpStep ==
    ASSUME IInv, NEW k \in Conn, Reading(k),
           UNCHANGED <<id, players>>,
           \E q \in Pump : q.do \notin {"off", "forget"} /\ pump' = [pump EXCEPT ![k] = q],
           DOMAIN playerSubs' = Id,
           \A i \in Id \ {id[k]} : playerSubs'[i] = playerSubs[i],
           playerViews' \subseteq playerViews \cup {id[k]}
    PROVE  IInv'
<1>1. PICK q \in Pump : q.do \notin {"off", "forget"} /\ pump' = [pump EXCEPT ![k] = q]
  OBVIOUS
<1>2. id[k] \in Id /\ k \in players[id[k]] /\ pump[k].do # "off"
  BY DEF IInv, Registered, Reading
<1>3. Shape'
  BY <1>1, <1>2 DEF IInv, Shape
<1>4. \A j \in Conn : j # k => pump'[j] = pump[j]
  BY <1>1 DEF IInv, Shape
<1>5. pump'[k] = q
  BY <1>1 DEF IInv, Shape
<1>6. Registered'
  BY <1>1, <1>2, <1>4, <1>5 DEF IInv, Registered, Reading
<1>7. NothingLeaks'
  <2> SUFFICES ASSUME NEW i \in Id, Holds(i)', players'[i] = {}
               PROVE  \E j \in Conn : Leaving(j, i)'
    BY DEF NothingLeaks, Holds, Leaving
  <2>1. i # id[k]
    BY <1>2
  <2>2. Holds(i)
    BY <2>1 DEF Holds
  <2>3. PICK j \in Conn : Leaving(j, i)
    BY <2>2 DEF IInv, NothingLeaks, Holds, Leaving
  <2>4. j # k
    BY <2>1, <2>3 DEF Leaving
  <2>5. QED
    BY <1>4, <2>3, <2>4 DEF Leaving
<1>8. QED
  BY <1>3, <1>6, <1>7 DEF IInv

LEMMA OwnOnly ==
    ASSUME Shape, NEW i \in Id, NEW S, playerSubs' = [playerSubs EXCEPT ![i] = S]
    PROVE  /\ DOMAIN playerSubs' = Id /\ playerSubs'[i] = S
           /\ \A j \in Id \ {i} : playerSubs'[j] = playerSubs[j]
BY DEF Shape

LEMMA ForgetDrops ==
    ASSUME Shape, NEW i \in Id, ForgetPlayer(i) \/ ForgetSpectator(i)
    PROVE  /\ DOMAIN playerSubs' = Id
           /\ \A j \in Id \ {i} : playerSubs'[j] = playerSubs[j]
           /\ playerSubs'[i] = {}
           /\ playerViews' = playerViews \ {i}
BY OwnOnly DEF ForgetPlayer, ForgetSpectator

LEMMA IdsApart == Conn \subseteq Id /\ NoId \notin Id /\ Conn \cap Player = {} /\ Player \subseteq Id
BY SubscriptionsAssumption DEF Id

LEMMA ConnectStep ==
    ASSUME IInv, NEW k \in Conn, Connect(k)
    PROVE  IInv'
<1>1. /\ pump[k] = Off
      /\ id' = [id EXCEPT ![k] = k]
      /\ players' = [players EXCEPT ![k] = {k}]
      /\ pump' = [pump EXCEPT ![k] = Idle]
      /\ UNCHANGED <<playerViews, playerSubs>>
  BY DEF Connect, maps
<1>2. Shape'
  BY <1>1, IdsApart DEF IInv, Shape, Pump
<1>3. /\ id'[k] = k /\ players'[k] = {k} /\ pump'[k] = Idle
      /\ \A j \in Conn \ {k} : id'[j] = id[j] /\ pump'[j] = pump[j]
      /\ \A i \in Id \ {k} : players'[i] = players[i]
  BY <1>1, IdsApart DEF IInv, Shape
<1>4. Registered'
  <2> SUFFICES ASSUME NEW j \in Conn
               PROVE  /\ pump'[j].do # "off" => id'[j] \in Id
                      /\ Reading(j)' => j \in players'[id'[j]]
                      /\ id'[j] \in Conn => id'[j] = j
    BY DEF Registered
  <2>1. CASE j = k
    BY <1>3, <2>1, IdsApart
  <2>2. CASE j # k
    BY <1>3, <2>2, IdsApart DEF IInv, Registered, Reading
  <2>3. QED
    BY <2>1, <2>2
<1>5. NothingLeaks'
  <2> SUFFICES ASSUME NEW i \in Id, Holds(i)', players'[i] = {}
               PROVE  \E j \in Conn : Leaving(j, i)'
    BY DEF NothingLeaks, Holds, Leaving
  <2>1. i # k /\ players[i] = {} /\ Holds(i)
    BY <1>1, <1>3 DEF Holds
  <2>2. PICK j \in Conn : Leaving(j, i)
    BY <2>1 DEF IInv, NothingLeaks, Holds, Leaving
  <2>3. j # k
    BY <1>1, <2>2 DEF Leaving, Off
  <2>4. QED
    BY <1>3, <2>2, <2>3 DEF Leaving
<1>6. QED
  BY <1>2, <1>4, <1>5 DEF IInv

LEMMA JoinStep ==
    ASSUME IInv, NEW k \in Conn, NEW p \in Player, Join(k, p)
    PROVE  IInv'
<1>1. /\ pump[k] = Idle /\ id[k] = k
      /\ id' = [id EXCEPT ![k] = p]
      /\ players' = [players EXCEPT ![k] = {}, ![p] = @ \cup {k}]
      /\ ForgetSpectator(k) /\ pump' = pump
  BY DEF Join
<1>2. k \in Id /\ p \in Id /\ k # p
  BY IdsApart
<1>3. /\ DOMAIN playerSubs' = Id /\ playerSubs'[k] = {} /\ playerViews' = playerViews \ {k}
      /\ \A i \in Id \ {k} : playerSubs'[i] = playerSubs[i]
  BY <1>1, <1>2, ForgetDrops DEF IInv
<1>4. /\ id'[k] = p /\ \A j \in Conn \ {k} : id'[j] = id[j]
      /\ players'[k] = {} /\ players'[p] = players[p] \cup {k}
      /\ \A i \in Id \ {k, p} : players'[i] = players[i]
  BY <1>1, <1>2 DEF IInv, Shape
<1>5. Shape'
  BY <1>1, <1>2, <1>3 DEF IInv, Shape
<1>6. Registered'
  <2> SUFFICES ASSUME NEW j \in Conn
               PROVE  /\ pump'[j].do # "off" => id'[j] \in Id
                      /\ Reading(j)' => j \in players'[id'[j]]
                      /\ id'[j] \in Conn => id'[j] = j
    BY DEF Registered
  <2>1. CASE j = k
    BY <1>2, <1>4, <2>1, IdsApart
  <2>2. CASE j # k
    <3>1. id'[j] = id[j] /\ pump'[j] = pump[j] /\ id[j] # k
      BY <1>1, <1>4, <2>2 DEF IInv, Registered
    <3>2. Reading(j) => id[j] \in Id /\ j \in players[id[j]]
      BY DEF IInv, Registered, Reading
    <3>3. Reading(j) => j \in players'[id[j]]
      BY <1>2, <1>4, <3>1, <3>2
    <3>4. QED
      BY <3>1, <3>3 DEF IInv, Registered, Reading
  <2>3. QED
    BY <2>1, <2>2
<1>7. NothingLeaks'
  <2> SUFFICES ASSUME NEW i \in Id, Holds(i)', players'[i] = {}
               PROVE  \E j \in Conn : Leaving(j, i)'
    BY DEF NothingLeaks, Holds, Leaving
  <2>1. i # k
    BY <1>3 DEF Holds
  <2>2. i # p
    BY <1>4
  <2>3. Holds(i) /\ players[i] = {}
    BY <1>3, <1>4, <2>1, <2>2 DEF Holds
  <2>4. PICK j \in Conn : Leaving(j, i)
    BY <2>3 DEF IInv, NothingLeaks, Holds, Leaving
  <2>5. j # k
    BY <1>1, <2>4 DEF Leaving, Idle
  <2>6. QED
    BY <1>1, <1>4, <2>4, <2>5 DEF Leaving
<1>8. QED
  BY <1>5, <1>6, <1>7 DEF IInv

LEMMA LeaveStep ==
    ASSUME IInv, NEW k \in Conn, Leave(k)
    PROVE  IInv'
<1> DEFINE own == id[k]
           gone == [do |-> "forget", all |-> NobodyElse(k)]
<1>1. /\ pump[k] = Idle
      /\ players' = [players EXCEPT ![own] = @ \ {k}]
      /\ pump' = [pump EXCEPT ![k] = gone]
      /\ UNCHANGED <<id, playerViews, playerSubs>>
  BY DEF Leave, maps
<1>2. own \in Id /\ k \in players[own]
  BY <1>1 DEF IInv, Registered, Reading, Idle
<1>3. gone \in Pump
  BY DEF Pump, NobodyElse
<1>4. /\ players'[own] = players[own] \ {k}
      /\ \A i \in Id \ {own} : players'[i] = players[i]
      /\ pump'[k] = gone /\ \A j \in Conn \ {k} : pump'[j] = pump[j]
  BY <1>1, <1>2 DEF IInv, Shape
<1>5. Shape'
  BY <1>1, <1>2, <1>3 DEF IInv, Shape
<1>6. Registered'
  <2> SUFFICES ASSUME NEW j \in Conn
               PROVE  /\ pump'[j].do # "off" => id'[j] \in Id
                      /\ Reading(j)' => j \in players'[id'[j]]
                      /\ id'[j] \in Conn => id'[j] = j
    BY DEF Registered
  <2>1. CASE j = k
    BY <1>1, <1>2, <1>4, <2>1 DEF IInv, Registered, Reading
  <2>2. CASE j # k
    <3>1. Reading(j) => id[j] \in Id /\ j \in players[id[j]]
      BY DEF IInv, Registered, Reading
    <3>2. Reading(j) => j \in players'[id[j]]
      BY <1>4, <2>2, <3>1
    <3>3. QED
      BY <1>1, <1>4, <2>2, <3>2 DEF IInv, Registered, Reading
  <2>3. QED
    BY <2>1, <2>2
<1>7. NothingLeaks'
  <2> SUFFICES ASSUME NEW i \in Id, Holds(i)', players'[i] = {}
               PROVE  \E j \in Conn : Leaving(j, i)'
    BY DEF NothingLeaks, Holds, Leaving
  <2>1. CASE i = own
    <3>1. NobodyElse(k)
      BY <1>2, <1>4, <2>1 DEF NobodyElse
    <3>2. Leaving(k, i)'
      BY <1>1, <1>4, <2>1, <3>1 DEF Leaving
    <3>3. QED
      BY <3>2
  <2>2. CASE i # own
    <3>1. Holds(i) /\ players[i] = {}
      BY <1>1, <1>4, <2>2 DEF Holds
    <3>2. PICK j \in Conn : Leaving(j, i)
      BY <3>1 DEF IInv, NothingLeaks, Holds, Leaving
    <3>3. j # k
      BY <2>2, <3>2 DEF Leaving
    <3>4. QED
      BY <1>1, <1>4, <3>2, <3>3 DEF Leaving
  <2>3. QED
    BY <2>1, <2>2
<1>8. QED
  BY <1>5, <1>6, <1>7 DEF IInv

LEMMA ForgetLeftStep ==
    ASSUME IInv, NEW k \in Conn, ForgetLeft(k)
    PROVE  IInv'
<1> DEFINE own == id[k]
<1>1. /\ pump[k].do = "forget"
      /\ IF pump[k].all THEN ForgetPlayer(own) ELSE UNCHANGED <<playerViews, playerSubs>>
      /\ id' = [id EXCEPT ![k] = NoId]
      /\ pump' = [pump EXCEPT ![k] = Off]
      /\ players' = players
  BY DEF ForgetLeft, maps
<1>2. own \in Id
  BY <1>1 DEF IInv, Registered
<1>3. /\ DOMAIN playerSubs' = Id /\ playerViews' \subseteq playerViews
      /\ \A i \in Id : Holds(i)' => Holds(i) /\ (i = own => ~ pump[k].all)
  <2>1. CASE pump[k].all
    BY <1>1, <1>2, <2>1, ForgetDrops DEF IInv, Holds
  <2>2. CASE ~ pump[k].all
    BY <1>1, <2>2 DEF IInv, Shape, Holds
  <2>3. QED
    BY <2>1, <2>2
<1>4. /\ id'[k] = NoId /\ pump'[k] = Off
      /\ \A j \in Conn \ {k} : id'[j] = id[j] /\ pump'[j] = pump[j]
  BY <1>1 DEF IInv, Shape
<1>5. Shape'
  BY <1>1, <1>3 DEF IInv, Shape, Pump
<1>6. Registered'
  BY <1>1, <1>4, IdsApart DEF IInv, Registered, Reading, Off
<1>7. NothingLeaks'
  <2> SUFFICES ASSUME NEW i \in Id, Holds(i)', players'[i] = {}
               PROVE  \E j \in Conn : Leaving(j, i)'
    BY DEF NothingLeaks, Holds, Leaving
  <2>1. Holds(i) /\ players[i] = {}
    BY <1>1, <1>3
  <2>2. PICK j \in Conn : Leaving(j, i)
    BY <2>1 DEF IInv, NothingLeaks, Holds, Leaving
  <2>3. j # k
    BY <1>3, <2>2 DEF Leaving
  <2>4. QED
    BY <1>4, <2>2, <2>3 DEF Leaving
<1>8. QED
  BY <1>5, <1>6, <1>7 DEF IInv

\* A change of a chunk only takes it out of copies that are not sent yet.
LEMMA ChangeStep ==
    ASSUME IInv, NEW c \in Chunk, Change(c)
    PROVE  IInv'
<1>1. /\ pump' = [k \in Conn |->
              IF pump[k].do = "send" /\ id[k] \notin subs[c]
              THEN [pump[k] EXCEPT !.copy = @ \ {c}] ELSE pump[k]]
      /\ UNCHANGED <<id, players, playerViews, playerSubs>>
  BY DEF Change, maps
<1>2. \A k \in Conn : /\ pump'[k] \in Pump
                      /\ pump'[k].do = pump[k].do
                      /\ pump[k].do # "send" => pump'[k] = pump[k]
  <2> SUFFICES ASSUME NEW k \in Conn
               PROVE  /\ pump'[k] \in Pump
                      /\ pump'[k].do = pump[k].do
                      /\ pump[k].do # "send" => pump'[k] = pump[k]
    OBVIOUS
  <2>1. pump[k] \in Pump
    BY DEF IInv, Shape
  <2>2. CASE pump[k].do = "send" /\ id[k] \notin subs[c]
    <3>1. pump[k] \in [do : {"send"}, copy : SUBSET Chunk, shows : SUBSET Chunk]
      BY <2>1, <2>2 DEF Pump, Idle, Off
    <3>2. [pump[k] EXCEPT !.copy = @ \ {c}]
             \in [do : {"send"}, copy : SUBSET Chunk, shows : SUBSET Chunk]
      BY <3>1
    <3>3. pump'[k] = [pump[k] EXCEPT !.copy = @ \ {c}]
      BY <1>1, <2>2
    <3>4. QED
      BY <2>2, <3>2, <3>3 DEF Pump
  <2>3. CASE ~ (pump[k].do = "send" /\ id[k] \notin subs[c])
    BY <1>1, <2>1, <2>3
  <2>4. QED
    BY <2>2, <2>3
<1>3. Shape'
  BY <1>1, <1>2 DEF IInv, Shape
<1>4. Registered'
  BY <1>1, <1>2 DEF IInv, Registered, Reading
<1>5. NothingLeaks'
  BY <1>1, <1>2 DEF IInv, NothingLeaks
<1>6. QED
  BY <1>3, <1>4, <1>5 DEF IInv

LEMMA OpenStep ==
    ASSUME IInv, NEW k \in Conn,
           \/ \E v \in Views : RecordView(k, v)
           \/ SubscribeView(k) \/ Send(k)
           \/ \E c \in Chunk : SubscribeToChunk(k, c) \/ UnsubscribeFromChunk(k, c)
    PROVE  IInv'
<1>1. ASSUME NEW v \in Views, RecordView(k, v)
      PROVE  IInv'
  <2>1. Reading(k) /\ [do |-> "subscribe", view |-> v] \in Pump
    BY <1>1 DEF RecordView, Reading, Idle, Pump
  <2>2. QED
    BY <1>1, <2>1, PumpStep DEF RecordView, maps, IInv, Shape
<1>2. ASSUME SubscribeView(k)
      PROVE  IInv'
  <2> DEFINE v == pump[k].view
             next == [do |-> "send", copy |-> Adds(id[k], v), shows |-> IF Fits(v) THEN v.rect ELSE {}]
  <2>1. pump[k].do = "subscribe" /\ pump[k] \in Pump
    BY <1>2 DEF SubscribeView, IInv, Shape
  <2>2. v \in Views
    BY <2>1 DEF Pump, Idle, Off
  <2>3. v.rect \subseteq Chunk
    BY <2>2, SubscriptionsAssumption
  <2>4. next \in Pump
    BY <2>3 DEF Pump, Adds
  <2>5. PICK order \in SetToSeqs(v.rect) :
           playerSubs' = [playerSubs EXCEPT ![id[k]] =
              (@ \cup Adds(id[k], v)) \ Gone(id[k], v, Touched(id[k], v, order))]
    BY <1>2 DEF SubscribeView
  <2>6. Reading(k) /\ id[k] \in Id
    BY <2>1 DEF Reading, IInv, Registered
  <2>7. DOMAIN playerSubs' = Id /\ \A j \in Id \ {id[k]} : playerSubs'[j] = playerSubs[j]
    BY <2>5, <2>6, OwnOnly DEF IInv
  <2>8. pump' = [pump EXCEPT ![k] = next] /\ UNCHANGED <<id, players, playerViews>>
    BY <1>2 DEF SubscribeView
  <2>9. QED
    <3>1. next.do = "send"
      OBVIOUS
    <3> HIDE DEF next
    <3>2. QED
      BY <2>4, <2>6, <2>7, <2>8, <3>1, PumpStep
<1>3. ASSUME Send(k)
      PROVE  IInv'
  <2>1. Reading(k) /\ Idle \in Pump /\ Idle.do \notin {"off", "forget"}
    BY <1>3 DEF Send, Reading, Idle, Pump
  <2>2. QED
    BY <1>3, <2>1, PumpStep DEF Send, maps, IInv, Shape
<1>4. ASSUME NEW c \in Chunk, SubscribeToChunk(k, c)
      PROVE  IInv'
  <2> DEFINE next == [do |-> "send", copy |-> {c}, shows |-> {}]
  <2>1. Reading(k) /\ id[k] \in Id
    BY <1>4 DEF SubscribeToChunk, Reading, Idle, IInv, Registered
  <2>2. next \in Pump /\ next.do \notin {"off", "forget"}
    BY DEF Pump
  <2>3. DOMAIN playerSubs' = Id /\ \A j \in Id \ {id[k]} : playerSubs'[j] = playerSubs[j]
    BY <1>4, <2>1, OwnOnly DEF SubscribeToChunk, IInv
  <2>4. pump' = [pump EXCEPT ![k] = next] /\ UNCHANGED <<id, players, playerViews>>
    BY <1>4 DEF SubscribeToChunk
  <2>5. QED
    BY <2>1, <2>2, <2>3, <2>4, PumpStep
<1>5. ASSUME NEW c \in Chunk, UnsubscribeFromChunk(k, c)
      PROVE  IInv'
  <2>1. Reading(k) /\ id[k] \in Id
    BY <1>5 DEF UnsubscribeFromChunk, Reading, Idle, IInv, Registered
  <2>2. pump[k] \in Pump /\ pump' = [pump EXCEPT ![k] = pump[k]]
    BY <1>5 DEF UnsubscribeFromChunk, IInv, Shape
  <2>3. DOMAIN playerSubs' = Id /\ \A j \in Id \ {id[k]} : playerSubs'[j] = playerSubs[j]
    BY <1>5, <2>1, OwnOnly DEF UnsubscribeFromChunk, IInv
  <2>4. UNCHANGED <<id, players, playerViews>>
    BY <1>5 DEF UnsubscribeFromChunk
  <2>5. QED
    BY <2>1, <2>2, <2>3, <2>4, PumpStep DEF Reading
<1>6. QED
  BY <1>1, <1>2, <1>3, <1>4, <1>5

LEMMA InitInv == Init => IInv
BY IdsApart DEF Init, IInv, Shape, Registered, Reading, NothingLeaks, Pump, Off

LEMMA NextInv ==
    ASSUME IInv, [Next]_vars
    PROVE  IInv'
<1>1. ASSUME NEW k \in Conn, Connect(k) \/ Leave(k) \/ ForgetLeft(k)
      PROVE  IInv'
  BY <1>1, ConnectStep, LeaveStep, ForgetLeftStep
<1>2. ASSUME NEW k \in Conn, NEW p \in Player, Join(k, p)
      PROVE  IInv'
  BY <1>2, JoinStep
<1>3. ASSUME NEW c \in Chunk, Change(c)
      PROVE  IInv'
  BY <1>3, ChangeStep
<1>4. CASE UNCHANGED vars
  BY <1>4 DEF vars, maps, IInv, Shape, Registered, Reading, NothingLeaks
<1>5. QED
  BY <1>1, <1>2, <1>3, <1>4, OpenStep DEF Next

\* What is kept under an id that no connection uses is about to be dropped,
\* however connections come, join, share an id and leave.
THEOREM NothingLeaksHolds == Spec => []NothingLeaks
<1>1. Init => IInv
  BY InitInv
<1>2. IInv /\ [Next]_vars => IInv'
  BY NextInv
<1>3. IInv => NothingLeaks
  BY DEF IInv
<1>4. QED
  BY <1>1, <1>2, <1>3, PTL DEF Spec

-----------------------------------------------------------------------------
(* What is taken out of an order, and by the capacity. *)

\* The recursion behind Without.
WithoutRound(seq, S, g) ==
    [x \in SUBSET DOMAIN seq |->
        IF x = {} THEN <<>>
        ELSE IF seq[Max(x)] \in S THEN g[x \ {Max(x)}] ELSE Append(g[x \ {Max(x)}], seq[Max(x)])]

LEMMA WithoutUnfolds ==
    ASSUME NEW seq \in Seq(Chunk), NEW S
    PROVE  \E g : g = WithoutRound(seq, S, g) /\ Without(seq, S) = g[DOMAIN seq]
<1> DEFINE n == Len(seq)
           V == Seq(Chunk)
           F == [p \in V \X (1 .. n) |-> IF seq[p[2]] \in S THEN p[1] ELSE Append(p[1], seq[p[2]])]
           Solves(g) ==
               g = [x \in SUBSET DOMAIN seq |->
                       IF x = {} THEN <<>>
                       ELSE IF seq[Max(x)] \in S THEN g[x \ {Max(x)}]
                            ELSE Append(g[x \ {Max(x)}], seq[Max(x)])]
<1>1. n \in Nat /\ DOMAIN seq = 1 .. n /\ <<>> \in V
  OBVIOUS
<1>2. F \in [V \X (1 .. n) -> V]
  OBVIOUS
<1>3. PICK g \in [SUBSET (1 .. n) -> V] : g = FoldRound(<<>>, n, F, g)
  <2> HIDE DEF n, V, F
  <2>1. \A w \in V : \A m \in Nat : \A f \in [V \X (1 .. m) -> V] :
           \E g \in [SUBSET (1 .. m) -> V] : g = FoldRound(w, m, f, g)
    BY FoldRecursion
  <2>2. n \in Nat /\ <<>> \in V
    BY <1>1
  <2>3. QED
    BY <1>2, <2>1, <2>2
<1>4. ASSUME NEW x \in SUBSET (1 .. n), x # {}
      PROVE  F[<<g[x \ {Max(x)}], Max(x)>>]
             = IF seq[Max(x)] \in S THEN g[x \ {Max(x)}] ELSE Append(g[x \ {Max(x)}], seq[Max(x)])
  <2>1. IsFiniteSet(1 .. n)
    BY <1>1, FS_Interval
  <2>2. IsFiniteSet(x) /\ x \in SUBSET Nat
    <3>1. IsFiniteSet(x)
      BY <2>1, FS_Subset
    <3>2. QED
      BY <1>1, <3>1
  <2>3. Max(x) \in 1 .. n
    BY <1>4, <2>2, MaxIn
  <2>4. g[x \ {Max(x)}] \in V
    OBVIOUS
  <2>5. <<g[x \ {Max(x)}], Max(x)>> \in V \X (1 .. n)
    BY <2>3, <2>4
  <2>6. QED
    BY <2>5
<1>5. Solves(g)
  BY <1>1, <1>3, <1>4 DEF FoldRound
<1>6. Without(seq, S) = (CHOOSE h : Solves(h))[DOMAIN seq]
  BY Zenon DEF Without, FoldLeft, MapThenFoldSet
<1>7. \A h : Solves(h) <=> h = WithoutRound(seq, S, h)
  BY Zenon DEF WithoutRound
<1> HIDE DEF Solves
<1>8. Solves(CHOOSE h : Solves(h))
  BY <1>5
<1>9. QED
  BY <1>6, <1>7, <1>8

\* What Without makes of an order: the chunks that are not in S.
LEMMA WithoutFacts ==
    ASSUME NEW seq \in Seq(Chunk), NEW S
    PROVE  /\ Without(seq, S) \in Seq(Chunk)
           /\ Range(Without(seq, S)) = Range(seq) \ S
<1> DEFINE n == Len(seq)
<1>1. n \in Nat /\ DOMAIN seq = 1 .. n
  OBVIOUS
<1>2. PICK g : g = WithoutRound(seq, S, g) /\ Without(seq, S) = g[DOMAIN seq]
  BY WithoutUnfolds
<1>3. g[1 .. 0] = <<>>
  <2>1. 1 .. 0 = {}
    OBVIOUS
  <2>2. QED
    BY <1>2, <2>1 DEF WithoutRound
<1>4. ASSUME NEW k \in 1 .. n
      PROVE  g[1 .. k] = IF seq[k] \in S THEN g[1 .. k - 1] ELSE Append(g[1 .. k - 1], seq[k])
  <2>1. 1 .. k \in SUBSET DOMAIN seq /\ 1 .. k # {} /\ k \in Nat \ {0}
    BY <1>1
  <2>2. Max(1 .. k) = k /\ (1 .. k) \ {k} = 1 .. k - 1
    BY <2>1, MaxOfPrefix
  <2>3. QED
    BY <1>2, <2>1, <2>2 DEF WithoutRound
<1> DEFINE Fine(k) == /\ g[1 .. k] \in Seq(Chunk)
                      /\ Range(g[1 .. k]) = {seq[j] : j \in 1 .. k} \ S
           C == {k \in Nat : k <= n => Fine(k)}
<1>5. 0 \in C
  <2>1. 1 .. 0 = {} /\ <<>> \in Seq(Chunk) /\ DOMAIN <<>> = {}
    OBVIOUS
  <2>2. Fine(0)
    BY <1>3, <2>1 DEF Range
  <2>3. QED
    BY <2>2
<1>6. ASSUME NEW k \in Nat, k \in C  PROVE k + 1 \in C
  <2>1. SUFFICES ASSUME k + 1 <= n  PROVE Fine(k + 1)
    OBVIOUS
  <2> DEFINE old == g[1 .. k]
             e == seq[k + 1]
  <2>2. k + 1 \in 1 .. n /\ (k + 1) - 1 = k /\ k <= n
    BY <1>1, <2>1
  <2>3. Fine(k)
    BY <1>6, <2>2
  <2>4. g[1 .. k + 1] = IF e \in S THEN old ELSE Append(old, e)
    BY <1>4, <2>2
  <2>5. {seq[j] : j \in 1 .. k + 1} = {seq[j] : j \in 1 .. k} \cup {e}
    <3>1. 1 .. k + 1 = (1 .. k) \cup {k + 1}
      OBVIOUS
    <3>2. QED
      BY <3>1
  <2>6. e \in Chunk
    BY <1>1, <2>2
  <2>7. CASE e \in S
    BY <2>3, <2>4, <2>5, <2>7
  <2>8. CASE e \notin S
    <3>1. old \in Seq(Chunk) /\ Range(old) = {seq[j] : j \in 1 .. k} \ S
      BY <2>3
    <3> DEFINE new == Append(old, e)
    <3> HIDE DEF old, e
    <3>2. /\ new \in Seq(Chunk) /\ Len(new) = Len(old) + 1 /\ new[Len(old) + 1] = e
          /\ \A j \in 1 .. Len(old) : new[j] = old[j]
          /\ DOMAIN new = 1 .. Len(old) + 1 /\ DOMAIN old = 1 .. Len(old) /\ Len(old) \in Nat
      BY <2>6, <3>1
    <3>3. Range(new) = Range(old) \cup {e}
      <4>1. 1 .. Len(old) + 1 = (1 .. Len(old)) \cup {Len(old) + 1}
        BY <3>2
      <4>2. QED
        BY <3>2, <4>1 DEF Range
    <3>4. g[1 .. k + 1] = new
      BY <2>4, <2>8
    <3> HIDE DEF new
    <3>5. {seq[j] : j \in 1 .. k + 1} \ S = Range(old) \cup {e}
      BY <2>5, <2>8, <3>1
    <3>6. QED
      BY <3>2, <3>3, <3>4, <3>5
  <2>9. QED
    BY <2>7, <2>8
<1>7. Nat \subseteq C
  <2> HIDE DEF C
  <2>1. QED
    BY <1>5, <1>6, NumbersByInduction
<1>8. Fine(n)
  <2>1. n \in C
    BY <1>1, <1>7
  <2>2. n <= n
    BY <1>1
  <2> HIDE DEF n, Fine
  <2>3. QED
    BY <2>1, <2>2
<1>9. {seq[j] : j \in 1 .. n} = Range(seq)
  BY <1>1 DEF Range
<1>10. QED
  BY <1>1, <1>2, <1>8, <1>9

LEMMA RangeFinite ==
    ASSUME NEW seq \in Seq(Chunk)
    PROVE  IsFiniteSet(Range(seq))
<1>1. DOMAIN seq = 1 .. Len(seq) /\ Len(seq) \in Nat
  OBVIOUS
<1>2. IsFiniteSet(DOMAIN seq)
  BY <1>1, FS_Interval
<1>3. seq \in [DOMAIN seq -> Range(seq)] /\ \A c \in Range(seq) : \E j \in DOMAIN seq : seq[j] = c
  BY DEF Range
<1>4. seq \in Surjection(DOMAIN seq, Range(seq))
  BY <1>3 DEF Surjection
<1>5. QED
  BY <1>2, <1>4, FS_Surjection

\* None of them are the oldest none of a set.
LEMMA OldestNone ==
    ASSUME NEW S, IsFiniteSet(S), NEW n \in Int, n <= 0, NEW seen
    PROVE  Oldest(S, n, seen) = {}
<1>1. SUFFICES ASSUME NEW c \in Oldest(S, n, seen)  PROVE FALSE
  OBVIOUS
<1> DEFINE older == {d \in S : SeenAt(seen, d) < SeenAt(seen, c)}
<1>2. Cardinality(older) < n
  BY <1>1 DEF Oldest
<1>3. Cardinality(older) \in Nat
  BY FS_Subset, FS_CardinalityType
<1> HIDE DEF older
<1>4. QED
  BY <1>2, <1>3

\* The capacity takes away some of what is held, and none of a view that fits.
LEMMA OverCapacityFacts ==
    ASSUME NEW held, IsFiniteSet(held), NEW rect \in SUBSET held, Cardinality(rect) <= MaxSubs,
           NEW seen
    PROVE  OverCapacity(held, rect, seen) \cap rect = {}
<1> DEFINE outside == held \ rect
           n == Cardinality(held) - MaxSubs - Cardinality(outside)
<1>1. /\ IsFiniteSet(outside) /\ Cardinality(outside) \in Nat
      /\ IsFiniteSet(rect) /\ Cardinality(rect) \in Nat
      /\ Cardinality(held) \in Nat /\ MaxSubs \in Nat
  BY FS_Subset, FS_CardinalityType, SubscriptionsAssumption
<1>2. held \cap rect = rect
  OBVIOUS
<1>3. Cardinality(outside) = Cardinality(held) - Cardinality(rect)
  BY <1>2, FS_Difference
<1>4. n \in Int /\ n <= 0
  BY <1>1, <1>3
<1>5. OverCapacity(held, rect, seen)
      = Oldest(outside, Cardinality(held) - MaxSubs, seen) \cup Oldest(rect, n, seen)
  BY <1>2 DEF OverCapacity
<1> HIDE DEF n
<1>6. Oldest(rect, n, seen) = {}
  BY <1>1, <1>4, OldestNone
<1>7. Oldest(outside, Cardinality(held) - MaxSubs, seen) \subseteq outside
  BY DEF Oldest
<1>8. QED
  BY <1>5, <1>6, <1>7

\* The order behind a new view: what is kept of the old one, then the view's.
LEMMA OrderOfSet ==
    ASSUME NEW S \in SUBSET Chunk, IsFiniteSet(S), NEW order \in SetToSeqs(S)
    PROVE  order \in Seq(Chunk) /\ Range(order) = S
<1> DEFINE D == 1 .. Cardinality(S)
<1>1. Cardinality(S) \in Nat
  BY FS_CardinalityType
<1>2. order \in [D -> S] /\ \A i, j \in D : i # j => order[i] # order[j]
  BY DEF SetToSeqs
<1>3. order \in Seq(Chunk)
  BY <1>1, <1>2
<1>4. IsInjective(order)
  BY <1>2 DEF IsInjective
<1>5. Cardinality(D) = Cardinality(S)
  BY <1>1, FS_Interval
<1>6. order \in Surjection(D, S)
  <2>1. order \in Injection(D, S)
    BY <1>2, <1>4 DEF Injection
  <2> HIDE DEF D
  <2>2. QED
    BY <1>5, <2>1, FS_Injection
<1>7. Range(order) = S
  BY <1>2, <1>6 DEF Surjection, Range
<1>8. QED
  BY <1>3, <1>7

LEMMA Joined ==
    ASSUME NEW s \in Seq(Chunk), NEW t \in Seq(Chunk)
    PROVE  s \o t \in Seq(Chunk) /\ Range(s \o t) = Range(s) \cup Range(t)
<1> DEFINE u == s \o t
<1>1. /\ u \in Seq(Chunk) /\ Len(u) = Len(s) + Len(t) /\ Len(s) \in Nat /\ Len(t) \in Nat
      /\ \A i \in 1 .. Len(s) : u[i] = s[i]
      /\ \A i \in 1 .. Len(t) : u[Len(s) + i] = t[i]
      /\ DOMAIN u = 1 .. Len(u) /\ DOMAIN s = 1 .. Len(s) /\ DOMAIN t = 1 .. Len(t)
  OBVIOUS
<1>2. \A i \in DOMAIN u : i \in DOMAIN s \/ (i - Len(s) \in DOMAIN t /\ i = Len(s) + (i - Len(s)))
  BY <1>1
<1>3. \A i \in DOMAIN u : \/ i \in DOMAIN s /\ u[i] = s[i]
                          \/ \E j \in DOMAIN t : i = Len(s) + j /\ u[i] = t[j]
  BY <1>1, <1>2
<1>4. \A i \in DOMAIN s : i \in DOMAIN u /\ u[i] = s[i]
  BY <1>1
<1>5. \A j \in DOMAIN t : Len(s) + j \in DOMAIN u /\ u[Len(s) + j] = t[j]
  <2> SUFFICES ASSUME NEW j \in DOMAIN t
               PROVE  Len(s) + j \in DOMAIN u /\ u[Len(s) + j] = t[j]
    OBVIOUS
  <2> HIDE DEF u
  <2>1. j \in 1 .. Len(t)
    BY <1>1
  <2>2. Len(s) + j \in 1 .. Len(u)
    BY <1>1, <2>1
  <2>3. QED
    BY <1>1, <2>1, <2>2
<1> HIDE DEF u
<1>6. Range(u) = Range(s) \cup Range(t)
  BY <1>3, <1>4, <1>5 DEF Range
<1>7. QED
  BY <1>1, <1>6 DEF u

-----------------------------------------------------------------------------
(* The three maps agree. *)

Order ==
    /\ playerSubs \in [Id -> SUBSET Chunk]
    /\ lastSeen \in [Id -> Seq(Chunk)]
    /\ subs = [c \in Chunk |-> subs[c]]

\* The three maps are edited apart; they agree afterwards when the edits leave
\* id i with the same chunks S and the other ids alone.
LEMMA EditsAgree ==
    ASSUME Order, MapsAgree, NEW i \in Id, NEW S \in SUBSET Chunk,
           NEW seq \in Seq(Chunk), Range(seq) = S,
           playerSubs' = [playerSubs EXCEPT ![i] = S],
           lastSeen' = [lastSeen EXCEPT ![i] = seq],
           subs' = [c \in Chunk |-> subs'[c]],
           \A c \in Chunk : /\ i \in subs'[c] <=> c \in S
                            /\ \A j \in Id \ {i} : j \in subs'[c] <=> j \in subs[c]
    PROVE  /\ Order' /\ MapsAgree'
           /\ playerSubs'[i] = S
           /\ \A j \in Id \ {i} : playerSubs'[j] = playerSubs[j]
<1>1. /\ playerSubs'[i] = S /\ lastSeen'[i] = seq
      /\ \A j \in Id \ {i} : playerSubs'[j] = playerSubs[j] /\ lastSeen'[j] = lastSeen[j]
  BY DEF Order
<1>2. Order'
  BY DEF Order
<1>3. MapsAgree'
  <2> SUFFICES ASSUME NEW j \in Id
               PROVE  /\ playerSubs'[j] = {c \in Chunk : j \in subs'[c]}
                      /\ playerSubs'[j] = Range(lastSeen'[j])
    BY DEF MapsAgree
  <2>1. playerSubs[j] = {c \in Chunk : j \in subs[c]} /\ playerSubs[j] = Range(lastSeen[j])
    BY DEF MapsAgree
  <2>2. CASE j = i
    BY <1>1, <2>2
  <2>3. CASE j # i
    <3>1. {c \in Chunk : j \in subs'[c]} = {c \in Chunk : j \in subs[c]}
      BY <2>3
    <3>2. QED
      BY <1>1, <2>1, <2>3, <3>1
  <2>4. QED
    BY <2>2, <2>3
<1>4. QED
  BY <1>1, <1>2, <1>3

LEMMA ForgetAgrees ==
    ASSUME Order, MapsAgree, NEW i \in Id, ForgetPlayer(i) \/ ForgetSpectator(i)
    PROVE  Order' /\ MapsAgree'
<1>1. <<>> \in Seq(Chunk) /\ Range(<<>>) = {}
  BY DEF Range
<1>2. /\ playerSubs' = [playerSubs EXCEPT ![i] = {}]
      /\ lastSeen' = [lastSeen EXCEPT ![i] = <<>>]
      /\ subs' = [c \in Chunk |-> subs[c] \ {i}]
  BY DEF ForgetPlayer, ForgetSpectator
<1>3. \A c \in Chunk : /\ i \in subs'[c] <=> c \in {}
                       /\ \A j \in Id \ {i} : j \in subs'[c] <=> j \in subs[c]
  BY <1>2
<1>4. subs' = [c \in Chunk |-> subs'[c]]
  BY <1>2
<1>5. QED
  BY <1>1, <1>2, <1>3, <1>4, EditsAgree

\* A new view: the maps agree about what was added, dropped and evicted, and the
\* chunks of a view that fits are there.
LEMMA ViewAgrees ==
    ASSUME IInv, Order, MapsAgree, NEW k \in Conn, SubscribeView(k)
    PROVE  /\ Order' /\ MapsAgree'
           /\ playerSubs'[id[k]] \subseteq playerSubs[id[k]] \cup pump[k].view.rect
           /\ Fits(pump[k].view) => pump[k].view.rect \subseteq playerSubs'[id[k]]
           /\ \A j \in Id \ {id[k]} : playerSubs'[j] = playerSubs[j]
<1> DEFINE i == id[k]
           v == pump[k].view
<1>1. pump[k].do = "subscribe" /\ pump[k] \in Pump
  BY DEF SubscribeView, IInv, Shape
<1>2. v \in Views /\ i \in Id
  BY <1>1 DEF Pump, Idle, Off, IInv, Registered
<1>3. v.rect \in SUBSET Chunk /\ v.rect \subseteq v.near /\ IsFiniteSet(v.rect)
  BY <1>2, SubscriptionsAssumption
<1> HIDE DEF i, v
<1>4. PICK order \in SetToSeqs(v.rect) :
         LET seen == Touched(i, v, order)
             gone == Gone(i, v, seen)
         IN  /\ subs' = Indexed(i, Adds(i, v), gone)
             /\ playerSubs' = [playerSubs EXCEPT ![i] = (@ \cup Adds(i, v)) \ gone]
             /\ lastSeen' = [lastSeen EXCEPT ![i] = Without(seen, gone)]
  BY DEF SubscribeView, i, v
<1> DEFINE seen == Touched(i, v, order)
           gone == Gone(i, v, seen)
           held == playerSubs[i] \cup v.rect
           near == held \cap v.near
<1>5. /\ lastSeen[i] \in Seq(Chunk) /\ playerSubs[i] \in SUBSET Chunk
      /\ playerSubs[i] = Range(lastSeen[i])
      /\ playerSubs[i] = {c \in Chunk : i \in subs[c]}
  BY <1>2 DEF Order, MapsAgree
<1>6. seen \in Seq(Chunk) /\ Range(seen) = held
  <2>1. order \in Seq(Chunk) /\ Range(order) = v.rect
    BY <1>3, <1>4, OrderOfSet
  <2>2. Without(lastSeen[i], v.rect) \in Seq(Chunk)
        /\ Range(Without(lastSeen[i], v.rect)) = Range(lastSeen[i]) \ v.rect
    BY <1>5, WithoutFacts
  <2>3. QED
    BY <1>5, <2>1, <2>2, Joined DEF Touched
<1>7. playerSubs[i] \cup Adds(i, v) = held
  BY DEF Adds
<1> HIDE DEF seen
<1>8. gone = (held \ v.near) \cup OverCapacity(near, v.rect, seen)
  BY <1>7 DEF Gone
<1> HIDE DEF gone
<1>9. /\ subs' = Indexed(i, Adds(i, v), gone)
      /\ playerSubs' = [playerSubs EXCEPT ![i] = held \ gone]
      /\ lastSeen' = [lastSeen EXCEPT ![i] = Without(seen, gone)]
  BY <1>4, <1>7 DEF seen, gone
<1>10. Without(seen, gone) \in Seq(Chunk) /\ Range(Without(seen, gone)) = held \ gone
  BY <1>6, WithoutFacts
<1>11. \A c \in Chunk : /\ i \in subs'[c] <=> c \in held \ gone
                        /\ \A j \in Id \ {i} : j \in subs'[c] <=> j \in subs[c]
  BY <1>5, <1>9 DEF Indexed, Adds
<1>12. held \ gone \in SUBSET Chunk /\ subs' = [c \in Chunk |-> subs'[c]]
  BY <1>3, <1>5, <1>9 DEF Indexed
<1>13. ASSUME Fits(v)  PROVE v.rect \cap gone = {}
  <2>1. IsFiniteSet(held)
    BY <1>6, RangeFinite
  <2>2. IsFiniteSet(near) /\ v.rect \in SUBSET near
    BY <1>3, <2>1, FS_Subset
  <2> HIDE DEF near
  <2>3. OverCapacity(near, v.rect, seen) \cap v.rect = {}
    BY <1>13, <2>2, OverCapacityFacts DEF Fits
  <2>4. QED
    BY <1>3, <1>8, <2>3
<1>14. /\ Order' /\ MapsAgree' /\ playerSubs'[i] = held \ gone
       /\ \A j \in Id \ {i} : playerSubs'[j] = playerSubs[j]
  <2> HIDE DEF held
  <2>1. QED
    BY <1>2, <1>9, <1>10, <1>11, <1>12, EditsAgree
<1>15. QED
  BY <1>13, <1>14 DEF i, v

\* A single chunk is added, and others may be evicted for it.
LEMMA AddAgrees ==
    ASSUME Order, MapsAgree, NEW k \in Conn, id[k] \in Id, NEW c \in Chunk, SubscribeToChunk(k, c)
    PROVE  /\ Order' /\ MapsAgree'
           /\ playerSubs'[id[k]] \subseteq playerSubs[id[k]] \cup {c}
           /\ \A j \in Id \ {id[k]} : playerSubs'[j] = playerSubs[j]
<1> DEFINE i == id[k]
           held == playerSubs[i] \cup {c}
           seen == Append(Without(lastSeen[i], {c}), c)
           evicted == Oldest(held \ {c}, Cardinality(held) - MaxSubs, seen)
<1>1. /\ subs' = [d \in Chunk |-> IF d = c THEN subs[d] \cup {i}
                                   ELSE IF d \in evicted THEN subs[d] \ {i} ELSE subs[d]]
      /\ playerSubs' = [playerSubs EXCEPT ![i] = held \ evicted]
      /\ lastSeen' = [lastSeen EXCEPT ![i] = Without(seen, evicted)]
  BY DEF SubscribeToChunk
<1>2. /\ lastSeen[i] \in Seq(Chunk) /\ playerSubs[i] \in SUBSET Chunk
      /\ playerSubs[i] = Range(lastSeen[i])
      /\ playerSubs[i] = {d \in Chunk : i \in subs[d]}
  BY DEF Order, MapsAgree
<1>3. seen \in Seq(Chunk) /\ Range(seen) = held
  <2> DEFINE old == Without(lastSeen[i], {c})
             one == <<c>>
  <2>1. old \in Seq(Chunk) /\ Range(old) = Range(lastSeen[i]) \ {c}
    BY <1>2, WithoutFacts
  <2>2. one \in Seq(Chunk) /\ Range(one) = {c}
    BY DEF Range
  <2>3. seen = old \o one
    <3> HIDE DEF old
    <3>1. Append(old, c) = old \o one
      BY <2>1
    <3>2. QED
      BY <3>1 DEF old
  <2> HIDE DEF old, one, seen
  <2>4. seen \in Seq(Chunk) /\ Range(seen) = Range(old) \cup Range(one)
    BY <2>1, <2>2, <2>3, Joined
  <2>5. QED
    BY <1>2, <2>1, <2>2, <2>4
<1>4. c \notin evicted
  BY DEF Oldest
<1> HIDE DEF seen, evicted
<1>5. Without(seen, evicted) \in Seq(Chunk) /\ Range(Without(seen, evicted)) = held \ evicted
  BY <1>3, WithoutFacts
<1>6. \A d \in Chunk : /\ i \in subs'[d] <=> d \in held \ evicted
                       /\ \A j \in Id \ {i} : j \in subs'[d] <=> j \in subs[d]
  BY <1>1, <1>2, <1>4
<1>7. held \ evicted \in SUBSET Chunk /\ subs' = [d \in Chunk |-> subs'[d]]
  BY <1>1, <1>2
<1> HIDE DEF i
<1>8. /\ Order' /\ MapsAgree' /\ playerSubs'[i] = held \ evicted
      /\ \A j \in Id \ {i} : playerSubs'[j] = playerSubs[j]
  <2>1. i \in Id
    BY DEF i
  <2>2. /\ playerSubs' = [playerSubs EXCEPT ![i] = held \ evicted]
        /\ lastSeen' = [lastSeen EXCEPT ![i] = Without(seen, evicted)]
    BY <1>1
  <2> HIDE DEF held
  <2>3. QED
    BY <1>5, <1>6, <1>7, <2>1, <2>2, EditsAgree
<1>9. QED
  BY <1>8 DEF i

LEMMA DropAgrees ==
    ASSUME Order, MapsAgree, NEW k \in Conn, id[k] \in Id,
           NEW c \in Chunk, UnsubscribeFromChunk(k, c)
    PROVE  /\ Order' /\ MapsAgree'
           /\ playerSubs'[id[k]] = playerSubs[id[k]] \ {c}
           /\ \A j \in Id \ {id[k]} : playerSubs'[j] = playerSubs[j]
<1> DEFINE i == id[k]
           rest == playerSubs[i] \ {c}
           seq == Without(lastSeen[i], {c})
<1>1. /\ subs' = [subs EXCEPT ![c] = @ \ {i}]
      /\ playerSubs' = [playerSubs EXCEPT ![i] = rest]
      /\ lastSeen' = [lastSeen EXCEPT ![i] = seq]
  BY DEF UnsubscribeFromChunk
<1>2. /\ lastSeen[i] \in Seq(Chunk) /\ playerSubs[i] \in SUBSET Chunk
      /\ playerSubs[i] = Range(lastSeen[i])
      /\ playerSubs[i] = {d \in Chunk : i \in subs[d]}
  BY DEF Order, MapsAgree
<1>3. seq \in Seq(Chunk) /\ Range(seq) = rest
  BY <1>2, WithoutFacts
<1>4. /\ subs' = [d \in Chunk |-> subs'[d]]
      /\ \A d \in Chunk : /\ i \in subs'[d] <=> d \in rest
                          /\ \A j \in Id \ {i} : j \in subs'[d] <=> j \in subs[d]
  BY <1>1, <1>2 DEF Order
<1>5. i \in Id /\ rest \in SUBSET Chunk
  BY <1>2
<1> HIDE DEF rest, seq, i
<1>6. /\ Order' /\ MapsAgree' /\ playerSubs'[i] = rest
      /\ \A j \in Id \ {i} : playerSubs'[j] = playerSubs[j]
  <2>1. /\ playerSubs' = [playerSubs EXCEPT ![i] = rest]
        /\ lastSeen' = [lastSeen EXCEPT ![i] = seq]
    BY <1>1
  <2>2. QED
    BY <1>3, <1>4, <1>5, <2>1, EditsAgree
<1>7. QED
  BY <1>6 DEF i, rest

\* What a step makes of the maps: it leaves them alone or makes one of the five
\* edits.
LEMMA MapsStep ==
    ASSUME IInv, Order, MapsAgree, [Next]_vars
    PROVE  Order' /\ MapsAgree'
<1>1. ASSUME UNCHANGED maps
      PROVE  Order' /\ MapsAgree'
  BY <1>1 DEF maps, Order, MapsAgree
<1>2. \A k \in Conn : pump[k].do # "off" => id[k] \in Id
  BY DEF IInv, Registered
<1>3. ASSUME NEW k \in Conn, Connect(k) \/ Leave(k) \/ Send(k) \/ \E v \in Views : RecordView(k, v)
      PROVE  Order' /\ MapsAgree'
  BY <1>1, <1>3 DEF Connect, Leave, Send, RecordView
<1>4. ASSUME NEW k \in Conn, NEW p \in Player, Join(k, p)
      PROVE  Order' /\ MapsAgree'
  BY <1>4, IdsApart, ForgetAgrees DEF Join
<1>5. ASSUME NEW k \in Conn, ForgetLeft(k)
      PROVE  Order' /\ MapsAgree'
  BY <1>1, <1>2, <1>5, ForgetAgrees DEF ForgetLeft
<1>6. ASSUME NEW k \in Conn, SubscribeView(k)
      PROVE  Order' /\ MapsAgree'
  BY <1>6, ViewAgrees
<1>7. ASSUME NEW k \in Conn, NEW c \in Chunk, SubscribeToChunk(k, c)
      PROVE  Order' /\ MapsAgree'
  <2>1. id[k] \in Id
    BY <1>2, <1>7 DEF SubscribeToChunk, Idle
  <2>2. QED
    BY <1>7, <2>1, AddAgrees
<1>8. ASSUME NEW k \in Conn, NEW c \in Chunk, UnsubscribeFromChunk(k, c)
      PROVE  Order' /\ MapsAgree'
  <2>1. id[k] \in Id
    BY <1>2, <1>8 DEF UnsubscribeFromChunk, Idle
  <2>2. QED
    BY <1>8, <2>1, DropAgrees
<1>9. ASSUME NEW c \in Chunk, Change(c)
      PROVE  Order' /\ MapsAgree'
  BY <1>1, <1>9 DEF Change
<1>10. CASE UNCHANGED vars
  BY <1>1, <1>10 DEF vars
<1>11. QED
  BY <1>3, <1>4, <1>5, <1>6, <1>7, <1>8, <1>9, <1>10 DEF Next

LEMMA MapsInit == Init => Order /\ MapsAgree
<1> SUFFICES ASSUME Init  PROVE Order /\ MapsAgree
  OBVIOUS
<1>1. /\ subs = [c \in Chunk |-> {}]
      /\ playerSubs = [i \in Id |-> {}]
      /\ lastSeen = [i \in Id |-> <<>>]
  BY DEF Init
<1>2. Order
  BY <1>1 DEF Order
<1>3. MapsAgree
  BY <1>1 DEF MapsAgree, Range
<1>4. QED
  BY <1>2, <1>3

\* Whatever is added, evicted, dropped for being far or forgotten with its id,
\* the index by chunk, the index by id and the order of the capacity name the
\* same subscriptions.
THEOREM MapsAgreeHolds == Spec => []MapsAgree
<1> DEFINE MInv == IInv /\ Order /\ MapsAgree
<1>1. Init => MInv
  BY InitInv, MapsInit
<1>2. MInv /\ [Next]_vars => MInv'
  BY NextInv, MapsStep
<1>3. MInv => MapsAgree
  OBVIOUS
<1>4. QED
  BY <1>1, <1>2, <1>3, PTL DEF Spec

-----------------------------------------------------------------------------
(* What a client shows is what it is told about. *)

Clients ==
    /\ fresh \in [Conn -> SUBSET Chunk]
    /\ shown \in [Conn -> SUBSET Chunk]
    /\ alone \in [Conn -> BOOLEAN]

\* The connections listed under an id are the open ones that have it.
Belongs == \A i \in Id : \A k \in players[i] : id[k] = i /\ Reading(k)

\* The history says what it means.
Apart == \A k \in Conn : alone[k] /\ pump[k].do # "off" => \A j \in Conn \ {k} : id[j] # id[k]

\* What the goroutine of k has read and not sent yet.
Coming(k) == IF pump[k].do = "send" THEN pump[k].copy ELSE {}

\* A client that is alone has, or is about to be sent, a current copy of every
\* chunk its id is subscribed to, and shows none of the others.
Current(k) ==
    /\ ~ Reading(k) => shown[k] = {}
    /\ alone[k] /\ Reading(k) =>
          /\ playerSubs[id[k]] \subseteq fresh[k] \cup Coming(k)
          /\ shown[k] \subseteq playerSubs[id[k]] \cap fresh[k]
          /\ pump[k].do = "subscribe" =>
                shown[k] \subseteq IF Fits(pump[k].view) THEN pump[k].view.rect ELSE {}
          /\ pump[k].do = "send" => pump[k].shows \subseteq playerSubs[id[k]]

\* ViewIsFresh is not inductive: that a change reaches the copy needs the maps
\* to agree, that a new id starts with no subscriptions needs NothingLeaks, and
\* that nobody else moves the subscriptions of an id needs the history.
Sees == Clients /\ Belongs /\ Apart /\ \A k \in Conn : Current(k)
ViewInv == IInv /\ Order /\ MapsAgree /\ Sees

\* A connection whose own state and subscriptions stay as they are.
LEMMA CurrentKept ==
    ASSUME NEW j \in Conn, Current(j), pump'[j] = pump[j], id'[j] = id[j],
           shown'[j] = shown[j], fresh[j] \subseteq fresh'[j], alone'[j] => alone[j],
           alone'[j] /\ Reading(j) => playerSubs'[id[j]] = playerSubs[id[j]]
    PROVE  Current(j)'
BY DEF Current, Reading, Coming

LEMMA OtherId ==
    ASSUME ViewInv, NEW j \in Conn, alone[j], Reading(j), NEW k \in Conn, k # j
    PROVE  id[k] # id[j]
BY DEF ViewInv, Sees, Apart, Reading

\* An id that no connection has had keeps nothing.
LEMMA NewIdEmpty ==
    ASSUME ViewInv, NEW i \in Id, \A j \in Conn : id[j] = i => pump[j].do = "off"
    PROVE  playerSubs[i] = {} /\ players[i] = {}
<1>1. players[i] = {}
  <2>1. SUFFICES ASSUME NEW j \in players[i]  PROVE FALSE
    OBVIOUS
  <2>2. j \in Conn
    BY DEF ViewInv, IInv, Shape
  <2>3. id[j] = i /\ Reading(j)
    BY DEF ViewInv, Sees, Belongs
  <2>4. QED
    BY <2>2, <2>3 DEF Reading
<1>2. ~ \E j \in Conn : id[j] = i /\ pump[j].do = "forget" /\ pump[j].all
  <2>1. "off" # "forget"
    OBVIOUS
  <2>2. QED
    BY <2>1
<1>3. QED
  BY <1>1, <1>2 DEF ViewInv, IInv, NothingLeaks

\* A step of one open connection that moves its own subscriptions.
LEMMA OwnStep ==
    ASSUME ViewInv, NEW k \in Conn, Reading(k), UNCHANGED <<id, players, alone>>,
           Clients', Reading(k)', Current(k)',
           \A j \in Conn \ {k} : /\ pump'[j] = pump[j] /\ shown'[j] = shown[j]
                                 /\ fresh[j] \subseteq fresh'[j],
           \A i \in Id \ {id[k]} : playerSubs'[i] = playerSubs[i]
    PROVE  Sees'
<1>1. Belongs'
  <2> SUFFICES ASSUME NEW i \in Id, NEW j \in players[i]
               PROVE  id[j] = i /\ Reading(j)'
    BY DEF Belongs
  <2>1. j \in Conn
    BY DEF ViewInv, IInv, Shape
  <2>2. id[j] = i /\ Reading(j)
    BY DEF ViewInv, Sees, Belongs
  <2>3. CASE j = k
    BY <2>2, <2>3
  <2>4. CASE j # k
    BY <2>1, <2>2, <2>4 DEF Reading
  <2>5. QED
    BY <2>3, <2>4
<1>2. Apart'
  <2> SUFFICES ASSUME NEW j \in Conn, alone[j], pump'[j].do # "off", NEW m \in Conn \ {j}
               PROVE  id[m] # id[j]
    BY DEF Apart
  <2>1. pump[j].do # "off"
    BY DEF Reading
  <2>2. QED
    BY <2>1 DEF ViewInv, Sees, Apart
<1>3. ASSUME NEW j \in Conn  PROVE Current(j)'
  <2>1. CASE j = k
    BY <2>1
  <2>2. CASE j # k
    <3>1. Reading(j) => id[j] \in Id
      BY DEF ViewInv, IInv, Registered, Reading
    <3>2. alone[j] /\ Reading(j) => id[j] # id[k]
      BY <2>2, OtherId
    <3>3. alone[j] /\ Reading(j) => playerSubs'[id[j]] = playerSubs[id[j]]
      BY <3>1, <3>2
    <3>4. Current(j)
      BY DEF ViewInv, Sees
    <3>5. QED
      BY <2>2, <3>3, <3>4, CurrentKept
  <2>3. QED
    BY <2>1, <2>2
<1>4. QED
  BY <1>1, <1>2, <1>3 DEF Sees

LEMMA ConnectSees ==
    ASSUME ViewInv, NEW k \in Conn, Connect(k)
    PROVE  Sees'
<1>1. /\ pump[k] = Off
      /\ id' = [id EXCEPT ![k] = k]
      /\ players' = [players EXCEPT ![k] = {k}]
      /\ pump' = [pump EXCEPT ![k] = Idle]
      /\ alone' = [alone EXCEPT ![k] = TRUE]
      /\ UNCHANGED <<playerSubs, fresh, shown>>
  BY DEF Connect, maps
<1>2. /\ id'[k] = k /\ pump'[k] = Idle /\ players'[k] = {k}
      /\ \A j \in Conn \ {k} : id'[j] = id[j] /\ pump'[j] = pump[j] /\ alone'[j] = alone[j]
      /\ \A i \in Id \ {k} : players'[i] = players[i]
  BY <1>1, IdsApart DEF ViewInv, IInv, Shape, Sees, Clients
<1>3. ~ Reading(k) /\ k \in Id
  BY <1>1, IdsApart DEF Reading, Off
<1>4. \A j \in Conn \ {k} : id[j] # k
  BY DEF ViewInv, IInv, Registered
<1>5. Clients'
  BY <1>1 DEF ViewInv, Sees, Clients
<1>6. Belongs'
  <2> SUFFICES ASSUME NEW i \in Id, NEW j \in players'[i]
               PROVE  id'[j] = i /\ Reading(j)'
    BY DEF Belongs
  <2>1. CASE i = k
    BY <1>2, <2>1 DEF Reading, Idle
  <2>2. CASE i # k
    <3>1. j \in players[i]
      BY <1>2, <2>2
    <3>2. j \in Conn /\ id[j] = i /\ Reading(j)
      BY <3>1 DEF ViewInv, IInv, Shape, Sees, Belongs
    <3>3. j # k
      BY <1>3, <3>2
    <3>4. QED
      BY <1>2, <3>2, <3>3 DEF Reading
  <2>3. QED
    BY <2>1, <2>2
<1>7. Apart'
  <2> SUFFICES ASSUME NEW j \in Conn, alone'[j], pump'[j].do # "off", NEW m \in Conn \ {j}
               PROVE  id'[m] # id'[j]
    BY DEF Apart
  <2>1. CASE j = k
    BY <1>2, <1>4, <2>1
  <2>2. CASE j # k /\ m = k
    BY <1>2, <1>4, <2>2
  <2>3. CASE j # k /\ m # k
    BY <1>2, <2>3 DEF ViewInv, Sees, Apart
  <2>4. QED
    BY <2>1, <2>2, <2>3
<1>8. ASSUME NEW j \in Conn  PROVE Current(j)'
  <2>1. Current(j)
    BY DEF ViewInv, Sees
  <2>2. CASE j = k
    <3>1. \A m \in Conn : id[m] = k => pump[m].do = "off"
      BY <1>1, <1>4 DEF Off
    <3>2. playerSubs[k] = {}
      BY <1>3, <3>1, NewIdEmpty
    <3>3. shown[k] = {}
      BY <1>3, <2>1, <2>2 DEF Current
    <3>4. QED
      BY <1>1, <1>2, <2>2, <3>2, <3>3 DEF Current, Reading, Idle
  <2>3. CASE j # k
    BY <1>1, <1>2, <2>1, <2>3, CurrentKept
  <2>4. QED
    BY <2>2, <2>3
<1>9. QED
  BY <1>5, <1>6, <1>7, <1>8 DEF Sees

LEMMA JoinSees ==
    ASSUME ViewInv, NEW k \in Conn, NEW p \in Player, Join(k, p)
    PROVE  Sees'
<1> DEFINE others == {j \in Conn : id[j] = p}
<1>1. /\ pump[k] = Idle /\ id[k] = k
      /\ id' = [id EXCEPT ![k] = p]
      /\ players' = [players EXCEPT ![k] = {}, ![p] = @ \cup {k}]
      /\ ForgetSpectator(k) /\ pump' = pump
      /\ alone' = [j \in Conn |-> IF j \in others \/ (j = k /\ others # {})
                                     THEN FALSE ELSE alone[j]]
      /\ shown' = [j \in Conn |-> IF alone'[j] /\ j # k THEN shown[j] ELSE {}]
      /\ fresh' = [j \in Conn |-> IF alone'[j] THEN fresh[j] ELSE {}]
  BY DEF Join
<1>2. k \in Id /\ p \in Id /\ k # p
  BY IdsApart
<1>3. \A i \in Id \ {k} : playerSubs'[i] = playerSubs[i]
  BY <1>1, <1>2, ForgetDrops DEF ViewInv, IInv
<1>4. /\ id'[k] = p /\ \A j \in Conn \ {k} : id'[j] = id[j]
      /\ players'[k] = {} /\ players'[p] = players[p] \cup {k}
      /\ \A i \in Id \ {k, p} : players'[i] = players[i]
  BY <1>1, <1>2 DEF ViewInv, IInv, Shape
<1>5. Reading(k) /\ k \notin others
  BY <1>1, <1>2 DEF Reading, Idle
<1>6. Clients'
  BY <1>1 DEF ViewInv, Sees, Clients
<1>7. \A j \in Conn : /\ alone'[j] => alone[j] /\ j \notin others /\ (j = k => others = {})
                      /\ alone'[j] => fresh'[j] = fresh[j]
                      /\ alone'[j] /\ j # k => shown'[j] = shown[j]
                      /\ ~ alone'[j] \/ j = k => shown'[j] = {}
  BY <1>1
<1> HIDE DEF others
<1>8. Belongs'
  <2> SUFFICES ASSUME NEW i \in Id, NEW j \in players'[i]
               PROVE  id'[j] = i /\ Reading(j)'
    BY DEF Belongs
  <2>1. CASE j = k
    <3>1. i # k
      BY <1>4
    <3>2. k \in players[i] => i = k
      BY <1>1 DEF ViewInv, Sees, Belongs
    <3>3. i = p
      BY <1>4, <2>1, <3>1, <3>2
    <3>4. QED
      BY <1>1, <1>4, <1>5, <2>1, <3>3 DEF Reading
  <2>2. CASE j # k
    <3>1. j \in players[i]
      BY <1>2, <1>4, <2>2
    <3>2. j \in Conn /\ id[j] = i /\ Reading(j)
      BY <3>1 DEF ViewInv, IInv, Shape, Sees, Belongs
    <3>3. QED
      BY <1>1, <1>4, <2>2, <3>2 DEF Reading
  <2>3. QED
    BY <2>1, <2>2
<1>9. Apart'
  <2> SUFFICES ASSUME NEW j \in Conn, alone'[j], pump'[j].do # "off", NEW m \in Conn \ {j}
               PROVE  id'[m] # id'[j]
    BY DEF Apart
  <2>1. alone[j] /\ j \notin others /\ (j = k => others = {}) /\ pump[j].do # "off"
    BY <1>1, <1>7
  <2>2. id[m] # id[j]
    BY <2>1 DEF ViewInv, Sees, Apart
  <2>3. CASE j = k
    BY <1>4, <2>1, <2>3 DEF others
  <2>4. CASE j # k /\ m = k
    BY <1>4, <2>1, <2>4 DEF others
  <2>5. CASE j # k /\ m # k
    BY <1>4, <2>2, <2>5
  <2>6. QED
    BY <2>3, <2>4, <2>5
<1>10. ASSUME NEW j \in Conn  PROVE Current(j)'
  <2>1. Current(j)
    BY DEF ViewInv, Sees
  <2>2. CASE ~ alone'[j]
    <3>1. shown'[j] = {}
      BY <1>7, <2>2
    <3>2. QED
      BY <2>2, <3>1 DEF Current
  <2>3. CASE alone'[j] /\ j = k
    <3>1. others = {}
      BY <1>7, <2>3
    <3>2. \A m \in Conn : id[m] = p => pump[m].do = "off"
      BY <3>1 DEF others
    <3>3. playerSubs[p] = {}
      BY <1>2, <3>2, NewIdEmpty
    <3>4. playerSubs'[id'[k]] = {} /\ shown'[k] = {} /\ pump'[k] = Idle
      BY <1>1, <1>2, <1>3, <1>4, <1>7, <3>3
    <3>5. QED
      BY <2>3, <3>4 DEF Current, Reading, Idle
  <2>4. CASE alone'[j] /\ j # k
    <3>1. alone[j] /\ fresh'[j] = fresh[j] /\ shown'[j] = shown[j] /\ id'[j] = id[j]
      BY <1>4, <1>7, <2>4
    <3>2. Reading(j) => id[j] \in Id /\ id[j] # k
      BY <1>1, <2>4, <3>1, OtherId DEF ViewInv, IInv, Registered, Reading
    <3>3. Reading(j) => playerSubs'[id[j]] = playerSubs[id[j]]
      BY <1>3, <3>2
    <3>4. pump'[j] = pump[j] /\ fresh[j] \subseteq fresh'[j]
      BY <1>1, <3>1
    <3>5. QED
      BY <2>1, <3>1, <3>3, <3>4, CurrentKept
  <2>5. QED
    BY <2>2, <2>3, <2>4
<1>11. QED
  BY <1>6, <1>8, <1>9, <1>10 DEF Sees

LEMMA LeaveSees ==
    ASSUME ViewInv, NEW k \in Conn, Leave(k)
    PROVE  Sees'
<1> DEFINE own == id[k]
           gone == [do |-> "forget", all |-> NobodyElse(k)]
<1>1. /\ pump[k] = Idle
      /\ players' = [players EXCEPT ![own] = @ \ {k}]
      /\ pump' = [pump EXCEPT ![k] = gone]
      /\ fresh' = [fresh EXCEPT ![k] = {}]
      /\ shown' = [shown EXCEPT ![k] = {}]
      /\ UNCHANGED <<id, playerSubs, alone>>
  BY DEF Leave, maps
<1>2. own \in Id /\ gone.do = "forget"
  BY <1>1 DEF ViewInv, IInv, Registered, Idle
<1> HIDE DEF own, gone
<1>3. /\ pump'[k] = gone /\ shown'[k] = {}
      /\ \A j \in Conn \ {k} : pump'[j] = pump[j] /\ fresh'[j] = fresh[j] /\ shown'[j] = shown[j]
      /\ players'[own] = players[own] \ {k}
      /\ \A i \in Id \ {own} : players'[i] = players[i]
  BY <1>1, <1>2 DEF ViewInv, IInv, Shape, Sees, Clients
<1>4. Clients'
  BY <1>1 DEF ViewInv, Sees, Clients
<1>5. Belongs'
  <2> SUFFICES ASSUME NEW i \in Id, NEW j \in players'[i]
               PROVE  id'[j] = i /\ Reading(j)'
    BY DEF Belongs
  <2>1. j \in players[i] /\ (i = own => j # k)
    BY <1>3
  <2>2. j \in Conn /\ id[j] = i /\ Reading(j)
    BY <2>1 DEF ViewInv, IInv, Shape, Sees, Belongs
  <2>3. j # k
    BY <2>1, <2>2 DEF own
  <2>4. QED
    BY <1>1, <1>3, <2>2, <2>3 DEF Reading
<1>6. Apart'
  <2> SUFFICES ASSUME NEW j \in Conn, alone[j], pump'[j].do # "off", NEW m \in Conn \ {j}
               PROVE  id[m] # id[j]
    BY <1>1 DEF Apart
  <2>1. pump[j].do # "off"
    BY <1>1, <1>3 DEF Idle
  <2>2. QED
    BY <2>1 DEF ViewInv, Sees, Apart
<1>7. ASSUME NEW j \in Conn  PROVE Current(j)'
  <2>1. Current(j)
    BY DEF ViewInv, Sees
  <2>2. CASE j = k
    BY <1>2, <1>3, <2>2 DEF Current, Reading
  <2>3. CASE j # k
    BY <1>1, <1>3, <2>1, <2>3, CurrentKept
  <2>4. QED
    BY <2>2, <2>3
<1>8. QED
  BY <1>4, <1>5, <1>6, <1>7 DEF Sees

LEMMA ForgetLeftSees ==
    ASSUME ViewInv, NEW k \in Conn, ForgetLeft(k)
    PROVE  Sees'
<1> DEFINE own == id[k]
<1>1. /\ pump[k].do = "forget"
      /\ IF pump[k].all THEN ForgetPlayer(own) ELSE UNCHANGED <<playerViews, playerSubs>>
      /\ id' = [id EXCEPT ![k] = NoId]
      /\ pump' = [pump EXCEPT ![k] = Off]
      /\ UNCHANGED <<players, fresh, shown, alone>>
  BY DEF ForgetLeft, maps
<1>2. own \in Id
  BY <1>1 DEF ViewInv, IInv, Registered
<1>3. \A i \in Id \ {own} : playerSubs'[i] = playerSubs[i]
  BY <1>1, <1>2, ForgetDrops DEF ViewInv, IInv
<1>4. /\ id'[k] = NoId /\ pump'[k] = Off
      /\ \A j \in Conn \ {k} : id'[j] = id[j] /\ pump'[j] = pump[j]
  BY <1>1 DEF ViewInv, IInv, Shape
<1>5. ~ Reading(k)
  BY <1>1 DEF Reading
<1>6. Clients'
  BY <1>1 DEF ViewInv, Sees, Clients
<1>7. Belongs'
  <2> SUFFICES ASSUME NEW i \in Id, NEW j \in players[i]
               PROVE  id'[j] = i /\ Reading(j)'
    BY <1>1 DEF Belongs
  <2>1. j \in Conn /\ id[j] = i /\ Reading(j)
    BY DEF ViewInv, IInv, Shape, Sees, Belongs
  <2>2. j # k
    BY <1>5, <2>1
  <2>3. QED
    BY <1>4, <2>1, <2>2 DEF Reading
<1>8. Apart'
  <2> SUFFICES ASSUME NEW j \in Conn, alone[j], pump'[j].do # "off", NEW m \in Conn \ {j}
               PROVE  id'[m] # id'[j]
    BY <1>1 DEF Apart
  <2>1. j # k
    BY <1>4 DEF Off
  <2>2. pump[j].do # "off"
    BY <1>4, <2>1
  <2>3. id[m] # id[j] /\ id[j] \in Id
    BY <2>2 DEF ViewInv, Sees, Apart, IInv, Registered
  <2>4. QED
    BY <1>4, <2>1, <2>3, IdsApart
<1>9. ASSUME NEW j \in Conn  PROVE Current(j)'
  <2>1. Current(j)
    BY DEF ViewInv, Sees
  <2>2. CASE j = k
    <3>1. shown[k] = {}
      BY <1>5, <2>1, <2>2 DEF Current
    <3>2. QED
      BY <1>1, <1>4, <2>2, <3>1 DEF Current, Reading, Off
  <2>3. CASE j # k
    <3>1. alone[j] /\ Reading(j) => id[j] \in Id /\ id[j] # own
      BY <2>3, OtherId DEF ViewInv, IInv, Registered, Reading
    <3>2. alone[j] /\ Reading(j) => playerSubs'[id[j]] = playerSubs[id[j]]
      BY <1>3, <3>1
    <3>3. QED
      BY <1>1, <1>4, <2>1, <2>3, <3>2, CurrentKept
  <2>4. QED
    BY <2>2, <2>3
<1>10. QED
  BY <1>6, <1>7, <1>8, <1>9 DEF Sees

\* What an open connection knows of itself.
LEMMA OwnFacts ==
    ASSUME ViewInv, NEW k \in Conn, Reading(k)
    PROVE  /\ id[k] \in Id /\ k \in players[id[k]]
           /\ fresh[k] \subseteq Chunk /\ shown[k] \subseteq Chunk
           /\ playerSubs[id[k]] \subseteq Chunk
           /\ Current(k)
<1>1. id[k] \in Id /\ k \in players[id[k]]
  BY DEF ViewInv, IInv, Registered, Reading
<1>2. QED
  BY <1>1 DEF ViewInv, Sees, Clients, Order

LEMMA RecordViewSees ==
    ASSUME ViewInv, NEW k \in Conn, NEW v \in Views, RecordView(k, v)
    PROVE  Sees'
<1> DEFINE next == [do |-> "subscribe", view |-> v]
           part == IF Fits(v) THEN shown[k] \cap v.rect ELSE {}
<1>1. /\ pump[k] = Idle
      /\ pump' = [pump EXCEPT ![k] = next]
      /\ shown' = [shown EXCEPT ![k] = part]
      /\ UNCHANGED <<id, players, playerSubs, fresh, alone>>
  BY DEF RecordView, maps, ViewInv, Sees, Clients
<1>2. Reading(k) /\ next.do = "subscribe" /\ next.view = v
  BY <1>1 DEF Reading, Idle
<1>3. part \subseteq shown[k] /\ part \subseteq IF Fits(v) THEN v.rect ELSE {}
  OBVIOUS
<1> HIDE DEF next, part
<1>4. /\ pump'[k] = next /\ shown'[k] = part
      /\ \A j \in Conn \ {k} : pump'[j] = pump[j] /\ shown'[j] = shown[j] /\ fresh[j] \subseteq fresh'[j]
  BY <1>1 DEF ViewInv, IInv, Shape, Sees, Clients
<1>5. shown[k] \subseteq Chunk /\ Current(k)
  BY <1>2, OwnFacts
<1>6. Clients'
  BY <1>1, <1>3, <1>5 DEF ViewInv, Sees, Clients
<1>7. Reading(k)'
  BY <1>2, <1>4 DEF Reading
<1>8. Current(k)'
  <2>1. alone[k] => /\ playerSubs[id[k]] \subseteq fresh[k]
                    /\ shown[k] \subseteq playerSubs[id[k]] \cap fresh[k]
    BY <1>1, <1>2, <1>5 DEF Current, Coming, Idle
  <2>2. pump'[k].do = "subscribe" /\ pump'[k].view = v
    BY <1>2, <1>4
  <2>3. shown'[k] \subseteq shown[k] /\ shown'[k] \subseteq IF Fits(v) THEN v.rect ELSE {}
    BY <1>3, <1>4
  <2>4. QED
    BY <1>1, <1>7, <2>1, <2>2, <2>3 DEF Current, Coming, Fits
<1>9. \A i \in Id \ {id[k]} : playerSubs'[i] = playerSubs[i]
  BY <1>1
<1>10. QED
  BY <1>1, <1>2, <1>4, <1>6, <1>7, <1>8, <1>9, OwnStep

LEMMA SubscribeViewSees ==
    ASSUME ViewInv, NEW k \in Conn, SubscribeView(k)
    PROVE  Sees'
<1> DEFINE i == id[k]
           v == pump[k].view
           visible == IF Fits(v) THEN v.rect ELSE {}
           next == [do |-> "send", copy |-> Adds(i, v), shows |-> visible]
<1>1. /\ pump[k].do = "subscribe"
      /\ pump' = [pump EXCEPT ![k] = next]
      /\ UNCHANGED <<id, players, fresh, shown, alone>>
  BY DEF SubscribeView
<1>2. /\ playerSubs'[i] \subseteq playerSubs[i] \cup v.rect
      /\ visible \subseteq playerSubs'[i]
      /\ \A j \in Id \ {i} : playerSubs'[j] = playerSubs[j]
  BY ViewAgrees DEF ViewInv
<1>3. Reading(k)
  BY <1>1 DEF Reading
<1>4. v \in Views /\ v.rect \subseteq Chunk
  <2>1. pump[k] \in Pump
    BY DEF ViewInv, IInv, Shape
  <2>2. v \in Views
    BY <1>1, <2>1 DEF Pump, Idle, Off
  <2>3. QED
    BY <2>2, SubscriptionsAssumption
<1>5. i \in Id /\ fresh[k] \subseteq Chunk /\ shown[k] \subseteq Chunk /\ Current(k)
  BY <1>3, OwnFacts
<1>6. next.do = "send" /\ next.copy = v.rect \ playerSubs[i] /\ next.shows = visible
  BY DEF Adds
<1> HIDE DEF next
<1>7. /\ pump'[k] = next
      /\ \A j \in Conn \ {k} : pump'[j] = pump[j] /\ shown'[j] = shown[j] /\ fresh[j] \subseteq fresh'[j]
  BY <1>1 DEF ViewInv, IInv, Shape
<1>8. Clients'
  BY <1>1 DEF ViewInv, Sees, Clients
<1>9. Reading(k)'
  BY <1>6, <1>7 DEF Reading
<1>10. Current(k)'
  <2>1. alone[k] => /\ playerSubs[i] \subseteq fresh[k]
                    /\ shown[k] \subseteq fresh[k] /\ shown[k] \subseteq visible
    BY <1>1, <1>3, <1>5 DEF Current, Coming
  <2>2. Coming(k)' = v.rect \ playerSubs[i] /\ pump'[k].do = "send" /\ pump'[k].shows = visible
    BY <1>6, <1>7 DEF Coming
  <2>3. id'[k] = i /\ fresh'[k] = fresh[k] /\ shown'[k] = shown[k] /\ alone'[k] = alone[k]
    BY <1>1
  <2>4. alone[k] => playerSubs'[i] \subseteq fresh'[k] \cup Coming(k)'
    BY <1>2, <2>1, <2>2, <2>3
  <2>5. alone[k] => shown'[k] \subseteq playerSubs'[i] \cap fresh'[k]
    BY <1>2, <2>1, <2>3
  <2>6. "send" # "subscribe"
    OBVIOUS
  <2> HIDE DEF i, v, visible
  <2>7. QED
    BY <1>2, <1>9, <2>2, <2>3, <2>4, <2>5, <2>6 DEF Current
<1>11. QED
  BY <1>1, <1>2, <1>3, <1>7, <1>8, <1>9, <1>10, OwnStep

LEMMA SendSees ==
    ASSUME ViewInv, NEW k \in Conn, Send(k)
    PROVE  Sees'
<1> DEFINE i == id[k]
           copy == pump[k].copy
           next == IF alone[k] THEN pump[k].shows ELSE {}
<1>1. /\ pump[k].do = "send"
      /\ fresh' = [j \in Conn |-> IF j \in players[i] /\ alone[j] THEN fresh[j] \cup copy ELSE fresh[j]]
      /\ shown' = [shown EXCEPT ![k] = next]
      /\ pump' = [pump EXCEPT ![k] = Idle]
      /\ UNCHANGED <<id, players, playerSubs, alone>>
  BY DEF Send, Delivered, maps
<1>2. Reading(k) /\ "send" # "subscribe"
  BY <1>1 DEF Reading
<1>3. copy \subseteq Chunk /\ pump[k].shows \subseteq Chunk
  <2>1. pump[k] \in Pump
    BY DEF ViewInv, IInv, Shape
  <2>2. QED
    BY <1>1, <2>1 DEF Pump, Idle, Off
<1>4. i \in Id /\ k \in players[i] /\ fresh[k] \subseteq Chunk /\ Current(k)
  BY <1>2, OwnFacts
<1>5. next \subseteq Chunk
  BY <1>3
<1> HIDE DEF next
<1>6. /\ pump'[k] = Idle /\ shown'[k] = next
      /\ alone[k] => fresh'[k] = fresh[k] \cup copy
      /\ \A j \in Conn \ {k} : pump'[j] = pump[j] /\ shown'[j] = shown[j] /\ fresh[j] \subseteq fresh'[j]
  BY <1>1, <1>4 DEF ViewInv, IInv, Shape, Sees, Clients
<1>7. Clients'
  <2>1. shown' \in [Conn -> SUBSET Chunk]
    BY <1>1, <1>5 DEF ViewInv, Sees, Clients
  <2>2. fresh' \in [Conn -> SUBSET Chunk]
    BY <1>1, <1>3 DEF ViewInv, Sees, Clients
  <2>3. QED
    BY <1>1, <2>1, <2>2 DEF ViewInv, Sees, Clients
<1>8. Reading(k)'
  BY <1>6 DEF Reading, Idle
<1>9. Current(k)'
  <2>1. alone[k] => playerSubs[i] \subseteq fresh[k] \cup copy /\ pump[k].shows \subseteq playerSubs[i]
    BY <1>1, <1>2, <1>4 DEF Current, Coming
  <2>2. alone[k] => playerSubs[i] \subseteq fresh'[k] /\ shown'[k] \subseteq playerSubs[i]
    BY <1>6, <2>1 DEF next
  <2>3. QED
    BY <1>1, <1>6, <1>8, <2>2 DEF Current, Idle
<1>10. \A j \in Id \ {i} : playerSubs'[j] = playerSubs[j]
  BY <1>1
<1>11. QED
  BY <1>1, <1>2, <1>6, <1>7, <1>8, <1>9, <1>10, OwnStep

LEMMA SubscribeToChunkSees ==
    ASSUME ViewInv, NEW k \in Conn, NEW c \in Chunk, SubscribeToChunk(k, c)
    PROVE  Sees'
<1> DEFINE i == id[k]
           next == [do |-> "send", copy |-> {c}, shows |-> {}]
<1>1. /\ pump[k] = Idle
      /\ pump' = [pump EXCEPT ![k] = next]
      /\ shown' = [shown EXCEPT ![k] = {}]
      /\ UNCHANGED <<id, players, fresh, alone>>
  BY DEF SubscribeToChunk
<1>2. Reading(k) /\ "send" # "subscribe"
  BY <1>1 DEF Reading, Idle
<1>3. i \in Id /\ Current(k)
  BY <1>2, OwnFacts
<1>4. /\ playerSubs'[i] \subseteq playerSubs[i] \cup {c}
      /\ \A j \in Id \ {i} : playerSubs'[j] = playerSubs[j]
  BY <1>3, AddAgrees DEF ViewInv
<1>5. next.do = "send" /\ next.copy = {c} /\ next.shows = {}
  OBVIOUS
<1> HIDE DEF next
<1>6. /\ pump'[k] = next /\ shown'[k] = {}
      /\ \A j \in Conn \ {k} : pump'[j] = pump[j] /\ shown'[j] = shown[j] /\ fresh[j] \subseteq fresh'[j]
  BY <1>1 DEF ViewInv, IInv, Shape, Sees, Clients
<1>7. Clients'
  BY <1>1 DEF ViewInv, Sees, Clients
<1>8. Reading(k)'
  BY <1>5, <1>6 DEF Reading
<1>9. Current(k)'
  <2>1. alone[k] => playerSubs[i] \subseteq fresh[k]
    BY <1>1, <1>2, <1>3 DEF Current, Coming, Idle
  <2>2. alone[k] => playerSubs'[i] \subseteq fresh[k] \cup {c}
    BY <1>4, <2>1
  <2>3. Coming(k)' = {c} /\ pump'[k].do = "send" /\ pump'[k].shows = {}
    BY <1>5, <1>6 DEF Coming
  <2>4. QED
    BY <1>1, <1>2, <1>6, <1>8, <2>2, <2>3 DEF Current
<1>10. QED
  BY <1>1, <1>2, <1>4, <1>6, <1>7, <1>8, <1>9, OwnStep

LEMMA UnsubscribeSees ==
    ASSUME ViewInv, NEW k \in Conn, NEW c \in Chunk, UnsubscribeFromChunk(k, c)
    PROVE  Sees'
<1> DEFINE i == id[k]
<1>1. /\ pump[k] = Idle
      /\ shown' = [shown EXCEPT ![k] = @ \ {c}]
      /\ UNCHANGED <<id, players, pump, fresh, alone>>
  BY DEF UnsubscribeFromChunk
<1>2. Reading(k)
  BY <1>1 DEF Reading, Idle
<1>3. i \in Id /\ Current(k)
  BY <1>2, OwnFacts
<1>4. /\ playerSubs'[i] = playerSubs[i] \ {c}
      /\ \A j \in Id \ {i} : playerSubs'[j] = playerSubs[j]
  BY <1>3, DropAgrees DEF ViewInv
<1>5. /\ pump'[k] = Idle /\ shown'[k] = shown[k] \ {c}
      /\ \A j \in Conn \ {k} : pump'[j] = pump[j] /\ shown'[j] = shown[j] /\ fresh[j] \subseteq fresh'[j]
  BY <1>1 DEF ViewInv, IInv, Shape, Sees, Clients
<1>6. Clients'
  BY <1>1 DEF ViewInv, Sees, Clients
<1>7. Reading(k)'
  BY <1>5 DEF Reading, Idle
<1>8. Current(k)'
  <2>1. alone[k] => playerSubs[i] \subseteq fresh[k] /\ shown[k] \subseteq playerSubs[i] \cap fresh[k]
    BY <1>1, <1>2, <1>3 DEF Current, Coming, Idle
  <2>2. alone[k] => /\ playerSubs'[i] \subseteq fresh[k]
                    /\ shown'[k] \subseteq playerSubs'[i] \cap fresh[k]
    BY <1>4, <1>5, <2>1
  <2>3. QED
    BY <1>1, <1>5, <1>7, <2>2 DEF Current, Idle
<1>9. QED
  BY <1>1, <1>2, <1>4, <1>5, <1>6, <1>7, <1>8, OwnStep

\* A change reaches the ids that are subscribed; it makes stale only what no
\* client that is alone is subscribed to.
LEMMA ChangeSees ==
    ASSUME ViewInv, NEW c \in Chunk, Change(c)
    PROVE  Sees'
<1> DEFINE told == {k \in Conn : \E i \in subs[c] : k \in players[i]}
           missed(k) == pump[k].do = "send" /\ id[k] \notin subs[c]
<1>1. /\ fresh' = [k \in Conn |-> IF k \in told THEN fresh[k] ELSE fresh[k] \ {c}]
      /\ pump' = [k \in Conn |-> IF missed(k) THEN [pump[k] EXCEPT !.copy = @ \ {c}] ELSE pump[k]]
      /\ UNCHANGED <<id, players, playerSubs, shown, alone>>
  BY DEF Change, maps
<1>2. \A k \in Conn :
          /\ pump'[k].do = pump[k].do
          /\ pump[k].do = "send" => /\ pump'[k].shows = pump[k].shows
                                    /\ missed(k) => pump'[k].copy = pump[k].copy \ {c}
          /\ ~ missed(k) => pump'[k] = pump[k]
  <2> SUFFICES ASSUME NEW k \in Conn
               PROVE  /\ pump'[k].do = pump[k].do
                      /\ pump[k].do = "send" => /\ pump'[k].shows = pump[k].shows
                                                /\ missed(k) => pump'[k].copy = pump[k].copy \ {c}
                      /\ ~ missed(k) => pump'[k] = pump[k]
    OBVIOUS
  <2>1. CASE ~ missed(k)
    BY <1>1, <2>1
  <2>2. CASE missed(k)
    <3>1. pump[k] \in Pump
      BY DEF ViewInv, IInv, Shape
    <3>2. pump[k] \in [do : {"send"}, copy : SUBSET Chunk, shows : SUBSET Chunk]
      BY <2>2, <3>1 DEF Pump, Idle, Off
    <3>3. pump'[k] = [pump[k] EXCEPT !.copy = @ \ {c}]
      BY <1>1, <2>2
    <3>4. QED
      BY <2>2, <3>2, <3>3
  <2>3. QED
    BY <2>1, <2>2
<1>3. \A k \in Conn : Reading(k)' <=> Reading(k)
  BY <1>2 DEF Reading
<1>4. Clients'
  BY <1>1 DEF ViewInv, Sees, Clients
<1>5. Belongs'
  <2>1. \A i \in Id : players[i] \subseteq Conn
    BY DEF ViewInv, IInv, Shape
  <2>2. QED
    BY <1>1, <1>3, <2>1 DEF ViewInv, Sees, Belongs
<1>6. Apart'
  BY <1>1, <1>2 DEF ViewInv, Sees, Apart
<1>7. ASSUME NEW k \in Conn  PROVE Current(k)'
  <2>1. Current(k)
    BY DEF ViewInv, Sees
  <2>2. CASE ~ (alone[k] /\ Reading(k))
    BY <1>1, <1>3, <2>1, <2>2 DEF Current
  <2>3. CASE alone[k] /\ Reading(k)
    <3> DEFINE i == id[k]
    <3>1. i \in Id /\ k \in players[i]
      BY <2>3, OwnFacts
    <3>2. c \in playerSubs[i] <=> i \in subs[c]
      BY <3>1 DEF ViewInv, MapsAgree
    <3>3. /\ playerSubs[i] \subseteq fresh[k] \cup Coming(k)
          /\ shown[k] \subseteq playerSubs[i] \cap fresh[k]
          /\ pump[k].do = "subscribe" =>
                shown[k] \subseteq IF Fits(pump[k].view) THEN pump[k].view.rect ELSE {}
          /\ pump[k].do = "send" => pump[k].shows \subseteq playerSubs[i]
      BY <2>1, <2>3 DEF Current
    <3>4. pump'[k].do = pump[k].do
      BY <1>2
    <3>5. pump'[k].do = "subscribe" =>
             shown'[k] \subseteq IF Fits(pump'[k].view) THEN pump'[k].view.rect ELSE {}
      <4>1. SUFFICES ASSUME pump[k].do = "subscribe"
                     PROVE  shown'[k] \subseteq IF Fits(pump'[k].view) THEN pump'[k].view.rect ELSE {}
        BY <3>4
      <4>2. ~ missed(k)
        BY <4>1
      <4>3. pump'[k] = pump[k]
        BY <1>2, <4>2
      <4>4. QED
        BY <1>1, <3>3, <4>1, <4>3
    <3>6. pump'[k].do = "send" => pump'[k].shows \subseteq playerSubs'[i]
      BY <1>1, <1>2, <3>3, <3>4
    <3>7. /\ playerSubs[i] \subseteq fresh'[k] \cup Coming(k)'
          /\ shown[k] \subseteq playerSubs[i] \cap fresh'[k]
      <4>1. CASE i \in subs[c]
        <5>1. k \in told /\ ~ missed(k)
          BY <3>1, <4>1
        <5>2. fresh'[k] = fresh[k] /\ pump'[k] = pump[k]
          BY <1>1, <1>2, <5>1
        <5>3. QED
          BY <3>3, <5>2 DEF Coming
      <4>2. CASE i \notin subs[c]
        <5>1. c \notin playerSubs[i] /\ c \notin shown[k]
          BY <3>2, <3>3, <4>2
        <5>2. fresh[k] \ {c} \subseteq fresh'[k]
          BY <1>1
        <5>3. Coming(k) \ {c} \subseteq Coming(k)'
          BY <1>2, <4>2 DEF Coming
        <5>4. QED
          BY <3>3, <5>1, <5>2, <5>3
      <4>3. QED
        BY <4>1, <4>2
    <3>8. QED
      BY <1>1, <1>3, <2>3, <3>5, <3>6, <3>7 DEF Current
  <2>4. QED
    BY <2>2, <2>3
<1>8. QED
  BY <1>4, <1>5, <1>6, <1>7 DEF Sees

LEMMA SeesStep ==
    ASSUME ViewInv, [Next]_vars
    PROVE  Sees'
<1>1. CASE UNCHANGED vars
  BY <1>1 DEF vars, maps, ViewInv, Sees, Clients, Belongs, Apart, Current, Coming, Reading
<1>2. ASSUME NEW k \in Conn,
             \/ Connect(k) \/ Leave(k) \/ ForgetLeft(k)
             \/ \E p \in Player : Join(k, p)
             \/ \E v \in Views : RecordView(k, v)
             \/ SubscribeView(k) \/ Send(k)
             \/ \E c \in Chunk : SubscribeToChunk(k, c) \/ UnsubscribeFromChunk(k, c)
      PROVE  Sees'
  BY <1>2, ConnectSees, LeaveSees, ForgetLeftSees, JoinSees, RecordViewSees, SubscribeViewSees,
     SendSees, SubscribeToChunkSees, UnsubscribeSees
<1>3. ASSUME NEW c \in Chunk, Change(c)
      PROVE  Sees'
  BY <1>3, ChangeSees
<1>4. QED
  BY <1>1, <1>2, <1>3 DEF Next

LEMMA SeesInit == Init => Sees
<1> SUFFICES ASSUME Init  PROVE Sees
  OBVIOUS
<1>1. /\ pump = [k \in Conn |-> Off]
      /\ players = [i \in Id |-> {}]
      /\ fresh = [k \in Conn |-> {}]
      /\ shown = [k \in Conn |-> {}]
      /\ alone = [k \in Conn |-> TRUE]
  BY DEF Init
<1>2. Clients
  BY <1>1 DEF Clients
<1>3. \A k \in Conn : ~ Reading(k) /\ pump[k].do = "off"
  BY <1>1 DEF Reading, Off
<1>4. QED
  BY <1>1, <1>2, <1>3 DEF Sees, Belongs, Apart, Current

\* A client with its id to itself is sent every change of what it has in view
\* and was sent once, whatever other connections do in between.
THEOREM ViewIsFreshHolds == Spec => []ViewIsFresh
<1>1. Init => ViewInv
  BY InitInv, MapsInit, SeesInit DEF ViewInv
<1>2. ViewInv /\ [Next]_vars => ViewInv'
  BY NextInv, MapsStep, SeesStep DEF ViewInv
<1>3. ViewInv => ViewIsFresh
  <2> SUFFICES ASSUME ViewInv, NEW k \in Conn, alone[k]
               PROVE  shown[k] \subseteq fresh[k]
    BY DEF ViewIsFresh
  <2>1. QED
    BY DEF ViewInv, Sees, Current
<1>4. QED
  BY <1>1, <1>2, <1>3, PTL DEF Spec
=============================================================================

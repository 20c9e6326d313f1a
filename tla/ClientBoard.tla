----------------------------- MODULE ClientBoard -----------------------------
(***************************************************************************)
(* What one player sees of the board (frontend/src/useGameState.js) and    *)
(* what the server sends it (backend/game.go, backend/websocket.go).       *)
(*                                                                         *)
(* The client applies its clicks at once and remembers what it changed; an *)
(* answer undoes that and, if the click was accepted, applies what the     *)
(* server says.  Changes by anybody arrive as broadcasts, whole chunks as  *)
(* syncs.  Answers are queued under the lock of the server's state,        *)
(* broadcasts by goroutines after it was released, so the two can swap.    *)
(* Scores are in World; numbers follow from the mines.                     *)
(***************************************************************************)
EXTENDS Board, Sequences, SequencesExt, Functions

CONSTANTS
    Mine,        \* the mines
    Circumstances,  \* what may happen in one behaviour: clicks of the player
                    \* (and of which kinds), clicks of others, views sent
                    \* and reconnects
    SendBufSize  \* messages the server keeps for a connection

Kinds == {"reveal", "flag", "chord"}

ASSUME ClientBoardAssumption ==
    /\ Mine \subseteq Cell
    /\ Circumstances \subseteq [kinds : SUBSET Kinds, clicks : Nat, others : Nat,
                                views : Nat, reconnects : Nat]
    /\ SendBufSize \in Nat \ {0}

Chunks == Range(ChunkOf)
SafeZeros == ZeroCells(Mine) \ Mine

VARIABLES
    given,      \* what may still happen in this behaviour
    uncovered,  \* the server's board: revealed cells, mines among them
    flagged,    \* and flagged ones
    casts,      \* broadcasts on their way to the queue of the connection
    subs,       \* the chunks the player is subscribed to
    up,         \* messages of the client that readPump has not read
    mailbox,    \* commands read and not executed
    syncing,    \* the chunks readPump is about to send
    down,       \* the Send queue and the wire behind it
    shown,      \* the client's cells: revealed in its eyes, flagged ones too
    marks,      \* the client's flags
    everRevealed, \* the client's board has had something to show
    seeds,      \* the chunks whose seed the client has
    optimistic, \* optimisticActions: what every unanswered click changed
    requests,   \* clicks so far; their number is the request id
    lost,       \* history: a message found the queue full
    crossed,    \* history: the chunks of which a sync arrived between a click
                \* and its answer
    unhinged    \* history: a broadcast made the client forget a click

server == <<uncovered, flagged, casts>>
client == <<shown, marks, everRevealed, seeds, optimistic>>
notes == <<lost, crossed, unhinged>>
clientVars == <<given, server, subs, up, mailbox, syncing, down, client, requests, notes>>

ClientInit ==
    /\ given \in Circumstances
    /\ uncovered = {} /\ flagged = {} /\ casts = {}
    /\ subs = {} /\ syncing = {}
    /\ up = <<>> /\ mailbox = <<>> /\ down = <<>>
    /\ shown = {} /\ marks = {} /\ everRevealed = FALSE /\ seeds = {}
    /\ optimistic = <<>> /\ requests = 0
    /\ lost = FALSE /\ crossed = {} /\ unhinged = FALSE

In(ch, S) == S \cap CellsOf(ch)

\* given with one less of what.
Spend(what) == given[what] > 0 /\ given' = [given EXCEPT ![what] = @ - 1]

\* sendToPlayer: a message that finds the queue full is dropped.
Push(m) ==
    IF Len(down) < SendBufSize
    THEN down' = Append(down, m) /\ UNCHANGED lost
    ELSE lost' = TRUE /\ UNCHANGED down

-----------------------------------------------------------------------------
(* The server executes a command: see Command in World. *)

Unsettled == Cell \ (uncovered \cup flagged)

\* hasRevealedWithinTwo.
InReach(c) == uncovered = {} \/ Near[c] \cap uncovered # {}

Accepts(kind, c) ==
    IF kind = "chord"
    THEN /\ c \in uncovered
         /\ ChordNeed(c, Mine) = ChordHave(c, Mine, uncovered, flagged)
    ELSE c \in Unsettled /\ InReach(c)

Places(kind, c) == IF kind = "flag" /\ c \in Mine THEN {c} ELSE {}
Opens(kind, c) ==
    IF kind = "chord" THEN Opened(Nbr[c], SafeZeros, Unsettled)
                      ELSE Opened({c} \ Places(kind, c), SafeZeros, Unsettled)

\* The command resolves cells; the broadcasts are one for every chunk in which
\* it opened some, and one for a flag.
Mutate(opens, places, own) ==
    /\ uncovered' = uncovered \cup opens
    /\ flagged' = flagged \cup places
    /\ casts' = casts
         \cup {[chunk |-> ch, opens |-> In(ch, opens), places |-> {}, own |-> own] :
                  ch \in {ChunkOf[d] : d \in opens}}
         \cup {[chunk |-> ChunkOf[d], opens |-> {}, places |-> {d}, own |-> own] : d \in places}

\* The mailbox runs one command at a time: the next one waits until the
\* broadcasts of the last one are out.  The answer is sent under the lock and
\* has what was opened in the chunk of the click.
Execute ==
    /\ mailbox # <<>> /\ \A m \in casts : ~ m.own
    /\ LET cmd == Head(mailbox)
           Answer(ok, opens, places) == [is |-> "ack", request |-> cmd.request, ok |-> ok,
                                         opens |-> opens, places |-> places]
       IN  \/ /\ Accepts(cmd.do, cmd.cell)
              /\ \E opens \in {Opens(cmd.do, cmd.cell)}, places \in {Places(cmd.do, cmd.cell)} :
                    /\ Mutate(opens, places, TRUE)
                    /\ Push(Answer(TRUE, In(ChunkOf[cmd.cell], opens), places))
           \/ /\ ~ Accepts(cmd.do, cmd.cell)
              /\ Push(Answer(FALSE, {}, {}))
              /\ UNCHANGED server
    /\ mailbox' = Tail(mailbox)
    /\ UNCHANGED <<given, subs, up, syncing, client, requests, crossed, unhinged>>

\* Somebody else's command.
Other ==
    /\ Spend("others")
    /\ \E kind \in given.kinds, c \in Cell :
          Accepts(kind, c) /\ Mutate(Opens(kind, c), Places(kind, c), FALSE)
    /\ UNCHANGED <<subs, up, mailbox, syncing, down, client, requests, notes>>

\* broadcastToChunkSubs: to the subscribers of the chunk, and to the player
\* who acted in any case.
\* Variant: not to the player who acted, whom the answer tells.
VariantAddressed(m) == ~ m.own /\ m.chunk \in subs
Addressed(m) == m.own \/ m.chunk \in subs

Broadcast(m) ==
    /\ casts' = casts \ {m}
    /\ IF Addressed(m)
       THEN Push([is |-> "cast", chunk |-> m.chunk, opens |-> m.opens, places |-> m.places])
       ELSE UNCHANGED <<down, lost>>
    /\ UNCHANGED <<given, uncovered, flagged, subs, up, mailbox, syncing, client, requests,
                   crossed, unhinged>>

\* readPump: a command goes to the mailbox, a view becomes subscriptions, of
\* which the added ones are sent next; the far ones are dropped.
Read ==
    /\ up # <<>> /\ syncing = {}
    /\ up' = Tail(up)
    /\ LET m == Head(up)
       IN  IF m.do = "view"
           THEN subs' = m.rect /\ syncing' = m.rect \ subs /\ UNCHANGED mailbox
           ELSE mailbox' = Append(mailbox, m) /\ UNCHANGED <<subs, syncing>>
    /\ UNCHANGED <<given, server, down, client, requests, notes>>

\* sendChunkRegionSync.  A flagged cell is sent as a revealed one, the flags
\* besides.
SendRegion ==
    /\ syncing # {}
    /\ syncing' = {}
    /\ Push([is |-> "sync", chunks |-> syncing,
             opens |-> UNION {In(ch, uncovered \cup flagged) : ch \in syncing},
             places |-> UNION {In(ch, flagged) : ch \in syncing}])
    /\ UNCHANGED <<given, server, subs, up, mailbox, client, requests, crossed, unhinged>>

-----------------------------------------------------------------------------
(* The client sends. *)

View ==
    /\ Spend("views")
    /\ \E rect \in SUBSET Chunks \ {{}} : up' = Append(up, [do |-> "view", rect |-> rect])
    /\ UNCHANGED <<server, subs, mailbox, syncing, down, client, requests, notes>>

Known == {c \in Cell : ChunkOf[c] \in seeds}
KnownAround(c) == Nbr[c] \cup {c} \subseteq Known

\* isWithinTwoOfRevealed: also when part of the surroundings is unknown, and
\* before there is anything to show: a sync of an empty chunk ends that.
IsWithinTwo(c) ==
    ~ everRevealed \/ Near[c] \cap shown # {} \/ \E d \in Near[c] : ChunkOf[d] \notin seeds

CanChord(c) ==
    /\ KnownAround(c)
    /\ CountAdjacent(c, marks) + CountAdjacent(c, (shown \cap Mine \cap Known) \ marks)
           = ChordNeed(c, Mine)

\* The zeros the client is sure of.
KnownZeros == {z \in SafeZeros : KnownAround(z)}

\* handleCellClick: what the click may be, and what it changes at once.
MayClick(kind, c) ==
    /\ c \notin marks
    /\ IF kind = "chord" THEN c \in shown /\ c \notin Mine \cap Known /\ CanChord(c)
                         ELSE c \notin shown /\ IsWithinTwo(c)

Guess(kind, c) ==
    LET closed == Known \ (shown \cup marks)
    IN  IF kind = "chord" THEN Opened(Nbr[c], KnownZeros, closed)
        ELSE IF kind = "reveal" THEN {c} \cap Known ELSE {}
GuessFlag(kind, c) == IF kind = "flag" /\ c \notin Known \ Mine THEN {c} ELSE {}

\* The click is sent when it changed something, a flag in any case.
Click(kind, c) ==
    /\ Spend("clicks") /\ MayClick(kind, c)
    /\ LET opens == Guess(kind, c)
           places == GuessFlag(kind, c)
           new == requests + 1
       IN  /\ kind = "flag" \/ opens # {}
           /\ shown' = shown \cup opens
           /\ marks' = marks \cup places
           /\ everRevealed' = (everRevealed \/ opens # {})
           /\ optimistic' = [r \in DOMAIN optimistic \cup {new} |->
                 IF r = new THEN [opens |-> opens, places |-> places] ELSE optimistic[r]]
           /\ up' = Append(up, [do |-> kind, cell |-> c, request |-> new])
           /\ requests' = new
    /\ UNCHANGED <<server, subs, mailbox, syncing, down, seeds, notes>>

-----------------------------------------------------------------------------
(* The client receives. *)

\* An answer: everything the click changed is undone, then what the server
\* says is applied.  An answer to a forgotten click changes nothing.
\* Variant: a refused click is not undone.
VariantUndone(m) == IF m.ok THEN optimistic[m.request] ELSE [opens |-> {}, places |-> {}]
Undone(m) == optimistic[m.request]

ReceiveAck(m) ==
    IF m.request \notin DOMAIN optimistic THEN UNCHANGED <<client, crossed, unhinged>>
    ELSE /\ shown' = (shown \ Undone(m).opens) \cup m.opens \cup m.places
         /\ marks' = (marks \ Undone(m).places) \cup m.places
         /\ everRevealed' = (everRevealed \/ m.ok)
         /\ optimistic' = [r \in DOMAIN optimistic \ {m.request} |-> optimistic[r]]
         /\ UNCHANGED <<seeds, crossed, unhinged>>

\* A broadcast: what clicks had changed in the chunk is forgotten, and a click
\* of which nothing is left; revealed cells that are known to be safe or not
\* known at all lose their flag.
Forget(r, ch) ==
    [opens |-> optimistic[r].opens \ CellsOf(ch), places |-> optimistic[r].places \ CellsOf(ch)]
Nothing == [opens |-> {}, places |-> {}]

ReceiveCast(m) ==
    LET gone == {r \in DOMAIN optimistic : optimistic[r] # Nothing /\ Forget(r, m.chunk) = Nothing}
    IN  /\ optimistic' = [r \in DOMAIN optimistic \ gone |-> Forget(r, m.chunk)]
        /\ unhinged' = (unhinged \/ \E r \in DOMAIN optimistic :
                                       Forget(r, m.chunk) # optimistic[r])
        /\ shown' = shown \cup m.opens \cup m.places
        /\ marks' = (marks \ (m.opens \ (Mine \cap Known))) \cup m.places
        /\ everRevealed' = TRUE
        /\ UNCHANGED <<seeds, crossed>>

\* A sync adds what it shows and takes nothing away.
ReceiveSync(m) ==
    /\ shown' = shown \cup m.opens
    /\ marks' = marks \cup m.places
    /\ everRevealed' = TRUE
    /\ seeds' = seeds \cup m.chunks
    /\ crossed' = crossed \cup {ch \in m.chunks : \E r \in DOMAIN optimistic :
                       Forget(r, ch) # optimistic[r]}
    /\ UNCHANGED <<optimistic, unhinged>>

Receive ==
    /\ down # <<>>
    /\ down' = Tail(down)
    /\ LET m == Head(down)
       IN  \/ m.is = "ack" /\ ReceiveAck(m)
           \/ m.is = "cast" /\ ReceiveCast(m)
           \/ m.is = "sync" /\ ReceiveSync(m)
    /\ UNCHANGED <<given, server, subs, up, mailbox, syncing, requests, lost>>

\* The answer to a request for the seed of a chunk next to a known one.
SeedResponse ==
    /\ \E c \in Cell, d \in Known :
          /\ c \in Nbr[d] /\ c \notin Known
          /\ seeds' = seeds \cup {ChunkOf[c]}
    /\ UNCHANGED <<given, server, subs, up, mailbox, syncing, down, shown, marks,
                   everRevealed, optimistic, requests, notes>>

\* The connection breaks and a new one joins: the client clears its board, the
\* server drops the subscriptions and the commands that wait.
Reconnect ==
    /\ Spend("reconnects")
    /\ subs' = {} /\ syncing' = {}
    /\ up' = <<>> /\ mailbox' = <<>> /\ down' = <<>>
    /\ shown' = {} /\ marks' = {} /\ everRevealed' = FALSE /\ optimistic' = <<>>
    /\ lost' = FALSE /\ crossed' = {} /\ unhinged' = FALSE
    /\ UNCHANGED <<server, seeds, requests>>

ClientNext ==
    \/ Execute \/ Other \/ Read \/ SendRegion
    \/ \E m \in casts : Broadcast(m)
    \/ View \/ Receive \/ SeedResponse \/ Reconnect
    \/ \E kind \in given.kinds, c \in Cell : Click(kind, c)

ClientSpec == ClientInit /\ [][ClientNext]_clientVars

-----------------------------------------------------------------------------
(* Properties. *)

Settled == uncovered \cup flagged

\* Nothing is under way between the client and the server.
Quiet == up = <<>> /\ mailbox = <<>> /\ syncing = {} /\ casts = {} /\ down = <<>>

\* When everything has arrived, the client shows every cell that is resolved
\* in the chunks it is subscribed to, and every flag on them; whatever order
\* clicks, answers, broadcasts and syncs came in.  Except after a full queue,
\* and in a chunk whose sync came between a click and its answer.
NothingMissing ==
    Quiet /\ ~ lost =>
        \A ch \in subs \ crossed : In(ch, Settled) \subseteq shown /\ In(ch, flagged) \subseteq marks

\* And it shows nothing that is not so on the server: every click that was
\* refused has been undone.  Except after a broadcast made it forget one.
NothingInvented ==
    Quiet /\ ~ lost /\ ~ unhinged => shown \subseteq Settled /\ marks \subseteq flagged

=============================================================================

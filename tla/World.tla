------------------------------- MODULE World --------------------------------
(***************************************************************************)
(* The authoritative game state of the server and the unified reveal /     *)
(* flag / chord handler (backend/game.go handleReveal), together with what *)
(* the handler writes to the write-ahead log and what replaying that log   *)
(* rebuilds (backend/persistence.go).                                      *)
(*                                                                         *)
(* handleReveal runs from first check to last WAL entry under stateMu, so  *)
(* each of its branches is one action.  Rejected commands change nothing   *)
(* and are not actions.                                                    *)
(***************************************************************************)
EXTENDS Board, Functions

CONSTANTS
    Player,           \* players that issue commands
    NoOne,            \* no player: PlayerID 0
    Boards,           \* the mine layouts the run starts from
    Multiplier,       \* Multiplier[ch]: values of getScoreMultiplier, in percent:
                      \* density fixes one, players nearby raise it
    MaxScore,         \* largest int32
    DenseChunks,      \* chunks of density at least 0.32
    Distance,         \* Distance[ch]: Chebyshev distance of ch to the origin
    Advancement,      \* achievementDefs other than collector
    Criterion,        \* Criterion[a]: the statistic a looks at and its threshold
    Rewarded,         \* the advancements that unlock flags
    Collector,        \* the collector achievement
    CollectorNeed     \* how many advancements unlock it (10 in the program)

ASSUME WorldAssumption ==
    /\ NoOne \notin Player
    /\ Boards \subseteq SUBSET Cell
    /\ Multiplier \in [{ChunkOf[c] : c \in Cell} -> SUBSET Nat]
    /\ MaxScore \in Nat
    /\ Criterion \in [Advancement ->
          [stat : {"cellsRevealed", "correctFlags", "chunksFounded", "chunksCleared",
                   "maxSafeStreak", "furthestChunkDistance", "highDensityReveals"},
           atLeast : Nat \ {0}]]
    /\ Collector \notin Advancement
    /\ Rewarded \subseteq Advancement
    /\ CollectorNeed \in Nat \ {0}
    /\ Distance \in [{ChunkOf[c] : c \in Cell} -> Nat]
    /\ IsFiniteSet(Player) /\ IsFiniteSet(Advancement)

\* proximityRadius is 2 in every server that NewServer makes: a square around
\* the cell that holds its neighbours, and the same seen from either end.
ASSUME ProximityAssumption ==
    \A c \in Cell :
        /\ Nbr[c] \cup {c} \subseteq Near[c]
        /\ \A d \in Near[c] : c \in Near[d]

VARIABLES
    mines,          \* the mines: a function of seed and density, fixed for good
    revealed,       \* the revealed cells, mines that exploded included
    flags,          \* flags[c]: the owner of the flag on c
    explosions,     \* explosions[c]: who revealed the mine on c
    totalRevealed,  \* running count of revealed cells
    scores,
    streaks,
    playerStats,
    unlocked,       \* unlocked[p]: unlockedAdvancements
    replica         \* what replaying every WAL entry written so far rebuilds

vars == <<mines, revealed, flags, explosions, totalRevealed, scores, streaks,
          playerStats, unlocked, replica>>

Flagged == {c \in Cell : flags[c] # NoOne}
\* Variants marked "Variant" are the code with a plausible slip; a run of
\* each shows that the property it is paired with would notice.
VariantHidden == Cell \ revealed
Hidden  == Cell \ (revealed \cup Flagged)
Zeros   == ZeroCells(mines)

Stats == [cellsRevealed : Nat, correctFlags : Nat, chunksFounded : Nat,
          chunksCleared : Nat, currentSafeStreak : Nat, maxSafeStreak : Nat,
          furthestChunkDistance : Nat, highDensityReveals : Nat]

NoStats == [cellsRevealed |-> 0, correctFlags |-> 0, chunksFounded |-> 0,
            chunksCleared |-> 0, currentSafeStreak |-> 0, maxSafeStreak |-> 0,
            furthestChunkDistance |-> 0, highDensityReveals |-> 0]

Higher(m, n) == IF m < n THEN n ELSE m
Lower(m, n)  == IF m < n THEN m ELSE n

-----------------------------------------------------------------------------
(* Scoring.  Amounts are points, multipliers percentages. *)

\* math.Round: to the nearest integer, halves away from zero.
RoundDiv(n, d) ==
    IF n >= 0 THEN (n + d \div 2) \div d ELSE -((d \div 2 - n) \div d)

\* streakBonus: +5% per consecutive correct action, at most 3x.
StreakBonus(p) == 100 + Lower(5 * streaks[p], 200)

Reward(p, points, m)  == RoundDiv(points * m * StreakBonus(p), 10000)
Penalty(points, m)    == -RoundDiv(points * m, 100)

\* An int32 sum that passes the largest value wraps around.
Int32(n) ==
    IF n > MaxScore
    THEN ((n + MaxScore + 1) % (2 * (MaxScore + 1))) - (MaxScore + 1) ELSE n

VariantApplyScore(p, delta) == [scores EXCEPT ![p] = Int32(@ + delta)]

\* applyScore: never below zero.
ApplyScore(p, delta) ==
    [scores EXCEPT ![p] = Higher(0, Int32(@ + delta))]

\* What an action does to the streaks: bumpSafeStreakLocked and streaks++,
\* resetSafeStreakLocked and streaks = 0, or neither.
ApplyStreak(n, outcome) ==
    CASE outcome = "bump"  -> n + 1
      [] outcome = "reset" -> 0
      [] outcome = "keep"  -> n

-----------------------------------------------------------------------------
(* Statistics and advancements. *)

Resolved == revealed \cup Flagged

\* Variant: the flagged cells are forgotten.
VariantChunksCompleted(cells) ==
    {ch \in {ChunkOf[c] : c \in cells} : CellsOf(ch) \subseteq revealed \cup cells}

\* creditChunkClearLocked, over the cells of one action: the chunks whose
\* last unresolved cell is among the cells the action resolves.
ChunksCompleted(cells) ==
    {ch \in {ChunkOf[c] : c \in cells} : CellsOf(ch) \subseteq Resolved \cup cells}

\* setCellRevealed creates the bit set of a chunk with its first reveal.
ChunksOpened(cells) ==
    {ch \in {ChunkOf[c] : c \in cells} : CellsOf(ch) \cap revealed = {}}

FurthestOf(start, cells) ==
    CHOOSE d \in {start} \cup {Distance[ChunkOf[c]] : c \in cells} :
        \A c \in cells : d >= start /\ d >= Distance[ChunkOf[c]]

\* Variant: the longest streak follows the current one down.
VariantNextStats(st, R, F, outcome) ==
    [cellsRevealed         |-> st.cellsRevealed + Cardinality(R),
     correctFlags          |-> st.correctFlags + Cardinality(F),
     chunksFounded         |-> st.chunksFounded + Cardinality(ChunksOpened(R)),
     chunksCleared         |-> st.chunksCleared + Cardinality(ChunksCompleted(R \cup F)),
     currentSafeStreak     |-> ApplyStreak(st.currentSafeStreak, outcome),
     maxSafeStreak         |-> ApplyStreak(st.currentSafeStreak, outcome),
     furthestChunkDistance |-> st.furthestChunkDistance,
     highDensityReveals    |-> st.highDensityReveals]

\* The statistics after an action that reveals R, flags F and ends with the
\* given outcome for the streak.
NextStats(st, R, F, outcome) ==
    [cellsRevealed         |-> st.cellsRevealed + Cardinality(R),
     correctFlags          |-> st.correctFlags + Cardinality(F),
     chunksFounded         |-> st.chunksFounded + Cardinality(ChunksOpened(R)),
     chunksCleared         |-> st.chunksCleared + Cardinality(ChunksCompleted(R \cup F)),
     currentSafeStreak     |-> ApplyStreak(st.currentSafeStreak, outcome),
     maxSafeStreak         |-> Higher(st.maxSafeStreak, ApplyStreak(st.currentSafeStreak, outcome)),
     furthestChunkDistance |-> FurthestOf(st.furthestChunkDistance, R),
     highDensityReveals    |-> st.highDensityReveals
                                 + Cardinality({c \in R : ChunkOf[c] \in DenseChunks})]

\* evaluateAdvancementsLocked: what the statistics have earned, and the
\* collector once enough of the others are unlocked.
Earned(st) == {a \in Advancement : st[Criterion[a].stat] >= Criterion[a].atLeast}
Evaluate(st, had) ==
    LET own == had \cup Earned(st)
    IN  own \cup (IF Cardinality(own \cap Rewarded) >= CollectorNeed
                    THEN {Collector} ELSE {})

-----------------------------------------------------------------------------
(* Replaying the log.  A replica is the state a restart rebuilds from the  *)
(* entries; each operator below is one case of applyWALEntry.              *)

ReplayReveal(r, cells, owner) ==
    [r EXCEPT
        !.revealed = @ \cup cells,
        !.explosions = [c \in Cell |->
            IF c \in (cells \ r.revealed) \cap mines THEN owner ELSE r.explosions[c]]]

ReplayFlag(r, cells, owner) ==
    [r EXCEPT !.flags = [c \in Cell |-> IF c \in cells THEN owner ELSE r.flags[c]]]

ReplayScoreUpdate(r, p, score, streak) ==
    [r EXCEPT !.scores[p] = score, !.streaks[p] = streak]

ReplayStatsUpdate(r, p, st, newUnlocks) ==
    [r EXCEPT !.playerStats[p] = st, !.unlocked[p] = @ \cup newUnlocks]

\* Variant: penalties are not logged.
VariantWriteWAL(p, R, F, delta) ==
    LET r1 == ReplayReveal(replica, R, p)
        r2 == ReplayFlag(r1, F, p)
        r3 == IF delta <= 0 THEN r2 ELSE ReplayScoreUpdate(r2, p, scores'[p], streaks'[p])
    IN  replica' = ReplayStatsUpdate(r3, p, playerStats'[p], unlocked'[p] \ unlocked[p])

\* The entries one command appends, in the order handleReveal writes them:
\* reveals (one per chunk; they commute), flags, the score unless the points
\* of the action are zero, and the statistics.
WriteWAL(p, R, F, delta) ==
    LET r1 == ReplayReveal(replica, R, p)
        r2 == ReplayFlag(r1, F, p)
        r3 == IF delta = 0 THEN r2 ELSE ReplayScoreUpdate(r2, p, scores'[p], streaks'[p])
    IN  replica' = ReplayStatsUpdate(r3, p, playerStats'[p], unlocked'[p] \ unlocked[p])

-----------------------------------------------------------------------------
Blank(value) == [p \in Player |-> value]
NoOwner == [c \in Cell |-> NoOne]

Init ==
    /\ mines \in Boards
    /\ revealed = {}
    /\ flags = NoOwner
    /\ explosions = NoOwner
    /\ totalRevealed = 0
    /\ scores = Blank(0)
    /\ streaks = Blank(0)
    /\ playerStats = Blank(NoStats)
    /\ unlocked = Blank({})
    /\ replica = [revealed |-> {}, flags |-> NoOwner, explosions |-> NoOwner,
                  scores |-> Blank(0), streaks |-> Blank(0),
                  playerStats |-> Blank(NoStats), unlocked |-> Blank({})]

VariantHasRevealedWithinTwo(c) == TRUE

\* hasRevealedWithinTwo: the first cell is free, later ones must touch the
\* explored region.
HasRevealedWithinTwo(c) == totalRevealed = 0 \/ Near[c] \cap revealed # {}

\* Player p resolves the cells R (revealing them, those in X as explosions)
\* and F (flagging them) for delta points.
Resolve(p, R, X, F, delta, outcome) ==
    /\ revealed' = revealed \cup R
    /\ totalRevealed' = totalRevealed + Cardinality(R \ revealed)
    /\ explosions' = [c \in Cell |-> IF c \in X THEN p ELSE explosions[c]]
    /\ flags' = [c \in Cell |-> IF c \in F THEN p ELSE flags[c]]
    /\ scores' = ApplyScore(p, delta)
    /\ streaks' = [streaks EXCEPT ![p] = ApplyStreak(@, outcome)]
    /\ playerStats' = [playerStats EXCEPT ![p] = NextStats(@, R, F, outcome)]
    /\ unlocked' = [unlocked EXCEPT ![p] = Evaluate(playerStats'[p], @)]
    /\ WriteWAL(p, R, F, delta)
    /\ UNCHANGED mines

\* Flagging a mine.
CorrectFlag(p, c) ==
    /\ c \in Hidden /\ HasRevealedWithinTwo(c)
    /\ c \in mines
    /\ \E m \in Multiplier[ChunkOf[c]] : Resolve(p, {}, {}, {c}, Reward(p, 10, m), "bump")

\* Flagging a safe cell costs points and opens the cell like a reveal.
WrongFlag(p, c) ==
    /\ c \in Hidden /\ HasRevealedWithinTwo(c)
    /\ c \notin mines
    /\ \E m \in Multiplier[ChunkOf[c]], R \in {Opened({c}, Zeros, Hidden)} :
          Resolve(p, R, {}, {}, Penalty(20, m), "reset")

\* Variant: a chord opens the neighbours and stops there.
VariantChordCells(c) == Nbr[c] \cap Hidden

\* The cells a chord on c opens: mines are revealed where they stand, safe
\* zeros keep the search going.
ChordCells(c) == Opened(Nbr[c], Zeros \ mines, Hidden)

Chord(p, c) ==
    /\ c \in revealed
    /\ ChordNeed(c, mines) = ChordHave(c, mines, revealed, Flagged)
    /\ \E m \in Multiplier[ChunkOf[c]], R \in {ChordCells(c)} :
          LET hit == R \cap mines
              raw == Cardinality(R \ mines) - 100 * Cardinality(hit)
          IN  IF hit = {} /\ raw > 0
              THEN Resolve(p, R, hit, {}, Reward(p, raw, m), "bump")
              ELSE Resolve(p, R, hit, {}, RoundDiv(raw * m, 100),
                           IF hit = {} THEN "keep" ELSE "reset")

RevealMine(p, c) ==
    /\ c \in Hidden /\ HasRevealedWithinTwo(c)
    /\ c \in mines
    /\ \E m \in Multiplier[ChunkOf[c]] : Resolve(p, {c}, {c}, {}, Penalty(100, m), "reset")

RevealNumber(p, c) ==
    /\ c \in Hidden /\ HasRevealedWithinTwo(c)
    /\ c \notin mines /\ c \notin Zeros
    /\ \E m \in Multiplier[ChunkOf[c]] : Resolve(p, {c}, {}, {}, Reward(p, 1, m), "bump")

RevealZero(p, c) ==
    /\ c \in Hidden /\ HasRevealedWithinTwo(c)
    /\ c \notin mines /\ c \in Zeros
    /\ \E m \in Multiplier[ChunkOf[c]], R \in {Opened({c}, Zeros, Hidden)} :
          Resolve(p, R, {}, {}, Reward(p, Cardinality(R), m), "bump")

\* A restart that replays the whole log: every map is what the entries say,
\* the running count is taken again from the cells.
Restart ==
    /\ revealed' = replica.revealed
    /\ totalRevealed' = Cardinality(replica.revealed)
    /\ flags' = replica.flags
    /\ explosions' = replica.explosions
    /\ scores' = replica.scores
    /\ streaks' = replica.streaks
    /\ playerStats' = replica.playerStats
    /\ unlocked' = replica.unlocked
    /\ UNCHANGED <<mines, replica>>

Command(p, c) ==
    \/ CorrectFlag(p, c)
    \/ WrongFlag(p, c)
    \/ Chord(p, c)
    \/ RevealMine(p, c)
    \/ RevealNumber(p, c)
    \/ RevealZero(p, c)

Next == Restart \/ \E p \in Player, c \in Cell : Command(p, c)

Spec == Init /\ [][Next]_vars

-----------------------------------------------------------------------------
(* Properties. *)

Owner == Player \cup {NoOne}

Replica == [revealed : SUBSET Cell, flags : [Cell -> Owner], explosions : [Cell -> Owner],
            scores : [Player -> 0 .. MaxScore], streaks : [Player -> Nat],
            playerStats : [Player -> Stats],
            unlocked : [Player -> SUBSET (Advancement \cup {Collector})]]

\* Every variable has the shape the handler keeps.
TypeOK ==
    /\ mines \in SUBSET Cell
    /\ revealed \in SUBSET Cell
    /\ flags \in [Cell -> Owner]
    /\ explosions \in [Cell -> Owner]
    /\ totalRevealed \in Nat
    /\ scores \in [Player -> 0 .. MaxScore]
    /\ streaks \in [Player -> Nat]
    /\ playerStats \in [Player -> Stats]
    /\ unlocked \in [Player -> SUBSET (Advancement \cup {Collector})]
    /\ replica \in Replica

\* A cell is resolved in one way only: flags and reveals never overlap
\* (creditChunkClearLocked counts on it), every flag stands on a mine and the
\* explosions are exactly the revealed mines, whichever of the six branches
\* resolved the cell and whatever restarts came between.
ResolvedOnce ==
    /\ revealed \cap Flagged = {}
    /\ Flagged \subseteq mines
    /\ {c \in Cell : explosions[c] # NoOne} = revealed \cap mines

\* No revealed zero has a hidden neighbour: reveals, wrong flags and chords
\* all carry on where an earlier search of another player stopped, so the
\* explored region never keeps a zero that no command can open any more.
ZerosOpen ==
    \A c \in (revealed \cap Zeros) \ mines : Nbr[c] \subseteq revealed

\* The explored region stays in one piece: any two revealed cells are joined
\* by revealed cells at most the proximity radius apart.
RegionConnected ==
    \A part \in SUBSET revealed :
        part # {} /\ (\A c \in part : Near[c] \cap revealed \subseteq part) => part = revealed

Total(field) == SumFunction([p \in Player |-> playerStats[p][field]])

\* The per-player statistics add up to the board: every revealed cell, flag,
\* opened chunk and completed chunk is credited to exactly one player, once,
\* and the running count matches the cells, also across restarts.
CreditsAddUp ==
    /\ totalRevealed = Cardinality(revealed)
    /\ Total("cellsRevealed") = totalRevealed
    /\ Total("correctFlags") = Cardinality(Flagged)
    /\ Total("chunksFounded") = Cardinality({ChunkOf[c] : c \in revealed})
    /\ Total("chunksCleared") = Cardinality(
            {ch \in {ChunkOf[c] : c \in Cell} : CellsOf(ch) \subseteq Resolved})

\* What replaying the log rebuilds is what the server holds: the board, the
\* scores, the statistics and the unlocks.  The streak is not: only
\* the entry of the score carries it, and an action worth zero points raises
\* the streak and writes none.
ReplayExact ==
    /\ replica.revealed = revealed
    /\ replica.flags = flags
    /\ replica.explosions = explosions
    /\ replica.scores = scores
    /\ replica.playerStats = playerStats
    /\ replica.unlocked = unlocked

\* The unlocks are always exactly what the statistics have earned: nothing is
\* missed, and nothing outlives the statistics that earned it.
UnlocksEarned ==
    \A p \in Player : unlocked[p] = Evaluate(playerStats[p], {})

\* A chord never explodes: with the flags confined to mines, equal counts
\* mean that every mine around the cell is already accounted for.
ChordNeverExplodes ==
    [][explosions' # explosions => ~ \E p \in Player, c \in Cell : Chord(p, c)]_vars

\* A resolved cell stays as it was resolved, through every later command of
\* any player and through restarts.
ResolutionFinal ==
    [][ /\ revealed \subseteq revealed'
        /\ \A c \in Cell : flags[c] # NoOne => flags'[c] = flags[c]
        /\ \A c \in Cell : explosions[c] # NoOne => explosions'[c] = explosions[c] ]_vars
=============================================================================

---------------------------- MODULE WorldProofs -----------------------------
(***************************************************************************)
(* Proofs about World for every board, every set of players, every mine    *)
(* layout and every multiplier; about Geometry, for every size of chunk    *)
(* and every coordinate: the plane is a board as World assumes one; and    *)
(* about ClientBoard, for every board, every queue and any number of       *)
(* clicks, views and connections.                                          *)
(***************************************************************************)
EXTENDS World, Geometry, ClientBoard, Induction

-----------------------------------------------------------------------------
(* The board. *)

\* A cell whose number is zero has no mine around it.
LEMMA ZeroHasNoMine ==
    ASSUME NEW M \in SUBSET Cell, NEW c \in ZeroCells(M)
    PROVE  Nbr[c] \cap M = {}
<1>1. c \in Cell /\ IsFiniteSet(Nbr[c])
  BY BoardAssumption DEF ZeroCells
<1>2. IsFiniteSet(Nbr[c] \cap M)
  BY <1>1, FS_Intersection
<1>3. Cardinality(Nbr[c] \cap M) = 0
  BY DEF ZeroCells, CountAdjacent
<1>4. QED
  BY <1>2, <1>3, FS_EmptySet

\* What the search opens: hidden cells only, all hidden starts, every hidden
\* neighbour of an opened zero, and nothing but starts and neighbours of zeros.
LEMMA OpenedFacts ==
    ASSUME NEW starts \in SUBSET Cell, NEW zeros \in SUBSET Cell,
           NEW hidden \in SUBSET Cell
    PROVE  LET open == Opened(starts, zeros, hidden)
           IN  /\ open \subseteq hidden
               /\ starts \cap hidden \subseteq open
               /\ \A z \in open \cap zeros : Nbr[z] \cap hidden \subseteq open
               /\ \A c \in open : c \in starts \/ \E z \in zeros : c \in Nbr[z]
<1> DEFINE open == Opened(starts, zeros, hidden)
           first == OpenedZeros(starts, zeros, hidden)
<1>1. open \subseteq hidden /\ starts \cap hidden \subseteq open
  BY DEF Opened, Spread
<1>2. first \subseteq zeros
  BY DEF OpenedZeros
<1>3. \A c \in open : c \in starts \/ \E z \in zeros : c \in Nbr[z]
  BY <1>2 DEF Opened, Spread
<1>4. ASSUME NEW Z \in ClosedZeros(starts, zeros, hidden)
      PROVE  open \cap zeros \subseteq Z
  <2>1. first \subseteq Z
    BY DEF OpenedZeros
  <2>2. open \subseteq Spread(starts, Z, hidden)
    BY <2>1 DEF Opened, Spread
  <2>3. Spread(starts, Z, hidden) \cap zeros \subseteq Z
    BY DEF ClosedZeros
  <2>4. QED
    BY <2>2, <2>3
<1>5. open \cap zeros \subseteq first
  BY <1>1, <1>4 DEF OpenedZeros
<1>6. \A z \in open \cap zeros : Nbr[z] \cap hidden \subseteq open
  BY <1>5 DEF Opened, Spread
<1>7. QED
  BY <1>1, <1>3, <1>6

\* When a chord is allowed, every mine around the cell is flagged or exploded:
\* flags stand on mines only, so equal counts leave no mine over.
LEMMA ChordCoversMines ==
    ASSUME NEW M \in SUBSET Cell, NEW visible \in SUBSET Cell, NEW marked \in SUBSET M,
           NEW c \in Cell, visible \cap marked = {},
           ChordNeed(c, M) = ChordHave(c, M, visible, marked)
    PROVE  Nbr[c] \cap M \subseteq visible \cup marked
<1> DEFINE all == Nbr[c] \cap M
           A == Nbr[c] \cap marked
           B == Nbr[c] \cap (visible \cap M)
<1>1. IsFiniteSet(Nbr[c])
  BY BoardAssumption
<1>2. IsFiniteSet(all) /\ IsFiniteSet(A) /\ IsFiniteSet(B)
  BY <1>1, FS_Intersection
<1>3. A \cap B = {}
  OBVIOUS
<1>4. Cardinality(A \cap B) = 0
  BY <1>3, FS_EmptySet
<1>5. Cardinality(A \cup B) = Cardinality(A) + Cardinality(B) - Cardinality(A \cap B)
  BY <1>2, FS_Union
<1>6. Cardinality(A) \in Nat /\ Cardinality(B) \in Nat
  BY <1>2, FS_CardinalityType
<1>7. Cardinality(A \cup B) = Cardinality(A) + Cardinality(B)
  BY <1>4, <1>5, <1>6
<1>8. Cardinality(all) = Cardinality(A \cup B)
  BY <1>7 DEF ChordNeed, ChordHave, CountAdjacent
<1>9. A \cup B \in SUBSET all
  OBVIOUS
<1>10. all = A \cup B
  BY <1>2, <1>8, <1>9, FS_Subset
<1>11. QED
  BY <1>10

-----------------------------------------------------------------------------
(* Scores, streaks and statistics are numbers of the right kind. *)

LEMMA RoundDivInt ==
    ASSUME NEW n \in Int, NEW d \in {100, 10000}
    PROVE  RoundDiv(n, d) \in Int
BY DEF RoundDiv

LEMMA StreakBonusNat ==
    ASSUME TypeOK, NEW p \in Player
    PROVE  StreakBonus(p) \in Nat
BY DEF TypeOK, StreakBonus, Lower

LEMMA ProductNat ==
    ASSUME NEW a \in Nat, NEW b \in Nat
    PROVE  a * b \in Nat
OBVIOUS

LEMMA ProductInt ==
    ASSUME NEW a \in Int, NEW b \in Int
    PROVE  a * b \in Int
OBVIOUS

LEMMA MultiplierNat ==
    ASSUME NEW c \in Cell
    PROVE  Multiplier[ChunkOf[c]] \subseteq Nat
<1>1. ChunkOf[c] \in {ChunkOf[d] : d \in Cell}
  OBVIOUS
<1>2. QED
  BY <1>1, WorldAssumption

LEMMA RewardInt ==
    ASSUME TypeOK, NEW p \in Player, NEW points \in Nat, NEW m \in Nat
    PROVE  Reward(p, points, m) \in Int
<1>1. points * m \in Nat
  BY ProductNat
<1>2. points * m * StreakBonus(p) \in Nat
  BY <1>1, StreakBonusNat, ProductNat
<1>3. QED
  BY <1>2, RoundDivInt DEF Reward

LEMMA PenaltyInt ==
    ASSUME NEW points \in Nat, NEW m \in Nat
    PROVE  Penalty(points, m) \in Int
<1>1. points * m \in Int
  BY ProductNat
<1>2. RoundDiv(points * m, 100) \in Int
  BY <1>1, RoundDivInt
<1>3. QED
  BY <1>2 DEF Penalty

LEMMA Int32Range ==
    ASSUME NEW n \in Int
    PROVE  Int32(n) \in Int /\ Int32(n) <= MaxScore
<1> DEFINE k == 2 * (MaxScore + 1)
<1>1. MaxScore \in Nat /\ k \in Nat /\ k > 0
  BY WorldAssumption
<1>2. \A i \in Int : i % k \in 0 .. k - 1
  BY <1>1
<1>3. (n + MaxScore + 1) % k \in 0 .. k - 1
  BY <1>1, <1>2
<1>4. QED
  BY <1>1, <1>3 DEF Int32

LEMMA ApplyScoreType ==
    ASSUME TypeOK, NEW p \in Player, NEW delta \in Int
    PROVE  ApplyScore(p, delta) \in [Player -> 0 .. MaxScore]
<1>1. \A n \in 0 .. MaxScore : Int32(n + delta) \in Int /\ Int32(n + delta) <= MaxScore
  BY Int32Range
<1>2. \A n \in Int : n <= MaxScore => Higher(0, n) \in 0 .. MaxScore
  BY WorldAssumption DEF Higher
<1>3. \A n \in 0 .. MaxScore : Higher(0, Int32(n + delta)) \in 0 .. MaxScore
  BY <1>1, <1>2
<1>4. QED
  BY <1>3 DEF ApplyScore, TypeOK

\* An action worth no points leaves the score alone, so the log may skip it.
LEMMA NoPointsNoChange ==
    ASSUME TypeOK, NEW p \in Player
    PROVE  ApplyScore(p, 0) = scores
<1>1. \A n \in 0 .. MaxScore : Higher(0, Int32(n + 0)) = n
  BY WorldAssumption DEF Higher, Int32
<1>2. QED
  BY <1>1 DEF ApplyScore, TypeOK

Outcome == {"bump", "reset", "keep"}

LEMMA ApplyStreakNat ==
    ASSUME NEW n \in Nat, NEW outcome \in Outcome
    PROVE  ApplyStreak(n, outcome) \in Nat
BY DEF ApplyStreak, Outcome

\* A finite set of cells lies in finitely many chunks.
LEMMA FiniteChunks ==
    ASSUME NEW S \in SUBSET Cell
    PROVE  IsFiniteSet({ChunkOf[c] : c \in S})
<1> DEFINE T == {ChunkOf[c] : c \in S}
           f == [c \in S |-> ChunkOf[c]]
<1>1. IsFiniteSet(S)
  BY FiniteBoardAssumption, FS_Subset
<1>2. f \in Surjection(S, T)
  BY DEF Surjection
<1>3. QED
  BY <1>1, <1>2, FS_Surjection

LEMMA FurthestNat ==
    ASSUME NEW start \in Nat, NEW S \in SUBSET Cell
    PROVE  FurthestOf(start, S) \in Nat /\ FurthestOf(start, S) >= start
<1> DEFINE D == {Distance[ChunkOf[c]] : c \in S}
           C == {ChunkOf[c] : c \in S}
           f == [ch \in C |-> Distance[ch]]
           T == {start} \cup D
<1>1. IsFiniteSet(D)
  <2>1. f \in Surjection(C, D)
    BY DEF Surjection
  <2>2. QED
    BY <2>1, FiniteChunks, FS_Surjection
<1>2. IsFiniteSet(T)
  BY <1>1, FS_Singleton, FS_Union
<1>3. T \in SUBSET Nat
  BY WorldAssumption
<1>4. PICK m \in T : \A n \in T : n <= m
  BY <1>2, <1>3, FiniteSetHasMaximum
<1>5. \A c \in S : m >= start /\ m >= Distance[ChunkOf[c]]
  BY <1>3, <1>4
<1>6. FurthestOf(start, S) \in T /\ \A c \in S : FurthestOf(start, S) >= start
  BY <1>5 DEF FurthestOf
<1>7. S = {} => FurthestOf(start, S) = start
  BY <1>6
<1>8. QED
  BY <1>3, <1>6, <1>7

LEMMA FiniteCells ==
    ASSUME NEW S \in SUBSET Cell
    PROVE  IsFiniteSet(S) /\ Cardinality(S) \in Nat
BY FiniteBoardAssumption, FS_Subset, FS_CardinalityType

LEMMA FiniteChunkCounts ==
    ASSUME NEW S \in SUBSET Cell
    PROVE  Cardinality(ChunksOpened(S)) \in Nat /\ Cardinality(ChunksCompleted(S)) \in Nat
<1>1. ChunksOpened(S) \in SUBSET {ChunkOf[c] : c \in S}
  BY DEF ChunksOpened
<1>2. ChunksCompleted(S) \in SUBSET {ChunkOf[c] : c \in S}
  BY DEF ChunksCompleted
<1>3. QED
  BY <1>1, <1>2, FiniteChunks, FS_Subset, FS_CardinalityType

LEMMA NextStatsType ==
    ASSUME NEW st \in Stats, NEW R \in SUBSET Cell, NEW F \in SUBSET Cell,
           NEW outcome \in Outcome
    PROVE  NextStats(st, R, F, outcome) \in Stats
<1>1. Cardinality(R) \in Nat /\ Cardinality(F) \in Nat
  BY FiniteCells
<1>2. Cardinality(ChunksOpened(R)) \in Nat /\ Cardinality(ChunksCompleted(R \cup F)) \in Nat
  BY FiniteChunkCounts
<1>3. Cardinality({c \in R : ChunkOf[c] \in DenseChunks}) \in Nat
  BY FiniteCells
<1>4. ApplyStreak(st.currentSafeStreak, outcome) \in Nat
  BY ApplyStreakNat DEF Stats
<1>5. Higher(st.maxSafeStreak, ApplyStreak(st.currentSafeStreak, outcome)) \in Nat
  BY <1>4 DEF Higher, Stats
<1>6. FurthestOf(st.furthestChunkDistance, R) \in Nat
  BY FurthestNat DEF Stats
<1>7. QED
  BY <1>1, <1>2, <1>3, <1>4, <1>5, <1>6 DEF NextStats, Stats

LEMMA EvaluateType ==
    ASSUME NEW st, NEW had \in SUBSET (Advancement \cup {Collector})
    PROVE  /\ Evaluate(st, had) \in SUBSET (Advancement \cup {Collector})
           /\ had \subseteq Evaluate(st, had)
BY DEF Evaluate, Earned
-----------------------------------------------------------------------------
(***************************************************************************)
(* The inductive invariant.  ResolvedOnce alone is not inductive: a chord  *)
(* is harmless because flags stand on mines, a restart because the log     *)
(* rebuilds the board, and the search of a later command closes a zero     *)
(* only because no flag can stand next to it.                              *)
(***************************************************************************)
IInv == TypeOK /\ ResolvedOnce /\ ZerosOpen /\ ReplayExact

\* What every command promises about the cells it resolves.
Sound(R, X, F) ==
    /\ R \in SUBSET Hidden
    /\ F \in SUBSET (Hidden \cap mines)
    /\ R \cap F = {}
    /\ X = R \cap mines
    /\ \A z \in (R \cap Zeros) \ mines : Nbr[z] \cap Hidden \subseteq R

\* Resolved cells stay as they were resolved.
Final ==
    /\ revealed \subseteq revealed'
    /\ \A c \in Cell : flags[c] # NoOne => flags'[c] = flags[c]
    /\ \A c \in Cell : explosions[c] # NoOne => explosions'[c] = explosions[c]

LEMMA ResolveFlagged ==
    ASSUME TypeOK, NEW p \in Player, NEW R, NEW X, NEW F \in SUBSET Cell, NEW delta, NEW outcome,
           Resolve(p, R, X, F, delta, outcome)
    PROVE  Flagged' = Flagged \cup F
BY WorldAssumption DEF Resolve, Flagged, TypeOK

LEMMA ResolveType ==
    ASSUME IInv, NEW p \in Player, NEW R, NEW X, NEW F, Sound(R, X, F),
           NEW delta \in Int, NEW outcome \in Outcome,
           Resolve(p, R, X, F, delta, outcome)
    PROVE  TypeOK' /\ ReplayExact'
<1> USE DEF IInv
<1>1. R \in SUBSET Cell /\ F \in SUBSET Cell /\ X \in SUBSET Cell
  BY DEF Sound, Hidden
<1>2. mines' \in SUBSET Cell /\ revealed' \in SUBSET Cell
  BY <1>1 DEF Resolve, TypeOK
<1>3. flags' \in [Cell -> Owner] /\ explosions' \in [Cell -> Owner]
  BY DEF Resolve, TypeOK, Owner
<1>4. totalRevealed' \in Nat
  BY <1>1, FiniteCells DEF Resolve, TypeOK
<1>5. scores' \in [Player -> 0 .. MaxScore]
  BY ApplyScoreType DEF Resolve
<1>6. streaks' \in [Player -> Nat]
  BY ApplyStreakNat DEF Resolve, TypeOK
<1>7. playerStats' \in [Player -> Stats]
  BY <1>1, NextStatsType DEF Resolve, TypeOK
<1>8. unlocked' \in [Player -> SUBSET (Advancement \cup {Collector})]
  BY EvaluateType DEF Resolve, TypeOK
<1>9. unlocked[p] \subseteq unlocked'[p]
  BY EvaluateType DEF Resolve, TypeOK
<1>10. replica.explosions = explosions /\ replica.revealed = revealed /\ replica.flags = flags
       /\ replica.scores = scores /\ replica.playerStats = playerStats
       /\ replica.unlocked = unlocked
  BY DEF ReplayExact
<1> DEFINE r1 == ReplayReveal(replica, R, p)
           r2 == ReplayFlag(r1, F, p)
           r3 == IF delta = 0 THEN r2 ELSE ReplayScoreUpdate(r2, p, scores'[p], streaks'[p])
           r4 == ReplayStatsUpdate(r3, p, playerStats'[p], unlocked'[p] \ unlocked[p])
<1>11. replica' = r4
  BY DEF Resolve, WriteWAL
<1>12. /\ r1 \in Replica
       /\ r1.revealed = revealed' /\ r1.explosions = explosions' /\ r1.flags = flags
       /\ r1.scores = scores /\ r1.playerStats = playerStats /\ r1.unlocked = unlocked
  BY <1>1, <1>2, <1>3, <1>10 DEF Resolve, Sound, Hidden, ReplayReveal, Replica, TypeOK
<1> HIDE DEF r1
<1>13. /\ r2 \in Replica
       /\ r2.revealed = revealed' /\ r2.explosions = explosions' /\ r2.flags = flags'
       /\ r2.scores = scores /\ r2.playerStats = playerStats /\ r2.unlocked = unlocked
  BY <1>3, <1>12 DEF Resolve, ReplayFlag, Replica
<1> HIDE DEF r2
<1>14. /\ r3 \in Replica
       /\ r3.revealed = revealed' /\ r3.explosions = explosions' /\ r3.flags = flags'
       /\ r3.scores = scores' /\ r3.playerStats = playerStats /\ r3.unlocked = unlocked
  <2>1. CASE delta = 0
    BY <1>13, <2>1, NoPointsNoChange DEF Resolve
  <2>2. CASE delta # 0
    <3>1. scores' = [scores EXCEPT ![p] = scores'[p]]
      BY DEF Resolve, ApplyScore, TypeOK
    <3>2. scores'[p] \in 0 .. MaxScore /\ streaks'[p] \in Nat
      BY <1>5, <1>6
    <3>3. r3 = ReplayScoreUpdate(r2, p, scores'[p], streaks'[p])
      BY <2>2
    <3>4. QED
      BY <1>13, <3>1, <3>2, <3>3 DEF ReplayScoreUpdate, Replica
  <2>3. QED
    BY <2>1, <2>2
<1> HIDE DEF r3
<1>15. /\ r4 \in Replica
       /\ r4.revealed = revealed' /\ r4.explosions = explosions' /\ r4.flags = flags'
       /\ r4.scores = scores' /\ r4.playerStats = playerStats' /\ r4.unlocked = unlocked'
  <2>1. playerStats' = [playerStats EXCEPT ![p] = playerStats'[p]]
        /\ unlocked' = [unlocked EXCEPT ![p] = unlocked'[p]]
    BY DEF Resolve, TypeOK
  <2>2. unlocked[p] \cup (unlocked'[p] \ unlocked[p]) = unlocked'[p]
    BY <1>9
  <2>3. playerStats'[p] \in Stats /\ unlocked'[p] \in SUBSET (Advancement \cup {Collector})
    BY <1>7, <1>8
  <2>4. QED
    BY <1>14, <2>1, <2>2, <2>3 DEF ReplayStatsUpdate, Replica
<1>16. QED
  BY <1>2, <1>3, <1>4, <1>5, <1>6, <1>7, <1>8, <1>11, <1>15 DEF TypeOK, ReplayExact

\* A sound command keeps the inductive invariant and what was resolved before.
LEMMA ResolveStep ==
    ASSUME IInv, NEW p \in Player, NEW R, NEW X, NEW F, Sound(R, X, F),
           NEW delta \in Int, NEW outcome \in Outcome,
           Resolve(p, R, X, F, delta, outcome)
    PROVE  IInv' /\ Final
<1>1. R \in SUBSET Cell /\ F \in SUBSET Cell
  BY DEF Sound, Hidden
<1>2. Flagged' = Flagged \cup F
  BY <1>1, ResolveFlagged DEF IInv
<1>3. revealed' = revealed \cup R /\ mines' = mines
  BY DEF Resolve
<1>4. TypeOK' /\ ReplayExact'
  BY ResolveType
<1>5. ResolvedOnce'
  <2>1. (revealed \cap Flagged = {})'
    BY <1>2, <1>3 DEF IInv, ResolvedOnce, Sound, Hidden
  <2>2. (Flagged \subseteq mines)'
    BY <1>2, <1>3 DEF IInv, ResolvedOnce, Sound
  <2>3. {c \in Cell : explosions'[c] # NoOne} = {c \in Cell : explosions[c] # NoOne} \cup X
    BY <1>1, WorldAssumption DEF Resolve, Sound
  <2>4. QED
    BY <1>3, <2>1, <2>2, <2>3 DEF IInv, ResolvedOnce, Sound
<1>6. ZerosOpen'
  <2>1. SUFFICES ASSUME NEW z \in (revealed' \cap Zeros) \ mines, NEW c \in Nbr[z]
                 PROVE  c \in revealed'
    BY <1>3 DEF ZerosOpen, Zeros
  <2>2. CASE z \in revealed
    BY <1>3, <2>2 DEF IInv, ZerosOpen
  <2>3. CASE z \in R
    <3>1. Nbr[z] \cap mines = {} /\ c \in Cell
      BY ZeroHasNoMine, BoardAssumption DEF IInv, TypeOK, Zeros, ZeroCells
    <3>2. c \notin Flagged
      BY <3>1 DEF IInv, ResolvedOnce
    <3>3. c \in Hidden => c \in R
      BY <2>3 DEF Sound
    <3>4. QED
      BY <1>3, <3>1, <3>2, <3>3 DEF Hidden
  <2>4. QED
    BY <1>3, <2>2, <2>3
<1>7. Final
  BY <1>1 DEF Final, Resolve, Sound, Hidden, IInv, ResolvedOnce, TypeOK, Flagged
<1>8. QED
  BY <1>4, <1>5, <1>6, <1>7 DEF IInv
\* A flood that starts at a safe cell opens safe cells only.
LEMMA FloodSound ==
    ASSUME IInv, NEW c \in Hidden \ mines
    PROVE  Sound(Opened({c}, Zeros, Hidden), {}, {})
<1> DEFINE R == Opened({c}, Zeros, Hidden)
<1>1. {c} \in SUBSET Cell /\ Zeros \in SUBSET Cell /\ Hidden \in SUBSET Cell
  BY DEF Hidden, Zeros, ZeroCells
<1>2. /\ R \subseteq Hidden
      /\ \A z \in R \cap Zeros : Nbr[z] \cap Hidden \subseteq R
      /\ \A d \in R : d \in {c} \/ \E z \in Zeros : d \in Nbr[z]
  BY <1>1, OpenedFacts
<1>3. \A z \in Zeros : Nbr[z] \cap mines = {}
  BY ZeroHasNoMine DEF IInv, TypeOK, Zeros
<1>4. R \cap mines = {}
  BY <1>2, <1>3
<1>5. QED
  BY <1>2, <1>4 DEF Sound

\* A chord opens no mine: those around the cell are flagged or exploded, and
\* the search goes on from safe zeros only.
LEMMA ChordSound ==
    ASSUME IInv, NEW c \in Cell, c \in revealed,
           ChordNeed(c, mines) = ChordHave(c, mines, revealed, Flagged)
    PROVE  ChordCells(c) \cap mines = {} /\ Sound(ChordCells(c), {}, {})
<1> DEFINE R == ChordCells(c)
<1>1. Nbr[c] \in SUBSET Cell /\ Zeros \ mines \in SUBSET Cell /\ Hidden \in SUBSET Cell
  BY BoardAssumption DEF Hidden, Zeros, ZeroCells
<1>2. /\ R \subseteq Hidden
      /\ \A z \in R \cap (Zeros \ mines) : Nbr[z] \cap Hidden \subseteq R
      /\ \A d \in R : d \in Nbr[c] \/ \E z \in Zeros \ mines : d \in Nbr[z]
  BY <1>1, OpenedFacts DEF ChordCells
<1>3. \A z \in Zeros : Nbr[z] \cap mines = {}
  BY ZeroHasNoMine DEF IInv, TypeOK, Zeros
<1>4. Nbr[c] \cap mines \subseteq revealed \cup Flagged
  BY ChordCoversMines DEF IInv, TypeOK, ResolvedOnce
<1>5. R \cap mines = {}
  BY <1>2, <1>3, <1>4 DEF Hidden
<1>6. QED
  BY <1>2, <1>5 DEF Sound

\* What a command opens is one search, from the first cell ever or from cells
\* near one that is revealed.
Search(R) ==
    \E starts \in SUBSET Cell, zeros \in SUBSET Cell :
        /\ R = Opened(starts, zeros, Hidden)
        /\ \/ totalRevealed = 0 /\ \E c \in Cell : starts = {c}
           \/ \E a \in revealed : starts \subseteq Near[a]

\* A search from a cell that may be revealed or flagged.
LEMMA SearchFromCell ==
    ASSUME IInv, NEW c \in Hidden, HasRevealedWithinTwo(c), NEW zeros \in SUBSET Cell
    PROVE  Search(Opened({c}, zeros, Hidden))
<1>1. {c} \in SUBSET Cell /\ c \in Cell
  BY DEF Hidden
<1>2. CASE totalRevealed = 0
  BY <1>1, <1>2 DEF Search
<1>3. CASE Near[c] \cap revealed # {}
  <2>1. PICK a \in revealed : a \in Near[c]
    BY <1>3
  <2>2. {c} \subseteq Near[a]
    BY <1>1, <2>1, ProximityAssumption
  <2>3. QED
    BY <1>1, <2>1, <2>2 DEF Search
<1>4. QED
  BY <1>2, <1>3 DEF HasRevealedWithinTwo

\* The search that has no zeros to go on from ends where it starts.
LEMMA OpenedAlone ==
    ASSUME NEW c \in Hidden
    PROVE  Opened({c}, {}, Hidden) = {c}
<1>1. OpenedZeros({c}, {}, Hidden) = {}
  BY DEF OpenedZeros
<1>2. QED
  BY <1>1 DEF Opened, Spread

\* Player p resolves R and F for some points and with some outcome.
Resolves(p, R, X, F) ==
    \E delta \in Int, outcome \in Outcome : Resolve(p, R, X, F, delta, outcome)

LEMMA ChordResolves ==
    ASSUME IInv, NEW p \in Player, NEW c \in Cell, Chord(p, c)
    PROVE  \E R : Sound(R, {}, {}) /\ Search(R) /\ Resolves(p, R, {}, {})
<1> DEFINE R == ChordCells(c)
           raw == Cardinality(R \ mines) - 100 * Cardinality(R \cap mines)
<1>1. R \cap mines = {} /\ Sound(R, {}, {})
  BY ChordSound DEF Chord
<1>2. R \in SUBSET Cell
  BY <1>1 DEF Sound, Hidden
<1>3. Cardinality(R \ mines) \in Nat /\ Cardinality(R \cap mines) \in Nat
  BY <1>2, FiniteCells
<1>4. raw \in Int
  BY <1>3
<1>5. PICK m \in Multiplier[ChunkOf[c]] :
        IF R \cap mines = {} /\ raw > 0
        THEN Resolve(p, R, R \cap mines, {}, Reward(p, raw, m), "bump")
        ELSE Resolve(p, R, R \cap mines, {}, RoundDiv(raw * m, 100),
                     IF R \cap mines = {} THEN "keep" ELSE "reset")
  BY DEF Chord
<1>6. Resolves(p, R, {}, {})
  <2>1. CASE raw > 0
    <3>1. Reward(p, raw, m) \in Int
      BY <1>4, <2>1, MultiplierNat, RewardInt DEF IInv
    <3>2. QED
      BY <1>1, <1>5, <2>1, <3>1 DEF Resolves, Outcome
  <2>2. CASE ~ (raw > 0)
    <3>1. m \in Int
      BY MultiplierNat
    <3>2. raw * m \in Int
      BY <1>4, <3>1, ProductInt
    <3>3. RoundDiv(raw * m, 100) \in Int
      BY <3>2, RoundDivInt
    <3>4. QED
      BY <1>1, <1>5, <2>2, <3>3 DEF Resolves, Outcome
  <2>3. QED
    BY <2>1, <2>2
<1>7. Search(R)
  <2>1. Nbr[c] \in SUBSET Cell /\ Zeros \ mines \in SUBSET Cell
    BY BoardAssumption DEF Zeros, ZeroCells
  <2>2. c \in revealed /\ Nbr[c] \subseteq Near[c]
    BY ProximityAssumption DEF Chord
  <2>3. QED
    BY <2>1, <2>2 DEF Search, ChordCells
<1>8. QED
  BY <1>1, <1>6, <1>7

\* Every command resolves cells soundly, and opens none or those of a search.
LEMMA CommandResolves ==
    ASSUME IInv, NEW p \in Player, NEW c \in Cell, Command(p, c)
    PROVE  \E R, X, F : Sound(R, X, F) /\ (R = {} \/ Search(R)) /\ Resolves(p, R, X, F)
<1>0. Zeros \in SUBSET Cell
  BY DEF Zeros, ZeroCells
<1>1. CASE CorrectFlag(p, c)
  <2>1. PICK m \in Multiplier[ChunkOf[c]] : Resolve(p, {}, {}, {c}, Reward(p, 10, m), "bump")
    BY <1>1 DEF CorrectFlag
  <2>2. Sound({}, {}, {c})
    BY <1>1 DEF CorrectFlag, Sound
  <2>3. Reward(p, 10, m) \in Int
    BY MultiplierNat, RewardInt DEF IInv
  <2>4. QED
    BY <2>1, <2>2, <2>3 DEF Resolves, Outcome
<1>2. CASE WrongFlag(p, c)
  <2> DEFINE R == Opened({c}, Zeros, Hidden)
  <2>1. PICK m \in Multiplier[ChunkOf[c]] : Resolve(p, R, {}, {}, Penalty(20, m), "reset")
    BY <1>2 DEF WrongFlag
  <2>2. Sound(R, {}, {}) /\ Search(R)
    BY <1>0, <1>2, FloodSound, SearchFromCell DEF WrongFlag
  <2>3. Penalty(20, m) \in Int
    BY MultiplierNat, PenaltyInt
  <2>4. QED
    BY <2>1, <2>2, <2>3 DEF Resolves, Outcome
<1>3. CASE Chord(p, c)
  BY <1>3, ChordResolves
<1>4. CASE RevealMine(p, c)
  <2>1. PICK m \in Multiplier[ChunkOf[c]] : Resolve(p, {c}, {c}, {}, Penalty(100, m), "reset")
    BY <1>4 DEF RevealMine
  <2>2. Sound({c}, {c}, {})
    BY <1>4, ZeroHasNoMine DEF RevealMine, Sound, Zeros
  <2>3. Search({c})
    <3>1. {} \in SUBSET Cell
      OBVIOUS
    <3>2. QED
      BY <1>4, <3>1, OpenedAlone, SearchFromCell DEF RevealMine
  <2>4. Penalty(100, m) \in Int
    BY MultiplierNat, PenaltyInt
  <2>5. QED
    BY <2>1, <2>2, <2>3, <2>4 DEF Resolves, Outcome
<1>5. CASE RevealNumber(p, c)
  <2>1. PICK m \in Multiplier[ChunkOf[c]] : Resolve(p, {c}, {}, {}, Reward(p, 1, m), "bump")
    BY <1>5 DEF RevealNumber
  <2>2. Sound({c}, {}, {})
    BY <1>5 DEF RevealNumber, Sound
  <2>3. Search({c})
    <3>1. {} \in SUBSET Cell
      OBVIOUS
    <3>2. QED
      BY <1>5, <3>1, OpenedAlone, SearchFromCell DEF RevealNumber
  <2>4. Reward(p, 1, m) \in Int
    BY MultiplierNat, RewardInt DEF IInv
  <2>5. QED
    BY <2>1, <2>2, <2>3, <2>4 DEF Resolves, Outcome
<1>6. CASE RevealZero(p, c)
  <2> DEFINE R == Opened({c}, Zeros, Hidden)
  <2>1. PICK m \in Multiplier[ChunkOf[c]] : Resolve(p, R, {}, {}, Reward(p, Cardinality(R), m), "bump")
    BY <1>6 DEF RevealZero
  <2>2. Sound(R, {}, {}) /\ Search(R)
    BY <1>0, <1>6, FloodSound, SearchFromCell DEF RevealZero
  <2>3. Cardinality(R) \in Nat
    BY <2>2, FiniteCells DEF Sound, Hidden
  <2>4. Reward(p, Cardinality(R), m) \in Int
    BY <2>3, MultiplierNat, RewardInt DEF IInv
  <2>5. QED
    BY <2>1, <2>2, <2>4 DEF Resolves, Outcome
<1>7. QED
  BY <1>1, <1>2, <1>3, <1>4, <1>5, <1>6 DEF Command

LEMMA ChordStep ==
    ASSUME IInv, NEW p \in Player, NEW c \in Cell, Chord(p, c)
    PROVE  explosions' = explosions
<1>1. PICK R : Resolves(p, R, {}, {})
  BY ChordResolves
<1>2. explosions' = [d \in Cell |-> explosions[d]]
  BY <1>1 DEF Resolves, Resolve
<1>3. QED
  BY <1>2 DEF IInv, TypeOK

LEMMA CommandStep ==
    ASSUME IInv, NEW p \in Player, NEW c \in Cell, Command(p, c)
    PROVE  IInv' /\ Final
BY CommandResolves, ResolveStep DEF Resolves

LEMMA RestartStep ==
    ASSUME IInv, Restart
    PROVE  IInv' /\ Final
<1>1. TypeOK'
  BY FiniteCells DEF IInv, TypeOK, Replica, Restart
<1>2. revealed' = revealed /\ flags' = flags /\ explosions' = explosions /\ mines' = mines
  BY DEF IInv, ReplayExact, Restart
<1>3. ResolvedOnce' /\ ZerosOpen'
  BY <1>2 DEF IInv, ResolvedOnce, ZerosOpen, Flagged, Zeros
<1>4. ReplayExact'
  BY DEF IInv, ReplayExact, Restart
<1>5. QED
  BY <1>1, <1>2, <1>3, <1>4 DEF IInv, Final

LEMMA InitInv ==
    ASSUME Init
    PROVE  IInv
<1>1. NoStats \in Stats /\ 0 \in 0 .. MaxScore
  BY WorldAssumption DEF NoStats, Stats
<1>2. TypeOK
  BY <1>1, WorldAssumption DEF Init, TypeOK, Replica, Blank, NoOwner, Owner
<1>3. ResolvedOnce /\ ZerosOpen /\ ReplayExact
  BY DEF Init, ResolvedOnce, ZerosOpen, ReplayExact, Flagged, NoOwner
<1>4. QED
  BY <1>2, <1>3 DEF IInv

LEMMA NextInv ==
    ASSUME IInv, [Next]_vars
    PROVE  IInv' /\ Final
<1>1. CASE Restart
  BY <1>1, RestartStep
<1>2. CASE \E p \in Player, c \in Cell : Command(p, c)
  BY <1>2, CommandStep
<1>3. CASE UNCHANGED vars
  BY <1>3 DEF vars, IInv, TypeOK, ResolvedOnce, ZerosOpen, ReplayExact, Final, Flagged, Zeros
<1>4. QED
  BY <1>1, <1>2, <1>3 DEF Next

THEOREM Invariance == Spec => []IInv
<1>1. Init => IInv
  BY InitInv
<1>2. IInv /\ [Next]_vars => IInv'
  BY NextInv
<1>3. QED
  BY <1>1, <1>2, PTL DEF Spec

\* The state keeps its shape: scores stay in range whatever the multiplier
\* and the streak, statistics stay natural numbers.
THEOREM TypeCorrect == Spec => []TypeOK
<1>1. IInv => TypeOK
  BY DEF IInv
<1>2. QED
  BY <1>1, Invariance, PTL

\* On every board a cell is resolved in one way only.
THEOREM ResolvedOnceHolds == Spec => []ResolvedOnce
<1>1. IInv => ResolvedOnce
  BY DEF IInv
<1>2. QED
  BY <1>1, Invariance, PTL

\* On every board no revealed zero keeps a hidden neighbour.
THEOREM ZerosOpenHolds == Spec => []ZerosOpen
<1>1. IInv => ZerosOpen
  BY DEF IInv
<1>2. QED
  BY <1>1, Invariance, PTL

\* Replaying the entries of any sequence of commands rebuilds the state.
THEOREM ReplayExactHolds == Spec => []ReplayExact
<1>1. IInv => ReplayExact
  BY DEF IInv
<1>2. QED
  BY <1>1, Invariance, PTL

\* No chord of any player on any board explodes.
THEOREM ChordNeverExplodesHolds == Spec => ChordNeverExplodes
<1>1. IInv /\ [Next]_vars =>
        [explosions' # explosions => ~ \E p \in Player, c \in Cell : Chord(p, c)]_vars
  BY ChordStep
<1>2. QED
  BY <1>1, Invariance, PTL DEF Spec, ChordNeverExplodes

\* What is resolved stays resolved, on every board and through restarts.
THEOREM ResolutionFinalHolds == Spec => ResolutionFinal
<1>1. IInv /\ [Next]_vars => [Final]_vars
  BY NextInv
<1>2. Final => /\ revealed \subseteq revealed'
               /\ \A c \in Cell : flags[c] # NoOne => flags'[c] = flags[c]
               /\ \A c \in Cell : explosions[c] # NoOne => explosions'[c] = explosions[c]
  BY DEF Final
<1>3. QED
  BY <1>1, <1>2, Invariance, PTL DEF Spec, ResolutionFinal

-----------------------------------------------------------------------------
(***************************************************************************)
(* The explored region stays in one piece.                                 *)
(***************************************************************************)

\* A part of S that nothing in S is near to from outside.
Closed(part, S) == part \subseteq S /\ \A c \in part : Near[c] \cap S \subseteq part

Joined(S) == \A part \in SUBSET S : part # {} /\ Closed(part, S) => part = S

\* What is not in a closed part is closed as well.
LEMMA RestIsClosed ==
    ASSUME NEW S \in SUBSET Cell, NEW part, Closed(part, S)
    PROVE  Closed(S \ part, S)
BY ProximityAssumption DEF Closed

\* A search stays in the closed part that its starts are in: the zeros it goes
\* on from that are in the part are closed under the search, so they are all.
LEMMA SearchStaysInPart ==
    ASSUME NEW starts \in SUBSET Cell, NEW zeros \in SUBSET Cell, NEW hidden \in SUBSET Cell,
           NEW S \in SUBSET Cell, Opened(starts, zeros, hidden) \subseteq S,
           NEW part, Closed(part, S), starts \cap hidden \subseteq part
    PROVE  Opened(starts, zeros, hidden) \subseteq part
<1> DEFINE open == Opened(starts, zeros, hidden)
           first == OpenedZeros(starts, zeros, hidden)
           Z == first \cap part
<1>1. first \subseteq zeros \cap hidden
  BY DEF OpenedZeros
<1>2. open \cap zeros \subseteq first
  <2>1. ASSUME NEW Y \in ClosedZeros(starts, zeros, hidden)
        PROVE  open \cap zeros \subseteq Y
    <3>1. first \subseteq Y
      BY DEF OpenedZeros
    <3>2. open \subseteq Spread(starts, Y, hidden)
      BY <3>1 DEF Opened, Spread
    <3>3. QED
      BY <3>2 DEF ClosedZeros
  <2>2. open \subseteq hidden
    BY DEF Opened, Spread
  <2>3. QED
    BY <2>1, <2>2 DEF OpenedZeros
<1>3. \A z \in Z : Nbr[z] \cap open \subseteq part
  BY <1>1, ProximityAssumption DEF Closed
<1>4. Spread(starts, Z, hidden) \subseteq open
  BY DEF Opened, Spread
<1>5. Spread(starts, Z, hidden) \subseteq part
  <2>1. SUFFICES ASSUME NEW c \in Spread(starts, Z, hidden)  PROVE c \in part
    OBVIOUS
  <2>2. c \in starts \cap hidden \/ \E z \in Z : c \in Nbr[z]
    BY DEF Spread
  <2>3. QED
    BY <1>3, <1>4, <2>1, <2>2
<1>6. Z \in ClosedZeros(starts, zeros, hidden)
  BY <1>1, <1>2, <1>4, <1>5 DEF ClosedZeros
<1>7. first \subseteq Z
  BY <1>6 DEF OpenedZeros
<1>8. open = Spread(starts, Z, hidden)
  BY <1>7 DEF Opened, Spread
<1>9. QED
  BY <1>5, <1>8

\* The region with what a search opens is in one piece if the region was and
\* the search starts from one cell, or near one cell of the region.
LEMMA SearchKeepsJoined ==
    ASSUME IInv, Joined(revealed), totalRevealed = Cardinality(revealed),
           NEW R, Search(R)
    PROVE  Joined(revealed \cup R)
<1>1. PICK starts \in SUBSET Cell, zeros \in SUBSET Cell :
        /\ R = Opened(starts, zeros, Hidden)
        /\ \/ totalRevealed = 0 /\ \E c \in Cell : starts = {c}
           \/ \E a \in revealed : starts \subseteq Near[a]
  BY DEF Search
<1> DEFINE S == revealed \cup R
<1>2. Hidden \in SUBSET Cell /\ revealed \in SUBSET Cell /\ revealed \cap Hidden = {}
  BY DEF Hidden, IInv, TypeOK
<1>3. R \subseteq Hidden /\ starts \cap Hidden \subseteq R
  BY <1>1, <1>2, OpenedFacts
<1>4. S \in SUBSET Cell
  BY <1>2, <1>3
<1>5. SUFFICES ASSUME NEW part \in SUBSET S, part # {}, Closed(part, S)
               PROVE  part = S
  BY DEF Joined
<1> DEFINE rest == S \ part
<1>6. Closed(rest, S)
  BY <1>4, <1>5, RestIsClosed
<1>7. ASSUME NEW P, Closed(P, S), starts \cap Hidden \subseteq P
      PROVE  R \subseteq P
  BY <1>1, <1>2, <1>4, <1>7, SearchStaysInPart
<1>8. CASE totalRevealed = 0 /\ \E c \in Cell : starts = {c}
  <2>1. revealed = {}
    BY <1>2, <1>8, FiniteCells, FS_EmptySet
  <2>2. PICK c \in Cell : starts = {c}
    BY <1>8
  <2>3. CASE starts \cap Hidden \subseteq part
    BY <1>5, <1>7, <2>1, <2>3
  <2>4. CASE ~ (starts \cap Hidden \subseteq part)
    <3>1. starts \cap Hidden \subseteq rest
      BY <1>3, <2>2, <2>4
    <3>2. R \subseteq rest
      BY <1>6, <1>7, <3>1
    <3>3. QED
      BY <1>5, <2>1, <3>2
  <2>5. QED
    BY <2>3, <2>4
<1>9. CASE \E a \in revealed : starts \subseteq Near[a]
  <2>1. PICK a \in revealed : starts \subseteq Near[a]
    BY <1>9
  <2>2. CASE part \cap revealed # {}
    <3>1. Closed(part \cap revealed, revealed)
      BY <1>5 DEF Closed
    <3>2. revealed \subseteq part
      BY <2>2, <3>1 DEF Joined
    <3>3. starts \cap Hidden \subseteq part
      BY <1>3, <1>5, <2>1, <3>2 DEF Closed
    <3>4. QED
      BY <1>5, <1>7, <3>2, <3>3
  <2>3. CASE part \cap revealed = {}
    <3>1. revealed \subseteq rest
      BY <2>3
    <3>2. starts \cap Hidden \subseteq rest
      BY <1>3, <1>6, <2>1, <3>1 DEF Closed
    <3>3. R \subseteq rest
      BY <1>6, <1>7, <3>2
    <3>4. QED
      BY <1>5, <3>1, <3>3
  <2>4. QED
    BY <2>2, <2>3
<1>10. QED
  BY <1>1, <1>8, <1>9

-----------------------------------------------------------------------------
(***************************************************************************)
(* The statistics add up to the board.                                     *)
(***************************************************************************)

\* One player's statistic grows by k, and so does the total.
LEMMA TotalGrows ==
    ASSUME TypeOK, NEW field \in DOMAIN NoStats, NEW p \in Player, NEW k \in Nat, NEW st,
           playerStats' = [playerStats EXCEPT ![p] = st], st[field] = playerStats[p][field] + k
    PROVE  Total(field) \in Nat /\ Total(field)' = Total(field) + k
<1> DEFINE f == [q \in Player |-> playerStats[q][field]]
           h == [q \in Player |-> playerStats'[q][field]]
<1>1. \A q \in Player : playerStats[q][field] \in Nat
  BY DEF TypeOK, Stats, NoStats
<1>2. f \in [Player -> Nat]
  BY <1>1
<1>3. h = [f EXCEPT ![p] = f[p] + k]
  BY DEF TypeOK
<1>4. SumFunction(f) \in Nat /\ SumFunction(h) = SumFunction(f) + k
  <2>1. IsFiniteSet(Player)
    BY WorldAssumption
  <2> HIDE DEF f, h
  <2>2. QED
    BY <1>2, <1>3, <2>1, SumOfUpdate
<1>5. QED
  BY <1>4 DEF Total

\* The numbers of elements of disjoint finite sets add up.
LEMMA DisjointUnion ==
    ASSUME NEW A, NEW B, IsFiniteSet(A), IsFiniteSet(B), A \cap B = {}
    PROVE  Cardinality(A \cup B) = Cardinality(A) + Cardinality(B)
<1>1. Cardinality(A \cap B) = 0
  BY FS_EmptySet
<1>2. Cardinality(A) \in Nat /\ Cardinality(B) \in Nat
  BY FS_CardinalityType
<1>3. Cardinality(A \cup B) = Cardinality(A) + Cardinality(B) - Cardinality(A \cap B)
  BY FS_Union
<1>4. QED
  BY <1>1, <1>2, <1>3

ChunksOf(S) == {ChunkOf[c] : c \in S}
ChunksWithin(S) == {ch \in ChunksOf(Cell) : CellsOf(ch) \subseteq S}

\* A chunk is founded with the first of its cells.
LEMMA FoundedOnce ==
    ASSUME TypeOK, NEW R \in SUBSET Cell
    PROVE  Cardinality(ChunksOf(revealed \cup R))
              = Cardinality(ChunksOf(revealed)) + Cardinality(ChunksOpened(R))
<1>1. revealed \in SUBSET Cell
  BY DEF TypeOK
<1>2. ChunksOf(revealed) \cap ChunksOpened(R) = {}
  BY <1>1 DEF ChunksOf, ChunksOpened, CellsOf
<1>3. ChunksOf(revealed \cup R) = ChunksOf(revealed) \cup ChunksOpened(R)
  BY <1>1 DEF ChunksOf, ChunksOpened, CellsOf
<1>4. IsFiniteSet(ChunksOf(revealed)) /\ IsFiniteSet(ChunksOf(R))
  BY <1>1, FiniteChunks DEF ChunksOf
<1>5. ChunksOpened(R) \subseteq ChunksOf(R)
  BY DEF ChunksOf, ChunksOpened
<1>6. IsFiniteSet(ChunksOpened(R))
  BY <1>4, <1>5, FS_Subset
<1>7. QED
  BY <1>2, <1>3, <1>4, <1>6, DisjointUnion

\* A chunk is cleared with the last of its cells.
LEMMA ClearedOnce ==
    ASSUME TypeOK, NEW cells \in SUBSET Cell, cells \cap Resolved = {}
    PROVE  Cardinality(ChunksWithin(Resolved \cup cells))
              = Cardinality(ChunksWithin(Resolved)) + Cardinality(ChunksCompleted(cells))
<1>1. ChunksWithin(Resolved) \cap ChunksCompleted(cells) = {}
  BY DEF ChunksWithin, ChunksCompleted, CellsOf
<1>2. ChunksWithin(Resolved \cup cells) = ChunksWithin(Resolved) \cup ChunksCompleted(cells)
  <2>1. ASSUME NEW ch \in ChunksWithin(Resolved \cup cells), ch \notin ChunksWithin(Resolved)
        PROVE  ch \in ChunksCompleted(cells)
    <3>1. PICK c \in CellsOf(ch) : c \in cells
      BY <2>1 DEF ChunksWithin
    <3>2. ch = ChunkOf[c]
      BY <3>1 DEF CellsOf
    <3>3. QED
      BY <2>1, <3>1, <3>2 DEF ChunksWithin, ChunksCompleted
  <2>2. ChunksCompleted(cells) \subseteq ChunksWithin(Resolved \cup cells)
    BY DEF ChunksWithin, ChunksCompleted, ChunksOf
  <2>3. ChunksWithin(Resolved) \subseteq ChunksWithin(Resolved \cup cells)
    BY DEF ChunksWithin
  <2>4. QED
    BY <2>1, <2>2, <2>3
<1>3. IsFiniteSet(ChunksOf(Cell))
  BY FiniteChunks DEF ChunksOf
<1>4. ChunksWithin(Resolved) \subseteq ChunksOf(Cell) /\ ChunksCompleted(cells) \subseteq ChunksOf(Cell)
  BY DEF ChunksWithin, ChunksCompleted, ChunksOf
<1>5. IsFiniteSet(ChunksWithin(Resolved)) /\ IsFiniteSet(ChunksCompleted(cells))
  BY <1>3, <1>4, FS_Subset
<1>6. QED
  BY <1>1, <1>2, <1>5, DisjointUnion

LEMMA ResolveCredits ==
    ASSUME IInv, CreditsAddUp, NEW p \in Player, NEW R, NEW X, NEW F, Sound(R, X, F),
           Resolves(p, R, X, F)
    PROVE  CreditsAddUp'
<1>1. PICK delta \in Int, outcome \in Outcome : Resolve(p, R, X, F, delta, outcome)
  BY DEF Resolves
<1> DEFINE old == playerStats[p]
           st == NextStats(old, R, F, outcome)
<1>2. TypeOK /\ R \in SUBSET Cell /\ F \in SUBSET Cell /\ R \cap revealed = {}
      /\ F \cap Flagged = {} /\ (R \cup F) \cap Resolved = {}
  BY DEF IInv, Sound, Hidden, Resolved
<1>3. revealed' = revealed \cup R /\ Flagged' = Flagged \cup F
  BY <1>1, <1>2, ResolveFlagged DEF Resolve
<1>4. playerStats' = [playerStats EXCEPT ![p] = st]
  BY <1>1 DEF Resolve, IInv, TypeOK
<1>5. /\ IsFiniteSet(revealed) /\ IsFiniteSet(Flagged) /\ IsFiniteSet(R) /\ IsFiniteSet(F)
      /\ Cardinality(revealed) \in Nat /\ Cardinality(Flagged) \in Nat
      /\ Cardinality(R) \in Nat /\ Cardinality(F) \in Nat
  BY <1>2, FiniteCells DEF TypeOK, Flagged
<1>6. (totalRevealed = Cardinality(revealed))'
  <2>1. R \ revealed = R
    BY <1>2
  <2>2. totalRevealed' = totalRevealed + Cardinality(R)
    BY <1>1, <2>1 DEF Resolve
  <2>3. QED
    BY <1>2, <1>3, <1>5, <2>2, DisjointUnion DEF CreditsAddUp
<1>7. (Total("cellsRevealed") = totalRevealed)'
  <2>1. st["cellsRevealed"] = old["cellsRevealed"] + Cardinality(R)
    BY DEF NextStats
  <2>2. Total("cellsRevealed")' = Total("cellsRevealed") + Cardinality(R)
    BY <1>2, <1>4, <1>5, <2>1, TotalGrows DEF NoStats
  <2>3. QED
    BY <1>2, <1>3, <1>5, <1>6, <2>2, DisjointUnion DEF CreditsAddUp
<1>8. (Total("correctFlags") = Cardinality(Flagged))'
  <2>1. st["correctFlags"] = old["correctFlags"] + Cardinality(F)
    BY DEF NextStats
  <2>2. Total("correctFlags")' = Total("correctFlags") + Cardinality(F)
    BY <1>2, <1>4, <1>5, <2>1, TotalGrows DEF NoStats
  <2>3. QED
    BY <1>2, <1>3, <1>5, <2>2, DisjointUnion DEF CreditsAddUp
<1>9. (Total("chunksFounded") = Cardinality({ChunkOf[c] : c \in revealed}))'
  <2>1. st["chunksFounded"] = old["chunksFounded"] + Cardinality(ChunksOpened(R))
    BY DEF NextStats
  <2>2. Total("chunksFounded")' = Total("chunksFounded") + Cardinality(ChunksOpened(R))
    BY <1>2, <1>4, <2>1, FiniteChunkCounts, TotalGrows DEF NoStats
  <2>3. QED
    BY <1>2, <1>3, <2>2, FoundedOnce DEF CreditsAddUp, ChunksOf
<1>10. (Total("chunksCleared") = Cardinality(ChunksWithin(Resolved)))'
  <2>1. st["chunksCleared"] = old["chunksCleared"] + Cardinality(ChunksCompleted(R \cup F))
    BY DEF NextStats
  <2>2. Total("chunksCleared")' = Total("chunksCleared") + Cardinality(ChunksCompleted(R \cup F))
    <3>1. R \cup F \in SUBSET Cell
      BY <1>2
    <3>2. Cardinality(ChunksCompleted(R \cup F)) \in Nat
      BY <3>1, FiniteChunkCounts
    <3>3. QED
      BY <1>2, <1>4, <2>1, <3>2, TotalGrows DEF NoStats
  <2>3. Resolved' = Resolved \cup (R \cup F)
    BY <1>3 DEF Resolved
  <2>4. Cardinality(ChunksWithin(Resolved \cup (R \cup F)))
          = Cardinality(ChunksWithin(Resolved)) + Cardinality(ChunksCompleted(R \cup F))
    BY <1>2, ClearedOnce
  <2>5. QED
    BY <2>2, <2>3, <2>4 DEF CreditsAddUp, ChunksWithin, ChunksOf
<1>11. QED
  BY <1>6, <1>7, <1>8, <1>9, <1>10 DEF CreditsAddUp, ChunksWithin, ChunksOf

-----------------------------------------------------------------------------
(***************************************************************************)
(* The unlocks are what the statistics have earned.                        *)
(***************************************************************************)

\* No statistic that an advancement looks at ever falls.
LEMMA StatsGrow ==
    ASSUME NEW st \in Stats, NEW R \in SUBSET Cell, NEW F \in SUBSET Cell,
           NEW outcome \in Outcome, NEW a \in Advancement
    PROVE  LET field == Criterion[a].stat
           IN  st[field] \in Nat /\ NextStats(st, R, F, outcome)[field] >= st[field]
<1> DEFINE next == NextStats(st, R, F, outcome)
<1>1. next \in Stats
  BY NextStatsType
<1>2. Cardinality(R) \in Nat /\ Cardinality(F) \in Nat
      /\ Cardinality({c \in R : ChunkOf[c] \in DenseChunks}) \in Nat
  BY FiniteCells
<1>3. Cardinality(ChunksOpened(R)) \in Nat /\ Cardinality(ChunksCompleted(R \cup F)) \in Nat
  BY FiniteChunkCounts
<1>4. ApplyStreak(st.currentSafeStreak, outcome) \in Nat
  BY ApplyStreakNat DEF Stats
<1>5. Higher(st.maxSafeStreak, ApplyStreak(st.currentSafeStreak, outcome)) >= st.maxSafeStreak
  BY <1>4 DEF Higher, Stats
<1>6. FurthestOf(st.furthestChunkDistance, R) >= st.furthestChunkDistance
  BY FurthestNat DEF Stats
<1>7. /\ next.cellsRevealed >= st.cellsRevealed
      /\ next.correctFlags >= st.correctFlags
      /\ next.chunksFounded >= st.chunksFounded
      /\ next.chunksCleared >= st.chunksCleared
      /\ next.maxSafeStreak >= st.maxSafeStreak
      /\ next.furthestChunkDistance >= st.furthestChunkDistance
      /\ next.highDensityReveals >= st.highDensityReveals
  BY <1>2, <1>3, <1>5, <1>6 DEF NextStats, Stats
<1>8. Criterion[a].stat \in {"cellsRevealed", "correctFlags", "chunksFounded", "chunksCleared",
                             "maxSafeStreak", "furthestChunkDistance", "highDensityReveals"}
  BY WorldAssumption
<1> HIDE DEF next
<1>9. QED
  BY <1>7, <1>8 DEF next, Stats

\* Evaluating once more after the statistics have grown is evaluating them.
LEMMA EvaluateAgain ==
    ASSUME NEW old, NEW new, Earned(old) \subseteq Earned(new)
    PROVE  Evaluate(new, Evaluate(old, {})) = Evaluate(new, {})
<1> DEFINE had == Evaluate(old, {})
<1>1. Collector \notin Rewarded /\ Rewarded \subseteq Advancement
  BY WorldAssumption
<1>2. (had \cup Earned(new)) \cap Rewarded = Earned(new) \cap Rewarded
  BY <1>1 DEF Evaluate
<1>3. IsFiniteSet(Earned(new) \cap Rewarded)
  BY WorldAssumption, FS_Subset DEF Earned
<1>4. Cardinality(Earned(old) \cap Rewarded) \in Nat /\ Cardinality(Earned(new) \cap Rewarded) \in Nat
      /\ Cardinality(Earned(old) \cap Rewarded) <= Cardinality(Earned(new) \cap Rewarded)
  BY <1>3, FS_Subset, FS_CardinalityType
<1>5. CASE Cardinality(Earned(new) \cap Rewarded) >= CollectorNeed
  BY <1>2, <1>5 DEF Evaluate
<1>6. CASE ~ (Cardinality(Earned(new) \cap Rewarded) >= CollectorNeed)
  <2>1. ~ (Cardinality(Earned(old) \cap Rewarded) >= CollectorNeed)
    BY <1>4, <1>6, WorldAssumption
  <2>2. had = Earned(old)
    BY <2>1 DEF Evaluate
  <2>3. QED
    BY <1>2, <1>6, <2>2 DEF Evaluate
<1>7. QED
  BY <1>5, <1>6

LEMMA ResolveUnlocks ==
    ASSUME IInv, UnlocksEarned, NEW p \in Player, NEW R, NEW X, NEW F, Sound(R, X, F),
           Resolves(p, R, X, F)
    PROVE  UnlocksEarned'
<1>1. PICK delta \in Int, outcome \in Outcome : Resolve(p, R, X, F, delta, outcome)
  BY DEF Resolves
<1>2. R \in SUBSET Cell /\ F \in SUBSET Cell
  BY DEF Sound, Hidden
<1>3. /\ playerStats' = [playerStats EXCEPT ![p] = NextStats(playerStats[p], R, F, outcome)]
      /\ unlocked' = [unlocked EXCEPT ![p] = Evaluate(playerStats'[p], unlocked[p])]
      /\ playerStats[p] \in Stats
  BY <1>1 DEF Resolve, IInv, TypeOK
<1>4. playerStats'[p] = NextStats(playerStats[p], R, F, outcome)
  BY <1>3 DEF IInv, TypeOK
<1>5. Earned(playerStats[p]) \subseteq Earned(playerStats'[p])
  <2>1. SUFFICES ASSUME NEW a \in Earned(playerStats[p])
                 PROVE  a \in Earned(playerStats'[p])
    OBVIOUS
  <2>2. a \in Advancement /\ playerStats[p][Criterion[a].stat] >= Criterion[a].atLeast
    BY DEF Earned
  <2>3. playerStats[p][Criterion[a].stat] \in Nat
        /\ playerStats'[p][Criterion[a].stat] >= playerStats[p][Criterion[a].stat]
    BY <1>2, <1>3, <1>4, <2>2, StatsGrow
  <2>4. playerStats'[p] \in Stats
    BY <1>2, <1>3, <1>4, NextStatsType
  <2>5. playerStats'[p][Criterion[a].stat] \in Nat /\ Criterion[a].atLeast \in Nat
    BY <2>2, <2>4, WorldAssumption DEF Stats
  <2>6. QED
    BY <2>2, <2>3, <2>5 DEF Earned
<1>6. unlocked'[p] = Evaluate(playerStats'[p], {})
  BY <1>3, <1>5, EvaluateAgain DEF IInv, TypeOK, UnlocksEarned
<1>7. \A q \in Player \ {p} : unlocked'[q] = unlocked[q] /\ playerStats'[q] = playerStats[q]
  BY <1>3 DEF IInv, TypeOK
<1>8. QED
  BY <1>6, <1>7 DEF UnlocksEarned

-----------------------------------------------------------------------------
(***************************************************************************)
(* The invariant of the books.  The region needs the running count, which  *)
(* lets the first command start anywhere; the rest are inductive one by    *)
(* one on top of IInv.                                                     *)
(***************************************************************************)
Books == RegionConnected /\ CreditsAddUp /\ UnlocksEarned

FullInv == IInv /\ Books

LEMMA RegionIsJoined ==
    ASSUME TypeOK
    PROVE  RegionConnected <=> Joined(revealed)
BY DEF RegionConnected, Joined, Closed

LEMMA InitBooks ==
    ASSUME Init
    PROVE  Books
<1>1. RegionConnected
  BY DEF Init, RegionConnected
<1>2. CreditsAddUp
  <2>1. /\ revealed = {} /\ Flagged = {} /\ totalRevealed = 0
        /\ {ChunkOf[c] : c \in revealed} = {}
    BY DEF Init, Flagged, NoOwner
  <2>2. \A field \in DOMAIN NoStats : Total(field) = 0
    <3>1. SUFFICES ASSUME NEW field \in DOMAIN NoStats  PROVE Total(field) = 0
      OBVIOUS
    <3>2. [p \in Player |-> playerStats[p][field]] = [p \in Player |-> 0]
      BY DEF Init, Blank, NoStats
    <3>3. IsFiniteSet(Player)
      BY WorldAssumption
    <3>4. QED
      BY <3>2, <3>3, SumOfZeros DEF Total
  <2>3. {ch \in {ChunkOf[c] : c \in Cell} : CellsOf(ch) \subseteq Resolved} = {}
    BY <2>1 DEF Resolved, CellsOf
  <2>4. Cardinality({}) = 0
    BY FS_EmptySet
  <2>5. QED
    BY <2>1, <2>2, <2>3, <2>4 DEF CreditsAddUp, NoStats
<1>3. UnlocksEarned
  <2>1. SUFFICES ASSUME NEW p \in Player  PROVE Evaluate(NoStats, {}) = {}
    BY DEF Init, Blank, UnlocksEarned
  <2>2. Earned(NoStats) = {}
    <3>1. \A a \in Advancement : NoStats[Criterion[a].stat] = 0 /\ Criterion[a].atLeast \in Nat \ {0}
      BY WorldAssumption DEF NoStats
    <3>2. QED
      BY <3>1 DEF Earned
  <2>3. Cardinality({}) = 0
    BY FS_EmptySet
  <2>4. QED
    BY <2>2, <2>3, WorldAssumption DEF Evaluate
<1>4. QED
  BY <1>1, <1>2, <1>3 DEF Books

LEMMA ResolveBooks ==
    ASSUME FullInv, NEW p \in Player, NEW c \in Cell, Command(p, c)
    PROVE  Books'
<1>1. PICK R, X, F : Sound(R, X, F) /\ (R = {} \/ Search(R)) /\ Resolves(p, R, X, F)
  BY CommandResolves DEF FullInv
<1>2. IInv' /\ TypeOK /\ TypeOK'
  BY CommandStep DEF FullInv, IInv
<1>3. revealed' = revealed \cup R
  BY <1>1 DEF Resolves, Resolve
<1>4. RegionConnected'
  <2>1. Joined(revealed) /\ totalRevealed = Cardinality(revealed)
    BY <1>2, RegionIsJoined DEF FullInv, Books, CreditsAddUp
  <2>2. CASE R = {}
    <3>1. revealed' = revealed
      BY <1>3, <2>2
    <3>2. QED
      BY <3>1 DEF FullInv, Books, RegionConnected
  <2>3. CASE Search(R)
    <3>1. Joined(revealed')
      BY <1>3, <2>1, <2>3, SearchKeepsJoined DEF FullInv
    <3>2. QED
      BY <3>1 DEF RegionConnected, Joined, Closed
  <2>4. QED
    BY <1>1, <2>2, <2>3
<1>5. CreditsAddUp' /\ UnlocksEarned'
  BY <1>1, ResolveCredits, ResolveUnlocks DEF FullInv, Books
<1>6. QED
  BY <1>4, <1>5 DEF Books

\* A restart changes nothing that the books are about, and counts anew.
LEMMA RestartBooks ==
    ASSUME FullInv, Restart
    PROVE  Books'
<1>1. /\ revealed' = revealed /\ flags' = flags /\ playerStats' = playerStats
      /\ unlocked' = unlocked /\ totalRevealed' = totalRevealed
  BY DEF FullInv, IInv, Books, CreditsAddUp, ReplayExact, Restart
<1>2. QED
  BY <1>1 DEF FullInv, Books, RegionConnected, CreditsAddUp, Total, Resolved, Flagged,
              UnlocksEarned

THEOREM FullInvariance == Spec => []FullInv
<1>1. Init => FullInv
  BY InitInv, InitBooks DEF FullInv
<1>2. FullInv /\ [Next]_vars => FullInv'
  <2>1. SUFFICES ASSUME FullInv, [Next]_vars  PROVE FullInv'
    OBVIOUS
  <2>2. IInv'
    BY <2>1, NextInv DEF FullInv
  <2>3. CASE Restart
    BY <2>1, <2>2, <2>3, RestartBooks DEF FullInv
  <2>4. CASE \E p \in Player, c \in Cell : Command(p, c)
    BY <2>1, <2>2, <2>4, ResolveBooks DEF FullInv
  <2>5. CASE UNCHANGED vars
    BY <2>1, <2>2, <2>5 DEF vars, FullInv, Books, RegionConnected, CreditsAddUp, Total, Resolved,
                            Flagged, UnlocksEarned
  <2>6. QED
    BY <2>1, <2>3, <2>4, <2>5 DEF Next
<1>3. QED
  BY <1>1, <1>2, PTL DEF Spec

\* On every board the explored region stays in one piece: whoever reveals, a
\* wrong flag or a chord included, opens cells that hang together with it.
THEOREM RegionConnectedHolds == Spec => []RegionConnected
<1>1. FullInv => RegionConnected
  BY DEF FullInv, Books
<1>2. QED
  BY <1>1, FullInvariance, PTL

\* On every board, for any number of players, the statistics of the players
\* add up to what is revealed, flagged, founded and cleared.
THEOREM CreditsAddUpHolds == Spec => []CreditsAddUp
<1>1. FullInv => CreditsAddUp
  BY DEF FullInv, Books
<1>2. QED
  BY <1>1, FullInvariance, PTL

\* For any achievements the unlocks are exactly what the statistics earn.
THEOREM UnlocksEarnedHolds == Spec => []UnlocksEarned
<1>1. FullInv => UnlocksEarned
  BY DEF FullInv, Books
<1>2. QED
  BY <1>1, FullInvariance, PTL

-----------------------------------------------------------------------------
(* The plane: coordinates, neighbours and the fast path inside a chunk. *)

\* Division with remainder for either sign of the dividend.
LEMMA DivMod ==
    ASSUME NEW n \in Int, NEW k \in Nat \ {0}
    PROVE  /\ n \div k \in Int
           /\ n - (n \div k) * k \in 0 .. k - 1
           /\ n % k = n - (n \div k) * k
OBVIOUS

\* A quotient and a remainder are determined by the number.
LEMMA DivUnique ==
    ASSUME NEW q \in Int, NEW r \in Int, NEW k \in Nat \ {0}, r \in 0 .. k - 1
    PROVE  (q * k + r) \div k = q /\ (q * k + r) % k = r
OBVIOUS

\* Converting world coordinates to a chunk and an index and back gives the
\* same coordinates, on either side of the origin.
THEOREM RoundTrip ==
    ASSUME NEW x \in Int, NEW y \in Int
    PROVE  /\ WorldToChunk(x, y).cell \in Index
           /\ WorldX(WorldToChunk(x, y)) = x
           /\ WorldY(WorldToChunk(x, y)) = y
<1> DEFINE k == ChunkSize
           cx == x \div k
           cy == y \div k
           lx == x - cx * k
           ly == y - cy * k
<1>1. k \in Nat \ {0}
  BY ChunkSizeAssumption
<1>2. cx \in Int /\ cy \in Int /\ lx \in 0 .. k - 1 /\ ly \in 0 .. k - 1
  BY <1>1, DivMod
<1>3. (ly * k + lx) % k = lx /\ (ly * k + lx) \div k = ly
  <2> HIDE DEF lx, ly, k
  <2>1. lx \in Int /\ ly \in Int
    BY <1>1, <1>2
  <2>2. QED
    BY <1>1, <1>2, <2>1, DivUnique
<1>4. ly * k + lx \in 0 .. k * k - 1
  <2> HIDE DEF lx, ly, k
  <2>1. QED
    BY <1>1, <1>2
<1>5. cx * k + lx = x /\ cy * k + ly = y
  <2>1. cx * k \in Int /\ cy * k \in Int
    BY <1>1, <1>2
  <2>2. QED
    BY <2>1
<1>6. WorldToChunk(x, y) = [chunk |-> [X |-> cx, Y |-> cy], cell |-> ly * k + lx]
  BY DEF WorldToChunk
<1>7. QED
  <2> HIDE DEF cx, cy, lx, ly
  <2>1. WorldX(WorldToChunk(x, y)) = cx * k + lx /\ WorldY(WorldToChunk(x, y)) = cy * k + ly
    BY <1>3, <1>6 DEF WorldX, WorldY, CellX, CellY
  <2>2. QED
    BY <1>4, <1>5, <1>6, <2>1 DEF Index

\* The cells of the board: a chunk and an index inside it.
Place == [chunk : Chunk, cell : Index]

\* Index arithmetic and back: every cell of every chunk is the image of its
\* own world coordinates.
THEOREM PlaceRoundTrip ==
    ASSUME NEW at \in Place
    PROVE  /\ WorldX(at) \in Int /\ WorldY(at) \in Int
           /\ WorldToChunk(WorldX(at), WorldY(at)) = at
<1> DEFINE k == ChunkSize
           X == at.chunk.X
           Y == at.chunk.Y
           lx == at.cell % k
           ly == at.cell \div k
<1>1. k \in Nat \ {0} /\ X \in Int /\ Y \in Int /\ at.cell \in 0 .. k * k - 1
  BY ChunkSizeAssumption DEF Place, Chunk, Index
<1>2. lx \in 0 .. k - 1 /\ ly \in Int /\ at.cell = ly * k + lx
  <2>1. at.cell \in Int
    BY <1>1
  <2>2. /\ at.cell \div k \in Int
        /\ at.cell - (at.cell \div k) * k \in 0 .. k - 1
        /\ at.cell % k = at.cell - (at.cell \div k) * k
    BY <1>1, <2>1, DivMod
  <2>3. QED
    BY <1>1, <2>1, <2>2
<1>3. ly \in 0 .. k - 1
  <2> HIDE DEF lx, ly, k
  <2>1. QED
    BY <1>1, <1>2
<1>4. /\ (X * k + lx) \div k = X /\ (Y * k + ly) \div k = Y
      /\ X * k + lx \in Int /\ Y * k + ly \in Int
  <2> HIDE DEF lx, ly, k, X, Y
  <2>1. lx \in Int
    BY <1>1, <1>2
  <2>2. QED
    BY <1>1, <1>2, <1>3, <2>1, DivUnique
<1>5. (X * k + lx) - X * k = lx /\ (Y * k + ly) - Y * k = ly
  <2> HIDE DEF lx, ly, k, X, Y
  <2>1. X * k \in Int /\ Y * k \in Int /\ lx \in Int
    BY <1>1, <1>2
  <2>2. QED
    BY <1>2, <2>1
<1>6. WorldX(at) = X * k + lx /\ WorldY(at) = Y * k + ly
  BY DEF WorldX, WorldY, CellX, CellY
<1>7. WorldToChunk(X * k + lx, Y * k + ly) = [chunk |-> [X |-> X, Y |-> Y], cell |-> ly * k + lx]
  <2> HIDE DEF lx, ly, X, Y
  <2>1. QED
    BY <1>4, <1>5 DEF WorldToChunk
<1>8. at = [chunk |-> [X |-> X, Y |-> Y], cell |-> ly * k + lx]
  BY <1>2 DEF Place, Chunk
<1>9. QED
  BY <1>4, <1>6, <1>7, <1>8

\* Being at most r cells apart is symmetric on the whole plane, whatever chunks
\* the two cells lie in, and a cell is in the square around itself: what World
\* assumes of the cells within the proximity radius.
THEOREM SquareSymmetric ==
    ASSUME NEW r \in Nat, NEW at \in Place
    PROVE  at \in Square(at, r) /\ \A other \in Square(at, r) : at \in Square(other, r)
<1>1. WorldX(at) \in Int /\ WorldY(at) \in Int
      /\ WorldToChunk(WorldX(at), WorldY(at)) = at
  BY PlaceRoundTrip
<1>2. at \in Square(at, r)
  <2>1. 0 \in -r .. r /\ WorldX(at) + 0 = WorldX(at) /\ WorldY(at) + 0 = WorldY(at)
    BY <1>1
  <2>2. QED
    BY <1>1, <2>1 DEF Square
<1>3. ASSUME NEW other \in Square(at, r)  PROVE at \in Square(other, r)
  <2>1. PICK dx \in -r .. r, dy \in -r .. r :
          other = WorldToChunk(WorldX(at) + dx, WorldY(at) + dy)
    BY DEF Square
  <2>2. WorldX(other) = WorldX(at) + dx /\ WorldY(other) = WorldY(at) + dy
    BY <1>1, <2>1, RoundTrip
  <2>3. -dx \in -r .. r /\ -dy \in -r .. r
    OBVIOUS
  <2>4. WorldX(other) + (-dx) = WorldX(at) /\ WorldY(other) + (-dy) = WorldY(at)
    BY <1>1, <2>2
  <2>5. QED
    BY <1>1, <2>3, <2>4 DEF Square
<1>4. QED
  BY <1>2, <1>3

\* The neighbours of a cell are in every square around it.
LEMMA SquareHoldsNeighbours ==
    ASSUME NEW r \in Nat \ {0}, NEW at \in Place
    PROVE  Neighbours(at) \subseteq Square(at, r)
<1>1. -1 .. 1 \subseteq -r .. r
  OBVIOUS
<1>2. QED
  BY <1>1 DEF Neighbours, Square

\* Adjacency is symmetric on the whole plane: what Board assumes of its
\* neighbour relation.
THEOREM NeighboursSymmetric ==
    ASSUME NEW at \in Place, NEW other \in Neighbours(at)
    PROVE  at \in Neighbours(other)
BY SquareSymmetric DEF Neighbours

\* A step of at most one cell from a cell off the edge of its chunk stays in
\* the chunk, and is a step of the index.
LEMMA InteriorStep ==
    ASSUME NEW at \in Place, IsInterior(at.cell), NEW dx \in -1 .. 1, NEW dy \in -1 .. 1
    PROVE  WorldToChunk(WorldX(at) + dx, WorldY(at) + dy) =
               [chunk |-> at.chunk, cell |-> at.cell + (dy * ChunkSize + dx)]
<1> DEFINE k == ChunkSize
           X == at.chunk.X
           Y == at.chunk.Y
           lx == at.cell % k
           ly == at.cell \div k
<1>1. k \in Nat \ {0} /\ X \in Int /\ Y \in Int /\ at.cell \in Int
  BY ChunkSizeAssumption DEF Place, Chunk, Index
<1>2. lx \in 1 .. k - 2 /\ ly \in 1 .. k - 2
  BY DEF IsInterior, CellX, CellY
<1>3. at.cell = ly * k + lx
  <2>1. /\ at.cell \div k \in Int
        /\ at.cell % k = at.cell - (at.cell \div k) * k
    BY <1>1, DivMod
  <2>2. QED
    BY <1>1, <2>1
<1>4. lx + dx \in 0 .. k - 1 /\ ly + dy \in 0 .. k - 1 /\ lx \in Int /\ ly \in Int
  BY <1>1, <1>2
<1>5. /\ (X * k + (lx + dx)) \div k = X /\ (Y * k + (ly + dy)) \div k = Y
  <2> HIDE DEF lx, ly, k, X, Y
  <2>1. QED
    BY <1>1, <1>4, DivUnique
<1>6. WorldX(at) + dx = X * k + (lx + dx) /\ WorldY(at) + dy = Y * k + (ly + dy)
  <2>1. WorldX(at) = X * k + lx /\ WorldY(at) = Y * k + ly
    BY DEF WorldX, WorldY, CellX, CellY
  <2>2. X * k \in Int /\ Y * k \in Int
    BY <1>1
  <2>3. QED
    <3> HIDE DEF lx, ly, k, X, Y
    <3>1. QED
      BY <1>4, <2>1, <2>2
<1>7. WorldToChunk(X * k + (lx + dx), Y * k + (ly + dy)) =
        [chunk |-> [X |-> X, Y |-> Y], cell |-> (ly + dy) * k + (lx + dx)]
  <2>1. (X * k + (lx + dx)) - X * k = lx + dx /\ (Y * k + (ly + dy)) - Y * k = ly + dy
    <3> HIDE DEF lx, ly, k, X, Y
    <3>1. X * k \in Int /\ Y * k \in Int
      BY <1>1
    <3>2. QED
      BY <1>4, <3>1
  <2>2. QED
    <3> HIDE DEF lx, ly, X, Y
    <3>1. QED
      BY <1>5, <2>1 DEF WorldToChunk
<1>8. (ly + dy) * k + (lx + dx) = at.cell + (dy * k + dx)
  <2> HIDE DEF lx, ly, k
  <2>1. QED
    BY <1>1, <1>3, <1>4
<1>9. at.chunk = [X |-> X, Y |-> Y]
  BY DEF Place, Chunk
<1>10. QED
  <2> HIDE DEF lx, ly, k, X, Y
  <2>1. QED
    BY <1>6, <1>7, <1>8, <1>9 DEF k

\* Off the edge of a chunk, the fast path of countAdjacentMines reads exactly
\* the cells that the walk over world coordinates would.
THEOREM FastPath ==
    ASSUME NEW at \in Place, IsInterior(at.cell)
    PROVE  Neighbours(at) = [chunk : {at.chunk}, cell : InteriorNeighbours(at.cell)]
<1> DEFINE k == ChunkSize
           To(d) == [chunk |-> at.chunk, cell |-> at.cell + d]
<1>1. k \in Nat \ {0} /\ k >= 3 /\ at.cell \in Int
  <2>1. k \in Nat \ {0} /\ at.cell \in Int /\ CellX(at.cell) \in 1 .. k - 2
    BY ChunkSizeAssumption DEF Place, Index, IsInterior
  <2>2. QED
    BY <2>1
<1>2. at = To(0)
  BY <1>1 DEF Place
<1>3. Square(at, 1) = {To(dy * k + dx) : dx \in -1 .. 1, dy \in -1 .. 1}
  <2>1. \A dx \in -1 .. 1, dy \in -1 .. 1 :
          WorldToChunk(WorldX(at) + dx, WorldY(at) + dy) = To(dy * k + dx)
    BY InteriorStep
  <2>2. Square(at, 1) = {WorldToChunk(WorldX(at) + dx, WorldY(at) + dy) :
                           dx \in -1 .. 1, dy \in -1 .. 1}
    BY DEF Square
  <2>3. ASSUME NEW n \in Square(at, 1)
        PROVE  \E dx \in -1 .. 1, dy \in -1 .. 1 : n = To(dy * k + dx)
    BY <2>1, <2>2
  <2>4. ASSUME NEW dx \in -1 .. 1, NEW dy \in -1 .. 1
        PROVE  To(dy * k + dx) \in Square(at, 1)
    BY <2>1, <2>2
  <2>5. QED
    <3> HIDE DEF To, k
    <3>1. QED
      BY <2>3, <2>4
<1>4. {dy * k + dx : dx \in -1 .. 1, dy \in -1 .. 1} = InteriorOffsets \cup {0}
  <2> HIDE DEF k
  <2>1. ASSUME NEW dx \in -1 .. 1, NEW dy \in -1 .. 1
        PROVE  dy * k + dx \in {-k - 1, -k, -k + 1, -1, 0, 1, k - 1, k, k + 1}
    <3>1. dx \in {-1, 0, 1} /\ dy \in {-1, 0, 1}
      OBVIOUS
    <3>2. QED
      BY <1>1, <3>1
  <2>2. ASSUME NEW d \in {-k - 1, -k, -k + 1, -1, 0, 1, k - 1, k, k + 1}
        PROVE  \E dx \in -1 .. 1, dy \in -1 .. 1 : d = dy * k + dx
    <3>1. d \in {(-1) * k + (-1), (-1) * k + 0, (-1) * k + 1, 0 * k + (-1), 0 * k + 0, 0 * k + 1,
                 1 * k + (-1), 1 * k + 0, 1 * k + 1}
      BY <1>1
    <3>2. -1 \in -1 .. 1 /\ 0 \in -1 .. 1 /\ 1 \in -1 .. 1
      OBVIOUS
    <3>3. QED
      BY <3>1, <3>2
  <2>3. InteriorOffsets \cup {0} = {-k - 1, -k, -k + 1, -1, 0, 1, k - 1, k, k + 1}
    BY DEF InteriorOffsets, k
  <2>4. QED
    BY <2>1, <2>2, <2>3
<1>5. Square(at, 1) = {To(d) : d \in InteriorOffsets \cup {0}}
  BY <1>3, <1>4
<1>6. \A d \in InteriorOffsets : d \in Int /\ d # 0
  BY <1>1 DEF InteriorOffsets
<1>7. \A d \in InteriorOffsets : To(d) # at
  <2>1. \A d \in InteriorOffsets : at.cell + d # at.cell
    BY <1>1, <1>6
  <2>2. QED
    BY <2>1
<1>8. Neighbours(at) = {To(d) : d \in InteriorOffsets}
  BY <1>2, <1>5, <1>7 DEF Neighbours
<1>9. \A n : n \in [chunk : {at.chunk}, cell : InteriorNeighbours(at.cell)]
             <=> \E d \in InteriorOffsets : n = To(d)
  BY DEF InteriorNeighbours
<1>10. QED
  <2> HIDE DEF To
  <2>1. QED
    BY <1>8, <1>9

-----------------------------------------------------------------------------
(* ClientBoard: the invariant.                                               *)

\* What a click has changed.
Change == [opens : SUBSET Cell, places : SUBSET Cell]
Request == [do : Kinds, cell : Cell, request : Nat]
Upward == [do : {"view"}, rect : SUBSET Chunks] \cup Request
Downward ==
    [is : {"ack"}, request : Nat, ok : BOOLEAN, opens : SUBSET Cell, places : SUBSET Cell]
    \cup [is : {"cast"}, chunk : {ChunkOf[c] : c \in Cell},
          opens : SUBSET Cell, places : SUBSET Cell]
    \cup [is : {"sync"}, chunks : SUBSET Chunks, opens : SUBSET Cell, places : SUBSET Cell]

ClientTypes ==
    /\ given.kinds \subseteq Kinds
    /\ uncovered \subseteq Cell /\ flagged \subseteq Cell
    /\ casts \subseteq [chunk : {ChunkOf[c] : c \in Cell}, opens : SUBSET Cell,
                        places : SUBSET Cell, own : BOOLEAN]
    /\ subs \subseteq Chunks /\ syncing \subseteq Chunks
    /\ up \in Seq(Upward) /\ mailbox \in Seq(Request) /\ down \in Seq(Downward)
    /\ requests \in Nat
    /\ DOMAIN optimistic \subseteq 1 .. requests
    /\ optimistic \in [DOMAIN optimistic -> Change]
    /\ lost \in BOOLEAN /\ unhinged \in BOOLEAN

\* What is under way is so on the server, where a cell is revealed or flagged
\* and never both.  A sync reveals the flagged cells, too.
Truthful ==
    /\ uncovered \cap flagged = {}
    /\ \A m \in casts : m.opens \subseteq uncovered /\ m.places \subseteq flagged
    /\ \A m \in ToSet(down) :
          /\ m.places \subseteq flagged
          /\ m.opens \subseteq Settled
          /\ m.is = "cast" => m.opens \subseteq uncovered

\* A click the client remembers has an answer, or will have.
Awaits(r) ==
    \/ \E m \in ToSet(up) : m.do # "view" /\ m.request = r
    \/ \E m \in ToSet(mailbox) : m.request = r
    \/ \E m \in ToSet(down) : m.is = "ack" /\ m.request = r
Awaited == lost \/ \A r \in DOMAIN optimistic : Awaits(r)

Guessed == UNION {optimistic[r].opens : r \in DOMAIN optimistic}
GuessedFlags == UNION {optimistic[r].places : r \in DOMAIN optimistic}

\* What the client shows is so on the server, or was guessed in a click that
\* has no answer yet.
Explained ==
    unhinged \/ (shown \subseteq Settled \cup Guessed /\ marks \subseteq flagged \cup GuessedFlags)

\* Message m to the client says that cell c of chunk ch is resolved, or flagged.
TellsOpen(m, ch, c) ==
    \/ m.is = "cast" /\ m.chunk = ch /\ c \in m.opens \cup m.places
    \/ m.is = "sync" /\ ch \in m.chunks /\ c \in m.opens
TellsFlag(m, ch, c) ==
    \/ m.is = "cast" /\ m.chunk = ch /\ c \in m.places
    \/ m.is = "sync" /\ ch \in m.chunks /\ c \in m.places

\* Where a resolved cell of a subscribed chunk is: still to be read for a sync,
\* in a broadcast that has not been queued, in a message to the client, or on
\* his board, and there no answer can take it away.
OpenOnItsWay(ch, c) ==
    \/ ch \in syncing
    \/ \E m \in casts : m.chunk = ch /\ c \in m.opens \cup m.places
    \/ \E m \in ToSet(down) : TellsOpen(m, ch, c)
    \/ c \in shown \ Guessed
FlagOnItsWay(ch, c) ==
    \/ ch \in syncing
    \/ \E m \in casts : m.chunk = ch /\ c \in m.places
    \/ \E m \in ToSet(down) : TellsFlag(m, ch, c)
    \/ c \in marks \ GuessedFlags

OpensTracked == \A ch \in subs \ crossed : \A c \in In(ch, Settled) : OpenOnItsWay(ch, c)
FlagsTracked == \A ch \in subs \ crossed : \A c \in In(ch, flagged) : FlagOnItsWay(ch, c)
Tracked == lost \/ (OpensTracked /\ FlagsTracked)

ClientInv == ClientTypes /\ Truthful /\ Awaited /\ Explained /\ Tracked

-----------------------------------------------------------------------------
(* ClientBoard: queues, and what the client remembers.                       *)

LEMMA AppendMembers ==
    ASSUME NEW S, NEW s \in Seq(S), NEW m \in S
    PROVE  Append(s, m) \in Seq(S) /\ ToSet(Append(s, m)) = ToSet(s) \cup {m}
<1>1. /\ Append(s, m) \in Seq(S) /\ DOMAIN Append(s, m) = 1 .. Len(s) + 1 /\ DOMAIN s = 1 .. Len(s)
      /\ \A i \in 1 .. Len(s) : Append(s, m)[i] = s[i]
      /\ Append(s, m)[Len(s) + 1] = m /\ Len(s) \in Nat
  BY AppendFacts
<1>2. QED
  BY <1>1 DEF ToSet

LEMMA TailMembers ==
    ASSUME NEW S, NEW s \in Seq(S), s # <<>>
    PROVE  /\ Head(s) \in S /\ Tail(s) \in Seq(S)
           /\ ToSet(s) = {Head(s)} \cup ToSet(Tail(s))
<1>1. /\ Head(s) = s[1] /\ Head(s) \in S /\ Tail(s) \in Seq(S)
      /\ DOMAIN s = 1 .. Len(s) /\ Len(s) \in Nat \ {0}
      /\ DOMAIN Tail(s) = 1 .. Len(s) - 1
      /\ \A i \in 1 .. Len(s) - 1 : Tail(s)[i] = s[i + 1]
  OBVIOUS
<1>2. ToSet(s) \subseteq {Head(s)} \cup ToSet(Tail(s))
  <2>1. SUFFICES ASSUME NEW i \in 1 .. Len(s)
                 PROVE  s[i] = Head(s) \/ s[i] \in ToSet(Tail(s))
    BY <1>1 DEF ToSet
  <2>2. CASE i = 1
    BY <1>1, <2>2
  <2>3. CASE i # 1
    <3>1. i - 1 \in 1 .. Len(s) - 1 /\ Tail(s)[i - 1] = s[i]
      BY <1>1, <2>3
    <3>2. QED
      BY <1>1, <3>1 DEF ToSet
  <2>4. QED
    BY <2>2, <2>3
<1>3. Head(s) \in ToSet(s)
  BY <1>1 DEF ToSet
<1>4. ToSet(Tail(s)) \subseteq ToSet(s)
  <2>1. SUFFICES ASSUME NEW i \in 1 .. Len(s) - 1 PROVE Tail(s)[i] \in ToSet(s)
    BY <1>1 DEF ToSet
  <2>2. i + 1 \in DOMAIN s /\ Tail(s)[i] = s[i + 1]
    BY <1>1
  <2>3. QED
    BY <2>2 DEF ToSet
<1>5. QED
  BY <1>1, <1>2, <1>3, <1>4

LEMMA MembersTyped ==
    ASSUME NEW S, NEW s \in Seq(S)
    PROVE  ToSet(s) \subseteq S
BY DEF ToSet

LEMMA EmptyHasNone ==
    ToSet(<<>>) = {}
BY DEF ToSet

\* A message that is sent is in the queue, behind what was there, or is lost.
LEMMA PushFacts ==
    ASSUME ClientTypes, NEW m \in Downward, Push(m)
    PROVE  /\ down' \in Seq(Downward) /\ lost' \in BOOLEAN
           /\ lost => lost'
           /\ ToSet(down') \subseteq ToSet(down) \cup {m}
           /\ lost' \/ ToSet(down') = ToSet(down) \cup {m}
<1>1. down \in Seq(Downward) /\ lost \in BOOLEAN
  BY DEF ClientTypes
<1>2. Append(down, m) \in Seq(Downward) /\ ToSet(Append(down, m)) = ToSet(down) \cup {m}
  BY <1>1, AppendMembers
<1>3. \/ down' = Append(down, m) /\ lost' = lost
      \/ lost' = TRUE /\ down' = down
  BY DEF Push
<1>4. QED
  BY <1>1, <1>2, <1>3

\* The search that starts nowhere opens nothing.
LEMMA OpenedNothing ==
    ASSUME NEW zeros \in SUBSET Cell, NEW hidden \in SUBSET Cell
    PROVE  Opened({}, zeros, hidden) = {}
<1>1. Spread({}, {}, hidden) = {}
  BY DEF Spread
<1>2. {} \in ClosedZeros({}, zeros, hidden)
  BY <1>1 DEF ClosedZeros
<1>3. OpenedZeros({}, zeros, hidden) = {}
  BY <1>2 DEF OpenedZeros
<1>4. QED
  BY <1>1, <1>3 DEF Opened

\* A command that is accepted resolves cells that were not, each in one way.
LEMMA AcceptedFacts ==
    ASSUME ClientTypes, NEW kind \in Kinds, NEW c \in Cell, Accepts(kind, c)
    PROVE  /\ Opens(kind, c) \subseteq Unsettled /\ Places(kind, c) \subseteq Unsettled
           /\ Opens(kind, c) \cap Places(kind, c) = {}
<1>1. SafeZeros \in SUBSET Cell /\ Unsettled \in SUBSET Cell
  BY DEF SafeZeros, ZeroCells, Unsettled
<1>2. Opens(kind, c) \subseteq Unsettled
  BY DEF Opens, Opened, Spread
<1>3. CASE Places(kind, c) = {}
  BY <1>2, <1>3
<1>4. CASE Places(kind, c) # {}
  <2>1. kind = "flag" /\ Places(kind, c) = {c}
    BY <1>4 DEF Places
  <2>2. c \in Unsettled
    BY <2>1 DEF Accepts
  <2>3. Opens(kind, c) = Opened({}, SafeZeros, Unsettled)
    BY <2>1 DEF Opens
  <2>4. QED
    BY <1>1, <2>1, <2>2, <2>3, OpenedNothing
<1>5. QED
  BY <1>3, <1>4

-----------------------------------------------------------------------------
(* ClientBoard: the server's steps.                                          *)

LEMMA MutateFacts ==
    ASSUME ClientTypes, Truthful, NEW own \in BOOLEAN,
           NEW opens, opens \subseteq Unsettled, NEW places, places \subseteq Unsettled,
           opens \cap places = {}, Mutate(opens, places, own)
    PROVE  /\ uncovered' \subseteq Cell /\ flagged' \subseteq Cell /\ uncovered' \cap flagged' = {}
           /\ uncovered \subseteq uncovered' /\ flagged \subseteq flagged'
           /\ Settled' = Settled \cup opens \cup places
           /\ casts \subseteq casts'
           /\ casts' \subseteq [chunk : {ChunkOf[c] : c \in Cell}, opens : SUBSET Cell,
                                places : SUBSET Cell, own : BOOLEAN]
           /\ \A m \in casts' : m.opens \subseteq uncovered' /\ m.places \subseteq flagged'
           /\ \A d \in opens : \E m \in casts' : m.chunk = ChunkOf[d] /\ d \in m.opens
           /\ \A d \in places : \E m \in casts' : m.chunk = ChunkOf[d] /\ d \in m.places
<1> DEFINE opened == {[chunk |-> ch, opens |-> In(ch, opens), places |-> {}, own |-> own] :
                         ch \in {ChunkOf[d] : d \in opens}}
           placed == {[chunk |-> ChunkOf[d], opens |-> {}, places |-> {d}, own |-> own] :
                         d \in places}
<1>1. uncovered' = uncovered \cup opens /\ flagged' = flagged \cup places
  BY DEF Mutate
<1>2. casts' = casts \cup opened \cup placed
  BY DEF Mutate
<1>3. opens \subseteq Cell /\ places \subseteq Cell
  BY DEF Unsettled
<1>4. /\ uncovered' \subseteq Cell /\ flagged' \subseteq Cell /\ uncovered' \cap flagged' = {}
      /\ uncovered \subseteq uncovered' /\ flagged \subseteq flagged'
  BY <1>1, <1>3 DEF ClientTypes, Truthful, Unsettled
<1>5. Settled' = Settled \cup opens \cup places
  BY <1>1 DEF Settled
<1>6. opened \subseteq [chunk : {ChunkOf[c] : c \in Cell}, opens : SUBSET Cell,
                        places : SUBSET Cell, own : BOOLEAN]
  BY <1>3 DEF In
<1>7. placed \subseteq [chunk : {ChunkOf[c] : c \in Cell}, opens : SUBSET Cell,
                        places : SUBSET Cell, own : BOOLEAN]
  BY <1>3
<1>8. /\ \A m \in opened : m.opens \subseteq opens /\ m.places = {}
      /\ \A m \in placed : m.opens = {} /\ m.places \subseteq places
  BY DEF In
<1>9. \A m \in casts' : m.opens \subseteq uncovered' /\ m.places \subseteq flagged'
  <2>1. SUFFICES ASSUME NEW m \in casts'
                 PROVE  m.opens \subseteq uncovered' /\ m.places \subseteq flagged'
    OBVIOUS
  <2>2. CASE m \in casts
    BY <1>4, <2>2 DEF Truthful
  <2>3. CASE m \in opened
    BY <1>1, <1>8, <2>3
  <2>4. CASE m \in placed
    BY <1>1, <1>8, <2>4
  <2>5. QED
    BY <1>2, <2>2, <2>3, <2>4
<1>10. ASSUME NEW d \in opens PROVE \E m \in casts' : m.chunk = ChunkOf[d] /\ d \in m.opens
  <2> DEFINE m == [chunk |-> ChunkOf[d], opens |-> In(ChunkOf[d], opens), places |-> {}, own |-> own]
  <2>1. m \in casts'
    BY <1>2
  <2>2. d \in In(ChunkOf[d], opens)
    BY <1>3 DEF In, CellsOf
  <2>3. QED
    BY <2>1, <2>2
<1>11. ASSUME NEW d \in places PROVE \E m \in casts' : m.chunk = ChunkOf[d] /\ d \in m.places
  <2> DEFINE m == [chunk |-> ChunkOf[d], opens |-> {}, places |-> {d}, own |-> own]
  <2>1. m \in casts'
    BY <1>2
  <2>2. QED
    BY <2>1
<1>12. casts' \subseteq [chunk : {ChunkOf[c] : c \in Cell}, opens : SUBSET Cell,
                         places : SUBSET Cell, own : BOOLEAN]
  BY <1>2, <1>6, <1>7 DEF ClientTypes
<1>13. casts \subseteq casts'
  BY <1>2
<1>14. QED
  BY <1>4, <1>5, <1>9, <1>10, <1>11, <1>12, <1>13

\* A command leaves nothing untold: its own cells are in broadcasts, and what
\* was on its way still is, if the queue only grew.
LEMMA MutateTracks ==
    ASSUME ClientTypes, Truthful, OpensTracked, FlagsTracked, NEW own \in BOOLEAN,
           NEW opens, opens \subseteq Unsettled, NEW places, places \subseteq Unsettled,
           opens \cap places = {}, Mutate(opens, places, own),
           ToSet(down) \subseteq ToSet(down'),
           UNCHANGED <<subs, syncing, crossed, shown, marks, optimistic>>
    PROVE  OpensTracked' /\ FlagsTracked'
<1>1. /\ casts \subseteq casts' /\ Settled' = Settled \cup opens \cup places
      /\ \A d \in opens : \E m \in casts' : m.chunk = ChunkOf[d] /\ d \in m.opens
      /\ \A d \in places : \E m \in casts' : m.chunk = ChunkOf[d] /\ d \in m.places
  BY MutateFacts
<1>2. flagged' = flagged \cup places
  BY DEF Mutate
<1>3. Guessed' = Guessed /\ GuessedFlags' = GuessedFlags
  BY DEF Guessed, GuessedFlags
<1>4. ASSUME NEW ch \in subs \ crossed, NEW c \in In(ch, Settled') PROVE OpenOnItsWay(ch, c)'
  <2>1. ChunkOf[c] = ch /\ c \in Settled'
    BY DEF In, CellsOf
  <2>2. CASE c \in Settled
    <3>1. OpenOnItsWay(ch, c)
      BY <2>1, <2>2 DEF OpensTracked, In
    <3>2. QED
      BY <1>1, <1>3, <3>1 DEF OpenOnItsWay, TellsOpen
  <2>3. CASE c \in opens \cup places
    <3>1. \E m \in casts' : m.chunk = ch /\ c \in m.opens \cup m.places
      BY <1>1, <2>1, <2>3
    <3>2. QED
      BY <3>1 DEF OpenOnItsWay
  <2>4. QED
    BY <1>1, <2>1, <2>2, <2>3
<1>5. ASSUME NEW ch \in subs \ crossed, NEW c \in In(ch, flagged') PROVE FlagOnItsWay(ch, c)'
  <2>1. ChunkOf[c] = ch /\ c \in flagged'
    BY DEF In, CellsOf
  <2>2. CASE c \in flagged
    <3>1. FlagOnItsWay(ch, c)
      BY <2>1, <2>2 DEF FlagsTracked, In
    <3>2. QED
      BY <1>1, <1>3, <3>1 DEF FlagOnItsWay, TellsFlag
  <2>3. CASE c \in places
    <3>1. \E m \in casts' : m.chunk = ch /\ c \in m.places
      BY <1>1, <2>1, <2>3
    <3>2. QED
      BY <3>1 DEF FlagOnItsWay
  <2>4. QED
    BY <1>2, <2>1, <2>2, <2>3
<1>6. OpensTracked'
  BY <1>4 DEF OpensTracked, In, CellsOf
<1>7. FlagsTracked'
  BY <1>5 DEF FlagsTracked, In, CellsOf
<1>8. QED
  BY <1>6, <1>7

\* While the server's board grows and the queue gets one true message more,
\* what is under way stays true.
LEMMA StaysTruthful ==
    ASSUME ClientTypes, Truthful, NEW m,
           uncovered' \cap flagged' = {},
           uncovered \subseteq uncovered', flagged \subseteq flagged',
           \A k \in casts' : k.opens \subseteq uncovered' /\ k.places \subseteq flagged',
           ToSet(down') \subseteq ToSet(down) \cup {m},
           m.places \subseteq flagged', m.opens \subseteq Settled',
           m.is = "cast" => m.opens \subseteq uncovered'
    PROVE  Truthful'
<1>1. Settled \subseteq Settled'
  BY DEF Settled
<1>2. ASSUME NEW k \in ToSet(down')
      PROVE  /\ k.places \subseteq flagged' /\ k.opens \subseteq Settled'
             /\ k.is = "cast" => k.opens \subseteq uncovered'
  <2>1. CASE k \in ToSet(down)
    BY <1>1, <2>1 DEF Truthful
  <2>2. CASE k = m
    BY <2>2
  <2>3. QED
    BY <2>1, <2>2
<1>3. QED
  BY <1>2 DEF Truthful

LEMMA ExecuteStep ==
    ASSUME ClientInv, Execute
    PROVE  ClientInv'
<1> DEFINE cmd == Head(mailbox)
           Answer(ok, opens, places) == [is |-> "ack", request |-> cmd.request, ok |-> ok,
                                         opens |-> opens, places |-> places]
<1>1. ClientTypes /\ Truthful /\ Awaited /\ Explained /\ Tracked
  BY DEF ClientInv
<1>2. /\ cmd \in Request /\ Tail(mailbox) \in Seq(Request)
      /\ ToSet(mailbox) = {cmd} \cup ToSet(Tail(mailbox))
  BY <1>1, TailMembers DEF Execute, ClientTypes
<1>3. cmd.do \in Kinds /\ cmd.cell \in Cell /\ cmd.request \in Nat
  BY <1>2 DEF Request
<1>4. mailbox' = Tail(mailbox)
  BY DEF Execute
<1>5. UNCHANGED <<given, subs, up, syncing, client, requests, crossed, unhinged>>
  BY DEF Execute
<1>6. ASSUME NEW ok \in BOOLEAN, NEW opens \in SUBSET Cell, NEW places \in SUBSET Cell,
             Push(Answer(ok, opens, places))
      PROVE  /\ down' \in Seq(Downward) /\ lost' \in BOOLEAN /\ (lost => lost')
             /\ ToSet(down') \subseteq ToSet(down) \cup {Answer(ok, opens, places)}
             /\ lost' \/ ToSet(down) \subseteq ToSet(down')
             /\ Awaited'
  <2> DEFINE m == Answer(ok, opens, places)
  <2>1. m \in Downward
    BY <1>3 DEF Downward
  <2>2. /\ down' \in Seq(Downward) /\ lost' \in BOOLEAN /\ (lost => lost')
        /\ ToSet(down') \subseteq ToSet(down) \cup {m}
        /\ lost' \/ ToSet(down') = ToSet(down) \cup {m}
    BY <1>1, <1>6, <2>1, PushFacts
  <2>3. ASSUME ~ lost', NEW r \in DOMAIN optimistic PROVE Awaits(r)'
    <3>1. Awaits(r)
      BY <1>1, <2>2, <2>3 DEF Awaited
    <3>2. CASE cmd.request = r
      <4>1. m \in ToSet(down') /\ m.is = "ack" /\ m.request = r
        BY <2>2, <2>3, <3>2
      <4>2. QED
        BY <4>1 DEF Awaits
    <3>3. CASE cmd.request # r
      BY <1>2, <1>4, <1>5, <2>2, <2>3, <3>1, <3>3 DEF Awaits
    <3>4. QED
      BY <3>2, <3>3
  <2>4. Awaited'
    BY <1>5, <2>2, <2>3 DEF Awaited, client
  <2>5. QED
    BY <2>2, <2>4
<1>7. CASE /\ Accepts(cmd.do, cmd.cell)
           /\ \E opens \in {Opens(cmd.do, cmd.cell)}, places \in {Places(cmd.do, cmd.cell)} :
                 /\ Mutate(opens, places, TRUE)
                 /\ Push(Answer(TRUE, In(ChunkOf[cmd.cell], opens), places))
  <2> DEFINE opens == Opens(cmd.do, cmd.cell)
             places == Places(cmd.do, cmd.cell)
             told == In(ChunkOf[cmd.cell], opens)
             m == Answer(TRUE, told, places)
  <2>1. Mutate(opens, places, TRUE) /\ Push(m)
    BY <1>7
  <2>2. opens \subseteq Unsettled /\ places \subseteq Unsettled /\ opens \cap places = {}
    BY <1>1, <1>3, <1>7, AcceptedFacts
  <2>3. told \in SUBSET Cell /\ told \subseteq opens /\ places \in SUBSET Cell
    BY <2>2 DEF In, Unsettled
  <2> HIDE DEF opens, places
  <2>4. /\ uncovered' \subseteq Cell /\ flagged' \subseteq Cell /\ uncovered' \cap flagged' = {}
        /\ uncovered \subseteq uncovered' /\ flagged \subseteq flagged'
        /\ Settled' = Settled \cup opens \cup places
        /\ casts' \subseteq [chunk : {ChunkOf[c] : c \in Cell}, opens : SUBSET Cell,
                             places : SUBSET Cell, own : BOOLEAN]
        /\ \A k \in casts' : k.opens \subseteq uncovered' /\ k.places \subseteq flagged'
    BY <1>1, <2>1, <2>2, MutateFacts
  <2>5. /\ down' \in Seq(Downward) /\ lost' \in BOOLEAN /\ (lost => lost')
        /\ ToSet(down') \subseteq ToSet(down) \cup {m}
        /\ lost' \/ ToSet(down) \subseteq ToSet(down')
        /\ Awaited'
    BY <1>6, <2>1, <2>3
  <2>6. ClientTypes'
    BY <1>1, <1>2, <1>4, <1>5, <2>4, <2>5 DEF ClientTypes, client
  <2>7. Truthful'
    <3>1. m.places \subseteq flagged' /\ m.opens \subseteq Settled' /\ m.is = "ack"
      BY <2>1, <2>3, <2>4 DEF Mutate
    <3>2. m.is = "cast" => m.opens \subseteq uncovered'
      BY <3>1
    <3>3. QED
      BY <1>1, <2>4, <2>5, <3>1, <3>2, StaysTruthful
  <2>8. Explained'
    BY <1>1, <1>5, <2>4 DEF Explained, Guessed, GuessedFlags, client
  <2>9. Tracked'
    <3>1. SUFFICES ASSUME ~ lost' PROVE OpensTracked' /\ FlagsTracked'
      BY DEF Tracked
    <3>2. OpensTracked /\ FlagsTracked /\ ToSet(down) \subseteq ToSet(down')
      BY <1>1, <2>5, <3>1 DEF Tracked
    <3>3. UNCHANGED <<subs, syncing, crossed, shown, marks, optimistic>>
      BY <1>5 DEF client
    <3>4. QED
      BY <1>1, <2>1, <2>2, <3>2, <3>3, MutateTracks
  <2>10. QED
    BY <2>5, <2>6, <2>7, <2>8, <2>9 DEF ClientInv
<1>8. CASE Push(Answer(FALSE, {}, {})) /\ UNCHANGED server
  <2> DEFINE m == Answer(FALSE, {}, {})
  <2>1. UNCHANGED <<uncovered, flagged, casts>>
    BY <1>8 DEF server
  <2>2. /\ down' \in Seq(Downward) /\ lost' \in BOOLEAN /\ (lost => lost')
        /\ ToSet(down') \subseteq ToSet(down) \cup {m}
        /\ lost' \/ ToSet(down) \subseteq ToSet(down')
        /\ Awaited'
    <3>1. FALSE \in BOOLEAN /\ {} \in SUBSET Cell
      OBVIOUS
    <3>2. QED
      BY <1>6, <1>8, <3>1
  <2>3. ClientTypes'
    BY <1>1, <1>2, <1>4, <1>5, <2>1, <2>2 DEF ClientTypes, client
  <2>4. Truthful'
    <3>1. m.places = {} /\ m.opens = {}
      OBVIOUS
    <3>2. uncovered' \cap flagged' = {}
          /\ \A k \in casts' : k.opens \subseteq uncovered' /\ k.places \subseteq flagged'
      BY <1>1, <2>1 DEF Truthful
    <3>3. QED
      BY <1>1, <2>1, <2>2, <3>1, <3>2, StaysTruthful
  <2>5. Explained'
    BY <1>1, <1>5, <2>1 DEF Explained, Guessed, GuessedFlags, client, Settled
  <2>6. Tracked'
    <3>1. SUFFICES ASSUME ~ lost' PROVE OpensTracked' /\ FlagsTracked'
      BY DEF Tracked
    <3>2. OpensTracked /\ FlagsTracked /\ ToSet(down) \subseteq ToSet(down')
      BY <1>1, <2>2, <3>1 DEF Tracked
    <3>3. UNCHANGED <<subs, syncing, crossed, shown, marks, optimistic>>
      BY <1>5 DEF client
    <3>4. Guessed' = Guessed /\ GuessedFlags' = GuessedFlags /\ Settled' = Settled
      BY <2>1, <3>3 DEF Guessed, GuessedFlags, Settled
    <3>5. OpensTracked'
      BY <2>1, <3>2, <3>3, <3>4 DEF OpensTracked, OpenOnItsWay, TellsOpen, In
    <3>6. FlagsTracked'
      BY <2>1, <3>2, <3>3, <3>4 DEF FlagsTracked, FlagOnItsWay, TellsFlag, In
    <3>7. QED
      BY <3>5, <3>6
  <2>7. QED
    BY <2>2, <2>3, <2>4, <2>5, <2>6 DEF ClientInv
<1>9. QED
  BY <1>7, <1>8 DEF Execute

LEMMA OtherStep ==
    ASSUME ClientInv, Other
    PROVE  ClientInv'
<1>1. ClientTypes /\ Truthful /\ Awaited /\ Explained /\ Tracked
  BY DEF ClientInv
<1>2. PICK kind \in given.kinds, c \in Cell :
         Accepts(kind, c) /\ Mutate(Opens(kind, c), Places(kind, c), FALSE)
  BY DEF Other
<1> DEFINE opens == Opens(kind, c)
           places == Places(kind, c)
<1>3. kind \in Kinds
  BY <1>1 DEF ClientTypes
<1>4. opens \subseteq Unsettled /\ places \subseteq Unsettled /\ opens \cap places = {}
  BY <1>1, <1>2, <1>3, AcceptedFacts
<1>5. /\ uncovered' \subseteq Cell /\ flagged' \subseteq Cell /\ uncovered' \cap flagged' = {}
      /\ uncovered \subseteq uncovered' /\ flagged \subseteq flagged'
      /\ Settled' = Settled \cup opens \cup places
      /\ casts' \subseteq [chunk : {ChunkOf[d] : d \in Cell}, opens : SUBSET Cell,
                           places : SUBSET Cell, own : BOOLEAN]
      /\ \A k \in casts' : k.opens \subseteq uncovered' /\ k.places \subseteq flagged'
  BY <1>1, <1>2, <1>4, MutateFacts
<1>6. UNCHANGED <<subs, up, mailbox, syncing, down, client, requests, notes>>
  BY DEF Other
<1>7. given'.kinds \subseteq Kinds
  BY <1>1 DEF Other, Spend, ClientTypes
<1>8. ClientTypes'
  BY <1>1, <1>5, <1>6, <1>7 DEF ClientTypes, client, notes
<1>9. Truthful'
  <2>1. Settled \subseteq Settled'
    BY <1>5
  <2>2. QED
    BY <1>1, <1>5, <1>6, <2>1 DEF Truthful
<1>10. Awaited'
  BY <1>1, <1>6 DEF Awaited, Awaits, client, notes
<1>11. Explained'
  BY <1>1, <1>5, <1>6 DEF Explained, Guessed, GuessedFlags, client, notes
<1>12. Tracked'
  <2>1. SUFFICES ASSUME ~ lost' PROVE OpensTracked' /\ FlagsTracked'
    BY DEF Tracked
  <2>2. OpensTracked /\ FlagsTracked /\ ToSet(down) \subseteq ToSet(down')
    BY <1>1, <1>6, <2>1 DEF Tracked, notes
  <2>3. UNCHANGED <<subs, syncing, crossed, shown, marks, optimistic>>
    BY <1>6 DEF client, notes
  <2>4. QED
    BY <1>1, <1>2, <1>4, <2>2, <2>3, MutateTracks
<1>13. QED
  BY <1>8, <1>9, <1>10, <1>11, <1>12 DEF ClientInv

LEMMA BroadcastStep ==
    ASSUME ClientInv, NEW b \in casts, Broadcast(b)
    PROVE  ClientInv'
<1> DEFINE m == [is |-> "cast", chunk |-> b.chunk, opens |-> b.opens, places |-> b.places]
<1>1. ClientTypes /\ Truthful /\ Awaited /\ Explained /\ Tracked
  BY DEF ClientInv
<1>2. /\ casts' = casts \ {b}
      /\ UNCHANGED <<given, uncovered, flagged, subs, up, mailbox, syncing, client, requests,
                     crossed, unhinged>>
  BY DEF Broadcast
<1>3. m \in Downward
  BY <1>1 DEF ClientTypes, Downward
<1>4. /\ down' \in Seq(Downward) /\ lost' \in BOOLEAN /\ (lost => lost')
      /\ ToSet(down') \subseteq ToSet(down) \cup {m}
      /\ lost' \/ ToSet(down) \subseteq ToSet(down')
      /\ lost' \/ (Addressed(b) => m \in ToSet(down'))
  <2>1. CASE Addressed(b)
    <3>1. Push(m)
      BY <2>1 DEF Broadcast
    <3>2. QED
      BY <1>1, <1>3, <3>1, PushFacts
  <2>2. CASE ~ Addressed(b)
    BY <1>1, <2>2 DEF Broadcast, ClientTypes
  <2>3. QED
    BY <2>1, <2>2
<1>5. ClientTypes'
  BY <1>1, <1>2, <1>4 DEF ClientTypes, client
<1>6. Truthful'
  <2>1. /\ uncovered' \cap flagged' = {} /\ uncovered' = uncovered /\ flagged' = flagged
        /\ \A k \in casts' : k.opens \subseteq uncovered' /\ k.places \subseteq flagged'
    BY <1>1, <1>2 DEF Truthful
  <2>2. m.opens \subseteq uncovered' /\ m.places \subseteq flagged'
    BY <1>1, <1>2 DEF Truthful
  <2>3. m.opens \subseteq Settled'
    BY <2>2 DEF Settled
  <2>4. QED
    BY <1>1, <1>4, <2>1, <2>2, <2>3, StaysTruthful
<1>7. Awaited'
  BY <1>1, <1>2, <1>4 DEF Awaited, Awaits, client
<1>8. Explained'
  BY <1>1, <1>2 DEF Explained, Guessed, GuessedFlags, Settled, client
<1>9. Guessed' = Guessed /\ GuessedFlags' = GuessedFlags /\ Settled' = Settled
  BY <1>2 DEF Guessed, GuessedFlags, Settled, client
<1>10. ASSUME ~ lost' PROVE OpensTracked'
  <2>1. SUFFICES ASSUME NEW ch \in subs \ crossed, NEW c \in In(ch, Settled)
                 PROVE  OpenOnItsWay(ch, c)'
    BY <1>2, <1>9 DEF OpensTracked, In
  <2>2. OpenOnItsWay(ch, c)
    BY <1>1, <1>4, <1>10 DEF Tracked, OpensTracked
  <2>3. CASE b.chunk = ch /\ c \in b.opens \cup b.places
    <3>1. Addressed(b)
      BY <2>3 DEF Addressed
    <3>2. m \in ToSet(down') /\ TellsOpen(m, ch, c)
      BY <1>4, <1>10, <2>3, <3>1 DEF TellsOpen
    <3>3. \E k \in ToSet(down') : TellsOpen(k, ch, c)
      BY <3>2
    <3>4. QED
      BY <3>3 DEF OpenOnItsWay, TellsOpen
  <2>4. CASE ~ (b.chunk = ch /\ c \in b.opens \cup b.places)
    <3>1. \/ ch \in syncing' \/ c \in shown' \ Guessed'
          \/ \E k \in casts' : k.chunk = ch /\ c \in k.opens \cup k.places
          \/ \E k \in ToSet(down') : TellsOpen(k, ch, c)
      BY <1>2, <1>4, <1>9, <1>10, <2>2, <2>4 DEF OpenOnItsWay, client
    <3>2. QED
      BY <3>1 DEF OpenOnItsWay, TellsOpen
  <2>5. QED
    BY <2>3, <2>4
<1>11. ASSUME ~ lost' PROVE FlagsTracked'
  <2>1. SUFFICES ASSUME NEW ch \in subs \ crossed, NEW c \in In(ch, flagged)
                 PROVE  FlagOnItsWay(ch, c)'
    BY <1>2 DEF FlagsTracked, In
  <2>2. FlagOnItsWay(ch, c)
    BY <1>1, <1>4, <1>11 DEF Tracked, FlagsTracked
  <2>3. CASE b.chunk = ch /\ c \in b.places
    <3>1. Addressed(b)
      BY <2>3 DEF Addressed
    <3>2. m \in ToSet(down') /\ TellsFlag(m, ch, c)
      BY <1>4, <1>11, <2>3, <3>1 DEF TellsFlag
    <3>3. \E k \in ToSet(down') : TellsFlag(k, ch, c)
      BY <3>2
    <3>4. QED
      BY <3>3 DEF FlagOnItsWay, TellsFlag
  <2>4. CASE ~ (b.chunk = ch /\ c \in b.places)
    <3>1. \/ ch \in syncing' \/ c \in marks' \ GuessedFlags'
          \/ \E k \in casts' : k.chunk = ch /\ c \in k.places
          \/ \E k \in ToSet(down') : TellsFlag(k, ch, c)
      BY <1>2, <1>4, <1>9, <1>11, <2>2, <2>4 DEF FlagOnItsWay, client
    <3>2. QED
      BY <3>1 DEF FlagOnItsWay, TellsFlag
  <2>5. QED
    BY <2>3, <2>4
<1>12. Tracked'
  BY <1>10, <1>11 DEF Tracked
<1>13. QED
  BY <1>5, <1>6, <1>7, <1>8, <1>12 DEF ClientInv

\* A chunk that is subscribed from now on is read next.
LEMMA ReadStep ==
    ASSUME ClientInv, Read
    PROVE  ClientInv'
<1> DEFINE m == Head(up)
<1>1. ClientTypes /\ Truthful /\ Awaited /\ Explained /\ Tracked
  BY DEF ClientInv
<1>2. /\ m \in Upward /\ Tail(up) \in Seq(Upward)
      /\ ToSet(up) = {m} \cup ToSet(Tail(up))
  BY <1>1, TailMembers DEF Read, ClientTypes
<1>3. up' = Tail(up) /\ syncing = {} /\ UNCHANGED <<given, server, down, client, requests, notes>>
  BY DEF Read
<1>4. \/ m.do = "view" /\ subs' = m.rect /\ syncing' = m.rect \ subs /\ UNCHANGED mailbox
      \/ m.do # "view" /\ mailbox' = Append(mailbox, m) /\ UNCHANGED <<subs, syncing>>
  BY DEF Read
<1>5. m.do # "view" => m \in Request
  BY <1>2 DEF Upward
<1>6. m.do = "view" => m.rect \subseteq Chunks
  BY <1>2 DEF Upward, Request, Kinds
<1>7. m.do # "view" =>
         mailbox' \in Seq(Request) /\ ToSet(mailbox') = ToSet(mailbox) \cup {m}
  <2>1. SUFFICES ASSUME m.do # "view"
                 PROVE  mailbox' \in Seq(Request) /\ ToSet(mailbox') = ToSet(mailbox) \cup {m}
    OBVIOUS
  <2>2. mailbox' = Append(mailbox, m) /\ m \in Request /\ mailbox \in Seq(Request)
    BY <1>1, <1>4, <1>5, <2>1 DEF ClientTypes
  <2> HIDE DEF m
  <2>3. QED
    BY <2>2, AppendMembers
<1>8. ClientTypes'
  <2>1. subs' \subseteq Chunks /\ syncing' \subseteq Chunks /\ mailbox' \in Seq(Request)
    BY <1>1, <1>4, <1>6, <1>7 DEF ClientTypes
  <2>2. QED
    BY <1>1, <1>2, <1>3, <2>1 DEF ClientTypes, client, server, notes
<1>9. Truthful'
  BY <1>1, <1>3 DEF Truthful, Settled, server
<1>10. Awaited'
  <2>1. SUFFICES ASSUME ~ lost, NEW r \in DOMAIN optimistic PROVE Awaits(r)'
    BY <1>3 DEF Awaited, client, notes
  <2>2. Awaits(r)
    BY <1>1, <2>1 DEF Awaited
  <2>3. CASE m.do = "view"
    BY <1>2, <1>3, <1>4, <2>2, <2>3 DEF Awaits
  <2>4. CASE m.do # "view"
    BY <1>2, <1>3, <1>7, <2>2, <2>4 DEF Awaits
  <2>5. QED
    BY <2>3, <2>4
<1>11. Explained'
  BY <1>1, <1>3 DEF Explained, Guessed, GuessedFlags, Settled, server, client, notes
<1>12. /\ Guessed' = Guessed /\ GuessedFlags' = GuessedFlags /\ Settled' = Settled
       /\ UNCHANGED <<casts, down, shown, marks, flagged, crossed, lost>>
  BY <1>3 DEF Guessed, GuessedFlags, Settled, client, server, notes
<1>13. \A ch \in subs' : ch \in subs \/ ch \in syncing'
  BY <1>4
<1>14. OpensTracked => OpensTracked'
  <2>1. SUFFICES ASSUME OpensTracked, NEW ch \in subs' \ crossed, NEW c \in In(ch, Settled)
                 PROVE  OpenOnItsWay(ch, c)'
    BY <1>12 DEF OpensTracked, In
  <2>2. CASE ch \in syncing'
    BY <2>2 DEF OpenOnItsWay
  <2>3. CASE ch \in subs
    <3>1. OpenOnItsWay(ch, c)
      BY <2>1, <2>3 DEF OpensTracked
    <3>2. QED
      BY <1>3, <1>12, <3>1 DEF OpenOnItsWay, TellsOpen
  <2>4. QED
    BY <1>13, <2>2, <2>3
<1>15. FlagsTracked => FlagsTracked'
  <2>1. SUFFICES ASSUME FlagsTracked, NEW ch \in subs' \ crossed, NEW c \in In(ch, flagged)
                 PROVE  FlagOnItsWay(ch, c)'
    BY <1>12 DEF FlagsTracked, In
  <2>2. CASE ch \in syncing'
    BY <2>2 DEF FlagOnItsWay
  <2>3. CASE ch \in subs
    <3>1. FlagOnItsWay(ch, c)
      BY <2>1, <2>3 DEF FlagsTracked
    <3>2. QED
      BY <1>3, <1>12, <3>1 DEF FlagOnItsWay, TellsFlag
  <2>4. QED
    BY <1>13, <2>2, <2>3
<1>16. Tracked'
  BY <1>1, <1>12, <1>14, <1>15 DEF Tracked
<1>17. QED
  BY <1>8, <1>9, <1>10, <1>11, <1>16 DEF ClientInv

\* The sync is read under the lock: it holds everything there is.
LEMMA SendRegionStep ==
    ASSUME ClientInv, SendRegion
    PROVE  ClientInv'
<1> DEFINE m == [is |-> "sync", chunks |-> syncing,
                 opens |-> UNION {In(ch, uncovered \cup flagged) : ch \in syncing},
                 places |-> UNION {In(ch, flagged) : ch \in syncing}]
<1>1. ClientTypes /\ Truthful /\ Awaited /\ Explained /\ Tracked
  BY DEF ClientInv
<1>2. /\ syncing' = {} /\ Push(m)
      /\ UNCHANGED <<given, server, subs, up, mailbox, client, requests, crossed, unhinged>>
  BY DEF SendRegion
<1>3. m.opens \subseteq Settled /\ m.places \subseteq flagged
  BY DEF In, Settled
<1>4. m \in Downward
  BY <1>1 DEF ClientTypes, Downward, In
<1>5. /\ down' \in Seq(Downward) /\ lost' \in BOOLEAN /\ (lost => lost')
      /\ ToSet(down') \subseteq ToSet(down) \cup {m}
      /\ lost' \/ ToSet(down') = ToSet(down) \cup {m}
  BY <1>1, <1>2, <1>4, PushFacts
<1>6. /\ Guessed' = Guessed /\ GuessedFlags' = GuessedFlags /\ Settled' = Settled
      /\ UNCHANGED <<casts, shown, marks, uncovered, flagged, optimistic>>
  BY <1>2 DEF Guessed, GuessedFlags, Settled, client, server
<1>7. ClientTypes'
  BY <1>1, <1>2, <1>5 DEF ClientTypes, client, server
<1>8. Truthful'
  <2>1. m.is = "cast" => m.opens \subseteq uncovered'
    OBVIOUS
  <2>2. /\ uncovered' \cap flagged' = {}
        /\ \A k \in casts' : k.opens \subseteq uncovered' /\ k.places \subseteq flagged'
    BY <1>1, <1>6 DEF Truthful
  <2>3. uncovered \subseteq uncovered' /\ flagged \subseteq flagged'
        /\ m.places \subseteq flagged' /\ m.opens \subseteq Settled'
    BY <1>3, <1>6
  <2> HIDE DEF m
  <2>4. QED
    BY <1>1, <1>5, <2>1, <2>2, <2>3, StaysTruthful
<1>9. Awaited'
  BY <1>1, <1>2, <1>5 DEF Awaited, Awaits, client
<1>10. Explained'
  BY <1>1, <1>2, <1>6 DEF Explained
<1>11. ASSUME ~ lost' PROVE OpensTracked'
  <2>1. SUFFICES ASSUME NEW ch \in subs \ crossed, NEW c \in In(ch, Settled)
                 PROVE  OpenOnItsWay(ch, c)'
    BY <1>2, <1>6 DEF OpensTracked, In
  <2>2. OpenOnItsWay(ch, c)
    BY <1>1, <1>5, <1>11 DEF Tracked, OpensTracked
  <2>3. CASE ch \in syncing
    <3>1. c \in m.opens
      BY <2>3 DEF In, Settled
    <3>2. TellsOpen(m, ch, c) /\ m \in ToSet(down')
      BY <1>5, <1>11, <2>3, <3>1 DEF TellsOpen
    <3>3. \E k \in ToSet(down') : TellsOpen(k, ch, c)
      BY <3>2
    <3>4. QED
      BY <3>3 DEF OpenOnItsWay, TellsOpen
  <2>4. CASE ch \notin syncing
    <3>1. \/ \E k \in casts' : k.chunk = ch /\ c \in k.opens \cup k.places
          \/ \E k \in ToSet(down') : TellsOpen(k, ch, c)
          \/ c \in shown' \ Guessed'
      BY <1>5, <1>6, <1>11, <2>2, <2>4 DEF OpenOnItsWay
    <3>2. QED
      BY <3>1 DEF OpenOnItsWay, TellsOpen
  <2>5. QED
    BY <2>3, <2>4
<1>12. ASSUME ~ lost' PROVE FlagsTracked'
  <2>1. SUFFICES ASSUME NEW ch \in subs \ crossed, NEW c \in In(ch, flagged)
                 PROVE  FlagOnItsWay(ch, c)'
    BY <1>2, <1>6 DEF FlagsTracked, In
  <2>2. FlagOnItsWay(ch, c)
    BY <1>1, <1>5, <1>12 DEF Tracked, FlagsTracked
  <2>3. CASE ch \in syncing
    <3>1. c \in m.places
      BY <2>3 DEF In
    <3>2. TellsFlag(m, ch, c) /\ m \in ToSet(down')
      BY <1>5, <1>12, <2>3, <3>1 DEF TellsFlag
    <3>3. \E k \in ToSet(down') : TellsFlag(k, ch, c)
      BY <3>2
    <3>4. QED
      BY <3>3 DEF FlagOnItsWay, TellsFlag
  <2>4. CASE ch \notin syncing
    <3>1. \/ \E k \in casts' : k.chunk = ch /\ c \in k.places
          \/ \E k \in ToSet(down') : TellsFlag(k, ch, c)
          \/ c \in marks' \ GuessedFlags'
      BY <1>5, <1>6, <1>12, <2>2, <2>4 DEF FlagOnItsWay
    <3>2. QED
      BY <3>1 DEF FlagOnItsWay, TellsFlag
  <2>5. QED
    BY <2>3, <2>4
<1>13. Tracked'
  BY <1>11, <1>12 DEF Tracked
<1>14. QED
  BY <1>7, <1>8, <1>9, <1>10, <1>13 DEF ClientInv

-----------------------------------------------------------------------------
(* ClientBoard: the client's steps.                                          *)

LEMMA ViewStep ==
    ASSUME ClientInv, View
    PROVE  ClientInv'
<1>1. ClientTypes /\ Truthful /\ Awaited /\ Explained /\ Tracked
  BY DEF ClientInv
<1>2. PICK rect \in SUBSET Chunks : up' = Append(up, [do |-> "view", rect |-> rect])
  BY DEF View
<1>3. UNCHANGED <<server, subs, mailbox, syncing, down, client, requests, notes>>
  BY DEF View
<1> DEFINE m == [do |-> "view", rect |-> rect]
<1>4. m \in Upward
  BY DEF Upward
<1>5. up' \in Seq(Upward) /\ ToSet(up') = ToSet(up) \cup {m}
  <2>1. up \in Seq(Upward) /\ up' = Append(up, m)
    BY <1>1, <1>2 DEF ClientTypes
  <2> HIDE DEF m
  <2>2. QED
    BY <1>4, <2>1, AppendMembers
<1>6. given'.kinds \subseteq Kinds
  BY <1>1 DEF View, Spend, ClientTypes
<1>7. ClientTypes'
  BY <1>1, <1>3, <1>5, <1>6 DEF ClientTypes, server, client, notes
<1>8. Truthful'
  BY <1>1, <1>3 DEF Truthful, Settled, server
<1>9. Awaited'
  BY <1>1, <1>3, <1>5 DEF Awaited, Awaits, client, notes
<1>10. Explained'
  BY <1>1, <1>3 DEF Explained, Guessed, GuessedFlags, Settled, server, client, notes
<1>11. OpensTracked => OpensTracked'
  BY <1>3 DEF OpensTracked, OpenOnItsWay, TellsOpen, Guessed, Settled, In, server, client, notes
<1>12. FlagsTracked => FlagsTracked'
  BY <1>3 DEF FlagsTracked, FlagOnItsWay, TellsFlag, GuessedFlags, In, server, client, notes
<1>13. Tracked'
  BY <1>1, <1>3, <1>11, <1>12 DEF Tracked, notes
<1>14. QED
  BY <1>7, <1>8, <1>9, <1>10, <1>13 DEF ClientInv

\* A click guesses cells the client does not show, and flags where it has none.
LEMMA GuessFacts ==
    ASSUME NEW kind \in Kinds, NEW c \in Cell, MayClick(kind, c)
    PROVE  /\ Guess(kind, c) \in SUBSET (Cell \ shown)
           /\ GuessFlag(kind, c) \in SUBSET (Cell \ marks)
<1>1. Known \subseteq Cell
  BY DEF Known
<1>2. CASE kind = "chord"
  <2>1. Guess(kind, c) \subseteq Known \ (shown \cup marks)
    BY <1>2 DEF Guess, Opened, Spread
  <2>2. GuessFlag(kind, c) = {}
    BY <1>2 DEF GuessFlag
  <2>3. QED
    BY <1>1, <2>1, <2>2
<1>3. CASE kind # "chord"
  <2>1. c \notin shown /\ c \notin marks
    BY <1>3 DEF MayClick
  <2>2. Guess(kind, c) \subseteq {c} /\ GuessFlag(kind, c) \subseteq {c}
    BY <1>3 DEF Guess, GuessFlag
  <2>3. QED
    BY <2>1, <2>2
<1>4. QED
  BY <1>2, <1>3

LEMMA ClickStep ==
    ASSUME ClientInv, NEW kind \in given.kinds, NEW c \in Cell, Click(kind, c)
    PROVE  ClientInv'
<1> DEFINE opens == Guess(kind, c)
           places == GuessFlag(kind, c)
           new == requests + 1
           m == [do |-> kind, cell |-> c, request |-> new]
<1>1. ClientTypes /\ Truthful /\ Awaited /\ Explained /\ Tracked
  BY DEF ClientInv
<1>2. kind \in Kinds
  BY <1>1 DEF ClientTypes
<1>3. opens \in SUBSET (Cell \ shown) /\ places \in SUBSET (Cell \ marks)
  BY <1>2, GuessFacts DEF Click
<1>4. /\ shown' = shown \cup opens /\ marks' = marks \cup places
      /\ optimistic' = [r \in DOMAIN optimistic \cup {new} |->
            IF r = new THEN [opens |-> opens, places |-> places] ELSE optimistic[r]]
      /\ up' = Append(up, m)
      /\ requests' = new
      /\ UNCHANGED <<server, subs, mailbox, syncing, down, seeds, notes>>
  BY DEF Click
<1>5. given'.kinds \subseteq Kinds
  BY <1>1 DEF Click, Spend, ClientTypes
<1>6. requests \in Nat /\ new \in Nat /\ new \notin DOMAIN optimistic
      /\ 1 .. requests \subseteq 1 .. new /\ new \in 1 .. new
  BY <1>1 DEF ClientTypes
<1> HIDE DEF opens, places
<1>7. /\ DOMAIN optimistic' = DOMAIN optimistic \cup {new}
      /\ \A r \in DOMAIN optimistic : optimistic'[r] = optimistic[r]
      /\ optimistic'[new] = [opens |-> opens, places |-> places]
      /\ optimistic' = [r \in DOMAIN optimistic' |-> optimistic'[r]]
  BY <1>4, <1>6
<1>8. Guessed' = Guessed \cup opens /\ GuessedFlags' = GuessedFlags \cup places
  BY <1>7 DEF Guessed, GuessedFlags
<1>9. m \in Request
  BY <1>2, <1>6 DEF Request
<1>10. up' \in Seq(Upward) /\ ToSet(up') = ToSet(up) \cup {m}
  <2>1. up \in Seq(Upward) /\ m \in Upward
    BY <1>1, <1>9 DEF ClientTypes, Upward
  <2> HIDE DEF m
  <2>2. QED
    BY <1>4, <2>1, AppendMembers
<1>11. ClientTypes'
  <2>1. DOMAIN optimistic' \subseteq 1 .. requests'
    BY <1>1, <1>4, <1>6, <1>7 DEF ClientTypes
  <2>2. \A r \in DOMAIN optimistic' : optimistic'[r] \in Change
    <3>1. [opens |-> opens, places |-> places] \in Change
      BY <1>3 DEF Change
    <3>2. \A r \in DOMAIN optimistic : optimistic[r] \in Change
      BY <1>1 DEF ClientTypes
    <3>3. QED
      BY <1>7, <3>1, <3>2
  <2>3. optimistic' \in [DOMAIN optimistic' -> Change]
    BY <1>7, <2>2
  <2>4. QED
    BY <1>1, <1>4, <1>5, <1>6, <1>10, <2>1, <2>3 DEF ClientTypes, server, notes
<1>12. Truthful'
  BY <1>1, <1>4 DEF Truthful, Settled, server
<1>13. Awaited'
  <2>1. SUFFICES ASSUME ~ lost, NEW r \in DOMAIN optimistic' PROVE Awaits(r)'
    BY <1>4 DEF Awaited, notes
  <2>2. CASE r = new
    <3>1. m \in ToSet(up') /\ m.do # "view" /\ m.request = r
      BY <1>2, <1>10, <2>2 DEF Kinds
    <3>2. QED
      BY <3>1 DEF Awaits
  <2>3. CASE r \in DOMAIN optimistic
    <3>1. Awaits(r)
      BY <1>1, <2>1, <2>3 DEF Awaited
    <3>2. QED
      BY <1>4, <1>10, <3>1 DEF Awaits
  <2>4. QED
    BY <1>7, <2>2, <2>3
<1>14. Explained'
  BY <1>1, <1>4, <1>8 DEF Explained, Settled, server, notes
<1>15. Settled' = Settled /\ UNCHANGED <<casts, flagged, crossed, lost>>
  BY <1>4 DEF Settled, server, notes
<1>16. shown \ Guessed \subseteq shown' \ Guessed' /\ marks \ GuessedFlags \subseteq marks' \ GuessedFlags'
  BY <1>3, <1>4, <1>8
<1>17. OpensTracked => OpensTracked'
  BY <1>4, <1>15, <1>16 DEF OpensTracked, OpenOnItsWay, TellsOpen, In
<1>18. FlagsTracked => FlagsTracked'
  BY <1>4, <1>15, <1>16 DEF FlagsTracked, FlagOnItsWay, TellsFlag, In
<1>19. Tracked'
  BY <1>1, <1>15, <1>17, <1>18 DEF Tracked
<1>20. QED
  BY <1>11, <1>12, <1>13, <1>14, <1>19 DEF ClientInv

\* What a message that arrives leaves of the queue.
LEMMA ReceivedFacts ==
    ASSUME ClientInv, Receive
    PROVE  /\ Head(down) \in Downward /\ down' \in Seq(Downward)
           /\ ToSet(down) = {Head(down)} \cup ToSet(down')
           /\ Truthful'
           /\ UNCHANGED <<given, uncovered, flagged, casts, subs, up, mailbox, syncing,
                          requests, lost>>
           /\ Settled' = Settled
<1>1. ClientTypes /\ Truthful
  BY DEF ClientInv
<1>2. Head(down) \in Downward /\ down' \in Seq(Downward)
      /\ ToSet(down) = {Head(down)} \cup ToSet(down')
  <2>1. down \in Seq(Downward) /\ down # <<>> /\ down' = Tail(down)
    BY <1>1 DEF Receive, ClientTypes
  <2>2. QED
    BY <2>1, TailMembers
<1>3. UNCHANGED <<given, uncovered, flagged, casts, subs, up, mailbox, syncing, requests, lost>>
  BY DEF Receive, server
<1>4. Settled' = Settled
  BY <1>3 DEF Settled
<1>5. Truthful'
  BY <1>1, <1>2, <1>3, <1>4 DEF Truthful
<1>6. QED
  BY <1>2, <1>3, <1>4, <1>5

\* A resolved cell stays on its way when a message arrives that leaves the
\* client with what no answer can take away, and with what the message tells.
LEMMA ReceivedTracks ==
    ASSUME ClientInv, Receive, crossed \subseteq crossed',
           \A ch \in subs \ crossed', d \in Cell : ChunkOf[d] = ch =>
              /\ d \in shown \ Guessed => d \in shown' \ Guessed'
              /\ d \in marks \ GuessedFlags /\ d \in flagged => d \in marks' \ GuessedFlags'
              /\ TellsOpen(Head(down), ch, d) => d \in shown' \ Guessed'
              /\ TellsFlag(Head(down), ch, d) /\ d \in flagged => d \in marks' \ GuessedFlags'
    PROVE  Tracked'
<1>1. /\ ToSet(down) = {Head(down)} \cup ToSet(down')
      /\ UNCHANGED <<flagged, casts, subs, syncing, lost>> /\ Settled' = Settled
  BY ReceivedFacts
<1>2. Tracked
  BY DEF ClientInv
<1>3. ASSUME OpensTracked PROVE OpensTracked'
  <2>1. SUFFICES ASSUME NEW ch \in subs \ crossed', NEW c \in In(ch, Settled)
                 PROVE  OpenOnItsWay(ch, c)'
    BY <1>1 DEF OpensTracked, In
  <2>2. c \in Cell /\ ChunkOf[c] = ch
    BY DEF In, CellsOf
  <2>3. OpenOnItsWay(ch, c)
    BY <1>3, <2>1 DEF OpensTracked
  <2>4. \/ ch \in syncing'
        \/ \E m \in casts' : m.chunk = ch /\ c \in m.opens \cup m.places
        \/ \E m \in ToSet(down') : TellsOpen(m, ch, c)
        \/ c \in shown' \ Guessed'
    BY <1>1, <2>2, <2>3 DEF OpenOnItsWay
  <2>5. QED
    BY <2>4 DEF OpenOnItsWay, TellsOpen
<1>4. ASSUME FlagsTracked PROVE FlagsTracked'
  <2>1. SUFFICES ASSUME NEW ch \in subs \ crossed', NEW c \in In(ch, flagged)
                 PROVE  FlagOnItsWay(ch, c)'
    BY <1>1 DEF FlagsTracked, In
  <2>2. c \in Cell /\ ChunkOf[c] = ch /\ c \in flagged
    BY DEF In, CellsOf
  <2>3. FlagOnItsWay(ch, c)
    BY <1>4, <2>1 DEF FlagsTracked
  <2>4. \/ ch \in syncing'
        \/ \E m \in casts' : m.chunk = ch /\ c \in m.places
        \/ \E m \in ToSet(down') : TellsFlag(m, ch, c)
        \/ c \in marks' \ GuessedFlags'
    BY <1>1, <2>2, <2>3 DEF FlagOnItsWay
  <2>5. QED
    BY <2>4 DEF FlagOnItsWay, TellsFlag
<1>5. QED
  BY <1>1, <1>2, <1>3, <1>4 DEF Tracked

\* An answer is taken off the queue for the click it is for, if the client
\* still remembers it, and for no other.
LEMMA StillAwaited ==
    ASSUME ClientInv, Receive, DOMAIN optimistic' \subseteq DOMAIN optimistic,
           Head(down).is = "ack" => Head(down).request \notin DOMAIN optimistic'
    PROVE  Awaited'
<1>1. /\ ToSet(down) = {Head(down)} \cup ToSet(down')
      /\ UNCHANGED <<up, mailbox, lost>>
  BY ReceivedFacts
<1>2. Awaited
  BY DEF ClientInv
<1>3. SUFFICES ASSUME ~ lost, NEW r \in DOMAIN optimistic' PROVE Awaits(r)'
  BY <1>1 DEF Awaited
<1>4. Awaits(r)
  BY <1>2, <1>3 DEF Awaited
<1>5. QED
  BY <1>1, <1>4 DEF Awaits

LEMMA ReceiveAckStep ==
    ASSUME ClientInv, Receive, Head(down).is = "ack", ReceiveAck(Head(down))
    PROVE  ClientInv'
<1> DEFINE m == Head(down)
<1>1. ClientTypes /\ Truthful /\ Explained
  BY DEF ClientInv
<1>2. /\ m \in Downward /\ down' \in Seq(Downward)
      /\ ToSet(down) = {m} \cup ToSet(down')
      /\ Truthful' /\ Settled' = Settled
      /\ UNCHANGED <<given, uncovered, flagged, casts, subs, up, mailbox, syncing, requests, lost>>
  BY ReceivedFacts
<1>3. m.opens \subseteq Settled /\ m.places \subseteq flagged
  BY <1>1, <1>2 DEF Truthful
<1>4. flagged \subseteq Settled
  BY DEF Settled
<1>5. CASE m.request \notin DOMAIN optimistic
  <2>1. UNCHANGED <<shown, marks, optimistic, crossed, unhinged>>
    BY <1>5 DEF ReceiveAck, client
  <2>2. Guessed' = Guessed /\ GuessedFlags' = GuessedFlags
    BY <2>1 DEF Guessed, GuessedFlags
  <2>3. ClientTypes'
    BY <1>1, <1>2, <2>1 DEF ClientTypes
  <2>4. Awaited'
    BY <1>5, <2>1, StillAwaited
  <2>5. Explained'
    BY <1>1, <1>2, <2>1, <2>2 DEF Explained
  <2>6. Tracked'
    BY <2>1, <2>2, ReceivedTracks DEF TellsOpen, TellsFlag
  <2>7. QED
    BY <1>2, <2>3, <2>4, <2>5, <2>6 DEF ClientInv
<1>6. CASE m.request \in DOMAIN optimistic
  <2> DEFINE undone == optimistic[m.request]
  <2>1. /\ shown' = (shown \ undone.opens) \cup m.opens \cup m.places
        /\ marks' = (marks \ undone.places) \cup m.places
        /\ optimistic' = [r \in DOMAIN optimistic \ {m.request} |-> optimistic[r]]
        /\ UNCHANGED <<crossed, unhinged>>
    BY <1>6 DEF ReceiveAck, Undone
  <2>2. /\ DOMAIN optimistic' = DOMAIN optimistic \ {m.request}
        /\ \A r \in DOMAIN optimistic' : optimistic'[r] = optimistic[r]
    BY <2>1
  <2>3. undone.opens \subseteq Guessed /\ undone.places \subseteq GuessedFlags
    BY <1>6 DEF Guessed, GuessedFlags
  <2>4. Guessed' \subseteq Guessed /\ Guessed \subseteq Guessed' \cup undone.opens
    BY <2>2 DEF Guessed
  <2>5. GuessedFlags' \subseteq GuessedFlags /\ GuessedFlags \subseteq GuessedFlags' \cup undone.places
    BY <2>2 DEF GuessedFlags
  <2>6. ClientTypes'
    <3>1. \A r \in DOMAIN optimistic' : optimistic'[r] \in Change
      BY <1>1, <2>2 DEF ClientTypes
    <3>2. optimistic' \in [DOMAIN optimistic' -> Change]
      BY <2>1, <2>2, <3>1
    <3>3. QED
      BY <1>1, <1>2, <2>1, <2>2, <3>2 DEF ClientTypes
  <2>7. Awaited'
    BY <2>2, StillAwaited
  <2>8. Explained'
    BY <1>1, <1>2, <1>3, <1>4, <2>1, <2>4, <2>5 DEF Explained
  <2>9. Tracked'
    BY <2>1, <2>3, <2>4, <2>5, ReceivedTracks DEF TellsOpen, TellsFlag
  <2>10. QED
    BY <1>2, <2>6, <2>7, <2>8, <2>9 DEF ClientInv
<1>7. QED
  BY <1>5, <1>6

\* What is forgotten of a chunk is all there is in it.
LEMMA ForgetFacts ==
    ASSUME ClientTypes, NEW r \in DOMAIN optimistic, NEW ch
    PROVE  /\ Forget(r, ch) \in Change
           /\ Forget(r, ch).opens \subseteq optimistic[r].opens
           /\ Forget(r, ch).places \subseteq optimistic[r].places
           /\ Forget(r, ch).opens \cap CellsOf(ch) = {}
           /\ Forget(r, ch).places \cap CellsOf(ch) = {}
<1>1. optimistic[r] \in Change
  BY DEF ClientTypes
<1>2. /\ Forget(r, ch).opens = optimistic[r].opens \ CellsOf(ch)
      /\ Forget(r, ch).places = optimistic[r].places \ CellsOf(ch)
      /\ Forget(r, ch) = [opens |-> optimistic[r].opens \ CellsOf(ch),
                          places |-> optimistic[r].places \ CellsOf(ch)]
  BY DEF Forget
<1>3. QED
  BY <1>1, <1>2 DEF Change

LEMMA ReceiveCastStep ==
    ASSUME ClientInv, Receive, Head(down).is = "cast", ReceiveCast(Head(down))
    PROVE  ClientInv'
<1> DEFINE m == Head(down)
           gone == {r \in DOMAIN optimistic :
                       optimistic[r] # Nothing /\ Forget(r, m.chunk) = Nothing}
<1>1. ClientTypes /\ Truthful /\ Explained
  BY DEF ClientInv
<1>2. /\ m \in Downward /\ down' \in Seq(Downward)
      /\ ToSet(down) = {m} \cup ToSet(down')
      /\ Truthful' /\ Settled' = Settled
      /\ UNCHANGED <<given, uncovered, flagged, casts, subs, up, mailbox, syncing, requests, lost>>
  BY ReceivedFacts
<1>3. m.opens \subseteq uncovered /\ m.opens \subseteq Settled /\ m.places \subseteq flagged
  BY <1>1, <1>2 DEF Truthful
<1>4. /\ optimistic' = [r \in DOMAIN optimistic \ gone |-> Forget(r, m.chunk)]
      /\ unhinged' = (unhinged \/ \E r \in DOMAIN optimistic :
                                     Forget(r, m.chunk) # optimistic[r])
      /\ shown' = shown \cup m.opens \cup m.places
      /\ marks' = (marks \ (m.opens \ (Mine \cap Known))) \cup m.places
      /\ UNCHANGED crossed
  BY DEF ReceiveCast
<1>5. /\ DOMAIN optimistic' \subseteq DOMAIN optimistic
      /\ \A r \in DOMAIN optimistic' : optimistic'[r] = Forget(r, m.chunk)
  BY <1>4
<1>6. /\ Guessed' \subseteq Guessed /\ Guessed' \cap CellsOf(m.chunk) = {}
      /\ GuessedFlags' \subseteq GuessedFlags /\ GuessedFlags' \cap CellsOf(m.chunk) = {}
  <2>1. \A r \in DOMAIN optimistic' :
           /\ r \in DOMAIN optimistic
           /\ optimistic'[r].opens \subseteq optimistic[r].opens
           /\ optimistic'[r].places \subseteq optimistic[r].places
           /\ optimistic'[r].opens \cap CellsOf(m.chunk) = {}
           /\ optimistic'[r].places \cap CellsOf(m.chunk) = {}
    BY <1>1, <1>5, ForgetFacts
  <2>2. QED
    BY <2>1 DEF Guessed, GuessedFlags
<1>7. ClientTypes'
  <2>1. \A r \in DOMAIN optimistic' : optimistic'[r] \in Change
    BY <1>1, <1>5, ForgetFacts
  <2>2. optimistic' \in [DOMAIN optimistic' -> Change]
    BY <1>4, <1>5, <2>1
  <2>3. unhinged' \in BOOLEAN
    BY <1>1, <1>4 DEF ClientTypes
  <2>4. QED
    BY <1>1, <1>2, <1>5, <2>2, <2>3 DEF ClientTypes
<1>8. Awaited'
  BY <1>5, StillAwaited
<1>9. Explained'
  <2>1. SUFFICES ASSUME ~ unhinged'
                 PROVE  /\ shown' \subseteq Settled' \cup Guessed'
                        /\ marks' \subseteq flagged' \cup GuessedFlags'
    BY DEF Explained
  <2>2. ~ unhinged /\ \A r \in DOMAIN optimistic : Forget(r, m.chunk) = optimistic[r]
    BY <1>4, <2>1
  <2>3. gone = {}
    BY <2>2
  <2>4. DOMAIN optimistic' = DOMAIN optimistic
        /\ \A r \in DOMAIN optimistic : optimistic'[r] = optimistic[r]
    BY <1>4, <2>2, <2>3
  <2>5. Guessed' = Guessed /\ GuessedFlags' = GuessedFlags
    BY <2>4 DEF Guessed, GuessedFlags
  <2>6. flagged \subseteq Settled
    BY DEF Settled
  <2>7. QED
    BY <1>1, <1>2, <1>3, <1>4, <2>2, <2>5, <2>6 DEF Explained
<1>10. Tracked'
  <2>1. ASSUME NEW ch \in subs \ crossed', NEW d \in Cell, ChunkOf[d] = ch
        PROVE  /\ d \in shown \ Guessed => d \in shown' \ Guessed'
               /\ d \in marks \ GuessedFlags /\ d \in flagged => d \in marks' \ GuessedFlags'
               /\ TellsOpen(m, ch, d) => d \in shown' \ Guessed'
               /\ TellsFlag(m, ch, d) /\ d \in flagged => d \in marks' \ GuessedFlags'
    <3>1. ch = m.chunk => d \notin Guessed' /\ d \notin GuessedFlags'
      BY <1>6, <2>1 DEF CellsOf
    <3>2. d \in flagged => d \notin m.opens
      BY <1>1, <1>3 DEF Truthful
    <3>3. TellsOpen(m, ch, d) => m.chunk = ch /\ d \in m.opens \cup m.places
      BY DEF TellsOpen
    <3>4. TellsFlag(m, ch, d) => m.chunk = ch /\ d \in m.places
      BY DEF TellsFlag
    <3> HIDE DEF m
    <3>5. QED
      BY <1>4, <1>6, <3>1, <3>2, <3>3, <3>4
  <2>2. crossed \subseteq crossed'
    BY <1>4
  <2>3. QED
    BY <2>1, <2>2, ReceivedTracks
<1>11. QED
  BY <1>2, <1>7, <1>8, <1>9, <1>10 DEF ClientInv

LEMMA ReceiveSyncStep ==
    ASSUME ClientInv, Receive, Head(down).is = "sync", ReceiveSync(Head(down))
    PROVE  ClientInv'
<1> DEFINE m == Head(down)
<1>1. ClientTypes /\ Truthful /\ Explained
  BY DEF ClientInv
<1>2. /\ m \in Downward /\ down' \in Seq(Downward)
      /\ ToSet(down) = {m} \cup ToSet(down')
      /\ Truthful' /\ Settled' = Settled
      /\ UNCHANGED <<given, uncovered, flagged, casts, subs, up, mailbox, syncing, requests, lost>>
  BY ReceivedFacts
<1>3. m.opens \subseteq Settled /\ m.places \subseteq flagged
  BY <1>1, <1>2 DEF Truthful
<1>4. /\ shown' = shown \cup m.opens /\ marks' = marks \cup m.places
      /\ crossed' = crossed \cup {ch \in m.chunks : \E r \in DOMAIN optimistic :
                                     Forget(r, ch) # optimistic[r]}
      /\ UNCHANGED <<optimistic, unhinged>>
  BY DEF ReceiveSync
<1>5. Guessed' = Guessed /\ GuessedFlags' = GuessedFlags
  BY <1>4 DEF Guessed, GuessedFlags
<1>6. ClientTypes'
  BY <1>1, <1>2, <1>4 DEF ClientTypes
<1>7. Awaited'
  BY <1>4, StillAwaited
<1>8. Explained'
  BY <1>1, <1>2, <1>3, <1>4, <1>5 DEF Explained
<1>9. Tracked'
  <2>1. ASSUME NEW ch \in subs \ crossed', NEW d \in Cell, ChunkOf[d] = ch, ch \in m.chunks
        PROVE  d \notin Guessed /\ d \notin GuessedFlags
    <3>1. \A r \in DOMAIN optimistic : Forget(r, ch) = optimistic[r]
      BY <1>4, <2>1
    <3>2. \A r \in DOMAIN optimistic : d \notin optimistic[r].opens /\ d \notin optimistic[r].places
      <4>1. d \in CellsOf(ch)
        BY <2>1 DEF CellsOf
      <4>2. \A r \in DOMAIN optimistic : /\ Forget(r, ch).opens \cap CellsOf(ch) = {}
                                          /\ Forget(r, ch).places \cap CellsOf(ch) = {}
        BY <1>1, ForgetFacts
      <4>3. QED
        BY <3>1, <4>1, <4>2
    <3>3. QED
      BY <3>2 DEF Guessed, GuessedFlags
  <2>2. ASSUME NEW ch \in subs \ crossed', NEW d \in Cell, ChunkOf[d] = ch
        PROVE  /\ d \in shown \ Guessed => d \in shown' \ Guessed'
               /\ d \in marks \ GuessedFlags /\ d \in flagged => d \in marks' \ GuessedFlags'
               /\ TellsOpen(m, ch, d) => d \in shown' \ Guessed'
               /\ TellsFlag(m, ch, d) /\ d \in flagged => d \in marks' \ GuessedFlags'
    <3>1. TellsOpen(m, ch, d) => ch \in m.chunks /\ d \in m.opens
      BY DEF TellsOpen
    <3>2. TellsFlag(m, ch, d) => ch \in m.chunks /\ d \in m.places
      BY DEF TellsFlag
    <3>3. ch \in m.chunks => d \notin Guessed /\ d \notin GuessedFlags
      BY <2>1, <2>2
    <3> HIDE DEF m
    <3>4. QED
      BY <1>4, <1>5, <3>1, <3>2, <3>3
  <2>3. crossed \subseteq crossed'
    BY <1>4
  <2>4. QED
    BY <2>2, <2>3, ReceivedTracks
<1>10. QED
  BY <1>2, <1>6, <1>7, <1>8, <1>9 DEF ClientInv

LEMMA SeedResponseStep ==
    ASSUME ClientInv, SeedResponse
    PROVE  ClientInv'
<1>1. ClientTypes /\ Truthful /\ Awaited /\ Explained /\ Tracked
  BY DEF ClientInv
<1>2. UNCHANGED <<given, uncovered, flagged, casts, subs, up, mailbox, syncing, down, shown, marks,
                  optimistic, requests, lost, crossed, unhinged>>
  BY DEF SeedResponse, server, notes
<1>3. Guessed' = Guessed /\ GuessedFlags' = GuessedFlags /\ Settled' = Settled
  BY <1>2 DEF Guessed, GuessedFlags, Settled
<1>4. ClientTypes' /\ Truthful' /\ Awaited' /\ Explained'
  BY <1>1, <1>2, <1>3 DEF ClientTypes, Truthful, Awaited, Awaits, Explained
<1>5. Tracked'
  BY <1>1, <1>2, <1>3 DEF Tracked, OpensTracked, FlagsTracked, OpenOnItsWay, FlagOnItsWay,
                          TellsOpen, TellsFlag, In
<1>6. QED
  BY <1>4, <1>5 DEF ClientInv

\* A new connection starts with nothing, and with what is broadcast yet.
LEMMA ReconnectStep ==
    ASSUME ClientInv, Reconnect
    PROVE  ClientInv'
<1>1. ClientTypes /\ Truthful
  BY DEF ClientInv
<1>2. /\ subs' = {} /\ syncing' = {} /\ up' = <<>> /\ mailbox' = <<>> /\ down' = <<>>
      /\ shown' = {} /\ marks' = {} /\ optimistic' = <<>>
      /\ lost' = FALSE /\ unhinged' = FALSE
      /\ UNCHANGED <<uncovered, flagged, casts, requests>>
  BY DEF Reconnect, server
<1>3. given'.kinds \subseteq Kinds
  BY <1>1 DEF Reconnect, Spend, ClientTypes
<1>4. DOMAIN optimistic' = {} /\ optimistic' \in [DOMAIN optimistic' -> Change]
  BY <1>2
<1>5. ClientTypes'
  <2>1. up' \in Seq(Upward) /\ mailbox' \in Seq(Request) /\ down' \in Seq(Downward)
    BY <1>2
  <2>2. DOMAIN optimistic' \subseteq 1 .. requests'
    BY <1>4
  <2>3. lost' \in BOOLEAN /\ unhinged' \in BOOLEAN /\ subs' \subseteq Chunks /\ syncing' \subseteq Chunks
    BY <1>2
  <2>4. QED
    BY <1>1, <1>2, <1>3, <1>4, <2>1, <2>2, <2>3 DEF ClientTypes
<1>6. Truthful'
  BY <1>1, <1>2, EmptyHasNone DEF Truthful
<1>7. Awaited' /\ Explained' /\ Tracked'
  BY <1>2, <1>4 DEF Awaited, Explained, Tracked, OpensTracked, FlagsTracked
<1>8. QED
  BY <1>5, <1>6, <1>7 DEF ClientInv

-----------------------------------------------------------------------------
(* ClientBoard: the theorems.                                                *)

LEMMA ClientStart ==
    ASSUME ClientInit
    PROVE  ClientInv
<1>1. DOMAIN optimistic = {} /\ optimistic \in [DOMAIN optimistic -> Change]
  BY DEF ClientInit
<1>2. ClientTypes
  <2>1. given.kinds \subseteq Kinds
    BY ClientBoardAssumption DEF ClientInit
  <2>2. up \in Seq(Upward) /\ mailbox \in Seq(Request) /\ down \in Seq(Downward)
    BY DEF ClientInit
  <2>3. requests \in Nat /\ DOMAIN optimistic \subseteq 1 .. requests
    BY <1>1 DEF ClientInit
  <2>4. QED
    BY <1>1, <2>1, <2>2, <2>3 DEF ClientInit, ClientTypes
<1>3. Truthful
  BY EmptyHasNone DEF ClientInit, Truthful
<1>4. Awaited /\ Explained /\ Tracked
  BY <1>1 DEF ClientInit, Awaited, Explained, Tracked, OpensTracked, FlagsTracked
<1>5. QED
  BY <1>2, <1>3, <1>4 DEF ClientInv

LEMMA ReceiveStep ==
    ASSUME ClientInv, Receive
    PROVE  ClientInv'
<1>1. \/ Head(down).is = "ack" /\ ReceiveAck(Head(down))
      \/ Head(down).is = "cast" /\ ReceiveCast(Head(down))
      \/ Head(down).is = "sync" /\ ReceiveSync(Head(down))
  BY DEF Receive
<1>2. QED
  BY <1>1, ReceiveAckStep, ReceiveCastStep, ReceiveSyncStep

LEMMA ClientStutter ==
    ASSUME ClientInv, UNCHANGED clientVars
    PROVE  ClientInv'
<1>1. ClientTypes /\ Truthful /\ Awaited /\ Explained /\ Tracked
  BY DEF ClientInv
<1>2. UNCHANGED <<given, uncovered, flagged, casts, subs, up, mailbox, syncing, down, shown, marks,
                  optimistic, requests, lost, crossed, unhinged>>
  BY DEF clientVars, server, client, notes
<1>3. Guessed' = Guessed /\ GuessedFlags' = GuessedFlags /\ Settled' = Settled
  BY <1>2 DEF Guessed, GuessedFlags, Settled
<1>4. ClientTypes' /\ Truthful' /\ Awaited' /\ Explained'
  BY <1>1, <1>2, <1>3 DEF ClientTypes, Truthful, Awaited, Awaits, Explained
<1>5. Tracked'
  BY <1>1, <1>2, <1>3 DEF Tracked, OpensTracked, FlagsTracked, OpenOnItsWay, FlagOnItsWay,
                          TellsOpen, TellsFlag, In
<1>6. QED
  BY <1>4, <1>5 DEF ClientInv

LEMMA ClientStep ==
    ASSUME ClientInv, [ClientNext]_clientVars
    PROVE  ClientInv'
<1>1. CASE Execute
  BY <1>1, ExecuteStep
<1>2. CASE Other
  BY <1>2, OtherStep
<1>3. CASE Read
  BY <1>3, ReadStep
<1>4. CASE SendRegion
  BY <1>4, SendRegionStep
<1>5. CASE \E m \in casts : Broadcast(m)
  BY <1>5, BroadcastStep
<1>6. CASE View
  BY <1>6, ViewStep
<1>7. CASE Receive
  BY <1>7, ReceiveStep
<1>8. CASE SeedResponse
  BY <1>8, SeedResponseStep
<1>9. CASE Reconnect
  BY <1>9, ReconnectStep
<1>10. CASE \E kind \in given.kinds, c \in Cell : Click(kind, c)
  BY <1>10, ClickStep
<1>11. CASE UNCHANGED clientVars
  BY <1>11, ClientStutter
<1>12. QED
  BY <1>1, <1>2, <1>3, <1>4, <1>5, <1>6, <1>7, <1>8, <1>9, <1>10, <1>11 DEF ClientNext

\* Whatever order clicks, answers, broadcasts and syncs come in, every resolved
\* cell of a subscribed chunk is on the client's board for good or on its way
\* there, and what he shows is so or is the guess of a click to be answered
\* (useGameState.js:1627-1830, websocket.go:116-963).
THEOREM ClientInvariant == ClientSpec => []ClientInv
<1>1. ClientInit => ClientInv
  BY ClientStart
<1>2. ClientInv /\ [ClientNext]_clientVars => ClientInv'
  BY ClientStep
<1>3. QED
  BY <1>1, <1>2, PTL DEF ClientSpec

\* When everything has arrived, no resolved cell and no flag of a subscribed
\* chunk is missing on the client's board (useGameState.js:1627-1830), but
\* after a full queue and where a sync crossed a click.
THEOREM NothingMissingHolds == ClientSpec => []NothingMissing
<1>1. ASSUME ClientInv, Quiet, ~ lost, NEW ch \in subs \ crossed
      PROVE  In(ch, Settled) \subseteq shown /\ In(ch, flagged) \subseteq marks
  <2>1. OpensTracked /\ FlagsTracked
    BY <1>1 DEF ClientInv, Tracked
  <2>2. casts = {} /\ syncing = {} /\ ToSet(down) = {}
    BY <1>1, EmptyHasNone DEF Quiet
  <2>3. \A c \in In(ch, Settled) : c \in shown
    BY <2>1, <2>2 DEF OpensTracked, OpenOnItsWay
  <2>4. \A c \in In(ch, flagged) : c \in marks
    BY <2>1, <2>2 DEF FlagsTracked, FlagOnItsWay
  <2>5. QED
    BY <2>3, <2>4
<1>2. ClientInv => NothingMissing
  BY <1>1 DEF NothingMissing
<1>3. QED
  BY <1>2, ClientInvariant, PTL

\* When everything has arrived, the client shows nothing that is not so on the
\* server: every guess that was refused has been undone
\* (useGameState.js:1638-1670), but after a broadcast made it forget one.
THEOREM NothingInventedHolds == ClientSpec => []NothingInvented
<1>1. ASSUME ClientInv, Quiet, ~ lost, ~ unhinged
      PROVE  shown \subseteq Settled /\ marks \subseteq flagged
  <2>1. ToSet(up) = {} /\ ToSet(mailbox) = {} /\ ToSet(down) = {}
    BY <1>1, EmptyHasNone DEF Quiet
  <2>2. DOMAIN optimistic = {}
    BY <1>1, <2>1 DEF ClientInv, Awaited, Awaits
  <2>3. Guessed = {} /\ GuessedFlags = {}
    BY <2>2 DEF Guessed, GuessedFlags
  <2>4. QED
    BY <1>1, <2>3 DEF ClientInv, Explained
<1>2. ClientInv => NothingInvented
  BY <1>1 DEF NothingInvented
<1>3. QED
  BY <1>2, ClientInvariant, PTL
=============================================================================

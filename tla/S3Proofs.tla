------------------------------ MODULE S3Proofs ------------------------------
(***************************************************************************)
(* Persistence in S3 keeps the promise of DurableStore, and a stop by      *)
(* signal loses no cell; persistence on a local disk always has a snapshot *)
(* that can be read, and a power loss takes nothing that was reported as   *)
(* stored: for every set of cells, every number of plays, kills and        *)
(* failures.                                                               *)
(***************************************************************************)
EXTENDS S3Persistence, DiskPersistence, Induction

-----------------------------------------------------------------------------
(* What is stored, and what a boot makes of it. *)

\* The log has two kinds of entries.
RevealEntry == [seq : Nat, reveal : Cells]
ScoreEntry == [seq : Nat, score : Nat]
Entry == RevealEntry \cup ScoreEntry

Reveals(E) == {e.reveal : e \in E \cap RevealEntry}

\* The entries of the objects keys.
Within(segs, keys) == UNION {Range(segs[k]) : k \in keys}

\* The key of an object tells the numbers of its entries.  Objects overlap only
\* when they begin with the same entry: one upload failed and was stored all the
\* same, and the next tried again, with more.
Consecutive(s, first) == \A i \in DOMAIN s : s[i].seq = first + i - 1

Runs(segs) ==
    /\ \A k \in DOMAIN segs : /\ k[1] <= k[2] /\ Len(segs[k]) = k[2] - k[1] + 1
                              /\ Consecutive(segs[k], k[1])
    /\ \A k, l \in DOMAIN segs : k[1] = l[1] \/ k[2] < l[1] \/ l[2] < k[1]

\* Entries with the same number are the same, and scores grow with the numbers.
Agree(E) ==
    /\ \A e, f \in E : e.seq = f.seq => e = f
    /\ \A e, f \in E \cap ScoreEntry : e.seq < f.seq => e.score < f.score

\* Every score has been earned on cells that the snapshot or earlier entries hold.
Earlier(E, e) == {f \in E : f.seq < e.seq}
EarnedBy(E, board) ==
    \A e \in E \cap ScoreEntry : e.score <= Cardinality(board \cup Reveals(Earlier(E, e)))

Stored == Within(segments, DOMAIN segments)

\* What flushWAL has taken and what still waits.
Memory == batch["ticker"] \o walBuffer
All == Stored \cup Range(Memory)
First == walSeq + 1 - Len(Memory)
Taken == IF batch["ticker"] = <<>> THEN walSeq ELSE First + Len(batch["ticker"]) - 1

\* w holds the entries E.
Holds(w, E) == Reveals(E) \subseteq w.board /\ \A e \in E \cap ScoreEntry : e.score <= w.score
Earned(w) == w.score <= Cardinality(w.board)

\* The score of a snapshot counts only as long as none is stored after it: a
\* boot may well go back from a newer score to an older one.
Tops(w, v) ==
    v.board \subseteq w.board /\ (Stored \cap ScoreEntry = {} => v.score <= w.score)

-----------------------------------------------------------------------------
(* Replaying entries. *)

LEMMA EntryKinds ==
    ASSUME NEW e \in Entry, NEW w \in Worlds
    PROVE  /\ e \in RevealEntry \/ e \in ScoreEntry
           /\ e \in RevealEntry => /\ e \notin ScoreEntry /\ e.reveal \in Cells /\ e.seq \in Nat
                                   /\ ApplyWALEntry(w, e) = [w EXCEPT !.board = @ \cup {e.reveal}]
           /\ e \in ScoreEntry => /\ e \notin RevealEntry /\ e.score \in Nat /\ e.seq \in Nat
                                  /\ ApplyWALEntry(w, e) = [w EXCEPT !.score = e.score]
           /\ ApplyWALEntry(w, e) \in Worlds
<1>1. ASSUME e \in RevealEntry
      PROVE  e \notin ScoreEntry /\ e.reveal \in Cells /\ e.seq \in Nat /\ "reveal" \in DOMAIN e
  BY <1>1 DEF RevealEntry, ScoreEntry
<1>2. ASSUME e \in ScoreEntry
      PROVE  e \notin RevealEntry /\ e.score \in Nat /\ e.seq \in Nat /\ "reveal" \notin DOMAIN e
  BY <1>2 DEF RevealEntry, ScoreEntry
<1>3. e \in RevealEntry \/ e \in ScoreEntry
  BY DEF Entry
<1>4. ASSUME "reveal" \in DOMAIN e
      PROVE  ApplyWALEntry(w, e) = [w EXCEPT !.board = @ \cup {e.reveal}]
  BY <1>4 DEF ApplyWALEntry
<1>5. ASSUME "reveal" \notin DOMAIN e
      PROVE  ApplyWALEntry(w, e) = [w EXCEPT !.score = e.score]
  BY <1>5 DEF ApplyWALEntry
<1>6. CASE e \in RevealEntry
  <2>1. [w EXCEPT !.board = @ \cup {e.reveal}] \in Worlds
    BY <1>1, <1>6 DEF Worlds
  <2>2. QED
    BY <1>1, <1>4, <1>6, <2>1
<1>7. CASE e \in ScoreEntry
  <2>1. [w EXCEPT !.score = e.score] \in Worlds
    BY <1>2, <1>7 DEF Worlds
  <2>2. QED
    BY <1>2, <1>5, <1>7, <2>1
<1>8. QED
  BY <1>3, <1>6, <1>7

\* A replay, entry by entry.
LEMMA ReplayUnfolds ==
    ASSUME NEW w \in Worlds, NEW s \in Seq(Entry)
    PROVE  \E h \in [0 .. Len(s) -> Worlds] :
              /\ h[0] = w /\ Replay(w, s) = h[Len(s)]
              /\ \A k \in 1 .. Len(s) : h[k] = ApplyWALEntry(h[k - 1], s[k])
<1> DEFINE n == Len(s)
           F == [p \in Worlds \X (1 .. n) |-> ApplyWALEntry(p[1], s[p[2]])]
           Solves(g) ==
               g = [x \in SUBSET DOMAIN s |->
                       IF x = {} THEN w ELSE ApplyWALEntry(g[x \ {Max(x)}], s[Max(x)])]
<1>1. n \in Nat /\ DOMAIN s = 1 .. n /\ \A i \in 1 .. n : s[i] \in Entry
  OBVIOUS
<1>2. F \in [Worlds \X (1 .. n) -> Worlds]
  <2>1. \A p \in Worlds \X (1 .. n) : ApplyWALEntry(p[1], s[p[2]]) \in Worlds
    BY <1>1, EntryKinds
  <2>2. QED
    BY <2>1
<1>3. PICK g \in [SUBSET (1 .. n) -> Worlds] : g = FoldRound(w, n, F, g)
  <2> HIDE DEF n, F
  <2>1. \A m \in Nat : \A f \in [Worlds \X (1 .. m) -> Worlds] :
           \E g \in [SUBSET (1 .. m) -> Worlds] : g = FoldRound(w, m, f, g)
    BY FoldRecursion
  <2>2. QED
    BY <1>1, <1>2, <2>1
<1>4. ASSUME NEW x \in SUBSET (1 .. n), x # {}
      PROVE  F[<<g[x \ {Max(x)}], Max(x)>>] = ApplyWALEntry(g[x \ {Max(x)}], s[Max(x)])
  <2>1. IsFiniteSet(1 .. n)
    BY <1>1, FS_Interval
  <2>2. IsFiniteSet(x) /\ x \in SUBSET Nat
    <3>1. IsFiniteSet(x)
      BY <2>1, FS_Subset
    <3>2. QED
      BY <1>1, <3>1
  <2>3. Max(x) \in 1 .. n
    BY <1>4, <2>2, MaxIn
  <2>4. g[x \ {Max(x)}] \in Worlds
    OBVIOUS
  <2>5. <<g[x \ {Max(x)}], Max(x)>> \in Worlds \X (1 .. n)
    BY <2>3, <2>4
  <2>6. QED
    BY <2>5
<1>5. Solves(g)
  BY <1>1, <1>3, <1>4 DEF FoldRound
<1>6. Replay(w, s) = (CHOOSE f : Solves(f))[DOMAIN s]
  BY Zenon DEF Replay, FoldLeft, MapThenFoldSet
<1> DEFINE f == CHOOSE f : Solves(f)
<1>7. Solves(f)
  <2> HIDE DEF Solves
  <2>1. QED
    BY <1>5
<1>8. Replay(w, s) = f[1 .. n]
  BY <1>1, <1>6
<1> HIDE DEF f
<1>9. \A x \in SUBSET (1 .. n) : f[x] = IF x = {} THEN w ELSE ApplyWALEntry(f[x \ {Max(x)}], s[Max(x)])
  BY <1>1, <1>7
<1> DEFINE h == [k \in 0 .. n |-> f[1 .. k]]
<1>10. h[0] = w
  <2>1. 1 .. 0 = {} /\ 0 \in 0 .. n
    BY <1>1
  <2>2. f[{}] = w
    BY <1>9
  <2>3. QED
    BY <2>1, <2>2
<1>11. \A k \in 1 .. n : h[k] = ApplyWALEntry(h[k - 1], s[k])
  <2> SUFFICES ASSUME NEW k \in 1 .. n  PROVE h[k] = ApplyWALEntry(h[k - 1], s[k])
    OBVIOUS
  <2>1. 1 .. k \in SUBSET (1 .. n) /\ 1 .. k # {} /\ k \in Nat \ {0} /\ k - 1 \in 0 .. n /\ k \in 0 .. n
    BY <1>1
  <2>2. Max(1 .. k) = k /\ (1 .. k) \ {k} = 1 .. k - 1
    BY <2>1, MaxOfPrefix
  <2>3. f[1 .. k] = ApplyWALEntry(f[1 .. k - 1], s[k])
    BY <1>9, <2>1, <2>2
  <2>4. QED
    BY <2>1, <2>3
<1>12. n \in 0 .. n /\ DOMAIN h = 0 .. n
  BY <1>1
<1>13. Replay(w, s) = h[n]
  BY <1>8, <1>12
<1> HIDE DEF h
<1>14. \A k \in 0 .. n : h[k] \in Worlds
  <2> DEFINE C == {m \in Nat : m <= n => h[m] \in Worlds}
  <2>1. 0 \in C
    BY <1>10
  <2>2. ASSUME NEW m \in Nat, m \in C  PROVE m + 1 \in C
    <3>1. SUFFICES ASSUME m + 1 <= n  PROVE h[m + 1] \in Worlds
      OBVIOUS
    <3>2. m + 1 \in 1 .. n /\ (m + 1) - 1 = m /\ m <= n
      BY <1>1, <3>1
    <3>3. h[m] \in Worlds /\ s[m + 1] \in Entry
      BY <1>1, <2>2, <3>2
    <3>4. h[m + 1] = ApplyWALEntry(h[m], s[m + 1])
      BY <1>11, <3>2
    <3>5. QED
      BY <3>3, <3>4, EntryKinds
  <2> HIDE DEF C
  <2>3. Nat \subseteq C
    BY <2>1, <2>2, NumbersByInduction
  <2>4. QED
    BY <1>1, <2>3 DEF C
<1>15. h \in [0 .. n -> Worlds]
  <2>1. h = [k \in 0 .. n |-> h[k]]
    BY DEF h
  <2>2. QED
    BY <1>14, <2>1
<1>16. QED
  BY <1>10, <1>11, <1>13, <1>15

\* p is the place of the last score of s.
LastScore(s, p) == p \in DOMAIN s /\ s[p] \in ScoreEntry /\ \A q \in DOMAIN s : q > p => s[q] \notin ScoreEntry

\* A replay adds all cells, and the last score is what remains.
LEMMA ReplayFacts ==
    ASSUME NEW w \in Worlds, NEW s \in Seq(Entry)
    PROVE  /\ Replay(w, s) \in Worlds
           /\ Replay(w, s).board = w.board \cup Reveals(Range(s))
           /\ \/ Range(s) \cap ScoreEntry = {} /\ Replay(w, s).score = w.score
              \/ \E p : LastScore(s, p) /\ Replay(w, s).score = s[p].score
<1> DEFINE n == Len(s)
<1>1. n \in Nat /\ DOMAIN s = 1 .. n /\ \A i \in 1 .. n : s[i] \in Entry
  OBVIOUS
<1>2. PICK h \in [0 .. n -> Worlds] :
         /\ h[0] = w /\ Replay(w, s) = h[n]
         /\ \A k \in 1 .. n : h[k] = ApplyWALEntry(h[k - 1], s[k])
  BY ReplayUnfolds
<1> HIDE DEF n
<1> DEFINE Upto(k) == {s[i] : i \in 1 .. k}
           Fine(k) == /\ h[k].board = w.board \cup Reveals(Upto(k))
                      /\ \/ (\A i \in 1 .. k : s[i] \notin ScoreEntry) /\ h[k].score = w.score
                         \/ \E p \in 1 .. k : /\ s[p] \in ScoreEntry /\ h[k].score = s[p].score
                                              /\ \A q \in 1 .. k : q > p => s[q] \notin ScoreEntry
           C == {k \in Nat : k <= n => Fine(k)}
<1>3. 0 \in C
  <2>1. 1 .. 0 = {}
    OBVIOUS
  <2>2. Reveals(Upto(0)) = {}
    BY <2>1 DEF Reveals
  <2>3. Fine(0)
    BY <1>2, <2>1, <2>2
  <2> HIDE DEF Fine
  <2>4. QED
    BY <2>3
<1>4. ASSUME NEW k \in Nat, k \in C  PROVE k + 1 \in C
  <2> HIDE DEF Fine
  <2>1. SUFFICES ASSUME k + 1 <= n  PROVE Fine(k + 1)
    OBVIOUS
  <2> USE DEF Fine
  <2> DEFINE e == s[k + 1]
  <2>2. k + 1 \in 1 .. n /\ (k + 1) - 1 = k /\ k <= n /\ k \in 0 .. n
    BY <1>1, <2>1
  <2>3. Fine(k)
    BY <1>4, <2>2
  <2>4. h[k] \in Worlds /\ e \in Entry /\ h[k + 1] = ApplyWALEntry(h[k], e)
    BY <1>1, <1>2, <2>2
  <2>5. 1 .. k + 1 = (1 .. k) \cup {k + 1} /\ \A i \in 1 .. k : i < k + 1 /\ i \in Nat
    OBVIOUS
  <2>6. Upto(k + 1) = Upto(k) \cup {e}
    BY <2>5
  <2> HIDE DEF e, Upto
  <2>7. CASE e \in RevealEntry
    <3>1. h[k + 1].board = h[k].board \cup {e.reveal} /\ h[k + 1].score = h[k].score
          /\ e \notin ScoreEntry
      <4>1. h[k + 1] = [h[k] EXCEPT !.board = @ \cup {e.reveal}] /\ e \notin ScoreEntry
        BY <2>4, <2>7, EntryKinds
      <4>2. QED
        BY <2>4, <4>1 DEF Worlds
    <3>2. Reveals(Upto(k + 1)) = Reveals(Upto(k)) \cup {e.reveal}
      BY <2>6, <2>7 DEF Reveals
    <3>3. CASE (\A i \in 1 .. k : s[i] \notin ScoreEntry) /\ h[k].score = w.score
      BY <2>3, <2>5, <3>1, <3>2, <3>3 DEF e
    <3>4. ASSUME NEW p \in 1 .. k, s[p] \in ScoreEntry, h[k].score = s[p].score,
                 \A q \in 1 .. k : q > p => s[q] \notin ScoreEntry
          PROVE  Fine(k + 1)
      <4>1. p \in 1 .. k + 1 /\ \A q \in 1 .. k + 1 : q > p => s[q] \notin ScoreEntry
        BY <2>5, <3>1, <3>4 DEF e
      <4>2. QED
        BY <2>3, <3>1, <3>2, <3>4, <4>1
    <3>5. QED
      BY <2>3, <3>3, <3>4
  <2>8. CASE e \in ScoreEntry
    <3>1. h[k + 1].board = h[k].board /\ h[k + 1].score = e.score /\ e \notin RevealEntry
      <4>1. h[k + 1] = [h[k] EXCEPT !.score = e.score] /\ e \notin RevealEntry
        BY <2>4, <2>8, EntryKinds
      <4>2. QED
        BY <2>4, <4>1 DEF Worlds
    <3>2. Reveals(Upto(k + 1)) = Reveals(Upto(k))
      BY <2>6, <3>1 DEF Reveals
    <3>3. k + 1 \in 1 .. k + 1 /\ \A q \in 1 .. k + 1 : ~ (q > k + 1)
      OBVIOUS
    <3>4. QED
      BY <2>3, <2>8, <3>1, <3>2, <3>3 DEF e
  <2>9. QED
    BY <2>4, <2>7, <2>8 DEF Entry
<1>5. n \in C
  <2> HIDE DEF C
  <2>1. QED
    BY <1>1, <1>3, <1>4, NumbersByInduction
<1>6. Fine(n) /\ n \in 0 .. n
  BY <1>1, <1>5
<1>7. Upto(n) = Range(s)
  BY <1>1 DEF Range
<1> HIDE DEF Upto
<1>8. Replay(w, s) \in Worlds
  BY <1>2, <1>6
<1>9. CASE (\A i \in 1 .. n : s[i] \notin ScoreEntry) /\ h[n].score = w.score
  <2>1. Range(s) \cap ScoreEntry = {}
    BY <1>1, <1>9 DEF Range
  <2>2. QED
    BY <1>2, <1>6, <1>7, <1>8, <1>9, <2>1
<1>10. ASSUME NEW p \in 1 .. n, s[p] \in ScoreEntry, h[n].score = s[p].score,
              \A q \in 1 .. n : q > p => s[q] \notin ScoreEntry
       PROVE  LastScore(s, p) /\ Replay(w, s).score = s[p].score
  BY <1>1, <1>2, <1>10 DEF LastScore
<1>11. QED
  BY <1>2, <1>6, <1>7, <1>8, <1>9, <1>10

\* The highest number of a sequence of entries.
LEMMA SeqAfterUnfolds ==
    ASSUME NEW s \in Seq(Entry)
    PROVE  \E h \in [0 .. Len(s) -> Nat] :
              /\ SeqAfter(s) = h[Len(s)]
              /\ \A k \in 1 .. Len(s) : h[k] = IF s[k].seq > h[k - 1] THEN s[k].seq ELSE h[k - 1]
<1> DEFINE n == Len(s)
           F == [p \in Nat \X (1 .. n) |-> IF s[p[2]].seq > p[1] THEN s[p[2]].seq ELSE p[1]]
           Solves(g) ==
               g = [x \in SUBSET DOMAIN s |->
                       IF x = {} THEN 0
                       ELSE IF s[Max(x)].seq > g[x \ {Max(x)}] THEN s[Max(x)].seq
                            ELSE g[x \ {Max(x)}]]
<1>1. n \in Nat /\ DOMAIN s = 1 .. n /\ \A i \in 1 .. n : s[i].seq \in Nat
  <2>1. \A i \in 1 .. n : s[i] \in Entry
    OBVIOUS
  <2>2. QED
    BY <2>1 DEF Entry, RevealEntry, ScoreEntry
<1>2. F \in [Nat \X (1 .. n) -> Nat]
  <2> HIDE DEF n
  <2>1. QED
    BY <1>1
<1>3. PICK g \in [SUBSET (1 .. n) -> Nat] : g = FoldRound(0, n, F, g)
  <2> HIDE DEF n, F
  <2>1. \A w \in Nat : \A m \in Nat : \A f \in [Nat \X (1 .. m) -> Nat] :
           \E g \in [SUBSET (1 .. m) -> Nat] : g = FoldRound(w, m, f, g)
    BY FoldRecursion
  <2>2. QED
    BY <1>1, <1>2, <2>1
<1>4. ASSUME NEW x \in SUBSET (1 .. n), x # {}
      PROVE  F[<<g[x \ {Max(x)}], Max(x)>>]
             = IF s[Max(x)].seq > g[x \ {Max(x)}] THEN s[Max(x)].seq ELSE g[x \ {Max(x)}]
  <2>1. IsFiniteSet(1 .. n)
    BY <1>1, FS_Interval
  <2>2. IsFiniteSet(x) /\ x \in SUBSET Nat
    <3>1. IsFiniteSet(x)
      BY <2>1, FS_Subset
    <3>2. QED
      BY <1>1, <3>1
  <2>3. Max(x) \in 1 .. n
    BY <1>4, <2>2, MaxIn
  <2>4. g[x \ {Max(x)}] \in Nat
    OBVIOUS
  <2>5. <<g[x \ {Max(x)}], Max(x)>> \in Nat \X (1 .. n)
    BY <2>3, <2>4
  <2> HIDE DEF n
  <2>6. QED
    BY <2>5
<1>5. Solves(g)
  BY <1>1, <1>3, <1>4 DEF FoldRound
<1>6. SeqAfter(s) = (CHOOSE f : Solves(f))[DOMAIN s]
  BY Zenon DEF SeqAfter, FoldLeft, MapThenFoldSet
<1> DEFINE f == CHOOSE f : Solves(f)
<1>7. Solves(f)
  <2> HIDE DEF Solves
  <2>1. QED
    BY <1>5
<1>8. SeqAfter(s) = f[1 .. n]
  BY <1>1, <1>6
<1> HIDE DEF f
<1>9. \A x \in SUBSET (1 .. n) :
         f[x] = IF x = {} THEN 0
                ELSE IF s[Max(x)].seq > f[x \ {Max(x)}] THEN s[Max(x)].seq ELSE f[x \ {Max(x)}]
  BY <1>1, <1>7
<1> HIDE DEF n, F
<1> DEFINE h == [k \in 0 .. n |-> f[1 .. k]]
<1>10. h[0] = 0
  <2>1. 1 .. 0 = {} /\ 0 \in 0 .. n
    BY <1>1
  <2>2. f[{}] = 0
    BY <1>9
  <2>3. QED
    BY <2>1, <2>2
<1>11. \A k \in 1 .. n : h[k] = IF s[k].seq > h[k - 1] THEN s[k].seq ELSE h[k - 1]
  <2> SUFFICES ASSUME NEW k \in 1 .. n
               PROVE  h[k] = IF s[k].seq > h[k - 1] THEN s[k].seq ELSE h[k - 1]
    OBVIOUS
  <2>1. 1 .. k \in SUBSET (1 .. n) /\ 1 .. k # {} /\ k \in Nat \ {0} /\ k - 1 \in 0 .. n /\ k \in 0 .. n
    BY <1>1
  <2>2. Max(1 .. k) = k /\ (1 .. k) \ {k} = 1 .. k - 1
    BY <2>1, MaxOfPrefix
  <2>3. f[1 .. k] = IF s[k].seq > f[1 .. k - 1] THEN s[k].seq ELSE f[1 .. k - 1]
    BY <1>9, <2>1, <2>2
  <2>4. QED
    BY <2>1, <2>3
<1>12. n \in 0 .. n /\ DOMAIN h = 0 .. n
  BY <1>1
<1>13. SeqAfter(s) = h[n]
  BY <1>8, <1>12
<1> HIDE DEF h
<1>14. \A k \in 0 .. n : h[k] \in Nat
  <2> DEFINE C == {m \in Nat : m <= n => h[m] \in Nat}
  <2>1. 0 \in C
    BY <1>10
  <2>2. ASSUME NEW m \in Nat, m \in C  PROVE m + 1 \in C
    <3>1. SUFFICES ASSUME m + 1 <= n  PROVE h[m + 1] \in Nat
      OBVIOUS
    <3>2. m + 1 \in 1 .. n /\ (m + 1) - 1 = m /\ m <= n
      BY <1>1, <3>1
    <3>3. h[m] \in Nat /\ s[m + 1].seq \in Nat
      BY <1>1, <2>2, <3>2
    <3>4. QED
      BY <1>11, <3>2, <3>3
  <2> HIDE DEF C
  <2>3. Nat \subseteq C
    BY <2>1, <2>2, NumbersByInduction
  <2>4. QED
    BY <1>1, <2>3 DEF C
<1>15. h \in [0 .. n -> Nat]
  <2>1. h = [k \in 0 .. n |-> h[k]]
    BY DEF h
  <2>2. QED
    BY <1>14, <2>1
<1>16. QED
  BY <1>11, <1>13, <1>15 DEF n

LEMMA SeqAfterFacts ==
    ASSUME NEW s \in Seq(Entry)
    PROVE  SeqAfter(s) \in Nat /\ \A e \in Range(s) : e.seq <= SeqAfter(s)
<1> DEFINE n == Len(s)
<1>1. n \in Nat /\ DOMAIN s = 1 .. n /\ \A i \in 1 .. n : s[i].seq \in Nat
  <2>1. \A i \in 1 .. n : s[i] \in Entry
    OBVIOUS
  <2>2. QED
    BY <2>1 DEF Entry, RevealEntry, ScoreEntry
<1>2. PICK h \in [0 .. n -> Nat] :
         /\ SeqAfter(s) = h[n]
         /\ \A k \in 1 .. n : h[k] = IF s[k].seq > h[k - 1] THEN s[k].seq ELSE h[k - 1]
  BY SeqAfterUnfolds
<1> HIDE DEF n
<1> DEFINE C == {k \in Nat : k <= n => \A i \in 1 .. k : s[i].seq <= h[k]}
<1>3. 0 \in C
  OBVIOUS
<1>4. ASSUME NEW k \in Nat, k \in C  PROVE k + 1 \in C
  <2>1. SUFFICES ASSUME k + 1 <= n, NEW i \in 1 .. k + 1  PROVE s[i].seq <= h[k + 1]
    OBVIOUS
  <2>2. k + 1 \in 1 .. n /\ (k + 1) - 1 = k /\ k <= n /\ k \in 0 .. n
    BY <1>1, <2>1
  <2>3. h[k + 1] = IF s[k + 1].seq > h[k] THEN s[k + 1].seq ELSE h[k]
    BY <1>2, <2>2
  <2>4. h[k] \in Nat /\ s[k + 1].seq \in Nat
    BY <1>1, <1>2, <2>2
  <2>5. CASE i = k + 1
    BY <2>3, <2>4, <2>5
  <2>6. CASE i # k + 1
    <3>1. i \in 1 .. k /\ i \in 1 .. n
      BY <1>1, <2>1, <2>2, <2>6
    <3>2. s[i].seq <= h[k] /\ s[i].seq \in Nat
      BY <1>1, <1>4, <2>2, <3>1
    <3>3. QED
      BY <2>3, <2>4, <3>2
  <2>7. QED
    BY <2>5, <2>6
<1>5. n \in C
  <2> HIDE DEF C
  <2>1. QED
    BY <1>1, <1>3, <1>4, NumbersByInduction
<1>6. n \in 0 .. n
  BY <1>1
<1>7. QED
  BY <1>1, <1>2, <1>5, <1>6 DEF Range

-----------------------------------------------------------------------------
(* The keys of the objects in their order. *)

LEMMA KeyOrderFacts ==
    ASSUME NEW j \in Nat \X Nat, NEW k \in Nat \X Nat, NEW l \in Nat \X Nat
    PROVE  /\ ~ KeyOrder(k, k)
           /\ KeyOrder(k, l) => ~ KeyOrder(l, k)
           /\ k # l => KeyOrder(k, l) \/ KeyOrder(l, k)
           /\ KeyOrder(j, k) /\ KeyOrder(k, l) => KeyOrder(j, l)
<1>1. /\ j[1] \in Nat /\ j[2] \in Nat /\ k[1] \in Nat /\ k[2] \in Nat /\ l[1] \in Nat /\ l[2] \in Nat
      /\ k # l => k[1] # l[1] \/ k[2] # l[2]
  OBVIOUS
<1>2. QED
  BY <1>1 DEF KeyOrder

\* Every key has its place.
LEMMA NthFacts ==
    ASSUME NEW D \in SUBSET (Nat \X Nat), IsFiniteSet(D)
    PROVE  /\ Cardinality(D) \in Nat
           /\ \A i \in 1 .. Cardinality(D) : Nth(D, i) \in D
           /\ \A i, j \in 1 .. Cardinality(D) : i < j => KeyOrder(Nth(D, i), Nth(D, j))
           /\ \A k \in D : \E i \in 1 .. Cardinality(D) : Nth(D, i) = k
<1> DEFINE n == Cardinality(D)
           Before(k) == {l \in D : KeyOrder(l, k)}
           r == [k \in D |-> Cardinality(Before(k)) + 1]
<1>1. n \in Nat /\ \A k \in D : k \in Nat \X Nat
  BY FS_CardinalityType
<1>2. ASSUME NEW k \in D  PROVE Cardinality(Before(k)) \in Nat /\ Cardinality(Before(k)) < n
                                /\ IsFiniteSet(Before(k))
  <2>1. Before(k) \in SUBSET (D \ {k})
    BY <1>1, KeyOrderFacts
  <2>2. IsFiniteSet(D \ {k}) /\ Cardinality(D \ {k}) = n - 1
    BY FS_RemoveElement
  <2> HIDE DEF Before
  <2>3. IsFiniteSet(Before(k)) /\ Cardinality(Before(k)) <= n - 1
    BY <2>1, <2>2, FS_Subset
  <2>4. Cardinality(Before(k)) \in Nat
    BY <2>3, FS_CardinalityType
  <2>5. QED
    BY <1>1, <2>3, <2>4
<1>3. ASSUME NEW k \in D, NEW l \in D, KeyOrder(k, l)  PROVE r[k] < r[l]
  <2>1. \A j \in D : KeyOrder(j, k) => KeyOrder(j, l)
    BY <1>1, <1>3, KeyOrderFacts
  <2>2. Before(k) \cup {k} \in SUBSET Before(l) /\ k \notin Before(k)
    BY <1>1, <1>3, <2>1, KeyOrderFacts
  <2>3. /\ IsFiniteSet(Before(k)) /\ IsFiniteSet(Before(l))
        /\ Cardinality(Before(k)) \in Nat /\ Cardinality(Before(l)) \in Nat
    BY <1>2
  <2>4. r[k] = Cardinality(Before(k)) + 1 /\ r[l] = Cardinality(Before(l)) + 1
    OBVIOUS
  <2> HIDE DEF Before
  <2>5. Cardinality(Before(k) \cup {k}) = Cardinality(Before(k)) + 1
    BY <2>2, <2>3, FS_AddElement
  <2>6. Cardinality(Before(k) \cup {k}) <= Cardinality(Before(l))
    BY <2>2, <2>3, FS_Subset
  <2> HIDE DEF r
  <2>7. QED
    BY <2>3, <2>4, <2>5, <2>6
<1>4. \A k \in D : r[k] \in 1 .. n /\ r[k] = Cardinality(Before(k)) + 1
  <2> HIDE DEF Before, n
  <2>1. QED
    BY <1>1, <1>2
<1>5. r \in [D -> 1 .. n]
  BY <1>4
<1> HIDE DEF r, n
<1>6. \A k, l \in D : k # l => r[k] # r[l]
  <2> SUFFICES ASSUME NEW k \in D, NEW l \in D, k # l  PROVE r[k] # r[l]
    OBVIOUS
  <2>1. KeyOrder(k, l) \/ KeyOrder(l, k)
    BY <1>1, KeyOrderFacts
  <2>2. r[k] \in Nat /\ r[l] \in Nat
    <3>1. r[k] \in 1 .. n /\ r[l] \in 1 .. n
      BY <1>4
    <3>2. \A x \in 1 .. n : x \in Nat
      BY <1>1
    <3>3. QED
      BY <3>1, <3>2
  <2>3. r[k] < r[l] \/ r[l] < r[k]
    BY <1>3, <2>1
  <2>4. QED
    BY <2>2, <2>3
<1>7. r \in Injection(D, 1 .. n)
  BY <1>5, <1>6 DEF Injection, IsInjective
<1>8. IsFiniteSet(1 .. n) /\ Cardinality(1 .. n) = n
  BY <1>1, FS_Interval
<1>9. r \in Surjection(D, 1 .. n)
  BY <1>7, <1>8, FS_Injection DEF n
<1>10. \A i \in 1 .. n : \E k \in D : r[k] = i
  BY <1>9 DEF Surjection
<1>11. \A i \in 1 .. n : Nth(D, i) \in D /\ r[Nth(D, i)] = i
  <2> SUFFICES ASSUME NEW i \in 1 .. n  PROVE Nth(D, i) \in D /\ r[Nth(D, i)] = i
    OBVIOUS
  <2>1. PICK k \in D : r[k] = i
    BY <1>10
  <2>2. \A l \in D : r[l] = i <=> Cardinality(Before(l)) = i - 1
    <3> SUFFICES ASSUME NEW l \in D  PROVE r[l] = i <=> Cardinality(Before(l)) = i - 1
      OBVIOUS
    <3>1. r[l] = Cardinality(Before(l)) + 1 /\ Cardinality(Before(l)) \in Nat /\ i \in Nat
      BY <1>1, <1>2, <1>4
    <3> HIDE DEF Before
    <3>2. QED
      BY <3>1
  <2>3. Nth(D, i) = CHOOSE l \in D : Cardinality(Before(l)) = i - 1
    BY DEF Nth
  <2> HIDE DEF Before
  <2>4. QED
    BY <2>1, <2>2, <2>3
<1>12. \A k \in D : r[k] \in 1 .. n /\ Nth(D, r[k]) = k
  BY <1>4, <1>6, <1>11
<1>13. ASSUME NEW i \in 1 .. n, NEW j \in 1 .. n, i < j  PROVE KeyOrder(Nth(D, i), Nth(D, j))
  <2> DEFINE k == Nth(D, i)
             l == Nth(D, j)
  <2>1. k \in D /\ l \in D /\ r[k] = i /\ r[l] = j
    BY <1>11
  <2> HIDE DEF k, l
  <2>2. i \in Nat /\ j \in Nat
    BY <1>1
  <2>3. k # l /\ ~ (r[l] < r[k])
    BY <1>13, <2>1, <2>2
  <2>4. KeyOrder(k, l) \/ KeyOrder(l, k)
    BY <1>1, <2>1, <2>3, KeyOrderFacts
  <2>5. KeyOrder(k, l)
    BY <1>3, <2>1, <2>3, <2>4
  <2>6. QED
    BY <2>5 DEF k, l
<1>14. QED
  BY <1>1, <1>11, <1>12, <1>13 DEF n

-----------------------------------------------------------------------------
(* The log that the objects make up. *)

Keyed(segs) ==
    /\ DOMAIN segs \subseteq Nat \X Nat /\ IsFiniteSet(DOMAIN segs)
    /\ segs \in [DOMAIN segs -> Seq(Entry)]

LogOf(segs, keys) == FlattenSeq([i \in 1 .. Cardinality(keys) |-> segs[Nth(keys, i)]])

\* The log grows by one object after the other, in the order of the keys.
LEMMA LogUnfolds ==
    ASSUME NEW segs, Keyed(segs), NEW D \in SUBSET DOMAIN segs, D # {}
    PROVE  LET n == Cardinality(D)
           IN  \E g \in [1 .. n -> Seq(Entry)] :
                  /\ n \in Nat \ {0} /\ LogOf(segs, D) = g[n] /\ g[1] = segs[Nth(D, 1)]
                  /\ \A i \in 1 .. n : i # 1 => g[i] = g[i - 1] \o segs[Nth(D, i)]
<1> DEFINE n == Cardinality(D)
           ss == [i \in 1 .. n |-> segs[Nth(D, i)]]
<1>1. IsFiniteSet(D) /\ D \in SUBSET (Nat \X Nat)
  BY FS_Subset DEF Keyed
<1>2. n \in Nat \ {0}
  BY <1>1, FS_CardinalityType, FS_EmptySet
<1>3. \A i \in 1 .. n : Nth(D, i) \in D
  BY <1>1, NthFacts
<1>4. \A k \in D : segs[k] \in Seq(Entry)
  BY DEF Keyed
<1>5. \A i \in 1 .. n : segs[Nth(D, i)] \in Seq(Entry)
  BY <1>3, <1>4
<1> HIDE DEF n
<1>6. ss \in [1 .. n -> Seq(Entry)]
  BY <1>5
<1>7. ss \in Seq(Seq(Entry)) /\ Len(ss) = n
  BY <1>2, <1>6
<1>8. \A i \in 1 .. n : ss[i] = segs[Nth(D, i)]
  OBVIOUS
<1>9. LogOf(segs, D) = FlattenSeq(ss)
  BY DEF LogOf, n
<1> HIDE DEF ss
<1>10. PICK g \in [1 .. Len(ss) -> Seq(Entry)] :
              /\ g[1] = ss[1]
              /\ \A i \in 1 .. Len(ss) : i # 1 => g[i] = g[i - 1] \o ss[i]
              /\ FlattenSeq(ss) = g[Len(ss)]
  <2>1. Len(ss) # 0
    BY <1>2, <1>7
  <2>2. QED
    BY <1>7, <2>1, FlattenFacts
<1>11. g \in [1 .. n -> Seq(Entry)] /\ LogOf(segs, D) = g[n]
  BY <1>7, <1>9, <1>10
<1>12. 1 \in 1 .. n
  BY <1>2
<1>13. g[1] = segs[Nth(D, 1)] /\ \A i \in 1 .. n : i # 1 => g[i] = g[i - 1] \o segs[Nth(D, i)]
  BY <1>7, <1>8, <1>10, <1>12
<1>14. QED
  BY <1>2, <1>11, <1>13 DEF n

\* The score that remains is the largest.
Top(s) == \A p : LastScore(s, p) => \A e \in Range(s) \cap ScoreEntry : e.score <= s[p].score

\* Consecutive entries: the last score is the largest.
LEMMA TopOfRun ==
    ASSUME NEW s \in Seq(Entry), NEW a \in Nat, Consecutive(s, a), NEW E, Agree(E), Range(s) \subseteq E,
           NEW p, LastScore(s, p)
    PROVE  \A e \in E \cap ScoreEntry : (e.seq <= s[p].seq \/ e \in Range(s)) => e.score <= s[p].score
<1> SUFFICES ASSUME NEW e \in E \cap ScoreEntry, e.seq <= s[p].seq \/ e \in Range(s)
             PROVE  e.score <= s[p].score
  OBVIOUS
<1>1. DOMAIN s = 1 .. Len(s) /\ Len(s) \in Nat /\ p \in DOMAIN s /\ s[p] \in ScoreEntry
  BY DEF LastScore
<1>2. s[p] \in E \cap ScoreEntry
  BY <1>1 DEF Range
<1>3. e.seq \in Nat /\ e.score \in Nat /\ s[p].seq \in Nat /\ s[p].score \in Nat
  BY <1>1 DEF ScoreEntry
<1>4. e.seq <= s[p].seq
  <2>1. CASE e \in Range(s)
    <3>1. PICK q \in DOMAIN s : e = s[q]
      BY <2>1 DEF Range
    <3>2. ~ (q > p)
      BY <3>1 DEF LastScore
    <3>3. e.seq = a + q - 1 /\ s[p].seq = a + p - 1
      BY <1>1, <3>1 DEF Consecutive
    <3>4. QED
      BY <1>1, <3>1, <3>2, <3>3
  <2>2. QED
    BY <2>1
<1>5. CASE e.seq = s[p].seq
  BY <1>2, <1>3, <1>5 DEF Agree
<1>6. CASE e.seq < s[p].seq
  <2>1. e.score < s[p].score
    BY <1>2, <1>6 DEF Agree
  <2>2. QED
    BY <1>3, <2>1
<1>7. QED
  BY <1>3, <1>4, <1>5, <1>6

\* An entry of an earlier object has a smaller number than all of a later one,
\* or is in that one, too.
LEMMA EarlierObject ==
    ASSUME NEW segs, Keyed(segs), Runs(segs), Agree(Within(segs, DOMAIN segs)),
           NEW k \in DOMAIN segs, NEW l \in DOMAIN segs, KeyOrder(k, l), NEW e \in Range(segs[k])
    PROVE  (e.seq \in Nat /\ e.seq < l[1]) \/ e \in Range(segs[l])
<1>1. /\ k[1] \in Nat /\ k[2] \in Nat /\ l[1] \in Nat /\ l[2] \in Nat
      /\ segs[k] \in Seq(Entry) /\ segs[l] \in Seq(Entry)
  <2>1. k \in Nat \X Nat /\ l \in Nat \X Nat
    BY DEF Keyed
  <2>2. QED
    BY <2>1 DEF Keyed
<1>2. /\ k[1] <= k[2] /\ Len(segs[k]) = k[2] - k[1] + 1 /\ Consecutive(segs[k], k[1])
      /\ l[1] <= l[2] /\ Len(segs[l]) = l[2] - l[1] + 1 /\ Consecutive(segs[l], l[1])
      /\ k[1] = l[1] \/ k[2] < l[1] \/ l[2] < k[1]
  BY DEF Runs
<1>3. PICK q \in DOMAIN segs[k] : e = segs[k][q]
  BY DEF Range
<1>4. e.seq = k[1] + q - 1
  BY <1>2, <1>3 DEF Consecutive
<1> DEFINE n == Len(segs[k])
           m == Len(segs[l])
<1>9. /\ DOMAIN segs[k] = 1 .. n /\ n \in Nat /\ DOMAIN segs[l] = 1 .. m /\ m \in Nat
      /\ n = k[2] - k[1] + 1 /\ m = l[2] - l[1] + 1
  BY <1>1, <1>2
<1> HIDE DEF n, m
<1>5. CASE k[2] < l[1]
  BY <1>1, <1>2, <1>4, <1>5, <1>9
<1>6. CASE l[2] < k[1]
  BY <1>1, <1>2, <1>6 DEF KeyOrder
<1>7. CASE k[1] = l[1]
  <2>1. k[2] < l[2]
    BY <1>1, <1>7 DEF KeyOrder
  <2>2. q \in DOMAIN segs[l]
    BY <1>1, <1>7, <1>9, <2>1
  <2>3. segs[l][q].seq = e.seq
    BY <1>2, <1>4, <1>7, <2>2 DEF Consecutive
  <2>4. segs[l][q] \in Range(segs[l])
    BY <2>2 DEF Range
  <2>5. e \in Within(segs, DOMAIN segs) /\ segs[l][q] \in Within(segs, DOMAIN segs)
    BY <2>4 DEF Within
  <2>6. e = segs[l][q]
    BY <2>3, <2>5 DEF Agree
  <2>7. QED
    BY <2>4, <2>6
<1>8. QED
  BY <1>2, <1>5, <1>6, <1>7

LEMMA RangeOfConcat ==
    ASSUME NEW S, NEW a \in Seq(S), NEW b \in Seq(S)
    PROVE  Range(a \o b) = Range(a) \cup Range(b)
<1>1. /\ DOMAIN a = 1 .. Len(a) /\ DOMAIN b = 1 .. Len(b) /\ Len(a) \in Nat /\ Len(b) \in Nat
      /\ DOMAIN (a \o b) = 1 .. Len(a) + Len(b)
      /\ \A i \in 1 .. Len(a) : (a \o b)[i] = a[i]
      /\ \A i \in 1 .. Len(b) : (a \o b)[Len(a) + i] = b[i]
  BY ConcatFacts
<1> DEFINE c == a \o b
<1> HIDE DEF c
<1>2. \A i \in 1 .. Len(a) + Len(b) : i \in 1 .. Len(a) \/ (i - Len(a) \in 1 .. Len(b) /\ Len(a) + (i - Len(a)) = i)
  BY <1>1
<1>3. \A i \in 1 .. Len(b) : Len(a) + i \in 1 .. Len(a) + Len(b)
  BY <1>1
<1>4. \A i \in 1 .. Len(a) : i \in 1 .. Len(a) + Len(b)
  BY <1>1
<1>5. Range(c) \subseteq Range(a) \cup Range(b)
  <2> SUFFICES ASSUME NEW i \in DOMAIN c  PROVE c[i] \in Range(a) \cup Range(b)
    BY DEF Range
  <2>1. i \in 1 .. Len(a) + Len(b)
    BY <1>1 DEF c
  <2>2. CASE i \in 1 .. Len(a)
    BY <1>1, <2>2 DEF c, Range
  <2>3. CASE i - Len(a) \in 1 .. Len(b) /\ Len(a) + (i - Len(a)) = i
    <3>1. c[i] = b[i - Len(a)]
      BY <1>1, <2>3 DEF c
    <3>2. QED
      BY <1>1, <2>3, <3>1 DEF Range
  <2>4. QED
    BY <1>2, <2>1, <2>2, <2>3
<1>6. Range(a) \cup Range(b) \subseteq Range(c)
  <2>1. \A i \in 1 .. Len(a) : i \in DOMAIN c /\ c[i] = a[i]
    BY <1>1, <1>4 DEF c
  <2>2. \A i \in 1 .. Len(b) : Len(a) + i \in DOMAIN c /\ c[Len(a) + i] = b[i]
    BY <1>1, <1>3 DEF c
  <2>3. QED
    BY <1>1, <2>1, <2>2 DEF Range
<1>7. QED
  BY <1>5, <1>6 DEF c

LEMMA LogFacts ==
    ASSUME NEW segs, Keyed(segs), NEW D \in SUBSET DOMAIN segs
    PROVE  /\ LogOf(segs, D) \in Seq(Entry)
           /\ Range(LogOf(segs, D)) = Within(segs, D)
           /\ Runs(segs) /\ Agree(Within(segs, DOMAIN segs)) => Top(LogOf(segs, D))
<1>1. CASE D = {}
  <2> DEFINE ss == [i \in 1 .. Cardinality(D) |-> segs[Nth(D, i)]]
  <2>1. Cardinality(D) = 0
    BY <1>1, FS_EmptySet
  <2>2. 1 .. Cardinality(D) = {}
    BY <2>1
  <2>3. ss = <<>>
    <3>1. ss \in [1 .. 0 -> Seq(Entry)]
      BY <2>2
    <3> HIDE DEF ss
    <3>2. ss \in Seq(Seq(Entry)) /\ Len(ss) = 0
      BY <3>1
    <3>3. QED
      BY <3>2
  <2>4. LogOf(segs, D) = <<>>
    BY <2>3 DEF LogOf, FlattenSeq
  <2>5. <<>> \in Seq(Entry) /\ Range(<<>>) = {} /\ Within(segs, D) = {}
    BY <1>1 DEF Range, Within
  <2>6. QED
    BY <2>4, <2>5 DEF Top, LastScore
<1>2. CASE D # {}
  <2> DEFINE n == Cardinality(D)
             key(i) == Nth(D, i)
             Upto(i) == UNION {Range(segs[key(j)]) : j \in 1 .. i}
  <2>1. IsFiniteSet(D) /\ D \in SUBSET (Nat \X Nat)
    BY FS_Subset DEF Keyed
  <2>2. /\ \A i \in 1 .. n : key(i) \in D
        /\ \A i, j \in 1 .. n : i < j => KeyOrder(key(i), key(j))
        /\ \A k \in D : \E i \in 1 .. n : key(i) = k
    BY <2>1, NthFacts
  <2>3. PICK g \in [1 .. n -> Seq(Entry)] :
                  /\ n \in Nat \ {0} /\ LogOf(segs, D) = g[n] /\ g[1] = segs[key(1)]
                  /\ \A i \in 1 .. n : i # 1 => g[i] = g[i - 1] \o segs[key(i)]
    BY <1>2, LogUnfolds
  <2>4. \A i \in 1 .. n : segs[key(i)] \in Seq(Entry) /\ key(i) \in DOMAIN segs
    BY <2>2 DEF Keyed
  <2> HIDE DEF n, key
  <2> DEFINE Good == Runs(segs) /\ Agree(Within(segs, DOMAIN segs))
             Fine(i) == Range(g[i]) = Upto(i) /\ (Good => Top(g[i]))
             C == {i \in Nat : i \in 1 .. n => Fine(i)}
  <2>5. \A i \in 1 .. n : Range(segs[key(i)]) \subseteq Within(segs, DOMAIN segs)
    BY <2>4 DEF Within
  <2>6. \A i \in 1 .. n : Good => /\ key(i)[1] \in Nat /\ Consecutive(segs[key(i)], key(i)[1])
    BY <2>1, <2>2, <2>4 DEF Runs
  <2>7. ASSUME NEW i \in 1 .. n, Good  PROVE Top(segs[key(i)])
    <3> SUFFICES ASSUME NEW p, LastScore(segs[key(i)], p)
                 PROVE  \A e \in Range(segs[key(i)]) \cap ScoreEntry : e.score <= segs[key(i)][p].score
      BY DEF Top
    <3>1. QED
      BY <2>4, <2>5, <2>6, <2>7, TopOfRun
  <2>8. 0 \in C
    OBVIOUS
  <2>9. ASSUME NEW i \in Nat, i \in C  PROVE i + 1 \in C
    <3> HIDE DEF Fine
    <3>1. SUFFICES ASSUME i + 1 \in 1 .. n  PROVE Fine(i + 1)
      OBVIOUS
    <3> DEFINE s == segs[key(i + 1)]
    <3>2. s \in Seq(Entry)
      BY <2>4, <3>1
    <3>3. CASE i = 0
      <4>1. 1 .. 1 = {1}
        OBVIOUS
      <4>2. Upto(1) = Range(segs[key(1)])
        BY <4>1
      <4>3. 1 \in 1 .. n
        BY <2>3
      <4>4. Fine(1)
        BY <2>3, <2>7, <4>2, <4>3 DEF Fine
      <4>5. QED
        BY <3>3, <4>4
    <3>4. CASE i # 0
      <4>1. i \in 1 .. n /\ (i + 1) - 1 = i /\ i + 1 # 1
        BY <2>3, <3>1, <3>4
      <4>2. Range(g[i]) = Upto(i) /\ (Good => Top(g[i])) /\ g[i] \in Seq(Entry)
        BY <2>3, <2>9, <4>1 DEF Fine
      <4>3. g[i + 1] = g[i] \o s
        BY <2>3, <3>1, <4>1
      <4>4. 1 .. i + 1 = (1 .. i) \cup {i + 1}
        OBVIOUS
      <4>5. Upto(i + 1) = Upto(i) \cup Range(s)
        BY <4>4
      <4>6. Range(g[i + 1]) = Upto(i + 1)
        BY <3>2, <4>2, <4>3, <4>5, RangeOfConcat
      <4>7. ASSUME Good, NEW p, LastScore(g[i + 1], p), NEW e \in Range(g[i + 1]) \cap ScoreEntry
            PROVE  e.score <= g[i + 1][p].score
        <5> HIDE DEF s
        <5>0. e \in Range(g[i]) \/ e \in Range(s)
          BY <3>2, <4>2, <4>3, <4>7, RangeOfConcat
        <5> DEFINE a == g[i]
                   c == a \o s
        <5>1. /\ DOMAIN a = 1 .. Len(a) /\ DOMAIN s = 1 .. Len(s) /\ Len(a) \in Nat /\ Len(s) \in Nat
              /\ DOMAIN c = 1 .. Len(a) + Len(s)
              /\ \A x \in 1 .. Len(a) : c[x] = a[x]
              /\ \A x \in 1 .. Len(s) : c[Len(a) + x] = s[x]
          BY <3>2, <4>2, ConcatFacts
        <5>2. LastScore(c, p)
          BY <4>3, <4>7
        <5> HIDE DEF c
        <5>3. CASE p <= Len(a)
          <6>1. p \in DOMAIN a /\ c[p] = a[p]
            BY <5>1, <5>2, <5>3 DEF LastScore
          <6>2. \A x \in 1 .. Len(s) : s[x] \notin ScoreEntry
            <7>1. \A x \in 1 .. Len(s) : Len(a) + x \in DOMAIN c /\ Len(a) + x > p
              BY <5>1, <5>3, <6>1
            <7>2. QED
              BY <5>1, <5>2, <7>1 DEF LastScore
          <6>3. LastScore(a, p)
            <7>1. \A q \in DOMAIN a : q \in DOMAIN c /\ c[q] = a[q]
              BY <5>1
            <7>2. QED
              BY <5>2, <6>1, <7>1 DEF LastScore
          <6>4. e \in Range(a)
            BY <4>7, <5>0, <5>1, <6>2 DEF Range
          <6>5. e.score <= a[p].score
            BY <4>2, <4>7, <6>3, <6>4 DEF Top
          <6>6. QED
            BY <4>3, <6>1, <6>5 DEF c
        <5>4. CASE ~ (p <= Len(a))
          <6> DEFINE q == p - Len(a)
          <6>1. q \in 1 .. Len(s) /\ Len(a) + q = p /\ c[p] = s[q]
            <7>1. p \in 1 .. Len(a) + Len(s)
              BY <5>1, <5>2 DEF LastScore
            <7>2. q \in 1 .. Len(s) /\ Len(a) + q = p
              BY <5>1, <5>4, <7>1
            <7> HIDE DEF q
            <7>3. QED
              BY <5>1, <7>2
          <6> HIDE DEF q
          <6>2. LastScore(s, q)
            <7>1. \A x \in 1 .. Len(s) : x > q => Len(a) + x \in DOMAIN c /\ Len(a) + x > p
              BY <5>1, <6>1
            <7>2. \A x \in DOMAIN s : x > q => s[x] \notin ScoreEntry
              BY <5>1, <5>2, <7>1 DEF LastScore
            <7>3. s[q] \in ScoreEntry
              BY <5>2, <6>1 DEF LastScore
            <7>4. QED
              BY <5>1, <6>1, <7>2, <7>3 DEF LastScore
          <6> DEFINE k == key(i + 1)
          <6>3. k[1] \in Nat /\ Consecutive(s, k[1]) /\ Range(s) \subseteq Within(segs, DOMAIN segs)
            BY <2>5, <2>6, <3>1, <4>7 DEF s
          <6>4. e \in Within(segs, DOMAIN segs) \cap ScoreEntry /\ (e.seq <= s[q].seq \/ e \in Range(s))
            <7>1. CASE e \in Range(s)
              BY <4>7, <6>3, <7>1
            <7>2. CASE e \in Range(g[i])
              <8>1. PICK j \in 1 .. i : e \in Range(segs[key(j)])
                BY <4>2, <7>2
              <8>2. j \in 1 .. n /\ j < i + 1
                BY <2>3, <4>1
              <8>3. KeyOrder(key(j), k)
                BY <2>2, <3>1, <8>2
              <8>4. (e.seq \in Nat /\ e.seq < k[1]) \/ e \in Range(s)
                BY <2>4, <3>1, <4>7, <8>1, <8>2, <8>3, EarlierObject DEF s
              <8>5. s[q].seq = k[1] + q - 1 /\ q \in Nat /\ q >= 1
                BY <5>1, <6>1, <6>3 DEF Consecutive
              <8>6. e.seq \in Nat /\ e.seq < k[1] => e.seq <= s[q].seq
                BY <6>3, <8>5
              <8>7. QED
                BY <2>5, <4>7, <8>1, <8>2, <8>4, <8>6
            <7>3. QED
              BY <5>0, <7>1, <7>2
          <6>5. e.score <= s[q].score
            BY <3>2, <4>7, <6>2, <6>3, <6>4, TopOfRun
          <6>6. QED
            BY <4>3, <6>1, <6>5 DEF c
        <5>5. QED
          BY <5>3, <5>4
      <4>8. Good => Top(g[i + 1])
        BY <4>7 DEF Top
      <4>9. QED
        BY <4>6, <4>8 DEF Fine
    <3>5. QED
      BY <3>3, <3>4
  <2>10. n \in C
    <3> HIDE DEF C
    <3>1. QED
      BY <2>3, <2>8, <2>9, NumbersByInduction
  <2>11. n \in 1 .. n
    BY <2>3
  <2>12. Fine(n) /\ g[n] \in Seq(Entry)
    BY <2>3, <2>10, <2>11
  <2>13. Upto(n) = Within(segs, D)
    BY <2>2 DEF Within
  <2>14. QED
    BY <2>3, <2>12, <2>13
<1>3. QED
  BY <1>1, <1>2

-----------------------------------------------------------------------------
(* What a boot rebuilds. *)

\* r is w with the entries E on top of it.
Outcome(r, w, E) ==
    /\ r \in Worlds
    /\ r.board = w.board \cup Reveals(E)
    /\ E \cap ScoreEntry = {} => r.score = w.score
    /\ E \cap ScoreEntry # {} => \E e \in E \cap ScoreEntry : r.score = e.score

LEMMA ReplayOutcome ==
    ASSUME NEW w \in Worlds, NEW s \in Seq(Entry)
    PROVE  Outcome(Replay(w, s), w, Range(s))
<1>1. ASSUME NEW p, LastScore(s, p), Replay(w, s).score = s[p].score
      PROVE  \E e \in Range(s) \cap ScoreEntry : Replay(w, s).score = e.score
  <2>1. s[p] \in Range(s) \cap ScoreEntry
    BY <1>1 DEF LastScore, Range
  <2>2. QED
    BY <1>1, <2>1
<1>2. /\ Replay(w, s) \in Worlds /\ Replay(w, s).board = w.board \cup Reveals(Range(s))
      /\ \/ Range(s) \cap ScoreEntry = {} /\ Replay(w, s).score = w.score
         \/ \E p : LastScore(s, p) /\ Replay(w, s).score = s[p].score
  BY ReplayFacts
<1>3. QED
  BY <1>1, <1>2 DEF Outcome

LEMMA RebuiltFacts ==
    ASSUME NEW segs, Keyed(segs), NEW D \in SUBSET DOMAIN segs, NEW w \in Worlds
    PROVE  LET r == Replay(w, LogOf(segs, D))
           IN  /\ Outcome(r, w, Within(segs, D))
               /\ Runs(segs) /\ Agree(Within(segs, DOMAIN segs))
                     => \A e \in Within(segs, D) \cap ScoreEntry : e.score <= r.score
<1> DEFINE s == LogOf(segs, D)
           r == Replay(w, s)
<1>1. /\ s \in Seq(Entry) /\ Range(s) = Within(segs, D)
      /\ Runs(segs) /\ Agree(Within(segs, DOMAIN segs)) => Top(s)
  BY LogFacts
<1> HIDE DEF s
<1>2. Outcome(r, w, Within(segs, D))
  BY <1>1, ReplayOutcome
<1>3. ASSUME Top(s), NEW e \in Within(segs, D) \cap ScoreEntry  PROVE e.score <= r.score
  <2>1. e \in Range(s) \cap ScoreEntry
    BY <1>1
  <2>2. PICK p : LastScore(s, p) /\ r.score = s[p].score
    BY <1>1, <2>1, ReplayFacts
  <2>3. QED
    BY <1>3, <2>1, <2>2 DEF Top
<1>4. QED
  BY <1>1, <1>2, <1>3 DEF s

-----------------------------------------------------------------------------
(* Types. *)

Jobs ==
    {Idle} \cup [at : {"listed", "stored"}, listed : SUBSET (Nat \X Nat)]
           \cup [at : {"captured"}, listed : SUBSET (Nat \X Nat), data : Worlds]

\* What the command that holds stateMu has still to append.
Pending ==
    \/ writing = <<>>
    \/ \E n \in Nat : writing = <<[score |-> n]>>
    \/ \E c \in Cells, n \in Nat : writing = Entries(c, n)

InMemoryTyped ==
    /\ given \in Circumstances
    /\ phase \in {"down", "booting", "up", "exited"}
    /\ signal \in {"none", "flush", "save"}
    /\ world \in Worlds /\ kept \in Worlds /\ promised \in Worlds
    /\ walSeq \in Nat /\ walBuffer \in Seq(Entry) /\ batch \in [Flushers -> Seq(Entry)]
    /\ kills \in Nat

InStoreTyped ==
    /\ Keyed(segments)
    /\ snapshot \in Worlds \cup {NoSnapshot}
    /\ saving \in [Savers -> Jobs]
    /\ failures \in Nat

MemoryTyped == InMemoryTyped /\ Pending
Typed == MemoryTyped /\ InStoreTyped

LEMMA TypedAtFirst ==
    ASSUME Init  PROVE Typed
<1>1. EmptyWorld \in Worlds
  BY DEF EmptyWorld, Worlds
<1>2. <<>> \in Seq(Entry)
  OBVIOUS
<1>3. InMemoryTyped /\ Pending
  BY <1>1, <1>2 DEF Init, JournalInit, InMemoryTyped, Pending
<1>4. Keyed(segments)
  <2>1. segments = <<>>
    BY DEF Init
  <2>2. DOMAIN segments = {}
    BY <2>1
  <2>3. segments \in [DOMAIN segments -> Seq(Entry)]
    BY <2>1, <2>2
  <2>4. QED
    BY <2>2, <2>3, FS_EmptySet DEF Keyed
<1>5. InStoreTyped
  BY <1>4 DEF Init, InStoreTyped, Jobs
<1>6. QED
  BY <1>3, <1>5 DEF Typed, MemoryTyped

LEMMA WorldTypes ==
    /\ EmptyWorld \in Worlds
    /\ \A w \in Worlds : w.board \in SUBSET Cells /\ w.score \in Nat
    /\ Typed => SnapshotWorld \in Worlds
    /\ Typed => given.may \subseteq {"periodic", "stop", "misread", "skip"}
                /\ given.plays \in Nat /\ given.kills \in Nat /\ given.failures \in Nat
<1>1. EmptyWorld \in Worlds
  BY DEF EmptyWorld, Worlds
<1>2. \A w \in Worlds : w.board \in SUBSET Cells /\ w.score \in Nat
  BY DEF Worlds
<1>3. ASSUME Typed  PROVE SnapshotWorld \in Worlds
  BY <1>1, <1>3 DEF Typed, InStoreTyped, SnapshotWorld
<1>4. ASSUME Typed
      PROVE  given.may \subseteq {"periodic", "stop", "misread", "skip"}
             /\ given.plays \in Nat /\ given.kills \in Nat /\ given.failures \in Nat
  <2>1. given \in [may : SUBSET {"periodic", "stop", "misread", "skip"},
                   plays : Nat, kills : Nat, failures : Nat]
    BY <1>4, JournalAssumption DEF Typed, MemoryTyped, InMemoryTyped
  <2>2. QED
    BY <2>1
<1>5. QED
  BY <1>1, <1>2, <1>3, <1>4

\* What flushWAL has replayed is a world.
LEMMA FlushedTyped ==
    ASSUME MemoryTyped, NEW f \in Flushers, Flushed(f)
    PROVE  InMemoryTyped' /\ Pending'
<1> DEFINE stored == Replay(EmptyWorld, batch[f])
<1>1. stored \in Worlds /\ kept \in Worlds
  <2>1. batch[f] \in Seq(Entry) /\ EmptyWorld \in Worlds /\ kept \in Worlds
    BY WorldTypes DEF MemoryTyped, InMemoryTyped
  <2>2. QED
    BY <2>1, ReplayFacts
<1>2. kept' = [board |-> kept.board \cup stored.board,
               score |-> IF stored.score > kept.score THEN stored.score ELSE kept.score]
  BY DEF Flushed
<1> HIDE DEF stored
<1>3. kept' \in Worlds
  BY <1>1, <1>2 DEF Worlds
<1>4. <<>> \in Seq(Entry)
  OBVIOUS
<1>5. batch' \in [Flushers -> Seq(Entry)]
  BY <1>4 DEF Flushed, MemoryTyped, InMemoryTyped
<1>6. QED
  BY <1>3, <1>5 DEF Flushed, MemoryTyped, InMemoryTyped, Pending

LEMMA RequeueTyped ==
    ASSUME MemoryTyped, NEW f \in Flushers, Requeue(f)
    PROVE  InMemoryTyped' /\ Pending'
<1>1. batch[f] \in Seq(Entry) /\ walBuffer \in Seq(Entry) /\ <<>> \in Seq(Entry)
  BY DEF MemoryTyped, InMemoryTyped
<1>2. walBuffer' \in Seq(Entry)
  BY <1>1, ConcatFacts DEF Requeue
<1>3. batch' \in [Flushers -> Seq(Entry)]
  BY <1>1 DEF Requeue, MemoryTyped, InMemoryTyped
<1>4. QED
  BY <1>2, <1>3 DEF Requeue, MemoryTyped, InMemoryTyped, Pending

\* The key of a batch.
LEMMA UploadTyped ==
    ASSUME Typed, NEW f \in Flushers, batch[f] # <<>>, Upload(f)
    PROVE  /\ Keyed(segments')
           /\ SegmentKey(f) \in Nat \X Nat
           /\ DOMAIN segments' = DOMAIN segments \cup {SegmentKey(f)}
           /\ segments'[SegmentKey(f)] = batch[f]
           /\ \A k \in DOMAIN segments : k # SegmentKey(f) => segments'[k] = segments[k]
<1> DEFINE b == batch[f]
           K == SegmentKey(f)
           n == Len(b)
<1>1. b \in Seq(Entry)
  BY DEF Typed, MemoryTyped, InMemoryTyped
<1>2. n \in Nat \ {0} /\ DOMAIN b = 1 .. n
  BY <1>1
<1>3. b[1] \in Entry /\ b[n] \in Entry
  BY <1>1, <1>2
<1>4. b[1].seq \in Nat /\ b[n].seq \in Nat
  BY <1>3 DEF Entry, RevealEntry, ScoreEntry
<1>5. K = <<b[1].seq, b[n].seq>>
  BY DEF SegmentKey, Last
<1>6. K \in Nat \X Nat
  BY <1>4, <1>5
<1>7. segments' = [k \in DOMAIN segments \cup {K} |-> IF k = K THEN b ELSE segments[k]]
  BY DEF Upload
<1>8. Keyed(segments)
  BY DEF Typed, InStoreTyped
<1> HIDE DEF b, K, n
<1>9. DOMAIN segments' = DOMAIN segments \cup {K} /\ segments'[K] = b
      /\ \A k \in DOMAIN segments : k # K => segments'[k] = segments[k]
  BY <1>7
<1>10. IsFiniteSet(DOMAIN segments \cup {K})
  BY <1>8, FS_AddElement DEF Keyed
<1>11. segments' \in [DOMAIN segments' -> Seq(Entry)]
  BY <1>1, <1>7, <1>8 DEF Keyed
<1>12. Keyed(segments')
  BY <1>6, <1>8, <1>9, <1>10, <1>11 DEF Keyed
<1>13. QED
  BY <1>6, <1>9, <1>12 DEF K, b

\* A process that goes down leaves nothing in memory.
LEMMA LoseMemoryTyped ==
    ASSUME MemoryTyped, LoseMemory
    PROVE  /\ world' \in Worlds /\ kept' \in Worlds /\ promised' \in Worlds /\ given' \in Circumstances
           /\ walSeq' \in Nat /\ walBuffer' \in Seq(Entry) /\ batch' \in [Flushers -> Seq(Entry)]
           /\ Pending'
<1>1. EmptyWorld \in Worlds /\ <<>> \in Seq(Entry)
  BY WorldTypes
<1>2. QED
  BY <1>1 DEF LoseMemory, MemoryTyped, InMemoryTyped, Pending

\* A save that is over leaves nothing to be typed but the process.
LEMMA SaveReturnsTyped ==
    ASSUME Typed, NEW s \in Savers, SaveReturns(s)
    PROVE  InMemoryTyped' /\ Pending' /\ saving' \in [Savers -> Jobs]
<1>1. saving' \in [Savers -> Jobs]
  BY DEF SaveReturns, Typed, InStoreTyped, Jobs
<1>2. CASE s = "loop"
  BY <1>1, <1>2 DEF SaveReturns, Typed, MemoryTyped, InMemoryTyped, Pending, journal, volatile
<1>3. CASE s = "boot"
  BY <1>1, <1>3 DEF SaveReturns, Typed, MemoryTyped, InMemoryTyped, Pending, volatile
<1>4. CASE s = "signal"
  <2>1. Exit
    BY <1>4 DEF SaveReturns
  <2>2. QED
    BY <1>1, <2>1, LoseMemoryTyped DEF Exit, Typed, MemoryTyped, InMemoryTyped
<1>5. QED
  BY <1>2, <1>3, <1>4 DEF Savers

LEMMA StartTyped ==
    ASSUME Typed, NEW keys \in SUBSET DOMAIN segments, NEW whole \in BOOLEAN, Start(keys, whole)
    PROVE  Typed'
<1>1. Keyed(segments) /\ SnapshotWorld \in Worlds
  BY WorldTypes DEF Typed, InStoreTyped
<1>2. Logged(keys) = LogOf(segments, keys)
  BY DEF Logged, LogOf
<1>3. Logged(keys) \in Seq(Entry)
  BY <1>1, <1>2, LogFacts
<1>4. Rebuilt(keys) \in Worlds
  BY <1>1, <1>3, ReplayFacts DEF Rebuilt
<1>5. SeqAfter(Logged(keys)) \in Nat
  BY <1>3, SeqAfterFacts
<1>6. QED
  BY <1>4, <1>5 DEF Start, Typed, MemoryTyped, InMemoryTyped, Pending, InStoreTyped

LEMMA WriteTyped ==
    ASSUME MemoryTyped, WriteWALEntry
    PROVE  InMemoryTyped' /\ Pending'
<1> DEFINE e == Head(writing)
           logged == IF "reveal" \in DOMAIN e THEN [seq |-> walSeq + 1, reveal |-> e.reveal]
                                              ELSE [seq |-> walSeq + 1, score |-> e.score]
<1>1. walSeq + 1 \in Nat /\ walBuffer \in Seq(Entry)
  BY DEF MemoryTyped, InMemoryTyped
<1>2. writing # <<>> /\ Pending /\ walBuffer' = Append(walBuffer, logged) /\ walSeq' = walSeq + 1
      /\ writing' = Tail(writing)
  BY DEF WriteWALEntry, MemoryTyped
<1> HIDE DEF e, logged
<1>3. logged \in Entry /\ Pending'
  <2>1. CASE \E n \in Nat : writing = <<[score |-> n]>>
    <3>1. PICK n \in Nat : writing = <<[score |-> n]>>
      BY <2>1
    <3>2. e = [score |-> n] /\ Tail(writing) = <<>>
      BY <3>1 DEF e
    <3>3. logged = [seq |-> walSeq + 1, score |-> n]
      BY <3>2 DEF logged
    <3>4. logged \in Entry
      BY <1>1, <3>3 DEF Entry, ScoreEntry
    <3>5. QED
      BY <1>2, <3>2, <3>4 DEF Pending
  <2>2. CASE \E c \in Cells, n \in Nat : writing = Entries(c, n)
    <3>1. PICK c \in Cells, n \in Nat : writing = Entries(c, n)
      BY <2>2
    <3>2. e = [reveal |-> c] /\ Tail(writing) = <<[score |-> n]>>
      BY <3>1 DEF e, Entries
    <3>3. logged = [seq |-> walSeq + 1, reveal |-> c]
      BY <3>2 DEF logged
    <3>4. logged \in Entry
      BY <1>1, <3>3 DEF Entry, RevealEntry
    <3>5. QED
      BY <1>2, <3>2, <3>4 DEF Pending
  <2>3. QED
    BY <1>2, <2>1, <2>2 DEF Pending
<1>4. walBuffer' \in Seq(Entry)
  BY <1>1, <1>2, <1>3, AppendFacts
<1>5. InMemoryTyped'
  BY <1>1, <1>2, <1>4 DEF WriteWALEntry, MemoryTyped, InMemoryTyped
<1>6. QED
  BY <1>3, <1>5

LEMMA PlayTyped ==
    ASSUME MemoryTyped, NEW c \in Cells, Command(c)
    PROVE  MemoryTyped'
<1>1. world' = [board |-> world.board \cup {c}, score |-> world.score + 1]
      /\ world.board \in SUBSET Cells /\ world.score \in Nat
  BY WorldTypes DEF Command, MemoryTyped, InMemoryTyped
<1>2. world' \in Worlds
  BY <1>1 DEF Worlds
<1>3. InMemoryTyped'
  BY <1>2 DEF Command, MemoryTyped, InMemoryTyped
<1>4. writing' = Entries(c, world.score + 1) /\ world.score + 1 \in Nat
  BY <1>1 DEF Command
<1>5. Pending'
  BY <1>4 DEF Pending, Entries
<1>6. QED
  BY <1>3, <1>5 DEF MemoryTyped

LEMMA TakeTyped ==
    ASSUME MemoryTyped, NEW f \in Flushers, TakeBuffer(f)
    PROVE  MemoryTyped'
<1>1. <<>> \in Seq(Entry)
  OBVIOUS
<1>2. QED
  BY <1>1 DEF TakeBuffer, MemoryTyped, InMemoryTyped, Pending

LEMMA TypedPreserved ==
    ASSUME Typed, [Next]_vars  PROVE Typed'
<1>1. ASSUME UNCHANGED <<segments, snapshot, saving, failures>>  PROVE InStoreTyped'
  BY <1>1 DEF Typed, MemoryTyped, InStoreTyped, Keyed
<1>2. ASSUME NEW c \in Cells, InMemory(Command(c))  PROVE Typed'
  BY <1>1, <1>2, PlayTyped DEF InMemory, Typed
<1>3. ASSUME InMemory(WriteWALEntry)  PROVE Typed'
  BY <1>1, <1>3, WriteTyped DEF InMemory, Typed, MemoryTyped
<1>4. ASSUME NEW f \in Flushers, InMemory(TakeBuffer(f))  PROVE Typed'
  BY <1>1, <1>4, TakeTyped DEF InMemory, Typed
<1>5. ASSUME NEW f \in Flushers, PutSegment(f)  PROVE Typed'
  <2>1. Keyed(segments')
    BY <1>5, UploadTyped DEF PutSegment
  <2>2. InMemoryTyped' /\ Pending'
    BY <1>5, FlushedTyped DEF PutSegment, Typed
  <2>3. QED
    BY <1>5, <2>1, <2>2 DEF PutSegment, Typed, MemoryTyped, InStoreTyped
<1>6. ASSUME NEW f \in Flushers, PutSegmentFails(f)  PROVE Typed'
  <2>1. Keyed(segments')
    BY <1>6, UploadTyped DEF PutSegmentFails, Typed, MemoryTyped, InStoreTyped
  <2>2. InMemoryTyped' /\ Pending'
    BY <1>6, RequeueTyped DEF PutSegmentFails, Typed
  <2>3. QED
    BY <1>6, <2>1, <2>2 DEF PutSegmentFails, Typed, MemoryTyped, InStoreTyped
<1>7. ASSUME NEW s \in Savers, ListSegments(s) \/ Capture(s) \/ PutSnapshot(s)  PROVE Typed'
  <2>1. UNCHANGED journal
    BY <1>7 DEF ListSegments, Capture, PutSnapshot
  <2>2. InMemoryTyped' /\ Pending'
    BY <2>1 DEF journal, volatile, Typed, MemoryTyped, InMemoryTyped, Pending
  <2>3. saving[s] \in Jobs /\ world \in Worlds /\ DOMAIN segments \in SUBSET (Nat \X Nat)
        /\ {} \in SUBSET (Nat \X Nat)
    BY DEF Typed, MemoryTyped, InMemoryTyped, InStoreTyped, Keyed
  <2>4. CASE ListSegments(s)
    <3>1. PICK listed \in {DOMAIN segments, {}} :
             saving' = [saving EXCEPT ![s] = [at |-> "listed", listed |-> listed]]
      BY <2>4 DEF ListSegments
    <3>2. [at |-> "listed", listed |-> listed] \in Jobs
      BY <2>3, <3>1 DEF Jobs
    <3>3. saving' \in [Savers -> Jobs]
      BY <3>1, <3>2 DEF Typed, MemoryTyped, InStoreTyped
    <3>4. QED
      BY <2>2, <2>4, <3>3 DEF ListSegments, Typed, MemoryTyped, InStoreTyped
  <2>5. CASE Capture(s)
    <3>1. saving[s].listed \in SUBSET (Nat \X Nat)
      BY <2>3, <2>5 DEF Capture, Jobs, Idle
    <3>2. [at |-> "captured", listed |-> saving[s].listed, data |-> world] \in Jobs
      BY <2>3, <3>1 DEF Jobs
    <3>3. saving' \in [Savers -> Jobs]
      BY <2>5, <3>2 DEF Capture, Typed, MemoryTyped, InStoreTyped
    <3>4. QED
      BY <2>2, <2>5, <3>3 DEF Capture, Typed, MemoryTyped, InStoreTyped
  <2>6. CASE PutSnapshot(s)
    <3>1. saving[s].listed \in SUBSET (Nat \X Nat) /\ saving[s].data \in Worlds
      BY <2>3, <2>6 DEF PutSnapshot, Jobs, Idle
    <3>2. [at |-> "stored", listed |-> saving[s].listed] \in Jobs
      BY <3>1 DEF Jobs
    <3>3. saving' \in [Savers -> Jobs]
      BY <2>6, <3>2 DEF PutSnapshot, Deletable, Typed, MemoryTyped, InStoreTyped
    <3>4. QED
      BY <2>2, <2>6, <3>1, <3>3 DEF PutSnapshot, Typed, MemoryTyped, InStoreTyped
  <2>7. QED
    BY <1>7, <2>4, <2>5, <2>6
<1>8. ASSUME NEW s \in Savers, PutSnapshotFails(s)  PROVE Typed'
  <2>1. InMemoryTyped' /\ Pending' /\ saving' \in [Savers -> Jobs]
    BY <1>8, SaveReturnsTyped DEF PutSnapshotFails
  <2>2. saving[s].data \in Worlds
    BY <1>8 DEF PutSnapshotFails, Typed, MemoryTyped, InStoreTyped, Jobs, Idle
  <2>3. QED
    BY <1>8, <2>1, <2>2 DEF PutSnapshotFails, Typed, MemoryTyped, InStoreTyped
<1>9. ASSUME NEW s \in Savers, DeleteSegments(s)  PROVE Typed'
  <2>1. InMemoryTyped' /\ Pending' /\ saving' \in [Savers -> Jobs]
    BY <1>9, SaveReturnsTyped DEF DeleteSegments
  <2>2. PICK deleted \in SUBSET saving[s].listed :
           segments' = [k \in DOMAIN segments \ deleted |-> segments[k]]
    BY <1>9 DEF DeleteSegments
  <2>3. IsFiniteSet(DOMAIN segments \ deleted)
    BY FS_Difference DEF Typed, MemoryTyped, InStoreTyped, Keyed
  <2>4. Keyed(segments')
    BY <2>2, <2>3 DEF Typed, MemoryTyped, InStoreTyped, Keyed
  <2>5. QED
    BY <1>9, <2>1, <2>4 DEF DeleteSegments, Typed, MemoryTyped, InStoreTyped
<1>10. ASSUME InMemory(Signal) \/ InMemory(SignalFlushed)  PROVE Typed'
  <2>1. InMemoryTyped' /\ Pending'
    BY <1>10 DEF InMemory, Signal, SignalFlushed, volatile, Typed, MemoryTyped, InMemoryTyped, Pending
  <2>2. QED
    BY <1>1, <1>10, <2>1 DEF InMemory, Typed, MemoryTyped
<1>11. ASSUME Die  PROVE Typed'
  <2>1. /\ world' \in Worlds /\ kept' \in Worlds /\ promised' \in Worlds /\ given' \in Circumstances
        /\ walSeq' \in Nat /\ walBuffer' \in Seq(Entry) /\ batch' \in [Flushers -> Seq(Entry)]
        /\ Pending'
    BY <1>11, LoseMemoryTyped DEF Die, Kill, Typed
  <2>2. phase' = "down" /\ signal' = "none" /\ kills' \in Nat
    BY <1>11 DEF Die, Kill, Typed, MemoryTyped, InMemoryTyped
  <2>3. InStoreTyped'
    BY <1>11 DEF Die, Typed, MemoryTyped, InStoreTyped, Jobs
  <2>4. QED
    BY <2>1, <2>2, <2>3 DEF Typed, MemoryTyped, InMemoryTyped
<1>12. ASSUME Boot  PROVE Typed'
  BY <1>12, StartTyped DEF Boot
<1>13. ASSUME BootWithReadError  PROVE Typed'
  BY <1>13, StartTyped DEF BootWithReadError
<1>14. ASSUME UNCHANGED vars  PROVE Typed'
  BY <1>14 DEF vars, journal, volatile, Typed, MemoryTyped, InMemoryTyped, Pending, InStoreTyped
<1>15. QED
  BY <1>2, <1>3, <1>4, <1>5, <1>6, <1>7, <1>8, <1>9, <1>10, <1>11, <1>12, <1>13, <1>14 DEF Next

-----------------------------------------------------------------------------
(* A stop by signal. *)

\* The snapshot that the signal saves holds the cells that were on the board
\* when it came.  Nothing else saves one while the server is up.
Stopping ==
    given.may = {"stop"} =>
        /\ saving["loop"] = Idle
        /\ saving["boot"] # Idle => phase = "booting"
        /\ saving["signal"] # Idle => signal = "save"
        /\ signal # "none" => phase = "up" /\ promised.board \subseteq world.board
        /\ saving["signal"].at = "captured" => promised.board \subseteq saving["signal"].data.board
        /\ saving["signal"].at = "stored" => promised.board \subseteq SnapshotWorld.board
        /\ phase = "exited" /\ failures = 0 => promised.board \subseteq SnapshotWorld.board

\* A save that returns ends the process, if it is the signal's.
LEMMA StoppingReturns ==
    ASSUME Typed, Stopping, NEW s \in Savers, SaveReturns(s), saving[s] # Idle, given.may = {"stop"},
           s = "signal" /\ failures' = 0 => promised.board \subseteq SnapshotWorld'.board,
           s # "signal" => snapshot' \in {snapshot, saving[s].data}
    PROVE  Stopping'
<1>1. s # "loop"
  BY DEF Stopping
<1>2. saving \in [Savers -> Jobs] /\ Idle.at = "idle"
  BY DEF Typed, InStoreTyped, Idle
<1>3. CASE s = "boot"
  <2>1. phase = "booting" /\ signal = "none" /\ saving["signal"] = Idle /\ saving["loop"] = Idle
    BY <1>3 DEF Stopping
  <2>2. /\ phase' = "up" /\ UNCHANGED <<given, world, promised, signal>>
        /\ saving' = [saving EXCEPT !["boot"] = Idle]
    BY <1>3 DEF SaveReturns, volatile
  <2>3. saving'["loop"] = Idle /\ saving'["boot"] = Idle /\ saving'["signal"] = Idle
    BY <1>2, <2>1, <2>2 DEF Savers
  <2>4. QED
    BY <1>2, <2>1, <2>2, <2>3 DEF Stopping
<1>4. CASE s = "signal"
  <2>1. /\ phase' = "exited" /\ signal' = "none" /\ UNCHANGED <<given, promised>>
        /\ saving' = [t \in Savers |-> Idle]
    BY <1>4 DEF SaveReturns, Exit, LoseMemory
  <2>2. saving'["loop"] = Idle /\ saving'["boot"] = Idle /\ saving'["signal"] = Idle
    BY <2>1 DEF Savers
  <2>3. QED
    BY <1>2, <1>4, <2>1, <2>2 DEF Stopping
<1>5. QED
  BY <1>1, <1>3, <1>4 DEF Savers

LEMMA StoppingPreserved ==
    ASSUME Typed, Stopping, [Next]_vars  PROVE Stopping'
<1> SUFFICES ASSUME given'.may = {"stop"}  PROVE Stopping'
  BY DEF Stopping
<1>1. given' = given
  BY DEF Next, InMemory, Command, WriteWALEntry, TakeBuffer, PutSegment, PutSegmentFails, Flushed, Requeue,
         ListSegments, Capture, PutSnapshot, PutSnapshotFails, DeleteSegments, SaveReturns, Exit, LoseMemory,
         Signal, SignalFlushed, Die, Kill, Boot, BootWithReadError, Start, vars, journal, Savers
<1>2. given.may = {"stop"}
  BY <1>1
<1>3. /\ saving \in [Savers -> Jobs] /\ Idle.at = "idle" /\ failures \in Nat
      /\ world \in Worlds /\ snapshot \in Worlds \cup {NoSnapshot}
  BY DEF Typed, MemoryTyped, InMemoryTyped, InStoreTyped, Idle
<1>4. ASSUME UNCHANGED <<phase, promised, signal, snapshot, saving>>, failures' # 0 \/ failures' = failures,
             world.board \subseteq world'.board
      PROVE  Stopping'
  BY <1>1, <1>2, <1>3, <1>4 DEF Stopping, SnapshotWorld
<1>5. ASSUME NEW c \in Cells, InMemory(Command(c))  PROVE Stopping'
  <2>1. world'.board = world.board \cup {c}
    BY <1>5 DEF InMemory, Command
  <2>2. QED
    BY <1>4, <1>5, <2>1 DEF InMemory, Command
<1>6. ASSUME InMemory(WriteWALEntry)  PROVE Stopping'
  BY <1>4, <1>6 DEF InMemory, WriteWALEntry
<1>7. ASSUME NEW f \in Flushers, InMemory(TakeBuffer(f)) \/ PutSegment(f) \/ PutSegmentFails(f)  PROVE Stopping'
  <2>1. CASE InMemory(TakeBuffer(f))
    BY <1>4, <2>1 DEF InMemory, TakeBuffer
  <2>2. CASE PutSegment(f)
    BY <1>4, <2>2 DEF PutSegment, Flushed
  <2>3. CASE PutSegmentFails(f)
    <3>1. failures' # 0
      BY <1>3, <2>3 DEF PutSegmentFails
    <3>2. QED
      BY <1>4, <2>3, <3>1 DEF PutSegmentFails, Requeue
  <2>4. QED
    BY <1>7, <2>1, <2>2, <2>3
<1>8. ASSUME NEW s \in Savers, ListSegments(s)  PROVE Stopping'
  <2>1. /\ UNCHANGED <<phase, world, signal, promised, snapshot, failures>>
        /\ MaySave(s) /\ saving[s] = Idle
    BY <1>8 DEF ListSegments, journal, volatile
  <2>2. PICK listed \in {DOMAIN segments, {}} :
           saving' = [saving EXCEPT ![s] = [at |-> "listed", listed |-> listed]]
    BY <1>8 DEF ListSegments
  <2>3. s # "loop" /\ (s = "boot" => phase = "booting") /\ (s = "signal" => signal = "save")
    BY <1>2, <2>1 DEF MaySave
  <2>4. saving'[s].at = "listed" /\ \A t \in Savers : t # s => saving'[t] = saving[t]
    BY <1>3, <2>2
  <2>5. QED
    BY <1>1, <1>2, <2>1, <2>3, <2>4 DEF Stopping, Savers, SnapshotWorld
<1>9. ASSUME NEW s \in Savers, Capture(s)  PROVE Stopping'
  <2>1. /\ UNCHANGED <<phase, world, signal, promised, snapshot, failures>>
        /\ saving[s].at = "listed"
        /\ saving' = [saving EXCEPT ![s] = [at |-> "captured", listed |-> @.listed, data |-> world]]
    BY <1>9 DEF Capture, journal, volatile
  <2>2. saving[s] # Idle
    BY <1>3, <2>1
  <2>3. /\ saving'[s].at = "captured" /\ saving'[s].data = world
        /\ \A t \in Savers : t # s => saving'[t] = saving[t]
    BY <1>3, <2>1
  <2>4. QED
    BY <1>1, <1>2, <2>1, <2>2, <2>3 DEF Stopping, Savers, SnapshotWorld
<1>10. ASSUME NEW s \in Savers, PutSnapshot(s)  PROVE Stopping'
  <2>1. /\ UNCHANGED <<phase, world, signal, promised, failures>>
        /\ saving[s].at = "captured" /\ snapshot' = saving[s].data
        /\ saving' = [saving EXCEPT ![s] = [at |-> "stored", listed |-> Deletable(s)]]
    BY <1>10 DEF PutSnapshot, journal, volatile
  <2>2. saving[s] # Idle /\ saving[s].data \in Worlds
    BY <1>3, <2>1 DEF Jobs
  <2>3. saving'[s].at = "stored" /\ \A t \in Savers : t # s => saving'[t] = saving[t]
    BY <1>3, <2>1
  <2>4. SnapshotWorld' = saving[s].data
    BY <2>1, <2>2, SnapshotAssumption DEF SnapshotWorld
  <2>5. CASE s = "signal"
    <3>1. promised.board \subseteq SnapshotWorld'.board /\ phase = "up"
      BY <1>2, <2>1, <2>2, <2>4, <2>5 DEF Stopping
    <3>2. QED
      BY <1>1, <1>2, <2>1, <2>2, <2>3, <2>5, <3>1 DEF Stopping, Savers
  <2>6. CASE s = "boot"
    <3>1. phase = "booting" /\ signal = "none" /\ saving["signal"] = Idle
      BY <1>2, <2>2, <2>6 DEF Stopping
    <3>2. QED
      BY <1>1, <1>2, <1>3, <2>1, <2>3, <2>6, <3>1 DEF Stopping, Savers
  <2>7. QED
    BY <1>2, <2>2, <2>5, <2>6 DEF Stopping, Savers
<1>11. ASSUME NEW s \in Savers, PutSnapshotFails(s)  PROVE Stopping'
  <2>1. failures' # 0 /\ saving[s] # Idle /\ snapshot' \in {snapshot, saving[s].data} /\ SaveReturns(s)
    BY <1>3, <1>11 DEF PutSnapshotFails
  <2>2. QED
    BY <1>2, <2>1, StoppingReturns
<1>12. ASSUME NEW s \in Savers, DeleteSegments(s)  PROVE Stopping'
  <2>1. saving[s].at = "stored" /\ snapshot' = snapshot /\ SaveReturns(s)
    BY <1>12 DEF DeleteSegments
  <2>2. SnapshotWorld' = SnapshotWorld /\ saving[s] # Idle
    BY <1>3, <2>1 DEF SnapshotWorld
  <2>3. s = "signal" => promised.board \subseteq SnapshotWorld'.board
    BY <1>2, <2>1, <2>2 DEF Stopping
  <2>4. QED
    BY <1>2, <2>1, <2>2, <2>3, StoppingReturns
<1>13. ASSUME InMemory(Signal)  PROVE Stopping'
  BY <1>1, <1>2, <1>3, <1>13 DEF InMemory, Signal, volatile, Stopping, SnapshotWorld
<1>14. ASSUME InMemory(SignalFlushed)  PROVE Stopping'
  BY <1>1, <1>2, <1>3, <1>14 DEF InMemory, SignalFlushed, volatile, Stopping, SnapshotWorld
<1>15. ASSUME Die  PROVE Stopping'
  <2>1. phase' = "down" /\ signal' = "none" /\ saving' = [s \in Savers |-> Idle]
    BY <1>15 DEF Die, Kill
  <2>2. saving'["loop"] = Idle /\ saving'["boot"] = Idle /\ saving'["signal"] = Idle
    BY <2>1 DEF Savers
  <2>3. QED
    BY <1>3, <2>1, <2>2 DEF Stopping
<1>16. ASSUME NEW keys, NEW whole, Start(keys, whole)  PROVE Stopping'
  <2>1. /\ phase = "down" /\ phase' \in {"booting", "up"}
        /\ UNCHANGED <<signal, promised, snapshot, saving, failures>>
    BY <1>16 DEF Start
  <2>2. signal = "none" /\ saving["boot"] = Idle /\ saving["loop"] = Idle /\ saving["signal"] = Idle
    BY <1>2, <2>1 DEF Stopping
  <2>3. QED
    BY <1>3, <2>1, <2>2 DEF Stopping
<1>17. ASSUME UNCHANGED vars  PROVE Stopping'
  BY <1>4, <1>17 DEF vars, journal, volatile
<1>18. QED
  BY <1>5, <1>6, <1>7, <1>8, <1>9, <1>10, <1>11, <1>12, <1>13, <1>14, <1>15, <1>16, <1>17
     DEF Next, Boot, BootWithReadError

\* When no periodic snapshot is under way and nothing fails, a stop by signal
\* loses no cell that was on the board when it came (persistOnShutdown).
THEOREM GracefulStopHolds == Spec => []GracefulStopKeepsBoard
<1>1. Init => Typed /\ Stopping
  <2> SUFFICES ASSUME Init  PROVE Typed /\ Stopping
    OBVIOUS
  <2>1. saving["loop"] = Idle /\ saving["boot"] = Idle /\ saving["signal"] = Idle /\ Idle.at = "idle"
    BY DEF Init, Savers, Idle
  <2>2. phase = "down" /\ signal = "none"
    BY DEF Init, JournalInit
  <2>3. QED
    BY <2>1, <2>2, TypedAtFirst DEF Stopping
<1>2. Typed /\ Stopping /\ [Next]_vars => Typed' /\ Stopping'
  BY TypedPreserved, StoppingPreserved
<1>3. Typed /\ Stopping => GracefulStopKeepsBoard
  <2> SUFFICES ASSUME Typed, Stopping, phase = "exited", given.may = {"stop"}, failures = 0
               PROVE  promised.board \subseteq Recovered.board
    BY DEF GracefulStopKeepsBoard
  <2>1. promised.board \subseteq SnapshotWorld.board
    BY DEF Stopping
  <2>2. Keyed(segments) /\ SnapshotWorld \in Worlds
    BY WorldTypes DEF Typed, InStoreTyped
  <2>3. Outcome(Replay(SnapshotWorld, LogOf(segments, DOMAIN segments)), SnapshotWorld,
                Within(segments, DOMAIN segments))
    BY <2>2, RebuiltFacts
  <2>4. Recovered = Replay(SnapshotWorld, LogOf(segments, DOMAIN segments))
    BY DEF Recovered, Rebuilt, Logged, LogOf
  <2>5. QED
    BY <2>1, <2>3, <2>4 DEF Outcome
<1>4. QED
  BY <1>1, <1>2, <1>3, PTL DEF Spec

-----------------------------------------------------------------------------
(* The invariant, as long as faults are ordinary. *)

\* Nobody stops the server, and only one goroutine saves snapshots at a time.
Roles ==
    /\ signal = "none" /\ phase # "exited"
    /\ saving["signal"] = Idle /\ batch["signal"] = <<>>
    /\ phase # "up" => /\ writing = <<>> /\ walBuffer = <<>> /\ batch["ticker"] = <<>>
                       /\ saving["loop"] = Idle
    /\ phase # "booting" => saving["boot"] = Idle
    /\ phase = "booting" => world = Recovered

\* The log: what is stored comes before what waits, or is the start of it.
Before(segs, first, taken) ==
    \A k \in DOMAIN segs : k[2] < first \/ (k[1] = first /\ k[2] <= taken)

Log ==
    /\ Runs(segments) /\ Agree(All) /\ EarnedBy(All, SnapshotWorld.board)
    /\ Earned(SnapshotWorld)
    /\ phase \in {"booting", "up"} => Consecutive(Memory, First) /\ Before(segments, First, Taken)

\* A command appends the cell, then the score, which is larger than all before.
Commands ==
    \/ writing = <<>>
    \/ writing = <<[score |-> world.score]>>
    \/ \E c \in world.board : writing = Entries(c, world.score)

\* The cell that the command has still to log.
Unlogged == IF Len(writing) = 2 THEN {Head(writing).reveal} ELSE {}

Memories ==
    phase = "up" =>
        /\ Earned(world) /\ Tops(world, SnapshotWorld) /\ Holds(world, All)
        /\ Commands
        /\ writing # <<>> => \A e \in All \cap ScoreEntry : e.score < world.score
        /\ world.board \subseteq SnapshotWorld.board \cup Reveals(All) \cup Unlogged

\* What is listed for deletion comes first in the log, and is held by what was
\* captured after it was listed.
Saves ==
    \A s \in {"loop", "boot"} : saving[s] # Idle =>
        LET v == saving[s] IN
        /\ v.listed \subseteq DOMAIN segments
        /\ \A k \in v.listed, l \in DOMAIN segments \ v.listed : KeyOrder(k, l)
        /\ v.at = "captured" =>
              /\ Earned(v.data) /\ Tops(v.data, SnapshotWorld) /\ Covers(world, v.data)
              /\ Holds(v.data, Within(segments, v.listed))
              /\ phase = "booting" => v.data = world
        /\ v.at = "stored" => /\ Holds(SnapshotWorld, Within(segments, v.listed))
                              /\ SnapshotWorld.score <= world.score

\* What has been kept is stored, and no waiting score is smaller.
Keeps ==
    /\ Covers(Recovered, kept)
    /\ \A e \in Range(Memory) \cap ScoreEntry : kept.score <= e.score

OInv == Roles /\ Log /\ Memories /\ Saves /\ Keeps
Orderly == OrdinaryFaults => OInv

-----------------------------------------------------------------------------
(* Lemmas about boards, entries and objects. *)

LEMMA EntryTypes ==
    \A e \in Entry :
        /\ e.seq \in Nat
        /\ e \in RevealEntry => e.reveal \in Cells /\ e \notin ScoreEntry
        /\ e \in ScoreEntry => e.score \in Nat /\ e \notin RevealEntry
<1> TAKE e \in Entry
<1>1. EmptyWorld \in Worlds
  BY WorldTypes
<1>2. QED
  BY <1>1, EntryKinds

LEMMA BoardsGrow ==
    /\ \A E : Reveals(E) \in SUBSET Cells
    /\ \A S, T \in SUBSET Cells :
          S \subseteq T => /\ Cardinality(S) \in Nat /\ Cardinality(T) \in Nat
                           /\ Cardinality(S) <= Cardinality(T)
<1>1. ASSUME NEW E  PROVE Reveals(E) \in SUBSET Cells
  BY DEF Reveals, RevealEntry
<1>2. ASSUME NEW S \in SUBSET Cells, NEW T \in SUBSET Cells, S \subseteq T
      PROVE  /\ Cardinality(S) \in Nat /\ Cardinality(T) \in Nat /\ Cardinality(S) <= Cardinality(T)
  <2>1. IsFiniteSet(T) /\ IsFiniteSet(S)
    BY JournalAssumption, FS_Subset
  <2>2. QED
    BY <1>2, <2>1, FS_Subset, FS_CardinalityType
<1>3. QED
  BY <1>1, <1>2

\* Entries may go when the cells of the earlier ones stay on the board.
LEMMA EarnedByGrows ==
    ASSUME NEW E \in SUBSET Entry, NEW F \in SUBSET E, NEW b \in SUBSET Cells, NEW c \in SUBSET Cells,
           EarnedBy(E, b), b \subseteq c,
           \A e \in F, f \in E \ F : f.seq < e.seq => Reveals({f}) \subseteq c
    PROVE  EarnedBy(F, c)
<1> SUFFICES ASSUME NEW e \in F \cap ScoreEntry
             PROVE  e.score <= Cardinality(c \cup Reveals(Earlier(F, e)))
  BY DEF EarnedBy
<1> DEFINE B == b \cup Reveals(Earlier(E, e))
           C == c \cup Reveals(Earlier(F, e))
<1>1. B \subseteq C
  <2> SUFFICES ASSUME NEW x \in Reveals(Earlier(E, e))  PROVE x \in C
    OBVIOUS
  <2>1. PICK f \in Earlier(E, e) \cap RevealEntry : x = f.reveal
    BY DEF Reveals
  <2>2. CASE f \in F
    BY <2>1, <2>2 DEF Earlier, Reveals
  <2>3. CASE f \notin F
    BY <2>1, <2>3 DEF Earlier, Reveals
  <2>4. QED
    BY <2>2, <2>3
<1>2. B \in SUBSET Cells /\ C \in SUBSET Cells
  BY BoardsGrow
<1>3. e.score <= Cardinality(B)
  BY DEF EarnedBy
<1> HIDE DEF B, C
<1>4. Cardinality(B) \in Nat /\ Cardinality(C) \in Nat /\ Cardinality(B) <= Cardinality(C)
  BY <1>1, <1>2, BoardsGrow
<1>5. e.score \in Nat
  BY EntryTypes
<1>6. QED
  BY <1>3, <1>4, <1>5 DEF C

\* An object holds one entry for each number of its key.
LEMMA ObjectFacts ==
    ASSUME NEW segs, Keyed(segs), Runs(segs), NEW k \in DOMAIN segs
    PROVE  /\ k[1] \in Nat /\ k[2] \in Nat /\ k[1] <= k[2]
           /\ \A e \in Range(segs[k]) : e \in Entry /\ k[1] <= e.seq /\ e.seq <= k[2]
           /\ \A n \in Nat : k[1] <= n /\ n <= k[2] => \E e \in Range(segs[k]) : e.seq = n
           /\ k[2] - k[1] + 1 \in DOMAIN segs[k]
<1> DEFINE s == segs[k]
           a == k[1]
           z == k[2]
           n == Len(s)
<1>1. k \in Nat \X Nat /\ s \in Seq(Entry)
  BY DEF Keyed
<1>2. a \in Nat /\ z \in Nat /\ n \in Nat /\ DOMAIN s = 1 .. n
  BY <1>1
<1>3. a <= z /\ n = z - a + 1 /\ \A i \in DOMAIN s : s[i].seq = a + i - 1
  BY DEF Runs, Consecutive
<1>4. \A i \in DOMAIN s : s[i] \in Entry
  BY <1>1
<1> HIDE DEF s, a, z, n
<1>5. \A i \in 1 .. n : a <= a + i - 1 /\ a + i - 1 <= z
  BY <1>2, <1>3
<1>6. ASSUME NEW e \in Range(s)  PROVE e \in Entry /\ a <= e.seq /\ e.seq <= z
  <2>1. PICK i \in DOMAIN s : e = s[i]
    BY DEF Range
  <2>2. QED
    BY <1>2, <1>3, <1>4, <1>5, <2>1
<1>7. ASSUME NEW m \in Nat, a <= m, m <= z  PROVE \E e \in Range(s) : e.seq = m
  <2>1. m - a + 1 \in 1 .. n /\ a + (m - a + 1) - 1 = m
    BY <1>2, <1>3, <1>7
  <2>2. s[m - a + 1] \in Range(s) /\ s[m - a + 1].seq = m
    BY <1>2, <1>3, <2>1 DEF Range
  <2>3. QED
    BY <2>2
<1>8. z - a + 1 \in DOMAIN s
  BY <1>2, <1>3
<1>9. QED
  BY <1>2, <1>3, <1>6, <1>7, <1>8 DEF s, a, z

LEMMA BatchTypes ==
    ASSUME Typed
    PROVE  /\ batch["ticker"] \in Seq(Entry) /\ walBuffer \in Seq(Entry) /\ Memory \in Seq(Entry)
           /\ walSeq \in Nat /\ Keyed(segments)
           /\ Len(batch["ticker"]) \in Nat /\ Len(walBuffer) \in Nat
           /\ Len(Memory) = Len(batch["ticker"]) + Len(walBuffer)
           /\ Range(Memory) = Range(batch["ticker"]) \cup Range(walBuffer)
           /\ Stored \in SUBSET Entry /\ All \in SUBSET Entry /\ Range(Memory) \in SUBSET Entry
           /\ First \in Int /\ Taken \in Int
           /\ DOMAIN batch["ticker"] = 1 .. Len(batch["ticker"])
           /\ DOMAIN walBuffer = 1 .. Len(walBuffer) /\ DOMAIN Memory = 1 .. Len(Memory)
           /\ \A i \in 1 .. Len(batch["ticker"]) : Memory[i] = batch["ticker"][i]
           /\ \A i \in 1 .. Len(walBuffer) : Memory[Len(batch["ticker"]) + i] = walBuffer[i]
<1>1. batch["ticker"] \in Seq(Entry) /\ walBuffer \in Seq(Entry) /\ walSeq \in Nat /\ Keyed(segments)
  BY DEF Typed, MemoryTyped, InMemoryTyped, InStoreTyped, Flushers
<1> DEFINE a == batch["ticker"]
           b == walBuffer
<1> HIDE DEF a, b
<1>2. Memory = a \o b
  BY DEF Memory, a, b
<1>3. a \in Seq(Entry) /\ b \in Seq(Entry)
  BY <1>1 DEF a, b
<1>4. /\ Memory \in Seq(Entry) /\ Len(Memory) = Len(a) + Len(b)
      /\ \A i \in 1 .. Len(a) : Memory[i] = a[i]
      /\ \A i \in 1 .. Len(b) : Memory[Len(a) + i] = b[i]
  BY <1>2, <1>3, ConcatFacts
<1>5. Range(Memory) = Range(a) \cup Range(b)
  BY <1>2, <1>3, RangeOfConcat
<1>6. /\ Len(a) \in Nat /\ Len(b) \in Nat /\ DOMAIN a = 1 .. Len(a) /\ DOMAIN b = 1 .. Len(b)
      /\ Len(Memory) \in Nat /\ DOMAIN Memory = 1 .. Len(Memory)
  BY <1>3, <1>4
<1>7. Range(Memory) \in SUBSET Entry
  BY <1>4 DEF Range
<1>8. Stored \in SUBSET Entry
  <2>1. \A k \in DOMAIN segments : segments[k] \in Seq(Entry)
    BY <1>1 DEF Keyed
  <2>2. \A k \in DOMAIN segments : Range(segments[k]) \in SUBSET Entry
    BY <2>1 DEF Range
  <2>3. QED
    BY <2>2 DEF Stored, Within
<1>9. First \in Int
  BY <1>1, <1>6 DEF First
<1>10. Taken \in Int
  BY <1>1, <1>6, <1>9 DEF Taken, a
<1>11. QED
  BY <1>1, <1>4, <1>5, <1>6, <1>7, <1>8, <1>9, <1>10 DEF All, a, b

\* The numbers of what waits, and of what is stored.
LEMMA NumberFacts ==
    ASSUME Typed, Log, phase \in {"booting", "up"}
    PROVE  /\ \A e \in Range(Memory) : First <= e.seq /\ e.seq <= walSeq
           /\ First - 1 <= Taken /\ Taken <= walSeq
           /\ \A e \in Stored : e.seq <= Taken
           /\ \A e \in All : e.seq <= walSeq
           /\ batch["ticker"] # <<>> =>
                 /\ First \in Nat /\ Taken = First + Len(batch["ticker"]) - 1 /\ Len(batch["ticker"]) > 0
                 /\ Taken + 1 = walSeq + 1 - Len(walBuffer)
                 /\ Consecutive(batch["ticker"], First)
                 /\ \A e \in Range(batch["ticker"]) : e.seq <= Taken
                 /\ Consecutive(walBuffer, Taken + 1)
                 /\ \A e \in Range(walBuffer) : Taken < e.seq
<1> DEFINE a == batch["ticker"]
           b == walBuffer
           n == Len(a)
           m == Len(b)
<1>1. /\ n \in Nat /\ m \in Nat /\ Len(Memory) = n + m /\ walSeq \in Nat
      /\ DOMAIN a = 1 .. n /\ DOMAIN b = 1 .. m /\ DOMAIN Memory = 1 .. n + m
      /\ \A i \in 1 .. n : Memory[i] = a[i]
      /\ \A i \in 1 .. m : Memory[n + i] = b[i]
      /\ a \in Seq(Entry) /\ Range(Memory) \in SUBSET Entry /\ Keyed(segments)
  BY BatchTypes
<1>2. First = walSeq + 1 - (n + m)
  BY <1>1 DEF First
<1>3. a # <<>> => n # 0
  BY <1>1
<1>4. Taken = IF a = <<>> THEN walSeq ELSE First + n - 1
  BY DEF Taken
<1>5. \A i \in 1 .. n + m : Memory[i].seq = First + i - 1
  BY <1>1 DEF Log, Consecutive
<1>6. Before(segments, First, Taken) /\ Runs(segments)
  BY DEF Log
<1> HIDE DEF a, b, n, m
<1>7. \A e \in Range(Memory) : First <= e.seq /\ e.seq <= walSeq
  <2> SUFFICES ASSUME NEW i \in 1 .. n + m  PROVE First <= Memory[i].seq /\ Memory[i].seq <= walSeq
    BY <1>1 DEF Range
  <2>1. QED
    BY <1>1, <1>2, <1>5
<1>8. First - 1 <= Taken /\ Taken <= walSeq /\ Taken \in Int
  BY <1>1, <1>2, <1>3, <1>4
<1>9. ASSUME NEW e \in Stored  PROVE e.seq <= Taken
  <2>1. PICK k \in DOMAIN segments : e \in Range(segments[k])
    BY DEF Stored, Within
  <2>2. k[2] \in Nat /\ e.seq <= k[2] /\ e \in Entry
    BY <1>1, <1>6, <2>1, ObjectFacts
  <2>3. k[2] <= Taken
    BY <1>1, <1>2, <1>6, <1>8, <2>2 DEF Before
  <2>4. e.seq \in Nat
    BY <2>2, EntryTypes
  <2>5. QED
    BY <1>8, <2>2, <2>3, <2>4
<1>10. \A e \in All : e.seq <= walSeq
  <2> SUFFICES ASSUME NEW e \in Stored  PROVE e.seq <= walSeq
    BY <1>7 DEF All
  <2>1. e \in Entry
    BY BatchTypes
  <2>2. e.seq \in Nat
    BY <2>1, EntryTypes
  <2>3. QED
    BY <1>1, <1>8, <1>9, <2>2
<1>11. ASSUME a # <<>>
       PROVE  /\ First \in Nat /\ Taken = First + n - 1 /\ n > 0
              /\ Taken + 1 = walSeq + 1 - m
              /\ Consecutive(a, First)
              /\ \A e \in Range(a) : e.seq <= Taken
              /\ Consecutive(b, Taken + 1)
              /\ \A e \in Range(b) : Taken < e.seq
  <2>1. n > 0 /\ Taken = First + n - 1 /\ Taken + 1 = walSeq + 1 - m
    BY <1>1, <1>2, <1>3, <1>4, <1>11
  <2>2. 1 \in 1 .. n + m
    BY <1>1, <2>1
  <2>3. Memory[1].seq = First /\ Memory[1] \in Entry
    <3>1. Memory[1] \in Range(Memory)
      BY <1>1, <2>2 DEF Range
    <3>2. Memory[1].seq = First + 1 - 1
      BY <1>5, <2>2
    <3>3. QED
      BY <1>1, <1>2, <3>1, <3>2
  <2>4. First \in Nat
    BY <2>3, EntryTypes
  <2>5. \A i \in 1 .. n : a[i].seq = First + i - 1
    <3>1. \A i \in 1 .. n : i \in 1 .. n + m
      BY <1>1
    <3>2. QED
      BY <1>1, <1>5, <3>1
  <2>6. \A i \in 1 .. m : b[i].seq = Taken + i
    <3>1. \A i \in 1 .. m : n + i \in 1 .. n + m
      BY <1>1
    <3>2. \A i \in 1 .. m : b[i].seq = First + (n + i) - 1
      BY <1>1, <1>5, <3>1
    <3>3. \A i \in 1 .. m : First + (n + i) - 1 = Taken + i
      BY <1>1, <2>1, <2>4
    <3>4. QED
      BY <3>2, <3>3
  <2>7. Consecutive(a, First)
    BY <1>1, <2>5 DEF Consecutive
  <2>8. Consecutive(b, Taken + 1)
    <3>1. \A i \in 1 .. m : Taken + i = (Taken + 1) + i - 1
      BY <1>8
    <3>2. QED
      BY <1>1, <2>6, <3>1 DEF Consecutive
  <2>9. \A e \in Range(a) : e.seq <= Taken
    <3> SUFFICES ASSUME NEW i \in 1 .. n  PROVE a[i].seq <= Taken
      BY <1>1 DEF Range
    <3>1. QED
      BY <1>1, <2>1, <2>4, <2>5
  <2>10. \A e \in Range(b) : Taken < e.seq
    <3> SUFFICES ASSUME NEW i \in 1 .. m  PROVE Taken < b[i].seq
      BY <1>1 DEF Range
    <3>1. QED
      BY <1>1, <1>8, <2>6
  <2>11. QED
    BY <2>1, <2>4, <2>7, <2>8, <2>9, <2>10
<1>12. QED
  BY <1>7, <1>8, <1>9, <1>10, <1>11 DEF a, b, n, m

\* What comes before a stored entry is stored.
LEMMA StoredFirst ==
    ASSUME Typed, Log, phase \in {"booting", "up"} \/ Range(Memory) = {},
           NEW e \in Stored, NEW f \in All, f.seq < e.seq
    PROVE  f \in Stored
<1>1. CASE f \in Stored
  BY <1>1
<1>2. CASE f \in Range(Memory)
  <2>1. phase \in {"booting", "up"}
    BY <1>2
  <2>2. First <= f.seq /\ First \in Int
    BY <1>2, <2>1, NumberFacts, BatchTypes
  <2>3. PICK k \in DOMAIN segments : e \in Range(segments[k])
    BY DEF Stored, Within
  <2>4. Keyed(segments) /\ Runs(segments) /\ Before(segments, First, Taken) /\ Agree(All)
    BY <2>1, BatchTypes DEF Log
  <2>5. /\ k[1] \in Nat /\ k[2] \in Nat /\ e.seq <= k[2] /\ e \in Entry
        /\ \A n \in Nat : k[1] <= n /\ n <= k[2] => \E g \in Range(segments[k]) : g.seq = n
    BY <2>3, <2>4, ObjectFacts
  <2>6. f.seq \in Nat /\ e.seq \in Nat
    <3>1. f \in Entry
      BY BatchTypes
    <3>2. QED
      BY <2>5, <3>1, EntryTypes
  <2>7. k[1] <= f.seq /\ f.seq <= k[2]
    BY <2>2, <2>4, <2>5, <2>6 DEF Before
  <2>8. PICK g \in Range(segments[k]) : g.seq = f.seq
    BY <2>5, <2>6, <2>7
  <2>9. g \in Stored /\ g \in All
    BY <2>8 DEF Stored, Within, All
  <2>10. g = f
    BY <2>4, <2>8, <2>9 DEF Agree
  <2>11. QED
    BY <2>9, <2>10
<1>3. QED
  BY <1>1, <1>2 DEF All

-----------------------------------------------------------------------------
(* What a boot would rebuild now. *)

Recover(segs, w) == Replay(w, LogOf(segs, DOMAIN segs))
Best(r, E) == \A e \in E \cap ScoreEntry : e.score <= r.score

LEMMA RecoveredIs ==
    /\ Recovered = Recover(segments, SnapshotWorld)
    /\ Recovered' = Recover(segments', SnapshotWorld')
    /\ Stored = Within(segments, DOMAIN segments)
    /\ Stored' = Within(segments', DOMAIN segments')
BY DEF Recovered, Rebuilt, Logged, Recover, LogOf, Stored

LEMMA RecoverFacts ==
    ASSUME NEW segs, Keyed(segs), Runs(segs), NEW E, E = Within(segs, DOMAIN segs), Agree(E),
           NEW w \in Worlds
    PROVE  Outcome(Recover(segs, w), w, E) /\ Best(Recover(segs, w), E)
BY RebuiltFacts DEF Recover, Best

LEMMA NothingWaits ==
    ASSUME Typed, Roles, phase # "up"
    PROVE  Range(Memory) = {} /\ Memory = <<>> /\ All = Stored /\ First = walSeq + 1 /\ Taken = walSeq
           /\ writing = <<>>
<1>1. batch["ticker"] = <<>> /\ walBuffer = <<>> /\ writing = <<>>
  BY DEF Roles
<1>2. Range(Memory) = Range(<<>>) /\ Len(Memory) = 0 /\ walSeq \in Nat
  BY <1>1, BatchTypes
<1>3. Range(<<>>) = {}
  BY DEF Range
<1>4. Memory \in Seq(Entry)
  BY BatchTypes
<1>5. Memory = <<>>
  BY <1>2, <1>4
<1>6. QED
  BY <1>1, <1>2, <1>3, <1>5 DEF All, First, Taken

LEMMA RecoveredFacts ==
    ASSUME Typed, Roles, Log
    PROVE  /\ Outcome(Recovered, SnapshotWorld, Stored) /\ Best(Recovered, Stored)
           /\ Recovered \in Worlds /\ Earned(Recovered) /\ Tops(Recovered, SnapshotWorld)
           /\ Holds(Recovered, Stored)
<1> DEFINE r == Recovered
           w == SnapshotWorld
<1>1. Keyed(segments) /\ Runs(segments) /\ Agree(Stored) /\ w \in Worlds /\ EarnedBy(All, w.board) /\ Earned(w)
  BY BatchTypes, WorldTypes DEF Log, Agree, All
<1>2. Outcome(r, w, Stored) /\ Best(r, Stored)
  BY <1>1, RecoverFacts, RecoveredIs
<1>3. r \in Worlds /\ w.board \in SUBSET Cells /\ r.board \in SUBSET Cells
      /\ r.board = w.board \cup Reveals(Stored) /\ w.score \in Nat /\ r.score \in Nat
  BY <1>1, <1>2, WorldTypes DEF Outcome
<1> HIDE DEF r, w
<1>4. Holds(r, Stored)
  BY <1>2, <1>3 DEF Holds, Best
<1>5. Tops(r, w)
  BY <1>2, <1>3 DEF Tops, Outcome
<1>6. Earned(r)
  <2>1. CASE Stored \cap ScoreEntry = {}
    <3>1. r.score = w.score /\ w.board \subseteq r.board
      BY <1>2, <1>3, <2>1 DEF Outcome
    <3>2. /\ Cardinality(w.board) \in Nat /\ Cardinality(r.board) \in Nat
          /\ Cardinality(w.board) <= Cardinality(r.board)
      BY <1>3, <3>1, BoardsGrow
    <3>3. QED
      BY <1>1, <1>3, <3>1, <3>2 DEF Earned
  <2>2. CASE Stored \cap ScoreEntry # {}
    <3>1. PICK e \in Stored \cap ScoreEntry : r.score = e.score
      BY <1>2, <2>2 DEF Outcome
    <3> DEFINE B == w.board \cup Reveals(Earlier(All, e))
    <3>2. e.score <= Cardinality(B)
      BY <1>1, <3>1 DEF EarnedBy, All
    <3>3. Earlier(All, e) \subseteq Stored
      <4>1. phase \in {"booting", "up"} \/ Range(Memory) = {}
        BY NothingWaits
      <4>2. QED
        BY <3>1, <4>1, StoredFirst DEF Earlier
    <3>4. B \subseteq r.board /\ B \in SUBSET Cells
      <4>1. B \subseteq r.board
        BY <1>3, <3>3 DEF Reveals
      <4>2. QED
        BY <1>3, <4>1
    <3> HIDE DEF B
    <3>5. Cardinality(B) \in Nat /\ Cardinality(r.board) \in Nat /\ Cardinality(B) <= Cardinality(r.board)
      BY <1>3, <3>4, BoardsGrow
    <3>6. QED
      BY <1>3, <3>1, <3>2, <3>5 DEF Earned, B
  <2>3. QED
    BY <2>1, <2>2
<1>7. QED
  BY <1>2, <1>3, <1>4, <1>5, <1>6 DEF r, w

\* The server has all that a boot would rebuild.
LEMMA WorldCoversRecovered ==
    ASSUME Typed, OInv, phase = "up"
    PROVE  Covers(world, Recovered)
<1>1. /\ Outcome(Recovered, SnapshotWorld, Stored)
      /\ Tops(world, SnapshotWorld) /\ Holds(world, All) /\ Stored \subseteq All
  BY RecoveredFacts DEF OInv, Memories, All
<1>2. Recovered.board \subseteq world.board
  BY <1>1 DEF Outcome, Tops, Holds, Reveals
<1>3. Recovered.score <= world.score
  <2>1. CASE Stored \cap ScoreEntry = {}
    BY <1>1, <2>1 DEF Outcome, Tops
  <2>2. CASE Stored \cap ScoreEntry # {}
    <3>1. PICK e \in Stored \cap ScoreEntry : Recovered.score = e.score
      BY <1>1, <2>2 DEF Outcome
    <3>2. QED
      BY <1>1, <3>1 DEF Holds
  <2>3. QED
    BY <2>1, <2>2
<1>4. QED
  BY <1>2, <1>3 DEF Covers

-----------------------------------------------------------------------------
(* Every step preserves the invariant, as long as faults are ordinary. *)

LEMMA SameStore ==
    ASSUME UNCHANGED <<segments, snapshot>>
    PROVE  SnapshotWorld' = SnapshotWorld /\ Stored' = Stored /\ Recovered' = Recovered
BY DEF SnapshotWorld, Stored, Recovered, Rebuilt, Logged

LEMMA SameLog ==
    ASSUME UNCHANGED <<segments, snapshot, batch, walBuffer, walSeq>>
    PROVE  /\ SnapshotWorld' = SnapshotWorld /\ Stored' = Stored /\ Recovered' = Recovered
           /\ Memory' = Memory /\ All' = All /\ First' = First /\ Taken' = Taken
           /\ Log /\ (phase' \in {"booting", "up"} => phase \in {"booting", "up"}) => Log'
<1>1. SnapshotWorld' = SnapshotWorld /\ Stored' = Stored /\ Recovered' = Recovered
  BY SameStore
<1>2. Memory' = Memory
  BY DEF Memory
<1>3. All' = All /\ First' = First
  BY <1>1, <1>2 DEF All, First
<1>4. Taken' = Taken
  BY <1>3 DEF Taken
<1>5. ASSUME Log, phase' \in {"booting", "up"} => phase \in {"booting", "up"}  PROVE Log'
  BY <1>1, <1>2, <1>3, <1>4, <1>5 DEF Log, Earned
<1>6. QED
  BY <1>1, <1>2, <1>3, <1>4, <1>5

LEMMA CommandKeepsOrder ==
    ASSUME Typed, OInv, NEW c \in Cells, InMemory(Command(c))
    PROVE  OInv'
<1>1. /\ phase = "up" /\ phase' = "up" /\ writing = <<>> /\ c \notin world.board
      /\ world' = [board |-> world.board \cup {c}, score |-> world.score + 1]
      /\ writing' = Entries(c, world.score + 1)
      /\ UNCHANGED <<given, walSeq, walBuffer, batch, kept, kills, signal, promised>>
      /\ UNCHANGED <<segments, snapshot, saving, failures>>
  BY DEF InMemory, Command
<1>2. /\ SnapshotWorld' = SnapshotWorld /\ Stored' = Stored /\ Recovered' = Recovered
      /\ Memory' = Memory /\ All' = All /\ Log'
  BY <1>1, SameLog DEF OInv
<1>3. world.board \in SUBSET Cells /\ world.score \in Nat /\ All \in SUBSET Entry
  BY WorldTypes, BatchTypes DEF Typed, MemoryTyped, InMemoryTyped
<1>4. world'.board = world.board \cup {c} /\ world'.score = world.score + 1
  BY <1>1
<1>5. Roles'
  BY <1>1 DEF OInv, Roles
<1>6. Memories'
  <2>1. Earned(world) /\ Tops(world, SnapshotWorld) /\ Holds(world, All)
        /\ world.board \subseteq SnapshotWorld.board \cup Reveals(All) \cup Unlogged
    BY <1>1 DEF OInv, Memories
  <2>2. Earned(world')
    <3>1. IsFiniteSet(world.board)
      BY <1>3, JournalAssumption, FS_Subset
    <3>2. Cardinality(world.board \cup {c}) = Cardinality(world.board) + 1
      BY <1>1, <3>1, FS_AddElement
    <3>3. Cardinality(world.board) \in Nat
      BY <3>1, FS_CardinalityType
    <3>4. QED
      BY <1>3, <1>4, <2>1, <3>2, <3>3 DEF Earned
  <2>3. SnapshotWorld \in Worlds /\ SnapshotWorld.score \in Nat
    BY WorldTypes
  <2>4. Tops(world, SnapshotWorld)'
    BY <1>2, <1>3, <1>4, <2>1, <2>3 DEF Tops
  <2>5. \A e \in All \cap ScoreEntry : e.score < world'.score
    <3> SUFFICES ASSUME NEW e \in All \cap ScoreEntry  PROVE e.score < world'.score
      OBVIOUS
    <3>1. e.score \in Nat /\ e.score <= world.score
      BY <1>3, <2>1, EntryTypes DEF Holds
    <3>2. QED
      BY <1>3, <1>4, <3>1
  <2>6. Holds(world', All)
    <3>1. \A e \in All \cap ScoreEntry : e.score <= world'.score
      <4> SUFFICES ASSUME NEW e \in All \cap ScoreEntry  PROVE e.score <= world'.score
        OBVIOUS
      <4>1. e.score \in Nat
        BY <1>3, EntryTypes
      <4>2. QED
        BY <1>3, <1>4, <2>5, <4>1
    <3>2. QED
      BY <1>4, <2>1, <3>1 DEF Holds
  <2>7. Commands'
    BY <1>1, <1>4 DEF Commands, Entries
  <2>8. Unlogged' = {c} /\ Unlogged = {}
    BY <1>1 DEF Unlogged, Entries
  <2>9. world'.board \subseteq SnapshotWorld'.board \cup Reveals(All') \cup Unlogged'
    BY <1>2, <1>4, <2>1, <2>8
  <2>10. QED
    BY <1>2, <2>2, <2>4, <2>5, <2>6, <2>7, <2>9 DEF Memories, Earned, Holds, Tops
<1>7. Saves'
  <2> SUFFICES ASSUME NEW s \in {"loop", "boot"}, saving[s] # Idle
               PROVE  LET v == saving[s] IN
                      /\ v.at = "captured" => Covers(world', v.data) /\ phase # "booting"
                      /\ v.at = "stored" => SnapshotWorld.score <= world'.score
    BY <1>1, <1>2 DEF OInv, Saves, Tops, Holds, Covers
  <2>1. saving[s] \in Jobs
    BY DEF Typed, InStoreTyped, Savers
  <2>2. CASE saving[s].at = "captured"
    <3>1. saving[s].data \in Worlds /\ Covers(world, saving[s].data)
      BY <2>1, <2>2 DEF Jobs, OInv, Saves
    <3>2. saving[s].data.score \in Nat
      BY <3>1, WorldTypes
    <3>3. QED
      BY <1>1, <1>3, <1>4, <2>2, <3>1, <3>2 DEF Covers
  <2>3. CASE saving[s].at = "stored"
    <3>1. SnapshotWorld.score <= world.score /\ SnapshotWorld.score \in Nat
      BY <2>3, WorldTypes DEF OInv, Saves
    <3>2. QED
      BY <1>3, <1>4, <2>3, <3>1
  <2>4. QED
    BY <2>2, <2>3
<1>8. Keeps'
  BY <1>1, <1>2 DEF OInv, Keeps, Covers
<1>9. QED
  BY <1>2, <1>5, <1>6, <1>7, <1>8 DEF OInv

LEMMA TakeKeepsOrder ==
    ASSUME Typed, OInv, NEW f \in Flushers, InMemory(TakeBuffer(f))
    PROVE  OInv'
<1>1. f = "ticker"
  BY DEF InMemory, TakeBuffer, Flushers, OInv, Roles
<1>2. /\ phase = "up" /\ phase' = "up" /\ batch["ticker"] = <<>>
      /\ batch' = [batch EXCEPT !["ticker"] = walBuffer] /\ walBuffer' = <<>>
      /\ UNCHANGED <<given, world, writing, walSeq, kept, kills, signal, promised>>
      /\ UNCHANGED <<segments, snapshot, saving, failures>>
      /\ walBuffer # <<>>
  BY <1>1 DEF InMemory, TakeBuffer
<1>3. batch'["ticker"] = walBuffer /\ batch'["signal"] = batch["signal"]
  BY <1>2 DEF Typed, MemoryTyped, InMemoryTyped, Flushers
<1>4. SnapshotWorld' = SnapshotWorld /\ Stored' = Stored /\ Recovered' = Recovered
  BY <1>2, SameStore
<1>5. walBuffer \in Seq(Entry) /\ walSeq \in Nat
  BY BatchTypes
<1>6. Memory' = Memory
  BY <1>2, <1>3, <1>5 DEF Memory
<1>7. All' = All /\ First' = First
  BY <1>2, <1>4, <1>6 DEF All, First
<1>8. Taken' = Taken
  <2>1. Memory = walBuffer
    BY <1>2, <1>5 DEF Memory
  <2>2. Len(walBuffer) \in Nat
    BY <1>5
  <2>3. Taken' = (walSeq + 1 - Len(walBuffer)) + Len(walBuffer) - 1
    BY <1>2, <1>3, <1>7, <2>1 DEF Taken, First
  <2>4. QED
    BY <1>2, <1>5, <2>2, <2>3 DEF Taken
<1>9. Log'
  BY <1>2, <1>4, <1>6, <1>7, <1>8 DEF OInv, Log, Earned
<1>10. Roles'
  BY <1>2, <1>3, <1>4 DEF OInv, Roles
<1>11. Memories'
  BY <1>2, <1>4, <1>7 DEF OInv, Memories, Earned, Tops, Holds, Commands, Unlogged
<1>12. Saves'
  BY <1>2, <1>4 DEF OInv, Saves, Earned, Tops, Holds, Covers
<1>13. Keeps'
  BY <1>2, <1>4, <1>6 DEF OInv, Keeps, Covers
<1>14. QED
  BY <1>9, <1>10, <1>11, <1>12, <1>13 DEF OInv

LEMMA WriteKeepsOrder ==
    ASSUME Typed, OInv, InMemory(WriteWALEntry)
    PROVE  OInv'
<1> DEFINE top == Head(writing)
           x == IF "reveal" \in DOMAIN top THEN [seq |-> walSeq + 1, reveal |-> top.reveal]
                                           ELSE [seq |-> walSeq + 1, score |-> top.score]
           a == batch["ticker"]
           n == Len(Memory)
<1>1. /\ phase = "up" /\ phase' = "up" /\ writing # <<>> /\ walSeq' = walSeq + 1
      /\ walBuffer' = Append(walBuffer, x) /\ writing' = Tail(writing)
      /\ UNCHANGED <<given, world, batch, kept, kills, signal, promised>>
      /\ UNCHANGED <<segments, snapshot, saving, failures>>
  BY DEF InMemory, WriteWALEntry
<1>2. /\ world \in Worlds /\ world.board \in SUBSET Cells /\ world.score \in Nat
      /\ walSeq \in Nat /\ walSeq + 1 \in Nat /\ kept \in Worlds /\ kept.score \in Nat
  BY WorldTypes DEF Typed, MemoryTyped, InMemoryTyped
<1>3. /\ Earned(world) /\ Tops(world, SnapshotWorld) /\ Holds(world, All)
      /\ \A e \in All \cap ScoreEntry : e.score < world.score
      /\ world.board \subseteq SnapshotWorld.board \cup Reveals(All) \cup Unlogged
  BY <1>1 DEF OInv, Memories
\* What the entry is, and what remains of the command.
<1>4. /\ x \in Entry /\ x.seq = walSeq + 1 /\ Commands'
      /\ \/ x \in RevealEntry /\ x.reveal \in world.board /\ Unlogged = {x.reveal}
         \/ x \in ScoreEntry /\ x.score = world.score /\ Unlogged = {} /\ writing' = <<>>
      /\ Unlogged' = {}
  <2>1. CASE writing = <<[score |-> world.score]>>
    <3>1. top = [score |-> world.score] /\ writing' = <<>> /\ Len(writing) = 1
      BY <1>1, <2>1
    <3>2. x = [seq |-> walSeq + 1, score |-> world.score]
      BY <3>1
    <3>3. x \in ScoreEntry /\ x.score = world.score /\ x.seq = walSeq + 1
      BY <1>2, <3>2 DEF ScoreEntry
    <3> HIDE DEF x, top
    <3>4. Unlogged = {} /\ Unlogged' = {} /\ Commands'
      BY <3>1 DEF Unlogged, Commands
    <3>5. QED
      BY <3>1, <3>3, <3>4 DEF Entry
  <2>2. CASE \E c \in world.board : writing = Entries(c, world.score)
    <3>1. PICK c \in world.board : writing = Entries(c, world.score)
      BY <2>2
    <3>2. top = [reveal |-> c] /\ writing' = <<[score |-> world.score]>> /\ Len(writing) = 2
      BY <1>1, <3>1 DEF Entries
    <3>3. x = [seq |-> walSeq + 1, reveal |-> c]
      BY <3>2
    <3>4. x \in RevealEntry /\ x.reveal = c /\ x.seq = walSeq + 1
      BY <1>2, <3>3 DEF RevealEntry
    <3>5. Len(writing') = 1 /\ world' = world
      BY <1>1, <3>2
    <3>6. Unlogged = {c}
      BY <3>2 DEF Unlogged
    <3> HIDE DEF x, top
    <3>7. Unlogged' = {} /\ Commands'
      BY <3>2, <3>5 DEF Unlogged, Commands
    <3>8. QED
      BY <3>1, <3>4, <3>6, <3>7 DEF Entry
  <2>3. QED
    BY <1>1, <2>1, <2>2 DEF OInv, Memories, Commands
<1> HIDE DEF top, x
<1>5. /\ a \in Seq(Entry) /\ walBuffer \in Seq(Entry) /\ Memory = a \o walBuffer
      /\ Memory \in Seq(Entry) /\ n \in Nat /\ DOMAIN Memory = 1 .. n
  BY BatchTypes DEF Memory
<1>6. Memory' = Append(Memory, x)
  <2>1. Memory' = a \o Append(walBuffer, x)
    BY <1>1 DEF Memory
  <2> HIDE DEF a
  <2>2. a \o Append(walBuffer, x) = Append(a \o walBuffer, x)
    BY <1>4, <1>5
  <2>3. QED
    BY <1>5, <2>1, <2>2
<1>7. /\ Len(Memory') = n + 1 /\ DOMAIN Memory' = 1 .. n + 1 /\ Memory'[n + 1] = x
      /\ \A i \in 1 .. n : Memory'[i] = Memory[i]
  BY <1>4, <1>5, <1>6, AppendFacts
<1> HIDE DEF n
<1>8. Range(Memory') = Range(Memory) \cup {x}
  <2>1. 1 .. n + 1 = (1 .. n) \cup {n + 1}
    BY <1>5
  <2>2. \A i \in DOMAIN Memory' : Memory'[i] = x \/ (i \in DOMAIN Memory /\ Memory'[i] = Memory[i])
    BY <1>5, <1>7, <2>1
  <2>3. \A i \in DOMAIN Memory : i \in DOMAIN Memory' /\ Memory'[i] = Memory[i]
    BY <1>5, <1>7, <2>1
  <2>4. n + 1 \in DOMAIN Memory'
    BY <1>7, <2>1
  <2>5. Range(Memory') \subseteq Range(Memory) \cup {x}
    BY <2>2 DEF Range
  <2>6. Range(Memory) \subseteq Range(Memory') /\ x \in Range(Memory')
    BY <1>7, <2>3, <2>4 DEF Range
  <2>7. QED
    BY <2>5, <2>6
<1>9. SnapshotWorld' = SnapshotWorld /\ Stored' = Stored /\ Recovered' = Recovered
  BY <1>1, SameStore
<1>10. All' = All \cup {x}
  BY <1>8, <1>9 DEF All
<1>11. First' = First /\ First = walSeq + 1 - n /\ First \in Int
  <2>1. First' = (walSeq + 1) + 1 - (n + 1)
    BY <1>1, <1>7 DEF First
  <2>2. First = walSeq + 1 - n
    BY DEF First, n
  <2>3. QED
    BY <1>2, <1>5, <2>1, <2>2
<1>12. Taken' \in Int /\ Taken <= Taken'
  <2>1. CASE a = <<>>
    BY <1>1, <1>2, <2>1 DEF Taken
  <2>2. CASE a # <<>>
    <3>1. Taken' = Taken
      BY <1>1, <1>11, <2>2 DEF Taken
    <3>2. Taken \in Int
      BY BatchTypes
    <3>3. Taken <= Taken
      BY <3>2
    <3>4. QED
      BY <3>1, <3>2, <3>3
  <2>3. QED
    BY <2>1, <2>2
<1>13. \A e \in All : e.seq \in Nat /\ e.seq < x.seq
  <2> TAKE e \in All
  <2>1. e.seq <= walSeq
    BY <1>1, NumberFacts DEF OInv
  <2>2. e.seq \in Nat
    BY BatchTypes, EntryTypes
  <2>3. QED
    BY <1>2, <1>4, <2>1, <2>2
<1>14. Log'
  <2>1. /\ Runs(segments) /\ Agree(All) /\ EarnedBy(All, SnapshotWorld.board)
        /\ Earned(SnapshotWorld) /\ Consecutive(Memory, First) /\ Before(segments, First, Taken)
    BY <1>1 DEF OInv, Log
  <2>2. Agree(All \cup {x})
    <3>1. ASSUME NEW e \in All \cup {x}, NEW f \in All \cup {x}, e.seq = f.seq  PROVE e = f
      <4>1. e # x /\ f = x => e.seq < f.seq /\ e.seq \in Nat
        BY <1>13
      <4>2. e = x /\ f # x => f.seq < e.seq /\ f.seq \in Nat
        BY <1>13
      <4>3. x.seq \in Nat
        BY <1>2, <1>4
      <4>4. e \in All /\ f \in All => e = f
        BY <2>1, <3>1 DEF Agree
      <4>5. QED
        BY <3>1, <4>1, <4>2, <4>3, <4>4
    <3>2. ASSUME NEW e \in (All \cup {x}) \cap ScoreEntry, NEW f \in (All \cup {x}) \cap ScoreEntry,
                 e.seq < f.seq
          PROVE  e.score < f.score
      <4>1. e \in All /\ f \in All => e.score < f.score
        BY <2>1, <3>2 DEF Agree
      <4>2. e \in All /\ f = x => e.score < f.score
        BY <1>3, <1>4, EntryTypes
      <4>3. e # x
        <5>1. f \in All => f.seq < x.seq /\ f.seq \in Nat
          BY <1>13
        <5>2. x.seq \in Nat
          BY <1>2, <1>4
        <5>3. QED
          BY <3>2, <5>1, <5>2
      <4>4. QED
        BY <4>1, <4>2, <4>3
    <3>3. QED
      BY <3>1, <3>2 DEF Agree
  <2>3. EarnedBy(All \cup {x}, SnapshotWorld.board)
    <3> SUFFICES ASSUME NEW e \in (All \cup {x}) \cap ScoreEntry
                 PROVE  e.score <= Cardinality(SnapshotWorld.board \cup Reveals(Earlier(All \cup {x}, e)))
      BY DEF EarnedBy
    <3>1. CASE e = x
      <4>1. Earlier(All \cup {x}, x) = All
        BY <1>2, <1>4, <1>13 DEF Earlier
      <4>2. e.score = world.score /\ Unlogged = {}
        BY <1>4, <3>1, EntryTypes
      <4> DEFINE B == SnapshotWorld.board \cup Reveals(All)
      <4>3. world.board \subseteq B /\ B \in SUBSET Cells
        BY <1>3, <4>2, WorldTypes, BoardsGrow
      <4> HIDE DEF B
      <4>4. /\ Cardinality(world.board) \in Nat /\ Cardinality(B) \in Nat
            /\ Cardinality(world.board) <= Cardinality(B)
        BY <1>2, <4>3, BoardsGrow
      <4>5. world.score <= Cardinality(B)
        BY <1>2, <1>3, <4>4 DEF Earned
      <4>6. QED
        BY <3>1, <4>1, <4>2, <4>5 DEF B
    <3>2. CASE e # x
      <4>1. e \in All \cap ScoreEntry /\ e.seq < x.seq /\ e.seq \in Nat /\ x.seq \in Nat
        BY <1>2, <1>4, <1>13, <3>2
      <4>2. Earlier(All \cup {x}, e) = Earlier(All, e)
        BY <4>1 DEF Earlier
      <4>3. QED
        BY <2>1, <4>1, <4>2 DEF EarnedBy
    <3>3. QED
      BY <3>1, <3>2
  <2>4. Consecutive(Memory', First)
    <3> SUFFICES ASSUME NEW i \in 1 .. n + 1  PROVE Memory'[i].seq = First + i - 1
      BY <1>7 DEF Consecutive
    <3>1. CASE i \in 1 .. n
      BY <1>5, <1>7, <2>1, <3>1 DEF Consecutive
    <3>2. CASE i = n + 1
      BY <1>2, <1>4, <1>5, <1>7, <1>11, <3>2
    <3>3. QED
      BY <1>5, <3>1, <3>2
  <2>5. Before(segments, First, Taken')
    <3>1. \A k \in DOMAIN segments : k[2] \in Nat
      BY BatchTypes, <2>1, ObjectFacts
    <3>2. Taken \in Int
      BY BatchTypes
    <3>3. QED
      BY <1>12, <2>1, <3>1, <3>2 DEF Before
  <2>6. QED
    BY <1>1, <1>9, <1>10, <1>11, <2>1, <2>2, <2>3, <2>4, <2>5 DEF Log, Earned
<1>15. Roles'
  BY <1>1 DEF OInv, Roles
<1>16. Memories'
  <2>1. Holds(world, All \cup {x})
    <3>1. Reveals(All \cup {x}) \subseteq world.board
      BY <1>3, <1>4, EntryTypes DEF Holds, Reveals
    <3>2. \A e \in (All \cup {x}) \cap ScoreEntry : e.score <= world.score
      <4>1. x \in ScoreEntry => x.score <= world.score
        BY <1>2, <1>4, EntryTypes
      <4>2. QED
        BY <1>3, <4>1 DEF Holds
    <3>3. QED
      BY <3>1, <3>2 DEF Holds
  <2>2. writing' # <<>> => \A e \in (All \cup {x}) \cap ScoreEntry : e.score < world.score
    BY <1>3, <1>4, EntryTypes
  <2>3. world.board \subseteq SnapshotWorld.board \cup Reveals(All \cup {x}) \cup Unlogged'
    BY <1>3, <1>4 DEF Reveals
  <2>4. QED
    BY <1>1, <1>3, <1>4, <1>9, <1>10, <2>1, <2>2, <2>3 DEF Memories, Earned, Tops, Holds
<1>17. Saves'
  BY <1>1, <1>9 DEF OInv, Saves, Earned, Tops, Holds, Covers
<1>18. Keeps'
  <2>1. Covers(Recovered, kept) /\ \A e \in Range(Memory) \cap ScoreEntry : kept.score <= e.score
    BY DEF OInv, Keeps
  <2>2. x \in ScoreEntry => kept.score <= x.score
    <3>1. Covers(world, Recovered) /\ Recovered \in Worlds
      BY <1>1, WorldCoversRecovered, RecoveredFacts DEF OInv
    <3>2. kept.score <= Recovered.score /\ Recovered.score <= world.score /\ Recovered.score \in Nat
      BY <2>1, <3>1, WorldTypes DEF Covers
    <3>3. QED
      BY <1>2, <1>4, <3>2, EntryTypes
  <2>3. QED
    BY <1>1, <1>8, <1>9, <2>1, <2>2 DEF Keeps, Covers
<1>19. QED
  BY <1>14, <1>15, <1>16, <1>17, <1>18 DEF OInv

\* An upload adds one object, unless the same object is there already.
LEMMA UploadFacts ==
    ASSUME Typed, OInv, batch["ticker"] # <<>>, Upload("ticker")
    PROVE  /\ phase = "up" /\ First \in Nat /\ Taken \in Nat /\ First <= Taken
           /\ Keyed(segments') /\ Runs(segments')
           /\ DOMAIN segments' = DOMAIN segments \cup {<<First, Taken>>}
           /\ \A k \in DOMAIN segments : segments'[k] = segments[k]
           /\ Stored' = Stored \cup Range(batch["ticker"])
<1> DEFINE a == batch["ticker"]
           n == Len(a)
           K == <<First, Taken>>
<1>1. phase = "up"
  BY DEF OInv, Roles
<1>2. /\ a \in Seq(Entry) /\ n \in Nat /\ DOMAIN a = 1 .. n /\ Keyed(segments)
      /\ Range(a) \subseteq Range(Memory)
  BY BatchTypes
<1>3. Runs(segments) /\ Agree(All) /\ Before(segments, First, Taken)
  BY <1>1 DEF OInv, Log
<1>4. First \in Nat /\ Taken = First + n - 1 /\ n > 0 /\ Consecutive(a, First)
  BY <1>1, NumberFacts DEF OInv
<1>5. Taken \in Nat /\ First <= Taken
  BY <1>2, <1>4
<1>6. SegmentKey("ticker") = K
  <2>1. 1 \in DOMAIN a /\ n \in DOMAIN a
    BY <1>2, <1>4
  <2>2. a[1].seq = First /\ a[n].seq = Taken
    <3>1. a[1].seq = First + 1 - 1 /\ a[n].seq = First + n - 1
      BY <1>4, <2>1 DEF Consecutive
    <3>2. QED
      BY <1>4, <3>1
  <2>3. SegmentKey("ticker") = <<a[1].seq, a[n].seq>>
    BY DEF SegmentKey, Last
  <2>4. QED
    BY <2>2, <2>3
<1>7. "ticker" \in Flushers
  BY DEF Flushers
<1>8. /\ Keyed(segments') /\ DOMAIN segments' = DOMAIN segments \cup {K} /\ segments'[K] = a
      /\ \A k \in DOMAIN segments : k # K => segments'[k] = segments[k]
  BY <1>6, <1>7, UploadTyped
<1> HIDE DEF n, K
<1>9. ASSUME K \in DOMAIN segments  PROVE segments[K] = a
  <2> DEFINE s == segments[K]
  <2>1. K[1] = First /\ K[2] = Taken
    BY DEF K
  <2>2. s \in Seq(Entry) /\ Len(s) = Taken - First + 1 /\ Consecutive(s, First)
    BY <1>2, <1>3, <1>9, <2>1 DEF Keyed, Runs
  <2>3. Len(s) = n /\ DOMAIN s = 1 .. n
    BY <1>2, <1>4, <2>2
  <2>4. ASSUME NEW i \in 1 .. n  PROVE s[i] = a[i]
    <3>1. s[i].seq = First + i - 1 /\ a[i].seq = First + i - 1
      BY <1>2, <1>4, <2>2, <2>3, <2>4 DEF Consecutive
    <3>2. s[i] \in Range(s) /\ a[i] \in Range(a)
      BY <1>2, <2>3, <2>4 DEF Range
    <3>3. s[i] \in All /\ a[i] \in All
      BY <1>2, <1>9, <3>2 DEF All, Stored, Within
    <3>4. QED
      BY <1>3, <3>1, <3>3 DEF Agree
  <2> HIDE DEF s
  <2>5. s = a
    BY <1>2, <2>2, <2>3, <2>4
  <2>6. QED
    BY <2>5 DEF s
<1>10. \A k \in DOMAIN segments : segments'[k] = segments[k]
  BY <1>8, <1>9
<1>11. Runs(segments')
  <2>1. \A k \in DOMAIN segments : k[1] \in Nat /\ k[2] \in Nat /\ k[1] <= k[2]
    BY <1>2, <1>3, ObjectFacts
  <2>2. K[1] = First /\ K[2] = Taken
    BY DEF K
  <2>3. K[1] <= K[2] /\ Len(segments'[K]) = K[2] - K[1] + 1 /\ Consecutive(segments'[K], K[1])
    <3>1. Len(segments'[K]) = n
      BY <1>8 DEF n
    <3>2. QED
      BY <1>2, <1>4, <1>5, <1>8, <2>2, <3>1
  <2>4. \A k \in DOMAIN segments : k[1] = K[1] \/ k[2] < K[1]
    BY <1>3, <2>2 DEF Before
  <2>5. ASSUME NEW k \in DOMAIN segments'
        PROVE  /\ k[1] <= k[2] /\ Len(segments'[k]) = k[2] - k[1] + 1
               /\ Consecutive(segments'[k], k[1])
    BY <1>3, <1>8, <1>10, <2>3 DEF Runs
  <2>6. ASSUME NEW k \in DOMAIN segments', NEW l \in DOMAIN segments'
        PROVE  k[1] = l[1] \/ k[2] < l[1] \/ l[2] < k[1]
    <3>1. k \in DOMAIN segments \/ k = K
      BY <1>8
    <3>2. l \in DOMAIN segments \/ l = K
      BY <1>8
    <3>3. k \in DOMAIN segments /\ l \in DOMAIN segments => k[1] = l[1] \/ k[2] < l[1] \/ l[2] < k[1]
      BY <1>3 DEF Runs
    <3>4. QED
      BY <2>4, <3>1, <3>2, <3>3
  <2>7. QED
    BY <2>5, <2>6 DEF Runs
<1>12. Stored' = Stored \cup Range(a)
  <2>1. Stored' = UNION {Range(segments'[k]) : k \in DOMAIN segments'}
    BY DEF Stored, Within
  <2>2. Stored = UNION {Range(segments[k]) : k \in DOMAIN segments}
    BY DEF Stored, Within
  <2>3. QED
    BY <1>8, <1>10, <2>1, <2>2
<1>13. QED
  BY <1>1, <1>4, <1>5, <1>8, <1>10, <1>11, <1>12 DEF K

\* It takes nothing from what a boot would rebuild.
LEMMA UploadRecovers ==
    ASSUME Typed, OInv, batch["ticker"] # <<>>, Upload("ticker"), UNCHANGED snapshot
    PROVE  /\ Outcome(Recovered', SnapshotWorld, Stored') /\ Best(Recovered', Stored')
           /\ Covers(Recovered', kept)
<1> DEFINE r == Recovered'
           w == SnapshotWorld
           E == Stored'
<1>1. /\ Keyed(segments') /\ Runs(segments') /\ E = Stored \cup Range(batch["ticker"]) /\ phase = "up"
      /\ Range(batch["ticker"]) \subseteq Range(Memory)
      /\ E \in SUBSET Entry
  BY UploadFacts, BatchTypes
<1>2. Agree(E)
  <2>1. E \subseteq All
    BY <1>1 DEF All
  <2>2. QED
    BY <2>1 DEF OInv, Log, Agree
<1>3. SnapshotWorld' = w /\ w \in Worlds
  BY WorldTypes DEF SnapshotWorld
<1>4. r = Recover(segments', w) /\ E = Within(segments', DOMAIN segments')
  BY <1>3, RecoveredIs
<1>5. Outcome(r, w, E) /\ Best(r, E)
  <2>1. Keyed(segments') /\ Runs(segments') /\ Agree(Within(segments', DOMAIN segments'))
    BY <1>1, <1>2, <1>4
  <2> DEFINE segs == segments'
             F == Within(segs, DOMAIN segs)
  <2>2. F = Within(segs, DOMAIN segs) /\ Keyed(segs) /\ Runs(segs) /\ Agree(F)
    BY <2>1
  <2> HIDE DEF segs, F
  <2>3. Outcome(Recover(segs, w), w, F) /\ Best(Recover(segs, w), F)
    BY <1>3, <2>2, RecoverFacts
  <2>4. QED
    BY <1>4, <2>3 DEF segs, F
<1>6. Outcome(Recovered, w, Stored) /\ Covers(Recovered, kept)
  BY RecoveredFacts DEF OInv, Keeps
<1> HIDE DEF r, w, E
<1>7. Recovered.board \subseteq r.board
  BY <1>1, <1>5, <1>6 DEF Outcome, Reveals
<1>8. kept.score <= r.score
  <2>1. /\ kept \in Worlds /\ kept.score \in Nat /\ Recovered.score \in Nat /\ r.score \in Nat
        /\ kept.score <= Recovered.score
    BY <1>5, <1>6, WorldTypes DEF Typed, MemoryTyped, InMemoryTyped, Outcome, Covers
  <2>2. CASE Stored \cap ScoreEntry # {}
    <3>1. PICK e \in Stored \cap ScoreEntry : Recovered.score = e.score
      BY <1>6, <2>2 DEF Outcome
    <3>2. e.score <= r.score
      BY <1>1, <1>5, <3>1 DEF Best
    <3>3. QED
      BY <2>1, <3>1, <3>2
  <2>3. CASE Stored \cap ScoreEntry = {} /\ E \cap ScoreEntry = {}
    BY <1>5, <1>6, <2>1, <2>3 DEF Outcome
  <2>4. CASE Stored \cap ScoreEntry = {} /\ E \cap ScoreEntry # {}
    <3>1. PICK e \in E \cap ScoreEntry : r.score = e.score
      BY <1>5, <2>4 DEF Outcome
    <3>2. e \in Range(Memory) \cap ScoreEntry
      BY <1>1, <2>4, <3>1
    <3>3. QED
      BY <3>1, <3>2 DEF OInv, Keeps
  <2>5. QED
    BY <2>2, <2>3, <2>4
<1>9. Covers(r, kept)
  BY <1>6, <1>7, <1>8 DEF Covers
<1>10. QED
  BY <1>5, <1>9 DEF r, w, E

\* It comes after all that is listed for deletion.
LEMMA UploadSaves ==
    ASSUME Typed, OInv, batch["ticker"] # <<>>, Upload("ticker"),
           UNCHANGED <<snapshot, saving, world, phase>>
    PROVE  Saves'
<1>1. /\ phase = "up" /\ First \in Nat /\ Taken \in Nat
      /\ DOMAIN segments' = DOMAIN segments \cup {<<First, Taken>>}
      /\ \A k \in DOMAIN segments : segments'[k] = segments[k]
      /\ Stored \subseteq Stored'
  BY UploadFacts
<1>2. SnapshotWorld' = SnapshotWorld
  BY DEF SnapshotWorld
<1>3. Keyed(segments) /\ Runs(segments) /\ Before(segments, First, Taken)
  BY <1>1, BatchTypes DEF OInv, Log
<1> SUFFICES ASSUME NEW s \in {"loop", "boot"}, saving[s] # Idle
             PROVE  LET v == saving[s] IN
                    /\ v.listed \subseteq DOMAIN segments'
                    /\ \A k \in v.listed, l \in DOMAIN segments' \ v.listed : KeyOrder(k, l)
                    /\ v.at = "captured" =>
                          /\ Earned(v.data) /\ Tops(v.data, SnapshotWorld)' /\ Covers(world, v.data)
                          /\ Holds(v.data, Within(segments', v.listed))
                          /\ phase = "booting" => v.data = world
                    /\ v.at = "stored" => /\ Holds(SnapshotWorld, Within(segments', v.listed))
                                          /\ SnapshotWorld.score <= world.score
  BY <1>2 DEF Saves, Earned, Tops, Covers, Holds
<1> DEFINE v == saving[s]
<1>4. /\ v.listed \subseteq DOMAIN segments
      /\ \A k \in v.listed, l \in DOMAIN segments \ v.listed : KeyOrder(k, l)
      /\ v.at = "captured" =>
            /\ Earned(v.data) /\ Tops(v.data, SnapshotWorld) /\ Covers(world, v.data)
            /\ Holds(v.data, Within(segments, v.listed))
            /\ phase = "booting" => v.data = world
      /\ v.at = "stored" => /\ Holds(SnapshotWorld, Within(segments, v.listed))
                            /\ SnapshotWorld.score <= world.score
  BY DEF OInv, Saves
<1> HIDE DEF v
<1>5. Within(segments', v.listed) = Within(segments, v.listed)
  BY <1>1, <1>4 DEF Within
<1>6. ASSUME NEW k \in v.listed, NEW l \in DOMAIN segments' \ v.listed  PROVE KeyOrder(k, l)
  <2>1. CASE l \in DOMAIN segments
    BY <1>4, <2>1
  <2>2. CASE l = <<First, Taken>> /\ l \notin DOMAIN segments
    <3>1. k \in Nat \X Nat /\ k[1] \in Nat /\ k[2] \in Nat /\ k[1] <= k[2] /\ k # l
      BY <1>3, <1>4, <2>2, ObjectFacts DEF Keyed
    <3>2. l[1] = First /\ l[2] = Taken
      BY <2>2
    <3>3. k[2] < First \/ (k[1] = First /\ k[2] <= Taken)
      BY <1>3, <1>4 DEF Before
    <3>4. k[1] = First => k[2] # Taken
      BY <2>2, <3>1
    <3>5. QED
      BY <1>1, <3>1, <3>2, <3>3, <3>4 DEF KeyOrder
  <2>3. QED
    BY <1>1, <2>1, <2>2
<1>7. v.at = "captured" => Tops(v.data, SnapshotWorld)'
  BY <1>1, <1>2, <1>4 DEF Tops, v
<1>8. QED
  BY <1>1, <1>4, <1>5, <1>6, <1>7 DEF v

\* What flushWAL has stored: no score, or the last of them.
LEMMA BatchOutcome ==
    ASSUME Typed, NEW f \in Flushers
    PROVE  Outcome(Replay(EmptyWorld, batch[f]), EmptyWorld, Range(batch[f]))
<1>1. EmptyWorld \in Worlds /\ batch[f] \in Seq(Entry)
  BY WorldTypes DEF Typed, MemoryTyped, InMemoryTyped
<1>2. QED
  BY <1>1, ReplayOutcome

\* Only the ticker flushes.
LEMMA OnlyTicker ==
    ASSUME OInv, NEW f \in Flushers, batch[f] # <<>>
    PROVE  f = "ticker" /\ phase = "up"
BY DEF OInv, Roles, Flushers

LEMMA PutKeepsOrder ==
    ASSUME Typed, OInv, NEW f \in Flushers, PutSegment(f)
    PROVE  OInv' /\ Covers(Recovered', kept')
<1> DEFINE a == batch["ticker"]
           b == walBuffer
           w == SnapshotWorld
           stored == Replay(EmptyWorld, a)
<1>1. f = "ticker" /\ a # <<>> /\ phase = "up" /\ Upload("ticker") /\ Flushed("ticker")
  BY OnlyTicker DEF PutSegment
<1>2. /\ phase' = "up" /\ batch' = [batch EXCEPT !["ticker"] = <<>>]
      /\ kept' = [board |-> kept.board \cup stored.board,
                  score |-> IF stored.score > kept.score THEN stored.score ELSE kept.score]
      /\ UNCHANGED <<given, phase, world, writing, walSeq, walBuffer, kills, signal, promised>>
      /\ UNCHANGED <<snapshot, saving, failures>>
  BY <1>1 DEF PutSegment, Flushed
<1>3. /\ First \in Nat /\ Taken \in Nat /\ First <= Taken
      /\ Keyed(segments') /\ Runs(segments')
      /\ DOMAIN segments' = DOMAIN segments \cup {<<First, Taken>>}
      /\ \A k \in DOMAIN segments : segments'[k] = segments[k]
      /\ Stored' = Stored \cup Range(a)
  BY <1>1, UploadFacts
<1>4. /\ Outcome(Recovered', w, Stored') /\ Best(Recovered', Stored')
      /\ Covers(Recovered', kept)
  BY <1>1, <1>2, UploadRecovers
<1>5. /\ a \in Seq(Entry) /\ b \in Seq(Entry) /\ Range(Memory) = Range(a) \cup Range(b)
      /\ All \in SUBSET Entry /\ walSeq \in Nat /\ Len(b) \in Nat
      /\ Consecutive(b, Taken + 1) /\ Taken + 1 = walSeq + 1 - Len(b)
      /\ \A e \in Range(a) : e.seq <= Taken
      /\ \A e \in Range(b) : Taken < e.seq
  BY <1>1, BatchTypes, NumberFacts DEF OInv
<1>6. w' = w
  BY <1>2 DEF SnapshotWorld
<1>7. batch'["ticker"] = <<>> /\ batch'["signal"] = batch["signal"]
  BY <1>2 DEF Typed, MemoryTyped, InMemoryTyped, Flushers
<1>8. Memory' = b
  BY <1>2, <1>5, <1>7 DEF Memory
<1>9. First' = Taken + 1 /\ Taken' = walSeq
  BY <1>2, <1>5, <1>7, <1>8 DEF First, Taken
<1>10. All' = All
  BY <1>3, <1>5, <1>8 DEF All
<1>11. Log'
  <2>1. /\ Agree(All) /\ EarnedBy(All, w.board) /\ Earned(w) /\ Before(segments, First, Taken)
    BY <1>1 DEF OInv, Log
  <2>2. \A k \in DOMAIN segments : k[2] \in Nat
    BY BatchTypes, ObjectFacts DEF OInv, Log
  <2>3. \A k \in DOMAIN segments' : k[2] < Taken + 1
    BY <1>3, <2>1, <2>2 DEF Before
  <2>4. Before(segments', Taken + 1, walSeq)
    BY <2>3 DEF Before
  <2>5. (Before(segments, First, Taken))'
    BY <1>9, <2>4
  <2>6. (Consecutive(Memory, First))'
    BY <1>5, <1>8, <1>9
  <2>7. Earned(w')
    BY <1>6, <2>1
  <2>8. QED
    BY <1>3, <1>6, <1>10, <2>1, <2>5, <2>6 DEF Log, Earned
<1>12. Roles'
  BY <1>1, <1>2, <1>7 DEF OInv, Roles
<1>13. Memories'
  <2>1. Tops(world, w) => Tops(world, w)'
    BY <1>2, <1>3, <1>6 DEF Tops
  <2>2. QED
    BY <1>1, <1>2, <1>6, <1>10, <2>1 DEF OInv, Memories, Earned, Holds, Commands, Unlogged
<1>14. Saves'
  BY <1>1, <1>2, UploadSaves
<1>15. /\ Outcome(stored, EmptyWorld, Range(a)) /\ stored \in Worlds /\ stored.score \in Nat
       /\ kept \in Worlds /\ kept.score \in Nat /\ Recovered' \in Worlds /\ (Recovered').score \in Nat
  <2>1. Outcome(stored, EmptyWorld, Range(a))
    BY <1>1, BatchOutcome
  <2>2. kept \in Worlds
    BY DEF Typed, MemoryTyped, InMemoryTyped
  <2>3. QED
    BY <1>4, <2>1, <2>2, WorldTypes DEF Outcome
<1>16. kept'.board = kept.board \cup stored.board
       /\ kept'.score \in {stored.score, kept.score}
  BY <1>2
<1> HIDE DEF stored
<1>17. Covers(Recovered', kept')
  <2>1. stored.board \subseteq (Recovered').board
    BY <1>3, <1>4, <1>15 DEF Outcome, EmptyWorld, Reveals
  <2>2. stored.score <= (Recovered').score
    <3>1. CASE Range(a) \cap ScoreEntry = {}
      BY <1>15, <3>1 DEF Outcome, EmptyWorld
    <3>2. CASE Range(a) \cap ScoreEntry # {}
      BY <1>3, <1>4, <1>15, <3>2 DEF Outcome, Best
    <3>3. QED
      BY <3>1, <3>2
  <2>3. QED
    BY <1>4, <1>16, <2>1, <2>2 DEF Covers
<1>18. \A e \in Range(b) \cap ScoreEntry : kept'.score <= e.score
  <2> SUFFICES ASSUME NEW e \in Range(b) \cap ScoreEntry  PROVE kept'.score <= e.score
    OBVIOUS
  <2>1. kept.score <= e.score /\ e.score \in Nat
    <3>1. e \in Range(Memory) \cap ScoreEntry /\ e \in Entry
      BY <1>5 DEF All
    <3>2. e.score \in Nat
      BY <3>1, EntryTypes
    <3>3. QED
      BY <3>1, <3>2 DEF OInv, Keeps
  <2>2. stored.score <= e.score
    <3>1. CASE Range(a) \cap ScoreEntry = {}
      BY <1>15, <2>1, <3>1 DEF Outcome, EmptyWorld
    <3>2. CASE Range(a) \cap ScoreEntry # {}
      <4>1. PICK g \in Range(a) \cap ScoreEntry : stored.score = g.score
        BY <1>15, <3>2 DEF Outcome
      <4>2. g \in All \cap ScoreEntry /\ e \in All \cap ScoreEntry
        BY <1>5, <4>1 DEF All
      <4>3. g.seq \in Nat /\ e.seq \in Nat /\ g.score \in Nat
        BY <1>5, <4>2, EntryTypes
      <4>4. g.seq < e.seq
        BY <1>3, <1>5, <4>1, <4>3
      <4>5. g.score < e.score
        BY <4>2, <4>4 DEF OInv, Log, Agree
      <4>6. QED
        BY <2>1, <4>1, <4>3, <4>5
    <3>3. QED
      BY <3>1, <3>2
  <2>3. QED
    BY <1>16, <2>1, <2>2
<1>19. Keeps'
  BY <1>8, <1>17, <1>18 DEF Keeps, Covers
<1>20. QED
  BY <1>11, <1>12, <1>13, <1>14, <1>17, <1>19 DEF OInv

LEMMA PutFailsKeepsOrder ==
    ASSUME Typed, OInv, NEW f \in Flushers, PutSegmentFails(f)
    PROVE  OInv'
<1> DEFINE a == batch["ticker"]
           b == walBuffer
           w == SnapshotWorld
<1>1. f = "ticker" /\ a # <<>> /\ phase = "up"
      /\ (Upload("ticker") \/ UNCHANGED segments) /\ Requeue("ticker")
  BY OnlyTicker DEF PutSegmentFails
<1>2. /\ phase' = "up" /\ batch' = [batch EXCEPT !["ticker"] = <<>>] /\ walBuffer' = a \o b
      /\ UNCHANGED <<given, phase, world, writing, walSeq, kept, kills, signal, promised>>
      /\ UNCHANGED <<snapshot, saving>>
  BY <1>1 DEF PutSegmentFails, Requeue
<1>3. /\ a \in Seq(Entry) /\ b \in Seq(Entry) /\ Memory = a \o b /\ Memory \in Seq(Entry)
      /\ walSeq \in Nat /\ Range(a) \subseteq Range(Memory)
      /\ Taken <= walSeq /\ Taken \in Int
  BY <1>1, BatchTypes, NumberFacts DEF OInv, Memory
<1>4. w' = w
  BY <1>2 DEF SnapshotWorld
<1>5. batch'["ticker"] = <<>> /\ batch'["signal"] = batch["signal"]
  BY <1>2 DEF Typed, MemoryTyped, InMemoryTyped, Flushers
<1>6. Memory' = Memory
  <2>1. Memory' = <<>> \o (a \o b)
    BY <1>2, <1>5 DEF Memory
  <2> HIDE DEF a, b
  <2>2. QED
    BY <1>3, <2>1
<1>7. First' = First /\ Taken' = walSeq
  BY <1>2, <1>5, <1>6 DEF First, Taken
<1>8. /\ Runs(segments') /\ Stored \subseteq Stored' /\ Stored' \subseteq Stored \cup Range(a)
      /\ \A k \in DOMAIN segments' : k[2] < First \/ (k[1] = First /\ k[2] <= Taken)
      /\ Saves' /\ Covers(Recovered', kept)
  <2>1. Before(segments, First, Taken) /\ Runs(segments) /\ Saves /\ Covers(Recovered, kept)
    BY <1>1 DEF OInv, Log, Keeps
  <2>2. CASE UNCHANGED segments
    <3>1. Stored' = Stored /\ Recovered' = Recovered
      BY <1>2, <2>2, SameStore
    <3>2. Saves'
      BY <1>2, <1>4, <2>1, <2>2, <3>1 DEF Saves, Earned, Tops, Holds, Covers
    <3>3. QED
      BY <2>1, <2>2, <3>1, <3>2 DEF Before
  <2>3. CASE Upload("ticker")
    <3>1. /\ First \in Nat /\ Taken \in Nat
          /\ Runs(segments') /\ DOMAIN segments' = DOMAIN segments \cup {<<First, Taken>>}
          /\ Stored' = Stored \cup Range(a)
      BY <1>1, <2>3, UploadFacts
    <3>2. Covers(Recovered', kept)
      BY <1>1, <1>2, <2>3, UploadRecovers
    <3>3. Saves'
      BY <1>1, <1>2, <2>3, UploadSaves
    <3>4. QED
      BY <2>1, <3>1, <3>2, <3>3 DEF Before
  <2>4. QED
    BY <1>1, <2>2, <2>3
<1>9. All' = All
  BY <1>3, <1>6, <1>8 DEF All
<1>10. Log'
  <2>1. /\ Agree(All) /\ EarnedBy(All, w.board) /\ Earned(w) /\ Consecutive(Memory, First)
        /\ Keyed(segments')
    BY <1>1, <1>2, BatchTypes, UploadFacts DEF OInv, Log
  <2>2. \A k \in DOMAIN segments' : k[2] \in Nat
    BY <1>8, <2>1, ObjectFacts
  <2>3. Before(segments', First, walSeq)
    BY <1>3, <1>8, <2>2 DEF Before
  <2>4. QED
    BY <1>4, <1>6, <1>7, <1>8, <1>9, <2>1, <2>3 DEF Log, Earned
<1>11. Roles'
  BY <1>1, <1>2, <1>5 DEF OInv, Roles
<1>12. Memories'
  <2>1. Tops(world, w) => Tops(world, w)'
    BY <1>2, <1>4, <1>8 DEF Tops
  <2>2. QED
    BY <1>1, <1>2, <1>4, <1>9, <2>1 DEF OInv, Memories, Earned, Holds, Commands, Unlogged
<1>13. Keeps'
  BY <1>2, <1>6, <1>8 DEF OInv, Keeps, Covers
<1>14. QED
  BY <1>8, <1>10, <1>11, <1>12, <1>13 DEF OInv

\* A save belongs to the loop of a server that is up, or to the boot.
LEMMA SaverFacts ==
    ASSUME Typed, OInv, NEW s \in Savers, saving[s] # Idle
    PROVE  /\ s \in {"loop", "boot"} /\ saving[s] \in Jobs
           /\ s = "loop" => phase = "up"
           /\ s = "boot" => phase = "booting"
           /\ \A t \in Savers : t # s => saving[t] = Idle
BY DEF Typed, InStoreTyped, OInv, Roles, Savers

\* A boot has rebuilt the world from the store and nothing else.
LEMMA BootingFacts ==
    ASSUME Typed, OInv, phase = "booting"
    PROVE  /\ world = Recovered /\ writing = <<>> /\ All = Stored /\ Range(Memory) = {}
           /\ Earned(world) /\ Tops(world, SnapshotWorld) /\ Holds(world, Stored)
           /\ world.board = SnapshotWorld.board \cup Reveals(Stored)
<1>1. world = Recovered
  BY DEF OInv, Roles
<1>2. QED
  BY <1>1, RecoveredFacts, NothingWaits DEF OInv, Outcome

LEMMA ListKeepsOrder ==
    ASSUME Typed, OInv, NEW s \in Savers, ListSegments(s)
    PROVE  OInv'
<1>1. /\ MaySave(s) /\ saving[s] = Idle
      /\ UNCHANGED <<given, phase, world, writing, walSeq, walBuffer, batch, kept, kills, signal, promised>>
      /\ UNCHANGED <<segments, snapshot, failures>>
  BY DEF ListSegments, journal, volatile
<1>2. (s = "loop" /\ phase = "up") \/ (s = "boot" /\ phase = "booting")
  BY <1>1 DEF MaySave, Savers, OInv, Roles
<1>3. PICK listed \in {DOMAIN segments, {}} :
         saving' = [saving EXCEPT ![s] = [at |-> "listed", listed |-> listed]]
  BY DEF ListSegments
<1>4. /\ saving'[s] = [at |-> "listed", listed |-> listed]
      /\ \A t \in Savers : t # s => saving'[t] = saving[t]
  BY <1>3 DEF Typed, InStoreTyped
<1>5. /\ SnapshotWorld' = SnapshotWorld /\ Stored' = Stored /\ Recovered' = Recovered
      /\ Memory' = Memory /\ All' = All /\ Log'
  BY <1>1, SameLog DEF OInv
<1>6. Roles'
  BY <1>1, <1>2, <1>4, <1>5 DEF OInv, Roles, Savers
<1>7. Memories'
  BY <1>1, <1>5 DEF OInv, Memories, Earned, Tops, Holds, Commands, Unlogged
<1>8. Saves'
  <2> SUFFICES ASSUME NEW t \in {"loop", "boot"}, saving'[t] # Idle
               PROVE  LET v == saving'[t] IN
                      /\ v.listed \subseteq DOMAIN segments
                      /\ \A k \in v.listed, l \in DOMAIN segments \ v.listed : KeyOrder(k, l)
                      /\ v.at = "captured" =>
                            /\ Earned(v.data) /\ Tops(v.data, SnapshotWorld) /\ Covers(world, v.data)
                            /\ Holds(v.data, Within(segments, v.listed))
                            /\ phase = "booting" => v.data = world
                      /\ v.at = "stored" => /\ Holds(SnapshotWorld, Within(segments, v.listed))
                                            /\ SnapshotWorld.score <= world.score
    BY <1>1, <1>5 DEF Saves, Earned, Tops, Covers, Holds
  <2>1. CASE t = s
    BY <1>3, <1>4, <2>1
  <2>2. CASE t # s
    <3>1. saving'[t] = saving[t]
      BY <1>4, <2>2 DEF Savers
    <3>2. QED
      BY <3>1 DEF OInv, Saves
  <2>3. QED
    BY <2>1, <2>2
<1>9. Keeps'
  BY <1>1, <1>5 DEF OInv, Keeps, Covers
<1>10. QED
  BY <1>5, <1>6, <1>7, <1>8, <1>9 DEF OInv

LEMMA CaptureKeepsOrder ==
    ASSUME Typed, OInv, NEW s \in Savers, Capture(s)
    PROVE  OInv'
<1>1. /\ saving[s].at = "listed" /\ writing = <<>>
      /\ saving' = [saving EXCEPT ![s] = [at |-> "captured", listed |-> saving[s].listed, data |-> world]]
      /\ UNCHANGED <<given, phase, world, writing, walSeq, walBuffer, batch, kept, kills, signal, promised>>
      /\ UNCHANGED <<segments, snapshot, failures>>
  BY DEF Capture, journal, volatile
<1>2. saving[s] # Idle
  BY <1>1 DEF Idle
<1>3. /\ s \in {"loop", "boot"} /\ \A t \in Savers : t # s => saving[t] = Idle
      /\ s = "loop" => phase = "up"
      /\ s = "boot" => phase = "booting"
  BY <1>2, SaverFacts
<1>4. /\ saving'[s] = [at |-> "captured", listed |-> saving[s].listed, data |-> world]
      /\ \A t \in Savers : t # s => saving'[t] = Idle
  BY <1>1, <1>3 DEF Typed, InStoreTyped
<1>5. /\ SnapshotWorld' = SnapshotWorld /\ Stored' = Stored /\ Recovered' = Recovered
      /\ Memory' = Memory /\ All' = All /\ Log'
  BY <1>1, SameLog DEF OInv
<1>6. Roles'
  BY <1>1, <1>3, <1>4, <1>5 DEF OInv, Roles, Savers
<1>7. Memories'
  BY <1>1, <1>5 DEF OInv, Memories, Earned, Tops, Holds, Commands, Unlogged
<1>8. Saves'
  <2>1. /\ saving[s].listed \subseteq DOMAIN segments
        /\ \A k \in saving[s].listed, l \in DOMAIN segments \ saving[s].listed : KeyOrder(k, l)
    BY <1>2, <1>3 DEF OInv, Saves
  <2>2. Earned(world) /\ Tops(world, SnapshotWorld) /\ Holds(world, Stored)
    <3>1. CASE s = "boot"
      BY <1>3, <3>1, BootingFacts
    <3>2. CASE s = "loop"
      BY <1>3, <3>2 DEF OInv, Memories, Holds, All, Reveals
    <3>3. QED
      BY <1>3, <3>1, <3>2
  <2>3. Holds(world, Within(segments, saving[s].listed))
    BY <2>1, <2>2 DEF Holds, Reveals, Within, Stored
  <2>4. Covers(world, world)
    <3>1. world.score \in Nat
      BY WorldTypes DEF Typed, MemoryTyped, InMemoryTyped
    <3>2. QED
      BY <3>1 DEF Covers
  <2> SUFFICES ASSUME NEW t \in {"loop", "boot"}, saving'[t] # Idle
               PROVE  LET v == saving'[t] IN
                      /\ v.listed \subseteq DOMAIN segments
                      /\ \A k \in v.listed, l \in DOMAIN segments \ v.listed : KeyOrder(k, l)
                      /\ v.at = "captured" =>
                            /\ Earned(v.data) /\ Tops(v.data, SnapshotWorld) /\ Covers(world, v.data)
                            /\ Holds(v.data, Within(segments, v.listed))
                            /\ phase = "booting" => v.data = world
                      /\ v.at # "stored"
    BY <1>1, <1>5 DEF Saves, Earned, Tops, Covers, Holds
  <2>5. t = s
    BY <1>4 DEF Savers
  <2>6. QED
    BY <1>4, <2>1, <2>2, <2>3, <2>4, <2>5
<1>9. Keeps'
  BY <1>1, <1>5 DEF OInv, Keeps, Covers
<1>10. QED
  BY <1>5, <1>6, <1>7, <1>8, <1>9 DEF OInv

\* A snapshot that is stored takes nothing from what a boot would rebuild.
LEMMA SnapshotFacts ==
    ASSUME Typed, OInv, NEW s \in Savers, saving[s].at = "captured", snapshot' = saving[s].data,
           UNCHANGED segments
    PROVE  /\ SnapshotWorld' = saving[s].data /\ saving[s].data \in Worlds
           /\ SnapshotWorld.board \subseteq saving[s].data.board
           /\ Earned(saving[s].data) /\ EarnedBy(All, saving[s].data.board)
           /\ Covers(world, saving[s].data) /\ Covers(Recovered', kept)
           /\ phase = "booting" => Recovered' = Recovered
<1> DEFINE d == saving[s].data
           w == SnapshotWorld
           r == Recovered'
<1>1. saving[s] # Idle
  BY DEF Idle
<1>2. s \in {"loop", "boot"} /\ saving[s] \in Jobs
  BY <1>1, SaverFacts
<1>3. d \in Worlds
  BY <1>2 DEF Jobs, Idle
<1>4. /\ Earned(d) /\ Tops(d, w) /\ Covers(world, d)
      /\ phase = "booting" => d = world
  BY <1>1, <1>2 DEF OInv, Saves
<1>5. SnapshotWorld' = d
  BY <1>3, SnapshotAssumption DEF SnapshotWorld
<1>6. w \in Worlds /\ Keyed(segments) /\ Runs(segments) /\ Agree(Stored)
  BY WorldTypes, BatchTypes DEF OInv, Log, Agree, All
<1>7. Recovered' = Recover(segments, d) /\ Stored = Within(segments, DOMAIN segments)
  BY <1>5, RecoveredIs
<1> HIDE DEF d, w, r
<1>8. Outcome(r, d, Stored) /\ Best(r, Stored)
  BY <1>3, <1>6, <1>7, RecoverFacts DEF r
<1>9. Outcome(Recovered, w, Stored) /\ Best(Recovered, Stored)
  BY RecoveredFacts DEF OInv, w
<1>10. w.board \subseteq d.board
  BY <1>4 DEF Tops
<1>11. EarnedBy(All, d.board)
  <2>1. All \in SUBSET Entry /\ EarnedBy(All, w.board) /\ w.board \in SUBSET Cells /\ d.board \in SUBSET Cells
    BY <1>3, <1>6, BatchTypes, WorldTypes DEF OInv, Log, w
  <2>2. QED
    BY <1>10, <2>1, EarnedByGrows
<1>12. r.score \in Nat /\ Recovered.score \in Nat /\ d.score \in Nat /\ r \in Worlds /\ Recovered \in Worlds
  BY <1>3, <1>8, <1>9, WorldTypes DEF Outcome
<1>13. Recovered.board \subseteq r.board
  BY <1>8, <1>9, <1>10 DEF Outcome
<1>14. ASSUME Stored \cap ScoreEntry # {}
       PROVE  Covers(r, kept) /\ r.score = Recovered.score
  <2>1. PICK e \in Stored \cap ScoreEntry : r.score = e.score
    BY <1>8, <1>14 DEF Outcome
  <2>2. PICK f \in Stored \cap ScoreEntry : Recovered.score = f.score
    BY <1>9, <1>14 DEF Outcome
  <2>3. r.score = Recovered.score
    BY <1>8, <1>9, <1>12, <2>1, <2>2 DEF Best
  <2>4. Covers(r, kept)
    BY <1>13, <2>3 DEF OInv, Keeps, Covers
  <2>5. QED
    BY <2>3, <2>4
<1>15. ASSUME Stored \cap ScoreEntry = {}
       PROVE  Covers(r, kept) /\ r.score = d.score
  <2>1. r.score = d.score /\ Recovered.score = w.score /\ w.score <= d.score
    BY <1>4, <1>8, <1>9, <1>15 DEF Outcome, Tops, w
  <2>2. kept.score <= Recovered.score /\ kept.board \subseteq Recovered.board /\ kept.score \in Nat
    BY WorldTypes DEF OInv, Keeps, Covers, Typed, MemoryTyped, InMemoryTyped
  <2>3. Covers(r, kept)
    BY <1>12, <1>13, <2>1, <2>2 DEF Covers
  <2>4. QED
    BY <2>1, <2>3
<1>16. Covers(r, kept) /\ r.score \in {Recovered.score, d.score}
  BY <1>14, <1>15
<1>17. ASSUME phase = "booting"  PROVE r = Recovered
  <2>1. d = Recovered
    BY <1>4, <1>17, BootingFacts
  <2>2. r.score = Recovered.score
    BY <1>16, <2>1
  <2>3. r.board = Recovered.board
    BY <1>8, <1>9, <2>1 DEF Outcome
  <2>4. QED
    BY <1>12, <2>2, <2>3 DEF Worlds
<1>18. QED
  BY <1>3, <1>4, <1>5, <1>10, <1>11, <1>16, <1>17 DEF d, w, r

LEMMA SnapshotKeepsOrder ==
    ASSUME Typed, OInv, NEW s \in Savers, PutSnapshot(s)
    PROVE  OInv' /\ (phase = "booting" => Recovered' = Recovered)
<1> DEFINE d == saving[s].data
<1>1. /\ saving[s].at = "captured" /\ snapshot' = d
      /\ saving' = [saving EXCEPT ![s] = [at |-> "stored", listed |-> saving[s].listed]]
      /\ UNCHANGED <<given, phase, world, writing, walSeq, walBuffer, batch, kept, kills, signal, promised>>
      /\ UNCHANGED <<segments, failures>>
  BY DEF PutSnapshot, Deletable, journal, volatile
<1>2. saving[s] # Idle
  BY <1>1 DEF Idle
<1>3. /\ s \in {"loop", "boot"} /\ \A t \in Savers : t # s => saving[t] = Idle
      /\ s = "loop" => phase = "up"
      /\ s = "boot" => phase = "booting"
  BY <1>2, SaverFacts
<1>4. /\ saving'[s] = [at |-> "stored", listed |-> saving[s].listed]
      /\ \A t \in Savers : t # s => saving'[t] = Idle
  BY <1>1, <1>3 DEF Typed, InStoreTyped
<1>5. /\ SnapshotWorld' = d /\ d \in Worlds /\ SnapshotWorld.board \subseteq d.board
      /\ Earned(d) /\ EarnedBy(All, d.board)
      /\ Covers(world, d) /\ Covers(Recovered', kept)
      /\ phase = "booting" => Recovered' = Recovered
  BY <1>1, SnapshotFacts
<1> HIDE DEF d
<1>6. Stored' = Stored /\ Memory' = Memory
  BY <1>1 DEF Stored, Memory
<1>7. All' = All /\ First' = First
  BY <1>1, <1>6 DEF All, First
<1>8. Taken' = Taken
  BY <1>1, <1>7 DEF Taken
<1>9. Log'
  BY <1>1, <1>5, <1>6, <1>7, <1>8 DEF OInv, Log, Earned
<1>10. Roles'
  BY <1>1, <1>3, <1>4, <1>5 DEF OInv, Roles, Savers
<1>11. Memories'
  <2>1. Tops(world, d)
    BY <1>5 DEF Tops, Covers
  <2>2. Tops(world, SnapshotWorld)'
    BY <1>1, <1>5, <1>6, <2>1 DEF Tops
  <2>3. phase = "up" => world.board \subseteq d.board \cup Reveals(All) \cup Unlogged
    BY <1>5 DEF OInv, Memories
  <2>4. QED
    BY <1>1, <1>5, <1>7, <2>2, <2>3 DEF OInv, Memories, Earned, Holds, Commands, Unlogged
<1>12. Saves'
  <2>1. /\ saving[s].listed \subseteq DOMAIN segments
        /\ \A k \in saving[s].listed, l \in DOMAIN segments \ saving[s].listed : KeyOrder(k, l)
        /\ Holds(d, Within(segments, saving[s].listed))
    BY <1>1, <1>2, <1>3 DEF OInv, Saves, d
  <2> SUFFICES ASSUME NEW t \in {"loop", "boot"}, saving'[t] # Idle
               PROVE  LET v == saving'[t] IN
                      /\ v.listed \subseteq DOMAIN segments
                      /\ \A k \in v.listed, l \in DOMAIN segments \ v.listed : KeyOrder(k, l)
                      /\ v.at # "captured"
                      /\ v.at = "stored" => /\ Holds(d, Within(segments, v.listed))
                                            /\ d.score <= world.score
    BY <1>1, <1>5 DEF Saves, Earned, Tops, Covers, Holds
  <2>2. t = s
    BY <1>4 DEF Savers
  <2>3. d.score <= world.score
    BY <1>5 DEF Covers
  <2>4. QED
    BY <1>4, <2>1, <2>2, <2>3
<1>13. Keeps'
  BY <1>1, <1>5, <1>6 DEF OInv, Keeps, Covers
<1>14. QED
  BY <1>5, <1>9, <1>10, <1>11, <1>12, <1>13 DEF OInv

LEMMA SnapshotFailsKeepsOrder ==
    ASSUME Typed, OInv, NEW s \in Savers, PutSnapshotFails(s)
    PROVE  OInv' /\ (phase = "booting" => world' = Recovered)
<1> DEFINE d == saving[s].data
<1>1. /\ saving[s].at = "captured" /\ snapshot' \in {snapshot, d} /\ SaveReturns(s)
      /\ UNCHANGED segments
  BY DEF PutSnapshotFails
<1>2. saving[s] # Idle
  BY <1>1 DEF Idle
<1>3. /\ s \in {"loop", "boot"} /\ \A t \in Savers : t # s => saving[t] = Idle
      /\ s = "loop" => phase = "up"
      /\ s = "boot" => phase = "booting"
  BY <1>2, SaverFacts
<1>4. /\ phase' = "up"
      /\ UNCHANGED <<given, world, writing, walSeq, walBuffer, batch, kept, kills, signal, promised>>
      /\ \A t \in Savers : saving'[t] = Idle
  <2>1. saving' = [saving EXCEPT ![s] = Idle]
    BY <1>1, <1>3 DEF SaveReturns
  <2>2. \A t \in Savers : saving'[t] = Idle
    BY <1>3, <2>1 DEF Typed, InStoreTyped
  <2>3. QED
    BY <1>1, <1>3, <2>2 DEF SaveReturns, journal, volatile
<1>5. phase \in {"booting", "up"}
  BY <1>3
<1>6. Stored' = Stored /\ Memory' = Memory
  BY <1>1, <1>4 DEF Stored, Memory
<1>7. All' = All /\ First' = First
  BY <1>4, <1>6 DEF All, First
<1>8. Taken' = Taken
  BY <1>4, <1>7 DEF Taken
\* Before the step the server is, or could be, up.
<1>9. /\ Earned(world) /\ Tops(world, SnapshotWorld) /\ Holds(world, All) /\ Commands
      /\ writing # <<>> => \A e \in All \cap ScoreEntry : e.score < world.score
      /\ world.board \subseteq SnapshotWorld.board \cup Reveals(All) \cup Unlogged
  <2>1. CASE phase = "up"
    BY <2>1 DEF OInv, Memories
  <2>2. CASE phase = "booting"
    BY <2>2, BootingFacts DEF Commands
  <2>3. QED
    BY <1>5, <2>1, <2>2
<1>10. /\ SnapshotWorld.board \subseteq SnapshotWorld'.board
       /\ Earned(SnapshotWorld') /\ EarnedBy(All, SnapshotWorld'.board)
       /\ Tops(world, SnapshotWorld') /\ Covers(Recovered', kept)
  <2>1. CASE snapshot' = d
    <3>1. /\ SnapshotWorld' = d /\ SnapshotWorld.board \subseteq d.board
          /\ Earned(d) /\ EarnedBy(All, d.board)
          /\ Covers(world, d) /\ Covers(Recovered', kept)
      BY <1>1, <2>1, SnapshotFacts
    <3>2. Tops(world, d)
      BY <3>1 DEF Tops, Covers
    <3>3. QED
      BY <3>1, <3>2
  <2>2. CASE snapshot' = snapshot
    <3>1. SnapshotWorld' = SnapshotWorld /\ Recovered' = Recovered
      BY <1>1, <2>2, SameStore
    <3>2. QED
      BY <1>9, <3>1 DEF OInv, Log, Keeps
  <2>3. QED
    BY <1>1, <2>1, <2>2
<1>11. Log'
  BY <1>1, <1>4, <1>5, <1>6, <1>7, <1>8, <1>10 DEF OInv, Log, Earned
<1>12. Roles'
  BY <1>4 DEF OInv, Roles, Savers
<1>13. Memories'
  <2>1. Tops(world, SnapshotWorld)'
    BY <1>4, <1>6, <1>10 DEF Tops
  <2>2. world.board \subseteq SnapshotWorld'.board \cup Reveals(All) \cup Unlogged
    BY <1>9, <1>10
  <2>3. QED
    BY <1>4, <1>7, <1>9, <2>1, <2>2 DEF Memories, Earned, Holds, Commands, Unlogged
<1>14. Saves'
  BY <1>4 DEF Saves, Savers
<1>15. Keeps'
  BY <1>4, <1>6, <1>10 DEF OInv, Keeps, Covers
<1>16. phase = "booting" => world' = Recovered
  BY <1>4, BootingFacts
<1>17. QED
  BY <1>11, <1>12, <1>13, <1>14, <1>15, <1>16 DEF OInv

\* Segments that come first in the log and are held by the snapshot may go.
LEMMA DeleteFacts ==
    ASSUME Typed, OInv, NEW gone \in SUBSET DOMAIN segments,
           segments' = [k \in DOMAIN segments \ gone |-> segments[k]], UNCHANGED snapshot,
           \A k \in gone, l \in DOMAIN segments \ gone : KeyOrder(k, l),
           Holds(SnapshotWorld, Within(segments, gone)),
           NEW E \in SUBSET All, E \subseteq Stored' \cup Range(Memory), Stored' \subseteq E,
           Range(Memory) \subseteq E
    PROVE  /\ SnapshotWorld' = SnapshotWorld /\ Stored' \subseteq Stored
           /\ Runs(segments') /\ Agree(E) /\ EarnedBy(E, SnapshotWorld.board)
           /\ Reveals(All) \subseteq SnapshotWorld.board \cup Reveals(E)
           /\ Covers(Recovered', kept)
<1> DEFINE w == SnapshotWorld
           G == Within(segments, gone)
           segs == segments'
           F == Within(segs, DOMAIN segs)
           r == Recovered'
<1>1. w' = w /\ w \in Worlds
  BY WorldTypes DEF SnapshotWorld
<1>2. /\ DOMAIN segs = DOMAIN segments \ gone /\ DOMAIN segs \subseteq DOMAIN segments
      /\ \A k \in DOMAIN segs : segs[k] = segments[k]
  OBVIOUS
<1>3. Stored' = F
  BY DEF Stored
<1>4. Keyed(segments) /\ Runs(segments) /\ Agree(All) /\ EarnedBy(All, w.board) /\ All \in SUBSET Entry
  BY BatchTypes DEF OInv, Log
<1>5. Stored = F \cup G
  BY <1>2 DEF Stored, Within
<1>6. Keyed(segs)
  <2>1. IsFiniteSet(DOMAIN segs) /\ DOMAIN segs \subseteq Nat \X Nat
    BY <1>2, <1>4, FS_Subset DEF Keyed
  <2>2. segs \in [DOMAIN segs -> Seq(Entry)]
    BY <1>2, <1>4 DEF Keyed
  <2> HIDE DEF segs
  <2>3. QED
    BY <2>1, <2>2 DEF Keyed
<1> HIDE DEF segs, w, G
<1>7. Runs(segs)
  BY <1>2, <1>4 DEF Runs
<1>8. Agree(E) /\ Agree(F) /\ Agree(Stored)
  <2>1. F \subseteq All /\ Stored \subseteq All
    BY <1>5 DEF All
  <2> HIDE DEF F
  <2>2. QED
    BY <1>4, <2>1 DEF Agree
<1>9. r = Recover(segs, w)
  BY <1>1, RecoveredIs DEF segs, w, r
<1>10. Outcome(r, w, F) /\ Best(r, F)
  <2> DEFINE H == F
  <2>1. H = Within(segs, DOMAIN segs) /\ Agree(H)
    BY <1>8
  <2> HIDE DEF H
  <2>2. Outcome(Recover(segs, w), w, H) /\ Best(Recover(segs, w), H)
    BY <1>1, <1>6, <1>7, <2>1, RecoverFacts
  <2>3. QED
    BY <1>9, <2>2 DEF H
<1>11. Outcome(Recovered, w, Stored) /\ Covers(Recovered, kept)
  BY RecoveredFacts DEF OInv, Keeps, w
<1>12. Holds(w, G) /\ w.board \in SUBSET Cells
  BY <1>1, WorldTypes DEF w, G
\* An entry that is gone is held by the snapshot.
<1>13. All \ E \subseteq G
  BY <1>3, <1>5 DEF All
<1>14. EarnedBy(E, w.board)
  <2>1. \A e \in E, f \in All \ E : f.seq < e.seq => Reveals({f}) \subseteq w.board
    BY <1>12, <1>13 DEF Holds, Reveals
  <2> DEFINE A == All
             b == w.board
  <2>2. /\ A \in SUBSET Entry /\ E \in SUBSET A /\ b \in SUBSET Cells /\ EarnedBy(A, b)
        /\ \A e \in E, f \in A \ E : f.seq < e.seq => Reveals({f}) \subseteq b
    BY <1>4, <1>12, <2>1
  <2> HIDE DEF A, b
  <2>3. EarnedBy(E, b)
    BY <2>2, EarnedByGrows
  <2>4. QED
    BY <2>3 DEF b
<1>15. Reveals(All) \subseteq w.board \cup Reveals(E)
  BY <1>12, <1>13 DEF Holds, Reveals
\* A score that remains is no smaller than one that is gone.
<1>16. ASSUME NEW e \in F \cap ScoreEntry, NEW g \in G \cap ScoreEntry
       PROVE  \E f \in F \cap ScoreEntry : g.score <= f.score
  <2>1. PICK l \in DOMAIN segs : e \in Range(segments[l])
    BY <1>2 DEF Within
  <2>2. PICK k \in gone : g \in Range(segments[k])
    BY DEF Within, G
  <2>3. l \in DOMAIN segments \ gone
    BY <1>2, <2>1
  <2>4. KeyOrder(k, l)
    BY <2>2, <2>3
  <2>5. Agree(Within(segments, DOMAIN segments))
    BY <1>8 DEF Stored
  <2>6. (g.seq \in Nat /\ g.seq < l[1]) \/ g \in Range(segments[l])
    BY <1>4, <2>2, <2>3, <2>4, <2>5, EarlierObject
  <2>7. e \in Entry /\ l[1] <= e.seq /\ l[1] \in Nat
    BY <1>4, <2>1, <2>3, ObjectFacts
  <2>8. e.seq \in Nat /\ e.score \in Nat /\ g.score \in Nat
    BY <1>4, <2>7, EntryTypes DEF Entry
  <2>9. CASE g.seq \in Nat /\ g.seq < l[1]
    <3>1. g.seq < e.seq
      BY <2>7, <2>8, <2>9
    <3>2. g \in Stored /\ e \in Stored
      BY <1>5
    <3>3. g.score < e.score
      BY <1>8, <3>1, <3>2 DEF Agree
    <3>4. QED
      BY <2>8, <3>3
  <2>10. CASE g \in Range(segments[l])
    <3>1. g \in F
      BY <1>2, <2>1, <2>10 DEF Within
    <3>2. g.score <= g.score
      BY <2>8
    <3>3. QED
      BY <3>1, <3>2
  <2>11. QED
    BY <2>6, <2>9, <2>10
<1> HIDE DEF F, r
<1>17. Covers(r, kept)
  <2>1. Recovered.board \subseteq r.board
    BY <1>5, <1>10, <1>11, <1>12 DEF Outcome, Holds, Reveals
  <2>2. /\ r.score \in Nat /\ Recovered.score \in Nat /\ w.score \in Nat /\ kept.score \in Nat
        /\ kept.score <= Recovered.score
    BY <1>1, <1>10, <1>11, WorldTypes DEF Outcome, Covers, Typed, MemoryTyped, InMemoryTyped
  <2>3. Recovered.score <= r.score
    <3>1. CASE Stored \cap ScoreEntry = {}
      BY <1>5, <1>10, <1>11, <2>2, <3>1 DEF Outcome
    <3>2. ASSUME NEW g \in Stored \cap ScoreEntry, Recovered.score = g.score
          PROVE  Recovered.score <= r.score
      <4>1. CASE g \in F
        BY <1>10, <3>2, <4>1 DEF Best
      <4>2. CASE g \in G /\ F \cap ScoreEntry = {}
        BY <1>10, <1>12, <3>2, <4>2 DEF Outcome, Holds
      <4>3. CASE g \in G /\ F \cap ScoreEntry # {}
        <5>1. PICK f \in F \cap ScoreEntry : g.score <= f.score
          BY <1>16, <4>3
        <5>2. f.score <= r.score /\ f.score \in Nat
          <6>1. f \in Entry
            BY <5>1 DEF Entry
          <6>2. QED
            BY <1>10, <5>1, <6>1, EntryTypes DEF Best
        <5>3. QED
          BY <2>2, <3>2, <5>1, <5>2
      <4>4. QED
        BY <1>5, <4>1, <4>2, <4>3
    <3>3. QED
      BY <1>11, <3>1, <3>2 DEF Outcome
  <2>4. QED
    BY <1>11, <2>1, <2>2, <2>3 DEF Covers
<1>18. QED
  BY <1>1, <1>3, <1>5, <1>7, <1>8, <1>14, <1>15, <1>17 DEF w, r, segs

LEMMA DeleteKeepsOrder ==
    ASSUME Typed, OInv, "skip" \notin given.may, NEW s \in Savers, DeleteSegments(s)
    PROVE  OInv' /\ (phase = "booting" => world' = Recovered)
<1>1. saving[s].at = "stored" /\ SaveReturns(s) /\ snapshot' = snapshot
  BY DEF DeleteSegments
<1>2. saving[s] # Idle
  BY <1>1 DEF Idle
<1>3. /\ s \in {"loop", "boot"} /\ \A t \in Savers : t # s => saving[t] = Idle
      /\ s = "loop" => phase = "up"
      /\ s = "boot" => phase = "booting"
  BY <1>2, SaverFacts
<1>4. /\ phase' = "up"
      /\ UNCHANGED <<given, world, writing, walSeq, walBuffer, batch, kept, kills, signal, promised>>
      /\ \A t \in Savers : saving'[t] = Idle
  <2>1. saving' = [saving EXCEPT ![s] = Idle]
    BY <1>1, <1>3 DEF SaveReturns
  <2>2. \A t \in Savers : saving'[t] = Idle
    BY <1>3, <2>1 DEF Typed, InStoreTyped
  <2>3. QED
    BY <1>1, <1>3, <2>2 DEF SaveReturns, journal, volatile
<1>5. phase \in {"booting", "up"}
  BY <1>3
<1>6. /\ saving[s].listed \subseteq DOMAIN segments
      /\ \A k \in saving[s].listed, l \in DOMAIN segments \ saving[s].listed : KeyOrder(k, l)
      /\ Holds(SnapshotWorld, Within(segments, saving[s].listed))
      /\ SnapshotWorld.score <= world.score
  BY <1>1, <1>2, <1>3 DEF OInv, Saves
<1>7. PICK gone \in SUBSET saving[s].listed :
         /\ \A k \in gone, l \in saving[s].listed \ gone : KeyOrder(k, l)
         /\ segments' = [k \in DOMAIN segments \ gone |-> segments[k]]
  BY DEF DeleteSegments
<1>8. /\ gone \in SUBSET DOMAIN segments
      /\ \A k \in gone, l \in DOMAIN segments \ gone : KeyOrder(k, l)
      /\ Holds(SnapshotWorld, Within(segments, gone))
  BY <1>6, <1>7 DEF Holds, Reveals, Within
<1>9. Memory' = Memory
  BY <1>4 DEF Memory
<1>10. All' = Stored' \cup Range(Memory) /\ First' = First /\ Stored' \subseteq Stored
  <2>1. \A k \in DOMAIN segments' : k \in DOMAIN segments /\ segments'[k] = segments[k]
    BY <1>7
  <2>2. QED
    BY <1>4, <1>9, <2>1 DEF All, First, Stored, Within
<1>11. Taken' = Taken
  BY <1>4, <1>10 DEF Taken
<1>12. All' \subseteq All
  BY <1>10 DEF All
<1> DEFINE E == All'
<1>13. /\ SnapshotWorld' = SnapshotWorld
       /\ Runs(segments') /\ Agree(E) /\ EarnedBy(E, SnapshotWorld.board)
       /\ Reveals(All) \subseteq SnapshotWorld.board \cup Reveals(E)
       /\ Covers(Recovered', kept)
  <2>1. E \in SUBSET All /\ E \subseteq Stored' \cup Range(Memory) /\ Stored' \subseteq E /\ Range(Memory) \subseteq E
    BY <1>10, <1>12
  <2> HIDE DEF E
  <2>2. QED
    BY <1>1, <1>7, <1>8, <2>1, DeleteFacts
<1>14. /\ Earned(world) /\ Tops(world, SnapshotWorld) /\ Holds(world, All) /\ Commands
       /\ writing # <<>> => \A e \in All \cap ScoreEntry : e.score < world.score
       /\ world.board \subseteq SnapshotWorld.board \cup Reveals(All) \cup Unlogged
  <2>1. CASE phase = "up"
    BY <2>1 DEF OInv, Memories
  <2>2. CASE phase = "booting"
    BY <2>2, BootingFacts DEF Commands
  <2>3. QED
    BY <1>5, <2>1, <2>2
<1>15. Log'
  <2>1. Consecutive(Memory, First) /\ Before(segments, First, Taken) /\ Earned(SnapshotWorld)
    BY <1>5 DEF OInv, Log
  <2>2. Before(segments', First, Taken)
    BY <1>7, <2>1 DEF Before
  <2>3. QED
    BY <1>9, <1>10, <1>11, <1>13, <2>1, <2>2 DEF Log, Earned
<1>16. Roles'
  BY <1>4 DEF OInv, Roles, Savers
<1>17. Memories'
  <2>1. Tops(world, SnapshotWorld)'
    BY <1>4, <1>6, <1>13, <1>14 DEF Tops
  <2>2. Holds(world, All)'
    BY <1>4, <1>12, <1>14 DEF Holds, Reveals
  <2>3. writing # <<>> => \A e \in All' \cap ScoreEntry : e.score < world.score
    BY <1>12, <1>14
  <2>4. world.board \subseteq SnapshotWorld.board \cup Reveals(All') \cup Unlogged
    BY <1>13, <1>14
  <2>5. QED
    BY <1>4, <1>13, <1>14, <2>1, <2>2, <2>3, <2>4 DEF Memories, Earned, Commands, Unlogged
<1>18. Saves'
  BY <1>4 DEF Saves, Savers
<1>19. Keeps'
  BY <1>4, <1>9, <1>13 DEF OInv, Keeps, Covers
<1>20. phase = "booting" => world' = Recovered
  BY <1>4, BootingFacts
<1>21. QED
  BY <1>15, <1>16, <1>17, <1>18, <1>19, <1>20 DEF OInv

LEMMA DieKeepsOrder ==
    ASSUME Typed, OInv, Die
    PROVE  OInv'
<1>1. /\ phase' = "down" /\ signal' = "none" /\ world' = EmptyWorld /\ writing' = <<>>
      /\ walSeq' = 0 /\ walBuffer' = <<>> /\ batch' = [f \in Flushers |-> <<>>]
      /\ saving' = [s \in Savers |-> Idle]
      /\ UNCHANGED <<given, kept, promised, segments, snapshot, failures>>
      /\ phase \in {"booting", "up"}
  BY DEF Die, Kill, LoseMemory
<1>2. batch'["ticker"] = <<>> /\ batch'["signal"] = <<>> /\ \A s \in Savers : saving'[s] = Idle
  BY <1>1 DEF Flushers
<1>3. SnapshotWorld' = SnapshotWorld /\ Stored' = Stored /\ Recovered' = Recovered
  BY <1>1, SameStore
<1>4. Roles'
  BY <1>1, <1>2 DEF Roles, Savers
<1>5. Range(Memory') = {}
  <2>1. Memory' = <<>> \o <<>>
    BY <1>1, <1>2 DEF Memory
  <2>2. Memory' = <<>>
    BY <2>1
  <2>3. QED
    BY <2>2 DEF Range
<1>6. All' = Stored
  BY <1>3, <1>5 DEF All
<1>7. Agree(Stored) /\ EarnedBy(Stored, SnapshotWorld.board) /\ Runs(segments) /\ Earned(SnapshotWorld)
  <2> DEFINE A == All
             b == SnapshotWorld.board
             S == Stored
  <2>1. /\ A \in SUBSET Entry /\ S \in SUBSET A /\ b \in SUBSET Cells
        /\ EarnedBy(A, b) /\ Agree(A) /\ Runs(segments) /\ Earned(SnapshotWorld)
    BY BatchTypes, WorldTypes DEF OInv, Log, All
  <2>2. \A e \in S, f \in A \ S : f.seq < e.seq => Reveals({f}) \subseteq b
    BY <1>1, StoredFirst DEF OInv
  <2> HIDE DEF A, b, S
  <2>3. EarnedBy(S, b)
    BY <2>1, <2>2, EarnedByGrows
  <2>4. Agree(S)
    BY <2>1 DEF Agree
  <2>5. QED
    BY <2>1, <2>3, <2>4 DEF A, b, S
<1>8. Log'
  BY <1>1, <1>3, <1>6, <1>7 DEF Log, Earned
<1>9. Memories'
  BY <1>1 DEF Memories
<1>10. Saves'
  BY <1>2 DEF Saves, Savers
<1>11. Keeps'
  BY <1>1, <1>3, <1>5 DEF OInv, Keeps, Covers
<1>12. QED
  BY <1>4, <1>8, <1>9, <1>10, <1>11 DEF OInv

\* A boot numbers on where the log ends.
LEMMA BootKeepsOrder ==
    ASSUME Typed, OInv, Boot
    PROVE  OInv' /\ world' = Recovered
<1>1. /\ phase = "down" /\ phase' \in {"booting", "up"}
      /\ world' = Recovered /\ walSeq' = SeqAfter(Logged(DOMAIN segments))
      /\ UNCHANGED <<given, writing, walBuffer, batch, kept, kills, signal, promised,
                     segments, snapshot, saving, failures>>
  BY DEF Boot, Start, Recovered
<1>2. /\ Range(Memory) = {} /\ Memory = <<>> /\ All = Stored /\ writing = <<>>
  BY <1>1, NothingWaits DEF OInv
<1>3. Memory' = Memory /\ SnapshotWorld' = SnapshotWorld /\ Stored' = Stored /\ Recovered' = Recovered
  BY <1>1, SameStore DEF Memory
<1>4. All' = Stored
  BY <1>2, <1>3 DEF All
<1>5. Keyed(segments) /\ Runs(segments)
  BY BatchTypes DEF OInv, Log
<1>6. walSeq' \in Nat /\ \A e \in Stored : e.seq <= walSeq'
  <2>1. Logged(DOMAIN segments) = LogOf(segments, DOMAIN segments)
    BY DEF Logged, LogOf
  <2> DEFINE L == LogOf(segments, DOMAIN segments)
  <2>2. L \in Seq(Entry) /\ Range(L) = Stored
    BY <1>5, LogFacts DEF Stored
  <2> HIDE DEF L
  <2>3. SeqAfter(L) \in Nat /\ \A e \in Range(L) : e.seq <= SeqAfter(L)
    BY <2>2, SeqAfterFacts
  <2>4. QED
    BY <1>1, <2>1, <2>2, <2>3 DEF L
<1>7. First' = walSeq' + 1
  BY <1>2, <1>3, <1>6 DEF First
<1>8. \A k \in DOMAIN segments : k[2] < First'
  <2> TAKE k \in DOMAIN segments
  <2>1. k[2] \in Nat /\ k[1] <= k[2] /\ k[1] \in Nat
        /\ \A n \in Nat : k[1] <= n /\ n <= k[2] => \E e \in Range(segments[k]) : e.seq = n
    BY <1>5, ObjectFacts
  <2>2. PICK e \in Range(segments[k]) : e.seq = k[2]
    BY <2>1
  <2>3. e \in Stored
    BY <2>2 DEF Stored, Within
  <2>4. k[2] <= walSeq'
    BY <1>6, <2>2, <2>3
  <2>5. QED
    BY <1>6, <1>7, <2>1, <2>4
<1>9. Log'
  <2>1. (Before(segments, First, Taken))'
    BY <1>1, <1>8 DEF Before
  <2>2. (Consecutive(Memory, First))'
    BY <1>2, <1>3 DEF Consecutive
  <2>3. QED
    BY <1>1, <1>2, <1>3, <1>4, <2>1, <2>2 DEF OInv, Log, Earned
<1>10. Roles'
  BY <1>1, <1>3 DEF OInv, Roles
<1>11. /\ Earned(Recovered) /\ Tops(Recovered, SnapshotWorld) /\ Holds(Recovered, Stored)
       /\ Outcome(Recovered, SnapshotWorld, Stored)
  BY RecoveredFacts DEF OInv
<1>12. Memories'
  <2>1. Tops(world, SnapshotWorld)'
    BY <1>1, <1>3, <1>11 DEF Tops
  <2>2. Recovered.board \subseteq SnapshotWorld.board \cup Reveals(Stored)
    BY <1>11 DEF Outcome
  <2>3. QED
    BY <1>1, <1>2, <1>3, <1>4, <1>11, <2>1, <2>2 DEF Memories, Earned, Holds, Commands, Unlogged
<1>13. Saves'
  BY <1>1 DEF OInv, Roles, Saves, Savers
<1>14. Keeps'
  BY <1>1, <1>2, <1>3 DEF OInv, Keeps, Covers
<1>15. QED
  BY <1>1, <1>9, <1>10, <1>12, <1>13, <1>14 DEF OInv

LEMMA OrderAtFirst ==
    ASSUME Init  PROVE OInv
<1>1. /\ phase = "down" /\ signal = "none" /\ world = EmptyWorld /\ writing = <<>> /\ walSeq = 0
      /\ walBuffer = <<>> /\ batch = [f \in Flushers |-> <<>>] /\ kept = EmptyWorld
      /\ segments = <<>> /\ snapshot = NoSnapshot /\ saving = [s \in Savers |-> Idle]
  BY DEF Init, JournalInit
<1>2. Typed
  BY TypedAtFirst
<1>3. batch["ticker"] = <<>> /\ batch["signal"] = <<>> /\ \A s \in Savers : saving[s] = Idle
  BY <1>1 DEF Flushers
<1>4. Roles
  BY <1>1, <1>3 DEF Roles, Savers
<1>5. DOMAIN segments = {}
  BY <1>1
<1>6. Stored = {} /\ Range(Memory) = {} /\ All = {}
  BY <1>1, <1>2, <1>4, <1>5, NothingWaits DEF Stored, Within
<1>7. SnapshotWorld = EmptyWorld
  BY <1>1 DEF SnapshotWorld
<1>8. Cardinality({}) = 0
  BY FS_EmptySet
<1>9. Log
  BY <1>1, <1>5, <1>6, <1>7, <1>8 DEF Log, Runs, Agree, EarnedBy, Earned, EmptyWorld
<1>10. Recovered = EmptyWorld
  <2>1. Outcome(Recovered, EmptyWorld, {})
    BY <1>2, <1>4, <1>6, <1>7, <1>9, RecoveredFacts
  <2>2. Recovered \in Worlds /\ Recovered.board = {} /\ Recovered.score = 0
    BY <2>1 DEF Outcome, EmptyWorld, Reveals
  <2>3. QED
    BY <2>2 DEF Worlds, EmptyWorld
<1>11. Keeps
  BY <1>1, <1>6, <1>10 DEF Keeps, Covers, EmptyWorld
<1>12. QED
  BY <1>1, <1>3, <1>4, <1>9, <1>11 DEF OInv, Memories, Saves, Savers

\* The circumstances of a behaviour do not change.
LEMMA SameCircumstances ==
    ASSUME [Next]_vars  PROVE given' = given
BY DEF Next, InMemory, Command, WriteWALEntry, TakeBuffer, PutSegment, PutSegmentFails, Flushed, Requeue,
       ListSegments, Capture, PutSnapshot, PutSnapshotFails, DeleteSegments, SaveReturns, Exit, LoseMemory,
       Signal, SignalFlushed, Die, Kill, Boot, BootWithReadError, Start, vars, journal, Savers

LEMMA OrderlyPreserved ==
    ASSUME Typed, Orderly, [Next]_vars  PROVE Orderly'
<1> SUFFICES ASSUME OrdinaryFaults'  PROVE OInv'
  BY DEF Orderly
<1>1. given.may \subseteq {"periodic"} /\ OInv
  BY SameCircumstances DEF Orderly, OrdinaryFaults
<1>2. ASSUME NEW f \in Flushers, InMemory(TakeBuffer(f)) \/ PutSegment(f) \/ PutSegmentFails(f)
      PROVE  OInv'
  BY <1>1, <1>2, TakeKeepsOrder, PutKeepsOrder, PutFailsKeepsOrder
<1>3. ASSUME NEW s \in Savers,
             \/ ListSegments(s) \/ Capture(s) \/ PutSnapshot(s) \/ PutSnapshotFails(s)
             \/ DeleteSegments(s)
      PROVE  OInv'
  <2>1. "skip" \notin given.may
    BY <1>1
  <2>2. QED
    BY <1>1, <1>3, <2>1, ListKeepsOrder, CaptureKeepsOrder, SnapshotKeepsOrder, SnapshotFailsKeepsOrder,
       DeleteKeepsOrder
<1>4. ~ InMemory(Signal) /\ ~ InMemory(SignalFlushed) /\ ~ BootWithReadError
  BY <1>1 DEF InMemory, Signal, SignalFlushed, BootWithReadError, OInv, Roles
<1>5. ASSUME UNCHANGED vars  PROVE OInv'
  <2>1. /\ UNCHANGED <<given, phase, world, writing, walSeq, walBuffer, batch, kept, kills, signal, promised>>
        /\ UNCHANGED <<segments, snapshot, saving, failures>>
    BY <1>5 DEF vars, journal, volatile
  <2>2. /\ SnapshotWorld' = SnapshotWorld /\ Stored' = Stored /\ Recovered' = Recovered
        /\ Memory' = Memory /\ All' = All /\ Log'
    BY <1>1, <2>1, SameLog DEF OInv
  <2>3. Roles'
    BY <1>1, <2>1, <2>2 DEF OInv, Roles
  <2>4. Memories'
    BY <1>1, <2>1, <2>2 DEF OInv, Memories, Earned, Tops, Holds, Commands, Unlogged
  <2>5. Saves'
    BY <1>1, <2>1, <2>2 DEF OInv, Saves, Earned, Tops, Holds, Covers
  <2>6. Keeps'
    BY <1>1, <2>1, <2>2 DEF OInv, Keeps, Covers
  <2>7. QED
    BY <2>2, <2>3, <2>4, <2>5, <2>6 DEF OInv
<1>6. QED
  BY <1>1, <1>2, <1>3, <1>4, <1>5, CommandKeepsOrder, WriteKeepsOrder, DieKeepsOrder, BootKeepsOrder
     DEF Next

-----------------------------------------------------------------------------
(* The refinement. *)

\* What stands between the store and the server, and is shown to the outside.
Bounded ==
    OrdinaryFaults =>
        /\ Recovered \in Worlds /\ Earned(Recovered) /\ Covers(Recovered, kept)
        /\ phase = "up" => Covers(world, Recovered)

LEMMA OrderlyIsBounded ==
    ASSUME Typed, Orderly  PROVE Bounded
BY RecoveredFacts, WorldCoversRecovered DEF Orderly, Bounded, OInv, Keeps

\* DurableStore counts like this module does.
LEMMA SameCardinality ==
    ASSUME NEW S  PROVE Store!Cardinality(S) = Cardinality(S)
BY Zenon DEF Cardinality, Store!Cardinality

LEMMA StoreWorld ==
    ASSUME NEW w \in Worlds, NEW v \in Worlds, Earned(v), Covers(v, w)
    PROVE  w \in Store!Worlds
<1>1. v.board \in SUBSET Cells /\ v.score \in Nat /\ w.board \in SUBSET Cells /\ w.score \in Nat
  BY WorldTypes
<1>2. /\ Cardinality(v.board) \in Nat /\ Cardinality(Cells) \in Nat
      /\ Cardinality(v.board) <= Cardinality(Cells)
  BY <1>1, BoardsGrow
<1>3. w.score \in 0 .. Cardinality(Cells)
  BY <1>1, <1>2 DEF Earned, Covers
<1>4. w = [board |-> w.board, score |-> w.score]
  BY DEF Worlds
<1>5. [board |-> w.board, score |-> w.score] \in Store!Worlds
  BY <1>1, <1>3, SameCardinality DEF Store!Worlds
<1>6. QED
  BY <1>4, <1>5

LEMMA StoreAtFirst ==
    ASSUME Init  PROVE Store!Init
<1>1. phase = "down" /\ kept = EmptyWorld /\ snapshot = NoSnapshot /\ segments = <<>>
  BY DEF Init, JournalInit
<1>2. Typed /\ OInv
  BY TypedAtFirst, OrderAtFirst
<1>3. Recovered = EmptyWorld
  <2>1. DOMAIN segments = {} /\ SnapshotWorld = EmptyWorld
    BY <1>1 DEF SnapshotWorld
  <2>2. Stored = {}
    BY <2>1 DEF Stored, Within
  <2>3. Outcome(Recovered, EmptyWorld, {})
    BY <1>2, <2>1, <2>2, RecoveredFacts DEF OInv
  <2>4. Recovered \in Worlds /\ Recovered.board = {} /\ Recovered.score = 0
    BY <2>3 DEF Outcome, EmptyWorld, Reveals
  <2>5. QED
    BY <2>4 DEF Worlds, EmptyWorld
<1>4. Seen = EmptyWorld /\ Secured = EmptyWorld
  BY <1>1, <1>3 DEF Seen, Secured
<1>5. QED
  BY <1>4 DEF Store!Init, EmptyWorld

LEMMA StoreSteps ==
    ASSUME Typed, Orderly, Bounded, Typed', Bounded', [Next]_vars
    PROVE  [Store!Next]_<<Seen, Secured>>
<1>1. given' = given
  BY SameCircumstances
<1>2. CASE ~ OrdinaryFaults
  BY <1>1, <1>2 DEF OrdinaryFaults, Seen, Secured
<1>3. CASE OrdinaryFaults
  <2> USE <1>3
  <2>1. OrdinaryFaults' /\ OInv /\ given.may \subseteq {"periodic"}
    BY <1>1 DEF OrdinaryFaults, Orderly
  <2>2. Secured = kept /\ Secured' = kept'
    BY <2>1 DEF Secured
  <2>3. Seen = (IF phase = "up" THEN world ELSE Recovered)
        /\ Seen' = (IF phase' = "up" THEN world' ELSE Recovered')
    BY <2>1 DEF Seen
  <2>4. /\ Recovered \in Worlds /\ Earned(Recovered) /\ Covers(Recovered, kept)
        /\ phase = "up" => Covers(world, Recovered)
        /\ Recovered' \in Worlds /\ Earned(Recovered') /\ Covers(Recovered', kept')
        /\ phase' = "up" => Covers(world', Recovered')
    BY <2>1 DEF Bounded, Earned, Covers
  <2> HIDE <1>3
  <2>5. ASSUME UNCHANGED <<phase, world, kept>>, phase = "up" \/ Recovered' = Recovered
        PROVE  UNCHANGED <<Seen, Secured>>
    BY <2>2, <2>3, <2>5
  <2>6. ASSUME NEW c \in Cells, InMemory(Command(c))  PROVE Store!Next
    <3>1. /\ phase = "up" /\ phase' = "up" /\ kept' = kept /\ c \notin world.board
          /\ world' = [board |-> world.board \cup {c}, score |-> world.score + 1]
      BY <2>6 DEF InMemory, Command
    <3>2. Seen = world /\ Seen' = world' /\ Secured' = Secured
      BY <2>2, <2>3, <3>1
    <3>3. Store!Play
      BY <3>1, <3>2 DEF Store!Play
    <3>4. QED
      BY <3>3 DEF Store!Next
  <2>7. ASSUME InMemory(WriteWALEntry)  PROVE UNCHANGED <<Seen, Secured>>
    BY <2>5, <2>7 DEF InMemory, WriteWALEntry
  <2>8. ASSUME NEW f \in Flushers, InMemory(TakeBuffer(f))  PROVE UNCHANGED <<Seen, Secured>>
    <3>1. Recovered' = Recovered /\ UNCHANGED <<phase, world, kept>>
      BY <2>8, SameStore DEF InMemory, TakeBuffer
    <3>2. QED
      BY <2>5, <3>1
  <2>9. ASSUME NEW f \in Flushers, PutSegment(f)  PROVE Store!Next
    <3>1. phase = "up" /\ phase' = "up" /\ world' = world
      BY <2>1, <2>9, OnlyTicker DEF PutSegment, Flushed
    <3>2. Seen = world /\ Seen' = world
      BY <2>3, <3>1
    <3> DEFINE stored == Replay(EmptyWorld, batch[f])
    <3>3. kept' = [board |-> kept.board \cup stored.board,
                   score |-> IF stored.score > kept.score THEN stored.score ELSE kept.score]
      BY <2>9 DEF PutSegment, Flushed
    <3>4. stored.score \in Nat /\ kept.score \in Nat /\ kept' \in Worlds /\ world \in Worlds
      <4>1. stored \in Worlds /\ kept \in Worlds
        BY BatchOutcome DEF Outcome, Typed, MemoryTyped, InMemoryTyped
      <4>2. kept' \in Worlds /\ world \in Worlds
        BY DEF Typed, MemoryTyped, InMemoryTyped
      <4> HIDE DEF stored
      <4>3. QED
        BY <4>1, <4>2, WorldTypes
    <3> HIDE DEF stored
    <3>5. kept.board \subseteq kept'.board /\ kept.score <= kept'.score
      BY <3>3, <3>4
    <3>6. kept' \in Store!Worlds
      BY <2>4, <3>4, StoreWorld
    <3>7. Covers(world, kept')
      <4>1. world.score \in Nat /\ (Recovered').score \in Nat /\ kept'.score \in Nat
        BY <2>4, <3>4, WorldTypes
      <4>2. QED
        BY <2>4, <3>1, <4>1 DEF Covers
    <3>8. Store!Keep
      BY <2>2, <3>2, <3>5, <3>6, <3>7 DEF Store!Keep, Store!Covers, Covers
    <3>9. QED
      BY <3>8 DEF Store!Next
  <2>10. ASSUME NEW f \in Flushers, PutSegmentFails(f)  PROVE UNCHANGED <<Seen, Secured>>
    <3>1. phase = "up" /\ UNCHANGED <<phase, world, kept>>
      BY <2>1, <2>10, OnlyTicker DEF PutSegmentFails, Requeue
    <3>2. QED
      BY <2>5, <3>1
  <2>11. ASSUME NEW s \in Savers, ListSegments(s) \/ Capture(s)  PROVE UNCHANGED <<Seen, Secured>>
    <3>1. Recovered' = Recovered /\ UNCHANGED <<phase, world, kept>>
      BY <2>11, SameStore DEF ListSegments, Capture, journal, volatile
    <3>2. QED
      BY <2>5, <3>1
  <2>12. ASSUME NEW s \in Savers, PutSnapshot(s)  PROVE UNCHANGED <<Seen, Secured>>
    <3>1. saving[s] # Idle /\ UNCHANGED <<phase, world, kept>>
      BY <2>12 DEF PutSnapshot, journal, volatile, Idle
    <3>2. phase \in {"up", "booting"}
      BY <2>1, <3>1, SaverFacts
    <3>3. phase = "up" \/ Recovered' = Recovered
      BY <2>1, <2>12, <3>2, SnapshotKeepsOrder
    <3>4. QED
      BY <2>5, <3>1, <3>3
  <2>13. ASSUME NEW s \in Savers, PutSnapshotFails(s) \/ DeleteSegments(s)
         PROVE  UNCHANGED <<Seen, Secured>>
    <3>1. saving[s] # Idle /\ SaveReturns(s)
      BY <2>13 DEF PutSnapshotFails, DeleteSegments, Idle
    <3>2. phase \in {"up", "booting"} /\ s \in {"loop", "boot"} /\ (s = "loop" => phase = "up")
      BY <2>1, <3>1, SaverFacts
    <3>3. phase' = "up" /\ UNCHANGED <<world, kept>>
      BY <3>1, <3>2 DEF SaveReturns, journal, volatile
    <3>4. phase = "booting" => world' = Recovered
      <4>1. "skip" \notin given.may
        BY <2>1
      <4>2. QED
        BY <2>1, <2>13, <4>1, SnapshotFailsKeepsOrder, DeleteKeepsOrder
    <3>5. QED
      BY <2>2, <2>3, <3>2, <3>3, <3>4
  <2>14. ASSUME Die  PROVE [Store!Next]_<<Seen, Secured>>
    <3>1. phase' = "down" /\ kept' = kept /\ phase \in {"booting", "up"} /\ Recovered' = Recovered
      BY <2>14, SameStore DEF Die, Kill, LoseMemory
    <3>2. CASE phase = "booting"
      BY <2>2, <2>3, <3>1, <3>2
    <3>3. CASE phase = "up"
      <4>1. Seen = world /\ Seen' = Recovered /\ Secured' = kept /\ Secured = kept
        BY <2>2, <2>3, <3>1, <3>3
      <4>2. Recovered \in Store!Worlds
        <5>1. Covers(Recovered, Recovered)
          <6>1. Recovered.score \in Nat
            BY <2>4, WorldTypes
          <6>2. QED
            BY <6>1 DEF Covers
        <5>2. QED
          BY <2>4, <5>1, StoreWorld
      <4>3. Store!Covers(Recovered, kept) /\ Store!Covers(world, Recovered) /\ Store!Earned(Recovered)
        BY <2>4, <3>3, SameCardinality DEF Store!Covers, Store!Earned, Covers, Earned
      <4>4. Seen' \in {w \in Store!Worlds : Store!Covers(w, Secured) /\ Store!Covers(Seen, w) /\ Store!Earned(w)}
            /\ Secured' = Secured
        BY <4>1, <4>2, <4>3
      <4>5. Store!Kill
        BY <4>4 DEF Store!Kill
      <4>6. QED
        BY <4>5 DEF Store!Next
    <3>4. QED
      BY <3>1, <3>2, <3>3
  <2>15. ASSUME Boot  PROVE UNCHANGED <<Seen, Secured>>
    <3>1. phase = "down" /\ kept' = kept /\ Recovered' = Recovered /\ world' = Recovered
      BY <2>15, SameStore DEF Boot, Start, Recovered
    <3>2. QED
      BY <2>2, <2>3, <3>1
  <2>16. ~ InMemory(Signal) /\ ~ InMemory(SignalFlushed) /\ ~ BootWithReadError
    BY <2>1 DEF InMemory, Signal, SignalFlushed, BootWithReadError, OInv, Roles
  <2>17. ASSUME UNCHANGED vars  PROVE UNCHANGED <<Seen, Secured>>
    <3>1. Recovered' = Recovered /\ UNCHANGED <<phase, world, kept>>
      BY <2>17, SameStore DEF vars, journal, volatile
    <3>2. QED
      BY <2>5, <3>1
  <2>18. QED
    BY <2>6, <2>7, <2>8, <2>9, <2>10, <2>11, <2>12, <2>13, <2>14, <2>15, <2>16, <2>17 DEF Next
<1>4. QED
  BY <1>2, <1>3

\* As long as faults are ordinary, persistence in S3 keeps the promise of
\* DurableStore: a flush that returns no error makes its play durable, and a
\* kill loses only play that no flush has stored (flushWAL, saveSnapshotToS3,
\* initPersistence).
THEOREM StoreImplemented == Spec => ImplementsStore
<1>1. Init => Typed /\ Orderly
  BY TypedAtFirst, OrderAtFirst DEF Orderly
<1>2. Typed /\ Orderly /\ [Next]_vars => Typed' /\ Orderly'
  BY TypedPreserved, OrderlyPreserved
<1>3. Typed /\ Orderly => Bounded
  BY OrderlyIsBounded
<1>4. Init => Store!Init
  BY StoreAtFirst
<1>5. Typed /\ Orderly /\ Bounded /\ Typed' /\ Bounded' /\ [Next]_vars => [Store!Next]_<<Seen, Secured>>
  BY StoreSteps
<1>6. QED
  BY <1>1, <1>2, <1>3, <1>4, <1>5, PTL DEF Spec, ImplementsStore, Store!Spec

-----------------------------------------------------------------------------
(* A snapshot on disk. *)

\* A saver is at work: from CreateTmp on it has a file.
Working(s) == saver[s] # NotSaving
SaverShape(s) ==
    \/ saver[s] = NotSaving
    \/ /\ saver[s].data.by = s
       /\ \/ saver[s] = [at |-> "captured", data |-> saver[s].data]
          \/ /\ saver[s].at \in {"created", "half", "synced", "renamed"} /\ saver[s].file \in File
             /\ saver[s] = [at |-> saver[s].at, data |-> saver[s].data, file |-> saver[s].file]

SaverTypes ==
    /\ saver = [s \in Savers |-> saver[s]] /\ \A s \in Savers : SaverShape(s)
    /\ content = [i \in File |-> [head |-> content[i].head, tail |-> content[i].tail]]
    /\ tmpFile \in File \cup {NoSnapshot} /\ snapshotFile \in File \cup {NoSnapshot}

\* Who saves, and when: without a race, one at a time.
Turns ==
    /\ Working("boot") => phase = "booting"
    /\ Working("loop") => phase = "up" /\ "periodic" \in given.may
    /\ Working("signal") => signal = "save"
    /\ signal # "none" => phase = "up" /\ "stop" \in given.may

\* The temporary file is the saver's own until it is renamed, and holds what
\* has been written of it.
TmpFile ==
    /\ tmpFile # NoSnapshot => tmpFile # snapshotFile
    /\ \A s \in Savers : saver[s].at \in {"created", "half", "synced"} =>
          /\ saver[s].file = tmpFile
          /\ saver[s].at \in {"half", "synced"} => content[tmpFile].head = saver[s].data
          /\ saver[s].at = "synced" => content[tmpFile].tail = saver[s].data

DiskInv == ~ SaversRace => SaverTypes /\ Turns /\ TmpFile /\ SnapshotReadable

LEMMA OneAtATime ==
    ASSUME SaverTypes, Turns, ~ SaversRace, NEW s \in Savers, Working(s)
    PROVE  \A t \in Savers \ {s} : saver[t] = NotSaving
BY DEF Turns, SaversRace, Savers, Working

\* A saver is in one of the stages of saveSnapshotToDisk.
LEMMA Stages ==
    ASSUME SaverTypes, NEW s \in Savers
    PROVE  /\ Working(s) <=> saver[s].at # "idle"
           /\ saver[s].at \in {"idle", "captured", "created", "half", "synced", "renamed"}
           /\ Working(s) => saver[s].data.by = s
           /\ saver[s].at = "captured" => saver[s] = [at |-> "captured", data |-> saver[s].data]
           /\ saver[s].at \in {"created", "half", "synced", "renamed"} =>
                 /\ saver[s].file \in File
                 /\ saver[s] = [at |-> saver[s].at, data |-> saver[s].data, file |-> saver[s].file]
BY DEF SaverTypes, SaverShape, Working, NotSaving

\* A step that leaves the files and the savers alone.
LEMMA Untouched ==
    ASSUME SaverTypes, TmpFile, SnapshotReadable, ~ SaversRace, Turns',
           UNCHANGED <<given, content, tmpFile, snapshotFile, saver>>
    PROVE  SaverTypes' /\ TmpFile' /\ SnapshotReadable'
<1>1. SaverTypes'
  BY DEF SaverTypes, SaverShape
<1>2. TmpFile'
  BY DEF TmpFile
<1>3. SnapshotReadable'
  BY DEF SnapshotReadable, Readable, SaversRace
<1>4. QED
  BY <1>1, <1>2, <1>3

\* The saver s, which is alone, goes on to stage r.
LEMMA NextStage ==
    ASSUME SaverTypes, Turns, ~ SaversRace, NEW s \in Savers, Working(s), NEW r,
           saver' = [saver EXCEPT ![s] = r], r.data = saver[s].data,
           r.at \in {"created", "half", "synced", "renamed"}, r.file \in File,
           r = [at |-> r.at, data |-> r.data, file |-> r.file],
           UNCHANGED <<given, phase, signal>>
    PROVE  /\ saver' = [t \in Savers |-> saver'[t]] /\ \A t \in Savers : SaverShape(t)'
           /\ saver'[s] = r /\ \A t \in Savers \ {s} : saver'[t] = NotSaving
           /\ Turns'
<1>1. saver'[s] = r /\ \A t \in Savers \ {s} : saver'[t] = NotSaving
  BY OneAtATime DEF SaverTypes
<1>2. saver' = [t \in Savers |-> saver'[t]]
  BY DEF SaverTypes
<1>3. r.data.by = s
  BY Stages
<1>4. \A t \in Savers : SaverShape(t)'
  BY <1>1, <1>3 DEF SaverShape
<1>5. Turns'
  <2>1. \A t \in Savers : Working(t)' => Working(t)
    BY <1>1 DEF Working
  <2>2. QED
    BY <2>1 DEF Turns, Savers
<1>6. QED
  BY <1>1, <1>2, <1>4, <1>5

LEMMA CaptureInv ==
    ASSUME SaverTypes, Turns, TmpFile, SnapshotReadable, ~ SaversRace, NEW s \in Savers, CaptureForDisk(s)
    PROVE  SaverTypes' /\ Turns' /\ TmpFile' /\ SnapshotReadable'
<1> DEFINE r == [at |-> "captured", data |-> [by |-> s, world |-> world]]
<1>1. /\ saver' = [saver EXCEPT ![s] = r] /\ MaySaveToDisk(s)
      /\ UNCHANGED <<given, phase, signal, content, tmpFile, snapshotFile>>
  BY DEF CaptureForDisk, journal, disk
<1>2. /\ saver'[s] = r /\ \A t \in Savers \ {s} : saver'[t] = saver[t]
      /\ saver' = [t \in Savers |-> saver'[t]]
  BY <1>1 DEF SaverTypes
<1>3. SaverTypes'
  BY <1>1, <1>2 DEF SaverTypes, SaverShape
<1>4. Turns'
  <2>1. \A t \in Savers \ {s} : Working(t)' => Working(t)
    BY <1>2 DEF Working
  <2>2. CASE s = "loop"
    BY <1>1, <2>1, <2>2 DEF Turns, Savers, MaySaveToDisk
  <2>3. CASE s = "boot"
    BY <1>1, <2>1, <2>3 DEF Turns, Savers, MaySaveToDisk
  <2>4. CASE s = "signal"
    BY <1>1, <2>1, <2>4 DEF Turns, Savers, MaySaveToDisk
  <2>5. QED
    BY <2>2, <2>3, <2>4 DEF Savers
<1>5. TmpFile'
  BY <1>1, <1>2 DEF TmpFile
<1>6. SnapshotReadable'
  BY <1>1 DEF SnapshotReadable, Readable, SaversRace
<1>7. QED
  BY <1>3, <1>4, <1>5, <1>6

\* The temporary file is not the snapshot.
LEMMA TmpIsNew ==
    ASSUME SaverTypes, Turns, TmpFile, ~ SaversRace, NEW s \in Savers, CreateTmp(s)
    PROVE  LET i == IF tmpFile = NoSnapshot THEN CHOOSE j \in File : j \notin InUse ELSE tmpFile
           IN  i \in File /\ i # snapshotFile
<1>1. CASE tmpFile = NoSnapshot
  <2>1. Working(s) /\ saver[s] = [at |-> "captured", data |-> saver[s].data]
    BY Stages DEF CreateTmp
  <2>2. \A t \in Savers : "file" \notin DOMAIN saver[t]
    BY <2>1, OneAtATime DEF NotSaving
  <2>3. InUse = {tmpFile, snapshotFile}
    BY <2>2 DEF InUse
  <2>4. \E j \in File : j \notin InUse
    BY <1>1, <2>3, FileAssumption DEF SaverTypes
  <2>5. QED
    BY <1>1, <2>3, <2>4
<1>2. CASE tmpFile # NoSnapshot
  BY <1>2 DEF SaverTypes, TmpFile
<1>3. QED
  BY <1>1, <1>2

LEMMA CreateTmpInv ==
    ASSUME SaverTypes, Turns, TmpFile, SnapshotReadable, ~ SaversRace, NEW s \in Savers, CreateTmp(s)
    PROVE  SaverTypes' /\ Turns' /\ TmpFile' /\ SnapshotReadable'
<1> DEFINE i == IF tmpFile = NoSnapshot THEN CHOOSE j \in File : j \notin InUse ELSE tmpFile
           r == [at |-> "created", data |-> saver[s].data, file |-> i]
<1>1. /\ saver[s].at = "captured" /\ tmpFile' = i /\ content' = [content EXCEPT ![i] = Blank]
      /\ saver' = [saver EXCEPT ![s] = r]
      /\ UNCHANGED <<given, phase, signal, snapshotFile>>
  <2>1. saver' = [saver EXCEPT ![s] = [at |-> "created", data |-> @.data, file |-> i]]
    BY DEF CreateTmp
  <2>2. saver' = [saver EXCEPT ![s] = r]
    BY <2>1 DEF SaverTypes
  <2>3. QED
    BY <2>2 DEF CreateTmp, journal
<1>2. Working(s) /\ saver[s] = [at |-> "captured", data |-> saver[s].data]
  BY <1>1, Stages
<1>3. i \in File /\ i # snapshotFile
  BY TmpIsNew
<1> HIDE DEF i
<1>4. r.data = saver[s].data /\ r.at = "created" /\ r.file = i /\ r = [at |-> r.at, data |-> r.data, file |-> r.file]
  OBVIOUS
<1> HIDE DEF r
<1>5. /\ saver' = [t \in Savers |-> saver'[t]] /\ \A t \in Savers : SaverShape(t)'
      /\ saver'[s] = r /\ \A t \in Savers \ {s} : saver'[t] = NotSaving
      /\ Turns'
  BY <1>1, <1>2, <1>3, <1>4, NextStage
<1>6. /\ content' = [j \in File |-> [head |-> content'[j].head, tail |-> content'[j].tail]]
      /\ \A j \in File \ {i} : content'[j] = content[j]
  BY <1>1, <1>3 DEF SaverTypes, Blank
<1>7. SaverTypes'
  BY <1>1, <1>3, <1>5, <1>6 DEF SaverTypes
<1>8. TmpFile'
  BY <1>1, <1>3, <1>4, <1>5 DEF TmpFile, NotSaving
<1>9. SnapshotReadable'
  BY <1>1, <1>3, <1>6 DEF SnapshotReadable, Readable, SaversRace
<1>10. QED
  BY <1>5, <1>7, <1>8, <1>9

\* One half of the temporary file is written.
LEMMA WriteInv ==
    ASSUME SaverTypes, Turns, TmpFile, SnapshotReadable, ~ SaversRace,
           NEW s \in Savers, WriteHead(s) \/ WriteTail(s)
    PROVE  SaverTypes' /\ Turns' /\ TmpFile' /\ SnapshotReadable'
<1> DEFINE i == saver[s].file
           d == saver[s].data
           to == IF WriteHead(s) THEN "half" ELSE "synced"
           r == [at |-> to, data |-> d, file |-> i]
<1>1. Working(s) /\ saver[s].at \in {"created", "half"} /\ i \in File /\ i = tmpFile /\ i # snapshotFile
  <2>1. saver[s].at \in {"created", "half"}
    BY DEF WriteHead, WriteTail
  <2>2. Working(s) /\ i \in File
    BY <2>1, Stages
  <2>3. i = tmpFile
    BY <2>1 DEF TmpFile
  <2>4. i # NoSnapshot
    BY <2>2, FileAssumption
  <2>5. QED
    BY <2>1, <2>2, <2>3, <2>4 DEF TmpFile
<1>2. saver[s] = [at |-> saver[s].at, data |-> d, file |-> i]
  BY <1>1, Stages
<1>3. /\ saver' = [saver EXCEPT ![s] = r]
      /\ UNCHANGED <<given, phase, signal, tmpFile, snapshotFile>>
      /\ content' = IF WriteHead(s) THEN [content EXCEPT ![i].head = d] ELSE [content EXCEPT ![i].tail = d]
      /\ ~ WriteHead(s) => saver[s].at = "half"
  <2>1. saver' = [saver EXCEPT ![s] = [saver[s] EXCEPT !.at = to]]
    BY DEF WriteHead, WriteTail, SaverTypes
  <2>2. \A t : [saver[s] EXCEPT !.at = t] = [at |-> t, data |-> d, file |-> i]
    <3> HIDE DEF d, i
    <3>1. QED
      BY <1>2
  <2>3. [saver[s] EXCEPT !.at = to] = r
    BY <2>2
  <2>4. saver' = [saver EXCEPT ![s] = r]
    BY <2>1, <2>3
  <2>5. QED
    BY <2>4 DEF WriteHead, WriteTail, journal
<1>4. /\ content' = [j \in File |-> [head |-> content'[j].head, tail |-> content'[j].tail]]
      /\ \A j \in File \ {i} : content'[j] = content[j]
      /\ WriteHead(s) => content'[i].head = d
      /\ ~ WriteHead(s) => content'[i].head = content[i].head /\ content'[i].tail = d
  <2> HIDE DEF i, d
  <2>1. /\ content = [j \in File |-> [head |-> content[j].head, tail |-> content[j].tail]]
        /\ content[i] = [head |-> content[i].head, tail |-> content[i].tail]
    BY <1>1 DEF SaverTypes
  <2> DEFINE new == IF WriteHead(s) THEN [content[i] EXCEPT !.head = d] ELSE [content[i] EXCEPT !.tail = d]
  <2>2. content' = [content EXCEPT ![i] = new]
    BY <1>3, <2>1
  <2>3. new = IF WriteHead(s) THEN [head |-> d, tail |-> content[i].tail] ELSE [head |-> content[i].head, tail |-> d]
    BY <2>1
  <2> HIDE DEF new
  <2>4. /\ content'[i] = new /\ \A j \in File \ {i} : content'[j] = content[j]
        /\ content' = [j \in File |-> content'[j]]
    BY <1>1, <2>1, <2>2
  <2>5. \A j \in File : content'[j] = [head |-> content'[j].head, tail |-> content'[j].tail]
    BY <2>1, <2>3, <2>4
  <2>6. QED
    BY <2>3, <2>4, <2>5
<1> HIDE DEF i, d, to
<1>5. r.data = d /\ r.at = to /\ r.file = i /\ r = [at |-> r.at, data |-> r.data, file |-> r.file]
  OBVIOUS
<1> HIDE DEF r
<1>6. /\ saver' = [t \in Savers |-> saver'[t]] /\ \A t \in Savers : SaverShape(t)'
      /\ saver'[s] = r /\ \A t \in Savers \ {s} : saver'[t] = NotSaving
      /\ Turns'
  BY <1>1, <1>3, <1>5, NextStage DEF to, d
<1>7. SaverTypes'
  BY <1>3, <1>4, <1>6 DEF SaverTypes
<1>8. TmpFile'
  <2>1. ~ WriteHead(s) => content[i].head = d
    BY <1>1, <1>3 DEF TmpFile, d
  <2>2. QED
    BY <1>1, <1>3, <1>4, <1>5, <1>6, <2>1 DEF TmpFile, NotSaving, to
<1>9. SnapshotReadable'
  BY <1>1, <1>3, <1>4 DEF SnapshotReadable, Readable, SaversRace
<1>10. QED
  BY <1>6, <1>7, <1>8, <1>9

LEMMA RenameInv ==
    ASSUME SaverTypes, Turns, TmpFile, SnapshotReadable, ~ SaversRace, NEW s \in Savers, RenameTmp(s)
    PROVE  SaverTypes' /\ Turns' /\ TmpFile' /\ SnapshotReadable'
<1> DEFINE i == saver[s].file
           d == saver[s].data
           r == [at |-> "renamed", data |-> d, file |-> i]
<1>1. /\ saver[s].at = "synced" /\ snapshotFile' = tmpFile /\ tmpFile' = NoSnapshot
      /\ saver' = [saver EXCEPT ![s].at = "renamed"]
      /\ UNCHANGED <<given, phase, signal, content>>
  BY DEF RenameTmp, RenameFrom, journal
<1>2. /\ Working(s) /\ i \in File /\ i = tmpFile /\ content[i].head = d /\ content[i].tail = d /\ d.by = s
      /\ saver[s] = [at |-> "synced", data |-> d, file |-> i]
  <2>1. /\ Working(s) /\ i \in File /\ d.by = s
        /\ saver[s] = [at |-> saver[s].at, data |-> d, file |-> i]
    BY <1>1, Stages
  <2>2. i = tmpFile /\ content[tmpFile].head = d /\ content[tmpFile].tail = d
    BY <1>1 DEF TmpFile
  <2>3. QED
    BY <1>1, <2>1, <2>2
<1>3. saver' = [saver EXCEPT ![s] = r]
  <2>1. [saver[s] EXCEPT !.at = "renamed"] = r
    <3> HIDE DEF i, d
    <3>1. QED
      BY <1>2
  <2>2. saver' = [saver EXCEPT ![s] = [saver[s] EXCEPT !.at = "renamed"]]
    BY <1>1 DEF SaverTypes
  <2>3. QED
    BY <2>1, <2>2
<1> HIDE DEF i, d
<1>4. r.data = d /\ r.at = "renamed" /\ r.file = i /\ r = [at |-> r.at, data |-> r.data, file |-> r.file]
  OBVIOUS
<1> HIDE DEF r
<1>5. /\ saver' = [t \in Savers |-> saver'[t]] /\ \A t \in Savers : SaverShape(t)'
      /\ saver'[s] = r /\ \A t \in Savers \ {s} : saver'[t] = NotSaving
      /\ Turns'
  <2>1. r.data = saver[s].data /\ r.at \in {"created", "half", "synced", "renamed"} /\ r.file \in File
    BY <1>2, <1>4 DEF d
  <2>2. QED
    BY <1>1, <1>2, <1>3, <1>4, <2>1, NextStage
<1>6. SaverTypes'
  BY <1>1, <1>2, <1>5 DEF SaverTypes
<1>7. TmpFile'
  BY <1>1, <1>4, <1>5 DEF TmpFile, NotSaving
<1>8. SnapshotReadable'
  BY <1>1, <1>2 DEF SnapshotReadable, Readable, Unwritten, Savers
<1>9. QED
  BY <1>5, <1>6, <1>7, <1>8

\* The save is over, after the last step of it or an error.
LEMMA ReturnInv ==
    ASSUME SaverTypes, Turns, TmpFile, SnapshotReadable, ~ SaversRace, NEW s \in Savers, Working(s),
           DiskSaveReturns(s), UNCHANGED <<content, tmpFile, snapshotFile>>
    PROVE  SaverTypes' /\ Turns' /\ TmpFile' /\ SnapshotReadable'
<1>1. saver' = [t \in Savers |-> NotSaving]
  <2>1. CASE s = "signal"
    BY <2>1 DEF DiskSaveReturns
  <2>2. CASE s # "signal"
    BY <2>2, OneAtATime DEF DiskSaveReturns, SaverTypes
  <2>3. QED
    BY <2>1, <2>2
<1>2. given' = given
  BY DEF DiskSaveReturns, Savers, journal, Exit, LoseMemory
<1>3. SaverTypes'
  BY <1>1 DEF SaverTypes, SaverShape
<1>4. Turns'
  <2>1. \A t \in Savers : ~ Working(t)'
    BY <1>1 DEF Working
  <2>2. signal' # "none" => phase' = "up" /\ "stop" \in given'.may
    <3>1. CASE s = "signal"
      BY <3>1 DEF DiskSaveReturns, Exit
    <3>2. CASE s = "boot"
      BY <3>2 DEF DiskSaveReturns, Turns
    <3>3. CASE s = "loop"
      BY <3>3 DEF DiskSaveReturns, Turns, journal
    <3>4. QED
      BY <3>1, <3>2, <3>3 DEF Savers
  <2>3. QED
    BY <2>1, <2>2 DEF Turns, Savers
<1>5. TmpFile'
  BY <1>1 DEF TmpFile, NotSaving
<1>6. SnapshotReadable'
  BY <1>2 DEF SnapshotReadable, Readable, SaversRace
<1>7. QED
  BY <1>3, <1>4, <1>5, <1>6

LEMMA PowerLossInv ==
    ASSUME SaverTypes, TmpFile, SnapshotReadable, ~ SaversRace, PowerLoss
    PROVE  SaverTypes' /\ Turns' /\ TmpFile' /\ SnapshotReadable'
<1>1. /\ saver' = [s \in Savers |-> NotSaving] /\ signal' = "none"
      /\ UNCHANGED <<given, content, tmpFile, snapshotFile>>
  BY DEF PowerLoss, Kill, LoseMemory
<1>2. SaverTypes'
  BY <1>1 DEF SaverTypes, SaverShape
<1>3. Turns'
  BY <1>1 DEF Turns, Working, Savers
<1>4. TmpFile'
  BY <1>1 DEF TmpFile, NotSaving
<1>5. SnapshotReadable'
  BY <1>1 DEF SnapshotReadable, Readable, SaversRace
<1>6. QED
  BY <1>2, <1>3, <1>4, <1>5

\* No step keeps a snapshot that cannot be read.
LEMMA DiskKeeps ==
    DiskInv /\ [DiskNext]_diskVars => DiskInv'
<1> SUFFICES ASSUME DiskInv, [DiskNext]_diskVars, ~ SaversRace'
             PROVE  SaverTypes' /\ Turns' /\ TmpFile' /\ SnapshotReadable'
  BY DEF DiskInv
<1>1. given' = given
  <2>1. ASSUME NEW s \in Savers, DiskSaveReturns(s) PROVE given' = given
    BY <2>1 DEF DiskSaveReturns, Savers, journal, Exit, LoseMemory
  <2>2. QED
    BY <2>1 DEF DiskNext, diskVars, OffDisk, journal, Command, WriteWALEntry, TakeBuffer, OpenLog, AppendRecord,
       OpenFails, AppendFails, SyncFails, FlushFails, Requeue, SyncLog, Flushed, CaptureForDisk, CreateTmp, WriteHead, WriteTail, RenameTmp,
       RenameFails, SaveFails, TruncateWAL, Signal, SignalFlushed, PowerLoss, Kill, LoseMemory, DiskBoot
<1>2. ~ SaversRace /\ SaverTypes /\ Turns /\ TmpFile /\ SnapshotReadable
  BY <1>1 DEF DiskInv, SaversRace
<1> DEFINE quiet == UNCHANGED <<given, content, tmpFile, snapshotFile, saver>>
           Goal == SaverTypes' /\ Turns' /\ TmpFile' /\ SnapshotReadable'
<1>3. ASSUME quiet, Turns' PROVE Goal
  BY <1>2, <1>3, Untouched
<1>4. ASSUME quiet, UNCHANGED <<phase, signal>> PROVE Goal
  <2>1. Turns'
    BY <1>2, <1>4 DEF Turns, Working
  <2>2. QED
    BY <1>3, <1>4, <2>1
<1>5. ASSUME NEW c \in Cells, OffDisk(Command(c)) PROVE Goal
  BY <1>4, <1>5 DEF OffDisk, Command, disk
<1>6. CASE OffDisk(WriteWALEntry)
  BY <1>4, <1>6 DEF OffDisk, WriteWALEntry, disk
<1>7. ASSUME NEW f \in Flushers, OffDisk(TakeBuffer(f)) PROVE Goal
  BY <1>4, <1>7 DEF OffDisk, TakeBuffer, disk
<1>8. ASSUME NEW f \in Flushers, OpenLog(f) \/ AppendRecord(f) PROVE Goal
  BY <1>4, <1>8 DEF OpenLog, AppendRecord, journal
<1>9. ASSUME NEW f \in Flushers, OpenFails(f) \/ AppendFails(f) \/ SyncFails(f) PROVE Goal
  BY <1>4, <1>9 DEF OpenFails, AppendFails, SyncFails, FlushFails, Requeue
<1>10. ASSUME NEW f \in Flushers, SyncLog(f) PROVE Goal
  BY <1>4, <1>10 DEF SyncLog, Flushed
<1>11. ASSUME NEW s \in Savers, CaptureForDisk(s) PROVE Goal
  BY <1>2, <1>11, CaptureInv
<1>12. ASSUME NEW s \in Savers, CreateTmp(s) PROVE Goal
  BY <1>2, <1>12, CreateTmpInv
<1>13. ASSUME NEW s \in Savers, WriteHead(s) \/ WriteTail(s) PROVE Goal
  BY <1>2, <1>13, WriteInv
<1>14. ASSUME NEW s \in Savers, RenameTmp(s) PROVE Goal
  BY <1>2, <1>14, RenameInv
<1>15. ASSUME NEW s \in Savers, RenameFails(s) \/ SaveFails(s) \/ TruncateWAL(s) PROVE Goal
  <2>1. saver[s].at \in {"captured", "created", "half", "synced", "renamed"} /\ DiskSaveReturns(s)
        /\ UNCHANGED <<content, tmpFile, snapshotFile>>
    BY <1>15 DEF RenameFails, SaveFails, TruncateWAL, disk
  <2>2. Working(s)
    BY <1>2, <2>1, Stages
  <2>3. QED
    BY <1>2, <2>1, <2>2, ReturnInv
<1>16. CASE OffDisk(Signal)
  <2>1. quiet /\ phase' = phase /\ phase = "up" /\ signal = "none" /\ signal' = "flush" /\ "stop" \in given.may
    BY <1>16 DEF OffDisk, Signal, disk
  <2>2. Turns'
    BY <1>2, <2>1 DEF Turns, Working
  <2>3. QED
    BY <1>3, <2>1, <2>2
<1>17. CASE OffDisk(SignalFlushed)
  <2>1. quiet /\ phase' = phase /\ signal = "flush" /\ signal' = "save"
    BY <1>17 DEF OffDisk, SignalFlushed, disk
  <2>2. Turns'
    BY <1>2, <2>1 DEF Turns, Working
  <2>3. QED
    BY <1>3, <2>1, <2>2
<1>18. CASE PowerLoss
  BY <1>2, <1>18, PowerLossInv
<1>19. CASE DiskBoot
  <2>1. quiet /\ signal' = signal /\ phase = "down" /\ phase' \in {"booting", "up"}
    BY <1>19 DEF DiskBoot, disk
  <2>2. Turns'
    BY <1>2, <2>1 DEF Turns, Working
  <2>3. QED
    BY <1>3, <2>1, <2>2
<1>20. CASE UNCHANGED diskVars
  BY <1>4, <1>20 DEF diskVars, journal, disk
<1>21. QED
  BY <1>5, <1>6, <1>7, <1>8, <1>9, <1>10, <1>11, <1>12, <1>13, <1>14, <1>15, <1>16, <1>17, <1>18, <1>19, <1>20
     DEF DiskNext

LEMMA DiskInitInv ==
    DiskInit => DiskInv
<1> SUFFICES ASSUME DiskInit PROVE SaverTypes /\ Turns /\ TmpFile /\ SnapshotReadable
  BY DEF DiskInv
<1>1. /\ saver = [s \in Savers |-> NotSaving] /\ content = [i \in File |-> Blank]
      /\ tmpFile = NoSnapshot /\ snapshotFile = NoSnapshot /\ signal = "none"
  BY DEF DiskInit, JournalInit
<1>2. SaverTypes
  BY <1>1 DEF SaverTypes, SaverShape, Blank
<1>3. Turns
  BY <1>1 DEF Turns, Working, Savers
<1>4. TmpFile /\ SnapshotReadable
  BY <1>1 DEF TmpFile, NotSaving, SnapshotReadable
<1>5. QED
  BY <1>2, <1>3, <1>4

\* The snapshot under its final name (saveSnapshotToDisk: write, sync, rename)
\* can be read at every moment, through errors and power losses at any step,
\* unless the periodic saver and the one of a stop write at once.
THEOREM SnapshotReadableHolds ==
    DiskSpec => []SnapshotReadable
<1>1. DiskInv => SnapshotReadable
  BY DEF DiskInv, SnapshotReadable
<1>2. QED
  BY <1>1, DiskInitInv, DiskKeeps, PTL DEF DiskSpec

-----------------------------------------------------------------------------
(* The log on disk. *)

Records == Entry \cup {Torn}

\* The parts of a sequence from its start.
LEMMA PrefixFacts ==
    ASSUME NEW S, NEW s \in Seq(S)
    PROVE  /\ Len(s) \in Nat /\ DOMAIN s = 1 .. Len(s) /\ SubSeq(s, 1, Len(s)) = s
           /\ \A n \in 0 .. Len(s) : SubSeq(s, 1, n) \in Seq(S) /\ Len(SubSeq(s, 1, n)) = n
           /\ \A e \in S : LET a == Append(s, e) IN
                 /\ a \in Seq(S) /\ Len(a) = Len(s) + 1 /\ a[Len(s) + 1] = e
                 /\ \A i \in 1 .. Len(s) : a[i] = s[i]
                 /\ \A n \in 0 .. Len(s) : SubSeq(a, 1, n) = SubSeq(s, 1, n)
                 /\ Range(a) = Range(s) \cup {e}
<1>1. Len(s) \in Nat /\ DOMAIN s = 1 .. Len(s) /\ SubSeq(s, 1, Len(s)) = s
  OBVIOUS
<1>2. \A n \in 0 .. Len(s) : SubSeq(s, 1, n) \in Seq(S) /\ Len(SubSeq(s, 1, n)) = n
  BY <1>1
<1>3. ASSUME NEW e \in S
      PROVE  LET a == Append(s, e) IN
                 /\ a \in Seq(S) /\ Len(a) = Len(s) + 1 /\ a[Len(s) + 1] = e
                 /\ \A i \in 1 .. Len(s) : a[i] = s[i]
                 /\ \A n \in 0 .. Len(s) : SubSeq(a, 1, n) = SubSeq(s, 1, n)
                 /\ Range(a) = Range(s) \cup {e}
  <2> DEFINE a == Append(s, e)
  <2>1. a \in Seq(S) /\ Len(a) = Len(s) + 1 /\ a[Len(s) + 1] = e /\ \A i \in 1 .. Len(s) : a[i] = s[i]
    BY AppendFacts
  <2> HIDE DEF a
  <2>2. \A n \in 0 .. Len(s) : SubSeq(a, 1, n) = SubSeq(s, 1, n)
    BY <1>1, <2>1
  <2>3. DOMAIN a = (1 .. Len(s)) \cup {Len(s) + 1}
    BY <1>1, <2>1
  <2>4. Range(a) = Range(s) \cup {e}
    BY <1>1, <2>1, <2>3 DEF Range
  <2>5. QED
    BY <2>1, <2>2, <2>4 DEF a
<1>4. QED
  BY <1>1, <1>2, <1>3

\* A log is decoded up to the first torn record.
LEMMA FirstTorn ==
    ASSUME NEW l \in Seq(Records)
    PROVE  \/ Torn \notin Range(l) /\ Decoded(l) = l
           \/ \E x \in DOMAIN l : /\ l[x] = Torn /\ \A i \in DOMAIN l : l[i] = Torn => x <= i
                                  /\ Decoded(l) = SubSeq(l, 1, x - 1)
<1> DEFINE I == {i \in 1 .. Len(l) : l[i] = Torn}
           bad == IF I # {} THEN Min(I) ELSE 0
<1>1. DOMAIN l = 1 .. Len(l) /\ I \in SUBSET Nat
  OBVIOUS
<1>2. Decoded(l) = IF bad = 0 THEN l ELSE SubSeq(l, 1, bad - 1)
  BY DEF Decoded, SelectInSeq
<1>3. CASE I = {}
  BY <1>1, <1>2, <1>3 DEF Range
<1>4. CASE I # {}
  <2> HIDE DEF I
  <2>1. PICK x \in I : \A y \in I : x <= y
    BY <1>1, <1>4, LeastNumber
  <2>2. Min(I) = x
    <3>1. \A z \in I : (\A y \in I : z <= y) <=> z = x
      BY <1>1, <2>1
    <3>2. Min(I) = CHOOSE z \in I : \A y \in I : z <= y
      BY DEF Min
    <3>3. (CHOOSE z \in I : \A y \in I : z <= y) = CHOOSE z \in I : z = x
      BY <3>1
    <3>4. (CHOOSE z \in I : z = x) = x
      OBVIOUS
    <3>5. QED
      BY <3>2, <3>3, <3>4
  <2>3. x \in 1 .. Len(l) /\ l[x] = Torn /\ x # 0
    BY DEF I
  <2>4. bad = x
    BY <1>4, <2>2
  <2>5. Decoded(l) = SubSeq(l, 1, x - 1)
    BY <1>2, <2>3, <2>4
  <2>6. \A i \in DOMAIN l : l[i] = Torn => i \in I
    BY <1>1 DEF I
  <2>7. QED
    BY <1>1, <2>1, <2>3, <2>5, <2>6
<1>5. QED
  BY <1>3, <1>4

LEMMA NotTorn == Torn \notin Entry
<1>1. "seq" \notin DOMAIN Torn
  BY DEF Torn
<1>2. QED
  BY <1>1 DEF Entry, RevealEntry, ScoreEntry

\* What is behind a torn record is not read, nor is that record.
LEMMA DecodedFacts ==
    ASSUME NEW l \in Seq(Records)
    PROVE  /\ Decoded(l) \in Seq(Entry)
           /\ Torn \notin Range(l) => Decoded(l) = l
           /\ \A e \in Records :
                 Torn \in Range(l) \/ e = Torn => Decoded(Append(l, e)) = Decoded(l)
<1>1. Len(l) \in Nat /\ DOMAIN l = 1 .. Len(l) /\ SubSeq(l, 1, Len(l)) = l /\ \A i \in DOMAIN l : l[i] \in Records
  OBVIOUS
<1>2. \A n \in 0 .. Len(l) : (\A i \in 1 .. n : l[i] # Torn) => SubSeq(l, 1, n) \in Seq(Entry)
  <2> SUFFICES ASSUME NEW n \in 0 .. Len(l), \A i \in 1 .. n : l[i] # Torn
               PROVE  SubSeq(l, 1, n) \in Seq(Entry)
    OBVIOUS
  <2>1. \A i \in 1 .. n : l[i] \in Entry
    BY <1>1 DEF Records
  <2>2. SubSeq(l, 1, n) = [i \in 1 .. n |-> l[i]]
    BY <1>1
  <2>3. QED
    BY <2>1, <2>2
<1>3. Decoded(l) \in Seq(Entry) /\ (Torn \notin Range(l) => Decoded(l) = l)
  <2>1. CASE Torn \notin Range(l) /\ Decoded(l) = l
    <3>1. \A i \in 1 .. Len(l) : l[i] # Torn
      BY <1>1, <2>1 DEF Range
    <3>2. SubSeq(l, 1, Len(l)) \in Seq(Entry)
      BY <1>1, <1>2, <3>1
    <3>3. QED
      BY <1>1, <2>1, <3>2
  <2>2. ASSUME NEW x \in DOMAIN l, l[x] = Torn, \A i \in DOMAIN l : l[i] = Torn => x <= i,
               Decoded(l) = SubSeq(l, 1, x - 1)
        PROVE  Decoded(l) \in Seq(Entry) /\ Torn \in Range(l)
    <3>1. x - 1 \in 0 .. Len(l) /\ \A i \in 1 .. x - 1 : l[i] # Torn
      BY <1>1, <2>2
    <3>2. QED
      BY <1>2, <2>2, <3>1 DEF Range
  <2>3. QED
    BY <2>1, <2>2, FirstTorn
<1>4. ASSUME NEW e \in Records, Torn \in Range(l) \/ e = Torn  PROVE Decoded(Append(l, e)) = Decoded(l)
  <2> DEFINE a == Append(l, e)
  <2>1. /\ a \in Seq(Records) /\ Len(a) = Len(l) + 1 /\ a[Len(l) + 1] = e
        /\ \A i \in 1 .. Len(l) : a[i] = l[i]
        /\ \A n \in 0 .. Len(l) : SubSeq(a, 1, n) = SubSeq(l, 1, n)
    BY PrefixFacts
  <2> HIDE DEF a
  <2>2. DOMAIN a = 1 .. Len(l) + 1
    BY <1>1, <2>1
  <2>3. Torn \in Range(a)
    <3>1. CASE e = Torn
      <4>1. Len(l) + 1 \in DOMAIN a
        BY <1>1, <2>2
      <4>2. QED
        BY <2>1, <3>1, <4>1 DEF Range
    <3>2. CASE Torn \in Range(l)
      <4>1. PICK i \in DOMAIN l : l[i] = Torn
        BY <3>2 DEF Range
      <4>2. i \in DOMAIN a /\ a[i] = Torn
        BY <1>1, <2>1, <2>2, <4>1
      <4>3. QED
        BY <4>2 DEF Range
    <3>3. QED
      BY <1>4, <3>1, <3>2
  <2>4. PICK y \in DOMAIN a : /\ a[y] = Torn /\ \A i \in DOMAIN a : a[i] = Torn => y <= i
                              /\ Decoded(a) = SubSeq(a, 1, y - 1)
    BY <2>1, <2>3, FirstTorn
  <2>5. y - 1 \in 0 .. Len(l) /\ Decoded(a) = SubSeq(l, 1, y - 1)
    BY <1>1, <2>1, <2>2, <2>4
  <2>6. CASE Torn \notin Range(l)
    <3>1. \A i \in 1 .. Len(l) : a[i] # Torn
      BY <1>1, <2>1, <2>6 DEF Range
    <3>2. y = Len(l) + 1
      BY <1>1, <2>2, <2>4, <3>1
    <3>3. QED
      BY <1>1, <1>3, <2>5, <2>6, <3>2 DEF a
  <2>7. CASE Torn \in Range(l)
    <3>1. PICK x \in DOMAIN l : /\ l[x] = Torn /\ \A i \in DOMAIN l : l[i] = Torn => x <= i
                                /\ Decoded(l) = SubSeq(l, 1, x - 1)
      BY <2>7, FirstTorn
    <3>2. x \in DOMAIN a /\ a[x] = Torn
      BY <1>1, <2>1, <2>2, <3>1
    <3>3. y <= x
      BY <2>4, <3>2
    <3>4. y \in DOMAIN l /\ l[y] = Torn
      BY <1>1, <2>1, <2>2, <2>4, <3>1, <3>3
    <3>5. x <= y
      BY <3>1, <3>4
    <3>6. x = y
      BY <1>1, <2>2, <3>3, <3>5
    <3>7. QED
      BY <2>5, <3>1, <3>6 DEF a
  <2>8. QED
    BY <2>6, <2>7
<1>5. QED
  BY <1>3, <1>4

\* There is one last score.
LEMMA LastIsOne ==
    ASSUME NEW s \in Seq(Entry), NEW p, NEW q, LastScore(s, p), LastScore(s, q)
    PROVE  p = q
<1>1. DOMAIN s = 1 .. Len(s) /\ Len(s) \in Nat
  OBVIOUS
<1>2. p \in 1 .. Len(s) /\ q \in 1 .. Len(s) /\ ~ (q > p) /\ ~ (p > q)
  BY <1>1 DEF LastScore
<1>3. QED
  BY <1>1, <1>2

\* One more entry.
LEMMA ReplayAppend ==
    ASSUME NEW w \in Worlds, NEW s \in Seq(Entry), NEW e \in Entry
    PROVE  LET r == Replay(w, Append(s, e)) IN
           /\ r \in Worlds /\ r.board = Replay(w, s).board \cup Reveals({e})
           /\ r.score = IF e \in ScoreEntry THEN e.score ELSE Replay(w, s).score
<1> DEFINE a == Append(s, e)
           n == Len(s)
<1>1. /\ a \in Seq(Entry) /\ Len(a) = n + 1 /\ a[n + 1] = e /\ \A i \in 1 .. n : a[i] = s[i]
      /\ Range(a) = Range(s) \cup {e} /\ n \in Nat /\ DOMAIN s = 1 .. n
  BY PrefixFacts
<1> HIDE DEF a, n
<1>2. DOMAIN a = 1 .. n + 1
  BY <1>1
<1>3. /\ Replay(w, a) \in Worlds /\ Replay(w, a).board = w.board \cup Reveals(Range(a))
      /\ \/ Range(a) \cap ScoreEntry = {} /\ Replay(w, a).score = w.score
         \/ \E p : LastScore(a, p) /\ Replay(w, a).score = a[p].score
  BY <1>1, ReplayFacts
<1>4. /\ Replay(w, s).board = w.board \cup Reveals(Range(s))
      /\ \/ Range(s) \cap ScoreEntry = {} /\ Replay(w, s).score = w.score
         \/ \E p : LastScore(s, p) /\ Replay(w, s).score = s[p].score
  BY ReplayFacts
<1>5. Replay(w, a).board = Replay(w, s).board \cup Reveals({e})
  <2>1. Reveals(Range(a)) = Reveals(Range(s)) \cup Reveals({e})
    BY <1>1 DEF Reveals
  <2>2. QED
    BY <1>3, <1>4, <2>1
<1>6. CASE e \in ScoreEntry
  <2>1. LastScore(a, n + 1)
    BY <1>1, <1>2, <1>6 DEF LastScore
  <2>2. e \in Range(a) \cap ScoreEntry
    BY <1>1, <1>6
  <2>3. PICK p : LastScore(a, p) /\ Replay(w, a).score = a[p].score
    BY <1>3, <2>2
  <2>4. p = n + 1
    BY <1>1, <2>1, <2>3, LastIsOne
  <2>5. QED
    BY <1>1, <1>3, <1>5, <1>6, <2>3, <2>4 DEF a
<1>7. CASE e \notin ScoreEntry
  <2>1. CASE Range(s) \cap ScoreEntry = {}
    <3>1. \A p : ~ LastScore(s, p) /\ ~ LastScore(a, p)
      <4>1. Range(a) \cap ScoreEntry = {}
        BY <1>1, <1>7, <2>1
      <4>2. QED
        BY <2>1, <4>1 DEF LastScore, Range
    <3>2. Replay(w, a).score = w.score /\ Replay(w, s).score = w.score
      BY <1>3, <1>4, <3>1
    <3>3. QED
      BY <1>3, <1>5, <1>7, <3>2 DEF a
  <2>2. CASE Range(s) \cap ScoreEntry # {}
    <3>1. PICK p : LastScore(s, p) /\ Replay(w, s).score = s[p].score
      BY <1>4, <2>2
    <3>2. p \in 1 .. n /\ LastScore(a, p) /\ a[p] = s[p]
      BY <1>1, <1>2, <1>7, <3>1 DEF LastScore
    <3>3. PICK q : LastScore(a, q) /\ Replay(w, a).score = a[q].score
      BY <1>1, <1>3, <2>2
    <3>4. q = p
      BY <1>1, <3>2, <3>3, LastIsOne
    <3>5. QED
      BY <1>3, <1>5, <1>7, <3>1, <3>2, <3>3, <3>4 DEF a
  <2>3. QED
    BY <2>1, <2>2
<1>8. QED
  BY <1>6, <1>7

\* A log that is replayed on what it gave changes nothing.
LEMMA ReplayAgain ==
    ASSUME NEW w \in Worlds, NEW s \in Seq(Entry)
    PROVE  Replay(Replay(w, s), s) = Replay(w, s)
<1> DEFINE v == Replay(w, s)
           u == Replay(v, s)
<1>1. /\ v \in Worlds /\ v.board = w.board \cup Reveals(Range(s))
      /\ \/ Range(s) \cap ScoreEntry = {} /\ v.score = w.score
         \/ \E p : LastScore(s, p) /\ v.score = s[p].score
  BY ReplayFacts
<1> HIDE DEF v
<1>2. /\ u \in Worlds /\ u.board = v.board \cup Reveals(Range(s))
      /\ \/ Range(s) \cap ScoreEntry = {} /\ u.score = v.score
         \/ \E p : LastScore(s, p) /\ u.score = s[p].score
  BY <1>1, ReplayFacts
<1> HIDE DEF u
<1>3. u.score = v.score
  <2>1. \A p : LastScore(s, p) => s[p] \in Range(s) \cap ScoreEntry
    BY DEF LastScore, Range
  <2>2. \A p, q : LastScore(s, p) /\ LastScore(s, q) => p = q
    BY LastIsOne
  <2>3. QED
    BY <1>1, <1>2, <2>1, <2>2
<1>4. u = v
  <2>1. u = [board |-> u.board, score |-> u.score] /\ v = [board |-> v.board, score |-> v.score]
    BY <1>1, <1>2 DEF Worlds
  <2>2. u.board = v.board
    BY <1>1, <1>2
  <2>3. QED
    BY <1>3, <2>1, <2>2
<1>5. QED
  BY <1>4 DEF u, v

LEMMA ReplayNothing ==
    ASSUME NEW w \in Worlds
    PROVE  Replay(w, <<>>) = w
<1>1. <<>> \in Seq(Entry) /\ Len(<<>>) = 0
  OBVIOUS
<1>2. \E h \in [0 .. Len(<<>>) -> Worlds] : h[0] = w /\ Replay(w, <<>>) = h[Len(<<>>)]
  BY <1>1, ReplayUnfolds
<1>3. QED
  BY <1>1, <1>2

-----------------------------------------------------------------------------
(* The invariant of the log. *)

Handle == [open : BOOLEAN, removed : {FALSE}, written : Nat]

LogTypes ==
    /\ MemoryTyped
    /\ walLog \in Seq(Records) /\ synced \in 0 .. Len(walLog)
    /\ handle \in [Flushers -> Handle]
    /\ DiskSnapshotWorld \in Worlds
    /\ Working("boot") => saver["boot"].data.world \in Worlds
    /\ batch["signal"] = <<>> /\ ~ handle["signal"].open
    /\ handle["ticker"].open => handle["ticker"].written \in 0 .. Len(batch["ticker"])

\* Nothing is played or flushed before the server is up.
Quiet ==
    phase # "up" => /\ batch["ticker"] = <<>> /\ walBuffer = <<>> /\ writing = <<>>
                    /\ ~ handle["ticker"].open /\ synced = Len(walLog)

\* The first snapshot holds what the boot has rebuilt.
FirstSave ==
    phase = "booting" =>
        /\ world = RecoveredFromDisk
        /\ Working("boot") => saver["boot"].data.world = world
        /\ saver["boot"].at = "renamed" => DiskSnapshotWorld = world

\* The scores on their way to the log climb from what is kept to what the
\* world has: writing them again in the same order, after a failed flush, ends
\* no lower than what was kept before.
Sorted(s) ==
    \A i, j \in DOMAIN s :
        i <= j /\ s[i] \in ScoreEntry /\ s[j] \in ScoreEntry => s[i].score <= s[j].score

Climbs ==
    /\ Sorted(Memory)
    /\ \A e \in Range(Memory) \cap ScoreEntry : kept.score <= e.score /\ e.score <= world.score
    /\ phase = "up" => kept.score <= world.score
    /\ Commands

\* What flushWAL has written of its batch would be rebuilt.
Appended ==
    handle["ticker"].open /\ Torn \notin Range(walLog) =>
        Holds(RecoveredFromDisk, {batch["ticker"][i] : i \in 1 .. handle["ticker"].written})

\* What a boot would rebuild from the first n records of the log.
RebuiltFrom(n) == Replay(DiskSnapshotWorld, Decoded(SubSeq(walLog, 1, n)))

\* Each state that a power loss can take the log back to has all that is kept.
Backed == \A n \in synced .. Len(walLog) : Covers(RebuiltFrom(n), kept)

Sound == FirstSave /\ Climbs /\ Appended /\ Backed
LogInv == given.may = {} => LogTypes /\ Quiet /\ (~ unread => Sound)

LEMMA LogFigures ==
    ASSUME LogTypes
    PROVE  /\ batch["ticker"] \in Seq(Entry) /\ walBuffer \in Seq(Entry) /\ Memory \in Seq(Entry)
           /\ Len(batch["ticker"]) \in Nat /\ DOMAIN batch["ticker"] = 1 .. Len(batch["ticker"])
           /\ Len(walBuffer) \in Nat /\ DOMAIN walBuffer = 1 .. Len(walBuffer)
           /\ Len(Memory) = Len(batch["ticker"]) + Len(walBuffer) /\ DOMAIN Memory = 1 .. Len(Memory)
           /\ Len(Memory) \in Nat
           /\ \A i \in 1 .. Len(batch["ticker"]) : Memory[i] = batch["ticker"][i]
           /\ \A i \in 1 .. Len(walBuffer) : Memory[Len(batch["ticker"]) + i] = walBuffer[i]
           /\ Range(Memory) = Range(batch["ticker"]) \cup Range(walBuffer)
           /\ Len(walLog) \in Nat /\ synced \in Nat
           /\ world \in Worlds /\ kept \in Worlds /\ world.score \in Nat /\ kept.score \in Nat
           /\ Decoded(walLog) \in Seq(Entry) /\ RecoveredFromDisk \in Worlds
           /\ RecoveredFromDisk.score \in Nat
<1>1. /\ batch["ticker"] \in Seq(Entry) /\ walBuffer \in Seq(Entry) /\ walLog \in Seq(Records)
      /\ world \in Worlds /\ kept \in Worlds /\ DiskSnapshotWorld \in Worlds
  BY DEF LogTypes, MemoryTyped, InMemoryTyped, Flushers
<1> DEFINE a == batch["ticker"]
           b == walBuffer
<1> HIDE DEF a, b
<1>2. Memory = a \o b /\ a \in Seq(Entry) /\ b \in Seq(Entry)
  BY <1>1 DEF Memory, a, b
<1>3. /\ Memory \in Seq(Entry) /\ Len(Memory) = Len(a) + Len(b)
      /\ \A i \in 1 .. Len(a) : Memory[i] = a[i]
      /\ \A i \in 1 .. Len(b) : Memory[Len(a) + i] = b[i]
  BY <1>2, ConcatFacts
<1>4. Range(Memory) = Range(a) \cup Range(b)
  BY <1>2, RangeOfConcat
<1>5. /\ Len(a) \in Nat /\ Len(b) \in Nat /\ DOMAIN a = 1 .. Len(a) /\ DOMAIN b = 1 .. Len(b)
      /\ Len(Memory) \in Nat /\ DOMAIN Memory = 1 .. Len(Memory)
  BY <1>2, <1>3
<1>6. Len(walLog) \in Nat /\ synced \in Nat
  BY <1>1 DEF LogTypes
<1>7. Decoded(walLog) \in Seq(Entry) /\ RecoveredFromDisk \in Worlds
  BY <1>1, DecodedFacts, ReplayFacts DEF RecoveredFromDisk
<1>8. world.score \in Nat /\ kept.score \in Nat /\ RecoveredFromDisk.score \in Nat
  BY <1>1, <1>7, WorldTypes
<1>9. QED
  BY <1>1, <1>2, <1>3, <1>4, <1>5, <1>6, <1>7, <1>8 DEF a, b

\* A step that leaves the log and the snapshot alone.
LEMMA SameDisk ==
    ASSUME UNCHANGED <<walLog, content, snapshotFile>>
    PROVE  /\ DiskSnapshotWorld' = DiskSnapshotWorld /\ RecoveredFromDisk' = RecoveredFromDisk
           /\ \A n : RebuiltFrom(n)' = RebuiltFrom(n)
<1>1. DiskSnapshotWorld' = DiskSnapshotWorld
  BY DEF DiskSnapshotWorld, Readable
<1>2. QED
  BY <1>1 DEF RecoveredFromDisk, RebuiltFrom

\* The whole log is one of the parts that are backed.
LEMMA WholeLog ==
    ASSUME LogTypes, Backed
    PROVE  Covers(RecoveredFromDisk, kept)
<1>1. SubSeq(walLog, 1, Len(walLog)) = walLog /\ Len(walLog) \in synced .. Len(walLog)
  BY LogFigures, PrefixFacts DEF LogTypes
<1>2. QED
  BY <1>1 DEF Backed, RebuiltFrom, RecoveredFromDisk

LEMMA BackedWhole ==
    ASSUME walLog' \in Seq(Records), synced' = Len(walLog'), Covers(RecoveredFromDisk', kept')
    PROVE  Backed'
<1> SUFFICES ASSUME NEW n \in synced' .. Len(walLog') PROVE Covers(RebuiltFrom(n)', kept')
  BY DEF Backed
<1>1. n = Len(walLog') /\ SubSeq(walLog', 1, n) = walLog'
  OBVIOUS
<1>2. QED
  BY <1>1 DEF RebuiltFrom, RecoveredFromDisk

\* A step that leaves the log, the snapshot and what is kept alone.
LEMMA BackedStays ==
    ASSUME LogTypes, Backed, UNCHANGED <<walLog, kept, content, snapshotFile, synced>>
    PROVE  Backed'
BY SameDisk DEF Backed

\* The entry that a command appends next: no score in the log is larger.
LEMMA NextEntry ==
    ASSUME LogTypes, Commands, WriteWALEntry
    PROVE  \E x \in Entry : /\ walBuffer' = Append(walBuffer, x)
                            /\ x \in ScoreEntry => x.score = world.score
                            /\ Commands'
<1> DEFINE top == Head(writing)
           x == IF "reveal" \in DOMAIN top THEN [seq |-> walSeq + 1, reveal |-> top.reveal]
                                           ELSE [seq |-> walSeq + 1, score |-> top.score]
<1>1. /\ writing # <<>> /\ walBuffer' = Append(walBuffer, x) /\ writing' = Tail(writing) /\ world' = world
  BY DEF WriteWALEntry
<1>2. world \in Worlds /\ world.board \in SUBSET Cells /\ world.score \in Nat /\ walSeq + 1 \in Nat
  BY WorldTypes DEF LogTypes, MemoryTyped, InMemoryTyped
<1>3. x \in Entry /\ (x \in ScoreEntry => x.score = world.score) /\ Commands'
  <2>1. CASE writing = <<[score |-> world.score]>>
    <3>1. top = [score |-> world.score] /\ writing' = <<>>
      BY <1>1, <2>1
    <3>2. x = [seq |-> walSeq + 1, score |-> world.score]
      BY <3>1
    <3>3. x \in ScoreEntry /\ x.score = world.score
      BY <1>2, <3>2 DEF ScoreEntry
    <3> HIDE DEF x, top
    <3>4. QED
      BY <3>1, <3>3 DEF Entry, Commands
  <2>2. CASE \E c \in world.board : writing = Entries(c, world.score)
    <3>1. PICK c \in world.board : writing = Entries(c, world.score)
      BY <2>2
    <3>2. top = [reveal |-> c] /\ writing' = <<[score |-> world.score]>>
      BY <1>1, <3>1 DEF Entries
    <3>3. x = [seq |-> walSeq + 1, reveal |-> c]
      BY <3>2
    <3>4. x \in RevealEntry /\ x \notin ScoreEntry
      BY <1>2, <3>3 DEF RevealEntry, ScoreEntry
    <3> HIDE DEF x, top
    <3>5. Commands'
      BY <1>1, <3>2 DEF Commands
    <3>6. QED
      BY <3>4, <3>5 DEF Entry
  <2>3. QED
    BY <1>1, <2>1, <2>2 DEF Commands
<1> HIDE DEF x
<1>4. QED
  BY <1>1, <1>3

\* A step of play: a command, or an entry of it.
LEMMA PlayLog ==
    ASSUME LogTypes, Quiet, (\E c \in Cells : OffDisk(Command(c))) \/ OffDisk(WriteWALEntry)
    PROVE  LogTypes' /\ Quiet' /\ (Sound => Sound')
<1>1. /\ phase = "up" /\ phase' = "up" /\ UNCHANGED <<walLog, synced, handle, content, snapshotFile, saver>>
      /\ UNCHANGED <<batch, kept>>
  BY DEF OffDisk, Command, WriteWALEntry, disk
<1>2. MemoryTyped'
  BY PlayTyped, WriteTyped DEF OffDisk, LogTypes, MemoryTyped
<1>3. DiskSnapshotWorld' = DiskSnapshotWorld /\ RecoveredFromDisk' = RecoveredFromDisk
  BY <1>1, SameDisk
<1>4. LogTypes'
  BY <1>1, <1>2, <1>3 DEF LogTypes, Working
<1>5. Quiet'
  BY <1>1 DEF Quiet
<1>6. ASSUME Sound PROVE Sound'
  <2>1. FirstSave'
    BY <1>1 DEF FirstSave
  <2>2. Appended'
    BY <1>1, <1>3, <1>6 DEF Sound, Appended
  <2>3. Backed'
    BY <1>1, <1>6, BackedStays DEF Sound
  <2>4. ASSUME NEW c \in Cells, OffDisk(Command(c)) PROVE Sound'
    <3>1. Memory' = Memory /\ world' = [board |-> world.board \cup {c}, score |-> world.score + 1]
          /\ writing' = Entries(c, world.score + 1)
      BY <2>4 DEF OffDisk, Command, Memory
    <3>2. world'.score = world.score + 1 /\ c \in world'.board
      BY <3>1
    <3>3. Commands'
      BY <3>1, <3>2 DEF Commands
    <3>4. \A e \in Range(Memory) \cap ScoreEntry : e.score \in Nat
      BY DEF ScoreEntry
    <3>5. Climbs'
      <4>1. /\ Sorted(Memory) /\ kept.score <= world.score
            /\ \A e \in Range(Memory) \cap ScoreEntry : kept.score <= e.score /\ e.score <= world.score
        BY <1>1, <1>6 DEF Sound, Climbs
      <4>2. world.score \in Nat /\ kept.score \in Nat
        BY LogFigures
      <4>3. \A n \in Nat : n <= world.score => n <= world'.score
        BY <3>2, <4>2
      <4>4. QED
        BY <1>1, <3>1, <3>3, <3>4, <4>1, <4>2, <4>3 DEF Climbs
    <3>6. QED
      BY <2>1, <2>2, <2>3, <3>5 DEF Sound
  <2>5. CASE OffDisk(WriteWALEntry)
    <3>1. PICK x \in Entry : /\ walBuffer' = Append(walBuffer, x)
                             /\ x \in ScoreEntry => x.score = world.score
                             /\ Commands'
      BY <1>6, <2>5, NextEntry DEF OffDisk, Sound, Climbs
    <3>2. Memory' = Append(Memory, x)
      <4>1. Memory' = batch["ticker"] \o Append(walBuffer, x)
        BY <1>1, <3>1 DEF Memory
      <4> DEFINE a == batch["ticker"]
                 b == walBuffer
      <4>2. a \in Seq(Entry) /\ b \in Seq(Entry)
        BY LogFigures
      <4> HIDE DEF a, b
      <4>3. a \o Append(b, x) = Append(a \o b, x)
        BY <4>2
      <4>4. QED
        BY <4>1, <4>3 DEF Memory, a, b
    <3> DEFINE n == Len(Memory)
    <3>3. /\ n \in Nat /\ DOMAIN Memory = 1 .. n /\ Len(Memory') = n + 1 /\ Memory'[n + 1] = x
          /\ \A i \in 1 .. n : Memory'[i] = Memory[i]
          /\ Range(Memory') = Range(Memory) \cup {x} /\ Memory' \in Seq(Entry)
      <4>1. Memory \in Seq(Entry) /\ n \in Nat /\ DOMAIN Memory = 1 .. n
        BY LogFigures
      <4> DEFINE m == Memory
      <4> HIDE DEF m
      <4>2. \A e \in Entry : LET a == Append(m, e) IN
               /\ a \in Seq(Entry) /\ Len(a) = Len(m) + 1 /\ a[Len(m) + 1] = e
               /\ \A i \in 1 .. Len(m) : a[i] = m[i]
               /\ Range(a) = Range(m) \cup {e}
        BY <4>1, PrefixFacts DEF m
      <4>3. QED
        BY <3>2, <4>1, <4>2 DEF m
    <3> HIDE DEF n
    <3>4. DOMAIN Memory' = 1 .. n + 1
      BY <3>3
    <3>5. world' = world /\ \A e \in Range(Memory) \cap ScoreEntry : kept.score <= e.score /\ e.score <= world.score
      BY <1>6, <2>5 DEF OffDisk, WriteWALEntry, Sound, Climbs
    <3>6. \A e \in Range(Memory') \cap ScoreEntry : kept'.score <= e.score /\ e.score <= world'.score
      <4>1. kept.score <= world.score /\ world.score \in Nat
        BY <1>1, <1>6, LogFigures DEF Sound, Climbs
      <4>2. QED
        BY <1>1, <3>1, <3>3, <3>5, <4>1
    <3>7. Sorted(Memory')
      <4> SUFFICES ASSUME NEW i \in DOMAIN Memory', NEW j \in DOMAIN Memory', i <= j,
                          Memory'[i] \in ScoreEntry, Memory'[j] \in ScoreEntry
                   PROVE  Memory'[i].score <= Memory'[j].score
        BY DEF Sorted
      <4>1. Memory'[i].score \in Nat /\ Memory'[i] \in Range(Memory')
        BY DEF ScoreEntry, Range
      <4>2. CASE j = n + 1
        <5>1. Memory'[j].score = world.score
          BY <3>1, <3>3, <4>2
        <5>2. Memory'[i].score <= world'.score
          BY <3>6, <4>1
        <5>3. QED
          BY <3>5, <5>1, <5>2
      <4>3. CASE j # n + 1
        <5>1. i \in 1 .. n /\ j \in 1 .. n
          BY <3>3, <3>4, <4>3
        <5>2. Sorted(Memory) /\ Memory'[i] = Memory[i] /\ Memory'[j] = Memory[j]
          BY <1>6, <3>3, <5>1 DEF Sound, Climbs
        <5>3. QED
          BY <3>3, <5>1, <5>2 DEF Sorted
      <4>4. QED
        BY <4>2, <4>3
    <3>8. Climbs'
      BY <1>1, <1>6, <3>1, <3>5, <3>6, <3>7 DEF Sound, Climbs
    <3>9. QED
      BY <2>1, <2>2, <2>3, <3>8 DEF Sound
  <2>6. QED
    BY <2>4, <2>5
<1>7. QED
  BY <1>4, <1>5, <1>6

\* The buffer is taken, or the log opened.
LEMMA TakeLog ==
    ASSUME LogTypes, Quiet, signal = "none", NEW f \in Flushers, OffDisk(TakeBuffer(f)) \/ OpenLog(f)
    PROVE  LogTypes' /\ Quiet' /\ (Sound => Sound')
<1>1. /\ f = "ticker" /\ phase' = phase /\ UNCHANGED <<world, writing, kept, signal>>
      /\ UNCHANGED <<walLog, synced, content, snapshotFile, saver>>
  BY DEF OffDisk, TakeBuffer, OpenLog, disk, journal, volatile, LogTypes, Flushers
<1>2. phase = "up"
  <2>1. CASE OffDisk(TakeBuffer(f))
    BY <1>1, <2>1 DEF OffDisk, TakeBuffer
  <2>2. CASE OpenLog(f)
    BY <1>1, <2>2 DEF OpenLog, Quiet
  <2>3. QED
    BY <2>1, <2>2
<1>3. Memory' = Memory
  <2>1. CASE OffDisk(TakeBuffer(f))
    <3>1. batch["ticker"] = <<>> /\ batch'["ticker"] = walBuffer /\ walBuffer' = <<>>
      BY <1>1, <2>1 DEF OffDisk, TakeBuffer, LogTypes, MemoryTyped, InMemoryTyped
    <3>2. Memory = <<>> \o walBuffer /\ Memory' = walBuffer \o <<>> /\ walBuffer \in Seq(Entry)
      BY <3>1, LogFigures DEF Memory
    <3> DEFINE b == walBuffer
    <3> HIDE DEF b
    <3>3. b \in Seq(Entry) => <<>> \o b = b \o <<>>
      OBVIOUS
    <3>4. QED
      BY <3>2, <3>3 DEF b
  <2>2. CASE OpenLog(f)
    BY <2>2 DEF OpenLog, journal, volatile, Memory
  <2>3. QED
    BY <2>1, <2>2
<1>4. DiskSnapshotWorld' = DiskSnapshotWorld /\ RecoveredFromDisk' = RecoveredFromDisk
  BY <1>1, SameDisk
<1>5. MemoryTyped'
  <2>1. CASE OffDisk(TakeBuffer(f))
    BY <2>1, TakeTyped DEF OffDisk, LogTypes
  <2>2. CASE OpenLog(f)
    BY <2>2 DEF OpenLog, journal, volatile, LogTypes, MemoryTyped, InMemoryTyped, Pending
  <2>3. QED
    BY <2>1, <2>2
<1>6. /\ handle' \in [Flushers -> Handle] /\ ~ handle'["signal"].open /\ batch'["signal"] = <<>>
      /\ handle'["ticker"].open => /\ handle'["ticker"].written \in 0 .. Len(batch'["ticker"])
                                   /\ handle'["ticker"].written = 0
  <2>1. CASE OffDisk(TakeBuffer(f))
    <3>1. handle' = handle /\ batch["ticker"] = <<>> /\ batch' = [batch EXCEPT !["ticker"] = walBuffer]
      BY <1>1, <2>1 DEF OffDisk, TakeBuffer, disk
    <3>2. batch'["ticker"] = walBuffer /\ batch'["signal"] = <<>> /\ Len(batch["ticker"]) = 0
      BY <3>1 DEF LogTypes, MemoryTyped, InMemoryTyped, Flushers
    <3>3. handle["ticker"].open => handle["ticker"].written = 0
      BY <3>2 DEF LogTypes
    <3>4. QED
      BY <3>1, <3>2, <3>3, LogFigures DEF LogTypes
  <2>2. CASE OpenLog(f)
    <3>1. handle' = [handle EXCEPT !["ticker"] = [open |-> TRUE, removed |-> FALSE, written |-> 0]]
          /\ batch' = batch
      BY <1>1, <2>2 DEF OpenLog, journal, volatile
    <3>2. [open |-> TRUE, removed |-> FALSE, written |-> 0] \in Handle
      BY DEF Handle
    <3>3. /\ handle' \in [Flushers -> Handle] /\ handle'["signal"] = handle["signal"]
          /\ handle'["ticker"].written = 0
      BY <3>1, <3>2 DEF LogTypes, Flushers
    <3>4. QED
      BY <3>1, <3>3, LogFigures DEF LogTypes
  <2>3. QED
    BY <2>1, <2>2
<1>7. LogTypes'
  BY <1>1, <1>4, <1>5, <1>6 DEF LogTypes, Working
<1>8. Quiet'
  BY <1>1, <1>2 DEF Quiet
<1>9. ASSUME Sound PROVE Sound'
  <2>1. FirstSave'
    BY <1>1, <1>2 DEF FirstSave
  <2>2. Appended'
    <3>1. handle'["ticker"].open => {batch'["ticker"][i] : i \in 1 .. handle'["ticker"].written} = {}
      BY <1>6
    <3>2. Reveals({}) = {}
      BY DEF Reveals
    <3>3. QED
      BY <3>1, <3>2 DEF Appended, Holds
  <2>3. Backed'
    BY <1>1, <1>9, BackedStays DEF Sound
  <2>4. Climbs'
    BY <1>1, <1>3, <1>9 DEF Sound, Climbs, Commands
  <2>5. QED
    BY <2>1, <2>2, <2>3, <2>4 DEF Sound
<1>10. QED
  BY <1>7, <1>8, <1>9

\* A flush that fails: what it has written stays in the log, and all of it
\* waits again, before what has come since.
LEMMA FailLog ==
    ASSUME LogTypes, Quiet, NEW f \in Flushers, OpenFails(f) \/ AppendFails(f) \/ SyncFails(f)
    PROVE  LogTypes' /\ Quiet' /\ (Sound => Sound')
<1>1. /\ FlushFails(f) /\ handle' = [handle EXCEPT ![f] = Closed] /\ Requeue(f)
      /\ UNCHANGED <<synced, content, tmpFile, snapshotFile, saver, unread>>
      /\ UNCHANGED <<given, phase, world, writing, kept, signal>>
  BY DEF OpenFails, AppendFails, SyncFails, FlushFails, Requeue
<1>2. f = "ticker"
  BY DEF OpenFails, AppendFails, SyncFails, Written, LogTypes, Flushers
<1>3. phase = "up"
  BY <1>2 DEF OpenFails, AppendFails, SyncFails, Written, Quiet
<1>4. /\ handle' \in [Flushers -> Handle] /\ ~ handle'["ticker"].open /\ ~ handle'["signal"].open
      /\ batch'["ticker"] = <<>> /\ batch'["signal"] = <<>>
  <2>1. Closed \in Handle /\ ~ Closed.open
    BY DEF Closed, Handle
  <2>2. batch' = [batch EXCEPT !["ticker"] = <<>>]
    BY <1>1, <1>2 DEF Requeue
  <2>3. QED
    BY <1>1, <1>2, <2>1, <2>2 DEF LogTypes, MemoryTyped, InMemoryTyped, Flushers
<1>5. Memory' = Memory
  <2> DEFINE a == batch["ticker"] \o walBuffer
  <2>1. Memory' = <<>> \o a /\ Memory = a
    BY <1>1, <1>2, <1>4 DEF Requeue, Memory
  <2>2. a \in Seq(Entry)
    BY <2>1, LogFigures
  <2> HIDE DEF a
  <2>3. <<>> \o a = a
    BY <2>2
  <2>4. QED
    BY <2>1, <2>3
<1>6. walLog' = walLog \/ walLog' = Append(walLog, Torn)
  <2>1. handle["ticker"].removed = FALSE
    BY DEF LogTypes, Handle, Flushers
  <2>2. QED
    BY <1>2, <2>1 DEF OpenFails, AppendFails, SyncFails
<1>7. /\ walLog' \in Seq(Records) /\ Len(walLog') \in Len(walLog) .. Len(walLog) + 1
      /\ Decoded(walLog') = Decoded(walLog)
      /\ \A n \in 0 .. Len(walLog) : SubSeq(walLog', 1, n) = SubSeq(walLog, 1, n)
  <2>1. walLog \in Seq(Records) /\ Torn \in Records /\ Len(walLog) \in Nat
    BY LogFigures DEF LogTypes, Records
  <2> DEFINE l == walLog
  <2>2. /\ Append(l, Torn) \in Seq(Records) /\ Len(Append(l, Torn)) = Len(l) + 1
        /\ Decoded(Append(l, Torn)) = Decoded(l)
        /\ \A n \in 0 .. Len(l) : SubSeq(Append(l, Torn), 1, n) = SubSeq(l, 1, n)
    <3> HIDE DEF l
    <3>1. l \in Seq(Records)
      BY <2>1 DEF l
    <3>2. QED
      BY <2>1, <3>1, PrefixFacts, DecodedFacts
  <2>3. CASE walLog' = walLog
    BY <2>1, <2>3
  <2>4. CASE walLog' = Append(walLog, Torn)
    BY <2>1, <2>2, <2>4
  <2>5. QED
    BY <1>6, <2>3, <2>4
<1>8. DiskSnapshotWorld' = DiskSnapshotWorld
  BY <1>1 DEF DiskSnapshotWorld, Readable
<1>9. LogTypes'
  <2>1. MemoryTyped'
    BY <1>1, RequeueTyped DEF LogTypes, MemoryTyped
  <2>2. synced' \in 0 .. Len(walLog')
    BY <1>1, <1>7, LogFigures DEF LogTypes
  <2>3. QED
    BY <1>1, <1>4, <1>7, <1>8, <2>1, <2>2 DEF LogTypes, Working
<1>10. Quiet'
  BY <1>1, <1>3 DEF Quiet
<1>11. ASSUME Sound PROVE Sound'
  <2>1. FirstSave' /\ Appended'
    BY <1>1, <1>3, <1>4 DEF FirstSave, Appended
  <2>2. Climbs'
    BY <1>1, <1>5, <1>11 DEF Sound, Climbs, Commands
  <2>3. Backed'
    <3> SUFFICES ASSUME NEW n \in synced' .. Len(walLog') PROVE Covers(RebuiltFrom(n)', kept')
      BY DEF Backed
    <3>1. CASE n = Len(walLog')
      <4>1. SubSeq(walLog', 1, n) = walLog'
        BY <1>7, <3>1, PrefixFacts
      <4>2. RebuiltFrom(n)' = RecoveredFromDisk
        BY <1>7, <1>8, <4>1 DEF RebuiltFrom, RecoveredFromDisk
      <4>3. QED
        BY <1>1, <1>11, <4>2, WholeLog DEF Sound
    <3>2. CASE n # Len(walLog')
      <4>1. n \in synced .. Len(walLog) /\ n \in 0 .. Len(walLog)
        <5>1. Len(walLog) \in Nat /\ synced \in Nat
          BY LogFigures
        <5>2. n \in synced .. Len(walLog') /\ Len(walLog') \in Len(walLog) .. Len(walLog) + 1
          BY <1>1, <1>7
        <5>3. QED
          BY <3>2, <5>1, <5>2
      <4>2. RebuiltFrom(n)' = RebuiltFrom(n)
        BY <1>7, <1>8, <4>1 DEF RebuiltFrom
      <4>3. QED
        BY <1>1, <1>11, <4>1, <4>2 DEF Sound, Backed
    <3>3. QED
      BY <3>1, <3>2
  <2>4. QED
    BY <2>1, <2>2, <2>3 DEF Sound
<1>12. QED
  BY <1>9, <1>10, <1>11

\* One more record of the batch in the log: the scores of a batch climb, and
\* none of them is below what is kept.
LEMMA AppendLog ==
    ASSUME LogTypes, Quiet, NEW f \in Flushers, AppendRecord(f)
    PROVE  LogTypes' /\ Quiet' /\ (Sound => Sound')
<1> DEFINE w == handle["ticker"].written
           b == batch["ticker"]
           e == b[w + 1]
           l == walLog
           r == RecoveredFromDisk
<1>1. /\ handle[f].open /\ handle' = [handle EXCEPT ![f].written = @ + 1]
      /\ UNCHANGED <<journal, synced, content, snapshotFile, saver, unread>>
  BY DEF AppendRecord
<1>2. f = "ticker"
  BY <1>1 DEF LogTypes, Flushers
<1>3. /\ phase = "up" /\ phase' = "up" /\ world' = world /\ writing' = writing /\ walBuffer' = walBuffer
      /\ batch' = batch /\ kept' = kept
  BY <1>1, <1>2 DEF Quiet, journal, volatile
<1>4. /\ w \in Nat /\ w < Len(b) /\ Len(b) \in Nat /\ b \in Seq(Entry) /\ DOMAIN b = 1 .. Len(b)
      /\ w + 1 \in 1 .. Len(b) /\ e \in Entry
  <2>1. w \in 0 .. Len(b) /\ w < Len(b) /\ Len(b) \in Nat /\ b \in Seq(Entry) /\ DOMAIN b = 1 .. Len(b)
    BY <1>1, <1>2, LogFigures DEF AppendRecord, LogTypes
  <2> HIDE DEF w, b
  <2>2. w \in Nat /\ w + 1 \in 1 .. Len(b)
    BY <2>1
  <2>3. QED
    BY <2>1, <2>2
<1>5. walLog' = Append(l, e)
  BY <1>1, <1>2 DEF AppendRecord, LogTypes, Handle, Flushers
<1>6. /\ handle' \in [Flushers -> Handle] /\ handle'["ticker"].written = w + 1
      /\ handle'["ticker"].open /\ ~ handle'["signal"].open
  <2>1. handle["ticker"] \in Handle /\ handle["ticker"].open
    BY <1>1, <1>2 DEF LogTypes, Flushers
  <2>2. handle["ticker"] = [open |-> TRUE, removed |-> FALSE, written |-> w]
    BY <2>1 DEF Handle
  <2>3. handle' = [handle EXCEPT !["ticker"] = [open |-> TRUE, removed |-> FALSE, written |-> w + 1]]
    <3>1. handle' = [handle EXCEPT !["ticker"] = [handle["ticker"] EXCEPT !.written = @ + 1]]
      BY <1>1, <1>2 DEF LogTypes
    <3>2. [handle["ticker"] EXCEPT !.written = @ + 1] = [open |-> TRUE, removed |-> FALSE, written |-> w + 1]
      <4> DEFINE h == handle["ticker"]
                 k == w
      <4>1. h = [open |-> TRUE, removed |-> FALSE, written |-> k]
        BY <2>2
      <4> HIDE DEF h, k
      <4>2. h = [open |-> h.open, removed |-> h.removed, written |-> h.written]
        BY <4>1
      <4>3. [h EXCEPT !.written = @ + 1] = [open |-> h.open, removed |-> h.removed, written |-> h.written + 1]
        BY <4>2
      <4>4. h.open = TRUE /\ h.removed = FALSE /\ h.written = k
        BY <4>1
      <4>5. QED
        BY <4>3, <4>4 DEF h, k
    <3>3. QED
      BY <3>1, <3>2
  <2>4. [open |-> TRUE, removed |-> FALSE, written |-> w + 1] \in Handle
    BY <1>4 DEF Handle
  <2> HIDE DEF w
  <2>5. QED
    BY <2>3, <2>4 DEF LogTypes, Flushers
<1>7. l \in Seq(Records) /\ e \in Records /\ Len(l) \in Nat /\ r \in Worlds /\ DiskSnapshotWorld \in Worlds
  BY <1>4, LogFigures DEF LogTypes, Records
<1>8. /\ walLog' \in Seq(Records) /\ Len(walLog') = Len(l) + 1 /\ Range(walLog') = Range(l) \cup {e}
      /\ \A n \in 0 .. Len(l) : SubSeq(walLog', 1, n) = SubSeq(l, 1, n)
  <2> HIDE DEF l, e
  <2>1. QED
    BY <1>5, <1>7, PrefixFacts
<1>9. DiskSnapshotWorld' = DiskSnapshotWorld
  BY <1>1 DEF DiskSnapshotWorld, Readable
\* What the record adds to what a boot rebuilds.
<1>10. /\ Torn \in Range(l) => RecoveredFromDisk' = r
       /\ Torn \notin Range(l) => /\ RecoveredFromDisk'.board = r.board \cup Reveals({e})
                                   /\ RecoveredFromDisk'.score = IF e \in ScoreEntry THEN e.score ELSE r.score
  <2> HIDE DEF e
  <2>1. CASE Torn \in Range(l)
    <3>1. Decoded(Append(l, e)) = Decoded(l)
      BY <1>7, <2>1, DecodedFacts
    <3>2. QED
      BY <1>5, <1>9, <2>1, <3>1 DEF RecoveredFromDisk
  <2>2. CASE Torn \notin Range(l)
    <3>1. Torn \notin Range(walLog')
      BY <1>4, <1>8, <2>2, NotTorn
    <3>2. Decoded(walLog') = walLog' /\ Decoded(l) = l /\ l \in Seq(Entry)
      BY <1>7, <1>8, <2>2, <3>1, DecodedFacts
    <3>3. RecoveredFromDisk' = Replay(DiskSnapshotWorld, Append(l, e)) /\ r = Replay(DiskSnapshotWorld, l)
      BY <1>5, <1>9, <3>2 DEF RecoveredFromDisk
    <3> HIDE DEF l, r
    <3>4. QED
      BY <1>4, <1>7, <2>2, <3>2, <3>3, ReplayAppend
  <2>3. QED
    BY <2>1, <2>2
<1> HIDE DEF w, b, e, l, r
<1>11. LogTypes'
  <2>1. MemoryTyped'
    BY <1>1 DEF journal, volatile, LogTypes, MemoryTyped, InMemoryTyped, Pending
  <2>2. synced' \in 0 .. Len(walLog')
    BY <1>1, <1>7, <1>8 DEF LogTypes, l
  <2>3. w + 1 \in 0 .. Len(b)
    BY <1>4
  <2>4. QED
    BY <1>1, <1>3, <1>6, <1>8, <1>9, <2>1, <2>2, <2>3 DEF LogTypes, Working, b
<1>12. Quiet'
  BY <1>3 DEF Quiet
<1>13. ASSUME Sound PROVE Sound'
  <2>1. FirstSave'
    BY <1>3 DEF FirstSave
  <2>2. Climbs'
    <3>1. Memory' = Memory
      BY <1>3 DEF Memory
    <3>2. QED
      BY <1>3, <1>13, <3>1 DEF Sound, Climbs, Commands
  <2>3. e \in ScoreEntry => e.score \in Nat /\ kept.score <= e.score
                            /\ \A i \in 1 .. w : b[i] \in ScoreEntry => b[i].score <= e.score
    <3> SUFFICES ASSUME e \in ScoreEntry
                 PROVE  /\ e.score \in Nat /\ kept.score <= e.score
                        /\ \A i \in 1 .. w : b[i] \in ScoreEntry => b[i].score <= e.score
      OBVIOUS
    <3>1. /\ w + 1 \in DOMAIN Memory /\ Memory[w + 1] = e
          /\ \A i \in 1 .. w : i \in DOMAIN Memory /\ Memory[i] = b[i] /\ i <= w + 1
      <4>1. \A i \in 1 .. w + 1 : i \in 1 .. Len(b) /\ i <= w + 1
        BY <1>4
      <4>2. /\ DOMAIN Memory = 1 .. Len(Memory) /\ Len(Memory) = Len(b) + Len(walBuffer)
            /\ Len(walBuffer) \in Nat /\ \A i \in 1 .. Len(b) : Memory[i] = b[i]
        BY LogFigures DEF b
      <4>3. \A i \in 1 .. Len(b) : i \in DOMAIN Memory
        BY <1>4, <4>2
      <4>4. w + 1 \in 1 .. w + 1 /\ \A i \in 1 .. w : i \in 1 .. w + 1
        BY <1>4
      <4>5. QED
        BY <4>1, <4>2, <4>3, <4>4 DEF e
    <3>2. e \in Range(Memory) /\ e.score \in Nat
      BY <3>1 DEF Range, ScoreEntry
    <3>3. QED
      BY <1>13, <3>1, <3>2 DEF Sound, Climbs, Sorted
  <2>4. Covers(RecoveredFromDisk', kept')
    <3>1. Covers(r, kept)
      BY <1>13, WholeLog DEF Sound, r
    <3>2. QED
      BY <1>3, <1>10, <2>3, <3>1 DEF Covers
  <2>5. Appended'
    <3> SUFFICES ASSUME Torn \notin Range(walLog')
                 PROVE  Holds(RecoveredFromDisk', {b[i] : i \in 1 .. w + 1})
      BY <1>3, <1>6 DEF Appended, b
    <3>1. Torn \notin Range(l) /\ Holds(r, {b[i] : i \in 1 .. w})
      BY <1>1, <1>2, <1>8, <1>13 DEF Sound, Appended, r, l, w, b
    <3>2. 1 .. w + 1 = (1 .. w) \cup {w + 1}
      BY <1>4
    <3>3. {b[i] : i \in 1 .. w + 1} = {b[i] : i \in 1 .. w} \cup {e}
      BY <3>2 DEF e
    <3> DEFINE E == {b[i] : i \in 1 .. w}
    <3>4. /\ RecoveredFromDisk'.board = r.board \cup Reveals({e})
          /\ RecoveredFromDisk'.score = IF e \in ScoreEntry THEN e.score ELSE r.score
      BY <1>10, <3>1
    <3>5. Reveals(E \cup {e}) = Reveals(E) \cup Reveals({e})
      BY DEF Reveals
    <3>6. ASSUME NEW x \in (E \cup {e}) \cap ScoreEntry PROVE x.score <= RecoveredFromDisk'.score
      <4>1. CASE e \in ScoreEntry
        BY <2>3, <3>4, <3>6, <4>1
      <4>2. CASE e \notin ScoreEntry
        BY <3>1, <3>4, <3>6, <4>2 DEF Holds
      <4>3. QED
        BY <4>1, <4>2
    <3>7. Reveals(E) \subseteq r.board
      BY <3>1 DEF Holds
    <3> HIDE DEF E
    <3>8. Holds(RecoveredFromDisk', E \cup {e})
      BY <3>4, <3>5, <3>6, <3>7 DEF Holds
    <3>9. QED
      BY <3>3, <3>8 DEF E
  <2>6. Backed'
    <3> SUFFICES ASSUME NEW n \in synced' .. Len(walLog') PROVE Covers(RebuiltFrom(n)', kept')
      BY DEF Backed
    <3>1. CASE n = Len(walLog')
      <4>1. SubSeq(walLog', 1, n) = walLog'
        BY <1>8, <3>1, PrefixFacts
      <4>2. QED
        BY <2>4, <4>1 DEF RebuiltFrom, RecoveredFromDisk
    <3>2. CASE n # Len(walLog')
      <4>1. n \in synced .. Len(walLog) /\ n \in 0 .. Len(walLog)
        <5>1. Len(walLog) \in Nat /\ synced \in Nat
          BY LogFigures
        <5>2. n \in synced .. Len(walLog') /\ Len(walLog') = Len(walLog) + 1
          BY <1>1, <1>8 DEF l
        <5>3. QED
          BY <3>2, <5>1, <5>2
      <4>2. RebuiltFrom(n)' = RebuiltFrom(n)
        BY <1>8, <1>9, <4>1 DEF RebuiltFrom, l
      <4>3. QED
        BY <1>3, <1>13, <4>1, <4>2 DEF Sound, Backed
    <3>3. QED
      BY <3>1, <3>2
  <2>7. QED
    BY <2>1, <2>2, <2>5, <2>6 DEF Sound
<1>14. QED
  BY <1>11, <1>12, <1>13

\* A flush that succeeds: what it reports as stored is in the log, and unless
\* something torn is there as well, a boot reads it.
LEMMA SyncLogKeeps ==
    ASSUME LogTypes, Quiet, NEW f \in Flushers, SyncLog(f)
    PROVE  LogTypes' /\ Quiet' /\ (~ unread' /\ Sound => Sound')
<1> DEFINE b == batch["ticker"]
           stored == Replay(EmptyWorld, b)
           r == RecoveredFromDisk
<1>1. /\ Written(f) /\ handle' = [handle EXCEPT ![f] = Closed] /\ synced' = SyncedBy(f) /\ Flushed(f)
      /\ unread' = (unread \/ Torn \in Range(walLog))
      /\ UNCHANGED <<walLog, content, snapshotFile, saver>>
      /\ UNCHANGED <<phase, world, writing, walBuffer>>
  BY DEF SyncLog, Flushed
<1>2. f = "ticker" /\ phase = "up"
  BY <1>1 DEF Written, LogTypes, Quiet, Flushers
<1>3. /\ handle' \in [Flushers -> Handle] /\ ~ handle'["ticker"].open /\ ~ handle'["signal"].open
      /\ batch'["ticker"] = <<>> /\ batch'["signal"] = <<>>
  <2>1. Closed \in Handle /\ ~ Closed.open
    BY DEF Closed, Handle
  <2>2. batch' = [batch EXCEPT !["ticker"] = <<>>]
    BY <1>1, <1>2 DEF Flushed
  <2>3. QED
    BY <1>1, <1>2, <2>1, <2>2 DEF LogTypes, MemoryTyped, InMemoryTyped, Flushers
<1>4. synced' = Len(walLog)
  BY <1>1, <1>2 DEF SyncedBy, LogTypes, Handle, Flushers
<1>5. DiskSnapshotWorld' = DiskSnapshotWorld /\ RecoveredFromDisk' = r
  BY <1>1, SameDisk
<1>6. LogTypes'
  <2>1. MemoryTyped'
    BY <1>1, FlushedTyped DEF LogTypes, MemoryTyped
  <2>2. synced' \in 0 .. Len(walLog')
    <3>1. walLog' = walLog /\ Len(walLog) \in Nat
      BY <1>1, LogFigures
    <3>2. QED
      BY <1>4, <3>1
  <2>3. QED
    BY <1>1, <1>3, <1>5, <2>1, <2>2 DEF LogTypes, Working
<1>7. Quiet'
  BY <1>1, <1>2 DEF Quiet
<1>8. /\ b \in Seq(Entry) /\ Len(b) \in Nat /\ DOMAIN b = 1 .. Len(b) /\ r \in Worlds /\ r.score \in Nat
      /\ kept.score \in Nat /\ world.score \in Nat
  BY LogFigures
<1>9. Outcome(stored, EmptyWorld, Range(b)) /\ stored.score \in Nat
  <2>1. Outcome(stored, EmptyWorld, Range(b))
    BY <1>8, WorldTypes, ReplayOutcome
  <2>2. QED
    BY <2>1, WorldTypes DEF Outcome
<1>10. kept' = [board |-> kept.board \cup stored.board,
                score |-> IF stored.score > kept.score THEN stored.score ELSE kept.score]
  BY <1>1, <1>2 DEF Flushed
<1>11. handle["ticker"].open /\ handle["ticker"].written = Len(b)
  BY <1>1, <1>2 DEF Written
<1> HIDE DEF b, r
<1>12. {b[i] : i \in 1 .. Len(b)} = Range(b)
  BY <1>8 DEF Range
<1>13. EmptyWorld.board = {} /\ EmptyWorld.score = 0
  BY DEF EmptyWorld
<1>14. stored.board = Reveals(Range(b))
  BY <1>9, <1>13 DEF Outcome
<1>15. stored.score = 0 \/ \E e \in Range(b) \cap ScoreEntry : stored.score = e.score
  BY <1>9, <1>13 DEF Outcome
<1> HIDE DEF stored
<1>16. kept'.board = kept.board \cup stored.board
       /\ kept'.score = IF stored.score > kept.score THEN stored.score ELSE kept.score
  BY <1>10
<1>17. ASSUME ~ unread', Sound PROVE Sound'
  <2>1. Holds(r, Range(b))
    BY <1>1, <1>11, <1>12, <1>17 DEF Sound, Appended, r, b
  <2>2. Covers(r, kept)
    BY <1>17, WholeLog DEF Sound, r
  <2>3. stored.score <= r.score
    BY <1>8, <1>15, <2>1 DEF Holds
  <2>4. Covers(r, kept')
    BY <1>14, <1>16, <2>1, <2>2, <2>3 DEF Covers, Holds
  <2>5. Backed'
    <3>1. walLog' \in Seq(Records) /\ synced' = Len(walLog')
      BY <1>1, <1>4 DEF LogTypes
    <3>2. QED
      BY <1>5, <2>4, <3>1, BackedWhole DEF r
  <2>6. FirstSave' /\ Appended'
    BY <1>1, <1>2, <1>3 DEF FirstSave, Appended
\* What waits comes later in the order of the scores than what is kept now.
  <2>7. Memory' = walBuffer
    <3>1. Memory' = <<>> \o walBuffer /\ walBuffer \in Seq(Entry)
      BY <1>1, <1>3, LogFigures DEF Memory
    <3> DEFINE v == walBuffer
    <3> HIDE DEF v
    <3>2. v \in Seq(Entry) => <<>> \o v = v
      OBVIOUS
    <3>3. QED
      BY <3>1, <3>2 DEF v
  <2>8. /\ Len(walBuffer) \in Nat /\ DOMAIN walBuffer = 1 .. Len(walBuffer)
        /\ DOMAIN Memory = 1 .. Len(b) + Len(walBuffer)
        /\ \A i \in 1 .. Len(b) : Memory[i] = b[i]
        /\ \A i \in 1 .. Len(walBuffer) : Memory[Len(b) + i] = walBuffer[i]
        /\ Range(walBuffer) \subseteq Range(Memory) /\ Range(b) \subseteq Range(Memory)
    BY LogFigures DEF b
  <2>9. /\ Sorted(Memory) /\ kept.score <= world.score
        /\ \A e \in Range(Memory) \cap ScoreEntry : kept.score <= e.score /\ e.score <= world.score
    BY <1>2, <1>17 DEF Sound, Climbs
  <2>10. /\ \A i \in 1 .. Len(walBuffer) : Len(b) + i \in DOMAIN Memory
         /\ \A i \in 1 .. Len(b) : i \in DOMAIN Memory
         /\ \A i \in 1 .. Len(b), j \in 1 .. Len(walBuffer) : i <= Len(b) + j
         /\ \A i, j \in 1 .. Len(walBuffer) : i <= j => Len(b) + i <= Len(b) + j
    BY <1>8, <2>8
  <2>11. Sorted(walBuffer)
    <3> SUFFICES ASSUME NEW i \in DOMAIN walBuffer, NEW j \in DOMAIN walBuffer, i <= j,
                        walBuffer[i] \in ScoreEntry, walBuffer[j] \in ScoreEntry
                 PROVE  walBuffer[i].score <= walBuffer[j].score
      BY DEF Sorted
    <3>1. walBuffer[i] = Memory[Len(b) + i] /\ walBuffer[j] = Memory[Len(b) + j]
          /\ Len(b) + i \in DOMAIN Memory /\ Len(b) + j \in DOMAIN Memory /\ Len(b) + i <= Len(b) + j
      BY <2>8, <2>10
    <3>2. QED
      BY <2>9, <3>1 DEF Sorted
  <2>12. \A e \in Range(b) \cap ScoreEntry, g \in Range(walBuffer) \cap ScoreEntry : e.score <= g.score
    <3> SUFFICES ASSUME NEW i \in 1 .. Len(b), NEW j \in 1 .. Len(walBuffer),
                        b[i] \in ScoreEntry, walBuffer[j] \in ScoreEntry
                 PROVE  b[i].score <= walBuffer[j].score
      BY <1>8, <2>8 DEF Range
    <3>1. b[i] = Memory[i] /\ walBuffer[j] = Memory[Len(b) + j]
          /\ i \in DOMAIN Memory /\ Len(b) + j \in DOMAIN Memory /\ i <= Len(b) + j
      BY <2>8, <2>10
    <3>2. QED
      BY <2>9, <3>1 DEF Sorted
  <2>13. \A e \in Range(walBuffer) \cap ScoreEntry : kept'.score <= e.score /\ e.score <= world.score
    <3> SUFFICES ASSUME NEW e \in Range(walBuffer) \cap ScoreEntry
                 PROVE  kept'.score <= e.score /\ e.score <= world.score
      OBVIOUS
    <3>1. kept.score <= e.score /\ e.score <= world.score /\ e.score \in Nat
      BY <2>8, <2>9 DEF ScoreEntry
    <3>2. stored.score <= e.score
      BY <1>15, <2>12, <3>1
    <3>3. QED
      BY <1>16, <3>1, <3>2
  <2>14. kept'.score <= world.score
    <3>1. stored.score <= world.score
      BY <1>8, <1>15, <2>8, <2>9
    <3>2. QED
      BY <1>16, <2>9, <3>1
  <2>15. Climbs'
    <3>1. Commands'
      BY <1>1, <1>17 DEF Sound, Climbs, Commands
    <3>2. QED
      BY <1>1, <2>7, <2>11, <2>13, <2>14, <3>1 DEF Climbs
  <2>16. QED
    BY <2>5, <2>6, <2>15 DEF Sound
<1>18. QED
  BY <1>6, <1>7, <1>17

\* A power loss takes the log back to what it was once, but for a torn record.
LEMMA PowerLossLog ==
    ASSUME LogTypes, PowerLoss
    PROVE  LogTypes' /\ Quiet' /\ (Sound => Sound')
<1>1. PICK n \in synced .. Len(walLog), torn \in BOOLEAN :
         walLog' = SubSeq(walLog, 1, n) \o (IF torn THEN <<Torn>> ELSE <<>>)
  BY DEF PowerLoss
<1>2. /\ synced' = Len(walLog') /\ handle' = [f \in Flushers |-> Closed] /\ batch' = [f \in Flushers |-> <<>>]
      /\ saver' = [s \in Savers |-> NotSaving]
      /\ walBuffer' = <<>> /\ writing' = <<>> /\ phase' = "down" /\ LoseMemory
      /\ UNCHANGED <<kept, content, snapshotFile>>
  BY DEF PowerLoss, Kill, LoseMemory
<1> DEFINE old == SubSeq(walLog, 1, n)
<1>3. old \in Seq(Records) /\ Torn \in Records
  <2>1. n \in 0 .. Len(walLog) /\ walLog \in Seq(Records)
    BY LogFigures DEF LogTypes
  <2>2. QED
    BY <2>1, PrefixFacts DEF Records
<1> HIDE DEF old
<1>4. walLog' \in Seq(Records) /\ Decoded(walLog') = Decoded(old)
  <2>1. CASE torn
    <3>1. walLog' = Append(old, Torn)
      BY <1>1, <1>3, <2>1 DEF old
    <3>2. QED
      BY <1>3, <3>1, PrefixFacts, DecodedFacts
  <2>2. CASE ~ torn
    <3>1. walLog' = old
      BY <1>1, <1>3, <2>2 DEF old
    <3>2. QED
      BY <1>3, <3>1
  <2>3. QED
    BY <2>1, <2>2
<1>5. DiskSnapshotWorld' = DiskSnapshotWorld
  BY <1>2 DEF DiskSnapshotWorld, Readable
<1>6. LogTypes'
  <2>1. MemoryTyped'
    BY <1>2, LoseMemoryTyped DEF PowerLoss, Kill, LogTypes, MemoryTyped, InMemoryTyped
  <2>2. synced' \in 0 .. Len(walLog')
    BY <1>2, <1>4
  <2>3. handle' \in [Flushers -> Handle] /\ \A f \in Flushers : ~ handle'[f].open /\ batch'[f] = <<>>
    BY <1>2 DEF Closed, Handle
  <2>4. ~ Working("boot")'
    BY <1>2 DEF Working, Savers
  <2>5. QED
    BY <1>4, <1>5, <2>1, <2>2, <2>3, <2>4 DEF LogTypes, Flushers
<1>7. Quiet'
  BY <1>2 DEF Quiet, Flushers, Closed
<1>8. ASSUME Sound PROVE Sound'
  <2>1. RecoveredFromDisk' = RebuiltFrom(n)
    BY <1>4, <1>5 DEF RecoveredFromDisk, RebuiltFrom, old
  <2>2. Covers(RecoveredFromDisk', kept')
    BY <1>1, <1>2, <1>8, <2>1 DEF Sound, Backed
  <2>3. Backed'
    BY <1>2, <1>4, <2>2, BackedWhole
  <2>4. FirstSave' /\ Appended'
    BY <1>2 DEF FirstSave, Appended, Flushers, Closed
  <2>5. Memory' = <<>>
    <3>1. Memory' = <<>> \o <<>>
      BY <1>2 DEF Memory, Flushers
    <3>2. QED
      BY <3>1
  <2>6. Sorted(Memory') /\ Range(Memory') = {}
    BY <2>5 DEF Sorted, Range
  <2>7. Climbs'
    BY <1>2, <2>6 DEF Climbs, Commands
  <2>8. QED
    BY <2>3, <2>4, <2>7 DEF Sound
<1>9. QED
  BY <1>6, <1>7, <1>8

LEMMA DiskBootLog ==
    ASSUME LogTypes, Quiet, Turns, DiskBoot
    PROVE  LogTypes' /\ Quiet' /\ (Sound => Sound')
<1>1. /\ phase = "down" /\ phase' \in {"booting", "up"} /\ world' = RecoveredFromDisk
      /\ walSeq' = SeqAfter(Decoded(walLog))
      /\ UNCHANGED <<given, writing, walBuffer, batch, kept, kills, signal, promised>>
      /\ UNCHANGED <<walLog, synced, handle, content, snapshotFile, saver>>
  BY DEF DiskBoot, disk
<1>2. RecoveredFromDisk \in Worlds /\ walSeq' \in Nat
  BY <1>1, LogFigures, SeqAfterFacts
<1>3. DiskSnapshotWorld' = DiskSnapshotWorld /\ RecoveredFromDisk' = RecoveredFromDisk
  BY <1>1, SameDisk
<1>4. ~ Working("boot") /\ saver["boot"].at = "idle"
  BY <1>1 DEF Turns, Working, NotSaving
<1>5. LogTypes'
  <2>1. MemoryTyped'
    BY <1>1, <1>2 DEF LogTypes, MemoryTyped, InMemoryTyped, Pending
  <2>2. QED
    BY <1>1, <1>3, <2>1 DEF LogTypes, Working
<1>6. /\ batch["ticker"] = <<>> /\ walBuffer = <<>> /\ writing = <<>> /\ ~ handle["ticker"].open
      /\ synced = Len(walLog)
  BY <1>1 DEF Quiet
<1>7. Quiet'
  BY <1>1, <1>6 DEF Quiet
<1>8. ASSUME Sound PROVE Sound'
  <2>1. FirstSave'
    BY <1>1, <1>3, <1>4 DEF FirstSave, Working
  <2>2. Appended'
    BY <1>1, <1>6 DEF Appended
  <2>3. Backed'
    BY <1>1, <1>8, BackedStays DEF Sound
  <2>4. Memory' = <<>>
    <3>1. Memory' = <<>> \o <<>>
      BY <1>1, <1>6 DEF Memory
    <3>2. QED
      BY <3>1
  <2>5. Sorted(Memory') /\ Range(Memory') = {}
    BY <2>4 DEF Sorted, Range
  <2>6. Climbs'
    <3>1. kept'.score <= world'.score
      BY <1>1, <1>8, WholeLog DEF Sound, Covers
    <3>2. QED
      BY <1>1, <1>6, <2>5, <3>1 DEF Climbs, Commands
  <2>7. QED
    BY <2>1, <2>2, <2>3, <2>6 DEF Sound
<1>9. QED
  BY <1>5, <1>7, <1>8

\* The saver before the first start, the only one when there is neither a
\* period nor a signal: its snapshot is what the log gave, and the log on top
\* of it gives the same, until it is removed.
LEMMA FirstSaveLog ==
    ASSUME LogTypes, Quiet, SaverTypes, Turns, TmpFile, given.may = {}, NEW s \in Savers,
           \/ CaptureForDisk(s) \/ CreateTmp(s) \/ WriteHead(s) \/ WriteTail(s)
           \/ RenameTmp(s) \/ RenameFails(s) \/ SaveFails(s) \/ TruncateWAL(s)
    PROVE  LogTypes' /\ Quiet' /\ (Sound => Sound')
<1>1. s = "boot" /\ phase = "booting" /\ ~ SaversRace
  <2>1. CASE CaptureForDisk(s)
    BY <2>1 DEF CaptureForDisk, MaySaveToDisk, Turns, Savers, SaversRace
  <2>2. CASE ~ CaptureForDisk(s)
    <3>1. saver[s].at \in {"captured", "created", "half", "synced", "renamed"}
      BY <2>2 DEF CreateTmp, WriteHead, WriteTail, RenameTmp, RenameFrom, RenameFails, SaveFails, TruncateWAL
    <3>2. Working(s)
      BY <3>1, Stages
    <3>3. QED
      BY <3>2 DEF Turns, Savers, SaversRace
  <2>3. QED
    BY <2>1, <2>2
<1>2. /\ batch["ticker"] = <<>> /\ walBuffer = <<>> /\ writing = <<>> /\ ~ handle["ticker"].open
      /\ synced = Len(walLog) /\ ~ handle["signal"].open
  BY <1>1 DEF Quiet, LogTypes
<1>3. /\ phase' \in {"booting", "up"} /\ UNCHANGED <<given, world, writing, walSeq, walBuffer, batch, kept, kills, signal, promised>>
  <2>1. CASE DiskSaveReturns(s)
    BY <1>1, <2>1 DEF DiskSaveReturns, volatile
  <2>2. CASE UNCHANGED journal
    BY <1>1, <2>2 DEF journal, volatile
  <2>3. QED
    BY <2>1, <2>2 DEF CaptureForDisk, CreateTmp, WriteHead, WriteTail, RenameTmp, RenameFails, SaveFails, TruncateWAL
<1>4. handle' = handle
  <2>1. CASE TruncateWAL(s)
    BY <1>2, <2>1 DEF TruncateWAL, LogTypes, Flushers
  <2>2. CASE ~ TruncateWAL(s)
    BY <2>2 DEF CaptureForDisk, CreateTmp, WriteHead, WriteTail, RenameTmp, RenameFails, SaveFails, disk
  <2>3. QED
    BY <2>1, <2>2
<1>5. Memory = <<>> /\ Memory' = <<>>
  <2>1. Memory = <<>> \o <<>>
    BY <1>2 DEF Memory
  <2>2. Memory' = Memory
    BY <1>3 DEF Memory
  <2>3. QED
    BY <2>1, <2>2
<1>6. MemoryTyped'
  BY <1>3 DEF LogTypes, MemoryTyped, InMemoryTyped, Pending
\* What must be shown of each step.
<1> DEFINE Data == saver["boot"].data.world
           Fine == /\ walLog' \in Seq(Records) /\ synced' = Len(walLog')
                   /\ DiskSnapshotWorld' \in Worlds
                   /\ Working("boot")' => Data' \in Worlds
           Same == /\ RecoveredFromDisk' = RecoveredFromDisk
                   /\ phase' = "booting" =>
                         /\ Working("boot")' => Data' = world
                         /\ saver'["boot"].at = "renamed" => DiskSnapshotWorld' = world
<1>7. Fine /\ (FirstSave => Same)
  <2>1. /\ DiskSnapshotWorld \in Worlds /\ walLog \in Seq(Records) /\ world \in Worlds
        /\ Working("boot") => Data \in Worlds
    BY DEF LogTypes, MemoryTyped, InMemoryTyped
  <2>2. saver = [t \in Savers |-> saver[t]] /\ "boot" \in Savers
    BY DEF SaverTypes, Savers
  <2>3. CASE CaptureForDisk(s)
    <3>1. /\ saver'["boot"] = [at |-> "captured", data |-> [by |-> "boot", world |-> world]]
          /\ UNCHANGED <<walLog, synced, content, snapshotFile>>
      BY <1>1, <2>2, <2>3 DEF CaptureForDisk, disk
    <3>2. Data' = world /\ saver'["boot"].at = "captured"
      BY <3>1
    <3>3. QED
      BY <1>2, <2>1, <3>1, <3>2, SameDisk
  <2>4. ASSUME UNCHANGED <<walLog, synced>>, DiskSnapshotWorld' = DiskSnapshotWorld, Working("boot"),
               ~ Working("boot")' \/ Data' = Data, saver'["boot"].at # "renamed"
        PROVE  Fine /\ (FirstSave => Same)
    <3>1. RecoveredFromDisk' = RecoveredFromDisk
      BY <2>4 DEF RecoveredFromDisk
    <3>2. QED
      BY <1>1, <1>2, <2>1, <2>4, <3>1 DEF FirstSave
  <2>5. CASE CreateTmp(s) \/ WriteHead(s) \/ WriteTail(s)
    <3>1. saver["boot"].at \in {"captured", "created", "half"} /\ Working("boot")
      BY <1>1, <2>5, Stages DEF CreateTmp, WriteHead, WriteTail
    <3>2. /\ UNCHANGED <<walLog, synced, snapshotFile>>
          /\ \E i : i # snapshotFile /\ \A j \in File \ {i} : content'[j] = content[j]
      <4>1. CASE CreateTmp(s)
        <5> DEFINE i == IF tmpFile = NoSnapshot THEN CHOOSE j \in File : j \notin InUse ELSE tmpFile
        <5>1. i # snapshotFile
          BY <1>1, <4>1, TmpIsNew
        <5> HIDE DEF i
        <5>2. content' = [content EXCEPT ![i] = Blank]
          BY <4>1 DEF CreateTmp, i
        <5>3. \A j \in File \ {i} : content'[j] = content[j]
          BY <5>2 DEF SaverTypes
        <5>4. QED
          BY <4>1, <5>1, <5>3 DEF CreateTmp
      <4>2. CASE WriteHead(s) \/ WriteTail(s)
        <5>1. saver["boot"].file = tmpFile /\ saver["boot"].file \in File
          BY <1>1, <4>2, Stages DEF WriteHead, WriteTail, TmpFile
        <5>2. tmpFile # snapshotFile
          BY <5>1, FileAssumption DEF TmpFile
        <5>3. \A j \in File \ {tmpFile} : content'[j] = content[j]
          <6>1. CASE WriteHead(s)
            <7>1. content' = [content EXCEPT ![tmpFile] = [content[tmpFile] EXCEPT !.head = saver[s].data]]
              BY <1>1, <5>1, <6>1 DEF WriteHead, SaverTypes
            <7>2. QED
              BY <7>1 DEF SaverTypes
          <6>2. CASE WriteTail(s)
            <7>1. content' = [content EXCEPT ![tmpFile] = [content[tmpFile] EXCEPT !.tail = saver[s].data]]
              BY <1>1, <5>1, <6>2 DEF WriteTail, SaverTypes
            <7>2. QED
              BY <7>1 DEF SaverTypes
          <6>3. QED
            BY <4>2, <6>1, <6>2
        <5>4. QED
          BY <4>2, <5>2, <5>3 DEF WriteHead, WriteTail
      <4>3. QED
        BY <2>5, <4>1, <4>2
    <3>3. DiskSnapshotWorld' = DiskSnapshotWorld
      BY <3>2 DEF DiskSnapshotWorld, Readable
    <3>4. saver'["boot"].at # "renamed" /\ Data' = Data
      <4>1. CASE CreateTmp(s)
        BY <1>1, <2>2, <4>1 DEF CreateTmp
      <4>2. CASE WriteHead(s)
        <5>1. saver' = [saver EXCEPT !["boot"] = [saver["boot"] EXCEPT !.at = "half"]]
          BY <1>1, <2>2, <4>2 DEF WriteHead
        <5>2. saver'["boot"] = [at |-> "half", data |-> saver["boot"].data, file |-> saver["boot"].file]
          BY <1>1, <2>2, <4>2, <5>1, Stages DEF WriteHead
        <5>3. QED
          BY <5>2
      <4>3. CASE WriteTail(s)
        <5>1. saver' = [saver EXCEPT !["boot"] = [saver["boot"] EXCEPT !.at = "synced"]]
          BY <1>1, <2>2, <4>3 DEF WriteTail
        <5>2. saver'["boot"] = [at |-> "synced", data |-> saver["boot"].data, file |-> saver["boot"].file]
          BY <1>1, <2>2, <4>3, <5>1, Stages DEF WriteTail
        <5>3. QED
          BY <5>2
      <4>4. QED
        BY <2>5, <4>1, <4>2, <4>3
    <3>5. QED
      BY <2>4, <3>1, <3>2, <3>3, <3>4
  <2>6. CASE RenameTmp(s)
    <3>1. /\ saver["boot"].at = "synced" /\ Working("boot") /\ snapshotFile' = tmpFile
          /\ UNCHANGED <<walLog, synced, content>>
      BY <1>1, <2>6, Stages DEF RenameTmp, RenameFrom
    <3>2. /\ saver["boot"].data.by = "boot" /\ saver["boot"].file \in File
          /\ saver["boot"] = [at |-> "synced", data |-> saver["boot"].data, file |-> saver["boot"].file]
      BY <2>2, <3>1, Stages
    <3>3. tmpFile \in File /\ content[tmpFile].head = saver["boot"].data /\ content[tmpFile].tail = saver["boot"].data
      BY <2>2, <3>1, <3>2 DEF TmpFile
    <3>4. saver["boot"].data # Unwritten
      BY <3>2 DEF Unwritten
    <3>5. DiskSnapshotWorld' = Data
      BY <3>1, <3>3, <3>4 DEF DiskSnapshotWorld, Readable
    <3>6. Data' = Data
      <4>1. saver' = [saver EXCEPT !["boot"] = [saver["boot"] EXCEPT !.at = "renamed"]]
        BY <1>1, <2>2, <2>6 DEF RenameTmp
      <4>2. saver'["boot"] = [at |-> "renamed", data |-> saver["boot"].data, file |-> saver["boot"].file]
        BY <2>2, <3>2, <4>1
      <4>3. QED
        BY <4>2
    <3>7. ASSUME FirstSave PROVE Data = world /\ RecoveredFromDisk' = RecoveredFromDisk
      <4>1. Data = world /\ world = RecoveredFromDisk
        BY <1>1, <3>1, <3>7 DEF FirstSave
      <4> DEFINE l == Decoded(walLog)
                 d == DiskSnapshotWorld
      <4>2. l \in Seq(Entry) /\ d \in Worlds
        BY <2>1, LogFigures
      <4>3. RecoveredFromDisk = Replay(d, l) /\ RecoveredFromDisk' = Replay(Replay(d, l), l)
        BY <3>1, <3>5, <4>1 DEF RecoveredFromDisk
      <4> HIDE DEF l, d
      <4>4. Replay(Replay(d, l), l) = Replay(d, l)
        BY <4>2, ReplayAgain
      <4>5. QED
        BY <4>1, <4>3, <4>4
    <3>8. QED
      BY <1>2, <2>1, <3>1, <3>5, <3>6, <3>7
  <2>7. CASE RenameFails(s) \/ SaveFails(s)
    <3>1. saver["boot"].at \in {"captured", "created", "half", "synced", "renamed"}
          /\ saver' = [saver EXCEPT !["boot"] = NotSaving]
          /\ UNCHANGED <<walLog, synced, content, snapshotFile>>
      BY <1>1, <2>7 DEF RenameFails, SaveFails, DiskSaveReturns, disk
    <3>2. Working("boot") /\ ~ Working("boot")' /\ saver'["boot"].at = "idle"
      BY <2>2, <3>1, Stages DEF Working, NotSaving
    <3>3. QED
      BY <2>4, <3>1, <3>2, SameDisk
  <2>8. CASE TruncateWAL(s)
    <3>1. /\ saver["boot"].at = "renamed" /\ walLog' = <<>> /\ synced' = 0
          /\ saver' = [saver EXCEPT !["boot"] = NotSaving] /\ UNCHANGED <<content, snapshotFile>>
      BY <1>1, <2>8 DEF TruncateWAL, DiskSaveReturns
    <3>2. ~ Working("boot")' /\ saver'["boot"].at = "idle" /\ DiskSnapshotWorld' = DiskSnapshotWorld
      BY <2>2, <3>1 DEF Working, NotSaving, DiskSnapshotWorld, Readable
    <3>3. Decoded(<<>>) = <<>>
      BY DEF Decoded, SelectInSeq
    <3>4. RecoveredFromDisk' = DiskSnapshotWorld
      BY <2>1, <3>1, <3>2, <3>3, ReplayNothing DEF RecoveredFromDisk
    <3>5. FirstSave => RecoveredFromDisk = DiskSnapshotWorld
      BY <1>1, <3>1 DEF FirstSave
    <3>6. QED
      BY <2>1, <3>1, <3>2, <3>4, <3>5
  <2>9. QED
    BY <2>3, <2>5, <2>6, <2>7, <2>8
<1> HIDE DEF Fine, Same
<1>8. LogTypes'
  <2>1. synced' \in 0 .. Len(walLog')
    BY <1>7 DEF Fine
  <2>2. QED
    BY <1>2, <1>3, <1>4, <1>6, <1>7, <2>1 DEF LogTypes, Fine, Data
<1>9. Quiet'
  BY <1>2, <1>3, <1>4, <1>7 DEF Quiet, Fine
<1>10. ASSUME Sound PROVE Sound'
  <2>1. Same /\ world = RecoveredFromDisk /\ Covers(RecoveredFromDisk, kept)
    BY <1>1, <1>7, <1>10, WholeLog DEF Sound, FirstSave
  <2>2. FirstSave'
    BY <1>3, <2>1 DEF FirstSave, Same
  <2>3. Appended'
    BY <1>2, <1>4 DEF Appended
  <2>4. Backed'
    BY <1>3, <1>7, <2>1, BackedWhole DEF Fine, Same
  <2>5. Climbs'
    <3>1. Sorted(Memory') /\ Range(Memory') = {}
      BY <1>5 DEF Sorted, Range
    <3>2. kept'.score <= world'.score
      BY <1>3, <2>1 DEF Covers
    <3>3. QED
      BY <1>2, <1>3, <3>1, <3>2 DEF Climbs, Commands
  <2>6. QED
    BY <2>2, <2>3, <2>4, <2>5 DEF Sound
<1>11. QED
  BY <1>8, <1>9, <1>10

LEMMA LogKeeps ==
    DiskInv /\ LogInv /\ [DiskNext]_diskVars => LogInv'
<1> SUFFICES ASSUME DiskInv, LogInv, [DiskNext]_diskVars, given'.may = {}
             PROVE  LogTypes' /\ Quiet' /\ (~ unread' => Sound')
  BY DEF LogInv
<1>1. given' = given /\ (unread => unread')
  <2>1. ASSUME NEW s \in Savers, DiskSaveReturns(s) PROVE given' = given
    BY <2>1 DEF DiskSaveReturns, Savers, journal, Exit, LoseMemory
  <2>2. given' = given
    BY <2>1 DEF DiskNext, diskVars, OffDisk, journal, Command, WriteWALEntry, TakeBuffer, OpenLog, AppendRecord,
       OpenFails, AppendFails, SyncFails, FlushFails, Requeue, SyncLog, Flushed, CaptureForDisk, CreateTmp,
       WriteHead, WriteTail, RenameTmp, RenameFails, SaveFails, TruncateWAL, Signal, SignalFlushed, PowerLoss,
       Kill, LoseMemory, DiskBoot
  <2>3. unread => unread'
    BY DEF DiskNext, diskVars, OffDisk, OpenLog, AppendRecord, OpenFails, AppendFails, SyncFails, FlushFails, SyncLog,
       CaptureForDisk, CreateTmp, WriteHead, WriteTail, RenameTmp, RenameFails, SaveFails, TruncateWAL, PowerLoss,
       DiskBoot
  <2>4. QED
    BY <2>2, <2>3
<1>2. given.may = {} /\ LogTypes /\ Quiet /\ SaverTypes /\ Turns /\ TmpFile /\ signal = "none"
  BY <1>1 DEF LogInv, DiskInv, SaversRace, Turns
<1>3. ~ unread' => Sound
  BY <1>1, <1>2 DEF LogInv
<1> DEFINE Goal == LogTypes' /\ Quiet' /\ (~ unread' => Sound')
<1>4. ASSUME NEW c \in Cells, OffDisk(Command(c)) PROVE Goal
  BY <1>2, <1>3, <1>4, PlayLog
<1>5. CASE OffDisk(WriteWALEntry)
  BY <1>2, <1>3, <1>5, PlayLog
<1>6. ASSUME NEW f \in Flushers, OffDisk(TakeBuffer(f)) \/ OpenLog(f) PROVE Goal
  BY <1>2, <1>3, <1>6, TakeLog
<1>7. ASSUME NEW f \in Flushers, AppendRecord(f) PROVE Goal
  BY <1>2, <1>3, <1>7, AppendLog
<1>8. ASSUME NEW f \in Flushers, SyncLog(f) PROVE Goal
  BY <1>2, <1>3, <1>8, SyncLogKeeps
<1>9. ASSUME NEW f \in Flushers, OpenFails(f) \/ AppendFails(f) \/ SyncFails(f) PROVE Goal
  BY <1>2, <1>3, <1>9, FailLog
<1>10. ASSUME NEW s \in Savers,
              \/ CaptureForDisk(s) \/ CreateTmp(s) \/ WriteHead(s) \/ WriteTail(s)
              \/ RenameTmp(s) \/ RenameFails(s) \/ SaveFails(s) \/ TruncateWAL(s)
       PROVE  Goal
  BY <1>2, <1>3, <1>10, FirstSaveLog
<1>11. CASE OffDisk(Signal) \/ OffDisk(SignalFlushed)
  BY <1>2, <1>11 DEF OffDisk, Signal, SignalFlushed
<1>12. CASE PowerLoss
  BY <1>2, <1>3, <1>12, PowerLossLog
<1>13. CASE DiskBoot
  BY <1>2, <1>3, <1>13, DiskBootLog
<1>14. CASE UNCHANGED diskVars
  <2>1. LogTypes' /\ Quiet'
    BY <1>2, <1>14, SameDisk
       DEF diskVars, journal, volatile, disk, LogTypes, MemoryTyped, InMemoryTyped, Pending, Quiet, Working
  <2>2. Sound => Sound'
    <3>1. Backed => Backed'
      BY <1>2, <1>14, BackedStays DEF diskVars, journal, disk
    <3>2. Climbs => Climbs'
      BY <1>14 DEF diskVars, journal, volatile, Climbs, Commands, Memory
    <3>3. FirstSave /\ Appended => FirstSave' /\ Appended'
      BY <1>14, SameDisk DEF diskVars, journal, volatile, disk, FirstSave, Appended, Working
    <3>4. QED
      BY <3>1, <3>2, <3>3 DEF Sound
  <2>3. QED
    BY <1>3, <2>1, <2>2
<1>15. QED
  BY <1>4, <1>5, <1>6, <1>7, <1>8, <1>9, <1>10, <1>11, <1>12, <1>13, <1>14 DEF DiskNext

LEMMA LogInitInv ==
    DiskInit => LogInv
<1> SUFFICES ASSUME DiskInit PROVE LogTypes /\ Quiet /\ Sound
  BY DEF LogInv
<1>1. /\ walLog = <<>> /\ synced = 0 /\ handle = [f \in Flushers |-> Closed] /\ kept = EmptyWorld
      /\ world = EmptyWorld /\ writing = <<>> /\ walBuffer = <<>> /\ phase = "down"
      /\ batch = [f \in Flushers |-> <<>>] /\ snapshotFile = NoSnapshot
      /\ saver = [s \in Savers |-> NotSaving]
  BY DEF DiskInit, JournalInit
<1>2. EmptyWorld \in Worlds /\ <<>> \in Seq(Entry) /\ <<>> \in Seq(Records) /\ Len(<<>>) = 0
  BY WorldTypes
<1>3. DiskSnapshotWorld = EmptyWorld
  BY <1>1, FileAssumption DEF DiskSnapshotWorld, Readable
<1>4. MemoryTyped
  BY <1>2 DEF DiskInit, JournalInit, MemoryTyped, InMemoryTyped, Pending
<1>5. LogTypes
  BY <1>1, <1>2, <1>3, <1>4 DEF LogTypes, Closed, Handle, Flushers, Working, Savers
<1>6. Quiet
  BY <1>1, <1>2 DEF Quiet, Closed, Flushers
<1>7. Sound
  <2>1. FirstSave /\ Appended
    BY <1>1 DEF FirstSave, Appended, Closed, Flushers
  <2>2. Memory = <<>>
    <3>1. Memory = <<>> \o <<>>
      BY <1>1 DEF Memory, Flushers
    <3>2. QED
      BY <3>1
  <2>3. Climbs
    BY <1>1, <2>2 DEF Climbs, Sorted, Commands, Range
  <2>4. Backed
    <3> SUFFICES ASSUME NEW n \in synced .. Len(walLog) PROVE Covers(RebuiltFrom(n), kept)
      BY DEF Backed
    <3>1. SubSeq(walLog, 1, n) = <<>>
      BY <1>1, <1>2
    <3>2. Decoded(<<>>) = <<>>
      BY DEF Decoded, SelectInSeq
    <3>3. RebuiltFrom(n) = EmptyWorld
      BY <1>2, <1>3, <3>1, <3>2, ReplayNothing DEF RebuiltFrom
    <3>4. QED
      BY <1>1, <3>3 DEF Covers, EmptyWorld
  <2>5. QED
    BY <2>1, <2>3, <2>4 DEF Sound
<1>8. QED
  BY <1>5, <1>6, <1>7

\* Of what flushWAL has reported as stored (appended and synced), nothing is
\* lost: not to a power loss, wherever it falls, in the middle of a record,
\* between the write and the sync of a flush or in the first snapshot, and not
\* to a flush that fails with some or all of its batch in the log and writes
\* the batch again.  This is where neither periodic snapshots nor a stop remove
\* the log while it is written to, and where no flush has reported entries as
\* stored that stand behind a torn record.
THEOREM PowerLossTakesNothingKeptHolds ==
    DiskSpec => []PowerLossTakesNothingKept
<1>1. LogInv => PowerLossTakesNothingKept
  BY WholeLog DEF LogInv, Sound, PowerLossTakesNothingKept, KeptIsRecoverable
<1>2. QED
  BY <1>1, DiskInitInv, DiskKeeps, LogInitInv, LogKeeps, PTL DEF DiskSpec
=============================================================================

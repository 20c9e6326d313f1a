--------------------------- MODULE OverviewProofs ---------------------------
(***************************************************************************)
(* Proofs about Overview for any set of chunks, regions and resolutions:   *)
(* the revision of a copy never lies, copies never go back, and when       *)
(* everything has arrived the view shows the board and both ends agree on  *)
(* what is subscribed.                                                     *)
(*                                                                         *)
(* The heart of the invariant is the stream of patches a copy has still to *)
(* meet.  A picture at revision v may be ahead of v, chunk by chunk,       *)
(* because it is read in pieces; what lies below is a floor that every     *)
(* revision has for every chunk.  The patches on their way are ordered,    *)
(* never older than the copy, and reach the floor of every revision they   *)
(* raise the copy to.                                                      *)
(***************************************************************************)
EXTENDS Overview, TLAPS

PatchMessage == UNION {PatchOf(S) : S \in SUBSET Tile}

LEMMA PatchType ==
    ASSUME NEW m \in PatchMessage
    PROVE  /\ m.is = "patch" /\ m.level \in {Level[r] : r \in Region} /\ m.revision \in Nat
           /\ m # None /\ DOMAIN m.cells \subseteq Tile
           /\ \A t \in DOMAIN m.cells : m.cells[t] \in Nat
<1>1. PICK S \in SUBSET Tile : m \in PatchOf(S)
  BY DEF PatchMessage
<1>2. m # None
  BY <1>1, NoneAssumption
<1>3. m.cells \in [S -> Nat] /\ m.is = "patch" /\ m.level \in {Level[r] : r \in Region} /\ m.revision \in Nat
  BY <1>1 DEF PatchOf
<1>4. QED
  BY <1>2, <1>3

-----------------------------------------------------------------------------
(* A stream of patches. *)

\* Of the messages M, those newer than revision v.
Live(M, v) == {m \in M : m.revision > v}

\* The patches M bring a copy of region r at revision v that shows c upwards,
\* and none of them takes it below F, the floor of its revision.
Stream(M, r, v, c, F) ==
    /\ \A m \in Live(M, v) : m.level = Level[r] /\ DOMAIN m.cells \subseteq Covers[r]
    /\ \A m \in Live(M, v), t \in Covers[r] :
          \/ F[m.revision][t] <= c[t]
          \/ \E n \in Live(M, v) :
                n.revision <= m.revision /\ t \in DOMAIN n.cells /\ F[m.revision][t] <= n.cells[t]
    /\ \A m \in Live(M, v) : \A t \in DOMAIN m.cells :
          /\ c[t] <= m.cells[t]
          /\ \A n \in Live(M, v) :
                n.revision < m.revision /\ t \in DOMAIN n.cells => n.cells[t] <= m.cells[t]

\* With the patches M, but for the chunks P, the copy reaches f.
Reaches(M, r, v, c, f, P) ==
    \A t \in Covers[r] :
        \/ f[t] <= c[t]
        \/ t \in P
        \/ \E m \in Live(M, v) : t \in DOMAIN m.cells /\ f[t] <= m.cells[t]

\* What a copy shows once it has met patch m.
Over(c, m) == [t \in Tile |-> IF t \in DOMAIN m.cells THEN m.cells[t] ELSE c[t]]

LEMMA CoversTiles == ASSUME NEW r \in Region PROVE Covers[r] \subseteq Tile
BY OverviewAssumption

\* The oldest patch of a stream is met.
LEMMA StreamTake ==
    ASSUME NEW m \in PatchMessage, NEW M \in SUBSET PatchMessage, NEW r \in Region, NEW v \in Nat,
           NEW c \in Pictures, NEW F,
           \A w \in Nat, t \in Tile : F[w][t] \in Int,
           Stream({m} \cup M, r, v, c, F), m.revision > v,
           \A n \in Live(M, v) : m.revision < n.revision
    PROVE  /\ m.level = Level[r] /\ DOMAIN m.cells \subseteq Covers[r]
           /\ Stream(M, r, m.revision, Over(c, m), F)
           /\ \A t \in Covers[r] : F[m.revision][t] <= Over(c, m)[t]
           /\ \A t \in Tile : c[t] <= Over(c, m)[t]
           /\ \A f, P : (\A t \in Tile : f[t] \in Int) /\ Reaches({m} \cup M, r, v, c, f, P)
                          => Reaches(M, r, m.revision, Over(c, m), f, P)
<1>1. m \in Live({m} \cup M, v)
  BY DEF Live
<1>2. Live(M, m.revision) = Live(M, v) /\ Live({m} \cup M, v) = {m} \cup Live(M, v)
  BY PatchType DEF Live
<1>3. m.level = Level[r] /\ DOMAIN m.cells \subseteq Covers[r] /\ DOMAIN m.cells \subseteq Tile
  BY <1>1, PatchType DEF Stream
<1>4. \A t \in DOMAIN m.cells : c[t] <= m.cells[t] /\ m.cells[t] \in Nat
  BY <1>1, PatchType DEF Stream
<1>5. \A t \in Tile : c[t] <= Over(c, m)[t] /\ Over(c, m)[t] \in Nat /\ c[t] \in Nat
  BY <1>4 DEF Over, Pictures
<1>6. \A t \in Covers[r] : F[m.revision][t] <= Over(c, m)[t]
  <2> SUFFICES ASSUME NEW t \in Covers[r]
               PROVE  F[m.revision][t] <= Over(c, m)[t]
    OBVIOUS
  <2>0. t \in Tile /\ m.revision \in Nat /\ F[m.revision][t] \in Int
    BY CoversTiles, PatchType
  <2>1. CASE F[m.revision][t] <= c[t]
    BY <1>5, <2>0, <2>1
  <2>2. CASE ~ F[m.revision][t] <= c[t]
    <3>1. PICK n \in Live({m} \cup M, v) :
             n.revision <= m.revision /\ t \in DOMAIN n.cells /\ F[m.revision][t] <= n.cells[t]
      BY <1>1, <2>2 DEF Stream
    <3>2. n = m
      BY <1>2, <3>1, PatchType DEF Live
    <3>3. QED
      BY <2>0, <3>1, <3>2 DEF Over
  <2>3. QED
    BY <2>1, <2>2
<1>7. Stream(M, r, m.revision, Over(c, m), F)
  <2>1. ASSUME NEW n \in Live(M, m.revision)
        PROVE  /\ n.level = Level[r] /\ DOMAIN n.cells \subseteq Covers[r]
               /\ n \in PatchMessage /\ m.revision < n.revision /\ n \in Live({m} \cup M, v)
    BY <1>2 DEF Stream, Live
  <2>2. ASSUME NEW n \in Live(M, m.revision), NEW t \in Covers[r]
        PROVE  \/ F[n.revision][t] <= Over(c, m)[t]
               \/ \E k \in Live(M, m.revision) :
                    k.revision <= n.revision /\ t \in DOMAIN k.cells /\ F[n.revision][t] <= k.cells[t]
    <3>0. t \in Tile /\ n.revision \in Nat /\ F[n.revision][t] \in Int
      BY <2>1, CoversTiles, PatchType
    <3>1. CASE F[n.revision][t] <= c[t]
      BY <1>5, <3>0, <3>1
    <3>2. CASE ~ F[n.revision][t] <= c[t]
      <4>1. PICK k \in Live({m} \cup M, v) :
               k.revision <= n.revision /\ t \in DOMAIN k.cells /\ F[n.revision][t] <= k.cells[t]
        BY <2>1, <3>2 DEF Stream
      <4>2. CASE k = m
        BY <3>0, <4>1, <4>2 DEF Over
      <4>3. CASE k # m
        BY <1>2, <4>1, <4>3
      <4>4. QED
        BY <4>2, <4>3
    <3>3. QED
      BY <3>1, <3>2
  <2>3. ASSUME NEW n \in Live(M, m.revision), NEW t \in DOMAIN n.cells
        PROVE  /\ Over(c, m)[t] <= n.cells[t]
               /\ \A k \in Live(M, m.revision) :
                    k.revision < n.revision /\ t \in DOMAIN k.cells => k.cells[t] <= n.cells[t]
    <3>1. t \in Tile
      BY <2>1, PatchType
    <3>2. c[t] <= n.cells[t]
      BY <2>1 DEF Stream
    <3>3. \A k \in Live({m} \cup M, v) :
             k.revision < n.revision /\ t \in DOMAIN k.cells => k.cells[t] <= n.cells[t]
      BY <2>1 DEF Stream
    <3>4. t \in DOMAIN m.cells => m.cells[t] <= n.cells[t]
      BY <1>1, <2>1, <3>3
    <3>5. Over(c, m)[t] = IF t \in DOMAIN m.cells THEN m.cells[t] ELSE c[t]
      BY <3>1 DEF Over
    <3>6. QED
      BY <1>2, <3>2, <3>3, <3>4, <3>5
  <2>4. QED
    BY <2>1, <2>2, <2>3 DEF Stream
<1>8. ASSUME NEW f, NEW P, \A t \in Tile : f[t] \in Int, Reaches({m} \cup M, r, v, c, f, P)
      PROVE  Reaches(M, r, m.revision, Over(c, m), f, P)
  <2> SUFFICES ASSUME NEW t \in Covers[r], t \notin P
               PROVE  \/ f[t] <= Over(c, m)[t]
                      \/ \E k \in Live(M, m.revision) : t \in DOMAIN k.cells /\ f[t] <= k.cells[t]
    BY DEF Reaches
  <2>1. t \in Tile /\ f[t] \in Int
    BY <1>8, CoversTiles
  <2>2. CASE f[t] <= c[t]
    BY <1>5, <2>1, <2>2
  <2>3. CASE ~ f[t] <= c[t]
    <3>1. PICK k \in Live({m} \cup M, v) : t \in DOMAIN k.cells /\ f[t] <= k.cells[t]
      BY <1>8, <2>3 DEF Reaches
    <3>2. QED
      BY <1>2, <2>1, <3>1 DEF Over
  <2>4. QED
    BY <2>2, <2>3
<1>9. QED
  BY <1>3, <1>5, <1>6, <1>7, <1>8

\* A patch that is older than the copy is nothing.
LEMMA StreamSkip ==
    ASSUME NEW M, NEW N, NEW r, NEW v, NEW c, NEW F, Live(M, v) = Live(N, v)
    PROVE  /\ Stream(M, r, v, c, F) => Stream(N, r, v, c, F)
           /\ \A f, P : Reaches(M, r, v, c, f, P) => Reaches(N, r, v, c, f, P)
BY DEF Stream, Reaches

\* The newest patch of a stream is taken away.
LEMMA StreamDrop ==
    ASSUME NEW M \in SUBSET PatchMessage, NEW N \in SUBSET M, NEW r, NEW v \in Nat, NEW c, NEW F,
           Stream(M, r, v, c, F),
           \A m \in Live(M, v) \ N, n \in Live(N, v) : n.revision < m.revision
    PROVE  Stream(N, r, v, c, F)
<1>1. Live(N, v) \subseteq Live(M, v) /\ \A m \in Live(M, v) : m \in N => m \in Live(N, v)
  BY DEF Live
<1>2. \A m \in Live(M, v) : m.revision \in Nat
  BY PatchType DEF Live
<1>3. \A m \in Live(N, v), t \in Covers[r] :
          \/ F[m.revision][t] <= c[t]
          \/ \E n \in Live(N, v) :
                n.revision <= m.revision /\ t \in DOMAIN n.cells /\ F[m.revision][t] <= n.cells[t]
  <2> SUFFICES ASSUME NEW m \in Live(N, v), NEW t \in Covers[r], ~ F[m.revision][t] <= c[t]
               PROVE  \E n \in Live(N, v) :
                n.revision <= m.revision /\ t \in DOMAIN n.cells /\ F[m.revision][t] <= n.cells[t]
    OBVIOUS
  <2>1. PICK n \in Live(M, v) :
            n.revision <= m.revision /\ t \in DOMAIN n.cells /\ F[m.revision][t] <= n.cells[t]
    BY <1>1 DEF Stream
  <2>2. n \in N
    BY <1>1, <1>2, <2>1
  <2>3. QED
    BY <1>1, <2>1, <2>2
<1>4. QED
  BY <1>1, <1>3 DEF Stream

\* A patch that is newer than all others joins a stream.
LEMMA StreamAdd ==
    ASSUME NEW M \in SUBSET PatchMessage, NEW m \in PatchMessage, NEW r \in Region, NEW v \in Nat,
           NEW c \in Pictures, NEW F,
           Stream(M, r, v, c, F),
           \A n \in Live(M, v) : n.revision < m.revision,
           m.level = Level[r], DOMAIN m.cells \subseteq Covers[r],
           \A t \in DOMAIN m.cells : /\ F[m.revision][t] <= m.cells[t]
                                     /\ c[t] <= m.cells[t]
                                     /\ \A n \in Live(M, v) : t \in DOMAIN n.cells => n.cells[t] <= m.cells[t],
           Reaches(M, r, v, c, F[m.revision], DOMAIN m.cells)
    PROVE  Stream(M \cup {m}, r, v, c, F)
<1>1. CASE ~ m.revision > v
  <2>1. Live(M, v) = Live(M \cup {m}, v)
    BY <1>1 DEF Live
  <2>2. QED
    BY <2>1, StreamSkip
<1>2. CASE m.revision > v
  <2>1. Live(M \cup {m}, v) = Live(M, v) \cup {m}
    BY <1>2 DEF Live
  <2>2. \A n \in Live(M, v) : n.revision \in Nat /\ n.revision < m.revision /\ n # m
    BY PatchType DEF Live
  <2>3. ASSUME NEW k \in Live(M, v) \cup {m}, NEW t \in Covers[r]
        PROVE  \/ F[k.revision][t] <= c[t]
               \/ \E n \in Live(M, v) \cup {m} :
                    n.revision <= k.revision /\ t \in DOMAIN n.cells /\ F[k.revision][t] <= n.cells[t]
    <3>1. CASE k = m
      <4>1. CASE t \in DOMAIN m.cells
        BY <3>1, <4>1, PatchType
      <4>2. CASE t \notin DOMAIN m.cells
        <5>1. \/ F[m.revision][t] <= c[t]
              \/ \E n \in Live(M, v) : t \in DOMAIN n.cells /\ F[m.revision][t] <= n.cells[t]
          BY <4>2 DEF Reaches
        <5>2. m.revision \in Nat
          BY PatchType
        <5>3. QED
          BY <2>2, <3>1, <5>1, <5>2
      <4>3. QED
        BY <4>1, <4>2
    <3>2. CASE k # m
      BY <3>2 DEF Stream
    <3>3. QED
      BY <3>1, <3>2
  <2>4. ASSUME NEW k \in Live(M, v) \cup {m}, NEW t \in DOMAIN k.cells
        PROVE  /\ c[t] <= k.cells[t]
               /\ \A n \in Live(M, v) \cup {m} :
                    n.revision < k.revision /\ t \in DOMAIN n.cells => n.cells[t] <= k.cells[t]
    <3>1. CASE k = m
      BY <3>1, PatchType
    <3>2. CASE k # m
      <4>1. k \in Live(M, v) /\ ~ m.revision < k.revision
        BY <2>2, <3>2, PatchType
      <4>2. QED
        BY <4>1 DEF Stream
    <3>3. QED
      BY <3>1, <3>2
  <2>5. \A k \in Live(M, v) \cup {m} : k.level = Level[r] /\ DOMAIN k.cells \subseteq Covers[r]
    BY DEF Stream
  <2>6. QED
    BY <2>1, <2>3, <2>4, <2>5 DEF Stream
<1>3. QED
  BY <1>1, <1>2

\* The floors fall, and another copy that shows the same takes the place.
LEMMA StreamFalls ==
    ASSUME NEW M \in SUBSET PatchMessage, NEW r \in Region, NEW v, NEW c, NEW e, NEW F, NEW G,
           Stream(M, r, v, c, F),
           \A t \in Covers[r] : e[t] = c[t] /\ e[t] \in Nat,
           \A m \in Live(M, v), t \in Covers[r] :
              F[m.revision][t] \in Int /\ G[m.revision][t] \in Int /\ G[m.revision][t] <= F[m.revision][t]
    PROVE  Stream(M, r, v, e, G)
<1>1. \A m \in Live(M, v) : \A t \in DOMAIN m.cells : m.cells[t] \in Nat
  BY PatchType DEF Live
<1>2. ASSUME NEW m \in Live(M, v), NEW t \in Covers[r]
      PROVE  \/ G[m.revision][t] <= e[t]
             \/ \E n \in Live(M, v) :
                  n.revision <= m.revision /\ t \in DOMAIN n.cells /\ G[m.revision][t] <= n.cells[t]
  <2>1. F[m.revision][t] \in Int /\ G[m.revision][t] \in Int /\ G[m.revision][t] <= F[m.revision][t]
    OBVIOUS
  <2>2. CASE F[m.revision][t] <= c[t]
    BY <2>1, <2>2
  <2>3. CASE ~ F[m.revision][t] <= c[t]
    <3>1. PICK n \in Live(M, v) :
             n.revision <= m.revision /\ t \in DOMAIN n.cells /\ F[m.revision][t] <= n.cells[t]
      BY <2>3 DEF Stream
    <3>2. G[m.revision][t] <= n.cells[t]
      BY <1>1, <2>1, <3>1
    <3>3. QED
      BY <3>1, <3>2
  <2>4. QED
    BY <2>2, <2>3
<1>3. QED
  BY <1>2 DEF Stream

LEMMA ReachesFalls ==
    ASSUME NEW M \in SUBSET PatchMessage, NEW r \in Region, NEW v, NEW c, NEW e, NEW f, NEW g, NEW P, NEW Q,
           Reaches(M, r, v, c, f, P), P \subseteq Q,
           \A t \in Covers[r] : e[t] = c[t] /\ e[t] \in Nat,
           \A t \in Covers[r] \ Q : f[t] \in Int /\ g[t] \in Int /\ g[t] <= f[t]
    PROVE  Reaches(M, r, v, e, g, Q)
<1> SUFFICES ASSUME NEW t \in Covers[r], t \notin Q
             PROVE  \/ g[t] <= e[t]
                    \/ \E m \in Live(M, v) : t \in DOMAIN m.cells /\ g[t] <= m.cells[t]
  BY DEF Reaches
<1>1. \A m \in Live(M, v) : \A u \in DOMAIN m.cells : m.cells[u] \in Nat
  BY PatchType DEF Live
<1>2. f[t] \in Int /\ g[t] \in Int /\ g[t] <= f[t] /\ t \notin P
  OBVIOUS
<1>3. CASE f[t] <= c[t]
  BY <1>2, <1>3
<1>4. CASE ~ f[t] <= c[t]
  <2>1. PICK m \in Live(M, v) : t \in DOMAIN m.cells /\ f[t] <= m.cells[t]
    BY <1>2, <1>4 DEF Reaches
  <2>2. g[t] <= m.cells[t]
    BY <1>1, <1>2, <2>1
  <2>3. QED
    BY <2>1, <2>2
<1>5. QED
  BY <1>3, <1>4

-----------------------------------------------------------------------------
(* Streams in the messages d on their way to the client. *)

PatchesIn(d) == {i \in DOMAIN d : d[i].is = "patch"}
AnswersIn(d) == {i \in DOMAIN d : d[i].is = "snapshot"}
\* The patches before every answer, and those behind one.
Front(d) == {i \in PatchesIn(d) : \A s \in AnswersIn(d) : i < s}
Rear(d) == {i \in PatchesIn(d) : \E s \in AnswersIn(d) : s < i}

Messages(d, I) == {d[i] : i \in I}
Shift(I) == {i \in Nat \ {0} : i + 1 \in I}

\* The patches at I, and K which will be sent, are in order.
InOrder(d, I, K, v) ==
    /\ \A i, j \in I : i < j /\ d[j].revision > v => d[i].revision < d[j].revision
    /\ \A i \in I, m \in K : m.revision > v => d[i].revision < m.revision

Flow(d, I, K, r, v, c, F) ==
    InOrder(d, I, K, v) /\ Stream(Messages(d, I) \cup K, r, v, c, F)

LEMMA Appended ==
    ASSUME NEW S, NEW d \in Seq(S), NEW m \in S
    PROVE  /\ Append(d, m) \in Seq(S) /\ Len(d) \in Nat /\ DOMAIN d = 1 .. Len(d)
           /\ DOMAIN Append(d, m) = 1 .. Len(d) + 1
           /\ \A i \in DOMAIN d : Append(d, m)[i] = d[i]
           /\ Append(d, m)[Len(d) + 1] = m
OBVIOUS

LEMMA Shortened ==
    ASSUME NEW S, NEW d \in Seq(S), d # <<>>
    PROVE  /\ Tail(d) \in Seq(S) /\ Len(d) \in Nat \ {0} /\ DOMAIN d = 1 .. Len(d)
           /\ Head(d) = d[1] /\ 1 \in DOMAIN d
           /\ DOMAIN Tail(d) = 1 .. Len(d) - 1
           /\ \A i \in DOMAIN Tail(d) : i + 1 \in DOMAIN d /\ Tail(d)[i] = d[i + 1]
           /\ \A i \in DOMAIN d : i # 1 => i - 1 \in DOMAIN Tail(d) /\ Tail(d)[i - 1] = d[i]
OBVIOUS

LEMMA MessagesTail ==
    ASSUME NEW S, NEW d \in Seq(S), d # <<>>, NEW I \in SUBSET DOMAIN d
    PROVE  /\ Shift(I) \subseteq DOMAIN Tail(d)
           /\ Messages(Tail(d), Shift(I)) = Messages(d, I \ {1})
<1>1. \A i \in Shift(I) : i \in DOMAIN Tail(d) /\ i + 1 \in I /\ i + 1 # 1
  BY Shortened DEF Shift
<1>2. \A i \in I : i # 1 => i - 1 \in Shift(I)
  BY Shortened DEF Shift
<1>3. \A i \in Shift(I) : Tail(d)[i] = d[i + 1]
  BY <1>1, Shortened
<1>4. \A i \in I : i # 1 => Tail(d)[i - 1] = d[i]
  BY Shortened
<1>5. QED
  BY <1>1, <1>2, <1>3, <1>4 DEF Messages

LEMMA MessagesAppend ==
    ASSUME NEW S, NEW d \in Seq(S), NEW m \in S, NEW I \in SUBSET DOMAIN d
    PROVE  /\ Messages(Append(d, m), I) = Messages(d, I)
           /\ Messages(Append(d, m), I \cup {Len(d) + 1}) = Messages(d, I) \cup {m}
BY Appended DEF Messages

\* The head of d goes, and it is not part of the stream or too old for it.
LEMMA FlowSkip ==
    ASSUME NEW S, NEW d \in Seq(S), d # <<>>, NEW I \in SUBSET DOMAIN d, NEW K, NEW r, NEW v, NEW c, NEW F,
           Flow(d, I, K, r, v, c, F), 1 \in I => ~ d[1].revision > v
    PROVE  /\ Flow(Tail(d), Shift(I), K, r, v, c, F)
           /\ \A f, P : Reaches(Messages(d, I) \cup K, r, v, c, f, P)
                          => Reaches(Messages(Tail(d), Shift(I)) \cup K, r, v, c, f, P)
<1>1. Messages(Tail(d), Shift(I)) = Messages(d, I \ {1})
  BY MessagesTail
<1>2. Live(Messages(d, I) \cup K, v) = Live(Messages(Tail(d), Shift(I)) \cup K, v)
  BY <1>1 DEF Live, Messages
<1>3. \A i \in Shift(I) : i \in Nat /\ i + 1 \in I /\ Tail(d)[i] = d[i + 1]
  BY MessagesTail, Shortened DEF Shift
<1>4. InOrder(Tail(d), Shift(I), K, v)
  <2>1. InOrder(d, I, K, v)
    BY DEF Flow
  <2>2. ASSUME NEW i \in Shift(I), NEW j \in Shift(I), i < j, Tail(d)[j].revision > v
        PROVE  Tail(d)[i].revision < Tail(d)[j].revision
    <3>1. i + 1 < j + 1 /\ i + 1 \in I /\ j + 1 \in I
      BY <1>3, <2>2
    <3>2. QED
      BY <1>3, <2>1, <2>2, <3>1 DEF InOrder
  <2>3. \A i \in Shift(I), m \in K : m.revision > v => Tail(d)[i].revision < m.revision
    BY <1>3, <2>1 DEF InOrder
  <2>4. QED
    BY <2>2, <2>3 DEF InOrder
<1>5. QED
  BY <1>2, <1>4, StreamSkip DEF Flow

\* The head of d is part of the stream, and the copy meets it.
LEMMA FlowTake ==
    ASSUME NEW S, NEW d \in Seq(S), d # <<>>, NEW I \in SUBSET DOMAIN d, 1 \in I,
           NEW K \in SUBSET PatchMessage, Messages(d, I) \subseteq PatchMessage,
           NEW r \in Region, NEW v \in Nat, NEW c \in Pictures, NEW F,
           \A w \in Nat, t \in Tile : F[w][t] \in Int,
           Flow(d, I, K, r, v, c, F), d[1].revision > v
    PROVE  /\ d[1].level = Level[r] /\ DOMAIN d[1].cells \subseteq Covers[r]
           /\ Flow(Tail(d), Shift(I), K, r, d[1].revision, Over(c, d[1]), F)
           /\ \A t \in Covers[r] : F[d[1].revision][t] <= Over(c, d[1])[t]
           /\ \A t \in Tile : c[t] <= Over(c, d[1])[t]
           /\ \A f, P : (\A t \in Tile : f[t] \in Int) /\ Reaches(Messages(d, I) \cup K, r, v, c, f, P)
                          => Reaches(Messages(Tail(d), Shift(I)) \cup K, r, d[1].revision, Over(c, d[1]), f, P)
<1> DEFINE m == d[1]
           M == Messages(d, I \ {1}) \cup K
<1>1. Messages(Tail(d), Shift(I)) = Messages(d, I \ {1})
  BY MessagesTail
<1>2. Messages(d, I) \cup K = {m} \cup M
  BY DEF Messages
<1>3. m \in PatchMessage /\ M \in SUBSET PatchMessage
  BY <1>2
<1>4. InOrder(d, I, K, v)
  BY DEF Flow
<1>5. \A n \in Live(M, v) : m.revision < n.revision
  <2>1. \A i \in I : i # 1 => 1 < i
    BY Shortened
  <2>2. QED
    BY <1>4, <2>1 DEF Live, InOrder, Messages
<1>6. Stream({m} \cup M, r, v, c, F)
  BY <1>2 DEF Flow
<1> HIDE DEF m, M
<1>7. m.revision > v
  BY DEF m
<1>8. /\ m.level = Level[r] /\ DOMAIN m.cells \subseteq Covers[r]
      /\ Stream(M, r, m.revision, Over(c, m), F)
      /\ \A t \in Covers[r] : F[m.revision][t] <= Over(c, m)[t]
      /\ \A t \in Tile : c[t] <= Over(c, m)[t]
      /\ \A f, P : (\A t \in Tile : f[t] \in Int) /\ Reaches({m} \cup M, r, v, c, f, P)
                     => Reaches(M, r, m.revision, Over(c, m), f, P)
  BY <1>3, <1>5, <1>6, <1>7, StreamTake
<1>9. \A i \in Shift(I) : i \in Nat /\ i + 1 \in I /\ Tail(d)[i] = d[i + 1] /\ d[i + 1] \in PatchMessage
  BY MessagesTail, Shortened DEF Shift, Messages
<1>10. InOrder(Tail(d), Shift(I), K, m.revision)
  <2>0. m.revision \in Nat
    BY <1>3, PatchType
  <2>1. ASSUME NEW i \in Shift(I), NEW j \in Shift(I), i < j, Tail(d)[j].revision > m.revision
        PROVE  Tail(d)[i].revision < Tail(d)[j].revision
    <3>1. i + 1 < j + 1 /\ i + 1 \in I /\ j + 1 \in I
      BY <1>9, <2>1
    <3>2. Tail(d)[j].revision \in Nat
      BY <1>9, PatchType
    <3>3. d[j + 1].revision > v
      BY <1>7, <1>9, <2>0, <2>1, <3>2
    <3>4. QED
      BY <1>4, <1>9, <3>1, <3>3 DEF InOrder
  <2>2. ASSUME NEW i \in Shift(I), NEW n \in K, n.revision > m.revision
        PROVE  Tail(d)[i].revision < n.revision
    <3>1. n.revision \in Nat
      BY PatchType
    <3>2. n.revision > v
      BY <1>7, <2>0, <2>2, <3>1
    <3>3. QED
      BY <1>4, <1>9, <3>2 DEF InOrder
  <2>3. QED
    BY <2>1, <2>2 DEF InOrder
<1>11. QED
  BY <1>1, <1>2, <1>8, <1>10 DEF Flow, M, m

\* The patch that will be sent is sent.
LEMMA FlowSend ==
    ASSUME NEW S, NEW d \in Seq(S), NEW m \in S, NEW I \in SUBSET DOMAIN d, NEW r, NEW v, NEW c, NEW F,
           Flow(d, I, {m}, r, v, c, F)
    PROVE  /\ Flow(Append(d, m), I \cup {Len(d) + 1}, {}, r, v, c, F)
           /\ Messages(Append(d, m), I \cup {Len(d) + 1}) = Messages(d, I) \cup {m}
<1>1. Messages(Append(d, m), I \cup {Len(d) + 1}) = Messages(d, I) \cup {m}
  BY MessagesAppend
<1>2. \A i \in I : i \in Nat /\ i < Len(d) + 1 /\ Append(d, m)[i] = d[i]
  BY Appended
<1>3. Append(d, m)[Len(d) + 1] = m /\ Len(d) \in Nat
  BY Appended
<1>4. InOrder(Append(d, m), I \cup {Len(d) + 1}, {}, v)
  BY <1>2, <1>3 DEF Flow, InOrder
<1>5. QED
  BY <1>1, <1>4 DEF Flow

\* What is not a part of the stream is sent.
LEMMA FlowPast ==
    ASSUME NEW S, NEW d \in Seq(S), NEW m \in S, NEW I \in SUBSET DOMAIN d,
           NEW K, NEW r, NEW v, NEW c, NEW F, Flow(d, I, K, r, v, c, F)
    PROVE  Flow(Append(d, m), I, K, r, v, c, F)
<1>1. \A i \in I : Append(d, m)[i] = d[i]
  BY Appended
<1>2. InOrder(Append(d, m), I, K, v)
  BY <1>1 DEF Flow, InOrder
<1>3. Messages(Append(d, m), I) = Messages(d, I)
  BY <1>1 DEF Messages
<1>4. QED
  BY <1>2, <1>3 DEF Flow

\* A patch that is newer than all others is sent; the one that will be sent
\* is too old to matter.
LEMMA FlowPush ==
    ASSUME NEW S, NEW d \in Seq(S), NEW m \in PatchMessage, m \in S, NEW I \in SUBSET DOMAIN d,
           NEW K \in SUBSET PatchMessage, Messages(d, I) \subseteq PatchMessage,
           NEW r \in Region, NEW v \in Nat, NEW c \in Pictures, NEW F,
           Flow(d, I, K, r, v, c, F),
           \A n \in Messages(d, I) : n.revision < m.revision,
           \A n \in K : ~ n.revision > v,
           m.level = Level[r], DOMAIN m.cells \subseteq Covers[r],
           \A t \in DOMAIN m.cells : /\ F[m.revision][t] <= m.cells[t]
                                     /\ c[t] <= m.cells[t]
                                     /\ \A n \in Messages(d, I) : n.level = Level[r] /\ t \in DOMAIN n.cells
                                                                    => n.cells[t] <= m.cells[t],
           Reaches(Messages(d, I) \cup K, r, v, c, F[m.revision], DOMAIN m.cells)
    PROVE  Flow(Append(d, m), I \cup {Len(d) + 1}, K, r, v, c, F)
<1>1. Messages(Append(d, m), I \cup {Len(d) + 1}) = Messages(d, I) \cup {m}
  BY MessagesAppend
<1>2. \A i \in I : i \in Nat /\ i < Len(d) + 1 /\ Append(d, m)[i] = d[i] /\ d[i].revision < m.revision
  BY Appended DEF Messages
<1>3. Append(d, m)[Len(d) + 1] = m /\ Len(d) \in Nat
  BY Appended
<1>4. InOrder(Append(d, m), I \cup {Len(d) + 1}, K, v)
  BY <1>2, <1>3 DEF Flow, InOrder
<1>5. Live(Messages(d, I) \cup K, v) \subseteq Messages(d, I)
  BY DEF Live
<1>6. Stream(Messages(d, I) \cup K, r, v, c, F)
  BY DEF Flow
<1>7. Stream((Messages(d, I) \cup K) \cup {m}, r, v, c, F)
  <2>1. \A n \in Live(Messages(d, I) \cup K, v) : n.level = Level[r] /\ n.revision < m.revision /\ n \in Messages(d, I)
    BY <1>5, <1>6 DEF Stream
  <2>2. QED
    BY <1>6, <2>1, StreamAdd
<1>8. (Messages(d, I) \cup K) \cup {m} = (Messages(d, I) \cup {m}) \cup K
  OBVIOUS
<1>9. QED
  BY <1>1, <1>4, <1>7, <1>8 DEF Flow

\* A patch that is newer than all others is built.
LEMMA FlowBuild ==
    ASSUME NEW d, NEW I, NEW m \in PatchMessage, Messages(d, I) \subseteq PatchMessage,
           NEW r \in Region, NEW v \in Nat, NEW c \in Pictures, NEW F,
           Flow(d, I, {}, r, v, c, F),
           \A n \in Messages(d, I) : n.revision < m.revision,
           m.level = Level[r], DOMAIN m.cells \subseteq Covers[r],
           \A t \in DOMAIN m.cells : /\ F[m.revision][t] <= m.cells[t]
                                     /\ c[t] <= m.cells[t]
                                     /\ \A n \in Messages(d, I) : n.level = Level[r] /\ t \in DOMAIN n.cells
                                                                    => n.cells[t] <= m.cells[t],
           Reaches(Messages(d, I), r, v, c, F[m.revision], DOMAIN m.cells)
    PROVE  Flow(d, I, {m}, r, v, c, F)
<1>1. InOrder(d, I, {m}, v)
  BY DEF Flow, InOrder, Messages
<1>2. Stream(Messages(d, I), r, v, c, F)
  BY DEF Flow
<1>3. \A n \in Live(Messages(d, I), v) : n.level = Level[r] /\ n.revision < m.revision /\ n \in Messages(d, I)
  BY <1>2 DEF Stream, Live
<1>4. Stream(Messages(d, I) \cup {m}, r, v, c, F)
  BY <1>2, <1>3, StreamAdd
<1>5. QED
  BY <1>1, <1>4 DEF Flow

\* The patch that will be sent is left to the answer that is sent before it.
LEMMA FlowCut ==
    ASSUME NEW d, NEW I, NEW K \in SUBSET PatchMessage, Messages(d, I) \subseteq PatchMessage,
           NEW r, NEW v \in Nat, NEW c, NEW F, Flow(d, I, K, r, v, c, F)
    PROVE  Flow(d, I, {}, r, v, c, F)
<1>1. InOrder(d, I, {}, v) /\ InOrder(d, I, K, v)
  BY DEF Flow, InOrder
<1>2. \A m \in Live(Messages(d, I) \cup K, v) \ Messages(d, I), n \in Live(Messages(d, I), v) :
         n.revision < m.revision
  BY <1>1 DEF InOrder, Live, Messages
<1>3. Stream(Messages(d, I), r, v, c, F)
  BY <1>2, StreamDrop DEF Flow
<1>4. Messages(d, I) \cup {} = Messages(d, I)
  OBVIOUS
<1>5. QED
  BY <1>1, <1>3, <1>4 DEF Flow

\* The floors fall, and another copy that shows the same takes the place.
LEMMA FlowFalls ==
    ASSUME NEW d, NEW I, NEW K, Messages(d, I) \cup K \subseteq PatchMessage,
           NEW r \in Region, NEW v, NEW c, NEW e, NEW F, NEW G,
           Flow(d, I, K, r, v, c, F),
           \A t \in Covers[r] : e[t] = c[t] /\ e[t] \in Nat,
           \A m \in Messages(d, I) \cup K, t \in Covers[r] :
              F[m.revision][t] \in Int /\ G[m.revision][t] \in Int /\ G[m.revision][t] <= F[m.revision][t]
    PROVE  Flow(d, I, K, r, v, e, G)
<1>1. Stream(Messages(d, I) \cup K, r, v, c, F)
  BY DEF Flow
<1>2. Live(Messages(d, I) \cup K, v) \subseteq Messages(d, I) \cup K
  BY DEF Live
<1>3. Stream(Messages(d, I) \cup K, r, v, e, G)
  BY <1>1, <1>2, StreamFalls
<1>4. QED
  BY <1>3 DEF Flow

\* Where the patches and answers of d are when it grows or is taken from.
LEMMA AppendPatch ==
    ASSUME NEW S, NEW d \in Seq(S), NEW m \in S, m.is = "patch"
    PROVE  LET n == Len(d) + 1
               e == Append(d, m)
           IN  /\ PatchesIn(e) = PatchesIn(d) \cup {n} /\ AnswersIn(e) = AnswersIn(d)
               /\ AnswersIn(d) # {} => Front(e) = Front(d) /\ Rear(e) = Rear(d) \cup {n}
<1> DEFINE n == Len(d) + 1
           e == Append(d, m)
<1>1. /\ Len(d) \in Nat /\ DOMAIN d = 1 .. Len(d) /\ DOMAIN e = 1 .. n
      /\ \A i \in DOMAIN d : e[i] = d[i] /\ e[n] = m
  BY Appended
<1>2. e[n] = m
  BY Appended
<1> HIDE DEF e
<1>3. PatchesIn(e) = PatchesIn(d) \cup {n}
  BY <1>1, <1>2 DEF PatchesIn
<1>4. AnswersIn(e) = AnswersIn(d)
  BY <1>1, <1>2 DEF AnswersIn
<1>5. PatchesIn(d) \subseteq 1 .. Len(d) /\ AnswersIn(d) \subseteq 1 .. Len(d)
  BY <1>1 DEF PatchesIn, AnswersIn
<1>6. \A s \in AnswersIn(d) : s < n /\ ~ n < s
  BY <1>1, <1>5
<1>7. AnswersIn(d) # {} => Front(e) = Front(d) /\ Rear(e) = Rear(d) \cup {n}
  BY <1>3, <1>4, <1>6 DEF Front, Rear
<1>8. QED
  BY <1>3, <1>4, <1>7 DEF e

LEMMA AppendAnswer ==
    ASSUME NEW S, NEW d \in Seq(S), NEW m \in S, m.is = "snapshot", AnswersIn(d) = {}
    PROVE  LET n == Len(d) + 1
               e == Append(d, m)
           IN  /\ PatchesIn(e) = PatchesIn(d) /\ AnswersIn(e) = {n}
               /\ Front(e) = PatchesIn(d)
               /\ Rear(e) = {}
               /\ Front(d) = PatchesIn(d)
<1> DEFINE n == Len(d) + 1
           e == Append(d, m)
<1>1. /\ Len(d) \in Nat /\ DOMAIN d = 1 .. Len(d) /\ DOMAIN e = 1 .. n
      /\ \A i \in DOMAIN d : e[i] = d[i] /\ e[n] = m
  BY Appended
<1>2. e[n] = m
  BY Appended
<1> HIDE DEF e
<1>3. PatchesIn(e) = PatchesIn(d)
  BY <1>1, <1>2 DEF PatchesIn
<1>4. AnswersIn(e) = {n}
  BY <1>1, <1>2 DEF AnswersIn
<1>5. \A i \in PatchesIn(d) : i < n /\ ~ n < i
  BY <1>1 DEF PatchesIn
<1>6. QED
  BY <1>3, <1>4, <1>5 DEF Front, Rear, e

LEMMA TailPatch ==
    ASSUME NEW S, NEW d \in Seq(S), d # <<>>, Head(d).is = "patch"
    PROVE  /\ PatchesIn(Tail(d)) = Shift(PatchesIn(d)) /\ AnswersIn(Tail(d)) = Shift(AnswersIn(d))
           /\ Front(Tail(d)) = Shift(Front(d)) /\ 1 \in Front(d)
           /\ Rear(Tail(d)) = Shift(Rear(d)) /\ 1 \notin Rear(d)
           /\ 1 \in PatchesIn(d) /\ 1 \notin AnswersIn(d)
           /\ AnswersIn(Tail(d)) = {} <=> AnswersIn(d) = {}
<1> DEFINE e == Tail(d)
<1>1. /\ Len(d) \in Nat \ {0} /\ DOMAIN d = 1 .. Len(d) /\ 1 \in DOMAIN d /\ d[1].is = "patch"
      /\ DOMAIN e = 1 .. Len(d) - 1
      /\ \A i \in DOMAIN e : i + 1 \in DOMAIN d /\ e[i] = d[i + 1]
  BY Shortened
<1> HIDE DEF e
<1>2. 1 \in PatchesIn(d) /\ 1 \notin AnswersIn(d)
  BY <1>1 DEF PatchesIn, AnswersIn
<1>3. PatchesIn(e) = Shift(PatchesIn(d)) /\ AnswersIn(e) = Shift(AnswersIn(d))
  BY <1>1 DEF PatchesIn, AnswersIn, Shift
<1>4. PatchesIn(d) \subseteq Nat \ {0} /\ AnswersIn(d) \subseteq Nat \ {0}
  BY <1>1 DEF PatchesIn, AnswersIn
<1>5. \A s \in AnswersIn(d) : s - 1 \in AnswersIn(e) /\ 1 < s
  BY <1>2, <1>3, <1>4 DEF Shift
<1>6. \A s \in AnswersIn(e) : s + 1 \in AnswersIn(d) /\ s \in Nat
  BY <1>3 DEF Shift
<1>7. ASSUME NEW i \in Nat
      PROVE  /\ (\A s \in AnswersIn(e) : i < s) <=> (\A s \in AnswersIn(d) : i + 1 < s)
             /\ (\E s \in AnswersIn(e) : s < i) <=> (\E s \in AnswersIn(d) : s < i + 1)
  <2>1. ASSUME \A s \in AnswersIn(e) : i < s, NEW s \in AnswersIn(d) PROVE i + 1 < s
    <3>1. i < s - 1 /\ s \in Nat
      BY <1>4, <1>5, <2>1
    <3>2. QED
      BY <3>1
  <2>2. ASSUME \A s \in AnswersIn(d) : i + 1 < s, NEW s \in AnswersIn(e) PROVE i < s
    <3>1. i + 1 < s + 1 /\ s \in Nat
      BY <1>6, <2>2
    <3>2. QED
      BY <3>1
  <2>3. ASSUME NEW s \in AnswersIn(e), s < i PROVE \E u \in AnswersIn(d) : u < i + 1
    <3>1. s + 1 \in AnswersIn(d) /\ s + 1 < i + 1
      BY <1>6, <2>3
    <3>2. QED
      BY <3>1
  <2>4. ASSUME NEW s \in AnswersIn(d), s < i + 1 PROVE \E u \in AnswersIn(e) : u < i
    <3>1. s - 1 \in AnswersIn(e) /\ s - 1 < i
      BY <1>4, <1>5, <2>4
    <3>2. QED
      BY <3>1
  <2>5. QED
    BY <2>1, <2>2, <2>3, <2>4
<1>8. Front(e) = Shift(Front(d)) /\ 1 \in Front(d)
  <2>1. 1 \in Front(d)
    BY <1>2, <1>5 DEF Front
  <2>2. ASSUME NEW i \in Nat \ {0} PROVE i \in Front(e) <=> i + 1 \in Front(d)
    <3>1. i \in PatchesIn(e) <=> i + 1 \in PatchesIn(d)
      BY <1>3 DEF Shift
    <3>2. QED
      BY <1>7, <3>1 DEF Front
  <2>3. Front(e) \subseteq Nat \ {0}
    BY <1>3 DEF Front, Shift
  <2>4. QED
    BY <2>1, <2>2, <2>3 DEF Shift
<1>9. Rear(e) = Shift(Rear(d)) /\ 1 \notin Rear(d)
  <2>1. 1 \notin Rear(d)
    BY <1>4, <1>5 DEF Rear
  <2>2. ASSUME NEW i \in Nat \ {0} PROVE i \in Rear(e) <=> i + 1 \in Rear(d)
    <3>1. i \in PatchesIn(e) <=> i + 1 \in PatchesIn(d)
      BY <1>3 DEF Shift
    <3>2. QED
      BY <1>7, <3>1 DEF Rear
  <2>3. Rear(e) \subseteq Nat \ {0}
    BY <1>3 DEF Rear, Shift
  <2>4. QED
    BY <2>1, <2>2, <2>3 DEF Shift
<1>10. AnswersIn(e) = {} <=> AnswersIn(d) = {}
  BY <1>5, <1>6
<1>11. QED
  BY <1>2, <1>3, <1>8, <1>9, <1>10 DEF e

LEMMA TailAnswer ==
    ASSUME NEW S, NEW d \in Seq(S), d # <<>>, AnswersIn(d) = {1}
    PROVE  /\ PatchesIn(Tail(d)) = Shift(PatchesIn(d)) /\ AnswersIn(Tail(d)) = {}
           /\ 1 \notin PatchesIn(d) /\ Rear(d) = PatchesIn(d) /\ Front(d) = {}
<1> DEFINE e == Tail(d)
<1>1. /\ Len(d) \in Nat \ {0} /\ DOMAIN d = 1 .. Len(d) /\ 1 \in DOMAIN d
      /\ DOMAIN e = 1 .. Len(d) - 1
      /\ \A i \in DOMAIN e : i + 1 \in DOMAIN d /\ e[i] = d[i + 1]
  BY Shortened
<1> HIDE DEF e
<1>2. d[1].is = "snapshot" /\ \A i \in DOMAIN d : d[i].is = "snapshot" => i = 1
  BY DEF AnswersIn
<1>3. PatchesIn(d) \subseteq Nat \ {0} /\ 1 \notin PatchesIn(d)
  BY <1>1, <1>2 DEF PatchesIn
<1>4. PatchesIn(e) = Shift(PatchesIn(d))
  BY <1>1 DEF PatchesIn, Shift
<1>5. AnswersIn(e) = {}
  <2>1. \A i \in DOMAIN e : i + 1 # 1
    BY <1>1
  <2>2. QED
    BY <1>1, <1>2, <2>1 DEF AnswersIn
<1>6. \A i \in PatchesIn(d) : 1 < i /\ ~ i < 1
  BY <1>3
<1>7. Rear(d) = PatchesIn(d) /\ Front(d) = {}
  BY <1>6 DEF Rear, Front
<1>8. QED
  BY <1>3, <1>4, <1>5, <1>7 DEF e

-----------------------------------------------------------------------------
(* What the server will hold once it has taken the messages u. *)

Decides(m) == m.is = "release" \/ m.subscribe
Gives(m) == IF m.is = "release" THEN None ELSE m.region

Leads(u, d, x) ==
    \/ /\ \A i \in DOMAIN u : ~ Decides(u[i])
       /\ x = d
    \/ \E i \in DOMAIN u :
          Decides(u[i]) /\ x = Gives(u[i]) /\ \A j \in DOMAIN u : j > i => ~ Decides(u[j])

LEMMA LeadsAppend ==
    ASSUME NEW S, NEW u \in Seq(S), NEW m \in S, NEW d, NEW x, Leads(u, d, x)
    PROVE  Leads(Append(u, m), d, IF Decides(m) THEN Gives(m) ELSE x)
<1> DEFINE n == Len(u) + 1
           e == Append(u, m)
<1>1. /\ Len(u) \in Nat /\ DOMAIN u = 1 .. Len(u) /\ DOMAIN e = 1 .. n
      /\ \A i \in DOMAIN u : e[i] = u[i]
  BY Appended
<1>2. e[n] = m
  BY Appended
<1> HIDE DEF e
<1>3. CASE Decides(m)
  <2>1. n \in DOMAIN e /\ Decides(e[n]) /\ \A j \in DOMAIN e : ~ j > n
    BY <1>1, <1>2, <1>3
  <2>2. QED
    BY <1>2, <1>3, <2>1 DEF Leads, e
<1>4. CASE ~ Decides(m)
  <2>1. CASE (\A i \in DOMAIN u : ~ Decides(u[i])) /\ x = d
    <3>1. \A i \in DOMAIN e : ~ Decides(e[i])
      BY <1>1, <1>2, <1>4, <2>1
    <3>2. QED
      BY <1>4, <2>1, <3>1 DEF Leads, e
  <2>2. CASE \E i \in DOMAIN u :
                Decides(u[i]) /\ x = Gives(u[i]) /\ \A j \in DOMAIN u : j > i => ~ Decides(u[j])
    <3>1. PICK i \in DOMAIN u :
                Decides(u[i]) /\ x = Gives(u[i]) /\ \A j \in DOMAIN u : j > i => ~ Decides(u[j])
      BY <2>2
    <3>2. i \in DOMAIN e /\ Decides(e[i]) /\ x = Gives(e[i])
      BY <1>1, <3>1
    <3>3. \A j \in DOMAIN e : j > i => ~ Decides(e[j])
      BY <1>1, <1>2, <1>4, <3>1
    <3>4. QED
      BY <1>4, <3>2, <3>3 DEF Leads, e
  <2>3. QED
    BY <2>1, <2>2 DEF Leads
<1>5. QED
  BY <1>3, <1>4

LEMMA LeadsTail ==
    ASSUME NEW S, NEW u \in Seq(S), u # <<>>, NEW d, NEW x, Leads(u, d, x)
    PROVE  Leads(Tail(u), IF Decides(Head(u)) THEN Gives(Head(u)) ELSE d, x)
<1> DEFINE e == Tail(u)
           b == IF Decides(Head(u)) THEN Gives(Head(u)) ELSE d
<1>1. /\ Len(u) \in Nat \ {0} /\ DOMAIN u = 1 .. Len(u) /\ 1 \in DOMAIN u /\ Head(u) = u[1]
      /\ DOMAIN e = 1 .. Len(u) - 1
      /\ \A i \in DOMAIN e : i + 1 \in DOMAIN u /\ e[i] = u[i + 1]
      /\ \A i \in DOMAIN u : i # 1 => i - 1 \in DOMAIN e /\ e[i - 1] = u[i]
  BY Shortened
<1> HIDE DEF e
<1>2. CASE (\A i \in DOMAIN u : ~ Decides(u[i])) /\ x = d
  BY <1>1, <1>2 DEF Leads, e
<1>3. CASE \E i \in DOMAIN u :
              Decides(u[i]) /\ x = Gives(u[i]) /\ \A j \in DOMAIN u : j > i => ~ Decides(u[j])
  <2>1. PICK i \in DOMAIN u :
              Decides(u[i]) /\ x = Gives(u[i]) /\ \A j \in DOMAIN u : j > i => ~ Decides(u[j])
    BY <1>3
  <2>2. CASE i = 1
    <3>1. \A j \in DOMAIN e : j + 1 > 1
      BY <1>1
    <3>2. \A j \in DOMAIN e : ~ Decides(e[j])
      BY <1>1, <2>1, <2>2, <3>1
    <3>3. x = b
      BY <1>1, <2>1, <2>2
    <3>4. QED
      BY <3>2, <3>3 DEF Leads, e
  <2>3. CASE i # 1
    <3>1. i - 1 \in DOMAIN e /\ e[i - 1] = u[i]
      BY <1>1, <2>3
    <3>2. \A j \in DOMAIN e : j > i - 1 => ~ Decides(e[j])
      <4> SUFFICES ASSUME NEW j \in DOMAIN e, j > i - 1 PROVE ~ Decides(e[j])
        OBVIOUS
      <4>1. j + 1 > i /\ j + 1 \in DOMAIN u /\ e[j] = u[j + 1]
        BY <1>1
      <4>2. QED
        BY <2>1, <4>1
    <3>3. QED
      BY <2>1, <3>1, <3>2 DEF Leads, e
  <2>4. QED
    BY <2>2, <2>3
<1>4. QED
  BY <1>2, <1>3 DEF Leads

-----------------------------------------------------------------------------
(* The inductive invariant. *)

ReleaseMessage == [is : {"release"}]
SnapshotMessage == [is : {"snapshot"}, id : Nat, region : Region, revision : Nat,
                    unchanged : BOOLEAN, cells : Pictures]
UpMessage == RequestMessage \cup ReleaseMessage
DownMessage == PatchMessage \cup SnapshotMessage
Copy == [revision : Nat, cells : Pictures, there : BOOLEAN]

Typed ==
    /\ board \in Pictures /\ tiles \in Pictures /\ saved \in Pictures \cup {None}
    /\ dirty \subseteq Tile /\ revision \in Nat
    /\ sub \in Subscription \cup {None} /\ pump \in Job \cup {None} /\ cast \in PatchMessage \cup {None}
    /\ up \in Seq(UpMessage) /\ down \in Seq(DownMessage)
    /\ connected \in BOOLEAN /\ nextId \in Nat
    /\ pending \in Query \cup {None} /\ queued \in Wish \cup {None}
    /\ shown \in [Region -> Copy]
    /\ subscribed \in Region \cup {None} /\ asked \in Region \cup {None}
    /\ greet \in BOOLEAN
    /\ DOMAIN rendered \subseteq 0 .. revision /\ revision \in DOMAIN rendered
    /\ \A v \in DOMAIN rendered : rendered[v] \in Pictures
    /\ foreign \subseteq Region /\ unrendered \subseteq Tile

Below(p, q) == \A t \in Tile : p[t] <= q[t]

\* What a round leaves: rendered chunks lag behind the board only where they
\* are dirty or were replayed.
Rounds ==
    /\ rendered[revision] = tiles /\ Below(tiles, board)
    /\ \A v \in DOMAIN rendered : Below(rendered[v], tiles)
    /\ saved # None => Below(saved, board)
    /\ \A t \in Tile \ (dirty \cup unrendered) : tiles[t] = board[t]
    /\ dirty \cap unrendered = {}

Asking == {i \in DOMAIN up : up[i].is = "request"}
Answers == AnswersIn(down)
Patches == PatchesIn(down)
\* The goroutine has still to answer; it will make the subscription ready.
Busy == pump # None /\ ~ pump.sent
Subscribing == pump # None /\ pump.q.subscribe

\* The request q is the pending one; a release may have come in between.
Fits(q) ==
    /\ pending # None /\ q.id = pending.id /\ q.region = pending.region
    /\ pending.subscribe => q.subscribe
    /\ q.subscribe /\ ~ pending.subscribe => subscribed = None

\* The pending request is in one place: on its way, in the goroutine, or
\* answered and on its way back.
OneTrip ==
    /\ pending = None => queued = None
    /\ \A i \in Asking : Fits(up[i]) /\ ~ Busy /\ Answers = {} /\ \A j \in Asking : j = i
    /\ Busy => Fits(pump.q) /\ Answers = {}
    /\ \A s \in Answers :
          /\ pending # None /\ down[s].id = pending.id /\ down[s].region = pending.region
          /\ \A j \in Answers : j = s

Clients ==
    /\ ~ connected => /\ up = <<>> /\ down = <<>> /\ pump = None /\ sub = None /\ cast = None
                      /\ pending = None /\ queued = None /\ subscribed = None /\ ~ greet
    /\ greet => subscribed = None
    /\ subscribed # None => shown[subscribed].there
    /\ pending # None /\ ~ pending.subscribe => subscribed # pending.region
    /\ queued # None /\ ~ queued.subscribe =>
          pending # None /\ ~ pending.subscribe /\ subscribed # queued.region

Servers ==
    /\ Subscribing => sub # None /\ sub.region = pump.q.region /\ ~ sub.ready
    /\ sub # None /\ ~ sub.ready => Subscribing
    /\ sub # None => sub.pending \subseteq Covers[sub.region] /\ (sub.ready => sub.pending = {})
    /\ pump # None => /\ pump.sent => pump.q.subscribe /\ pump.todo = {}
                      /\ pump.todo \subseteq Covers[pump.q.region]
                      /\ pump.unchanged => pump.todo = {}
                      /\ pump.revision \in DOMAIN rendered

\* What the client believes it is subscribed to, once it is answered; the
\* server gets there with the messages on their way.
Granted == IF pending # None /\ pending.subscribe THEN pending.region ELSE subscribed
Kept == IF sub = None THEN None ELSE sub.region
Wishes ==
    connected => /\ asked = IF queued # None /\ queued.subscribe THEN queued.region ELSE Granted
                 /\ Leads(up, Kept, Granted)

\* What chunk t looks like at resolution l now, and what a picture of
\* revision v has of it at least.
Now(l, t) == IF l \in Fine THEN board[t] ELSE tiles[t]
Floor(l, v, t) ==
    IF v \notin DOMAIN rendered THEN 0
    ELSE IF l \in Fine /\ t \in unrendered THEN board[t] ELSE rendered[v][t]
Floors(l) == [v \in Nat |-> [t \in Tile |-> Floor(l, v, t)]]

\* The chunks S of a picture of revision v are honest.
Shows(l, v, cells, S) ==
    v \in DOMAIN rendered /\ \A t \in S : Floor(l, v, t) <= cells[t] /\ cells[t] <= Now(l, t)
HonestPatch(m) == Shows(m.level, m.revision, m.cells, DOMAIN m.cells)
HonestPatches == (\A i \in Patches : HonestPatch(down[i])) /\ (cast # None => HonestPatch(cast))
HonestAnswers ==
    /\ \A i \in Answers : ~ down[i].unchanged =>
          Shows(Level[down[i].region], down[i].revision, down[i].cells, Covers[down[i].region])
    /\ Busy /\ ~ pump.unchanged =>
          Shows(Level[pump.q.region], pump.revision, pump.cells, Covers[pump.q.region] \ pump.todo)
HonestCopies ==
    \A r \in Region :
        /\ r \notin foreign /\ shown[r].there =>
              Shows(Level[r], shown[r].revision, shown[r].cells, Covers[r])
        /\ ~ shown[r].there => shown[r].cells = Blank /\ r \notin foreign
        /\ \A t \in Tile \ Covers[r] : shown[r].cells[t] = 0

\* The answer under way subscribes: patches behind it are for its region.
Cut == pending # None /\ pending.subscribe /\ Answers # {}
Cast == IF cast = None THEN {} ELSE {cast}
\* The picture that answer s leaves.
Base(s) == IF down[s].unchanged THEN shown[down[s].region].cells ELSE down[s].cells
Lost(s) == down[s].unchanged /\ down[s].region \in foreign

Flows ==
    /\ subscribed # None /\ subscribed \notin foreign =>
          LET c == shown[subscribed]
              F == Floors(Level[subscribed])
          IN IF Cut THEN Flow(down, Front(down), {}, subscribed, c.revision, c.cells, F)
             ELSE Flow(down, Patches, Cast, subscribed, c.revision, c.cells, F)
    /\ Cut => \A s \in Answers : ~ Lost(s) =>
          Flow(down, Rear(down), Cast,
               down[s].region, down[s].revision, Base(s), Floors(Level[down[s].region]))

\* The server sends patches, or will: they lead to the last round.
Serving == sub # None /\ ~ (Subscribing /\ Busy)
UpToDate ==
    Serving =>
      /\ ~ Cut /\ subscribed # None =>
            /\ subscribed = sub.region
            /\ subscribed \notin foreign =>
                  Reaches(Messages(down, Patches) \cup Cast, subscribed, shown[subscribed].revision,
                          shown[subscribed].cells, Floors(Level[subscribed])[revision], sub.pending)
      /\ Cut => \A s \in Answers :
            /\ down[s].region = sub.region
            /\ ~ Lost(s) =>
                  Reaches(Messages(down, Rear(down)) \cup Cast, down[s].region, down[s].revision,
                          Base(s), Floors(Level[down[s].region])[revision], sub.pending)

\* Every patch there is when a subscription begins is older than its picture.
Fresh ==
    Subscribing =>
      /\ \A i \in Patches : down[i].revision <= pump.revision
      /\ cast # None => cast.revision <= pump.revision
      /\ sub.pending # {} => pump.revision < revision
      /\ pump.sent /\ Cut => \A s \in Answers : down[s].revision = pump.revision
      /\ pump.sent /\ ~ Cut /\ subscribed # None /\ subscribed \notin foreign =>
            shown[subscribed].revision >= pump.revision

KnownHonest ==
    \A i \in Asking : up[i].known # 0 =>
        /\ shown[up[i].region].there
        /\ up[i].region \notin foreign => up[i].known <= shown[up[i].region].revision

\* What is read is not older than anything the client has or will get before.
ReadsAhead ==
    Busy => LET r == pump.q.region IN
        IF pump.unchanged
        THEN /\ shown[r].there
             /\ r \notin foreign =>
                  /\ shown[r].revision = pump.revision
                  /\ pump.q.subscribe => \A t \in Covers[r] :
                        Floor(Level[r], revision, t) <= shown[r].cells[t] \/ t \in sub.pending
        ELSE \A t \in Covers[r] \ pump.todo :
                  /\ r \notin foreign => shown[r].cells[t] <= pump.cells[t]
                  /\ pump.q.subscribe =>
                       /\ Floor(Level[r], revision, t) <= pump.cells[t] \/ t \in sub.pending
                       /\ \A m \in Messages(down, Patches) \cup Cast :
                             m.level = Level[r] /\ t \in DOMAIN m.cells => m.cells[t] <= pump.cells[t]
AnswerAhead(s) ==
    LET r == down[s].region IN
    IF down[s].unchanged
    THEN /\ shown[r].there
         /\ r \notin foreign => shown[r].revision = down[s].revision
         /\ Cut => \A i \in Front(down) : down[i].revision <= down[s].revision
    ELSE \A t \in Covers[r] :
             /\ r \notin foreign => shown[r].cells[t] <= down[s].cells[t]
             /\ Cut => \A i \in Front(down) :
                   down[i].level = Level[r] /\ t \in DOMAIN down[i].cells
                       => down[i].cells[t] <= down[s].cells[t]
AnswersAhead == \A s \in Answers : AnswerAhead(s)

Honest == HonestPatches /\ HonestAnswers /\ HonestCopies
Ahead == Fresh /\ KnownHonest /\ ReadsAhead /\ AnswersAhead
IInv == Typed /\ Rounds /\ OneTrip /\ Clients /\ Servers /\ Wishes /\ Honest /\ Flows /\ UpToDate /\ Ahead

-----------------------------------------------------------------------------
(* What the parts of the invariant say about a message, a job, a copy. *)

LEMMA DownType ==
    ASSUME Typed
    PROVE  /\ DOMAIN down = 1 .. Len(down) /\ Len(down) \in Nat
           /\ Patches \subseteq DOMAIN down /\ Answers \subseteq DOMAIN down
           /\ \A i \in Patches : down[i] \in PatchMessage
           /\ \A i \in Answers : down[i] \in SnapshotMessage
           /\ Cast \subseteq PatchMessage
           /\ Messages(down, Patches) \subseteq PatchMessage
           /\ Messages(down, Rear(down)) \subseteq Messages(down, Patches)
           /\ Messages(down, Front(down)) \subseteq Messages(down, Patches)
           /\ Rear(down) \subseteq Patches /\ Front(down) \subseteq Patches
<1>1. down \in Seq(DownMessage)
  BY DEF Typed
<1>2. /\ DOMAIN down = 1 .. Len(down) /\ Len(down) \in Nat
      /\ \A i \in DOMAIN down : down[i] \in PatchMessage \cup SnapshotMessage
  BY <1>1 DEF DownMessage
<1>3. Patches \subseteq DOMAIN down /\ Answers \subseteq DOMAIN down
  BY DEF Patches, PatchesIn, Answers, AnswersIn
<1>4. \A i \in Patches : down[i] \in PatchMessage
  <2>1. \A m \in SnapshotMessage : m.is = "snapshot"
    BY DEF SnapshotMessage
  <2>2. \A i \in Patches : down[i].is # "snapshot"
    BY DEF Patches, PatchesIn
  <2>3. QED
    BY <1>2, <1>3, <2>1, <2>2
<1>5. \A i \in Answers : down[i] \in SnapshotMessage
  <2>1. \A m \in PatchMessage : m.is # "snapshot"
    BY PatchType
  <2>2. \A i \in Answers : down[i].is = "snapshot"
    BY DEF Answers, AnswersIn
  <2>3. QED
    BY <1>2, <1>3, <2>1, <2>2
<1>6. Cast \subseteq PatchMessage
  BY DEF Cast, Typed
<1>7. Rear(down) \subseteq Patches /\ Front(down) \subseteq Patches
  BY DEF Rear, Front, Patches
<1>8. /\ Messages(down, Patches) \subseteq PatchMessage
      /\ Messages(down, Rear(down)) \subseteq Messages(down, Patches)
      /\ Messages(down, Front(down)) \subseteq Messages(down, Patches)
  BY <1>4, <1>7 DEF Messages
<1>9. QED
  BY <1>2, <1>3, <1>4, <1>5, <1>6, <1>7, <1>8

LEMMA FloorType ==
    ASSUME Typed, NEW l
    PROVE  /\ \A v \in Nat, t \in Tile : Floors(l)[v][t] = Floor(l, v, t) /\ Floor(l, v, t) \in Nat
           /\ \A t \in Tile : Now(l, t) \in Nat /\ board[t] \in Nat /\ tiles[t] \in Nat
<1>1. \A t \in Tile : Now(l, t) \in Nat /\ board[t] \in Nat /\ tiles[t] \in Nat
  BY DEF Typed, Now, Pictures
<1>2. \A v \in Nat, t \in Tile : Floor(l, v, t) \in Nat
  BY <1>1 DEF Typed, Floor, Pictures
<1>3. QED
  BY <1>1, <1>2 DEF Floors

LEMMA FloorTypeNext ==
    ASSUME Typed', NEW l
    PROVE  /\ \A v \in Nat, t \in Tile : Floors(l)'[v][t] = Floor(l, v, t)' /\ Floor(l, v, t)' \in Nat
           /\ \A t \in Tile : Now(l, t)' \in Nat /\ board'[t] \in Nat /\ tiles'[t] \in Nat
<1>1. \A t \in Tile : Now(l, t)' \in Nat /\ board'[t] \in Nat /\ tiles'[t] \in Nat
  BY DEF Typed, Now, Pictures
<1>2. \A v \in Nat, t \in Tile : Floor(l, v, t)' \in Nat
  BY <1>1 DEF Typed, Floor, Pictures
<1>3. QED
  BY <1>1, <1>2 DEF Floors

\* Nothing is above what there is now.
LEMMA FloorNow ==
    ASSUME Typed, Rounds, NEW l, NEW v \in DOMAIN rendered, NEW t \in Tile
    PROVE  /\ v \in Nat /\ v <= revision /\ Floor(l, v, t) <= Now(l, t) /\ Now(l, t) <= board[t]
           /\ rendered[v][t] \in Nat /\ rendered[v][t] <= Floor(l, v, t) /\ rendered[v][t] <= board[t]
           /\ Floor(l, revision, t) <= Now(l, t)
<1>1. \A w \in DOMAIN rendered : w \in Nat /\ w <= revision /\ rendered[w][t] \in Nat
  BY DEF Typed, Pictures
<1>2. /\ \A w \in DOMAIN rendered : rendered[w][t] <= tiles[t]
      /\ tiles[t] <= board[t] /\ tiles[t] \in Nat /\ board[t] \in Nat
  BY DEF Typed, Rounds, Below, Pictures
<1>3. revision \in DOMAIN rendered
  BY DEF Typed
<1>4. QED
  BY <1>1, <1>2, <1>3 DEF Floor, Now

-----------------------------------------------------------------------------
(* Steps that let floors fall and the board rise, and no more than that. *)

Eases ==
    /\ DOMAIN rendered \subseteq DOMAIN rendered'
    /\ \A l, v, t : v \in DOMAIN rendered /\ t \in Tile =>
          Floor(l, v, t)' <= Floor(l, v, t) /\ Now(l, t) <= Now(l, t)'

LEMMA ShowsEases ==
    ASSUME Typed, Typed', Eases, NEW l, NEW v, NEW cells, NEW S \in SUBSET Tile,
           \A t \in S : cells[t] \in Nat, Shows(l, v, cells, S)
    PROVE  Shows(l, v, cells, S)'
<1>1. v \in DOMAIN rendered /\ v \in DOMAIN rendered' /\ v \in Nat
  BY DEF Shows, Eases, Typed
<1>2. ASSUME NEW t \in S PROVE Floor(l, v, t)' <= cells[t] /\ cells[t] <= Now(l, t)'
  <2>1. Floor(l, v, t) <= cells[t] /\ cells[t] <= Now(l, t)
    BY DEF Shows
  <2>2. Floor(l, v, t)' <= Floor(l, v, t) /\ Now(l, t) <= Now(l, t)'
    BY <1>1 DEF Eases
  <2>3. Floor(l, v, t) \in Nat /\ Now(l, t) \in Nat
    BY <1>1, FloorType
  <2>4. Floor(l, v, t)' \in Nat /\ Now(l, t)' \in Nat
    BY <1>1, FloorTypeNext
  <2>5. cells[t] \in Nat
    OBVIOUS
  <2>6. QED
    BY <2>1, <2>2, <2>3, <2>4, <2>5
<1>3. QED
  BY <1>1, <1>2 DEF Shows

LEMMA HonestPatchEases ==
    ASSUME Typed, Typed', Eases, NEW m \in PatchMessage, HonestPatch(m)
    PROVE  HonestPatch(m)'
BY PatchType, ShowsEases DEF HonestPatch

LEMMA PatchHonest ==
    ASSUME Typed, HonestPatches, NEW m \in Messages(down, Patches) \cup Cast
    PROVE  HonestPatch(m) /\ m \in PatchMessage /\ m.revision \in DOMAIN rendered
<1>1. HonestPatch(m)
  BY DEF HonestPatches, Messages, Cast
<1>2. QED
  BY <1>1, DownType DEF HonestPatch, Shows

LEMMA FlowEases ==
    ASSUME Typed, Typed', HonestPatches, Eases, NEW I \in SUBSET Patches, NEW K \in SUBSET Cast,
           NEW r \in Region, NEW v, NEW c \in Pictures, NEW d, d = down,
           Flow(d, I, K, r, v, c, Floors(Level[r]))
    PROVE  Flow(d, I, K, r, v, c, Floors(Level[r])')
<1>1. Messages(d, I) \cup K \subseteq Messages(down, Patches) \cup Cast
  BY DEF Messages
<1>2. Messages(d, I) \cup K \subseteq PatchMessage
  BY <1>1, DownType
<1>3. \A t \in Covers[r] : c[t] = c[t] /\ c[t] \in Nat
  BY CoversTiles DEF Pictures
<1>4. ASSUME NEW m \in Messages(d, I) \cup K, NEW t \in Covers[r]
      PROVE  LET F == Floors(Level[r])
                 G == Floors(Level[r])'
             IN F[m.revision][t] \in Int /\ G[m.revision][t] \in Int /\ G[m.revision][t] <= F[m.revision][t]
  <2>1. m.revision \in DOMAIN rendered /\ m.revision \in Nat /\ t \in Tile
    BY <1>1, <1>2, PatchHonest, PatchType, CoversTiles
  <2>2. Floors(Level[r])[m.revision][t] = Floor(Level[r], m.revision, t) /\ Floor(Level[r], m.revision, t) \in Nat
    BY <2>1, FloorType
  <2>3. Floors(Level[r])'[m.revision][t] = Floor(Level[r], m.revision, t)' /\ Floor(Level[r], m.revision, t)' \in Nat
    BY <2>1, FloorTypeNext
  <2>4. QED
    BY <2>1, <2>2, <2>3 DEF Eases
<1>5. QED
  BY <1>2, <1>3, <1>4, FlowFalls

LEMMA ReachesEases ==
    ASSUME Typed, Typed', NEW M \in SUBSET PatchMessage, NEW r \in Region, NEW v, NEW c \in Pictures,
           NEW P, NEW Q, P \subseteq Q,
           \A t \in Covers[r] \ Q : Floor(Level[r], revision, t)' <= Floor(Level[r], revision, t),
           Reaches(M, r, v, c, Floors(Level[r])[revision], P)
    PROVE  Reaches(M, r, v, c, Floors(Level[r])'[revision'], Q)
<1>1. revision \in Nat /\ revision' \in Nat
  BY DEF Typed
<1>2. ASSUME NEW t \in Covers[r]
      PROVE  /\ Floors(Level[r])[revision][t] = Floor(Level[r], revision, t)
             /\ Floor(Level[r], revision, t) \in Nat
             /\ Floors(Level[r])'[revision'][t] = Floor(Level[r], revision, t)'
             /\ Floor(Level[r], revision, t)' \in Nat
  <2>1. t \in Tile
    BY CoversTiles
  <2>2. Floors(Level[r])[revision][t] = Floor(Level[r], revision, t) /\ Floor(Level[r], revision, t) \in Nat
    BY <1>1, <2>1, FloorType
  <2>4. Floors(Level[r])'[revision'][t] = Floor(Level[r], revision, t)' /\ Floor(Level[r], revision, t)' \in Nat
    BY <1>1, <2>1, FloorTypeNext DEF Floors
  <2>5. QED
    BY <2>2, <2>4
<1>3. \A t \in Covers[r] : c[t] = c[t] /\ c[t] \in Nat
  BY CoversTiles DEF Pictures
<1>4. \A t \in Covers[r] \ Q :
         /\ Floors(Level[r])[revision][t] \in Int /\ Floors(Level[r])'[revision'][t] \in Int
         /\ Floors(Level[r])'[revision'][t] <= Floors(Level[r])[revision][t]
  BY <1>2
<1>5. QED
  BY <1>3, <1>4, ReachesFalls

LEMMA HonestEases ==
    ASSUME Typed, Typed', Eases, Honest, UNCHANGED <<down, pump, shown, foreign>>,
           cast' = cast \/ (cast' # None => HonestPatch(cast)')
    PROVE  Honest'
<1>0. Patches' = Patches /\ Answers' = Answers /\ (Busy' <=> Busy)
  BY DEF Patches, Answers, Busy
<1>1. HonestPatches'
  <2>1. \A i \in Patches : HonestPatch(down[i])'
    BY DownType, HonestPatchEases DEF Honest, HonestPatches
  <2>2. cast' # None => HonestPatch(cast)'
    BY HonestPatchEases DEF Honest, HonestPatches, Typed
  <2>3. QED
    BY <1>0, <2>1, <2>2 DEF HonestPatches
<1>2. HonestAnswers'
  <2>1. ASSUME NEW i \in Answers, ~ down[i].unchanged
        PROVE  Shows(Level[down[i].region], down[i].revision, down[i].cells, Covers[down[i].region])'
    <3>1. down[i].region \in Region /\ down[i].cells \in Pictures
      BY DownType DEF SnapshotMessage
    <3>2. Shows(Level[down[i].region], down[i].revision, down[i].cells, Covers[down[i].region])
      BY <2>1 DEF Honest, HonestAnswers
    <3>3. Covers[down[i].region] \subseteq Tile /\ \A u \in Tile : down[i].cells[u] \in Nat
      BY <3>1, CoversTiles DEF Pictures
    <3>4. QED
      BY <3>2, <3>3, ShowsEases
  <2>2. ASSUME Busy, ~ pump.unchanged
        PROVE  Shows(Level[pump.q.region], pump.revision, pump.cells, Covers[pump.q.region] \ pump.todo)'
    <3>1. pump.q.region \in Region /\ pump.cells \in Pictures
      BY <2>2 DEF Busy, Typed, Job, RequestMessage
    <3>2. Shows(Level[pump.q.region], pump.revision, pump.cells, Covers[pump.q.region] \ pump.todo)
      BY <2>2 DEF Honest, HonestAnswers
    <3>3. Covers[pump.q.region] \subseteq Tile /\ \A u \in Tile : pump.cells[u] \in Nat
      BY <3>1, CoversTiles DEF Pictures
    <3>4. QED
      BY <3>2, <3>3, ShowsEases
  <2>3. QED
    BY <1>0, <2>1, <2>2 DEF HonestAnswers
<1>3. HonestCopies'
  <2>1. ASSUME NEW r \in Region, r \notin foreign, shown[r].there
        PROVE  Shows(Level[r], shown[r].revision, shown[r].cells, Covers[r])'
    <3>1. shown[r].cells \in Pictures
      BY DEF Typed, Copy
    <3>2. Shows(Level[r], shown[r].revision, shown[r].cells, Covers[r])
      BY <2>1 DEF Honest, HonestCopies
    <3>3. Covers[r] \subseteq Tile /\ \A u \in Tile : shown[r].cells[u] \in Nat
      BY <3>1, CoversTiles DEF Pictures
    <3>4. QED
      BY <3>2, <3>3, ShowsEases
  <2>2. QED
    BY <2>1 DEF Honest, HonestCopies
<1>4. QED
  BY <1>1, <1>2, <1>3 DEF Honest

LEMMA FlowsEases ==
    ASSUME Typed, Typed', Eases, Honest, Flows, UNCHANGED <<down, subscribed, shown>>
    PROVE  /\ subscribed # None /\ subscribed \notin foreign =>
                LET c == shown[subscribed]
                    F == Floors(Level[subscribed])'
                IN IF Cut THEN Flow(down, Front(down), {}, subscribed, c.revision, c.cells, F)
                   ELSE Flow(down, Patches, Cast, subscribed, c.revision, c.cells, F)
           /\ Cut => \A s \in Answers : ~ Lost(s) =>
                Flow(down, Rear(down), Cast, down[s].region, down[s].revision, Base(s),
                     Floors(Level[down[s].region])')
<1>1. ASSUME subscribed # None, subscribed \notin foreign
      PROVE  LET c == shown[subscribed]
                 F == Floors(Level[subscribed])'
             IN IF Cut THEN Flow(down, Front(down), {}, subscribed, c.revision, c.cells, F)
                ELSE Flow(down, Patches, Cast, subscribed, c.revision, c.cells, F)
  <2>1. subscribed \in Region /\ shown[subscribed].cells \in Pictures
    BY <1>1 DEF Typed, Copy
  <2>2. Front(down) \subseteq Patches
    BY DownType
  <2>3. QED
    BY <1>1, <2>1, <2>2, FlowEases DEF Honest, Flows
<1>2. ASSUME Cut, NEW s \in Answers, ~ Lost(s)
      PROVE  Flow(down, Rear(down), Cast, down[s].region, down[s].revision, Base(s), Floors(Level[down[s].region])')
  <2>1. down[s].region \in Region /\ Base(s) \in Pictures
    BY DownType DEF Base, SnapshotMessage, Typed, Copy
  <2>2. Rear(down) \subseteq Patches
    BY DEF Rear, Patches
  <2>3. QED
    BY <1>2, <2>1, <2>2, FlowEases DEF Honest, Flows
<1>3. QED
  BY <1>1, <1>2

LEMMA ChangeStep ==
    ASSUME IInv, NEW t \in Tile, Change(t)
    PROVE  IInv'
<1>0. Typed /\ Rounds /\ Honest /\ Flows /\ UpToDate /\ Ahead
  BY DEF IInv
<1>1. /\ board' = [board EXCEPT ![t] = @ + 1]
      /\ dirty' = dirty \cup {t} /\ unrendered' = unrendered \ {t}
      /\ UNCHANGED <<saved, tiles, revision, sub, pump, cast, up, down, rendered, foreign>>
      /\ UNCHANGED <<connected, pending, queued, nextId, shown, subscribed, asked, greet>>
  BY DEF Change, client, requests
<1>2. Typed'
  BY <1>0, <1>1 DEF Typed, Pictures
<1>3. board'[t] = board[t] + 1 /\ board[t] \in Nat /\ \A u \in Tile \ {t} : board'[u] = board[u]
  BY <1>0, <1>1 DEF Typed, Pictures
<1>4. \A u \in Tile : board[u] \in Nat /\ board'[u] \in Nat /\ tiles[u] \in Nat /\ board[u] <= board'[u]
  BY <1>0, <1>1, <1>3 DEF Typed, Pictures
<1>5. Rounds'
  <2>1. Below(tiles, board')
    BY <1>0, <1>4 DEF Rounds, Below
  <2>2. saved # None => Below(saved, board')
    BY <1>0, <1>4 DEF Rounds, Below, Typed, Pictures
  <2>3. \A u \in Tile \ (dirty' \cup unrendered') : tiles[u] = board'[u]
    BY <1>0, <1>1, <1>3 DEF Rounds
  <2>4. QED
    BY <1>0, <1>1, <2>1, <2>2, <2>3 DEF Rounds
<1>6. /\ (OneTrip /\ Clients /\ Servers /\ Wishes)'
      /\ Patches' = Patches /\ Answers' = Answers /\ Cast' = Cast /\ (Cut' <=> Cut) /\ (Busy' <=> Busy)
      /\ (Subscribing' <=> Subscribing)
  BY <1>1 DEF IInv, OneTrip, Clients, Servers, Wishes, Asking, Answers, Patches, Busy, Subscribing, Fits,
              Granted, Kept, Cast, Cut
<1>7. Eases
  <2>1. \A l, v, u : v \in DOMAIN rendered /\ u \in Tile =>
           Floor(l, v, u)' <= Floor(l, v, u) /\ Now(l, u) <= Now(l, u)'
    <3> SUFFICES ASSUME NEW l, NEW v \in DOMAIN rendered, NEW u \in Tile
                 PROVE  Floor(l, v, u)' <= Floor(l, v, u) /\ Now(l, u) <= Now(l, u)'
      OBVIOUS
    <3>1. Now(l, u) <= Now(l, u)'
      BY <1>1, <1>4 DEF Now
    <3>2. rendered[v][u] \in Nat /\ rendered[v][u] <= board[u]
      BY <1>0, FloorNow
    <3>3. Floor(l, v, u)' <= Floor(l, v, u)
      BY <1>1, <1>3, <1>4, <3>2 DEF Floor
    <3>4. QED
      BY <3>1, <3>3
  <2>2. QED
    BY <1>1, <2>1 DEF Eases
<1>12. \A r \in Region, u \in Tile : Floor(Level[r], revision, u)' <= Floor(Level[r], revision, u)
  BY <1>0, <1>1, <1>7 DEF Eases, Typed
<1>8. Honest'
  BY <1>0, <1>1, <1>2, <1>7, HonestEases
<1>9. Flows'
  BY <1>0, <1>1, <1>2, <1>6, <1>7, FlowsEases DEF Flows, Base, Lost
<1>10. UpToDate'
  <2>1. ASSUME Serving, ~ Cut, subscribed # None, subscribed \notin foreign
        PROVE  Reaches(Messages(down, Patches) \cup Cast, subscribed, shown[subscribed].revision,
                       shown[subscribed].cells, Floors(Level[subscribed])'[revision'], sub.pending)
    <3>1. subscribed \in Region /\ shown[subscribed].cells \in Pictures
      BY <1>0, <2>1 DEF Typed, Copy
    <3>2. Messages(down, Patches) \cup Cast \subseteq PatchMessage
      BY <1>0, DownType
    <3>3. QED
      BY <1>0, <1>1, <1>2, <1>12, <2>1, <3>1, <3>2, CoversTiles, ReachesEases DEF UpToDate
  <2>2. ASSUME Serving, Cut, NEW s \in Answers, ~ Lost(s)
        PROVE  Reaches(Messages(down, Rear(down)) \cup Cast, down[s].region, down[s].revision,
                       Base(s), Floors(Level[down[s].region])'[revision'], sub.pending)
    <3>1. down[s].region \in Region /\ Base(s) \in Pictures
      BY <1>0, DownType DEF Base, SnapshotMessage, Typed, Copy
    <3>2. Messages(down, Rear(down)) \cup Cast \subseteq PatchMessage
      BY <1>0, DownType
    <3>3. QED
      BY <1>0, <1>1, <1>2, <1>12, <2>2, <3>1, <3>2, CoversTiles, ReachesEases DEF UpToDate
  <2>3. QED
    BY <1>0, <1>1, <1>6, <2>1, <2>2 DEF UpToDate, Base, Lost, Serving
<1>11. Ahead'
  <2>1. Fresh' /\ KnownHonest' /\ AnswersAhead'
    BY <1>0, <1>1, <1>6 DEF Ahead, Fresh, KnownHonest, AnswersAhead, AnswerAhead, Asking
  <2>2. ReadsAhead'
    <3> SUFFICES ASSUME Busy PROVE ReadsAhead'
      BY <1>6 DEF ReadsAhead
    <3> DEFINE r == pump.q.region
    <3>1. r \in Region /\ pump.cells \in Pictures /\ shown[r].cells \in Pictures /\ Covers[r] \subseteq Tile
      BY <1>0, CoversTiles DEF Busy, Typed, Job, RequestMessage, Copy
    <3>2. \A u \in Covers[r] : /\ Floor(Level[r], revision, u)' <= Floor(Level[r], revision, u)
                               /\ Floor(Level[r], revision, u) \in Nat /\ Floor(Level[r], revision, u)' \in Nat
                               /\ pump.cells[u] \in Nat /\ shown[r].cells[u] \in Nat
      BY <1>0, <1>1, <1>2, <1>12, <3>1, FloorType, FloorTypeNext DEF Typed, Pictures
    <3>3. CASE pump.unchanged
      BY <1>0, <1>1, <1>6, <3>2, <3>3 DEF Ahead, ReadsAhead
    <3>4. CASE ~ pump.unchanged
      BY <1>0, <1>1, <1>6, <3>2, <3>4 DEF Ahead, ReadsAhead
    <3>5. QED
      BY <3>3, <3>4
  <2>3. QED
    BY <2>1, <2>2 DEF Ahead
<1>20. QED
  BY <1>2, <1>5, <1>6, <1>8, <1>9, <1>10, <1>11 DEF IInv

LEMMA PatchBuilt ==
    ASSUME NEW r \in Region, NEW S \in SUBSET Tile, NEW cells \in [S -> Nat], NEW v \in Nat
    PROVE  /\ S = {} => Patch(r, cells, v) = None
           /\ S # {} => LET m == Patch(r, cells, v) IN
                  /\ m \in PatchMessage /\ m # None
                  /\ m.is = "patch" /\ m.level = Level[r] /\ m.revision = v /\ m.cells = cells /\ DOMAIN m.cells = S
<1>1. DOMAIN cells = S
  OBVIOUS
<1>2. S = {} => Patch(r, cells, v) = None
  BY <1>1 DEF Patch
<1> DEFINE m == [is |-> "patch", level |-> Level[r], revision |-> v, cells |-> cells]
<1>3. S # {} => Patch(r, cells, v) = m
  BY <1>1 DEF Patch
<1>4. m \in PatchOf(S)
  BY DEF PatchOf
<1>5. m \in PatchMessage /\ m # None
  BY <1>4, NoneAssumption DEF PatchMessage
<1>6. QED
  BY <1>1, <1>2, <1>3, <1>5

\* A newer patch that shows f brings the copy to f.
LEMMA ReachesAdd ==
    ASSUME NEW M, NEW m, NEW r, NEW v, NEW c, NEW f, NEW P,
           Reaches(M, r, v, c, f, P \cup DOMAIN m.cells), m.revision > v,
           \A t \in DOMAIN m.cells : f[t] <= m.cells[t]
    PROVE  Reaches(M \cup {m}, r, v, c, f, P)
BY DEF Reaches, Live

\* What answer s leaves is honest.
LEMMA BaseHonest ==
    ASSUME Typed, Honest, Ahead, NEW s \in Answers
    PROVE  /\ down[s].region \in Region /\ Base(s) \in Pictures /\ down[s].revision \in Nat
           /\ ~ Lost(s) => Shows(Level[down[s].region], down[s].revision, Base(s), Covers[down[s].region])
<1>1. down[s] \in SnapshotMessage /\ down[s].region \in Region /\ down[s].revision \in Nat
  BY DownType DEF SnapshotMessage
<1>2. CASE down[s].unchanged
  <2>1. Base(s) = shown[down[s].region].cells /\ shown[down[s].region] \in Copy
    BY <1>1, <1>2 DEF Base, Typed
  <2>2. ~ Lost(s) => shown[down[s].region].there /\ shown[down[s].region].revision = down[s].revision
    BY <1>2 DEF Lost, Ahead, AnswersAhead, AnswerAhead
  <2>3. QED
    BY <1>1, <1>2, <2>1, <2>2 DEF Honest, HonestCopies, Lost, Copy
<1>3. CASE ~ down[s].unchanged
  BY <1>1, <1>3 DEF Base, Honest, HonestAnswers, SnapshotMessage
<1>4. QED
  BY <1>2, <1>3

LEMMA ShownHonest ==
    ASSUME Typed, Honest, Clients, subscribed # None
    PROVE  /\ subscribed \in Region /\ shown[subscribed].cells \in Pictures /\ shown[subscribed].revision \in Nat
           /\ shown[subscribed].there
           /\ subscribed \notin foreign =>
                Shows(Level[subscribed], shown[subscribed].revision, shown[subscribed].cells, Covers[subscribed])
<1>1. subscribed \in Region /\ shown[subscribed] \in Copy /\ shown[subscribed].there
  BY DEF Typed, Clients
<1>2. QED
  BY <1>1 DEF Honest, HonestCopies, Copy

\* A round adds a patch to a stream that has reached the round before.
LEMMA RoundAdds ==
    ASSUME Typed, Typed', Rounds, Honest, Eases, UNCHANGED <<board, unrendered>>,
           NEW m \in PatchMessage, NEW r \in Region, NEW v \in Nat, NEW c \in Pictures, NEW I \in SUBSET Patches,
           NEW d, d = down,
           revision' \in DOMAIN rendered' \ DOMAIN rendered,
           m.level = Level[r], m.revision = revision', DOMAIN m.cells \subseteq Covers[r],
           \A t \in DOMAIN m.cells : m.cells[t] = board[t] /\ Floor(Level[r], revision, t)' = board[t],
           \A t \in Covers[r] \ DOMAIN m.cells : Floor(Level[r], revision, t)' <= Floor(Level[r], revision, t),
           \A w \in DOMAIN rendered : w < revision',
           Shows(Level[r], v, c, Covers[r]),
           Flow(d, I, {}, r, v, c, Floors(Level[r])),
           Reaches(Messages(d, I), r, v, c, Floors(Level[r])[revision], {})
    PROVE  /\ Flow(d, I, {m}, r, v, c, Floors(Level[r])')
           /\ Reaches(Messages(d, I) \cup {m}, r, v, c, Floors(Level[r])'[revision'], {})
<1> DEFINE G == Floors(Level[r])'
           M == Messages(d, I)
<1>1. M \subseteq Messages(down, Patches) \cup Cast
  BY DEF Messages
<1>2. M \subseteq PatchMessage
  BY DownType DEF Messages
<1>3. Flow(d, I, {}, r, v, c, G)
  <2>1. {} \in SUBSET Cast
    OBVIOUS
  <2>2. HonestPatches
    BY DEF Honest
  <2>3. QED
    BY <2>1, <2>2, FlowEases
<1>4. \A n \in M : n.revision < m.revision
  BY <1>1, PatchHonest DEF Honest
<1>5. v < m.revision
  BY DEF Shows
<1>6. \A t \in DOMAIN m.cells : t \in Tile /\ G[m.revision][t] = board[t] /\ board[t] \in Nat
  BY CoversTiles, FloorTypeNext, FloorType DEF Typed, Floors
<1>7. Reaches(M, r, v, c, G[m.revision], DOMAIN m.cells)
  BY <1>2, ReachesEases
<1>8. ASSUME NEW t \in DOMAIN m.cells
      PROVE  /\ G[m.revision][t] <= m.cells[t] /\ c[t] <= m.cells[t]
             /\ \A n \in M : n.level = Level[r] /\ t \in DOMAIN n.cells => n.cells[t] <= m.cells[t]
  <2>1. t \in Tile /\ t \in Covers[r] /\ m.cells[t] = board[t] /\ board[t] \in Nat
    BY <1>6
  <2>2. Now(Level[r], t) <= board[t] /\ Now(Level[r], t) \in Nat
    BY <2>1, FloorType, FloorNow DEF Typed
  <2>3. c[t] <= Now(Level[r], t) /\ c[t] \in Nat
    BY <2>1 DEF Shows, Pictures
  <2>4. ASSUME NEW n \in M, n.level = Level[r], t \in DOMAIN n.cells PROVE n.cells[t] <= m.cells[t]
    <3>1. n.cells[t] <= Now(Level[r], t)
      BY <1>1, <2>4, PatchHonest DEF Honest, HonestPatch, Shows
    <3>2. n.cells[t] \in Nat
      BY <1>2, <2>4, PatchType
    <3>3. QED
      BY <2>1, <2>2, <3>1, <3>2
  <2>5. QED
    BY <1>6, <2>1, <2>2, <2>3, <2>4
<1>9. Flow(d, I, {m}, r, v, c, G)
  BY <1>2, <1>3, <1>4, <1>7, <1>8, FlowBuild
<1>10. Reaches(M \cup {m}, r, v, c, G[m.revision], {})
  <2>1. {} \cup DOMAIN m.cells = DOMAIN m.cells
    OBVIOUS
  <2>2. m.revision > v
    BY <1>5
  <2>3. QED
    BY <1>7, <1>8, <2>1, <2>2, ReachesAdd
<1>11. QED
  BY <1>9, <1>10

LEMMA BroadcastStep ==
    ASSUME IInv, Broadcast
    PROVE  IInv'
<1>0. Typed /\ Rounds /\ Clients /\ Servers /\ Honest /\ Flows /\ UpToDate /\ Ahead
  BY DEF IInv
<1>1. /\ dirty # {} /\ cast = None
      /\ dirty' = {} /\ revision' = revision + 1
      /\ tiles' = [t \in Tile |-> IF t \in dirty THEN board[t] ELSE tiles[t]]
      /\ rendered' = [v \in DOMAIN rendered \cup {revision + 1} |->
                      IF v = revision + 1 THEN tiles' ELSE rendered[v]]
      /\ UNCHANGED <<board, saved, pump, up, down, foreign, unrendered>>
      /\ UNCHANGED <<connected, pending, queued, nextId, shown, subscribed, asked, greet>>
  BY DEF Broadcast, client, requests
<1> DEFINE S == dirty \cap Covers[sub.region]
           cells == [t \in S |-> board[t]]
           m == Patch(sub.region, cells, revision + 1)
<1>2. \/ sub = None /\ UNCHANGED <<sub, cast>>
      \/ sub # None /\ ~ sub.ready /\ sub' = [sub EXCEPT !.pending = @ \cup S] /\ UNCHANGED cast
      \/ sub # None /\ sub.ready /\ cast' = m /\ UNCHANGED sub
  BY DEF Broadcast, Collected
<1>3. /\ sub # None => sub \in Subscription /\ sub.region \in Region /\ Covers[sub.region] \subseteq Tile
      /\ board \in Pictures /\ dirty \subseteq Tile /\ revision \in Nat
  BY <1>0, CoversTiles DEF Typed, Subscription
<1>4. sub # None => /\ S = {} => m = None
                    /\ S # {} => /\ m \in PatchMessage /\ m # None
                                 /\ m.level = Level[sub.region] /\ m.revision = revision + 1
                                 /\ m.cells = cells /\ DOMAIN m.cells = S
  <2> SUFFICES ASSUME sub # None
               PROVE  /\ S = {} => m = None
                      /\ S # {} => /\ m \in PatchMessage /\ m # None
                                 /\ m.level = Level[sub.region] /\ m.revision = revision + 1
                                 /\ m.cells = cells /\ DOMAIN m.cells = S
    OBVIOUS
  <2>1. cells \in [S -> Nat] /\ S \in SUBSET Tile /\ revision + 1 \in Nat
    BY <1>3 DEF Pictures
  <2>2. QED
    BY <1>3, <2>1, PatchBuilt
<1> HIDE DEF m
<1>5. /\ sub' \in Subscription \cup {None} /\ cast' \in PatchMessage \cup {None}
      /\ sub # None => sub' # None /\ sub'.region = sub.region /\ sub'.ready = sub.ready
      /\ sub = None <=> sub' = None
  <2>1. CASE sub # None /\ ~ sub.ready
    <3>1. sub' = [sub EXCEPT !.pending = @ \cup S] /\ cast' = cast
      BY <1>2, <2>1
    <3>2. sub' \in Subscription /\ sub'.region = sub.region /\ sub'.ready = sub.ready
      BY <1>3, <2>1, <3>1 DEF Subscription
    <3>3. sub' # None
      BY <3>2, NoneAssumption
    <3>4. QED
      BY <1>0, <2>1, <3>1, <3>2, <3>3 DEF Typed
  <2>2. CASE sub = None
    BY <1>0, <1>2, <2>2 DEF Typed
  <2>3. CASE sub # None /\ sub.ready
    BY <1>0, <1>2, <1>4, <2>3 DEF Typed
  <2>4. QED
    BY <2>1, <2>2, <2>3
<1>6. /\ tiles' \in Pictures
      /\ \A t \in dirty : tiles'[t] = board[t]
      /\ \A t \in Tile \ dirty : tiles'[t] = tiles[t]
      /\ DOMAIN rendered' = DOMAIN rendered \cup {revision'}
      /\ revision' \notin DOMAIN rendered /\ \A v \in DOMAIN rendered : v \in Nat /\ v < revision'
      /\ rendered'[revision'] = tiles' /\ \A v \in DOMAIN rendered : rendered'[v] = rendered[v]
  <2>1. \A v \in DOMAIN rendered : v \in Nat /\ v <= revision
    BY <1>0 DEF Typed
  <2>2. QED
    BY <1>0, <1>1, <1>3, <2>1 DEF Typed, Pictures
<1>7. Typed'
  <2>1. DOMAIN rendered' \subseteq 0 .. revision' /\ revision' \in DOMAIN rendered' /\ revision' \in Nat
    BY <1>1, <1>3, <1>6
  <2>2. \A v \in DOMAIN rendered' : rendered'[v] \in Pictures
    BY <1>0, <1>6 DEF Typed
  <2>3. QED
    BY <1>0, <1>1, <1>5, <1>6, <2>1, <2>2 DEF Typed
<1>8. \A t \in Tile : board[t] \in Nat /\ tiles[t] \in Nat /\ tiles[t] <= board[t] /\ tiles[t] <= tiles'[t] /\ tiles'[t] <= board[t]
  <2> SUFFICES ASSUME NEW t \in Tile
               PROVE  board[t] \in Nat /\ tiles[t] \in Nat /\ tiles[t] <= board[t] /\ tiles[t] <= tiles'[t] /\ tiles'[t] <= board[t]
    OBVIOUS
  <2>1. board[t] \in Nat /\ tiles[t] \in Nat /\ tiles[t] <= board[t]
    BY <1>0 DEF Typed, Rounds, Below, Pictures
  <2>2. tiles'[t] = board[t] \/ tiles'[t] = tiles[t]
    BY <1>6
  <2>3. QED
    BY <2>1, <2>2
<1>9. Rounds'
  <2>1. Below(tiles', board)
    BY <1>8 DEF Below
  <2>2. \A v \in DOMAIN rendered' : Below(rendered'[v], tiles')
    <3> SUFFICES ASSUME NEW v \in DOMAIN rendered', NEW t \in Tile PROVE rendered'[v][t] <= tiles'[t]
      BY DEF Below
    <3>1. CASE v = revision'
      BY <1>6, <1>8, <3>1 DEF Pictures
    <3>2. CASE v # revision'
      <4>1. v \in DOMAIN rendered /\ rendered'[v] = rendered[v]
        BY <1>6, <3>2
      <4>2. rendered[v][t] \in Nat /\ rendered[v][t] <= tiles[t]
        BY <1>0, <4>1 DEF Typed, Pictures, Rounds, Below
      <4>3. tiles'[t] \in Nat
        BY <1>6 DEF Pictures
      <4>4. QED
        BY <1>8, <4>1, <4>2, <4>3
    <3>3. QED
      BY <3>1, <3>2
  <2>3. \A t \in Tile \ (dirty' \cup unrendered') : tiles'[t] = board[t]
    BY <1>0, <1>1, <1>6 DEF Rounds
  <2>4. QED
    BY <1>0, <1>1, <1>6, <2>1, <2>2, <2>3 DEF Rounds
<1>10. Patches' = Patches /\ Answers' = Answers /\ (Busy' <=> Busy) /\ (Subscribing' <=> Subscribing) /\ (Cut' <=> Cut)
  BY <1>1 DEF Patches, Answers, Busy, Subscribing, Cut
<1>11. (OneTrip /\ Clients /\ Servers /\ Wishes)'
  <2>1. OneTrip'
    BY <1>1, <1>10 DEF IInv, OneTrip, Asking, Fits
  <2>2. Clients'
    BY <1>0, <1>1, <1>2 DEF Clients
  <2>3. Servers'
    <3>1. sub' # None => sub'.pending \subseteq Covers[sub'.region] /\ (sub'.ready => sub'.pending = {})
      <4>1. CASE sub # None /\ ~ sub.ready
        <5>1. sub'.pending = sub.pending \cup S
          BY <1>2, <1>3, <4>1 DEF Subscription
        <5>2. QED
          BY <1>0, <1>5, <4>1, <5>1 DEF Servers
      <4>2. CASE ~ (sub # None /\ ~ sub.ready)
        BY <1>0, <1>2, <4>2 DEF Servers
      <4>3. QED
        BY <4>1, <4>2
    <3>2. QED
      BY <1>0, <1>1, <1>5, <1>6, <1>10, <3>1 DEF Servers
  <2>4. Wishes'
    BY <1>1, <1>5 DEF IInv, Wishes, Granted, Kept
  <2>5. QED
    BY <2>1, <2>2, <2>3, <2>4
\* The round raises the floor of the chunks it renders to the board, and no other.
<1>12. \A l, t : t \in Tile => /\ t \in dirty => Floor(l, revision, t)' = board[t]
                               /\ t \notin dirty => Floor(l, revision, t)' = Floor(l, revision, t)
  <2>1. revision \in DOMAIN rendered /\ revision' \in DOMAIN rendered' /\ rendered[revision] = tiles
    BY <1>0, <1>6 DEF Typed, Rounds
  <2>2. QED
    BY <1>0, <1>1, <1>6, <2>1 DEF Floor, Rounds
<1>20. \A l, t : t \in Tile /\ t \notin dirty => Floor(l, revision, t)' <= Floor(l, revision, t)
  <2> SUFFICES ASSUME NEW l, NEW t \in Tile, t \notin dirty PROVE Floor(l, revision, t)' <= Floor(l, revision, t)
    OBVIOUS
  <2>1. Floor(l, revision, t) \in Nat
    BY <1>0, <1>3, FloorType
  <2>2. QED
    BY <1>12, <2>1
<1>13. Eases
  <2> SUFFICES ASSUME NEW l, NEW v \in DOMAIN rendered, NEW t \in Tile
               PROVE  Floor(l, v, t)' <= Floor(l, v, t) /\ Now(l, t) <= Now(l, t)'
    BY <1>6 DEF Eases
  <2>1. Floor(l, v, t)' = Floor(l, v, t) /\ Floor(l, v, t) \in Nat
    BY <1>0, <1>1, <1>6, FloorType DEF Floor
  <2>2. Now(l, t) <= Now(l, t)'
    BY <1>1, <1>8 DEF Now
  <2>3. QED
    BY <2>1, <2>2
<1>14. Honest'
  <2>1. cast' = cast \/ (cast' # None => HonestPatch(cast)')
    <3> SUFFICES ASSUME sub # None, sub.ready, cast' # None, cast' = m, S # {}
                 PROVE  HonestPatch(cast)'
      BY <1>2, <1>4
    <3>1. /\ cast'.level = Level[sub.region] /\ cast'.revision = revision' /\ DOMAIN cast'.cells = S
          /\ \A t \in S : t \in Tile /\ t \in dirty /\ cast'.cells[t] = board[t]
      BY <1>1, <1>3, <1>4
    <3>2. \A l : \A t \in S : Floor(l, revision, t)' = board[t]
      BY <1>12, <3>1
    <3>3. \A l : \A t \in S : Now(l, t)' = board[t]
      BY <1>1, <1>6, <3>1 DEF Now
    <3>4. revision' \in DOMAIN rendered'
      BY <1>6
    <3>5. \A l, w, e, D : w = revision' /\ D = S /\ (\A t \in S : e[t] = board[t]) => Shows(l, w, e, D)'
      BY <1>1, <1>8, <3>1, <3>2, <3>3, <3>4 DEF Shows
    <3>6. QED
      BY <3>1, <3>5 DEF HonestPatch
  <2>2. QED
    BY <1>0, <1>1, <1>7, <1>13, <2>1, HonestEases
<1>15. Cast = {} /\ (Serving' <=> Serving) /\ \A s \in Answers : (Lost(s)' <=> Lost(s)) /\ Base(s)' = Base(s)
  BY <1>1, <1>5, <1>10 DEF Cast, Serving, Lost, Base
<1>16. Flows' /\ UpToDate'
  <2>1. CASE sub # None /\ sub.ready /\ S # {}
    <3>1. Serving /\ sub.pending = {} /\ sub' = sub
      BY <1>0, <1>2, <2>1 DEF Serving, Servers
    <3>2. /\ m \in PatchMessage /\ m.level = Level[sub.region] /\ m.revision = revision'
          /\ DOMAIN m.cells = S /\ DOMAIN m.cells \subseteq Covers[sub.region]
          /\ \A t \in DOMAIN m.cells : m.cells[t] = board[t] /\ t \in dirty /\ t \in Tile
          /\ \A t \in Covers[sub.region] \ DOMAIN m.cells : t \in Tile /\ t \notin dirty
          /\ Cast' = {m}
      BY <1>1, <1>2, <1>3, <1>4, <2>1 DEF Cast
    <3>3. \A l : /\ \A t \in DOMAIN m.cells : Floor(l, revision, t)' = board[t]
                 /\ \A t \in Covers[sub.region] \ DOMAIN m.cells : Floor(l, revision, t)' <= Floor(l, revision, t)
      BY <1>12, <1>20, <3>2
    <3>4. ASSUME NEW r \in Region, r = sub.region, NEW v \in Nat, NEW c \in Pictures, NEW I \in SUBSET Patches,
                 NEW d, d = down, Shows(Level[r], v, c, Covers[r]),
                 Flow(d, I, {}, r, v, c, Floors(Level[r])),
                 Reaches(Messages(d, I), r, v, c, Floors(Level[r])[revision], {})
          PROVE  /\ Flow(d, I, {m}, r, v, c, Floors(Level[r])')
                 /\ Reaches(Messages(d, I) \cup {m}, r, v, c, Floors(Level[r])'[revision'], {})
      <4>1. Typed /\ Typed' /\ Rounds /\ Honest /\ Eases /\ UNCHANGED <<board, unrendered>>
        BY <1>0, <1>1, <1>7, <1>13
      <4>2. revision' \in DOMAIN rendered' \ DOMAIN rendered /\ \A w \in DOMAIN rendered : w < revision'
        BY <1>6
      <4>3. m \in PatchMessage /\ m.level = Level[r] /\ m.revision = revision' /\ DOMAIN m.cells \subseteq Covers[r]
        BY <3>2, <3>4
      <4>4. \A t \in DOMAIN m.cells : m.cells[t] = board[t] /\ Floor(Level[r], revision, t)' = board[t]
        BY <3>2, <3>3
      <4>5. \A t \in Covers[r] \ DOMAIN m.cells : Floor(Level[r], revision, t)' <= Floor(Level[r], revision, t)
        BY <3>3, <3>4
      <4>6. QED
        BY <3>4, <4>1, <4>2, <4>3, <4>4, <4>5, RoundAdds
    <3>5. ASSUME ~ Cut, subscribed # None
          PROVE  /\ subscribed = sub.region
                 /\ subscribed \notin foreign =>
                      /\ Flow(down, Patches, {m}, subscribed, shown[subscribed].revision, shown[subscribed].cells,
                              Floors(Level[subscribed])')
                      /\ Reaches(Messages(down, Patches) \cup {m}, subscribed, shown[subscribed].revision,
                                 shown[subscribed].cells, Floors(Level[subscribed])'[revision'], {})
      <4>1. subscribed = sub.region
        BY <1>0, <3>1, <3>5 DEF UpToDate
      <4>2. ASSUME subscribed \notin foreign
            PROVE  /\ Flow(down, Patches, {}, subscribed, shown[subscribed].revision, shown[subscribed].cells,
                           Floors(Level[subscribed]))
                   /\ Reaches(Messages(down, Patches) \cup {}, subscribed, shown[subscribed].revision,
                              shown[subscribed].cells, Floors(Level[subscribed])[revision], {})
        BY <1>0, <1>15, <3>1, <3>5, <4>2 DEF Flows, UpToDate
      <4>3. Messages(down, Patches) \cup {} = Messages(down, Patches)
        OBVIOUS
      <4>4. QED
        BY <1>0, <1>1, <3>4, <3>5, <4>1, <4>2, <4>3, ShownHonest
    <3>6. ASSUME Cut, subscribed # None, subscribed \notin foreign
          PROVE  Flow(down, Front(down), {}, subscribed, shown[subscribed].revision, shown[subscribed].cells,
                      Floors(Level[subscribed])')
      BY <1>0, <1>1, <1>7, <1>13, <3>6, FlowsEases
    <3>7. ASSUME Cut, NEW s \in Answers
          PROVE  /\ down[s].region = sub.region
                 /\ ~ Lost(s) =>
                      /\ Flow(down, Rear(down), {m}, down[s].region, down[s].revision, Base(s),
                              Floors(Level[down[s].region])')
                      /\ Reaches(Messages(down, Rear(down)) \cup {m}, down[s].region, down[s].revision,
                                 Base(s), Floors(Level[down[s].region])'[revision'], {})
      <4>1. down[s].region = sub.region
        BY <1>0, <3>1, <3>7 DEF UpToDate
      <4>2. ASSUME ~ Lost(s)
            PROVE  /\ Flow(down, Rear(down), {}, down[s].region, down[s].revision, Base(s),
                           Floors(Level[down[s].region]))
                   /\ Reaches(Messages(down, Rear(down)) \cup {}, down[s].region, down[s].revision,
                              Base(s), Floors(Level[down[s].region])[revision], {})
        BY <1>0, <1>15, <3>1, <3>7, <4>2 DEF Flows, UpToDate
      <4>3. Messages(down, Rear(down)) \cup {} = Messages(down, Rear(down))
        OBVIOUS
      <4>4. Rear(down) \subseteq Patches
        BY <1>0, DownType
      <4>5. QED
        BY <1>0, <1>1, <3>4, <4>1, <4>2, <4>3, <4>4, BaseHonest
    <3>8. Flows'
      BY <1>1, <1>10, <1>15, <3>2, <3>5, <3>6, <3>7 DEF Flows
    <3>9. UpToDate'
      BY <1>1, <1>10, <1>15, <3>1, <3>2, <3>5, <3>7 DEF UpToDate
    <3>10. QED
      BY <3>8, <3>9
  <2>2. CASE ~ (sub # None /\ sub.ready /\ S # {})
    <3>1. cast' = None /\ Cast' = {}
      BY <1>1, <1>2, <1>4, <2>2 DEF Cast
    <3>2. Flows'
      BY <1>0, <1>1, <1>7, <1>10, <1>13, <1>15, <3>1, FlowsEases DEF Flows
    <3>3. ASSUME sub # None
          PROVE  /\ sub.pending \subseteq sub'.pending
                 /\ \A l : \A t \in Covers[sub.region] \ sub'.pending : Floor(l, revision, t)' <= Floor(l, revision, t)
      <4>1. sub.pending \subseteq sub'.pending /\ \A t \in Covers[sub.region] \ sub'.pending : t \notin dirty
        <5>1. CASE sub.ready
          BY <1>2, <2>2, <3>3, <5>1
        <5>2. CASE ~ sub.ready
          BY <1>2, <1>3, <3>3, <5>2 DEF Subscription
        <5>3. QED
          BY <5>1, <5>2
      <4>2. QED
        BY <1>3, <1>20, <3>3, <4>1
    <3>4. ASSUME Serving, ~ Cut, subscribed # None
          PROVE  /\ subscribed = sub'.region
                 /\ subscribed \notin foreign =>
                      Reaches(Messages(down, Patches) \cup {}, subscribed, shown[subscribed].revision,
                              shown[subscribed].cells, Floors(Level[subscribed])'[revision'], sub'.pending)
      <4>1. sub # None /\ subscribed = sub.region
        BY <1>0, <3>4 DEF UpToDate, Serving
      <4>2. Messages(down, Patches) \cup {} \subseteq PatchMessage
        BY <1>0, DownType
      <4>3. subscribed \notin foreign =>
              Reaches(Messages(down, Patches) \cup {}, subscribed, shown[subscribed].revision,
                      shown[subscribed].cells, Floors(Level[subscribed])[revision], sub.pending)
        BY <1>0, <1>15, <3>4 DEF UpToDate
      <4>4. QED
        BY <1>0, <1>1, <1>5, <1>7, <3>3, <3>4, <4>1, <4>2, <4>3, ShownHonest, ReachesEases
    <3>5. ASSUME Serving, Cut, NEW s \in Answers
          PROVE  /\ down[s].region = sub'.region
                 /\ ~ Lost(s) =>
                      Reaches(Messages(down, Rear(down)) \cup {}, down[s].region, down[s].revision,
                              Base(s), Floors(Level[down[s].region])'[revision'], sub'.pending)
      <4>1. sub # None /\ down[s].region = sub.region
        BY <1>0, <3>5 DEF UpToDate, Serving
      <4>2. Messages(down, Rear(down)) \cup {} \subseteq PatchMessage
        BY <1>0, DownType
      <4>3. ~ Lost(s) =>
              Reaches(Messages(down, Rear(down)) \cup {}, down[s].region, down[s].revision,
                      Base(s), Floors(Level[down[s].region])[revision], sub.pending)
        BY <1>0, <1>15, <3>5 DEF UpToDate
      <4>4. QED
        BY <1>0, <1>1, <1>5, <1>7, <3>3, <3>5, <4>1, <4>2, <4>3, BaseHonest, ReachesEases
    <3>6. UpToDate'
      BY <1>1, <1>10, <1>15, <3>1, <3>4, <3>5 DEF UpToDate
    <3>7. QED
      BY <3>2, <3>6
  <2>3. QED
    BY <2>1, <2>2
<1>17. Subscribing => sub # None /\ ~ sub.ready /\ cast' = None /\ cast = None /\ sub'.pending = sub.pending \cup S
  BY <1>0, <1>1, <1>2, <1>3 DEF Servers, Subscription
<1>18. Ahead'
  <2>1. Fresh'
    BY <1>0, <1>1, <1>6, <1>10, <1>17 DEF Ahead, Fresh, Servers, Subscribing
  <2>2. KnownHonest' /\ AnswersAhead'
    BY <1>0, <1>1, <1>10 DEF Ahead, KnownHonest, AnswersAhead, AnswerAhead, Asking
  <2>3. ReadsAhead'
    <3> SUFFICES ASSUME Busy PROVE ReadsAhead'
      BY <1>10 DEF ReadsAhead
    <3> DEFINE r == pump.q.region
    <3>1. r \in Region /\ Covers[r] \subseteq Tile
      BY <1>0, CoversTiles DEF Busy, Typed, Job, RequestMessage
    <3>2. pump.q.subscribe =>
             \A t \in Covers[r] : \/ Floor(Level[r], revision, t)' = Floor(Level[r], revision, t)
                                 \/ t \in sub'.pending
      BY <1>0, <1>1, <1>12, <1>17, <3>1 DEF Busy, Subscribing, Servers
    <3>3. Messages(down, Patches)' = Messages(down, Patches) /\ (pump.q.subscribe => Cast' = {} /\ Cast = {})
      BY <1>1, <1>10, <1>17 DEF Messages, Cast, Busy, Subscribing
    <3>4. CASE pump.unchanged
      BY <1>0, <1>1, <1>10, <1>17, <3>2, <3>4 DEF Ahead, ReadsAhead, Busy, Subscribing
    <3>5. CASE ~ pump.unchanged
      BY <1>0, <1>1, <1>10, <1>17, <3>2, <3>3, <3>5 DEF Ahead, ReadsAhead, Busy, Subscribing
    <3>6. QED
      BY <3>4, <3>5
  <2>4. QED
    BY <2>1, <2>2, <2>3 DEF Ahead
<1>19. QED
  BY <1>7, <1>9, <1>11, <1>14, <1>16, <1>18 DEF IInv

-----------------------------------------------------------------------------
(* Steps that leave the board and its pictures alone. *)

LEMMA SameFloors ==
    ASSUME UNCHANGED <<board, tiles, rendered, unrendered>>
    PROVE  /\ \A l : Floors(l)' = Floors(l)
           /\ \A l, v, t : Floor(l, v, t)' = Floor(l, v, t) /\ Now(l, t)' = Now(l, t)
           /\ \A l, v, cells, S : Shows(l, v, cells, S)' <=> Shows(l, v, cells, S)
           /\ \A m : HonestPatch(m)' <=> HonestPatch(m)
BY DEF Floors, Floor, Now, Shows, HonestPatch

LEMMA SentPatch ==
    ASSUME Typed, NEW m \in PatchMessage, down' = Append(down, m)
    PROVE  LET n == Len(down) + 1 IN
           /\ down' \in Seq(DownMessage) /\ Patches' = Patches \cup {n} /\ Answers' = Answers
           /\ n \notin DOMAIN down /\ down'[n] = m /\ \A i \in DOMAIN down : down'[i] = down[i]
           /\ Messages(down', Patches') = Messages(down, Patches) \cup {m}
           /\ Answers # {} => /\ Front(down') = Front(down) /\ Rear(down') = Rear(down) \cup {n}
                              /\ Messages(down', Rear(down')) = Messages(down, Rear(down)) \cup {m}
<1> DEFINE n == Len(down) + 1
<1>1. down \in Seq(DownMessage) /\ m \in DownMessage /\ m.is = "patch"
  BY PatchType DEF Typed, DownMessage
<1>2. /\ down' \in Seq(DownMessage) /\ DOMAIN down = 1 .. Len(down) /\ Len(down) \in Nat
      /\ \A i \in DOMAIN down : down'[i] = down[i] /\ down'[n] = m
  BY <1>1, Appended
<1>3. down'[n] = m
  BY <1>1, Appended
<1>4. Patches' = Patches \cup {n} /\ Answers' = Answers
  BY <1>1, AppendPatch DEF Patches, Answers
<1>5. Answers # {} => Front(down') = Front(down) /\ Rear(down') = Rear(down) \cup {n}
  BY <1>1, AppendPatch DEF Answers
<1>6. Patches \subseteq DOMAIN down /\ Rear(down) \subseteq DOMAIN down
  BY DownType
<1>7. Messages(down', Patches \cup {n}) = Messages(down, Patches) \cup {m}
  BY <1>2, <1>3, <1>6 DEF Messages
<1>8. Messages(down', Rear(down) \cup {n}) = Messages(down, Rear(down)) \cup {m}
  BY <1>2, <1>3, <1>6 DEF Messages
<1>9. n \notin DOMAIN down
  BY <1>2
<1>10. Messages(down', Patches') = Messages(down, Patches) \cup {m}
  BY <1>4, <1>7
<1>11. Answers # {} => Messages(down', Rear(down')) = Messages(down, Rear(down)) \cup {m}
  BY <1>5, <1>8
<1>12. QED
  BY <1>2, <1>3, <1>4, <1>5, <1>9, <1>10, <1>11

LEMMA SendCastStep ==
    ASSUME IInv, SendCast
    PROVE  IInv'
<1>0. Typed /\ Rounds /\ Clients /\ Servers /\ Honest /\ Flows /\ UpToDate /\ Ahead
  BY DEF IInv
<1> DEFINE n == Len(down) + 1
<1>1. /\ cast # None /\ down' = Append(down, cast) /\ cast' = None
      /\ UNCHANGED <<board, saved, tiles, dirty, revision, sub, pump, up, rendered, foreign, unrendered>>
      /\ UNCHANGED <<connected, pending, queued, nextId, shown, subscribed, asked, greet>>
  BY DEF SendCast, client, requests, notes
<1>2. cast \in PatchMessage
  BY <1>0, <1>1 DEF Typed
<1>3. /\ down' \in Seq(DownMessage) /\ Patches' = Patches \cup {n} /\ Answers' = Answers
      /\ n \notin DOMAIN down /\ down'[n] = cast /\ \A i \in DOMAIN down : down'[i] = down[i]
      /\ Messages(down', Patches') = Messages(down, Patches) \cup {cast}
      /\ Answers # {} => /\ Front(down') = Front(down) /\ Rear(down') = Rear(down) \cup {n}
                         /\ Messages(down', Rear(down')) = Messages(down, Rear(down)) \cup {cast}
  BY <1>0, <1>1, <1>2, SentPatch
<1>4. Cast = {cast} /\ Cast' = {}
  BY <1>1 DEF Cast
<1>5. (Busy' <=> Busy) /\ (Subscribing' <=> Subscribing) /\ (Cut' <=> Cut) /\ (Serving' <=> Serving)
  BY <1>1, <1>3 DEF Busy, Subscribing, Cut, Serving
<1>6. /\ Patches \subseteq DOMAIN down /\ Answers \subseteq DOMAIN down
      /\ Front(down) \subseteq Patches /\ Rear(down) \subseteq Patches
  BY <1>0, DownType
<1>7. \A s \in Answers : down'[s] = down[s] /\ Base(s)' = Base(s) /\ (Lost(s)' <=> Lost(s))
  BY <1>1, <1>3, <1>6 DEF Base, Lost
<1>8. Typed'
  BY <1>0, <1>1, <1>3 DEF Typed
<1>9. Rounds' /\ Servers' /\ Wishes'
  BY <1>0, <1>1, <1>5 DEF IInv, Rounds, Servers, Wishes, Granted, Kept
<1>10. OneTrip' /\ Clients'
  BY <1>0, <1>1, <1>3, <1>5, <1>7 DEF IInv, OneTrip, Asking, Fits, Clients
<1>11. Honest'
  <2>1. HonestPatches'
    BY <1>0, <1>1, <1>3, <1>6, SameFloors DEF Honest, HonestPatches
  <2>2. HonestAnswers'
    BY <1>0, <1>1, <1>3, <1>5, <1>7, SameFloors DEF Honest, HonestAnswers
  <2>3. HonestCopies'
    BY <1>0, <1>1, SameFloors DEF Honest, HonestCopies
  <2>4. QED
    BY <2>1, <2>2, <2>3 DEF Honest
<1>12. Flows'
  <2>0. down \in Seq(DownMessage) /\ cast \in DownMessage
    BY <1>0, <1>2 DEF Typed, DownMessage
  <2>1. ASSUME NEW r, NEW v, NEW c, NEW F, Flow(down, Patches, {cast}, r, v, c, F)
        PROVE  Flow(down', Patches', {}, r, v, c, F)
    BY <1>1, <1>3, <1>6, <2>0, <2>1, FlowSend
  <2>2. ASSUME Cut, NEW r, NEW v, NEW c, NEW F, Flow(down, Front(down), {}, r, v, c, F)
        PROVE  Flow(down', Front(down'), {}, r, v, c, F)
    <3>1. Front(down) \subseteq DOMAIN down /\ Front(down') = Front(down)
      BY <1>3, <1>6, <2>2 DEF Cut
    <3>2. QED
      BY <1>1, <2>0, <2>2, <3>1, FlowPast
  <2>3. ASSUME Cut, NEW r, NEW v, NEW c, NEW F, Flow(down, Rear(down), {cast}, r, v, c, F)
        PROVE  Flow(down', Rear(down'), {}, r, v, c, F)
    <3>1. Rear(down) \subseteq DOMAIN down /\ Rear(down') = Rear(down) \cup {n}
      BY <1>3, <1>6, <2>3 DEF Cut
    <3>2. Flow(Append(down, cast), Rear(down) \cup {Len(down) + 1}, {}, r, v, c, F)
      BY <2>0, <2>3, <3>1, FlowSend
    <3>3. QED
      BY <1>1, <3>1, <3>2
  <2>4. ASSUME subscribed # None, subscribed \notin foreign
        PROVE  LET c == shown[subscribed]
                   F == Floors(Level[subscribed])
               IN IF Cut THEN Flow(down', Front(down'), {}, subscribed, c.revision, c.cells, F)
                  ELSE Flow(down', Patches', {}, subscribed, c.revision, c.cells, F)
    BY <1>0, <1>4, <2>1, <2>2, <2>4 DEF Flows
  <2>5. ASSUME Cut, NEW s \in Answers, ~ Lost(s)
        PROVE  Flow(down', Rear(down'), {}, down[s].region, down[s].revision, Base(s), Floors(Level[down[s].region]))
    BY <1>0, <1>4, <2>3, <2>5 DEF Flows
  <2>6. QED
    BY <1>1, <1>3, <1>4, <1>5, <1>7, <2>4, <2>5, SameFloors DEF Flows
<1>13. UpToDate'
  <2>1. Messages(down', Patches') \cup Cast' = Messages(down, Patches) \cup Cast
    BY <1>3, <1>4
  <2>2. Cut => Messages(down', Rear(down')) \cup Cast' = Messages(down, Rear(down)) \cup Cast
    BY <1>3, <1>4 DEF Cut
  <2>3. QED
    BY <1>0, <1>1, <1>3, <1>5, <1>7, <2>1, <2>2, SameFloors DEF UpToDate
<1>14. Ahead'
  <2>1. Fresh'
    BY <1>0, <1>1, <1>3, <1>5, <1>6, <1>7 DEF Ahead, Fresh
  <2>2. KnownHonest'
    BY <1>0, <1>1 DEF Ahead, KnownHonest, Asking
  <2>3. ReadsAhead'
    <3>1. Messages(down', Patches') \cup Cast' = Messages(down, Patches) \cup Cast
      BY <1>3, <1>4
    <3>2. QED
      BY <1>0, <1>1, <1>5, <3>1, SameFloors DEF Ahead, ReadsAhead
  <2>4. AnswersAhead'
    <3>1. \A i \in Front(down) : down'[i] = down[i]
      BY <1>3, <1>6
    <3>2. Cut => Front(down') = Front(down)
      BY <1>3 DEF Cut
    <3>3. \A s \in Answers : down'[s] = down[s]
      BY <1>7
    <3>4. ASSUME NEW s \in Answers PROVE AnswerAhead(s)'
      <4>1. AnswerAhead(s) /\ down'[s] = down[s]
        BY <1>0, <3>3 DEF Ahead, AnswersAhead
      <4>2. CASE down[s].unchanged
        BY <1>1, <1>5, <3>1, <3>2, <4>1, <4>2 DEF AnswerAhead
      <4>3. CASE ~ down[s].unchanged
        BY <1>1, <1>5, <3>1, <3>2, <4>1, <4>3 DEF AnswerAhead
      <4>4. QED
        BY <4>2, <4>3
    <3>5. QED
      BY <1>3, <3>4 DEF AnswersAhead
  <2>5. QED
    BY <2>1, <2>2, <2>3, <2>4 DEF Ahead
<1>15. QED
  BY <1>8, <1>9, <1>10, <1>11, <1>12, <1>13, <1>14 DEF IInv

LEMMA NothingSent == <<>> \in Seq(UpMessage) /\ <<>> \in Seq(DownMessage)
OBVIOUS

LEMMA SaveStep ==
    ASSUME IInv, Save
    PROVE  IInv'
<1>0. Typed /\ Rounds
  BY DEF IInv
<1>1. /\ saved' = board
      /\ UNCHANGED <<board, tiles, dirty, revision, sub, pump, cast, up, down, rendered, foreign, unrendered>>
      /\ UNCHANGED <<connected, pending, queued, nextId, shown, subscribed, asked, greet>>
  BY DEF Save, client, requests, notes
<1>2. Typed'
  BY <1>0, <1>1 DEF Typed
<1>3. Rounds'
  <2>1. Below(board, board)
    BY <1>0 DEF Typed, Below, Pictures
  <2>2. QED
    BY <1>0, <1>1, <2>1 DEF Rounds
<1>4. /\ Patches' = Patches /\ Answers' = Answers /\ Asking' = Asking /\ Cast' = Cast
      /\ (Busy' <=> Busy) /\ (Subscribing' <=> Subscribing) /\ (Cut' <=> Cut) /\ (Serving' <=> Serving)
      /\ \A s : Base(s)' = Base(s) /\ (Lost(s)' <=> Lost(s)) /\ (AnswerAhead(s)' <=> AnswerAhead(s))
  BY <1>1 DEF Patches, Answers, Asking, Cast, Busy, Subscribing, Cut, Serving, Base, Lost, AnswerAhead
<1>5. (OneTrip /\ Clients /\ Servers /\ Wishes)'
  BY <1>1, <1>4 DEF IInv, OneTrip, Clients, Servers, Wishes, Fits, Granted, Kept
<1>6. Honest' /\ Flows' /\ UpToDate'
  BY <1>1, <1>4, SameFloors DEF IInv, Honest, HonestPatches, HonestAnswers, HonestCopies, Flows, UpToDate
<1>7. Ahead'
  BY <1>1, <1>4, SameFloors DEF IInv, Ahead, Fresh, KnownHonest, ReadsAhead, AnswersAhead
<1>8. QED
  BY <1>2, <1>3, <1>5, <1>6, <1>7 DEF IInv

LEMMA OpenStep ==
    ASSUME IInv, Open
    PROVE  IInv'
<1>0. Typed /\ Rounds /\ Clients
  BY DEF IInv
<1>1. /\ ~ connected /\ connected' = TRUE /\ greet' = TRUE /\ asked' = None
      /\ UNCHANGED <<board, saved, tiles, dirty, revision, sub, pump, cast, up, down, rendered, foreign, unrendered>>
      /\ UNCHANGED <<pending, queued, nextId, shown, subscribed>>
  BY DEF Open, server, requests, notes
<1>2. Typed'
  BY <1>0, <1>1 DEF Typed
<1>3. up = <<>> /\ down = <<>> /\ pump = None /\ sub = None /\ cast = None /\ pending = None /\ queued = None /\ subscribed = None
  BY <1>0, <1>1 DEF Clients
<1>4. /\ Patches' = Patches /\ Answers' = Answers /\ Asking' = Asking /\ Cast' = Cast
      /\ (Busy' <=> Busy) /\ (Subscribing' <=> Subscribing) /\ (Cut' <=> Cut) /\ (Serving' <=> Serving)
      /\ \A s : Base(s)' = Base(s) /\ (Lost(s)' <=> Lost(s)) /\ (AnswerAhead(s)' <=> AnswerAhead(s))
  BY <1>1 DEF Patches, Answers, Asking, Cast, Busy, Subscribing, Cut, Serving, Base, Lost, AnswerAhead
<1>5. (Rounds /\ OneTrip /\ Servers)'
  BY <1>1, <1>4 DEF IInv, Rounds, OneTrip, Servers, Fits
<1>6. Clients'
  BY <1>0, <1>1, <1>3 DEF Clients
<1>7. Wishes'
  BY <1>1, <1>3 DEF Wishes, Granted, Kept, Leads
<1>8. Honest' /\ Flows' /\ UpToDate'
  BY <1>1, <1>4, SameFloors DEF IInv, Honest, HonestPatches, HonestAnswers, HonestCopies, Flows, UpToDate
<1>9. Ahead'
  BY <1>1, <1>4, SameFloors DEF IInv, Ahead, Fresh, KnownHonest, ReadsAhead, AnswersAhead
<1>10. QED
  BY <1>2, <1>5, <1>6, <1>7, <1>8, <1>9 DEF IInv

\* Nothing is under way, and nothing is registered.
Idle ==
    /\ ~ connected /\ ~ greet
    /\ up = <<>> /\ down = <<>> /\ pump = None /\ sub = None /\ cast = None
    /\ pending = None /\ queued = None /\ subscribed = None

LEMMA IdleInv ==
    ASSUME Idle, Typed, Rounds, HonestCopies
    PROVE  IInv
<1>1. Patches = {} /\ Answers = {} /\ Asking = {} /\ ~ Busy /\ ~ Subscribing /\ ~ Cut /\ ~ Serving
  BY DEF Idle, Patches, PatchesIn, Answers, AnswersIn, Asking, Busy, Subscribing, Cut, Serving
<1>2. OneTrip /\ Clients /\ Servers /\ Wishes
  BY <1>1 DEF Idle, OneTrip, Clients, Servers, Wishes
<1>3. Honest
  BY <1>1 DEF Idle, Honest, HonestPatches, HonestAnswers
<1>4. Flows /\ UpToDate
  BY <1>1 DEF Idle, Flows, UpToDate
<1>5. Ahead
  BY <1>1 DEF Ahead, Fresh, KnownHonest, ReadsAhead, AnswersAhead
<1>6. QED
  BY <1>2, <1>3, <1>4, <1>5 DEF IInv

LEMMA IdleInvNext ==
    ASSUME Idle', Typed', Rounds', HonestCopies'
    PROVE  IInv'
<1>1. /\ Patches' = {} /\ Answers' = {} /\ Asking' = {}
      /\ ~ Busy' /\ ~ Subscribing' /\ ~ Cut' /\ ~ Serving'
  BY DEF Idle, Patches, PatchesIn, Answers, AnswersIn, Asking, Busy, Subscribing, Cut, Serving
<1>2. OneTrip' /\ Clients' /\ Servers' /\ Wishes'
  BY <1>1 DEF Idle, OneTrip, Clients, Servers, Wishes
<1>3. Honest'
  BY <1>1 DEF Idle, Honest, HonestPatches, HonestAnswers
<1>4. Flows' /\ UpToDate'
  BY <1>1 DEF Idle, Flows, UpToDate
<1>5. Ahead'
  BY <1>1 DEF Ahead, Fresh, KnownHonest, ReadsAhead, AnswersAhead
<1>6. QED
  BY <1>2, <1>3, <1>4, <1>5 DEF IInv

LEMMA CloseStep ==
    ASSUME IInv, Close
    PROVE  IInv'
<1>0. Typed /\ Rounds /\ HonestCopies
  BY DEF IInv, Honest
<1>1. /\ Idle'
      /\ UNCHANGED <<board, saved, tiles, dirty, revision, rendered, foreign, unrendered, nextId, shown, asked>>
  BY DEF Close, Disconnected, notes, Idle
<1>2. up' = <<>> /\ down' = <<>> /\ pump' = None /\ sub' = None /\ cast' = None /\ pending' = None
      /\ queued' = None /\ subscribed' = None /\ connected' = FALSE /\ greet' = FALSE
  BY DEF Close, Disconnected
<1>3. Typed'
  BY <1>0, <1>1, <1>2, NothingSent DEF Typed
<1>4. Rounds'
  BY <1>0, <1>1, <1>2 DEF Rounds
<1>5. HonestCopies'
  BY <1>0, <1>1, SameFloors DEF HonestCopies
<1>6. QED
  BY <1>1, <1>3, <1>4, <1>5, IdleInvNext

LEMMA RestartStep ==
    ASSUME IInv, Restart
    PROVE  IInv'
<1>0. Typed /\ Rounds /\ HonestCopies
  BY DEF IInv, Honest
<1>1. /\ Idle'
      /\ dirty' = {}
      /\ tiles' = IF saved = None THEN Blank ELSE saved
      /\ revision' = IF saved = None THEN 0 ELSE 1
      /\ rendered' = [v \in {revision'} |-> tiles']
      /\ foreign' = {r \in Region : shown[r].there}
      /\ unrendered' = {t \in Tile : tiles'[t] # board[t]}
      /\ UNCHANGED <<board, saved, nextId, shown, asked>>
  BY DEF Restart, Disconnected, Idle
<1>2. up' = <<>> /\ down' = <<>> /\ pump' = None /\ sub' = None /\ cast' = None /\ pending' = None
      /\ queued' = None /\ subscribed' = None /\ connected' = FALSE /\ greet' = FALSE
  BY DEF Restart, Disconnected
<1>3. /\ tiles' \in Pictures /\ revision' \in Nat /\ DOMAIN rendered' = {revision'} /\ rendered'[revision'] = tiles'
  BY <1>0, <1>1 DEF Typed, Blank, Pictures
<1>4. \A t \in Tile : tiles'[t] <= board[t] /\ tiles'[t] <= tiles'[t]
  BY <1>0, <1>1 DEF Typed, Rounds, Below, Blank, Pictures
<1>5. Typed'
  <2>1. DOMAIN rendered' \subseteq 0 .. revision' /\ \A v \in DOMAIN rendered' : rendered'[v] \in Pictures
    BY <1>3
  <2>2. foreign' \subseteq Region /\ unrendered' \subseteq Tile
    BY <1>1
  <2>3. QED
    BY <1>0, <1>1, <1>2, <1>3, <2>1, <2>2, NothingSent DEF Typed
<1>6. Rounds'
  <2>1. \A v \in DOMAIN rendered' : Below(rendered'[v], tiles')
    BY <1>3, <1>4 DEF Below
  <2>2. QED
    BY <1>0, <1>1, <1>3, <1>4, <2>1 DEF Rounds, Below
<1>7. HonestCopies'
  BY <1>0, <1>1 DEF HonestCopies
<1>8. QED
  BY <1>1, <1>5, <1>6, <1>7, IdleInvNext

LEMMA InitInv == Init => IInv
<1> SUFFICES ASSUME Init PROVE IInv
  OBVIOUS
<1>1. /\ board = Blank /\ saved = None /\ tiles = Blank /\ dirty = {} /\ revision = 0
      /\ nextId = 0 /\ shown = [r \in Region |-> NoCopy] /\ asked = None
      /\ rendered = [v \in {0} |-> Blank] /\ foreign = {} /\ unrendered = {}
      /\ up = <<>> /\ down = <<>> /\ pump = None /\ sub = None /\ cast = None
      /\ pending = None /\ queued = None /\ subscribed = None /\ connected = FALSE /\ greet = FALSE
  BY DEF Init
<1>2. Blank \in Pictures /\ NoCopy \in Copy /\ NoCopy.cells = Blank /\ ~ NoCopy.there
  BY DEF Blank, NoCopy, Pictures, Copy
<1>3. Typed
  <2>1. DOMAIN rendered \subseteq 0 .. revision /\ revision \in DOMAIN rendered /\ \A v \in DOMAIN rendered : rendered[v] \in Pictures
    BY <1>1, <1>2
  <2>2. shown \in [Region -> Copy]
    BY <1>1, <1>2
  <2>3. QED
    BY <1>1, <1>2, <2>1, <2>2, NothingSent DEF Typed
<1>4. Rounds
  BY <1>1 DEF Rounds, Below, Blank
<1>5. HonestCopies
  BY <1>1, <1>2 DEF HonestCopies, Blank
<1>6. QED
  BY <1>1, <1>3, <1>4, <1>5, IdleInv DEF Idle

-----------------------------------------------------------------------------
(* Steps of the server that answer requests. *)

\* The head of the messages of the client is taken.
LEMMA Taken ==
    ASSUME Typed, up # <<>>, up' = Tail(up)
    PROVE  /\ up' \in Seq(UpMessage) /\ 1 \in DOMAIN up /\ Head(up) = up[1] /\ up[1] \in UpMessage
           /\ \A i \in DOMAIN up' : i + 1 \in DOMAIN up /\ up'[i] = up[i + 1] /\ i \in Nat /\ i + 1 # 1
           /\ up[1].is = "request" => up[1] \in RequestMessage
           /\ \A x, d : Leads(up, d, x) => Leads(up', IF Decides(Head(up)) THEN Gives(Head(up)) ELSE d, x)
<1>1. up \in Seq(UpMessage)
  BY DEF Typed
<1>2. /\ up' \in Seq(UpMessage) /\ 1 \in DOMAIN up /\ Head(up) = up[1] /\ up[1] \in UpMessage
      /\ \A i \in DOMAIN up' : i + 1 \in DOMAIN up /\ up'[i] = up[i + 1] /\ i \in Nat /\ i + 1 # 1
  BY <1>1
<1>3. up[1].is = "request" => up[1] \in RequestMessage
  BY <1>2 DEF UpMessage, ReleaseMessage
<1>4. \A x, d : Leads(up, d, x) => Leads(up', IF Decides(Head(up)) THEN Gives(Head(up)) ELSE d, x)
  BY <1>1, LeadsTail
<1>5. QED
  BY <1>2, <1>3, <1>4

LEMMA RequestStep ==
    ASSUME IInv, Request
    PROVE  IInv'
<1>0. Typed /\ Rounds /\ OneTrip /\ Clients /\ Servers /\ Wishes /\ Honest /\ Flows /\ UpToDate /\ Ahead
  BY DEF IInv
<1> DEFINE q == Head(up)
           u == q.known # 0 /\ q.known = revision
<1>1. /\ pump = None /\ up # <<>> /\ q.is = "request" /\ up' = Tail(up)
      /\ sub' = IF q.subscribe THEN [region |-> q.region, ready |-> FALSE, pending |-> {}] ELSE sub
      /\ pump' = [q |-> q, revision |-> revision, unchanged |-> u, sent |-> FALSE,
                  todo |-> IF u THEN {} ELSE Covers[q.region], cells |-> Blank]
      /\ UNCHANGED <<board, saved, tiles, dirty, revision, cast, down, rendered, foreign, unrendered>>
      /\ UNCHANGED <<connected, pending, queued, nextId, shown, subscribed, asked, greet>>
  BY DEF Request, Take, client, requests, notes
<1>2. /\ up' \in Seq(UpMessage) /\ 1 \in DOMAIN up /\ q = up[1] /\ q \in RequestMessage
      /\ \A i \in DOMAIN up' : i + 1 \in DOMAIN up /\ up'[i] = up[i + 1] /\ i \in Nat /\ i + 1 # 1
      /\ \A x, d : Leads(up, d, x) => Leads(up', IF Decides(q) THEN Gives(q) ELSE d, x)
  BY <1>0, <1>1, Taken
<1>3. 1 \in Asking /\ Fits(q) /\ ~ Busy /\ Answers = {} /\ Asking' = {}
  <2>1. 1 \in Asking
    BY <1>1, <1>2 DEF Asking
  <2>2. \A i \in Asking : i = 1
    BY <1>0, <2>1 DEF OneTrip
  <2>3. Asking' = {}
    BY <1>2, <2>2 DEF Asking
  <2>4. QED
    BY <1>0, <1>2, <2>1, <2>3 DEF OneTrip
<1>4. q.region \in Region /\ q.subscribe \in BOOLEAN /\ q.known \in Nat /\ Covers[q.region] \subseteq Tile
  BY <1>2, CoversTiles DEF RequestMessage
<1>5. /\ pump' \in Job /\ pump' # None
      /\ pump'.q = q /\ pump'.revision = revision /\ (pump'.unchanged <=> u) /\ ~ pump'.sent
      /\ pump'.todo = (IF u THEN {} ELSE Covers[q.region]) /\ pump'.cells = Blank
  <2>1. Blank \in Pictures /\ u \in BOOLEAN /\ revision \in Nat
    BY <1>0 DEF Blank, Pictures, Typed
  <2>2. (IF u THEN {} ELSE Covers[q.region]) \in SUBSET Tile
    BY <1>4
  <2>3. pump' \in Job
    BY <1>1, <1>2, <2>1, <2>2 DEF Job
  <2>4. QED
    BY <1>1, <2>3, NoneAssumption
<1>6. /\ sub' \in Subscription \cup {None}
      /\ q.subscribe => sub' # None /\ sub'.region = q.region /\ ~ sub'.ready /\ sub'.pending = {}
      /\ ~ q.subscribe => sub' = sub
  <2>1. [region |-> q.region, ready |-> FALSE, pending |-> {}] \in Subscription
    BY <1>4 DEF Subscription
  <2>2. QED
    BY <1>0, <1>1, <2>1, NoneAssumption DEF Typed
<1>7. /\ Busy' /\ (Subscribing' <=> q.subscribe) /\ ~ Subscribing /\ ~ Busy /\ ~ Cut /\ ~ Cut'
      /\ Patches' = Patches /\ Answers' = {} /\ Cast' = Cast
  BY <1>1, <1>3, <1>5 DEF Busy, Subscribing, Cut, Patches, Answers, Cast
<1>8. Typed'
  BY <1>0, <1>1, <1>2, <1>5, <1>6 DEF Typed
<1>9. Rounds'
  BY <1>0, <1>1 DEF Rounds
<1>10. OneTrip' /\ Clients' /\ Servers'
  <2>1. Fits(pump.q)'
    BY <1>1, <1>3, <1>5 DEF Fits
  <2>2. OneTrip'
    BY <1>0, <1>1, <1>3, <1>7, <2>1 DEF OneTrip
  <2>3. Clients'
    BY <1>0, <1>1 DEF Clients
  <2>4. Servers'
    BY <1>0, <1>1, <1>5, <1>6, <1>7 DEF Servers, Typed
  <2>5. QED
    BY <2>2, <2>3, <2>4
<1>11. Wishes'
  <2>1. Kept' = IF Decides(q) THEN Gives(q) ELSE Kept
    BY <1>1, <1>6 DEF Kept, Decides, Gives
  <2>2. QED
    BY <1>0, <1>1, <1>2, <2>1 DEF Wishes, Granted
<1>12. Honest'
  <2>1. HonestPatches' /\ HonestCopies'
    BY <1>0, <1>1, <1>7, SameFloors DEF Honest, HonestPatches, HonestCopies
  <2>2. HonestAnswers'
    <3>1. revision \in DOMAIN rendered
      BY <1>0 DEF Typed
    <3>2. ~ u => Covers[pump'.q.region] \ pump'.todo = {}
      BY <1>5
    <3>3. QED
      BY <1>1, <1>5, <1>7, <3>1, <3>2 DEF HonestAnswers, Shows
  <2>3. QED
    BY <2>1, <2>2 DEF Honest
<1>13. Flows'
  BY <1>0, <1>1, <1>3, <1>7, SameFloors DEF Flows
<1>14. UpToDate'
  <2>1. Serving' => Serving /\ sub' = sub
    BY <1>6, <1>7 DEF Serving
  <2>2. QED
    BY <1>0, <1>1, <1>3, <1>7, <2>1, SameFloors DEF UpToDate
<1>15. Ahead'
  <2>1. Fresh'
    <3>1. \A i \in Patches : down[i].revision <= revision
      <4>1. \A i \in Patches : down[i] \in Messages(down, Patches)
        BY DEF Messages
      <4>2. \A i \in Patches : down[i].revision \in DOMAIN rendered
        BY <1>0, <4>1, PatchHonest DEF Honest
      <4>3. QED
        BY <1>0, <4>2 DEF Typed
    <3>2. cast # None => cast.revision <= revision
      <4>1. cast # None => cast.revision \in DOMAIN rendered
        BY <1>0, PatchHonest DEF Honest, Cast
      <4>2. QED
        BY <1>0, <4>1 DEF Typed
    <3>3. QED
      BY <1>1, <1>5, <1>6, <1>7, <3>1, <3>2 DEF Fresh
  <2>2. KnownHonest' /\ AnswersAhead'
    BY <1>3, <1>7 DEF KnownHonest, AnswersAhead
  <2>3. ReadsAhead'
    <3>1. CASE u
      <4>1. shown[q.region].there /\ (q.region \notin foreign => q.known <= shown[q.region].revision)
        BY <1>0, <1>2, <1>3, <3>1 DEF Ahead, KnownHonest
      <4>2. ASSUME q.region \notin foreign
            PROVE  /\ shown[q.region].revision = revision
                   /\ \A t \in Covers[q.region] : Floor(Level[q.region], revision, t) <= shown[q.region].cells[t]
        <5>1. Shows(Level[q.region], shown[q.region].revision, shown[q.region].cells, Covers[q.region])
          BY <1>0, <1>4, <4>1, <4>2 DEF Honest, HonestCopies
        <5>2. shown[q.region].revision \in DOMAIN rendered
          BY <5>1 DEF Shows
        <5>3. shown[q.region].revision = revision
          BY <1>0, <3>1, <4>1, <4>2, <5>2 DEF Typed
        <5>4. QED
          BY <5>1, <5>3 DEF Shows
      <4>3. QED
        BY <1>1, <1>5, <3>1, <4>1, <4>2, SameFloors DEF ReadsAhead
    <3>2. CASE ~ u
      <4>1. Covers[pump'.q.region] \ pump'.todo = {}
        BY <1>5, <3>2
      <4>2. QED
        BY <1>5, <3>2, <4>1 DEF ReadsAhead
    <3>3. QED
      BY <3>1, <3>2
  <2>4. QED
    BY <2>1, <2>2, <2>3 DEF Ahead
<1>16. QED
  BY <1>8, <1>9, <1>10, <1>11, <1>12, <1>13, <1>14, <1>15 DEF IInv

LEMMA ReadTileStep ==
    ASSUME IInv, ReadTile
    PROVE  IInv'
<1>0. Typed /\ Rounds /\ OneTrip /\ Clients /\ Servers /\ Wishes /\ Honest /\ Flows /\ UpToDate /\ Ahead
  BY DEF IInv
<1>1. PICK t \in pump.todo :
         pump' = [pump EXCEPT !.todo = @ \ {t}, !.cells[t] = Pixels(pump.q.region, t)]
  BY DEF ReadTile
<1> DEFINE r == pump.q.region
<1>2. /\ pump # None
      /\ UNCHANGED <<board, saved, tiles, dirty, revision, sub, cast, up, down, rendered, foreign, unrendered>>
      /\ UNCHANGED <<connected, pending, queued, nextId, shown, subscribed, asked, greet>>
  BY DEF ReadTile, client, requests, notes
<1>3. pump \in Job /\ r \in Region /\ t \in Tile /\ t \in Covers[r] /\ Covers[r] \subseteq Tile /\ ~ pump.unchanged /\ ~ pump.sent
  BY <1>0, <1>1, <1>2, CoversTiles DEF Typed, Job, RequestMessage, Servers
<1>4. Pixels(r, t) = Now(Level[r], t) /\ Now(Level[r], t) \in Nat
  BY <1>0, <1>3, FloorType DEF Pixels, Now
<1>5. /\ pump' \in Job /\ pump' # None
      /\ pump'.q = pump.q /\ pump'.revision = pump.revision /\ pump'.unchanged = pump.unchanged /\ pump'.sent = pump.sent
      /\ pump'.todo = pump.todo \ {t}
      /\ pump'.cells[t] = Now(Level[r], t) /\ \A w \in Tile \ {t} : pump'.cells[w] = pump.cells[w]
  <2>1. pump'.cells = [pump.cells EXCEPT ![t] = Pixels(r, t)] /\ pump.cells \in Pictures
    BY <1>1, <1>3 DEF Job
  <2>2. pump'.cells \in Pictures /\ pump'.cells[t] = Pixels(r, t) /\ \A w \in Tile \ {t} : pump'.cells[w] = pump.cells[w]
    BY <1>3, <1>4, <2>1 DEF Pictures
  <2>3. pump' \in Job
    BY <1>1, <1>3, <2>2 DEF Job
  <2>4. QED
    BY <1>1, <1>3, <1>4, <2>2, <2>3, NoneAssumption DEF Job
<1>6. /\ Patches' = Patches /\ Answers' = Answers /\ Asking' = Asking /\ Cast' = Cast
      /\ Busy /\ Busy' /\ (Subscribing' <=> Subscribing) /\ (Cut' <=> Cut) /\ (Serving' <=> Serving)
      /\ \A s : Base(s)' = Base(s) /\ (Lost(s)' <=> Lost(s)) /\ (AnswerAhead(s)' <=> AnswerAhead(s))
  BY <1>2, <1>3, <1>5 DEF Patches, Answers, Asking, Cast, Busy, Subscribing, Cut, Serving, Base, Lost, AnswerAhead
<1>7. Typed'
  BY <1>0, <1>2, <1>5 DEF Typed
<1>8. Rounds' /\ Clients' /\ Wishes'
  BY <1>0, <1>2, <1>5 DEF Rounds, Clients, Wishes, Granted, Kept
<1>9. OneTrip' /\ Servers'
  BY <1>0, <1>2, <1>5, <1>6 DEF OneTrip, Servers, Fits
<1>10. Honest'
  <2>1. HonestPatches' /\ HonestCopies'
    BY <1>0, <1>2, <1>6, SameFloors DEF Honest, HonestPatches, HonestCopies
  <2>2. Shows(Level[r], pump.revision, pump.cells, Covers[r] \ pump.todo)
    BY <1>0, <1>3, <1>6 DEF Honest, HonestAnswers
  <2>3. Shows(Level[r], pump.revision, pump'.cells, Covers[r] \ pump'.todo)
    <3>1. pump.revision \in DOMAIN rendered
      BY <2>2 DEF Shows
    <3>2. Floor(Level[r], pump.revision, t) <= Now(Level[r], t) /\ Now(Level[r], t) <= Now(Level[r], t)
      BY <1>0, <1>3, <1>4, <3>1, FloorNow
    <3>3. \A w \in Covers[r] \ pump'.todo : w = t \/ (w \in Covers[r] \ pump.todo /\ w \in Tile \ {t})
      BY <1>3, <1>5
    <3>4. QED
      BY <1>5, <2>2, <3>1, <3>2, <3>3 DEF Shows
  <2>4. HonestAnswers'
    BY <1>0, <1>2, <1>3, <1>5, <1>6, <2>3, SameFloors DEF Honest, HonestAnswers
  <2>5. QED
    BY <2>1, <2>4 DEF Honest
<1>11. Flows' /\ UpToDate'
  BY <1>0, <1>2, <1>6, SameFloors DEF Flows, UpToDate
<1>12. Ahead'
  <2>1. Fresh'
    BY <1>0, <1>2, <1>5, <1>6 DEF Ahead, Fresh
  <2>2. KnownHonest' /\ AnswersAhead'
    BY <1>0, <1>2, <1>6 DEF Ahead, KnownHonest, AnswersAhead
  <2>3. ReadsAhead'
    <3>1. r \notin foreign => shown[r].cells[t] <= Now(Level[r], t)
      <4>1. CASE shown[r].there
        BY <1>0, <1>3, <4>1 DEF Honest, HonestCopies, Shows
      <4>2. CASE ~ shown[r].there
        BY <1>0, <1>3, <1>4, <4>2 DEF Honest, HonestCopies, Blank
      <4>3. QED
        BY <4>1, <4>2
    <3>2. Floor(Level[r], revision, t) <= Now(Level[r], t)
      <4>1. revision \in DOMAIN rendered
        BY <1>0 DEF Typed
      <4>2. QED
        BY <1>0, <1>3, <4>1, FloorNow
    <3>3. \A m \in Messages(down, Patches) \cup Cast :
             m.level = Level[r] /\ t \in DOMAIN m.cells => m.cells[t] <= Now(Level[r], t)
      BY <1>0, PatchHonest DEF Honest, HonestPatch, Shows
    <3>4. ASSUME NEW w \in Covers[r] \ pump'.todo
          PROVE  /\ r \notin foreign => shown[r].cells[w] <= pump'.cells[w]
                 /\ pump.q.subscribe =>
                      /\ Floor(Level[r], revision, w) <= pump'.cells[w] \/ w \in sub.pending
                      /\ \A m \in Messages(down, Patches) \cup Cast :
                            m.level = Level[r] /\ w \in DOMAIN m.cells => m.cells[w] <= pump'.cells[w]
      <4>1. CASE w = t
        BY <1>5, <3>1, <3>2, <3>3, <4>1
      <4>2. CASE w # t
        <5>1. w \in Covers[r] \ pump.todo /\ pump'.cells[w] = pump.cells[w]
          BY <1>3, <1>5, <4>2
        <5>2. QED
          BY <1>0, <1>3, <1>6, <5>1 DEF Ahead, ReadsAhead
      <4>3. QED
        BY <4>1, <4>2
    <3>5. Messages(down, Patches)' = Messages(down, Patches)
      BY <1>2, <1>6
    <3>6. QED
      BY <1>2, <1>3, <1>5, <1>6, <3>4, <3>5, SameFloors DEF ReadsAhead
  <2>4. QED
    BY <2>1, <2>2, <2>3 DEF Ahead
<1>13. QED
  BY <1>7, <1>8, <1>9, <1>10, <1>11, <1>12 DEF IInv

LEMMA ReleaseSubscriptionStep ==
    ASSUME IInv, ReleaseSubscription
    PROVE  IInv'
<1>0. Typed /\ Rounds /\ OneTrip /\ Clients /\ Servers /\ Wishes /\ Honest /\ Flows /\ UpToDate /\ Ahead
  BY DEF IInv
<1>1. /\ pump = None /\ up # <<>> /\ Head(up).is = "release" /\ up' = Tail(up) /\ sub' = None
      /\ UNCHANGED <<board, saved, tiles, dirty, revision, pump, cast, down, rendered, foreign, unrendered>>
      /\ UNCHANGED <<connected, pending, queued, nextId, shown, subscribed, asked, greet>>
  BY DEF ReleaseSubscription, Take, client, requests, notes
<1>2. /\ up' \in Seq(UpMessage) /\ Head(up) = up[1]
      /\ \A i \in DOMAIN up' : i + 1 \in DOMAIN up /\ up'[i] = up[i + 1] /\ i \in Nat
      /\ \A x, d : Leads(up, d, x) => Leads(up', IF Decides(Head(up)) THEN Gives(Head(up)) ELSE d, x)
  BY <1>0, <1>1, Taken
<1>3. /\ Patches' = Patches /\ Answers' = Answers /\ Cast' = Cast
      /\ ~ Busy' /\ ~ Busy /\ ~ Subscribing' /\ ~ Subscribing /\ (Cut' <=> Cut) /\ ~ Serving'
      /\ \A s : Base(s)' = Base(s) /\ (Lost(s)' <=> Lost(s)) /\ (AnswerAhead(s)' <=> AnswerAhead(s))
  BY <1>1 DEF Patches, Answers, Cast, Busy, Subscribing, Cut, Serving, Base, Lost, AnswerAhead
<1>4. \A i \in Asking' : i + 1 \in Asking /\ up'[i] = up[i + 1] /\ i \in Nat
  BY <1>2 DEF Asking
<1>5. Typed'
  BY <1>0, <1>1, <1>2 DEF Typed
<1>6. Rounds'
  BY <1>0, <1>1 DEF Rounds
<1>7. OneTrip'
  <2>1. ASSUME NEW i \in Asking'
        PROVE  Fits(up[i])' /\ Answers = {} /\ \A j \in Asking' : j = i
    <3>1. Fits(up[i + 1]) /\ Answers = {}
      BY <1>0, <1>4 DEF OneTrip
    <3>2. \A j \in Asking' : j + 1 = i + 1
      BY <1>0, <1>4 DEF OneTrip
    <3>3. Fits(up[i])'
      BY <1>1, <1>4, <3>1 DEF Fits
    <3>4. QED
      BY <1>4, <3>1, <3>2, <3>3
  <2>2. QED
    BY <1>0, <1>1, <1>3, <2>1 DEF OneTrip
<1>8. Clients' /\ Servers'
  BY <1>0, <1>1, <1>3 DEF Clients, Servers
<1>9. Wishes'
  <2>1. Kept' = IF Decides(Head(up)) THEN Gives(Head(up)) ELSE Kept
    BY <1>1 DEF Kept, Decides, Gives
  <2>2. QED
    BY <1>0, <1>1, <1>2, <2>1 DEF Wishes, Granted, Clients
<1>10. Honest' /\ Flows' /\ UpToDate'
  BY <1>0, <1>1, <1>3, SameFloors DEF Honest, HonestPatches, HonestAnswers, HonestCopies, Flows, UpToDate
<1>11. Ahead'
  <2>1. KnownHonest'
    BY <1>0, <1>1, <1>4 DEF Ahead, KnownHonest
  <2>2. QED
    BY <1>0, <1>1, <1>3, <2>1 DEF Ahead, Fresh, ReadsAhead, AnswersAhead
<1>12. QED
  BY <1>5, <1>6, <1>7, <1>8, <1>9, <1>10, <1>11 DEF IInv

LEMMA SentAnswer ==
    ASSUME Typed, NEW m \in SnapshotMessage, down' = Append(down, m), Answers = {}
    PROVE  LET n == Len(down) + 1 IN
           /\ down' \in Seq(DownMessage) /\ Patches' = Patches /\ Answers' = {n}
           /\ down'[n] = m /\ \A i \in DOMAIN down : down'[i] = down[i]
           /\ Messages(down', Patches) = Messages(down, Patches)
           /\ Front(down') = Patches /\ Rear(down') = {} /\ Messages(down', {}) = {}
<1> DEFINE n == Len(down) + 1
<1>1. down \in Seq(DownMessage) /\ m \in DownMessage /\ m.is = "snapshot"
  BY DEF Typed, DownMessage, SnapshotMessage
<1>2. down' \in Seq(DownMessage) /\ DOMAIN down = 1 .. Len(down) /\ \A i \in DOMAIN down : down'[i] = down[i]
  BY <1>1, Appended
<1>3. down'[n] = m
  BY <1>1, Appended
<1>4. Patches' = Patches /\ Answers' = {n} /\ Front(down') = Patches /\ Rear(down') = {}
  BY <1>1, AppendAnswer DEF Patches, Answers
<1>5. Patches \subseteq DOMAIN down
  BY DownType
<1>6. Messages(down', Patches) = Messages(down, Patches)
  BY <1>2, <1>5 DEF Messages
<1>7. Messages(down', {}) = {}
  BY DEF Messages
<1>8. QED
  BY <1>2, <1>3, <1>4, <1>6, <1>7

\* Patches that are too old are no stream.
LEMMA FlowNone ==
    ASSUME NEW d, NEW K \in SUBSET PatchMessage, NEW r, NEW v, NEW c, NEW F,
           \A m \in K : ~ m.revision > v
    PROVE  Flow(d, {}, K, r, v, c, F)
<1>1. Live(Messages(d, {}) \cup K, v) = {}
  BY DEF Live, Messages
<1>2. QED
  BY <1>1 DEF Flow, InOrder, Stream

LEMMA SendSnapshotStep ==
    ASSUME IInv, SendSnapshot
    PROVE  IInv'
<1>0. Typed /\ Rounds /\ OneTrip /\ Clients /\ Servers /\ Wishes /\ Honest /\ Flows /\ UpToDate /\ Ahead
  BY DEF IInv
<1> DEFINE r == pump.q.region
           n == Len(down) + 1
           m == [is |-> "snapshot", id |-> pump.q.id, region |-> pump.q.region,
                 revision |-> pump.revision, unchanged |-> pump.unchanged, cells |-> pump.cells]
<1>1. /\ pump # None /\ pump.todo = {} /\ ~ pump.sent
      /\ down' = Append(down, m)
      /\ pump' = IF pump.q.subscribe THEN [pump EXCEPT !.sent = TRUE] ELSE None
      /\ UNCHANGED <<board, saved, tiles, dirty, revision, sub, cast, up, rendered, foreign, unrendered>>
      /\ UNCHANGED <<connected, pending, queued, nextId, shown, subscribed, asked, greet>>
  BY DEF SendSnapshot, client, requests, notes, Stamp
<1>2. pump \in Job /\ r \in Region /\ Covers[r] \subseteq Tile /\ pump.cells \in Pictures /\ pump.revision \in Nat
  BY <1>0, <1>1, CoversTiles DEF Typed, Job, RequestMessage
<1>3. m \in SnapshotMessage
  BY <1>2 DEF SnapshotMessage, Job, RequestMessage
<1>4. Busy /\ Fits(pump.q) /\ Answers = {} /\ Asking = {} /\ ~ Cut
  BY <1>0, <1>1 DEF Busy, OneTrip, Cut
<1> HIDE DEF m
<1>5. /\ down' \in Seq(DownMessage) /\ Patches' = Patches /\ Answers' = {n}
      /\ down'[n] = m /\ \A i \in DOMAIN down : down'[i] = down[i]
      /\ Messages(down', Patches) = Messages(down, Patches)
      /\ Front(down') = Patches /\ Rear(down') = {} /\ Messages(down', {}) = {}
  BY <1>0, <1>1, <1>3, <1>4, SentAnswer
<1>6. /\ m.id = pump.q.id /\ m.region = r /\ m.revision = pump.revision /\ m.unchanged = pump.unchanged
      /\ m.cells = pump.cells
  BY DEF m
<1>7. /\ pump' \in Job \cup {None}
      /\ pump.q.subscribe => /\ pump' # None /\ pump'.sent /\ pump'.q = pump.q /\ pump'.revision = pump.revision
                             /\ pump'.todo = {} /\ pump'.unchanged = pump.unchanged
      /\ ~ pump.q.subscribe => pump' = None
  <2>1. CASE pump.q.subscribe
    <3>1. pump' = [pump EXCEPT !.sent = TRUE]
      BY <1>1, <2>1
    <3>2. pump' \in Job
      BY <1>2, <3>1 DEF Job
    <3>3. QED
      BY <1>1, <1>2, <2>1, <3>1, <3>2, NoneAssumption DEF Job
  <2>2. CASE ~ pump.q.subscribe
    BY <1>1, <2>2
  <2>3. QED
    BY <2>1, <2>2
<1>8. ~ Busy' /\ (Subscribing' <=> Subscribing) /\ (Subscribing <=> pump.q.subscribe) /\ (Cut' <=> pending.subscribe)
      /\ Asking' = {} /\ (Serving' <=> sub # None) /\ Cast' = Cast /\ Patches \subseteq DOMAIN down
      /\ (pending.subscribe => Subscribing) /\ (Subscribing /\ ~ pending.subscribe => subscribed = None)
  BY <1>0, <1>1, <1>4, <1>5, <1>7, DownType DEF Busy, Subscribing, Cut, Asking, Serving, Cast, Fits
<1>9. Typed'
  BY <1>0, <1>1, <1>5, <1>7 DEF Typed
<1>10. Rounds' /\ Wishes'
  BY <1>0, <1>1 DEF Rounds, Wishes, Granted, Kept
<1>11. OneTrip'
  BY <1>0, <1>1, <1>4, <1>5, <1>6, <1>8 DEF OneTrip, Fits
<1>12. Clients'
  BY <1>0, <1>1 DEF Clients
<1>13. Servers'
  BY <1>0, <1>1, <1>7, <1>8 DEF Servers
<1>14. Honest'
  <2>1. HonestPatches'
    BY <1>0, <1>1, <1>5, <1>8, SameFloors DEF Honest, HonestPatches
  <2>2. HonestCopies'
    BY <1>0, <1>1, SameFloors DEF Honest, HonestCopies
  <2>3. ~ m.unchanged => Shows(Level[r], m.revision, m.cells, Covers[r])
    <3>1. Covers[r] \ pump.todo = Covers[r]
      BY <1>1
    <3>2. QED
      BY <1>0, <1>4, <1>6, <3>1 DEF Honest, HonestAnswers
  <2>4. HonestAnswers'
    BY <1>1, <1>5, <1>6, <1>8, <2>3, SameFloors DEF HonestAnswers
  <2>5. QED
    BY <2>1, <2>2, <2>4 DEF Honest
<1> DEFINE B == IF pump.unchanged THEN shown[r].cells ELSE pump.cells
<1>15. \A s : s = n => Base(s)' = B /\ (Lost(s)' <=> pump.unchanged /\ r \in foreign)
  BY <1>1, <1>5, <1>6 DEF Base, Lost
<1>16. Flows'
  <2>0. /\ down \in Seq(DownMessage) /\ m \in DownMessage /\ Cast \subseteq PatchMessage
        /\ Messages(down, Patches) \subseteq PatchMessage
    BY <1>0, <1>3, DownType DEF Typed, DownMessage
  <2>1. ASSUME subscribed # None, subscribed \notin foreign
        PROVE  LET c == shown[subscribed]
                   F == Floors(Level[subscribed])
               IN IF pending.subscribe THEN Flow(down', Patches, {}, subscribed, c.revision, c.cells, F)
                  ELSE Flow(down', Patches, Cast, subscribed, c.revision, c.cells, F)
    <3> DEFINE c == shown[subscribed]
               F == Floors(Level[subscribed])
    <3>1. Flow(down, Patches, Cast, subscribed, c.revision, c.cells, F)
      BY <1>0, <1>4, <2>1 DEF Flows
    <3>2. c.revision \in Nat
      BY <1>0, <2>1, ShownHonest
    <3>3. Flow(down', Patches, Cast, subscribed, c.revision, c.cells, F)
      BY <1>1, <1>8, <2>0, <3>1, FlowPast
    <3>4. Flow(down, Patches, {}, subscribed, c.revision, c.cells, F)
      BY <2>0, <3>1, <3>2, FlowCut
    <3>5. Flow(down', Patches, {}, subscribed, c.revision, c.cells, F)
      BY <1>1, <1>8, <2>0, <3>4, FlowPast
    <3>6. QED
      BY <3>3, <3>5
  <2>2. ASSUME pending.subscribe
        PROVE  Flow(down', {}, Cast, r, pump.revision, B, Floors(Level[r]))
    <3>1. \A k \in Cast : ~ k.revision > pump.revision
      <4>1. \A k \in Cast : k.revision <= pump.revision /\ k.revision \in Nat
        BY <1>0, <1>8, <2>0, <2>2, PatchType DEF Ahead, Fresh, Cast
      <4>2. QED
        BY <1>2, <4>1
    <3>2. QED
      BY <2>0, <3>1, FlowNone
  <2>3. QED
    BY <1>1, <1>5, <1>6, <1>8, <1>15, <2>1, <2>2, SameFloors DEF Flows
<1>17. UpToDate'
  <2>1. ASSUME sub # None, ~ pending.subscribe, subscribed # None
        PROVE  /\ subscribed = sub.region
               /\ subscribed \notin foreign =>
                    Reaches(Messages(down', Patches) \cup Cast, subscribed, shown[subscribed].revision,
                            shown[subscribed].cells, Floors(Level[subscribed])[revision], sub.pending)
    <3>1. ~ Subscribing /\ Serving
      BY <1>8, <2>1 DEF Serving
    <3>2. QED
      BY <1>0, <1>4, <1>5, <2>1, <3>1 DEF UpToDate
  <2>2. ASSUME sub # None, pending.subscribe, ~ (pump.unchanged /\ r \in foreign)
        PROVE  Reaches(Messages(down', {}) \cup Cast, r, pump.revision, B, Floors(Level[r])[revision], sub.pending)
    <3>1. \A t \in Covers[r] : Floor(Level[r], revision, t) <= B[t] \/ t \in sub.pending
      <4>1. CASE pump.unchanged
        BY <1>0, <1>4, <1>8, <1>15, <2>2, <4>1 DEF Ahead, ReadsAhead
      <4>2. CASE ~ pump.unchanged
        BY <1>0, <1>1, <1>4, <1>8, <1>15, <2>2, <4>2 DEF Ahead, ReadsAhead
      <4>3. QED
        BY <4>1, <4>2
    <3>2. \A t \in Covers[r] : Floors(Level[r])[revision][t] = Floor(Level[r], revision, t)
      BY <1>0, <1>2, FloorType DEF Typed
    <3>3. QED
      BY <3>1, <3>2 DEF Reaches
  <2>3. sub # None /\ pending.subscribe => r = sub.region
    BY <1>0, <1>8 DEF Servers
  <2>4. QED
    BY <1>1, <1>5, <1>6, <1>8, <1>15, <2>1, <2>2, <2>3, SameFloors DEF UpToDate
<1>18. Ahead'
  <2>1. Fresh'
    BY <1>0, <1>1, <1>5, <1>6, <1>7, <1>8 DEF Ahead, Fresh
  <2>2. KnownHonest' /\ ReadsAhead'
    BY <1>8 DEF KnownHonest, ReadsAhead
  <2>3. ASSUME NEW s, s = n PROVE AnswerAhead(s)'
    <3>0. s \in Answers' /\ down'[s] = m
      BY <1>5, <2>3
    <3>1. pending.subscribe => \A i \in Patches : down'[i].revision <= m.revision
      BY <1>0, <1>5, <1>6, <1>8 DEF Ahead, Fresh
    <3>2. CASE pump.unchanged
      <4>1. shown[r].there /\ (r \notin foreign => shown[r].revision = pump.revision)
        BY <1>0, <1>4, <3>2 DEF Ahead, ReadsAhead
      <4>2. QED
        BY <1>1, <1>5, <1>6, <1>8, <3>0, <3>1, <3>2, <4>1 DEF AnswerAhead
    <3>3. CASE ~ pump.unchanged
      <4>1. ASSUME NEW t \in Covers[r]
            PROVE  /\ r \notin foreign => shown[r].cells[t] <= pump.cells[t]
                   /\ pump.q.subscribe =>
                        \A k \in Messages(down, Patches) \cup Cast :
                            k.level = Level[r] /\ t \in DOMAIN k.cells => k.cells[t] <= pump.cells[t]
        BY <1>0, <1>1, <1>4, <3>3 DEF Ahead, ReadsAhead
      <4>2. \A i \in Patches : down'[i] \in Messages(down, Patches)
        BY <1>5, <1>8 DEF Messages
      <4>3. QED
        BY <1>1, <1>5, <1>6, <1>8, <3>0, <3>3, <4>1, <4>2 DEF AnswerAhead
    <3>4. QED
      BY <3>2, <3>3
  <2>4. AnswersAhead'
    BY <1>5, <2>3 DEF AnswersAhead
  <2>5. QED
    BY <2>1, <2>2, <2>4 DEF Ahead
<1>19. QED
  BY <1>9, <1>10, <1>11, <1>12, <1>13, <1>14, <1>16, <1>17, <1>18 DEF IInv

LEMMA CatchUpStep ==
    ASSUME IInv, CatchUp
    PROVE  IInv'
<1>0. Typed /\ Rounds /\ OneTrip /\ Clients /\ Servers /\ Wishes /\ Honest /\ Flows /\ UpToDate /\ Ahead
  BY DEF IInv
<1> DEFINE cells == [t \in sub.pending |-> Pixels(sub.region, t)]
           m == Patch(sub.region, cells, revision)
           n == Len(down) + 1
<1>1. /\ pump # None /\ pump.sent
      /\ down' = IF m = None THEN down ELSE Append(down, m)
      /\ sub' = [sub EXCEPT !.ready = TRUE, !.pending = {}]
      /\ pump' = None
      /\ UNCHANGED <<board, saved, tiles, dirty, revision, cast, up, rendered, foreign, unrendered>>
      /\ UNCHANGED <<connected, pending, queued, nextId, shown, subscribed, asked, greet>>
  BY DEF CatchUp, client, requests, notes
<1>2. /\ Subscribing /\ ~ Busy /\ Serving /\ sub # None /\ ~ sub.ready
      /\ sub.pending \subseteq Covers[sub.region] /\ connected
  BY <1>0, <1>1 DEF Servers, Subscribing, Busy, Serving, Clients
<1>3. /\ sub \in Subscription /\ sub.region \in Region /\ Covers[sub.region] \subseteq Tile /\ sub.pending \in SUBSET Tile
      /\ revision \in Nat /\ pump.revision \in Nat
  BY <1>0, <1>1, <1>2, CoversTiles DEF Typed, Subscription, Job
<1>4. \A t \in sub.pending : Pixels(sub.region, t) = Now(Level[sub.region], t) /\ Now(Level[sub.region], t) \in Nat
  BY <1>0, <1>3, FloorType DEF Pixels, Now
<1>5. /\ sub.pending = {} => m = None
      /\ sub.pending # {} => /\ m \in PatchMessage /\ m # None /\ m.level = Level[sub.region] /\ m.revision = revision
                             /\ DOMAIN m.cells = sub.pending
                             /\ \A t \in sub.pending : m.cells[t] = Now(Level[sub.region], t)
  <2>1. cells \in [sub.pending -> Nat] /\ \A t \in sub.pending : cells[t] = Now(Level[sub.region], t)
    BY <1>4
  <2> HIDE DEF cells
  <2>2. QED
    BY <1>3, <2>1, PatchBuilt
<1> HIDE DEF m
<1>6. sub' \in Subscription /\ sub' # None /\ sub'.region = sub.region /\ sub'.ready /\ sub'.pending = {}
  <2>1. sub' \in Subscription /\ sub'.region = sub.region /\ sub'.ready /\ sub'.pending = {}
    BY <1>1, <1>3 DEF Subscription
  <2>2. QED
    BY <2>1, NoneAssumption
<1>7. /\ sub.pending = {} => down' = down
      /\ sub.pending # {} =>
           /\ down' = Append(down, m) /\ down' \in Seq(DownMessage) /\ Patches' = Patches \cup {n}
           /\ n \notin DOMAIN down /\ down'[n] = m
           /\ Messages(down', Patches') = Messages(down, Patches) \cup {m}
           /\ Answers # {} => /\ Rear(down') = Rear(down) \cup {n}
                              /\ Messages(down', Rear(down')) = Messages(down, Rear(down)) \cup {m}
      /\ Answers' = Answers /\ down' \in Seq(DownMessage)
      /\ \A i \in DOMAIN down : down'[i] = down[i]
      /\ Answers # {} => Front(down') = Front(down)
  <2>1. CASE sub.pending = {}
    BY <1>0, <1>1, <1>5, <2>1 DEF Answers, Typed
  <2>2. CASE sub.pending # {}
    BY <1>0, <1>1, <1>5, <2>2, SentPatch
  <2>3. QED
    BY <2>1, <2>2
<1>8. /\ ~ Busy' /\ ~ Subscribing' /\ (Cut' <=> Cut) /\ Serving' /\ Cast' = Cast
      /\ Patches \subseteq DOMAIN down /\ Answers \subseteq DOMAIN down
      /\ Front(down) \subseteq Patches /\ Rear(down) \subseteq Patches
  BY <1>0, <1>1, <1>6, <1>7, DownType DEF Busy, Subscribing, Cut, Serving, Cast
<1>9. \A s \in Answers : down'[s] = down[s] /\ Base(s)' = Base(s) /\ (Lost(s)' <=> Lost(s))
  BY <1>1, <1>7, <1>8 DEF Base, Lost
<1>10. Typed'
  BY <1>0, <1>1, <1>6, <1>7 DEF Typed
<1>11. Rounds' /\ OneTrip' /\ Clients' /\ Servers' /\ Wishes'
  <2>1. Rounds'
    BY <1>0, <1>1 DEF Rounds
  <2>2. OneTrip'
    BY <1>0, <1>1, <1>7, <1>8, <1>9 DEF OneTrip, Asking, Fits
  <2>3. Clients'
    BY <1>0, <1>1, <1>2 DEF Clients
  <2>4. Servers'
    BY <1>1, <1>6, <1>8 DEF Servers
  <2>5. Wishes'
    BY <1>0, <1>1, <1>2, <1>6 DEF Wishes, Granted, Kept
  <2>6. QED
    BY <2>1, <2>2, <2>3, <2>4, <2>5
<1>12. sub.pending # {} => HonestPatch(m)
  <2> SUFFICES ASSUME sub.pending # {} PROVE HonestPatch(m)
    OBVIOUS
  <2>1. revision \in DOMAIN rendered
    BY <1>0 DEF Typed
  <2>2. \A t \in sub.pending :
           Floor(Level[sub.region], revision, t) <= Now(Level[sub.region], t) /\ Now(Level[sub.region], t) \in Nat
    BY <1>0, <1>3, <1>4, <2>1, FloorNow
  <2>3. Shows(m.level, m.revision, m.cells, DOMAIN m.cells)
    BY <1>5, <2>1, <2>2 DEF Shows
  <2>4. QED
    BY <2>3 DEF HonestPatch
<1>13. Honest'
  <2>1. HonestPatches'
    <3>1. \A i \in Patches' : HonestPatch(down'[i])
      <4>1. CASE sub.pending = {}
        BY <1>0, <1>7, <4>1 DEF Honest, HonestPatches, Patches
      <4>2. CASE sub.pending # {}
        BY <1>0, <1>7, <1>8, <1>12, <4>2 DEF Honest, HonestPatches
      <4>3. QED
        BY <4>1, <4>2
    <3>2. cast # None => HonestPatch(cast)
      BY <1>0 DEF Honest, HonestPatches
    <3>3. QED
      BY <1>1, <3>1, <3>2, SameFloors DEF HonestPatches
  <2>2. HonestAnswers'
    BY <1>0, <1>1, <1>7, <1>8, <1>9, SameFloors DEF Honest, HonestAnswers
  <2>3. HonestCopies'
    BY <1>0, <1>1, SameFloors DEF Honest, HonestCopies
  <2>4. QED
    BY <2>1, <2>2, <2>3 DEF Honest
\* What a copy has still to meet when it is not older than the picture that
\* the subscription began with.
<1>14. ASSUME sub.pending # {}, NEW r \in Region, r = sub.region, NEW v \in Nat, NEW c \in Pictures,
              NEW I \in SUBSET Patches, NEW d, d = down, v >= pump.revision,
              Shows(Level[r], v, c, Covers[r]),
              Flow(d, I, Cast, r, v, c, Floors(Level[r])),
              Reaches(Messages(d, I) \cup Cast, r, v, c, Floors(Level[r])[revision], sub.pending)
       PROVE  /\ Flow(Append(d, m), I \cup {Len(d) + 1}, Cast, r, v, c, Floors(Level[r]))
              /\ Reaches((Messages(d, I) \cup {m}) \cup Cast, r, v, c, Floors(Level[r])[revision], {})
  <2>1. /\ m \in PatchMessage /\ m.level = Level[r] /\ m.revision = revision
        /\ DOMAIN m.cells = sub.pending /\ DOMAIN m.cells \subseteq Covers[r]
        /\ \A t \in sub.pending : m.cells[t] = Now(Level[r], t) /\ Now(Level[r], t) \in Nat /\ t \in Tile /\ t \in Covers[r]
    BY <1>2, <1>3, <1>4, <1>5, <1>14
  <2>2. Messages(d, I) \subseteq Messages(down, Patches)
    BY <1>14 DEF Messages
  <2>3. Cast \subseteq PatchMessage /\ Messages(d, I) \subseteq PatchMessage
    BY <1>0, <2>2, DownType
  <2>4. \A k \in Messages(d, I) \cup Cast : k.revision \in Nat /\ k.revision <= pump.revision
    <3>1. \A k \in Messages(down, Patches) \cup Cast : k.revision <= pump.revision
      BY <1>0, <1>2 DEF Ahead, Fresh, Messages, Cast
    <3>2. QED
      BY <2>2, <2>3, <3>1, PatchType
  <2>5. pump.revision < revision
    BY <1>0, <1>2, <1>14 DEF Ahead, Fresh
  <2>6. \A k \in Messages(d, I) : k.revision < m.revision
    BY <1>3, <2>1, <2>4, <2>5
  <2>7. \A k \in Cast : ~ k.revision > v
    BY <1>3, <1>14, <2>4
  <2>8. \A t \in Covers[r] : Floors(Level[r])[revision][t] = Floor(Level[r], revision, t)
    BY <1>0, <1>3, <1>14, FloorType
  <2>9. ASSUME NEW t \in DOMAIN m.cells
        PROVE  /\ Floors(Level[r])[m.revision][t] <= m.cells[t]
               /\ c[t] <= m.cells[t]
               /\ \A k \in Messages(d, I) : k.level = Level[r] /\ t \in DOMAIN k.cells => k.cells[t] <= m.cells[t]
    <3>1. Floor(Level[r], revision, t) <= m.cells[t]
      BY <1>12, <1>14, <2>1 DEF HonestPatch, Shows
    <3>2. c[t] <= Now(Level[r], t)
      BY <1>14, <2>1 DEF Shows
    <3>3. \A k \in Messages(d, I) : k.level = Level[r] /\ t \in DOMAIN k.cells => k.cells[t] <= Now(Level[r], t)
      BY <1>0, <2>2, PatchHonest DEF Honest, HonestPatch, Shows
    <3>4. QED
      BY <2>1, <2>8, <3>1, <3>2, <3>3
  <2>10. Reaches(Messages(d, I) \cup Cast, r, v, c, Floors(Level[r])[m.revision], DOMAIN m.cells)
    BY <1>14, <2>1
  <2>11. Flow(Append(d, m), I \cup {Len(d) + 1}, Cast, r, v, c, Floors(Level[r]))
    <3>1. d \in Seq(DownMessage) /\ m \in DownMessage /\ I \subseteq DOMAIN d
      BY <1>0, <1>8, <1>14, <2>1 DEF Typed, DownMessage
    <3>2. QED
      BY <1>14, <2>1, <2>3, <2>6, <2>7, <2>9, <2>10, <3>1, FlowPush
  <2>12. Reaches((Messages(d, I) \cup {m}) \cup Cast, r, v, c, Floors(Level[r])[revision], {})
    <3>1. (Messages(d, I) \cup {m}) \cup Cast = (Messages(d, I) \cup Cast) \cup {m}
      OBVIOUS
    <3>2. CASE m.revision > v
      <4>1. {} \cup DOMAIN m.cells = DOMAIN m.cells
        OBVIOUS
      <4>2. Reaches((Messages(d, I) \cup Cast) \cup {m}, r, v, c, Floors(Level[r])[m.revision], {})
        BY <2>9, <2>10, <3>2, <4>1, ReachesAdd
      <4>3. QED
        BY <2>1, <3>1, <4>2
    <3>3. CASE ~ m.revision > v
      <4>1. v = revision
        BY <1>0, <1>3, <1>14, <2>1, <3>3 DEF Shows, Typed
      <4>2. \A t \in Covers[r] : Floors(Level[r])[revision][t] <= c[t]
        BY <1>14, <2>8, <4>1 DEF Shows
      <4>3. QED
        BY <4>2 DEF Reaches
    <3>4. QED
      BY <3>2, <3>3
  <2>13. QED
    BY <2>11, <2>12
<1>15. ASSUME ~ Cut, subscribed # None
       PROVE  /\ subscribed = sub.region
              /\ subscribed \notin foreign =>
                   LET c == shown[subscribed]
                       F == Floors(Level[subscribed])
                   IN /\ Flow(down', Patches', Cast, subscribed, c.revision, c.cells, F)
                      /\ Reaches(Messages(down', Patches') \cup Cast, subscribed, c.revision, c.cells, F[revision], {})
  <2>1. subscribed = sub.region
    BY <1>0, <1>2, <1>15 DEF UpToDate
  <2> SUFFICES ASSUME subscribed \notin foreign
               PROVE  LET c == shown[subscribed]
                          F == Floors(Level[subscribed])
                      IN /\ Flow(down', Patches', Cast, subscribed, c.revision, c.cells, F)
                         /\ Reaches(Messages(down', Patches') \cup Cast, subscribed, c.revision, c.cells, F[revision], {})
    BY <2>1
  <2> DEFINE c == shown[subscribed]
             F == Floors(Level[subscribed])
  <2>2. /\ Flow(down, Patches, Cast, subscribed, c.revision, c.cells, F)
        /\ Reaches(Messages(down, Patches) \cup Cast, subscribed, c.revision, c.cells, F[revision], sub.pending)
    BY <1>0, <1>2, <1>15 DEF Flows, UpToDate
  <2>3. CASE sub.pending = {}
    BY <1>7, <2>2, <2>3 DEF Patches
  <2>4. CASE sub.pending # {}
    <3>1. /\ subscribed \in Region /\ c.revision \in Nat /\ c.cells \in Pictures
          /\ Shows(Level[subscribed], c.revision, c.cells, Covers[subscribed])
      BY <1>0, <1>15, ShownHonest
    <3>2. c.revision >= pump.revision
      BY <1>0, <1>1, <1>2, <1>15 DEF Ahead, Fresh
    <3>3. /\ Flow(Append(down, m), Patches \cup {Len(down) + 1}, Cast, subscribed, c.revision, c.cells, F)
          /\ Reaches((Messages(down, Patches) \cup {m}) \cup Cast, subscribed, c.revision, c.cells, F[revision], {})
      BY <1>14, <2>1, <2>2, <2>4, <3>1, <3>2
    <3>4. QED
      BY <1>7, <2>4, <3>3
  <2>5. QED
    BY <2>3, <2>4
<1>16. ASSUME Cut, subscribed # None, subscribed \notin foreign
       PROVE  Flow(down', Front(down), {}, subscribed, shown[subscribed].revision, shown[subscribed].cells,
                   Floors(Level[subscribed]))
  <2>1. Flow(down, Front(down), {}, subscribed, shown[subscribed].revision, shown[subscribed].cells,
             Floors(Level[subscribed]))
    BY <1>0, <1>16 DEF Flows
  <2>2. CASE sub.pending = {}
    BY <1>7, <2>1, <2>2
  <2>3. CASE sub.pending # {}
    <3>1. down \in Seq(DownMessage) /\ m \in DownMessage /\ Front(down) \subseteq DOMAIN down
      BY <1>0, <1>5, <1>8, <2>3 DEF Typed, DownMessage
    <3>2. Flow(Append(down, m), Front(down), {}, subscribed, shown[subscribed].revision, shown[subscribed].cells,
               Floors(Level[subscribed]))
      BY <2>1, <3>1, FlowPast
    <3>3. QED
      BY <1>7, <2>3, <3>2
  <2>4. QED
    BY <2>2, <2>3
<1>17. ASSUME Cut, NEW s \in Answers
       PROVE  /\ down[s].region = sub.region
              /\ ~ Lost(s) =>
                   LET F == Floors(Level[down[s].region])
                   IN /\ Flow(down', Rear(down'), Cast, down[s].region, down[s].revision, Base(s), F)
                      /\ Reaches(Messages(down', Rear(down')) \cup Cast, down[s].region, down[s].revision, Base(s),
                                 F[revision], {})
  <2>1. down[s].region = sub.region
    BY <1>0, <1>2, <1>17 DEF UpToDate
  <2> SUFFICES ASSUME ~ Lost(s)
               PROVE  LET F == Floors(Level[down[s].region])
                      IN /\ Flow(down', Rear(down'), Cast, down[s].region, down[s].revision, Base(s), F)
                         /\ Reaches(Messages(down', Rear(down')) \cup Cast, down[s].region, down[s].revision, Base(s),
                                    F[revision], {})
    BY <2>1
  <2> DEFINE F == Floors(Level[down[s].region])
  <2>2. /\ Flow(down, Rear(down), Cast, down[s].region, down[s].revision, Base(s), F)
        /\ Reaches(Messages(down, Rear(down)) \cup Cast, down[s].region, down[s].revision, Base(s), F[revision],
                   sub.pending)
    BY <1>0, <1>2, <1>17 DEF Flows, UpToDate
  <2>3. CASE sub.pending = {}
    BY <1>7, <2>2, <2>3
  <2>4. CASE sub.pending # {}
    <3>1. /\ down[s].region \in Region /\ down[s].revision \in Nat /\ Base(s) \in Pictures
          /\ Shows(Level[down[s].region], down[s].revision, Base(s), Covers[down[s].region])
      BY <1>0, <1>17, BaseHonest
    <3>2. down[s].revision >= pump.revision
      <4>1. down[s].revision = pump.revision
        BY <1>0, <1>1, <1>2, <1>17 DEF Ahead, Fresh
      <4>2. QED
        BY <1>3, <4>1
    <3>3. /\ Flow(Append(down, m), Rear(down) \cup {Len(down) + 1}, Cast, down[s].region, down[s].revision, Base(s), F)
          /\ Reaches((Messages(down, Rear(down)) \cup {m}) \cup Cast, down[s].region, down[s].revision, Base(s),
                     F[revision], {})
      BY <1>8, <1>14, <2>1, <2>2, <2>4, <3>1, <3>2
    <3>4. QED
      BY <1>7, <1>17, <2>4, <3>3
  <2>5. QED
    BY <2>3, <2>4
<1>18. Flows'
  BY <1>1, <1>7, <1>8, <1>9, <1>15, <1>16, <1>17, SameFloors DEF Flows, Cut
<1>19. UpToDate'
  <2>1. (subscribed' = subscribed) /\ (shown' = shown) /\ (foreign' = foreign) /\ (revision' = revision)
        /\ \A l : Floors(l)' = Floors(l)
    BY <1>1, SameFloors
  <2>2. \A s \in Answers' : s \in Answers /\ down'[s] = down[s] /\ Base(s)' = Base(s) /\ (Lost(s)' <=> Lost(s))
    BY <1>6, <1>7, <1>9, <1>17
  <2>3. QED
    BY <1>6, <1>7, <1>8, <1>15, <1>17, <2>1, <2>2 DEF UpToDate
<1>20. Ahead'
  <2>1. Fresh' /\ ReadsAhead'
    BY <1>8 DEF Fresh, ReadsAhead
  <2>2. KnownHonest'
    BY <1>0, <1>1 DEF Ahead, KnownHonest, Asking
  <2>3. AnswersAhead'
    <3>1. \A i \in Front(down) : down'[i] = down[i]
      BY <1>7, <1>8
    <3>2. Cut => Front(down') = Front(down)
      BY <1>7 DEF Cut
    <3>3. ASSUME NEW s \in Answers PROVE AnswerAhead(s)'
      <4>1. AnswerAhead(s) /\ down'[s] = down[s]
        BY <1>0, <1>9 DEF Ahead, AnswersAhead
      <4>2. CASE down[s].unchanged
        BY <1>1, <1>8, <3>1, <3>2, <4>1, <4>2 DEF AnswerAhead
      <4>3. CASE ~ down[s].unchanged
        BY <1>1, <1>8, <3>1, <3>2, <4>1, <4>3 DEF AnswerAhead
      <4>4. QED
        BY <4>2, <4>3
    <3>4. QED
      BY <1>7, <3>3 DEF AnswersAhead
  <2>4. QED
    BY <2>1, <2>2, <2>3 DEF Ahead
<1>21. QED
  BY <1>10, <1>11, <1>13, <1>18, <1>19, <1>20 DEF IInv

-----------------------------------------------------------------------------
(* Steps of the client. *)

\* A request leaves.
LEMMA SendSteps ==
    ASSUME Typed, NEW q \in Wish, NEW copies \in [Region -> Copy], Send(q, copies)
    PROVE  LET n == Len(up) + 1
               m == Sent(q, copies)
           IN  /\ m \in RequestMessage /\ m.is = "request"
               /\ m.id = nextId + 1 /\ m.region = q.region /\ m.subscribe = q.subscribe
               /\ m.known = IF copies[q.region].there THEN copies[q.region].revision ELSE 0
               /\ pending' \in Query /\ pending' # None
               /\ pending'.id = nextId + 1 /\ pending'.region = q.region /\ pending'.subscribe = q.subscribe
               /\ nextId' \in Nat
               /\ up' \in Seq(UpMessage) /\ DOMAIN up' = DOMAIN up \cup {n} /\ n \notin DOMAIN up
               /\ up'[n] = m /\ \A i \in DOMAIN up : up'[i] = up[i]
               /\ \A x, d : Leads(up, d, x) => Leads(up', d, IF q.subscribe THEN q.region ELSE x)
<1> DEFINE n == Len(up) + 1
           m == Sent(q, copies)
<1>1. q.region \in Region /\ q.subscribe \in BOOLEAN /\ copies[q.region].revision \in Nat /\ nextId \in Nat
  BY DEF Wish, Copy, Typed
<1>2. /\ m \in RequestMessage /\ m.is = "request"
      /\ m.id = nextId + 1 /\ m.region = q.region /\ m.subscribe = q.subscribe
      /\ m.known = IF copies[q.region].there THEN copies[q.region].revision ELSE 0
  BY <1>1 DEF Sent, RequestMessage
<1>3. /\ pending' = [id |-> nextId + 1, region |-> q.region, subscribe |-> q.subscribe]
      /\ up' = Append(up, m) /\ nextId' = nextId + 1
  BY DEF Send
<1> HIDE DEF m
<1>4. pending' \in Query /\ nextId' \in Nat
  BY <1>1, <1>3 DEF Query
<1>5. up \in Seq(UpMessage) /\ m \in UpMessage
  BY <1>2 DEF Typed, UpMessage
<1>6. /\ up' \in Seq(UpMessage) /\ Len(up) \in Nat /\ DOMAIN up = 1 .. Len(up) /\ DOMAIN up' = 1 .. Len(up) + 1
      /\ \A i \in DOMAIN up : up'[i] = up[i]
  BY <1>3, <1>5, Appended
<1>7. up'[n] = m
  BY <1>3, <1>5, Appended
<1>8. DOMAIN up' = DOMAIN up \cup {n} /\ n \notin DOMAIN up
  BY <1>6
<1>9. ASSUME NEW x, NEW d, Leads(up, d, x) PROVE Leads(up', d, IF q.subscribe THEN q.region ELSE x)
  <2>1. Leads(up', d, IF Decides(m) THEN Gives(m) ELSE x)
    BY <1>3, <1>5, <1>9, LeadsAppend
  <2>2. (Decides(m) <=> q.subscribe) /\ Gives(m) = q.region
    BY <1>2 DEF Decides, Gives
  <2>3. QED
    BY <2>1, <2>2
<1>10. QED
  BY <1>2, <1>3, <1>4, <1>6, <1>7, <1>8, <1>9, NoneAssumption DEF m

\* A preview is never of the region that patches are for.
LEMMA AskStep ==
    ASSUME IInv, connected, NEW q \in Wish, Ask(q), ~ q.subscribe => subscribed # q.region,
           asked' = (IF q.subscribe THEN q.region ELSE asked), greet' \in BOOLEAN, greet' => greet,
           UNCHANGED <<board, saved, tiles, dirty, revision, sub, pump, cast, down, rendered, foreign, unrendered>>,
           UNCHANGED <<connected, shown, subscribed>>
    PROVE  IInv'
<1>0. Typed /\ Rounds /\ OneTrip /\ Clients /\ Servers /\ Wishes /\ Honest /\ Flows /\ UpToDate /\ Ahead
  BY DEF IInv
<1>1. q.region \in Region /\ q.subscribe \in BOOLEAN /\ q # None
  BY NoneAssumption DEF Wish
<1>2. /\ Patches' = Patches /\ Answers' = Answers /\ Cast' = Cast
      /\ (Busy' <=> Busy) /\ (Subscribing' <=> Subscribing) /\ (Serving' <=> Serving)
      /\ \A s : Base(s)' = Base(s) /\ (Lost(s)' <=> Lost(s))
  BY DEF Patches, Answers, Cast, Busy, Subscribing, Serving, Base, Lost
<1>3. Rounds' /\ Servers'
  BY <1>0, <1>2 DEF Rounds, Servers
<1>4. CASE pending = None
  <2>1. Send(q, shown) /\ queued' = None /\ queued = None
    BY <1>0, <1>4 DEF Ask, OneTrip
  <2> DEFINE n == Len(up) + 1
             m == Sent(q, shown)
  <2>2. /\ m \in RequestMessage /\ m.is = "request"
        /\ m.id = nextId + 1 /\ m.region = q.region /\ m.subscribe = q.subscribe
        /\ m.known = IF shown[q.region].there THEN shown[q.region].revision ELSE 0
        /\ pending' \in Query /\ pending' # None
        /\ pending'.id = nextId + 1 /\ pending'.region = q.region /\ pending'.subscribe = q.subscribe
        /\ nextId' \in Nat
        /\ up' \in Seq(UpMessage) /\ DOMAIN up' = DOMAIN up \cup {n} /\ n \notin DOMAIN up
        /\ up'[n] = m /\ \A i \in DOMAIN up : up'[i] = up[i]
        /\ \A x, d : Leads(up, d, x) => Leads(up', d, IF q.subscribe THEN q.region ELSE x)
    BY <1>0, <2>1, SendSteps DEF Typed
  <2> HIDE DEF m, n
  <2>3. Asking = {} /\ ~ Busy /\ Answers = {} /\ ~ Cut /\ ~ Cut'
    BY <1>0, <1>2, <1>4 DEF OneTrip, Fits, Cut
  <2>4. Asking' = {n}
    BY <2>2, <2>3 DEF Asking
  <2>5. Typed'
    BY <1>0, <1>1, <2>1, <2>2 DEF Typed
  <2>6. OneTrip'
    <3>1. \A i : i = n => up'[i] = m
      BY <2>2
    <3>2. \A i : i = n => Fits(up[i])'
      BY <2>2, <3>1 DEF Fits
    <3>3. QED
      BY <1>2, <2>2, <2>3, <2>4, <3>2 DEF OneTrip
  <2>7. Clients'
    BY <1>0, <2>1, <2>2 DEF Clients
  <2>8. Wishes'
    <3>1. Granted = subscribed /\ asked = subscribed /\ Leads(up, Kept, subscribed)
      BY <1>0, <1>4, <2>1 DEF Wishes, Granted
    <3>2. Granted' = (IF q.subscribe THEN q.region ELSE subscribed) /\ Kept' = Kept
      BY <2>2 DEF Granted, Kept
    <3>3. QED
      BY <2>1, <2>2, <3>1, <3>2 DEF Wishes
  <2>9. Honest'
    BY <1>0, <1>2, SameFloors DEF Honest, HonestPatches, HonestAnswers, HonestCopies
  <2>10. Flows' /\ UpToDate'
    BY <1>0, <1>2, <2>3, SameFloors DEF Flows, UpToDate
  <2>11. Ahead'
    <3>1. Fresh' /\ ReadsAhead' /\ AnswersAhead'
      BY <1>0, <1>2, <2>3 DEF Ahead, Fresh, ReadsAhead, AnswersAhead
    <3>2. KnownHonest'
      <4>1. m.known # 0 => shown[m.region].there /\ m.known <= shown[m.region].revision
        <5>1. shown[q.region].revision \in Nat
          BY <1>0, <1>1 DEF Typed, Copy
        <5>2. QED
          BY <2>2, <5>1
      <4>2. up'[n] = m
        BY <2>2
      <4>3. \A i \in Asking' : i = n
        BY <2>4
      <4>4. QED
        BY <4>1, <4>2, <4>3 DEF KnownHonest
    <3>3. QED
      BY <3>1, <3>2 DEF Ahead
  <2>12. QED
    BY <1>3, <2>5, <2>6, <2>7, <2>8, <2>9, <2>10, <2>11 DEF IInv
<1>5. CASE pending # None
  <2>1. /\ UNCHANGED <<up, pending, nextId>>
        /\ \/ q.subscribe /\ queued' = Behind(pending, q)
           \/ ~ q.subscribe /\ (pending.subscribe \/ (queued # None /\ queued.subscribe)) /\ queued' = queued
           \/ ~ q.subscribe /\ ~ pending.subscribe /\ ~ (queued # None /\ queued.subscribe)
              /\ queued' \in {None, q}
    BY <1>5 DEF Ask, Behind
  <2>2. Behind(pending, q) = None => pending.region = q.region /\ pending.subscribe = q.subscribe
    BY <1>1 DEF Behind
  <2>3. Behind(pending, q) \in {None, q}
    BY DEF Behind
  <2>4. Typed'
    BY <1>0, <1>1, <2>1, <2>3 DEF Typed
  <2>5. OneTrip'
    BY <1>0, <1>2, <1>5, <2>1 DEF OneTrip, Asking, Fits
  <2>6. Clients'
    BY <1>0, <1>1, <1>5, <2>1, <2>3 DEF Clients
  <2>7. Wishes'
    <3>1. Granted' = Granted /\ Kept' = Kept
      BY <2>1 DEF Granted, Kept
    <3>2. asked' = IF queued' # None /\ queued'.subscribe THEN queued'.region ELSE Granted
      <4>1. CASE q.subscribe
        BY <1>1, <1>5, <2>1, <2>2, <2>3, <4>1 DEF Granted
      <4>2. CASE ~ q.subscribe
        BY <1>0, <1>1, <1>5, <2>1, <4>2 DEF Wishes
      <4>3. QED
        BY <4>1, <4>2
    <3>3. QED
      BY <1>0, <2>1, <3>1, <3>2 DEF Wishes
  <2>8. (Cut' <=> Cut) /\ Asking' = Asking /\ \A s : AnswerAhead(s)' <=> AnswerAhead(s)
    BY <2>1 DEF Cut, Answers, Asking, AnswerAhead
  <2>9. Honest' /\ Flows' /\ UpToDate'
    BY <1>0, <1>2, <2>8, SameFloors DEF Honest, HonestPatches, HonestAnswers, HonestCopies, Flows, UpToDate
  <2>10. Ahead'
    BY <1>0, <1>2, <2>1, <2>8, SameFloors DEF Ahead, Fresh, KnownHonest, ReadsAhead, AnswersAhead
  <2>11. QED
    BY <1>3, <2>4, <2>5, <2>6, <2>7, <2>9, <2>10 DEF IInv
<1>6. QED
  BY <1>4, <1>5

LEMMA ViewStep ==
    ASSUME IInv, NEW r \in Region, View(r)
    PROVE  IInv'
<1> DEFINE q == [region |-> r, subscribe |-> TRUE]
<1>1. q \in Wish /\ q.subscribe /\ q.region = r
  BY DEF Wish
<1>2. /\ connected /\ Ask(q) /\ asked' = r
      /\ UNCHANGED <<board, saved, tiles, dirty, revision, sub, pump, cast, down, rendered, foreign, unrendered>>
      /\ UNCHANGED <<connected, shown, subscribed, greet>>
  BY DEF View, server, notes
<1>3. greet' \in BOOLEAN
  BY <1>2 DEF IInv, Typed
<1> HIDE DEF q
<1>4. QED
  BY <1>1, <1>2, <1>3, AskStep

LEMMA PreviewStep ==
    ASSUME IInv, NEW r \in Previews, Preview(r)
    PROVE  IInv'
<1> DEFINE q == [region |-> r, subscribe |-> FALSE]
<1>0. r \in Region
  BY OverviewAssumption
<1>1. q \in Wish /\ ~ q.subscribe /\ q.region = r
  BY <1>0 DEF Wish
<1>2. /\ connected /\ Ask(q) /\ asked' = asked
      /\ UNCHANGED <<board, saved, tiles, dirty, revision, sub, pump, cast, down, rendered, foreign, unrendered>>
      /\ UNCHANGED <<connected, shown, subscribed>>
  BY DEF Preview, server, notes
<1>3. greet' \in BOOLEAN /\ (greet' => greet) /\ (greet \/ ~ shown[r].there)
  <2>1. greet' = FALSE \/ greet' = greet
    BY DEF Preview
  <2>2. greet \in BOOLEAN
    BY DEF IInv, Typed
  <2>3. greet \/ ~ shown[r].there
    BY DEF Preview
  <2>4. greet' \in BOOLEAN
    BY <2>1, <2>2
  <2>5. greet' => greet
    BY <2>1
  <2>6. QED
    BY <2>3, <2>4, <2>5
<1>4. subscribed # r
  BY <1>0, <1>3, NoneAssumption, OverviewAssumption DEF IInv, Clients
<1> HIDE DEF q
<1>5. QED
  BY <1>1, <1>2, <1>3, <1>4, AskStep

LEMMA ReleaseStep ==
    ASSUME IInv, Release
    PROVE  IInv'
<1>0. Typed /\ Rounds /\ OneTrip /\ Clients /\ Servers /\ Wishes /\ Honest /\ Flows /\ UpToDate /\ Ahead
  BY DEF IInv
<1> DEFINE m == [is |-> "release"]
           n == Len(up) + 1
<1>1. /\ connected /\ queued' = None /\ pending' = Released(pending) /\ subscribed' = None /\ asked' = None
      /\ up' = Append(up, m)
      /\ UNCHANGED <<board, saved, tiles, dirty, revision, sub, pump, cast, down, rendered, foreign, unrendered>>
      /\ UNCHANGED <<connected, nextId, shown, greet>>
  BY DEF Release, server, notes
<1>2. /\ pending = None => pending' = None
      /\ pending # None => /\ pending' \in Query /\ pending' # None /\ ~ pending'.subscribe
                           /\ pending'.id = pending.id /\ pending'.region = pending.region
                           /\ pending'.region \in Region
  <2>1. CASE pending = None
    BY <1>1, <2>1 DEF Released
  <2>2. CASE pending # None
    <3>1. pending \in Query /\ pending' = [pending EXCEPT !.subscribe = FALSE]
      BY <1>0, <1>1, <2>2 DEF Released, Typed
    <3>2. /\ pending' \in Query /\ ~ pending'.subscribe
          /\ pending'.id = pending.id /\ pending'.region = pending.region /\ pending'.region \in Region
      BY <3>1 DEF Query
    <3>3. QED
      BY <2>2, <3>2, NoneAssumption
  <2>3. QED
    BY <2>1, <2>2
<1>3. up \in Seq(UpMessage) /\ m \in UpMessage /\ m.is = "release"
  BY <1>0 DEF Typed, UpMessage, ReleaseMessage
<1>4. /\ up' \in Seq(UpMessage) /\ DOMAIN up = 1 .. Len(up) /\ DOMAIN up' = 1 .. Len(up) + 1 /\ Len(up) \in Nat
      /\ \A i \in DOMAIN up : up'[i] = up[i]
  BY <1>1, <1>3, Appended
<1>5. up'[n] = m
  BY <1>1, <1>3, Appended
<1>6. Asking' = Asking /\ \A i \in Asking : up'[i] = up[i]
  <2>1. DOMAIN up' = DOMAIN up \cup {n}
    BY <1>4
  <2>2. up'[n].is # "request"
    BY <1>3, <1>5
  <2>3. QED
    BY <1>4, <2>1, <2>2 DEF Asking
<1>7. /\ Patches' = Patches /\ Answers' = Answers /\ Cast' = Cast
      /\ (Busy' <=> Busy) /\ (Subscribing' <=> Subscribing) /\ (Serving' <=> Serving) /\ ~ Cut'
      /\ \A s : Base(s)' = Base(s) /\ (Lost(s)' <=> Lost(s)) /\ (AnswerAhead(s) => AnswerAhead(s)')
  <2>1. ~ Cut'
    BY <1>2 DEF Cut
  <2>2. QED
    BY <1>1, <2>1 DEF Patches, Answers, Cast, Busy, Subscribing, Serving, Base, Lost, AnswerAhead
<1>8. Typed'
  BY <1>0, <1>1, <1>2, <1>4 DEF Typed
<1>9. Rounds' /\ Servers'
  BY <1>0, <1>1, <1>7 DEF Rounds, Servers
<1>10. OneTrip'
  <2>2. \A i \in Asking : Fits(up[i])'
    BY <1>0, <1>1, <1>2, <1>6 DEF OneTrip, Fits
  <2>3. Busy => Fits(pump.q)'
    BY <1>0, <1>1, <1>2 DEF OneTrip, Fits
  <2>4. QED
    BY <1>0, <1>1, <1>2, <1>6, <1>7, <2>2, <2>3 DEF OneTrip
<1>11. Clients'
  BY <1>0, <1>1, <1>2, OverviewAssumption DEF Clients
<1>12. Wishes'
  <2>1. Leads(up', Kept, None)
    <3>1. Leads(up', Kept, IF Decides(m) THEN Gives(m) ELSE Granted)
      BY <1>0, <1>1, <1>3, LeadsAppend DEF Wishes
    <3>2. QED
      BY <3>1 DEF Decides, Gives
  <2>2. Granted' = None /\ Kept' = Kept
    BY <1>1, <1>2 DEF Granted, Kept
  <2>3. QED
    BY <1>1, <2>1, <2>2 DEF Wishes
<1>13. Honest'
  BY <1>0, <1>1, <1>7, SameFloors DEF Honest, HonestPatches, HonestAnswers, HonestCopies
<1>14. Flows' /\ UpToDate'
  BY <1>1, <1>7 DEF Flows, UpToDate
<1>15. Ahead'
  <2>1. Fresh'
    BY <1>0, <1>1, <1>7 DEF Ahead, Fresh
  <2>2. KnownHonest'
    BY <1>0, <1>1, <1>6 DEF Ahead, KnownHonest
  <2>3. ReadsAhead' /\ AnswersAhead'
    BY <1>0, <1>1, <1>7, SameFloors DEF Ahead, ReadsAhead, AnswersAhead
  <2>4. QED
    BY <2>1, <2>2, <2>3 DEF Ahead
<1>16. QED
  BY <1>8, <1>9, <1>10, <1>11, <1>12, <1>13, <1>14, <1>15 DEF IInv

LEMMA FlowMeets ==
    ASSUME NEW S, NEW d \in Seq(S), d # <<>>, NEW I \in SUBSET DOMAIN d, 1 \in I,
           NEW K \in SUBSET PatchMessage, Messages(d, I) \subseteq PatchMessage,
           NEW r \in Region, NEW v \in Nat, NEW c \in Pictures, NEW F,
           \A w \in Nat, t \in Tile : F[w][t] \in Int,
           Flow(d, I, K, r, v, c, F), d[1].revision > v,
           NEW f, NEW P, \A t \in Tile : f[t] \in Int, Reaches(Messages(d, I) \cup K, r, v, c, f, P)
    PROVE  Reaches(Messages(Tail(d), Shift(I)) \cup K, r, d[1].revision, Over(c, d[1]), f, P)
BY FlowTake

LEMMA FlowHead ==
    ASSUME NEW d, NEW I, 1 \in I, NEW K, NEW r, NEW v, NEW c, NEW F, Flow(d, I, K, r, v, c, F), d[1].revision > v
    PROVE  /\ d[1].level = Level[r] /\ DOMAIN d[1].cells \subseteq Covers[r]
           /\ \A t \in DOMAIN d[1].cells : c[t] <= d[1].cells[t]
<1>1. d[1] \in Live(Messages(d, I) \cup K, v)
  BY DEF Live, Messages
<1>2. QED
  BY <1>1 DEF Flow, Stream

\* The head of the messages for the client is taken.
LEMMA Received ==
    ASSUME Typed, down # <<>>, down' = Tail(down)
    PROVE  /\ down \in Seq(DownMessage) /\ down' \in Seq(DownMessage)
           /\ 1 \in DOMAIN down /\ Head(down) = down[1]
           /\ \A i \in DOMAIN down' : i + 1 \in DOMAIN down /\ down'[i] = down[i + 1]
<1>1. down \in Seq(DownMessage)
  BY DEF Typed
<1>2. QED
  BY <1>1, Shortened

\* What the copy on view is after a patch, if it is of this process.
LEMMA PatchMet ==
    ASSUME Typed, Honest, Clients, ReceivePatch, subscribed # None, subscribed \notin foreign,
           NEW I \in SUBSET Patches, 1 \in I, NEW K \in SUBSET Cast,
           Flow(down, I, K, subscribed, shown[subscribed].revision, shown[subscribed].cells, Floors(Level[subscribed]))
    PROVE  LET m == down[1]
               r == subscribed
               c == shown[r]
               e == shown'[r]
               F == Floors(Level[r])
           IN  /\ \A x \in Region \ {r} : shown'[x] = shown[x]
               /\ \/ ~ m.revision > c.revision /\ e = c
                  \/ /\ m.revision > c.revision /\ m.level = Level[r] /\ e.there
                     /\ e.revision = m.revision /\ e.cells = Over(c.cells, m)
               /\ e \in Copy /\ e.revision >= c.revision /\ \A t \in Tile : c.cells[t] <= e.cells[t]
               /\ Shows(Level[r], e.revision, e.cells, Covers[r])
               /\ Flow(down', Shift(I), K, r, e.revision, e.cells, F)
               /\ \A f, P : (\A t \in Tile : f[t] \in Int) /\ Reaches(Messages(down, I) \cup K, r, c.revision, c.cells, f, P)
                              => Reaches(Messages(down', Shift(I)) \cup K, r, e.revision, e.cells, f, P)
<1> DEFINE m == down[1]
           r == subscribed
           c == shown[r]
           e == shown'[r]
           F == Floors(Level[r])
           meant == r # None /\ shown[r].there /\ Level[r] = m.level /\ m.revision > shown[r].revision
<1>1. /\ down # <<>> /\ Head(down).is = "patch" /\ down' = Tail(down)
      /\ down \in Seq(DownMessage) /\ Head(down) = m
  BY Received DEF ReceivePatch
<1>2. shown' = IF meant THEN [shown EXCEPT ![r] = Patched(@, r, m)] ELSE shown
  BY <1>1 DEF ReceivePatch, Newer
<1>3. /\ r \in Region /\ c \in Copy /\ c.cells \in Pictures /\ c.revision \in Nat /\ c.there
      /\ Shows(Level[r], c.revision, c.cells, Covers[r]) /\ Covers[r] \subseteq Tile
      /\ shown \in [Region -> Copy]
  BY ShownHonest, CoversTiles DEF Typed
<1>4. /\ I \subseteq DOMAIN down /\ K \subseteq PatchMessage /\ Messages(down, I) \subseteq PatchMessage
      /\ m \in Messages(down, Patches) /\ m \in PatchMessage
  BY DownType DEF Messages
<1>5. \A w \in Nat, t \in Tile : F[w][t] = Floor(Level[r], w, t) /\ F[w][t] \in Int
  BY FloorType
<1>6. HonestPatch(m) /\ m.revision \in DOMAIN rendered /\ m.revision \in Nat /\ \A t \in DOMAIN m.cells : m.cells[t] \in Nat
  BY <1>4, PatchHonest, PatchType DEF Honest
<1>7. CASE ~ m.revision > c.revision
  <2>1. shown' = shown
    BY <1>2, <1>7
  <2>2. /\ Flow(down', Shift(I), K, r, c.revision, c.cells, F)
        /\ \A f, P : Reaches(Messages(down, I) \cup K, r, c.revision, c.cells, f, P)
                       => Reaches(Messages(down', Shift(I)) \cup K, r, c.revision, c.cells, f, P)
    BY <1>1, <1>4, <1>7, FlowSkip
  <2>3. c.revision >= c.revision /\ \A t \in Tile : c.cells[t] <= c.cells[t]
    BY <1>3 DEF Pictures
  <2>4. QED
    BY <1>3, <1>7, <2>1, <2>2, <2>3
<1>8. CASE m.revision > c.revision
  <2>1. /\ m.level = Level[r] /\ DOMAIN m.cells \subseteq Covers[r]
        /\ Flow(down', Shift(I), K, r, m.revision, Over(c.cells, m), F)
        /\ \A t \in Covers[r] : F[m.revision][t] <= Over(c.cells, m)[t]
        /\ \A t \in Tile : c.cells[t] <= Over(c.cells, m)[t]
        /\ \A f, P : (\A t \in Tile : f[t] \in Int) /\ Reaches(Messages(down, I) \cup K, r, c.revision, c.cells, f, P)
                       => Reaches(Messages(down', Shift(I)) \cup K, r, m.revision, Over(c.cells, m), f, P)
    <3>1. Flow(down, I, K, r, c.revision, c.cells, F)
      OBVIOUS
    <3>2. down[1].revision > c.revision /\ \A w \in Nat, t \in Tile : F[w][t] \in Int
      BY <1>5, <1>8
    <3> HIDE DEF F, c
    <3>3. /\ down \in Seq(DownMessage) /\ down # <<>> /\ I \in SUBSET DOMAIN down /\ 1 \in I
          /\ K \in SUBSET PatchMessage /\ Messages(down, I) \subseteq PatchMessage
          /\ r \in Region /\ c.revision \in Nat /\ c.cells \in Pictures
      BY <1>1, <1>3, <1>4
    <3>4. Flow(Tail(down), Shift(I), K, r, down[1].revision, Over(c.cells, down[1]), F)
      BY <3>1, <3>2, <3>3, FlowTake
    <3>5. \A t \in Covers[r] : F[down[1].revision][t] <= Over(c.cells, down[1])[t]
      BY <3>1, <3>2, <3>3, FlowTake
    <3>6. ASSUME NEW f, NEW P, \A t \in Tile : f[t] \in Int,
                 Reaches(Messages(down, I) \cup K, r, c.revision, c.cells, f, P)
          PROVE  Reaches(Messages(Tail(down), Shift(I)) \cup K, r, down[1].revision, Over(c.cells, down[1]), f, P)
      BY <3>1, <3>2, <3>3, <3>6, FlowMeets
    <3>7. /\ down[1].level = Level[r] /\ DOMAIN down[1].cells \subseteq Covers[r]
          /\ \A t \in DOMAIN down[1].cells : c.cells[t] <= down[1].cells[t]
      BY <3>1, <3>2, <3>3, FlowHead
    <3>8. \A t \in Tile : c.cells[t] <= Over(c.cells, down[1])[t]
      BY <3>3, <3>7 DEF Over, Pictures
    <3>9. QED
      BY <1>1, <3>4, <3>5, <3>6, <3>7, <3>8
  <2>2. meant
    BY <1>3, <1>8, <2>1
  <2>3. \A x \in Region \ {r} : shown'[x] = shown[x]
    BY <1>2, <1>3, <2>2
  <2>4. e = Patched(c, r, m)
    BY <1>2, <1>3, <2>2
  <2>5. Over(c.cells, m) \in Pictures
    BY <1>3, <1>6 DEF Over, Pictures
  <2>6. [t \in Tile |-> IF t \in DOMAIN m.cells \cap Covers[r] THEN m.cells[t] ELSE c.cells[t]] = Over(c.cells, m)
    BY <2>1 DEF Over
  <2>7. e = [c EXCEPT !.revision = m.revision, !.cells = Over(c.cells, m)]
    BY <1>3, <2>1, <2>4, <2>6 DEF Patched, Copy
  <2>8. e \in Copy /\ e.there /\ e.revision = m.revision /\ e.cells = Over(c.cells, m)
    BY <1>3, <1>6, <2>5, <2>7 DEF Copy
  <2>9. Shows(Level[r], m.revision, Over(c.cells, m), Covers[r])
    <3> SUFFICES ASSUME NEW t \in Covers[r]
                 PROVE  Floor(Level[r], m.revision, t) <= Over(c.cells, m)[t] /\ Over(c.cells, m)[t] <= Now(Level[r], t)
      BY <1>6 DEF Shows
    <3>1. t \in Tile /\ Floor(Level[r], m.revision, t) <= Over(c.cells, m)[t]
      BY <1>3, <1>5, <1>6, <2>1
    <3>2. c.cells[t] <= Now(Level[r], t)
      BY <1>3 DEF Shows
    <3>3. t \in DOMAIN m.cells => m.cells[t] <= Now(Level[r], t)
      BY <1>6, <2>1 DEF HonestPatch, Shows
    <3>4. QED
      BY <3>1, <3>2, <3>3 DEF Over
  <2>10. m.revision >= c.revision
    BY <1>3, <1>6, <1>8
  <2>11. QED
    BY <1>8, <2>1, <2>3, <2>8, <2>9, <2>10
<1>9. QED
  BY <1>7, <1>8

LEMMA FlowSkips ==
    ASSUME NEW S, NEW d \in Seq(S), d # <<>>, NEW I \in SUBSET DOMAIN d, NEW K, NEW r, NEW v, NEW c, NEW F,
           Flow(d, I, K, r, v, c, F), 1 \in I => ~ d[1].revision > v,
           NEW f, NEW P, Reaches(Messages(d, I) \cup K, r, v, c, f, P)
    PROVE  Reaches(Messages(Tail(d), Shift(I)) \cup K, r, v, c, f, P)
BY FlowSkip

LEMMA ReceivePatchStep ==
    ASSUME IInv, ReceivePatch
    PROVE  IInv'
<1>0. Typed /\ Rounds /\ OneTrip /\ Clients /\ Servers /\ Wishes /\ Honest /\ Flows /\ UpToDate /\ Ahead
  BY DEF IInv
<1> DEFINE m == down[1]
<1>1. /\ down # <<>> /\ Head(down).is = "patch" /\ down' = Tail(down)
      /\ UNCHANGED <<board, saved, tiles, dirty, revision, sub, pump, cast, up, rendered, foreign, unrendered>>
      /\ UNCHANGED <<connected, pending, queued, nextId, subscribed, asked, greet>>
  BY DEF ReceivePatch, server, requests, notes
<1>2. /\ down \in Seq(DownMessage) /\ down' \in Seq(DownMessage) /\ Head(down) = m
      /\ \A i \in DOMAIN down' : i + 1 \in DOMAIN down /\ down'[i] = down[i + 1]
  BY <1>0, <1>1, Received
<1>3. /\ Patches' = Shift(Patches) /\ Answers' = Shift(Answers)
      /\ Front(down') = Shift(Front(down)) /\ Rear(down') = Shift(Rear(down))
      /\ 1 \in Front(down) /\ 1 \in Patches /\ 1 \notin Rear(down) /\ (Answers' = {} <=> Answers = {})
  BY <1>1, <1>2, TailPatch DEF Patches, Answers
<1>4. /\ Patches \subseteq DOMAIN down /\ Front(down) \subseteq Patches /\ Rear(down) \subseteq Patches
      /\ m \in PatchMessage /\ Cast \subseteq PatchMessage /\ m \in Messages(down, Patches)
      /\ \A i \in Patches : down[i] \in PatchMessage
      /\ \A s \in Answers : down[s] \in SnapshotMessage
  BY <1>0, <1>3, DownType DEF Messages
<1>5. /\ Patches' \subseteq DOMAIN down' /\ Answers' \subseteq DOMAIN down'
      /\ Front(down') \subseteq Patches' /\ Rear(down') \subseteq Patches'
  BY DEF Patches, PatchesIn, Answers, AnswersIn, Front, Rear
<1>6. /\ \A i \in Patches' : i + 1 \in Patches /\ down'[i] = down[i + 1]
      /\ \A i \in Front(down') : i + 1 \in Front(down) /\ down'[i] = down[i + 1]
      /\ \A i \in Answers' : i \in Nat /\ i + 1 \in Answers /\ down'[i] = down[i + 1]
      /\ Messages(down', Patches') \subseteq Messages(down, Patches)
  BY <1>2, <1>3, <1>5 DEF Shift, Messages
<1>7. /\ (Busy' <=> Busy) /\ (Subscribing' <=> Subscribing) /\ (Cut' <=> Cut) /\ (Serving' <=> Serving) /\ Cast' = Cast
      /\ Asking' = Asking
  BY <1>1, <1>3 DEF Busy, Subscribing, Cut, Serving, Cast, Asking
<1>8. /\ shown' \in [Region -> Copy]
      /\ \A x \in Region : /\ shown'[x].there = shown[x].there
                           /\ x # subscribed => shown'[x] = shown[x]
                           /\ \A t \in Tile \ Covers[x] : shown'[x].cells[t] = shown[x].cells[t]
  <2>1. CASE shown' = shown
    BY <1>0, <2>1 DEF Typed
  <2>2. CASE shown' # shown
    <3>1. subscribed # None /\ shown' = [shown EXCEPT ![subscribed] = Patched(@, subscribed, m)]
      BY <1>2, <2>2 DEF ReceivePatch
    <3> DEFINE c == shown[subscribed]
               e == shown'[subscribed]
    <3>2. subscribed \in Region /\ c \in Copy /\ c.cells \in Pictures /\ shown \in [Region -> Copy]
      BY <1>0, <3>1 DEF Typed, Copy
    <3>3. /\ e = Patched(c, subscribed, m) /\ \A x \in Region \ {subscribed} : shown'[x] = shown[x]
          /\ DOMAIN shown' = Region
      BY <3>1, <3>2
    <3>4. m.revision \in Nat /\ DOMAIN m.cells \subseteq Tile /\ \A t \in DOMAIN m.cells : m.cells[t] \in Nat
      BY <1>4, PatchType
    <3> DEFINE v == IF DOMAIN m.cells \subseteq Covers[subscribed] THEN m.revision ELSE c.revision
               p == [t \in Tile |-> IF t \in DOMAIN m.cells \cap Covers[subscribed] THEN m.cells[t] ELSE c.cells[t]]
    <3>5. p \in Pictures /\ v \in Nat /\ \A t \in Tile \ Covers[subscribed] : p[t] = c.cells[t]
      BY <3>2, <3>4 DEF Pictures, Copy
    <3>6. e = [c EXCEPT !.revision = v, !.cells = p]
      BY <3>3 DEF Patched
    <3> HIDE DEF v, p
    <3>7. e \in Copy /\ e.there = c.there /\ e.cells = p
      BY <3>2, <3>5, <3>6 DEF Copy
    <3>8. shown' \in [Region -> Copy]
      BY <3>1, <3>2, <3>3, <3>7
    <3>9. QED
      BY <3>3, <3>5, <3>7, <3>8
  <2>3. QED
    BY <2>1, <2>2
<1>9. Typed'
  BY <1>0, <1>1, <1>2, <1>8 DEF Typed
\* What the copy on view becomes, and its stream.
<1>10. ASSUME subscribed # None, subscribed \notin foreign
       PROVE  LET c == shown[subscribed]
                  e == shown'[subscribed]
                  F == Floors(Level[subscribed])
              IN /\ \/ ~ m.revision > c.revision /\ e = c
                    \/ /\ m.revision > c.revision /\ m.level = Level[subscribed]
                       /\ e.revision = m.revision /\ e.cells = Over(c.cells, m)
                 /\ e.revision \in Nat /\ c.revision \in Nat /\ e.revision >= c.revision
                 /\ c.cells \in Pictures /\ e.cells \in Pictures
                 /\ \A t \in Tile : c.cells[t] <= e.cells[t]
                 /\ Shows(Level[subscribed], e.revision, e.cells, Covers[subscribed])
                 /\ Cut => Flow(down', Front(down'), {}, subscribed, e.revision, e.cells, F)
                 /\ ~ Cut => /\ Flow(down', Patches', Cast, subscribed, e.revision, e.cells, F)
                             /\ \A f, P : (\A t \in Tile : f[t] \in Int)
                                   /\ Reaches(Messages(down, Patches) \cup Cast, subscribed, c.revision, c.cells, f, P)
                                   => Reaches(Messages(down', Patches') \cup Cast, subscribed, e.revision, e.cells, f, P)
  <2> DEFINE c == shown[subscribed]
             e == shown'[subscribed]
             F == Floors(Level[subscribed])
  <2>1. c.revision \in Nat /\ c.cells \in Pictures
    BY <1>0, <1>10, ShownHonest
  <2>2. CASE Cut
    <3>1. Flow(down, Front(down), {}, subscribed, c.revision, c.cells, F)
      BY <1>0, <1>10, <2>2 DEF Flows
    <3>2. {} \in SUBSET Cast
      OBVIOUS
    <3>3. /\ \/ ~ m.revision > c.revision /\ e = c
             \/ /\ m.revision > c.revision /\ m.level = Level[subscribed]
                /\ e.revision = m.revision /\ e.cells = Over(c.cells, m)
          /\ e \in Copy /\ e.revision >= c.revision /\ \A t \in Tile : c.cells[t] <= e.cells[t]
          /\ Shows(Level[subscribed], e.revision, e.cells, Covers[subscribed])
          /\ Flow(down', Shift(Front(down)), {}, subscribed, e.revision, e.cells, F)
      BY <1>0, <1>3, <1>4, <1>10, <3>1, <3>2, PatchMet
    <3>4. QED
      BY <1>3, <2>1, <2>2, <3>3 DEF Copy
  <2>3. CASE ~ Cut
    <3>1. Flow(down, Patches, Cast, subscribed, c.revision, c.cells, F)
      BY <1>0, <1>10, <2>3 DEF Flows
    <3>2. /\ \/ ~ m.revision > c.revision /\ e = c
             \/ /\ m.revision > c.revision /\ m.level = Level[subscribed]
                /\ e.revision = m.revision /\ e.cells = Over(c.cells, m)
          /\ e \in Copy /\ e.revision >= c.revision /\ \A t \in Tile : c.cells[t] <= e.cells[t]
          /\ Shows(Level[subscribed], e.revision, e.cells, Covers[subscribed])
          /\ Flow(down', Shift(Patches), Cast, subscribed, e.revision, e.cells, F)
          /\ \A f, P : (\A t \in Tile : f[t] \in Int)
                   /\ Reaches(Messages(down, Patches) \cup Cast, subscribed, c.revision, c.cells, f, P)
                   => Reaches(Messages(down', Shift(Patches)) \cup Cast, subscribed, e.revision, e.cells, f, P)
      BY <1>0, <1>3, <1>10, <3>1, PatchMet
    <3>3. QED
      BY <1>3, <2>1, <2>3, <3>2 DEF Copy
  <2>4. QED
    BY <2>2, <2>3
\* A copy that an answer, or the goroutine, calls unchanged does not change.
<1>11. ASSUME NEW s \in Answers
       PROVE  /\ down[s].region = subscribed => Cut
              /\ down[s].unchanged /\ down[s].region \notin foreign => shown'[down[s].region] = shown[down[s].region]
  <2>1. down[s].region = subscribed => Cut
    BY <1>0, <1>11 DEF OneTrip, Clients, Cut
  <2>2. down[s].region \in Region
    BY <1>4 DEF SnapshotMessage
  <2>3. ASSUME down[s].unchanged, subscribed \notin foreign, down[s].region = subscribed
        PROVE  shown'[subscribed] = shown[subscribed]
    <3>1. subscribed # None
      BY <2>2, <2>3, OverviewAssumption
    <3>2. shown[subscribed].revision = down[s].revision /\ m.revision <= down[s].revision
      BY <1>0, <1>3, <2>1, <2>3 DEF Ahead, AnswersAhead, AnswerAhead
    <3>3. m.revision \in Nat
      BY <1>4, PatchType
    <3>4. QED
      BY <1>10, <2>3, <3>1, <3>2, <3>3
  <2>4. QED
    BY <1>8, <2>1, <2>2, <2>3
<1>12. ASSUME Busy, pump.q.region \notin foreign
       PROVE  /\ pump.q.region = subscribed => pump.q.subscribe
              /\ pump.unchanged => shown'[pump.q.region] = shown[pump.q.region]
  <2>1. pump.q.region \in Region
    BY <1>0, <1>12 DEF Busy, Typed, Job, RequestMessage
  <2>2. pump.q.region = subscribed => pump.q.subscribe
    BY <1>0, <1>12 DEF OneTrip, Fits, Clients
  <2>3. ASSUME pump.unchanged, pump.q.region = subscribed
        PROVE  shown'[subscribed] = shown[subscribed]
    <3>1. subscribed # None
      BY <2>1, <2>3, OverviewAssumption
    <3>2. shown[subscribed].revision = pump.revision
      BY <1>0, <1>12, <2>3 DEF Ahead, ReadsAhead
    <3>3. m.revision <= pump.revision
      BY <1>0, <1>3, <1>12, <2>2, <2>3 DEF Ahead, Fresh, Subscribing, Busy
    <3>4. m.revision \in Nat /\ shown[subscribed].revision \in Nat
      BY <1>4, <1>10, <1>12, <2>3, <3>1, PatchType
    <3>5. QED
      BY <1>10, <1>12, <2>3, <3>1, <3>2, <3>3, <3>4
  <2>4. QED
    BY <1>8, <2>1, <2>2, <2>3
<1>13. Rounds' /\ Servers' /\ Wishes'
  BY <1>0, <1>1, <1>7 DEF Rounds, Servers, Wishes, Granted, Kept
<1>14. OneTrip'
  <2>1. ASSUME NEW s \in Answers'
        PROVE  /\ pending # None /\ down'[s].id = pending.id /\ down'[s].region = pending.region
               /\ \A j \in Answers' : j = s
    <3>1. s + 1 \in Answers /\ down'[s] = down[s + 1] /\ s \in Nat
      BY <1>6
    <3>2. \A j \in Answers' : j + 1 = s + 1 /\ j \in Nat
      BY <1>0, <1>6, <3>1 DEF OneTrip
    <3>3. QED
      BY <1>0, <3>1, <3>2 DEF OneTrip
  <2>2. QED
    BY <1>0, <1>1, <1>3, <1>7, <2>1 DEF OneTrip, Fits
<1>15. Clients'
  BY <1>0, <1>1, <1>2, <1>8 DEF Clients, Typed
<1>16. Honest'
  <2>1. HonestPatches'
    BY <1>0, <1>1, <1>6, SameFloors DEF Honest, HonestPatches
  <2>2. HonestAnswers'
    BY <1>0, <1>1, <1>6, <1>7, SameFloors DEF Honest, HonestAnswers
  <2>3. HonestCopies'
    <3>1. ASSUME NEW x \in Region, x \notin foreign, shown'[x].there
          PROVE  Shows(Level[x], shown'[x].revision, shown'[x].cells, Covers[x])
      <4>1. CASE x = subscribed
        <5>1. subscribed # None
          BY <4>1, OverviewAssumption
        <5>2. QED
          BY <1>10, <3>1, <4>1, <5>1
      <4>2. CASE x # subscribed
        BY <1>0, <1>8, <3>1, <4>2 DEF Honest, HonestCopies
      <4>3. QED
        BY <4>1, <4>2
    <3>2. ASSUME NEW x \in Region, ~ shown'[x].there
          PROVE  shown'[x].cells = Blank /\ x \notin foreign
      <4>1. x # subscribed
        BY <1>0, <1>8, <3>2, OverviewAssumption DEF Clients
      <4>2. QED
        BY <1>0, <1>8, <3>2, <4>1 DEF Honest, HonestCopies
    <3>3. \A x \in Region : \A t \in Tile \ Covers[x] : shown'[x].cells[t] = 0
      BY <1>0, <1>8 DEF Honest, HonestCopies
    <3>4. QED
      BY <1>1, <3>1, <3>2, <3>3, SameFloors DEF HonestCopies
  <2>4. QED
    BY <2>1, <2>2, <2>3 DEF Honest
<1>17. ASSUME NEW s \in Answers', NEW z \in Answers, z = s + 1
       PROVE  down'[s] = down[z] /\ (Lost(s)' <=> Lost(z)) /\ (~ Lost(z) => Base(s)' = Base(z))
  <2>1. down'[s] = down[z] /\ foreign' = foreign
    BY <1>1, <1>6, <1>17
  <2>2. Lost(s)' <=> Lost(z)
    BY <2>1 DEF Lost
  <2>3. ~ Lost(z) => Base(s)' = Base(z)
    BY <1>11, <2>1 DEF Base, Lost
  <2>4. QED
    BY <2>1, <2>2, <2>3
<1>18. ASSUME Cut, NEW z \in Answers, ~ Lost(z)
       PROVE  LET F == Floors(Level[down[z].region])
              IN  /\ Flow(down', Rear(down'), Cast, down[z].region, down[z].revision, Base(z), F)
                  /\ \A f, P : Reaches(Messages(down, Rear(down)) \cup Cast, down[z].region, down[z].revision, Base(z), f, P)
                         => Reaches(Messages(down', Rear(down')) \cup Cast, down[z].region, down[z].revision, Base(z), f, P)
  <2> DEFINE F == Floors(Level[down[z].region])
  <2>1. Flow(down, Rear(down), Cast, down[z].region, down[z].revision, Base(z), F)
    BY <1>0, <1>18 DEF Flows
  <2>2. Rear(down) \in SUBSET DOMAIN down
    BY <1>4
  <2>3. Flow(down', Rear(down'), Cast, down[z].region, down[z].revision, Base(z), F)
    <3>1. Flow(Tail(down), Shift(Rear(down)), Cast, down[z].region, down[z].revision, Base(z), F)
      BY <1>1, <1>2, <1>3, <2>1, <2>2, FlowSkip
    <3>2. QED
      BY <1>1, <1>3, <3>1
  <2>4. ASSUME NEW f, NEW P,
               Reaches(Messages(down, Rear(down)) \cup Cast, down[z].region, down[z].revision, Base(z), f, P)
        PROVE  Reaches(Messages(down', Rear(down')) \cup Cast, down[z].region, down[z].revision, Base(z), f, P)
    BY <1>1, <1>2, <1>3, <2>1, <2>2, <2>4, FlowSkips
  <2>5. QED
    BY <2>3, <2>4
<1>19. Flows'
  <2>1. ASSUME subscribed # None, subscribed \notin foreign
        PROVE  LET c == shown'[subscribed]
                   F == Floors(Level[subscribed])
               IN IF Cut THEN Flow(down', Front(down'), {}, subscribed, c.revision, c.cells, F)
                  ELSE Flow(down', Patches', Cast, subscribed, c.revision, c.cells, F)
    BY <1>10, <2>1
  <2>2. ASSUME Cut, NEW s \in Answers', ~ Lost(s)'
        PROVE  Flow(down', Rear(down'), Cast, down'[s].region, down'[s].revision, Base(s)', Floors(Level[down'[s].region]))
    <3>1. s + 1 \in Answers
      BY <1>6
    <3>2. QED
      BY <1>17, <1>18, <2>2, <3>1
  <2>3. QED
    BY <1>1, <1>7, <2>1, <2>2, SameFloors DEF Flows
<1>20. UpToDate'
  <2>0. ASSUME NEW l PROVE \A t \in Tile : Floors(l)[revision][t] \in Int
    <3>1. revision \in Nat
      BY <1>0 DEF Typed
    <3>2. QED
      BY <1>0, <3>1, FloorType
  <2>1. ASSUME Serving, ~ Cut, subscribed # None
        PROVE  /\ subscribed = sub.region
               /\ subscribed \notin foreign =>
                    Reaches(Messages(down', Patches') \cup Cast, subscribed, shown'[subscribed].revision,
                            shown'[subscribed].cells, Floors(Level[subscribed])[revision], sub.pending)
    BY <1>0, <1>10, <2>0, <2>1 DEF UpToDate
  <2>2. ASSUME Serving, Cut, NEW s \in Answers'
        PROVE  /\ down'[s].region = sub.region
               /\ ~ Lost(s)' =>
                    Reaches(Messages(down', Rear(down')) \cup Cast, down'[s].region, down'[s].revision,
                            Base(s)', Floors(Level[down'[s].region])[revision], sub.pending)
    <3>1. s + 1 \in Answers
      BY <1>6
    <3>2. QED
      BY <1>0, <1>17, <1>18, <2>2, <3>1 DEF UpToDate
  <2>3. QED
    BY <1>1, <1>7, <2>1, <2>2, SameFloors DEF UpToDate
<1>21. Ahead'
  <2>1. Fresh'
    <3>1. ASSUME subscribed # None, subscribed \notin foreign, shown[subscribed].revision >= pump.revision, pump # None
          PROVE  shown'[subscribed].revision >= pump.revision
      <4>1. pump.revision \in Nat
        BY <1>0, <3>1 DEF Typed, Job
      <4>2. QED
        BY <1>10, <3>1, <4>1
    <3>2. \A i \in Patches' : \E j \in Patches : down'[i] = down[j]
      BY <1>6
    <3>3. \A i \in Answers' : \E j \in Answers : down'[i] = down[j]
      BY <1>6
    <3>4. Subscribing => pump # None
      BY DEF Subscribing
    <3>5. QED
      BY <1>0, <1>1, <1>7, <3>1, <3>2, <3>3, <3>4 DEF Ahead, Fresh
  <2>2. KnownHonest'
    <3>1. ASSUME NEW i \in Asking, up[i].known # 0
          PROVE  /\ shown'[up[i].region].there
                 /\ up[i].region \notin foreign => up[i].known <= shown'[up[i].region].revision
      <4>1. up[i] \in RequestMessage
        BY <1>0 DEF Asking, Typed, UpMessage, ReleaseMessage
      <4>2. up[i].region \in Region /\ up[i].known \in Nat
        BY <4>1 DEF RequestMessage
      <4>3. /\ shown[up[i].region].there
            /\ up[i].region \notin foreign => up[i].known <= shown[up[i].region].revision
        BY <1>0, <3>1 DEF Ahead, KnownHonest
      <4>4. up[i].region = subscribed => subscribed # None
        BY <4>2, OverviewAssumption
      <4>5. QED
        BY <1>8, <1>10, <4>2, <4>3, <4>4
    <3>2. QED
      BY <1>1, <1>7, <3>1 DEF KnownHonest
  <2>3. ReadsAhead'
    <3> SUFFICES ASSUME Busy PROVE ReadsAhead'
      BY <1>7 DEF ReadsAhead
    <3> DEFINE r == pump.q.region
    <3>1. r \in Region /\ Covers[r] \subseteq Tile /\ pump.cells \in Pictures
      BY <1>0, CoversTiles DEF Busy, Typed, Job, RequestMessage
    <3>2. r = subscribed => subscribed # None
      BY <3>1, OverviewAssumption
    <3>3. CASE pump.unchanged
      BY <1>0, <1>1, <1>7, <1>8, <1>12, <3>1, <3>3, SameFloors DEF Ahead, ReadsAhead
    <3>4. CASE ~ pump.unchanged
      <4>1. ASSUME NEW t \in Covers[r] \ pump.todo, r \notin foreign
            PROVE  shown'[r].cells[t] <= pump.cells[t]
        <5>1. shown[r].cells[t] <= pump.cells[t]
          BY <1>0, <3>4, <4>1 DEF Ahead, ReadsAhead
        <5>2. ASSUME r = subscribed, shown'[r].cells = Over(shown[r].cells, m), m.level = Level[r]
              PROVE  shown'[r].cells[t] <= pump.cells[t]
          <6>1. t \in DOMAIN m.cells => m.cells[t] <= pump.cells[t]
            BY <1>0, <1>4, <1>12, <3>4, <4>1, <5>2 DEF Ahead, ReadsAhead
          <6>2. QED
            BY <3>1, <5>1, <5>2, <6>1 DEF Over
        <5>3. QED
          BY <1>8, <1>10, <3>1, <3>2, <4>1, <5>1, <5>2
      <4>2. ASSUME NEW t \in Covers[r] \ pump.todo, pump.q.subscribe
            PROVE  /\ Floor(Level[r], revision, t) <= pump.cells[t] \/ t \in sub.pending
                   /\ \A k \in Messages(down', Patches') \cup Cast :
                         k.level = Level[r] /\ t \in DOMAIN k.cells => k.cells[t] <= pump.cells[t]
        BY <1>0, <1>6, <3>4, <4>2 DEF Ahead, ReadsAhead
      <4>3. QED
        BY <1>1, <1>7, <3>4, <4>1, <4>2, SameFloors DEF ReadsAhead
    <3>5. QED
      BY <3>3, <3>4
  <2>4. AnswersAhead'
    <3> SUFFICES ASSUME NEW s \in Answers' PROVE AnswerAhead(s)'
      BY DEF AnswersAhead
    <3>1. PICK z \in Answers : z = s + 1 /\ down'[s] = down[z]
      BY <1>6
    <3> DEFINE r == down[z].region
    <3>2. r \in Region /\ Covers[r] \subseteq Tile /\ down[z].cells \in Pictures
      BY <1>4, CoversTiles DEF SnapshotMessage
    <3>3. AnswerAhead(z)
      BY <1>0 DEF Ahead, AnswersAhead
    <3>4. r = subscribed => subscribed # None /\ Cut
      BY <1>11, <3>2, OverviewAssumption
    <3>5. CASE down[z].unchanged
      <4>1. shown'[r].there /\ (r \notin foreign => shown'[r].revision = down[z].revision)
        BY <1>8, <1>11, <3>2, <3>3, <3>5 DEF AnswerAhead
      <4>2. Cut => \A i \in Front(down') : down'[i].revision <= down[z].revision
        BY <1>6, <3>3, <3>5 DEF AnswerAhead
      <4>3. QED
        BY <1>1, <1>7, <3>1, <3>5, <4>1, <4>2 DEF AnswerAhead
    <3>6. CASE ~ down[z].unchanged
      <4>1. ASSUME NEW t \in Covers[r], r \notin foreign
            PROVE  shown'[r].cells[t] <= down[z].cells[t]
        <5>1. shown[r].cells[t] <= down[z].cells[t]
          BY <3>3, <3>6, <4>1 DEF AnswerAhead
        <5>2. ASSUME r = subscribed, shown'[r].cells = Over(shown[r].cells, m), m.level = Level[r]
              PROVE  shown'[r].cells[t] <= down[z].cells[t]
          <6>1. t \in DOMAIN m.cells => m.cells[t] <= down[z].cells[t]
            BY <1>3, <3>3, <3>4, <3>6, <5>2 DEF AnswerAhead
          <6>2. QED
            BY <3>2, <5>1, <5>2, <6>1 DEF Over
        <5>3. QED
          BY <1>8, <1>10, <3>2, <3>4, <4>1, <5>1, <5>2
      <4>2. Cut => \A i \in Front(down') : \A t \in Covers[r] :
               down'[i].level = Level[r] /\ t \in DOMAIN down'[i].cells => down'[i].cells[t] <= down[z].cells[t]
        BY <1>6, <3>3, <3>6 DEF AnswerAhead
      <4>3. QED
        BY <1>1, <1>7, <3>1, <3>6, <4>1, <4>2 DEF AnswerAhead
    <3>7. QED
      BY <3>5, <3>6
  <2>5. QED
    BY <2>1, <2>2, <2>3, <2>4 DEF Ahead
<1>22. QED
  BY <1>9, <1>13, <1>14, <1>15, <1>16, <1>19, <1>20, <1>21 DEF IInv

\* The copy that an answer leaves.
LEMMA AnswerMet ==
    ASSUME Typed, Honest, Ahead, OneTrip, ReceiveSnapshot
    PROVE  LET m == down[1]
               r == m.region
               e == shown'[r]
           IN  /\ Answers = {1} /\ m \in SnapshotMessage /\ r \in Region
               /\ pending # None /\ m.id = pending.id /\ r = pending.region
               /\ shown' \in [Region -> Copy] /\ \A x \in Region \ {r} : shown'[x] = shown[x]
               /\ e.there /\ e.revision = m.revision
               /\ \A t \in Covers[r] : e.cells[t] = Base(1)[t]
               /\ \A t \in Tile \ Covers[r] : e.cells[t] = 0
               /\ foreign' \subseteq foreign /\ \A x \in Region \ {r} : x \in foreign' <=> x \in foreign
               /\ r \in foreign' <=> Lost(1)
               /\ r \notin foreign' => Shows(Level[r], e.revision, e.cells, Covers[r])
<1> DEFINE m == down[1]
           r == m.region
           e == shown'[r]
<1>1. /\ down # <<>> /\ Head(down).is = "snapshot" /\ down' = Tail(down) /\ down \in Seq(DownMessage)
      /\ 1 \in DOMAIN down /\ Head(down) = m
  BY Received DEF ReceiveSnapshot
<1>2. 1 \in Answers
  BY <1>1 DEF Answers, AnswersIn
<1>3. Answers = {1} /\ pending # None /\ m.id = pending.id /\ r = pending.region
  BY <1>2 DEF OneTrip
<1>4. m \in SnapshotMessage /\ r \in Region /\ m.revision \in Nat /\ m.cells \in Pictures /\ Covers[r] \subseteq Tile
  BY <1>2, DownType, CoversTiles DEF SnapshotMessage
<1>5. /\ shown \in [Region -> Copy] /\ shown[r] \in Copy
      /\ shown' = [shown EXCEPT ![r] =
             IF ~ m.unchanged THEN [revision |-> m.revision, there |-> TRUE,
                                    cells |-> [t \in Tile |-> IF t \in Covers[r] THEN m.cells[t] ELSE 0]]
             ELSE IF shown[r].there THEN [shown[r] EXCEPT !.revision = m.revision] ELSE shown[r]]
      /\ foreign' = IF m.unchanged THEN foreign ELSE foreign \ {r}
  BY <1>1, <1>4 DEF Typed, ReceiveSnapshot
<1>6. \A x \in Region \ {r} : shown'[x] = shown[x] /\ (x \in foreign' <=> x \in foreign)
  BY <1>4, <1>5
<1>7. m.unchanged => shown[r].there
  BY <1>2 DEF Ahead, AnswersAhead, AnswerAhead
<1>8. foreign' \subseteq foreign /\ (r \in foreign' <=> Lost(1))
  BY <1>5 DEF Lost
<1>9. /\ e \in Copy /\ e.there /\ e.revision = m.revision
      /\ \A t \in Covers[r] : e.cells[t] = Base(1)[t]
      /\ \A t \in Tile \ Covers[r] : e.cells[t] = 0
  <2>1. CASE m.unchanged
    <3>1. e = [shown[r] EXCEPT !.revision = m.revision]
      BY <1>4, <1>5, <1>7, <2>1
    <3>2. e \in Copy /\ e.there /\ e.revision = m.revision /\ e.cells = shown[r].cells
      BY <1>4, <1>5, <1>7, <2>1, <3>1 DEF Copy
    <3>3. \A t \in Tile \ Covers[r] : shown[r].cells[t] = 0
      BY <1>4 DEF Honest, HonestCopies
    <3>4. QED
      BY <2>1, <3>2, <3>3 DEF Base
  <2>2. CASE ~ m.unchanged
    <3> DEFINE p == [t \in Tile |-> IF t \in Covers[r] THEN m.cells[t] ELSE 0]
    <3>1. e = [revision |-> m.revision, there |-> TRUE, cells |-> p]
      BY <1>4, <1>5, <2>2
    <3>2. p \in Pictures /\ (\A t \in Covers[r] : p[t] = m.cells[t]) /\ \A t \in Tile \ Covers[r] : p[t] = 0
      BY <1>4 DEF Pictures
    <3> HIDE DEF p
    <3>3. QED
      BY <1>4, <2>2, <3>1, <3>2 DEF Copy, Base
  <2>3. QED
    BY <2>1, <2>2
<1>10. shown' \in [Region -> Copy]
  <2>1. DOMAIN shown' = Region /\ \A x \in Region : shown'[x] \in Copy
    BY <1>4, <1>5, <1>6, <1>9
  <2>2. QED
    BY <1>5, <2>1
<1>11. ~ Lost(1) => Shows(Level[r], e.revision, e.cells, Covers[r])
  <2>1. ~ Lost(1) => Shows(Level[r], m.revision, Base(1), Covers[r])
    BY <1>2, BaseHonest
  <2>2. QED
    BY <1>9, <2>1 DEF Shows
<1>12. QED
  BY <1>3, <1>4, <1>6, <1>8, <1>9, <1>10, <1>11

LEMMA ReceiveSnapshotStep ==
    ASSUME IInv, ReceiveSnapshot
    PROVE  IInv'
<1>0. Typed /\ Rounds /\ OneTrip /\ Clients /\ Servers /\ Wishes /\ Honest /\ Flows /\ UpToDate /\ Ahead
  BY DEF IInv
<1> DEFINE m == down[1]
           r == m.region
           e == shown'[r]
           n == Len(up) + 1
<1>1. /\ Answers = {1} /\ m \in SnapshotMessage /\ r \in Region
      /\ pending # None /\ m.id = pending.id /\ r = pending.region
      /\ shown' \in [Region -> Copy] /\ \A x \in Region \ {r} : shown'[x] = shown[x]
      /\ e.there /\ e.revision = m.revision
      /\ \A t \in Covers[r] : e.cells[t] = Base(1)[t]
      /\ \A t \in Tile \ Covers[r] : e.cells[t] = 0
      /\ foreign' \subseteq foreign /\ \A x \in Region \ {r} : x \in foreign' <=> x \in foreign
      /\ r \in foreign' <=> Lost(1)
      /\ r \notin foreign' => Shows(Level[r], e.revision, e.cells, Covers[r])
  BY <1>0, AnswerMet
<1>2. /\ ~ greet /\ down # <<>> /\ Head(down).is = "snapshot" /\ down' = Tail(down)
      /\ UNCHANGED <<board, saved, tiles, dirty, revision, sub, pump, cast, rendered, unrendered>>
      /\ UNCHANGED <<connected, asked, greet>>
      /\ down \in Seq(DownMessage) /\ down' \in Seq(DownMessage) /\ Head(down) = m
      /\ \A i \in DOMAIN down' : i + 1 \in DOMAIN down /\ down'[i] = down[i + 1]
  BY <1>0, Received DEF ReceiveSnapshot, server
<1>3. /\ subscribed' = IF pending.subscribe THEN r ELSE subscribed
      /\ queued' = None
      /\ queued = None => pending' = None /\ up' = up /\ nextId' = nextId
      /\ queued # None => Send(queued, shown')
  BY <1>1, <1>2 DEF ReceiveSnapshot, Complete
<1>4. queued # None =>
        /\ queued \in Wish
        /\ pending' \in Query /\ pending' # None
        /\ pending'.region = queued.region /\ pending'.subscribe = queued.subscribe /\ pending'.id = nextId + 1
        /\ nextId' \in Nat
        /\ up' \in Seq(UpMessage) /\ DOMAIN up' = DOMAIN up \cup {n} /\ n \notin DOMAIN up
        /\ up'[n].is = "request" /\ up'[n].id = nextId + 1 /\ up'[n].region = queued.region
        /\ up'[n].subscribe = queued.subscribe
        /\ up'[n].known = IF shown'[queued.region].there THEN shown'[queued.region].revision ELSE 0
        /\ \A i \in DOMAIN up : up'[i] = up[i]
        /\ \A x, d : Leads(up, d, x) => Leads(up', d, IF queued.subscribe THEN queued.region ELSE x)
  <2> SUFFICES ASSUME queued # None
               PROVE  /\ queued \in Wish
                      /\ pending' \in Query /\ pending' # None
                      /\ pending'.region = queued.region /\ pending'.subscribe = queued.subscribe
                      /\ pending'.id = nextId + 1
                      /\ nextId' \in Nat
                      /\ up' \in Seq(UpMessage) /\ DOMAIN up' = DOMAIN up \cup {n} /\ n \notin DOMAIN up
                      /\ up'[n].is = "request" /\ up'[n].id = nextId + 1 /\ up'[n].region = queued.region
                      /\ up'[n].subscribe = queued.subscribe
                      /\ up'[n].known = IF shown'[queued.region].there THEN shown'[queued.region].revision ELSE 0
                      /\ \A i \in DOMAIN up : up'[i] = up[i]
                      /\ \A x, d : Leads(up, d, x) => Leads(up', d, IF queued.subscribe THEN queued.region ELSE x)
    OBVIOUS
  <2>1. queued \in Wish
    BY <1>0 DEF Typed
  <2>2. Send(queued, shown') /\ shown' \in [Region -> Copy]
    BY <1>1, <1>3
  <2> DEFINE k == Sent(queued, shown')
  <2>3. /\ k.is = "request" /\ k.id = nextId + 1 /\ k.region = queued.region /\ k.subscribe = queued.subscribe
        /\ k.known = IF shown'[queued.region].there THEN shown'[queued.region].revision ELSE 0
        /\ pending' \in Query /\ pending' # None
        /\ pending'.id = nextId + 1 /\ pending'.region = queued.region /\ pending'.subscribe = queued.subscribe
        /\ nextId' \in Nat
        /\ up' \in Seq(UpMessage) /\ DOMAIN up' = DOMAIN up \cup {n} /\ n \notin DOMAIN up
        /\ up'[n] = k /\ \A i \in DOMAIN up : up'[i] = up[i]
        /\ \A x, d : Leads(up, d, x) => Leads(up', d, IF queued.subscribe THEN queued.region ELSE x)
    BY <1>0, <2>1, <2>2, SendSteps
  <2> HIDE DEF k, n
  <2>4. QED
    BY <2>1, <2>3
<1> HIDE DEF n
<1>5. Asking = {} /\ ~ Busy /\ connected
  BY <1>0, <1>1, <1>2 DEF OneTrip, Clients
<1>6. /\ queued = None => Asking' = {}
      /\ queued # None => Asking' = {n}
  BY <1>3, <1>4, <1>5 DEF Asking
<1>7. /\ Patches' = Shift(Patches) /\ Answers' = {} /\ 1 \notin Patches /\ Rear(down) = Patches
  BY <1>1, <1>2, TailAnswer DEF Patches, Answers
<1>8. /\ Patches \subseteq DOMAIN down /\ Cast \subseteq PatchMessage /\ Messages(down, Patches) \subseteq PatchMessage
      /\ Patches' \subseteq DOMAIN down'
  BY <1>0, DownType DEF Patches, PatchesIn
<1>9. \A i \in Patches' : i + 1 \in Patches /\ down'[i] = down[i + 1]
  BY <1>2, <1>7, <1>8 DEF Shift
<1>10. /\ ~ Busy' /\ (Subscribing' <=> Subscribing) /\ (Serving' <=> Serving) /\ Cast' = Cast
       /\ ~ Cut' /\ (Cut <=> pending.subscribe)
  BY <1>1, <1>2, <1>5, <1>7 DEF Busy, Subscribing, Serving, Cast, Cut
<1>11. ~ pending.subscribe => subscribed # r
  BY <1>0, <1>1 DEF Clients
<1>12. Typed'
  BY <1>0, <1>1, <1>2, <1>3, <1>4 DEF Typed
<1>13. Rounds' /\ Servers'
  BY <1>0, <1>2, <1>10 DEF Rounds, Servers
<1>14. OneTrip'
  <2>1. \A i \in Asking' : Fits(up[i])'
    BY <1>4, <1>6 DEF Fits
  <2>2. QED
    BY <1>3, <1>6, <1>7, <1>10, <2>1 DEF OneTrip
<1>15. Clients'
  <2>1. subscribed' # None => shown'[subscribed'].there
    BY <1>0, <1>1, <1>3 DEF Clients, Typed
  <2>2. pending' # None /\ ~ pending'.subscribe => subscribed' # pending'.region
    BY <1>0, <1>3, <1>4 DEF Clients
  <2>3. QED
    BY <1>2, <1>3, <1>5, <2>1, <2>2 DEF Clients
<1>16. Wishes'
  <2>1. Granted = subscribed' /\ Kept' = Kept
    BY <1>1, <1>2, <1>3 DEF Granted, Kept
  <2>2. /\ asked = IF queued # None /\ queued.subscribe THEN queued.region ELSE subscribed'
        /\ Leads(up, Kept, subscribed')
    BY <1>0, <1>5, <2>1 DEF Wishes
  <2>3. CASE queued = None
    BY <1>2, <1>3, <2>1, <2>2, <2>3 DEF Wishes, Granted
  <2>4. CASE queued # None
    <3>1. Granted' = IF queued.subscribe THEN queued.region ELSE subscribed'
      BY <1>4, <2>4 DEF Granted
    <3>2. Leads(up', Kept, IF queued.subscribe THEN queued.region ELSE subscribed')
      BY <1>4, <2>2, <2>4
    <3>3. QED
      BY <1>2, <1>3, <2>1, <2>2, <2>4, <3>1, <3>2 DEF Wishes
  <2>5. QED
    BY <2>3, <2>4
<1>17. Honest'
  <2>1. HonestPatches'
    BY <1>0, <1>2, <1>9, SameFloors DEF Honest, HonestPatches
  <2>2. HonestAnswers'
    BY <1>7, <1>10 DEF HonestAnswers
  <2>3. HonestCopies'
    <3>1. ASSUME NEW x \in Region, x \notin foreign', shown'[x].there
          PROVE  Shows(Level[x], shown'[x].revision, shown'[x].cells, Covers[x])
      BY <1>0, <1>1, <3>1 DEF Honest, HonestCopies
    <3>2. ASSUME NEW x \in Region, ~ shown'[x].there
          PROVE  shown'[x].cells = Blank /\ x \notin foreign'
      BY <1>0, <1>1, <3>2 DEF Honest, HonestCopies
    <3>3. \A x \in Region : \A t \in Tile \ Covers[x] : shown'[x].cells[t] = 0
      BY <1>0, <1>1 DEF Honest, HonestCopies
    <3>4. QED
      BY <1>2, <3>1, <3>2, <3>3, SameFloors DEF HonestCopies
  <2>4. QED
    BY <2>1, <2>2, <2>3 DEF Honest
\* The new subscription takes over the stream behind its answer, an old one
\* keeps its own.
<1>18. ASSUME subscribed' # None
       PROVE  LET c == shown'[subscribed']
                  F == Floors(Level[subscribed'])
              IN  /\ Serving => subscribed' = sub.region
                  /\ subscribed' \notin foreign' =>
                       /\ Flow(down', Patches', Cast, subscribed', c.revision, c.cells, F)
                       /\ Serving => Reaches(Messages(down', Patches') \cup Cast, subscribed', c.revision, c.cells,
                                             F[revision], sub.pending)
  <2>1. CASE pending.subscribe
    <3> DEFINE F == Floors(Level[r])
               f == F[revision]
    <3>1. subscribed' = r /\ (Serving => r = sub.region)
      BY <1>0, <1>1, <1>3, <1>10, <2>1 DEF UpToDate
    <3> SUFFICES ASSUME ~ Lost(1)
                 PROVE  /\ Flow(down', Patches', Cast, r, e.revision, e.cells, F)
                        /\ Serving => Reaches(Messages(down', Patches') \cup Cast, r, e.revision, e.cells, f, sub.pending)
      BY <1>1, <3>1
    <3>2. Flow(down, Patches, Cast, r, m.revision, Base(1), F)
      BY <1>0, <1>1, <1>7, <1>10, <2>1 DEF Flows
    <3>3. Flow(Tail(down), Shift(Patches), Cast, r, m.revision, Base(1), F)
      BY <1>2, <1>7, <1>8, <3>2, FlowSkip
    <3>4. Messages(down', Patches') \subseteq Messages(down, Patches)
      BY <1>9 DEF Messages
    <3>5. /\ \A t \in Covers[r] : e.cells[t] = Base(1)[t] /\ e.cells[t] \in Nat
          /\ \A k \in Messages(down', Patches') \cup Cast, t \in Covers[r] : F[k.revision][t] \in Int
          /\ \A t \in Covers[r] : f[t] \in Int
      <4>1. e.cells \in Pictures /\ Covers[r] \subseteq Tile
        BY <1>1, CoversTiles DEF Copy
      <4>2. \A k \in Messages(down', Patches') \cup Cast : k.revision \in Nat
        BY <1>8, <3>4, PatchType
      <4>3. revision \in Nat
        BY <1>0 DEF Typed
      <4>4. \A w \in Nat, t \in Tile : F[w][t] \in Nat
        BY <1>0, FloorType
      <4>5. QED
        BY <1>1, <4>1, <4>2, <4>3, <4>4 DEF Pictures
    <3> HIDE DEF F, f
    <3>6. Flow(down', Patches', Cast, r, m.revision, e.cells, F)
      <4>1. Flow(down', Patches', Cast, r, m.revision, Base(1), F)
        BY <1>2, <1>7, <3>3
      <4>2. \A k \in Messages(down', Patches') \cup Cast, t \in Covers[r] :
               F[k.revision][t] \in Int /\ F[k.revision][t] \in Int /\ F[k.revision][t] <= F[k.revision][t]
        BY <3>5
      <4>3. Messages(down', Patches') \cup Cast \subseteq PatchMessage
        BY <1>8, <3>4
      <4>4. QED
        BY <1>1, <3>5, <4>1, <4>2, <4>3, FlowFalls
    <3>7. ASSUME Serving PROVE Reaches(Messages(down', Patches') \cup Cast, r, m.revision, e.cells, f, sub.pending)
      <4>1. Reaches(Messages(down, Patches) \cup Cast, r, m.revision, Base(1), f, sub.pending)
        BY <1>0, <1>1, <1>7, <1>10, <2>1, <3>7 DEF UpToDate, f, F
      <4>2. Reaches(Messages(down', Patches') \cup Cast, r, m.revision, Base(1), f, sub.pending)
        BY <1>2, <1>7, <1>8, <3>2, <4>1, FlowSkips
      <4>3. \A t \in Covers[r] \ sub.pending : f[t] \in Int /\ f[t] \in Int /\ f[t] <= f[t]
        BY <3>5
      <4>4. Messages(down', Patches') \cup Cast \subseteq PatchMessage
        BY <1>8, <3>4
      <4>5. QED
        BY <1>1, <3>5, <4>2, <4>3, <4>4, ReachesFalls
    <3>8. QED
      BY <1>1, <3>6, <3>7
  <2>2. CASE ~ pending.subscribe
    <3> DEFINE x == subscribed
               F == Floors(Level[x])
    <3>1. subscribed' = x /\ x \in Region /\ x # r /\ shown'[x] = shown[x] /\ (x \in foreign' <=> x \in foreign)
          /\ (Serving => x = sub.region)
      BY <1>0, <1>1, <1>3, <1>10, <1>11, <1>18, <2>2 DEF Typed, UpToDate
    <3> SUFFICES ASSUME x \notin foreign
                 PROVE  /\ Flow(down', Patches', Cast, x, shown[x].revision, shown[x].cells, F)
                        /\ Serving => Reaches(Messages(down', Patches') \cup Cast, x, shown[x].revision, shown[x].cells,
                                              F[revision], sub.pending)
      BY <3>1
    <3>2. /\ Flow(down, Patches, Cast, x, shown[x].revision, shown[x].cells, F)
          /\ Serving => Reaches(Messages(down, Patches) \cup Cast, x, shown[x].revision, shown[x].cells, F[revision],
                                sub.pending)
      BY <1>0, <1>10, <1>18, <2>2, <3>1 DEF Flows, UpToDate
    <3>3. Flow(Tail(down), Shift(Patches), Cast, x, shown[x].revision, shown[x].cells, F)
      BY <1>2, <1>7, <1>8, <3>2, FlowSkip
    <3>4. ASSUME Serving
          PROVE  Reaches(Messages(down', Patches') \cup Cast, x, shown[x].revision, shown[x].cells, F[revision], sub.pending)
      BY <1>2, <1>7, <1>8, <3>2, <3>4, FlowSkips
    <3>5. QED
      BY <1>2, <1>7, <3>3, <3>4
  <2>3. QED
    BY <2>1, <2>2
<1>19. Flows' /\ UpToDate'
  BY <1>2, <1>10, <1>18, SameFloors DEF Flows, UpToDate
<1>20. Ahead'
  <2>1. Fresh'
    <3>1. Subscribing /\ pump.sent /\ subscribed' # None /\ subscribed' \notin foreign'
             => shown'[subscribed'].revision >= pump.revision
      <4> SUFFICES ASSUME Subscribing, pump.sent, subscribed' # None, subscribed' \notin foreign'
                   PROVE  shown'[subscribed'].revision >= pump.revision
        OBVIOUS
      <4>1. CASE pending.subscribe
        <5>1. m.revision = pump.revision /\ subscribed' = r
          BY <1>0, <1>1, <1>3, <1>10, <4>1 DEF Ahead, Fresh
        <5>2. m.revision \in Nat
          BY <1>1 DEF SnapshotMessage
        <5>3. QED
          BY <1>1, <5>1, <5>2
      <4>2. CASE ~ pending.subscribe
        BY <1>0, <1>1, <1>3, <1>10, <1>11, <4>2 DEF Ahead, Fresh, Typed
      <4>3. QED
        BY <4>1, <4>2
    <3>2. Subscribing => \A i \in Patches' : down'[i].revision <= pump.revision
      BY <1>0, <1>9 DEF Ahead, Fresh
    <3>3. QED
      BY <1>0, <1>2, <1>10, <3>1, <3>2 DEF Ahead, Fresh
  <2>2. KnownHonest'
    <3>1. ASSUME queued # None, up'[n].known # 0
          PROVE  /\ shown'[up'[n].region].there
                 /\ up'[n].known <= shown'[up'[n].region].revision
      <4>1. shown'[queued.region].revision \in Nat
        BY <1>1, <1>4, <3>1 DEF Copy, Wish
      <4>2. QED
        BY <1>4, <3>1, <4>1
    <3>2. \A i \in Asking' : queued # None /\ i = n
      BY <1>6
    <3>3. QED
      BY <3>1, <3>2 DEF KnownHonest
  <2>3. ReadsAhead' /\ AnswersAhead'
    BY <1>7, <1>10 DEF ReadsAhead, AnswersAhead
  <2>4. QED
    BY <2>1, <2>2, <2>3 DEF Ahead
<1>21. QED
  BY <1>12, <1>13, <1>14, <1>15, <1>16, <1>17, <1>19, <1>20 DEF IInv


-----------------------------------------------------------------------------
(* The theorems. *)

LEMMA StutterStep ==
    ASSUME IInv, UNCHANGED vars
    PROVE  IInv'
<1>0. Typed /\ Rounds
  BY DEF IInv
<1>1. /\ UNCHANGED <<board, saved, tiles, dirty, revision, sub, pump, cast, up, down, rendered, foreign, unrendered>>
      /\ UNCHANGED <<connected, pending, queued, nextId, shown, subscribed, asked, greet>>
  BY DEF vars, server, client, requests, notes
<1>2. Typed' /\ Rounds'
  BY <1>0, <1>1 DEF Typed, Rounds
<1>3. /\ Patches' = Patches /\ Answers' = Answers /\ Asking' = Asking /\ Cast' = Cast
      /\ (Busy' <=> Busy) /\ (Subscribing' <=> Subscribing) /\ (Cut' <=> Cut) /\ (Serving' <=> Serving)
      /\ \A s : Base(s)' = Base(s) /\ (Lost(s)' <=> Lost(s)) /\ (AnswerAhead(s)' <=> AnswerAhead(s))
  BY <1>1 DEF Patches, Answers, Asking, Cast, Busy, Subscribing, Cut, Serving, Base, Lost, AnswerAhead
<1>4. (OneTrip /\ Clients /\ Servers /\ Wishes)'
  BY <1>1, <1>3 DEF IInv, OneTrip, Clients, Servers, Wishes, Fits, Granted, Kept
<1>5. Honest' /\ Flows' /\ UpToDate'
  BY <1>1, <1>3, SameFloors DEF IInv, Honest, HonestPatches, HonestAnswers, HonestCopies, Flows, UpToDate
<1>6. Ahead'
  BY <1>1, <1>3, SameFloors DEF IInv, Ahead, Fresh, KnownHonest, ReadsAhead, AnswersAhead
<1>7. QED
  BY <1>2, <1>4, <1>5, <1>6 DEF IInv

LEMMA StepInv == IInv /\ [Next]_vars => IInv'
<1> SUFFICES ASSUME IInv, [Next]_vars PROVE IInv'
  OBVIOUS
<1>1. ASSUME NEW t \in Tile, Change(t) PROVE IInv'
  BY <1>1, ChangeStep
<1>2. CASE Broadcast
  BY <1>2, BroadcastStep
<1>3. CASE SendCast
  BY <1>3, SendCastStep
<1>4. CASE Request
  BY <1>4, RequestStep
<1>5. CASE ReadTile
  BY <1>5, ReadTileStep
<1>6. CASE SendSnapshot
  BY <1>6, SendSnapshotStep
<1>7. CASE CatchUp
  BY <1>7, CatchUpStep
<1>8. CASE ReleaseSubscription
  BY <1>8, ReleaseSubscriptionStep
<1>9. ASSUME NEW r \in Region, View(r) PROVE IInv'
  BY <1>9, ViewStep
<1>10. ASSUME NEW r \in Previews, Preview(r) PROVE IInv'
  BY <1>10, PreviewStep
<1>11. CASE Release
  BY <1>11, ReleaseStep
<1>12. CASE ReceiveSnapshot
  BY <1>12, ReceiveSnapshotStep
<1>13. CASE ReceivePatch
  BY <1>13, ReceivePatchStep
<1>14. CASE Close
  BY <1>14, CloseStep
<1>15. CASE Open
  BY <1>15, OpenStep
<1>16. CASE Save
  BY <1>16, SaveStep
<1>17. CASE Restart
  BY <1>17, RestartStep
<1>18. CASE UNCHANGED vars
  BY <1>18, StutterStep
<1>19. QED
  BY <1>1, <1>2, <1>3, <1>4, <1>5, <1>6, <1>7, <1>8, <1>9, <1>10, <1>11, <1>12, <1>13, <1>14,
     <1>15, <1>16, <1>17, <1>18 DEF Next

LEMMA HonestRevisions == IInv => RevisionsHonest
<1> SUFFICES ASSUME IInv, NEW r \in Region \ foreign, shown[r].there, NEW t \in Covers[r]
             PROVE  shown[r].cells[t] >= rendered[shown[r].revision][t]
  BY DEF RevisionsHonest
<1> DEFINE v == shown[r].revision
<1>1. Typed /\ Rounds /\ t \in Tile /\ shown[r].cells[t] \in Nat
  BY CoversTiles DEF IInv, Typed, Copy, Pictures
<1>2. v \in DOMAIN rendered /\ Floor(Level[r], v, t) <= shown[r].cells[t]
  BY DEF IInv, Honest, HonestCopies, Shows
<1>3. v \in Nat /\ rendered[v][t] \in Nat /\ rendered[v][t] <= Floor(Level[r], v, t)
  BY <1>1, <1>2, FloorNow
<1>4. Floor(Level[r], v, t) \in Nat
  BY <1>1, <1>3, FloorType
<1>5. QED
  BY <1>1, <1>2, <1>3, <1>4

LEMMA PatchNeverOlder ==
    ASSUME IInv, ReceivePatch, NEW r \in Region \ foreign, NEW t \in Tile
    PROVE  shown'[r].cells[t] >= shown[r].cells[t]
<1>0. Typed /\ Honest /\ Clients /\ Flows
  BY DEF IInv
<1>1. shown \in [Region -> Copy] /\ shown[r].cells[t] \in Nat
  BY <1>0 DEF Typed, Copy, Pictures
<1>2. CASE r # subscribed
  <2>1. shown'[r] = shown[r]
    BY <1>1, <1>2 DEF ReceivePatch
  <2>2. QED
    BY <1>1, <2>1
<1>3. CASE r = subscribed
  <2>1. subscribed # None /\ subscribed \notin foreign
    BY <1>3, OverviewAssumption
  <2>2. down \in Seq(DownMessage) /\ down # <<>> /\ Head(down).is = "patch"
    BY <1>0 DEF Typed, ReceivePatch
  <2>3. 1 \in Patches /\ 1 \in Front(down) /\ Front(down) \subseteq Patches
    BY <1>0, <2>2, TailPatch, DownType DEF Patches
  <2>4. PICK I \in SUBSET Patches, K \in SUBSET Cast :
           /\ 1 \in I
           /\ Flow(down, I, K, subscribed, shown[subscribed].revision, shown[subscribed].cells,
                   Floors(Level[subscribed]))
    BY <1>0, <2>1, <2>3 DEF Flows
  <2>5. shown'[r] \in Copy /\ \A u \in Tile : shown[r].cells[u] <= shown'[r].cells[u]
    BY <1>0, <1>3, <2>1, <2>4, PatchMet
  <2>6. shown'[r].cells[t] \in Nat
    BY <2>5 DEF Copy, Pictures
  <2>7. QED
    BY <1>1, <2>5, <2>6
<1>4. QED
  BY <1>2, <1>3

LEMMA AnswerNeverOlder ==
    ASSUME IInv, ReceiveSnapshot, NEW r \in Region \ foreign, NEW t \in Tile
    PROVE  shown'[r].cells[t] >= shown[r].cells[t]
<1>0. Typed /\ Honest /\ Ahead /\ OneTrip
  BY DEF IInv
<1>1. /\ shown[r].cells[t] \in Nat
      /\ t \in Tile \ Covers[r] => shown[r].cells[t] = 0
  BY <1>0 DEF Typed, Copy, Pictures, Honest, HonestCopies
<1> DEFINE m == down[1]
<1>2. /\ Answers = {1} /\ m \in SnapshotMessage
      /\ \A x \in Region \ {m.region} : shown'[x] = shown[x]
      /\ \A u \in Covers[m.region] : shown'[m.region].cells[u] = Base(1)[u]
      /\ \A u \in Tile \ Covers[m.region] : shown'[m.region].cells[u] = 0
  BY <1>0, AnswerMet
<1>3. CASE r # m.region
  BY <1>1, <1>2, <1>3
<1>4. CASE r = m.region /\ t \in Covers[r]
  <2>1. AnswerAhead(1) /\ shown'[r].cells[t] = Base(1)[t]
    BY <1>0, <1>2, <1>4 DEF Ahead, AnswersAhead
  <2>2. CASE m.unchanged
    BY <1>1, <1>4, <2>1, <2>2 DEF Base
  <2>3. CASE ~ m.unchanged
    <3>1. shown[r].cells[t] <= m.cells[t]
      BY <1>4, <2>1, <2>3 DEF AnswerAhead
    <3>2. m.cells[t] \in Nat
      BY <1>2 DEF SnapshotMessage, Pictures
    <3>3. QED
      BY <1>1, <2>1, <2>3, <3>1, <3>2 DEF Base
  <2>4. QED
    BY <2>2, <2>3
<1>5. CASE r = m.region /\ t \notin Covers[r]
  BY <1>1, <1>2, <1>5
<1>6. QED
  BY <1>3, <1>4, <1>5

Grows == \A r \in Region \ foreign : \A t \in Tile : shown'[r].cells[t] >= shown[r].cells[t]

LEMMA StepGrows == IInv /\ [Next]_vars => [Grows]_shown
<1> SUFFICES ASSUME IInv, [Next]_vars PROVE [Grows]_shown
  OBVIOUS
<1>1. CASE ReceiveSnapshot
  BY <1>1, AnswerNeverOlder DEF Grows
<1>2. CASE ReceivePatch
  BY <1>2, PatchNeverOlder DEF Grows
<1>3. ASSUME NEW r \in Region, View(r) PROVE UNCHANGED shown
  BY <1>3 DEF View
<1>4. ASSUME NEW r \in Previews, Preview(r) PROVE UNCHANGED shown
  BY <1>4 DEF Preview
<1>5. CASE Close \/ Restart \/ Open \/ Save \/ Release
  BY <1>5 DEF Close, Restart, Disconnected, Open, Save, Release, client
<1>6. ASSUME NEW t \in Tile, Change(t) PROVE UNCHANGED shown
  BY <1>6 DEF Change, client
<1>7. CASE Broadcast \/ SendCast \/ Request \/ ReadTile
  BY <1>7 DEF Broadcast, SendCast, Request, ReadTile, client
<1>8. CASE SendSnapshot \/ CatchUp \/ ReleaseSubscription
  BY <1>8 DEF SendSnapshot, CatchUp, ReleaseSubscription, client
<1>9. CASE UNCHANGED vars
  BY <1>9 DEF vars, client
<1>10. QED
  BY <1>1, <1>2, <1>3, <1>4, <1>5, <1>6, <1>7, <1>8, <1>9 DEF Next

\* Once everything has arrived, both ends hold what was asked for last.
LEMMA QuietServed ==
    ASSUME IInv, Quiet
    PROVE  /\ subscribed = asked
           /\ asked = None => sub = None
           /\ asked # None => sub # None /\ sub.ready /\ sub.region = asked /\ sub.pending = {}
<1>0. Typed /\ OneTrip /\ Servers /\ Wishes
  BY DEF IInv
<1>1. pending = None /\ queued = None /\ connected /\ up = <<>> /\ ~ Subscribing
  BY <1>0 DEF Quiet, OneTrip, Subscribing
<1>2. asked = subscribed /\ Granted = subscribed /\ Leads(up, Kept, subscribed)
  BY <1>0, <1>1 DEF Wishes, Granted
<1>3. Kept = subscribed
  BY <1>1, <1>2 DEF Leads
<1>4. sub # None => sub \in Subscription /\ sub.region # None /\ sub.ready /\ sub.pending = {}
  BY <1>0, <1>1, OverviewAssumption DEF Typed, Subscription, Servers
<1>5. QED
  BY <1>2, <1>3, <1>4 DEF Kept

LEMMA ServedLast == IInv => LastViewServed
BY QuietServed DEF LastViewServed

LEMMA CurrentView == IInv => ViewIsCurrent
<1> SUFFICES ASSUME IInv, Quiet, asked # None, asked \notin foreign, NEW t \in Covers[asked]
             PROVE  shown[asked].cells[t] = board[t] \/ (t \in unrendered /\ Level[asked] \notin Fine)
  BY DEF ViewIsCurrent
<1>0. Typed /\ Rounds /\ Clients /\ Honest /\ UpToDate
  BY DEF IInv
<1> DEFINE r == asked
           l == Level[r]
           c == shown[r]
<1>1. subscribed = r /\ sub # None /\ sub.region = r /\ sub.pending = {}
  BY QuietServed
<1>2. /\ r \in Region /\ c.cells \in Pictures /\ c.revision \in Nat
      /\ Shows(l, c.revision, c.cells, Covers[r]) /\ t \in Tile
  BY <1>0, <1>1, ShownHonest, CoversTiles
<1>3. Serving /\ ~ Cut /\ Messages(down, Patches) \cup Cast = {}
  BY <1>1 DEF Quiet, Serving, Subscribing, Cut, Messages, Patches, PatchesIn, Cast
<1>4. Reaches({}, r, c.revision, c.cells, Floors(l)[revision], {})
  BY <1>0, <1>1, <1>3 DEF UpToDate
<1>5. Floors(l)[revision][t] <= c.cells[t]
  BY <1>4 DEF Reaches, Live
<1>6. Floor(l, revision, t) <= c.cells[t] /\ c.cells[t] <= Now(l, t)
  BY <1>0, <1>2, <1>5, FloorType DEF Shows, Typed
<1>7. /\ board[t] \in Nat /\ tiles[t] \in Nat /\ c.cells[t] \in Nat
      /\ rendered[revision] = tiles /\ revision \in DOMAIN rendered
  BY <1>0, <1>2 DEF Typed, Rounds, Pictures
<1>8. t \notin unrendered => tiles[t] = board[t]
  BY <1>0, <1>2 DEF Rounds, Quiet
<1>9. QED
  BY <1>6, <1>7, <1>8 DEF Floor, Now

\* The revision of a copy never lies (RevisionsHonest): a picture that
\* handleOverviewRequest reads in batches while the game goes on, and the
\* patches that meet it, have every change rendered up to the revision that
\* the client will name to be told "unchanged".
THEOREM RevisionsHonestHolds == Spec => []RevisionsHonest
<1>1. Spec => []IInv
  BY InitInv, StepInv, PTL DEF Spec
<1>2. QED
  BY <1>1, HonestRevisions, PTL

\* No copy of this server process ever goes back to an older state of a chunk
\* (NeverOlder), whatever patches and pictures applyOverviewPatch and
\* applyOverviewSnapshot meet in whatever order they were built.
THEOREM NeverOlderHolds == Spec => NeverOlder
<1>1. Spec => [][Grows]_shown
  BY InitInv, StepInv, StepGrows, PTL DEF Spec
<1>2. QED
  BY <1>1, PTL DEF NeverOlder, Grows

\* When everything has arrived, the region on view shows the board
\* (ViewIsCurrent): no change falls between the batches of
\* assembleOverviewRegion, the rounds of broadcastOverview and the catching up.
THEOREM ViewIsCurrentHolds == Spec => []ViewIsCurrent
<1>1. Spec => []IInv
  BY InitInv, StepInv, PTL DEF Spec
<1>2. QED
  BY <1>1, CurrentView, PTL

\* When everything has arrived, both ends hold a subscription for the view
\* asked for last, and none after a release (LastViewServed), however
\* OverviewRequests let requests, answers and releases cross.
THEOREM LastViewServedHolds == Spec => []LastViewServed
<1>1. Spec => []IInv
  BY InitInv, StepInv, PTL DEF Spec
<1>2. QED
  BY <1>1, ServedLast, PTL

=============================================================================

--------------------------- MODULE IdentityProofs ---------------------------
(***************************************************************************)
(* Proofs about Identity for any players, names, connections, offers and   *)
(* number of kills; after them, proofs about Minimap for any finite set of *)
(* tiles, any cells, resolutions, connections and circumstances.           *)
(***************************************************************************)
EXTENDS Identity, Minimap, Induction

-----------------------------------------------------------------------------
(* The maps. *)

\* Partial functions from S to T.
Partial(S, T) == UNION {[D -> T] : D \in SUBSET S}

LEMMA PartialFacts ==
    ASSUME NEW S, NEW T
    PROVE  /\ \A f \in Partial(S, T) :
                  DOMAIN f \subseteq S /\ f \in [DOMAIN f -> T] /\ f = [x \in DOMAIN f |-> f[x]]
           /\ \A D \in SUBSET S : [D -> T] \subseteq Partial(S, T)
BY DEF Partial

LEMMA PutFacts ==
    ASSUME NEW S, NEW T, NEW f \in Partial(S, T), NEW k \in S, NEW v \in T
    PROVE  /\ Put(f, k, v) \in Partial(S, T)
           /\ DOMAIN Put(f, k, v) = DOMAIN f \cup {k}
           /\ Put(f, k, v)[k] = v
           /\ \A x \in DOMAIN f \ {k} : Put(f, k, v)[x] = f[x]
<1>1. DOMAIN f \subseteq S /\ f \in [DOMAIN f -> T] /\ f = [x \in DOMAIN f |-> f[x]]
  BY PartialFacts
<1>2. Put(f, k, v) = [x \in DOMAIN f \cup {k} |-> IF x = k THEN v ELSE f[x]]
  BY DEF Put
<1>3. Put(f, k, v) \in [DOMAIN f \cup {k} -> T]
  BY <1>1, <1>2
<1>4. DOMAIN f \cup {k} \in SUBSET S
  BY <1>1
<1>5. Put(f, k, v) \in Partial(S, T)
  BY <1>3, <1>4, PartialFacts
<1>6. QED
  BY <1>1, <1>2, <1>5

LEMMA PutSame ==
    ASSUME NEW S, NEW T, NEW f \in Partial(S, T), NEW k \in DOMAIN f
    PROVE  Put(f, k, f[k]) = f
<1>1. f = [x \in DOMAIN f |-> f[x]]
  BY PartialFacts
<1>2. DOMAIN f \cup {k} = DOMAIN f
  OBVIOUS
<1>3. Put(f, k, f[k]) = [x \in DOMAIN f |-> f[x]]
  BY <1>2 DEF Put
<1>4. QED
  BY <1>1, <1>3

LEMMA DropFacts ==
    ASSUME NEW S, NEW T, NEW f \in Partial(S, T), NEW k
    PROVE  /\ Drop(f, k) \in Partial(S, T)
           /\ DOMAIN Drop(f, k) = DOMAIN f \ {k}
           /\ \A x \in DOMAIN f \ {k} : Drop(f, k)[x] = f[x]
<1>1. DOMAIN f \subseteq S /\ f \in [DOMAIN f -> T]
  BY PartialFacts
<1>2. Drop(f, k) \in [DOMAIN f \ {k} -> T]
  BY <1>1 DEF Drop
<1>3. DOMAIN f \ {k} \in SUBSET S
  BY <1>1
<1>4. Drop(f, k) \in Partial(S, T)
  BY <1>2, <1>3, PartialFacts
<1>5. QED
  BY <1>4 DEF Drop

\* What the maps and the entries of the log look like.
Maps == [names : Partial(Id, Name), index : Partial(Name, Id), flags : Partial(Id, Flag),
         unlocked : SUBSET Id, tokens : Partial(Nat, Id), next : Nat \ {0}]

Entry == [unlock : Id] \cup [id : Id, name : Name, flag : Flag, token : Nat]

IsUnlock(e) == "unlock" \in DOMAIN e
Of(e, p) == ~ IsUnlock(e) /\ e.id = p

LEMMA EntryFacts ==
    ASSUME NEW e \in Entry
    PROVE  /\ IsUnlock(e) => e.unlock \in Id
           /\ ~ IsUnlock(e) => e.id \in Id /\ e.name \in Name /\ e.flag \in Flag /\ e.token \in Nat
BY DEF Entry, IsUnlock

\* The ids are numbers from 1 on.
LEMMA IdNat == Id \subseteq Nat \ {0}
<1>1. Cardinality(Id) \in Nat
  BY IdentityAssumption, FS_CardinalityType
<1>2. QED
  BY <1>1, IdentityAssumption

-----------------------------------------------------------------------------
(* Replaying entries one by one. *)

Replay(m, s, first, last) == FoldLeft(ReplayEntry, m, SubSeq(s, first, last))

ReplayRound(w, s, g) ==
    [x \in SUBSET DOMAIN s |-> IF x = {} THEN w ELSE ReplayEntry(g[x \ {Max(x)}], s[Max(x)])]

\* The recursion behind FoldLeft has a solution.
LEMMA ReplayRecursion ==
    ASSUME NEW w, NEW s \in Seq(Entry)
    PROVE  \E g : g = ReplayRound(w, s, g)
<1> DEFINE D == DOMAIN s
           Good(g, n) == \A x \in SUBSET D : Cardinality(x) <= n => g[x] = ReplayRound(w, s, g)[x]
           C == {n \in Nat : \E g : Good(g, n)}
<1>0. D = 1 .. Len(s) /\ Len(s) \in Nat /\ IsFiniteSet(D)
  BY FS_Interval
<1>1. \A x \in SUBSET D : IsFiniteSet(x) /\ Cardinality(x) \in Nat
  BY <1>0, FS_Subset, FS_CardinalityType
<1>2. 0 \in C
  <2>1. \A x \in SUBSET D : Cardinality(x) <= 0 => x = {}
    BY <1>1, FS_EmptySet
  <2>2. Good([x \in SUBSET D |-> w], 0)
    BY <2>1 DEF ReplayRound
  <2>3. QED
    BY <2>2
<1>3. ASSUME NEW n \in Nat, n \in C  PROVE n + 1 \in C
  <2>1. PICK g : Good(g, n)
    BY <1>3
  <2> DEFINE h == ReplayRound(w, s, g)
  <2>2. ASSUME NEW x \in SUBSET D, Cardinality(x) <= n + 1, x # {}
        PROVE  h[x \ {Max(x)}] = g[x \ {Max(x)}]
    <3>1. Max(x) \in x
      BY <1>0, <1>1, <2>2, MaxIn
    <3>2. Cardinality(x \ {Max(x)}) = Cardinality(x) - 1
      BY <1>1, <3>1, FS_RemoveElement
    <3>3. x \ {Max(x)} \in SUBSET D /\ Cardinality(x \ {Max(x)}) <= n
      BY <1>1, <2>2, <3>2
    <3>4. QED
      BY <2>1, <3>3
  <2>3. Good(h, n + 1)
    BY <2>2 DEF ReplayRound
  <2>4. QED
    BY <2>3
<1>4. Nat \subseteq C
  <2> HIDE DEF C
  <2>1. QED
    BY <1>2, <1>3, NumbersByInduction
<1>5. PICK g : Good(g, Cardinality(D))
  BY <1>1, <1>4
<1> DEFINE h == ReplayRound(w, s, g)
<1>6. \A x \in SUBSET D : Cardinality(x) <= Cardinality(D)
  BY <1>0, FS_Subset
<1>7. \A x \in SUBSET D : x \ {Max(x)} \in SUBSET D
  OBVIOUS
<1>8. \A x \in SUBSET D : h[x \ {Max(x)}] = g[x \ {Max(x)}]
  BY <1>5, <1>6, <1>7
<1>9. h = ReplayRound(w, s, h)
  BY <1>8 DEF ReplayRound
<1>10. QED
  BY <1>9

LEMMA FoldUnfolds ==
    ASSUME NEW w, NEW s \in Seq(Entry)
    PROVE  \E g : g = ReplayRound(w, s, g) /\ FoldLeft(ReplayEntry, w, s) = g[DOMAIN s]
<1> DEFINE Solves(g) ==
        g = [x \in SUBSET DOMAIN s |->
                IF x = {} THEN w ELSE ReplayEntry(g[x \ {Max(x)}], s[Max(x)])]
<1>1. \A g : Solves(g) <=> g = ReplayRound(w, s, g)
  BY Zenon DEF ReplayRound
<1>2. FoldLeft(ReplayEntry, w, s) = (CHOOSE g : Solves(g))[DOMAIN s]
  BY Zenon DEF FoldLeft, MapThenFoldSet
<1> HIDE DEF Solves
<1>3. \E g : Solves(g)
  BY <1>1, ReplayRecursion
<1>4. Solves(CHOOSE g : Solves(g))
  BY <1>3
<1>5. QED
  BY <1>1, <1>2, <1>4

\* A solution, applied to the first k places, goes on from the first k - 1.
LEMMA RoundOfPrefix ==
    ASSUME NEW w, NEW s \in Seq(Entry), NEW g, g = ReplayRound(w, s, g)
    PROVE  /\ g[1 .. 0] = w
           /\ \A k \in 1 .. Len(s) : g[1 .. k] = ReplayEntry(g[1 .. k - 1], s[k])
<1>1. DOMAIN s = 1 .. Len(s) /\ Len(s) \in Nat
  OBVIOUS
<1>2. g[1 .. 0] = w
  <2>1. 1 .. 0 = {}
    OBVIOUS
  <2>2. QED
    BY <2>1 DEF ReplayRound
<1>3. ASSUME NEW k \in 1 .. Len(s)
      PROVE  g[1 .. k] = ReplayEntry(g[1 .. k - 1], s[k])
  <2>1. 1 .. k \in SUBSET (DOMAIN s) /\ k \in 1 .. k /\ 1 .. k \in SUBSET Nat /\ k \in Nat
    BY <1>1
  <2>2. IsFiniteSet(1 .. k)
    BY <2>1, FS_Interval
  <2>3. Max(1 .. k) \in 1 .. k /\ k <= Max(1 .. k)
    BY <2>1, <2>2, MaxIn
  <2>4. Max(1 .. k) = k
    BY <2>1, <2>3
  <2>5. (1 .. k) \ {k} = 1 .. k - 1
    BY <2>1
  <2>6. g[1 .. k] = ReplayEntry(g[(1 .. k) \ {Max(1 .. k)}], s[Max(1 .. k)])
    BY <2>1 DEF ReplayRound
  <2>7. QED
    BY <2>4, <2>5, <2>6
<1>4. QED
  BY <1>2, <1>3

\* Replaying one entry more is replaying the entry on top.
LEMMA FoldOneMore ==
    ASSUME NEW w, NEW s \in Seq(Entry), NEW t \in Seq(Entry), Len(t) = Len(s) + 1,
           \A i \in 1 .. Len(s) : t[i] = s[i]
    PROVE  FoldLeft(ReplayEntry, w, t) = ReplayEntry(FoldLeft(ReplayEntry, w, s), t[Len(t)])
<1>1. PICK g : g = ReplayRound(w, s, g) /\ FoldLeft(ReplayEntry, w, s) = g[DOMAIN s]
  BY FoldUnfolds
<1>2. PICK h : h = ReplayRound(w, t, h) /\ FoldLeft(ReplayEntry, w, t) = h[DOMAIN t]
  BY FoldUnfolds
<1>3. /\ g[1 .. 0] = w
      /\ \A k \in 1 .. Len(s) : g[1 .. k] = ReplayEntry(g[1 .. k - 1], s[k])
  BY <1>1, RoundOfPrefix
<1>4. /\ h[1 .. 0] = w
      /\ \A k \in 1 .. Len(t) : h[1 .. k] = ReplayEntry(h[1 .. k - 1], t[k])
  BY <1>2, RoundOfPrefix
<1>5. Len(s) \in Nat /\ DOMAIN s = 1 .. Len(s) /\ DOMAIN t = 1 .. Len(t)
  OBVIOUS
<1> DEFINE C == {k \in Nat : k <= Len(s) => h[1 .. k] = g[1 .. k]}
<1>6. 0 \in C
  BY <1>3, <1>4
<1>7. ASSUME NEW k \in Nat, k \in C  PROVE k + 1 \in C
  <2>1. SUFFICES ASSUME k + 1 <= Len(s)  PROVE h[1 .. k + 1] = g[1 .. k + 1]
    OBVIOUS
  <2>2. k + 1 \in 1 .. Len(s) /\ k + 1 \in 1 .. Len(t) /\ (k + 1) - 1 = k
    BY <1>5, <2>1
  <2>3. h[1 .. k] = g[1 .. k]
    BY <1>5, <1>7, <2>1
  <2>4. g[1 .. k + 1] = ReplayEntry(g[1 .. k], s[k + 1])
    BY <1>3, <2>2
  <2>5. h[1 .. k + 1] = ReplayEntry(h[1 .. k], t[k + 1])
    BY <1>4, <2>2
  <2>6. QED
    BY <2>2, <2>3, <2>4, <2>5
<1>8. Nat \subseteq C
  <2> HIDE DEF C
  <2>1. QED
    BY <1>6, <1>7, NumbersByInduction
<1>9. h[1 .. Len(s)] = g[1 .. Len(s)]
  BY <1>5, <1>8
<1>10. Len(t) \in 1 .. Len(t) /\ Len(t) - 1 = Len(s)
  BY <1>5
<1>11. h[1 .. Len(t)] = ReplayEntry(h[1 .. Len(s)], t[Len(t)])
  BY <1>4, <1>10
<1>12. QED
  BY <1>1, <1>2, <1>5, <1>9, <1>11

\* Replaying a stretch of the log that is empty, and one that is longer by one.
LEMMA ReplayNone ==
    ASSUME NEW w, NEW s \in Seq(Entry), NEW r \in Nat
    PROVE  Replay(w, s, r + 1, r) = w
<1>1. SubSeq(s, r + 1, r) = <<>> /\ <<>> \in Seq(Entry) /\ DOMAIN <<>> = 1 .. 0
  OBVIOUS
<1>2. PICK g : g = ReplayRound(w, <<>>, g) /\ FoldLeft(ReplayEntry, w, <<>>) = g[DOMAIN <<>>]
  BY <1>1, FoldUnfolds
<1>3. g[1 .. 0] = w
  BY <1>1, <1>2, RoundOfPrefix
<1>4. QED
  BY <1>1, <1>2, <1>3 DEF Replay

LEMMA ReplayOneMore ==
    ASSUME NEW w, NEW s \in Seq(Entry), NEW r \in Nat, NEW n \in Nat, r <= n, n < Len(s)
    PROVE  Replay(w, s, r + 1, n + 1) = ReplayEntry(Replay(w, s, r + 1, n), s[n + 1])
<1> DEFINE a == SubSeq(s, r + 1, n)
           b == SubSeq(s, r + 1, n + 1)
<1>1. /\ a \in Seq(Entry) /\ Len(a) = n - r
      /\ \A i \in 1 .. n - r : a[i] = s[r + i]
  OBVIOUS
<1>2. /\ b \in Seq(Entry) /\ Len(b) = n + 1 - r
      /\ \A i \in 1 .. n + 1 - r : b[i] = s[r + i]
  OBVIOUS
<1>3. Len(b) = Len(a) + 1 /\ b[Len(b)] = s[n + 1]
  BY <1>1, <1>2
<1>4. \A i \in 1 .. Len(a) : b[i] = a[i]
  BY <1>1, <1>2
<1> HIDE DEF a, b
<1>5. FoldLeft(ReplayEntry, w, b) = ReplayEntry(FoldLeft(ReplayEntry, w, a), b[Len(b)])
  BY <1>1, <1>2, <1>3, <1>4, FoldOneMore
<1>6. QED
  BY <1>3, <1>5 DEF Replay, a, b

-----------------------------------------------------------------------------
(* What one entry makes of the maps. *)

LEMMA UnlockEntryFacts ==
    ASSUME NEW m \in Maps, NEW e \in Entry, IsUnlock(e)
    PROVE  LET x == ReplayEntry(m, e)
           IN  /\ x \in Maps
               /\ x.names = m.names /\ x.index = m.index /\ x.flags = m.flags
               /\ x.tokens = m.tokens /\ x.next = m.next
               /\ x.unlocked = m.unlocked \cup {e.unlock}
<1>1. e.unlock \in Id
  BY EntryFacts
<1>2. ReplayEntry(m, e) = [m EXCEPT !.unlocked = @ \cup {e.unlock}]
  BY DEF ReplayEntry, IsUnlock
<1>3. QED
  BY <1>1, <1>2 DEF Maps

\* The index without the name that the player of the entry is known by.
IndexWithout(m, e) ==
    IF e.id \in DOMAIN m.names /\ m.names[e.id] # e.name THEN Drop(m.index, m.names[e.id])
    ELSE m.index

LEMMA PlayerEntryFacts ==
    ASSUME NEW m \in Maps, NEW e \in Entry, ~ IsUnlock(e)
    PROVE  LET x == ReplayEntry(m, e)
           IN  /\ x \in Maps
               /\ x.names = Put(m.names, e.id, e.name)
               /\ x.index = Put(IndexWithout(m, e), e.name, e.id)
               /\ x.flags = Put(m.flags, e.id, e.flag)
               /\ x.tokens = IF e.token = NoToken THEN m.tokens ELSE Put(m.tokens, e.token, e.id)
               /\ x.next = IF e.id >= m.next THEN e.id + 1 ELSE m.next
               /\ x.unlocked = m.unlocked
<1>1. e.id \in Id /\ e.name \in Name /\ e.flag \in Flag /\ e.token \in Nat
  BY EntryFacts
<1>2. ReplayEntry(m, e) =
        [m EXCEPT !.names = Put(@, e.id, e.name), !.index = Put(IndexWithout(m, e), e.name, e.id),
                  !.flags = Put(@, e.id, e.flag),
                  !.tokens = IF e.token = NoToken THEN @ ELSE Put(@, e.token, e.id),
                  !.next = IF e.id >= @ THEN e.id + 1 ELSE @]
  BY DEF ReplayEntry, ReplayPlayer, IsUnlock, IndexWithout
<1>3. IndexWithout(m, e) \in Partial(Name, Id)
  BY DropFacts DEF IndexWithout, Maps
<1>4. /\ Put(m.names, e.id, e.name) \in Partial(Id, Name)
      /\ Put(IndexWithout(m, e), e.name, e.id) \in Partial(Name, Id)
      /\ Put(m.flags, e.id, e.flag) \in Partial(Id, Flag)
      /\ Put(m.tokens, e.token, e.id) \in Partial(Nat, Id)
  BY <1>1, <1>3, PutFacts DEF Maps
<1>5. (IF e.id >= m.next THEN e.id + 1 ELSE m.next) \in Nat \ {0}
  <2>1. e.id \in Nat /\ m.next \in Nat \ {0}
    BY <1>1, IdNat DEF Maps
  <2>2. QED
    BY <2>1
<1>6. QED
  BY <1>2, <1>4, <1>5 DEF Maps

\* The maps know the player of every token and the flag of every player, and
\* the next id is not given away yet.
Formed(m) ==
    /\ DOMAIN m.flags = DOMAIN m.names
    /\ Range(m.tokens) \subseteq DOMAIN m.names
    /\ \A p \in DOMAIN m.names : p < m.next

Earns(m) == \A p \in DOMAIN m.flags : m.flags[p] = PaidFlag => p \in m.unlocked

\* An entry keeps the maps formed, gives ids away in order, and knows the
\* player it is about.
LEMMA EntryKeepsFormed ==
    ASSUME NEW m \in Maps, NEW e \in Entry, Formed(m)
    PROVE  LET x == ReplayEntry(m, e)
           IN  /\ Formed(x) /\ m.next <= x.next
               /\ ~ IsUnlock(e) => e.id < x.next
<1> DEFINE x == ReplayEntry(m, e)
<1>1. CASE IsUnlock(e)
  BY <1>1, UnlockEntryFacts DEF Formed, Maps
<1>2. CASE ~ IsUnlock(e)
  <2>1. e.id \in Id /\ e.name \in Name /\ e.flag \in Flag /\ e.token \in Nat
    BY <1>2, EntryFacts
  <2>2. x.next = IF e.id >= m.next THEN e.id + 1 ELSE m.next
    BY <1>2, PlayerEntryFacts
  <2>3. e.id < x.next /\ m.next <= x.next /\ m.next \in Nat /\ x.next \in Nat
    <3>1. e.id \in Nat /\ m.next \in Nat
      BY <2>1, IdNat DEF Maps
    <3>2. QED
      BY <2>2, <3>1
  <2>4. DOMAIN x.names = DOMAIN m.names \cup {e.id}
        /\ DOMAIN x.flags = DOMAIN m.flags \cup {e.id}
    <3>1. x.names = Put(m.names, e.id, e.name) /\ x.flags = Put(m.flags, e.id, e.flag)
      BY <1>2, PlayerEntryFacts
    <3>2. QED
      BY <3>1 DEF Put
  <2>5. Range(x.tokens) \subseteq Range(m.tokens) \cup {e.id}
    <3>1. CASE e.token = NoToken
      BY <1>2, <3>1, PlayerEntryFacts
    <3>2. CASE e.token # NoToken
      <4>1. x.tokens = Put(m.tokens, e.token, e.id)
        BY <1>2, <3>2, PlayerEntryFacts
      <4>2. \A t \in DOMAIN x.tokens :
              x.tokens[t] = e.id \/ (t \in DOMAIN m.tokens /\ x.tokens[t] = m.tokens[t])
        BY <4>1 DEF Put
      <4>3. QED
        BY <4>2 DEF Range
    <3>3. QED
      BY <3>1, <3>2
  <2>6. DOMAIN m.names \subseteq Nat
    BY PartialFacts, IdNat DEF Maps
  <2>7. \A p \in DOMAIN x.names : p < x.next
    BY <2>3, <2>4, <2>6 DEF Formed
  <2>8. QED
    BY <1>2, <2>3, <2>4, <2>5, <2>7 DEF Formed
<1>3. QED
  BY <1>1, <1>2

-----------------------------------------------------------------------------
(***************************************************************************)
(* What the requests have in common.  A request writes one entry, which    *)
(* does to the maps in memory what it will do to them when it is replayed, *)
(* or it is refused and changes a flag at most.                            *)
(***************************************************************************)
Holder == [id : Id \cup {0}, name : Name \cup {NoName}, flag : Flag]

Types ==
    /\ players \in Maps /\ snapshot \in [maps : Maps, upTo : Nat] /\ log \in Seq(Entry)
    /\ issued \in Nat /\ durable \in Nat /\ removed \in Nat /\ listed \in Nat
    /\ connections \in [Conn -> Holder] /\ offer \in Offers

\* The names can be looked up: the part of IndexExact that holds of any maps.
Exact(m) ==
    /\ DOMAIN m.index = Range(m.names)
    /\ \A p \in DOMAIN m.names : m.index[m.names[p]] = p

\* A connection plays for somebody known, and carries no flag that is not earned.
HoldersKnown ==
    \A k \in Conn :
        \/ connections[k] = Spectator
        \/ /\ connections[k].id \in DOMAIN players.names
           /\ connections[k].flag = PaidFlag => connections[k].id \in players.unlocked

Base == Types /\ Formed(players) /\ Earns(players) /\ HoldersKnown

\* Entry e is written, and players changes as the entry says.
Enters(e) ==
    /\ e \in Entry /\ log' = Append(log, e) /\ players' \in Maps
    /\ LET x == ReplayEntry(players, e)
       IN  /\ players'.names = x.names /\ players'.flags = x.flags
           /\ players'.tokens = x.tokens /\ players'.next = x.next
           /\ players'.unlocked = x.unlocked
           /\ Exact(players) => players'.index = x.index
    /\ IF IsUnlock(e) THEN issued' = issued
       ELSE /\ e.flag = PaidFlag => e.id \in players.unlocked
            /\ \/ e.token = NoToken /\ issued' = issued /\ e.id \in DOMAIN players.names
               \/ e.token = issued + 1 /\ issued' = issued + 1 /\ e.id = players.next
            /\ Exact(players) =>
                  \A q \in DOMAIN players.names \ {e.id} : players.names[q] # e.name

Refuses ==
    /\ log' = log /\ issued' = issued /\ players' \in Maps
    /\ players'.names = players.names /\ players'.index = players.index
    /\ players'.tokens = players.tokens /\ players'.next = players.next
    /\ players'.unlocked = players.unlocked
    /\ DOMAIN players'.flags = DOMAIN players.flags
    /\ Earns(players')

\* Names are looked up in one direction and the other.
LEMMA ExactFacts ==
    ASSUME NEW m \in Maps, Exact(m)
    PROVE  /\ \A p \in DOMAIN m.names : m.names[p] \in DOMAIN m.index /\ m.index[m.names[p]] = p
           /\ \A p, q \in DOMAIN m.names : m.names[p] = m.names[q] => p = q
           /\ \A n \in DOMAIN m.index :
                 m.index[n] \in DOMAIN m.names /\ m.names[m.index[n]] = n
BY DEF Exact, Range

\* What becomes of the maps when p asks for name n and flag f.
LEMMA ChangedFacts ==
    ASSUME Types, Formed(players), Earns(players), NEW p \in DOMAIN players.names,
           NEW n \in Name \cup {NoName, BadName}, NEW f \in Flag
    PROVE  LET c == Changed(p, n, f)
               e == PlayerEntry(p, c, NoToken)
               x == ReplayEntry(players, e)
           IN  /\ c \in Maps /\ e \in Entry /\ ~ IsUnlock(e) /\ e.id = p /\ e.token = NoToken
               /\ c.names[p] = e.name /\ c.flags[p] = e.flag
               /\ DOMAIN c.names = DOMAIN players.names
               /\ c.names = x.names /\ c.flags = x.flags /\ c.tokens = x.tokens
               /\ c.next = x.next /\ c.unlocked = x.unlocked
               /\ Exact(players) => c.index = x.index
               /\ c.tokens = players.tokens /\ c.next = players.next
               /\ c.unlocked = players.unlocked /\ DOMAIN c.flags = DOMAIN players.flags
               /\ Earns(c)
               /\ Refused(p, n) => c.names = players.names /\ c.index = players.index
               /\ Exact(players) /\ ~ Refused(p, n) =>
                     \A q \in DOMAIN players.names \ {p} : players.names[q] # e.name
<1> DEFINE old == players.names[p]
           new == IF n = NoName \/ Refused(p, n) THEN old ELSE n
           fl == IF IsFlagUnlocked(p, f) THEN f ELSE players.flags[p]
           idx == IF old = new THEN players.index ELSE Put(Drop(players.index, old), new, p)
           c == Changed(p, n, f)
           e == PlayerEntry(p, c, NoToken)
           x == ReplayEntry(players, e)
<1>1. /\ players \in Maps /\ players.names \in Partial(Id, Name)
      /\ players.index \in Partial(Name, Id) /\ players.flags \in Partial(Id, Flag)
  BY DEF Types, Maps
<1>2. p \in Id /\ old \in Name /\ p \in DOMAIN players.flags /\ players.flags[p] \in Flag
  BY <1>1, PartialFacts DEF Formed
<1>3. new \in Name /\ fl \in Flag
  BY <1>2 DEF Refused
<1>4. [players.names EXCEPT ![p] = new] = Put(players.names, p, new)
      /\ [players.flags EXCEPT ![p] = fl] = Put(players.flags, p, fl)
  <2>1. players.names \in [DOMAIN players.names -> Name]
        /\ players.flags \in [DOMAIN players.flags -> Flag]
    BY <1>1, PartialFacts
  <2>2. DOMAIN players.names \cup {p} = DOMAIN players.names
        /\ DOMAIN players.flags \cup {p} = DOMAIN players.flags
    BY <1>2
  <2>3. QED
    BY <2>1, <2>2 DEF Put
<1>5. /\ c.names = Put(players.names, p, new) /\ c.index = idx
      /\ c.flags = Put(players.flags, p, fl)
      /\ c.tokens = players.tokens /\ c.next = players.next /\ c.unlocked = players.unlocked
      /\ c \in Maps
  <2> DEFINE m == IF n = NoName \/ Refused(p, n) THEN players ELSE Renamed(players, p, n)
  <2>1. Put(players.names, p, new) \in Partial(Id, Name) /\ idx \in Partial(Name, Id)
        /\ Put(players.flags, p, fl) \in Partial(Id, Flag)
    BY <1>1, <1>2, <1>3, PutFacts, DropFacts
  <2>2. old = new => Put(players.names, p, new) = players.names
    BY <1>1, PutSame
  <2>3. m = [players EXCEPT !.names = Put(players.names, p, new), !.index = idx]
    <3>1. CASE old = new
      <4>1. m = players
        BY <3>1 DEF Renamed
      <4>2. QED
        BY <1>1, <2>2, <3>1, <4>1 DEF Maps
    <3>2. CASE old # new
      <4>1. new = n /\ m = [players EXCEPT !.index = Put(Drop(@, old), n, p), !.names[p] = n]
        BY <3>2 DEF Renamed
      <4>2. QED
        BY <1>1, <1>4, <3>2, <4>1 DEF Maps
    <3>3. QED
      BY <3>1, <3>2
  <2>4. Put(players.flags, p, players.flags[p]) = players.flags
    BY <1>1, <1>2, PutSame
  <2>5. c = [players EXCEPT !.names = Put(players.names, p, new), !.index = idx,
                            !.flags = Put(players.flags, p, fl)]
    <3>1. c = IF IsFlagUnlocked(p, f) THEN [m EXCEPT !.flags[p] = f] ELSE m
      BY DEF Changed
    <3>2. m.flags = players.flags /\ m \in Maps
      BY <1>1, <2>1, <2>3 DEF Maps
    <3>3. c = [m EXCEPT !.flags = Put(players.flags, p, fl)]
      <4>1. CASE IsFlagUnlocked(p, f)
        <5>1. c = [m EXCEPT !.flags = [players.flags EXCEPT ![p] = fl]]
          BY <3>1, <3>2, <4>1
        <5>2. QED
          BY <1>4, <5>1
      <4>2. CASE ~ IsFlagUnlocked(p, f)
        <5>1. [m EXCEPT !.flags = players.flags] = m
          BY <3>2 DEF Maps
        <5>2. QED
          BY <2>4, <3>1, <4>2, <5>1
      <4>3. QED
        BY <4>1, <4>2
    <3> HIDE DEF m, c, idx, new, fl, old
    <3>4. QED
      BY <1>1, <2>3, <3>3 DEF Maps
  <2> HIDE DEF m, c, idx, new, fl, old
  <2>6. QED
    BY <1>1, <2>1, <2>5 DEF Maps
<1>6. c.names[p] = new /\ c.flags[p] = fl
      /\ DOMAIN c.names = DOMAIN players.names /\ DOMAIN c.flags = DOMAIN players.flags
  BY <1>2, <1>5 DEF Put
<1>7. e = [id |-> p, name |-> new, flag |-> fl, token |-> NoToken]
  BY <1>6 DEF PlayerEntry
<1>8. e \in Entry /\ ~ IsUnlock(e) /\ e.id = p /\ e.name = new /\ e.flag = fl /\ e.token = NoToken
  <2> HIDE DEF new, fl, e
  <2>1. QED
    BY <1>2, <1>3, <1>7 DEF Entry, IsUnlock, NoToken
<1> HIDE DEF e, c
<1>9. /\ x.names = Put(players.names, p, new) /\ x.flags = Put(players.flags, p, fl)
      /\ x.index = Put(IndexWithout(players, e), new, p)
      /\ x.tokens = players.tokens /\ x.unlocked = players.unlocked /\ x.next = players.next
  <2> HIDE DEF new, fl, old
  <2>1. p < players.next /\ p \in Nat /\ players.next \in Nat
    BY <1>1, <1>2, IdNat DEF Formed, Maps
  <2>2. QED
    BY <1>1, <1>8, <2>1, PlayerEntryFacts
<1>10. ASSUME Exact(players)  PROVE c.index = x.index
  <2>1. CASE old = new
    <3>1. IndexWithout(players, e) = players.index
      BY <1>8, <2>1 DEF IndexWithout
    <3>2. new \in DOMAIN players.index /\ players.index[new] = p
      BY <1>1, <1>10, <2>1, ExactFacts
    <3>3. Put(players.index, new, p) = players.index
      BY <1>1, <3>2, PutSame
    <3>4. QED
      BY <1>5, <1>9, <2>1, <3>1, <3>3
  <2>2. CASE old # new
    <3>1. IndexWithout(players, e) = Drop(players.index, old)
      BY <1>8, <2>2 DEF IndexWithout
    <3>2. QED
      BY <1>5, <1>9, <2>2, <3>1
  <2>3. QED
    BY <2>1, <2>2
<1>11. Earns(c)
  <2>1. fl = PaidFlag => p \in players.unlocked
    BY <1>2 DEF IsFlagUnlocked, Earns
  <2>2. \A q \in DOMAIN c.flags : c.flags[q] = IF q = p THEN fl ELSE players.flags[q]
    BY <1>5 DEF Put
  <2> HIDE DEF fl
  <2>3. QED
    BY <1>5, <1>6, <2>1, <2>2 DEF Earns
<1>12. Refused(p, n) => c.names = players.names /\ c.index = players.index
  <2>1. Refused(p, n) => new = old
    OBVIOUS
  <2>2. Put(players.names, p, old) = players.names
    BY <1>1, PutSame
  <2>3. QED
    BY <1>5, <2>1, <2>2
<1>13. ASSUME Exact(players), ~ Refused(p, n), NEW q \in DOMAIN players.names \ {p}
       PROVE  players.names[q] # e.name
  <2>1. /\ players.names[q] \in DOMAIN players.index /\ players.index[players.names[q]] = q
        /\ players.index[old] = p
    BY <1>1, <1>13, ExactFacts
  <2>2. CASE new = old
    BY <1>8, <2>1, <2>2
  <2>3. CASE new # old
    <3>1. new = n /\ ~ Taken(n, p)
      BY <1>13, <2>3 DEF Refused
    <3>2. QED
      BY <1>8, <2>1, <3>1 DEF Taken
  <2>4. QED
    BY <2>2, <2>3
<1>14. QED
  BY <1>5, <1>6, <1>8, <1>9, <1>10, <1>11, <1>12, <1>13 DEF c, e

\* A change of the maps forgets nobody and no unlock, so the connections that
\* are left alone are as good as before.
LEMMA HoldersStay ==
    ASSUME Base, NEW k \in Conn,
           players' \in Maps, DOMAIN players.names \subseteq DOMAIN players'.names,
           players.unlocked \subseteq players'.unlocked,
           NEW h \in Holder, h = Spectator \/ (h.id \in DOMAIN players'.names
                                /\ (h.flag = PaidFlag => h.id \in players'.unlocked)),
           connections' = [connections EXCEPT ![k] = h]
    PROVE  connections' \in [Conn -> Holder] /\ HoldersKnown'
<1>1. connections' \in [Conn -> Holder]
  BY DEF Base, Types
<1>2. ASSUME NEW j \in Conn
      PROVE  \/ connections'[j] = Spectator
             \/ /\ connections'[j].id \in DOMAIN players'.names
                /\ connections'[j].flag = PaidFlag => connections'[j].id \in players'.unlocked
  <2>1. CASE j = k
    <3>1. connections'[j] = h
      BY <2>1 DEF Base, Types
    <3>2. QED
      BY <3>1
  <2>2. CASE j # k
    <3>1. connections'[j] = connections[j]
      BY <2>2 DEF Base, Types
    <3>2. QED
      BY <3>1 DEF Base, HoldersKnown
  <2>3. QED
    BY <2>1, <2>2
<1>3. QED
  BY <1>1, <1>2 DEF HoldersKnown

\* What every request does.
RequestFacts ==
    /\ Refuses \/ \E e : Enters(e)
    /\ connections' \in [Conn -> Holder] /\ HoldersKnown'
    /\ UNCHANGED storage

LEMMA JoinNewStep ==
    ASSUME Base, NEW k \in Conn, NEW wish \in Name \cup {BadName}, NEW f \in Flag,
           JoinNew(k, wish, f)
    PROVE  RequestFacts
<1> DEFINE p == players.next
           t == issued + 1
           flag == IF IsFlagUnlocked(p, f) THEN f ELSE FreeFlag
<1>1. PICK n \in IF wish # BadName THEN {wish} \ {x \in Name : Taken(x, 0)}
                 ELSE IF DefaultName[p] \in Name \ DOMAIN players.index THEN {DefaultName[p]}
                 ELSE Range(DefaultName) \cap (Name \ DOMAIN players.index) :
        /\ players' = [players EXCEPT
              !.names = Put(@, p, n), !.index = Put(@, n, p),
              !.flags = Put(@, p, flag), !.tokens = Put(@, t, p), !.next = p + 1]
        /\ connections' = [connections EXCEPT ![k] = [id |-> p, name |-> n, flag |-> flag]]
        /\ issued' = t
        /\ log' = Append(log, PlayerEntry(p, players', t))
  BY DEF JoinNew, Logs
<1>2. p \in Id /\ p \in Nat /\ UNCHANGED storage
  BY IdNat DEF JoinNew
<1>3. players \in Maps /\ t \in Nat /\ t # NoToken /\ p \notin DOMAIN players.names
  BY <1>2 DEF Base, Types, Formed, NoToken
<1>4. n \in Name /\ (\A x \in {n} : ~ Taken(x, 0) \/ n \notin DOMAIN players.index)
  <2>1. CASE wish # BadName
    BY <1>1, <2>1
  <2>2. CASE wish = BadName
    BY <1>1, <1>2, <2>2, IdentityAssumption
  <2>3. QED
    BY <2>1, <2>2
<1>5. flag \in Flag /\ (flag = PaidFlag => p \in players.unlocked)
  <2>1. p \notin DOMAIN players.flags
    BY <1>3 DEF Base, Formed
  <2>2. QED
    BY <2>1, IdentityAssumption DEF IsFlagUnlocked, Flag
<1> HIDE DEF flag
<1> DEFINE e == PlayerEntry(p, players', t)
           x == ReplayEntry(players, e)
<1>6. /\ players'.names = Put(players.names, p, n) /\ players'.index = Put(players.index, n, p)
      /\ players'.flags = Put(players.flags, p, flag)
      /\ players'.tokens = Put(players.tokens, t, p) /\ players'.next = p + 1
      /\ players'.unlocked = players.unlocked
  BY <1>1, <1>3 DEF Maps
<1>7. players' \in Maps
  <2>1. /\ Put(players.names, p, n) \in Partial(Id, Name)
        /\ Put(players.index, n, p) \in Partial(Name, Id)
        /\ Put(players.flags, p, flag) \in Partial(Id, Flag)
        /\ Put(players.tokens, t, p) \in Partial(Nat, Id)
    BY <1>2, <1>3, <1>4, <1>5, PutFacts DEF Maps
  <2>2. p + 1 \in Nat \ {0}
    BY <1>2
  <2>3. QED
    BY <1>1, <1>3, <2>1, <2>2 DEF Maps
<1>8. players'.names[p] = n /\ players'.flags[p] = flag
      /\ DOMAIN players'.names = DOMAIN players.names \cup {p}
  BY <1>6 DEF Put
<1>9. e = [id |-> p, name |-> n, flag |-> flag, token |-> t]
  BY <1>8 DEF PlayerEntry
<1>10. e \in Entry /\ ~ IsUnlock(e) /\ e.id = p /\ e.name = n /\ e.flag = flag /\ e.token = t
  BY <1>2, <1>3, <1>4, <1>5, <1>9 DEF Entry, IsUnlock
<1> HIDE DEF e
<1>11. IndexWithout(players, e) = players.index
  BY <1>3, <1>10 DEF IndexWithout
<1>12. /\ x.names = players'.names /\ x.index = players'.index /\ x.flags = players'.flags
       /\ x.tokens = players'.tokens /\ x.next = players'.next
       /\ x.unlocked = players'.unlocked
  <2>1. p >= players.next
    BY <1>2
  <2>2. QED
    BY <1>3, <1>6, <1>10, <1>11, <2>1, PlayerEntryFacts
<1>13. ASSUME Exact(players), NEW q \in DOMAIN players.names  PROVE players.names[q] # n
  <2>1. players.names[q] \in DOMAIN players.index /\ players.index[players.names[q]] = q
    BY <1>3, <1>13, ExactFacts
  <2>2. q # 0
    BY <1>3, PartialFacts, IdNat DEF Maps
  <2>3. QED
    BY <1>4, <2>1, <2>2 DEF Taken
<1>14. Enters(e)
  BY <1>1, <1>5, <1>7, <1>10, <1>12, <1>13 DEF Enters, e
<1>15. connections' \in [Conn -> Holder] /\ HoldersKnown'
  <2>1. [id |-> p, name |-> n, flag |-> flag] \in Holder
    BY <1>2, <1>4, <1>5 DEF Holder
  <2>2. DOMAIN players.names \subseteq DOMAIN players'.names /\ p \in DOMAIN players'.names
        /\ players'.unlocked = players.unlocked
    BY <1>6, <1>8
  <2> HIDE DEF p
  <2>3. QED
    BY <1>1, <1>5, <1>7, <2>1, <2>2, HoldersStay
<1>16. QED
  BY <1>2, <1>14, <1>15 DEF RequestFacts

\* The answers to a request to change the profile.
LEMMA ChangedEnters ==
    ASSUME Base, NEW p \in DOMAIN players.names, NEW n \in Name \cup {NoName, BadName},
           NEW f \in Flag, players' = Changed(p, n, f), issued' = issued
    PROVE  /\ LogsUnlessRefused(p, n) => Refuses \/ \E e : Enters(e)
           /\ Logs(PlayerEntry(p, players', NoToken)) /\ ~ Refused(p, n) => \E e : Enters(e)
           /\ players' \in Maps /\ Earns(players') /\ DOMAIN players'.names = DOMAIN players.names
           /\ DOMAIN players'.flags = DOMAIN players.names
           /\ players'.unlocked = players.unlocked
<1> DEFINE e == PlayerEntry(p, players', NoToken)
           x == ReplayEntry(players, e)
<1>1. /\ players' \in Maps /\ e \in Entry /\ ~ IsUnlock(e) /\ e.id = p /\ e.token = NoToken
      /\ players'.names[p] = e.name /\ players'.flags[p] = e.flag
      /\ DOMAIN players'.names = DOMAIN players.names
      /\ players'.names = x.names /\ players'.flags = x.flags /\ players'.tokens = x.tokens
      /\ players'.next = x.next /\ players'.unlocked = x.unlocked
      /\ Exact(players) => players'.index = x.index
      /\ players'.tokens = players.tokens /\ players'.next = players.next
      /\ players'.unlocked = players.unlocked /\ DOMAIN players'.flags = DOMAIN players.flags
      /\ Earns(players')
      /\ Refused(p, n) => players'.names = players.names /\ players'.index = players.index
      /\ Exact(players) /\ ~ Refused(p, n) =>
            \A q \in DOMAIN players.names \ {p} : players.names[q] # e.name
  BY ChangedFacts DEF Base
<1>2. e.flag = PaidFlag => p \in players.unlocked
  BY <1>1 DEF Earns, Base, Formed
<1>3. ASSUME Logs(e), ~ Refused(p, n)  PROVE Enters(e)
  <2> HIDE DEF e
  <2>1. QED
    BY <1>1, <1>2, <1>3 DEF Enters, Logs
<1>4. ASSUME LogsUnlessRefused(p, n), Refused(p, n)  PROVE Refuses
  BY <1>1, <1>4 DEF Refuses, LogsUnlessRefused
<1>5. LogsUnlessRefused(p, n) => Refuses \/ \E d : Enters(d)
  BY <1>3, <1>4 DEF LogsUnlessRefused
<1>6. QED
  BY <1>1, <1>3, <1>5 DEF Base, Formed

\* The copies of a connection follow the maps.
LEMMA CopyStep ==
    ASSUME Base, NEW p \in DOMAIN players.names, NEW k \in Conn,
           players' \in Maps, Earns(players'), DOMAIN players'.names = DOMAIN players.names,
           DOMAIN players'.flags = DOMAIN players.names, players'.unlocked = players.unlocked,
           connections' = [connections EXCEPT
                ![k] = [id |-> p, name |-> players'.names[p], flag |-> players'.flags[p]]]
    PROVE  connections' \in [Conn -> Holder] /\ HoldersKnown'
<1> DEFINE h == [id |-> p, name |-> players'.names[p], flag |-> players'.flags[p]]
<1>1. /\ p \in DOMAIN players'.names /\ p \in DOMAIN players'.flags
      /\ players'.names \in Partial(Id, Name) /\ players'.flags \in Partial(Id, Flag)
  BY DEF Maps
<1>2. p \in Id /\ players'.names[p] \in Name /\ players'.flags[p] \in Flag
  BY <1>1, PartialFacts
<1>3. h \in Holder
  BY <1>2 DEF Holder
<1>4. h.id \in DOMAIN players'.names /\ (h.flag = PaidFlag => h.id \in players'.unlocked)
  BY <1>1 DEF Earns
<1>5. connections' = [connections EXCEPT ![k] = h]
  OBVIOUS
<1> HIDE DEF h
<1>6. QED
  BY <1>3, <1>4, <1>5, HoldersStay

\* Connections that nothing happens to.
LEMMA NoCopyStep ==
    ASSUME Base, connections' = connections, DOMAIN players.names \subseteq DOMAIN players'.names,
           players.unlocked \subseteq players'.unlocked
    PROVE  connections' \in [Conn -> Holder] /\ HoldersKnown'
BY DEF Base, Types, HoldersKnown

LEMMA JoinBackStep ==
    ASSUME Base, NEW k \in Conn, NEW t, NEW n \in Name \cup {NoName, BadName}, NEW f \in Flag,
           JoinBack(k, t, n, f)
    PROVE  RequestFacts
<1> DEFINE p == players.tokens[t]
<1>1. /\ t \in DOMAIN players.tokens /\ players' = Changed(p, n, f)
      /\ LogsUnlessRefused(p, n) /\ issued' = issued /\ UNCHANGED storage
      /\ connections' = IF Refused(p, n) THEN connections
             ELSE [connections EXCEPT
                    ![k] = [id |-> p, name |-> players'.names[p], flag |-> players'.flags[p]]]
  BY DEF JoinBack
<1>2. p \in DOMAIN players.names
  BY <1>1 DEF Base, Formed, Range
<1> HIDE DEF p
<1>3. /\ Refuses \/ \E e : Enters(e)
      /\ players' \in Maps /\ Earns(players') /\ DOMAIN players'.names = DOMAIN players.names
      /\ DOMAIN players'.flags = DOMAIN players.names
      /\ players'.unlocked = players.unlocked
  BY <1>1, <1>2, ChangedEnters
<1>4. connections' \in [Conn -> Holder] /\ HoldersKnown'
  <2>1. CASE Refused(p, n)
    BY <1>1, <1>3, <2>1, NoCopyStep
  <2>2. CASE ~ Refused(p, n)
    BY <1>1, <1>2, <1>3, <2>2, CopyStep
  <2>3. QED
    BY <2>1, <2>2
<1>5. QED
  BY <1>1, <1>3, <1>4 DEF RequestFacts

LEMMA UpdateProfileStep ==
    ASSUME Base, NEW k \in Conn, NEW n \in Name \cup {NoName, BadName}, NEW f \in Flag,
           UpdateProfile(k, n, f)
    PROVE  RequestFacts
<1> DEFINE p == connections[k].id
           renamed == n # NoName /\ players.names[p] # n /\ ~ Refused(p, n)
           reflagged == players.flags[p] # f /\ IsFlagUnlocked(p, f)
           h == [connections[k] EXCEPT !.name = IF renamed THEN n ELSE @,
                                       !.flag = IF reflagged THEN f ELSE @]
<1>1. /\ connections[k] # Spectator /\ players' = Changed(p, n, f)
      /\ LogsUnlessRefused(p, n) /\ issued' = issued /\ UNCHANGED storage
      /\ connections' = [connections EXCEPT ![k].name = IF renamed THEN n ELSE @,
                                            ![k].flag = IF reflagged THEN f ELSE @]
  BY DEF UpdateProfile
<1>2. /\ p \in DOMAIN players.names /\ connections[k] \in Holder
      /\ connections[k].flag = PaidFlag => p \in players.unlocked
  BY <1>1 DEF Base, HoldersKnown, Types
<1>3. /\ Refuses \/ \E e : Enters(e)
      /\ players' \in Maps /\ Earns(players') /\ DOMAIN players'.names = DOMAIN players.names
      /\ DOMAIN players'.flags = DOMAIN players.names
      /\ players'.unlocked = players.unlocked
  BY <1>1, <1>2, ChangedEnters
<1>4. reflagged /\ f = PaidFlag => p \in players.unlocked
  BY DEF IsFlagUnlocked
<1>5. renamed => n \in Name
  BY DEF Refused
<1> HIDE DEF renamed, reflagged
<1>6. connections' = [connections EXCEPT ![k] = h]
  BY <1>1 DEF Base, Types
<1>7. /\ h \in Holder /\ h.id = p
      /\ h.flag = IF reflagged THEN f ELSE connections[k].flag
  BY <1>2, <1>5 DEF Holder
<1>8. h.id \in DOMAIN players'.names /\ (h.flag = PaidFlag => h.id \in players'.unlocked)
  BY <1>2, <1>3, <1>4, <1>7
<1> HIDE DEF h, p
<1>9. connections' \in [Conn -> Holder] /\ HoldersKnown'
  BY <1>3, <1>6, <1>7, <1>8, HoldersStay
<1>10. QED
  BY <1>1, <1>3, <1>9 DEF RequestFacts

LEMMA ProfileUpdateStep ==
    ASSUME Base, NEW t, NEW n \in Name \cup {NoName, BadName}, NEW f \in Flag,
           ProfileUpdate(t, n, f)
    PROVE  RequestFacts
<1> DEFINE p == players.tokens[t]
<1>1. /\ t \in DOMAIN players.tokens /\ ~ Refused(p, n) /\ players' = Changed(p, n, f)
      /\ Logs(PlayerEntry(p, players', NoToken))
      /\ connections' = connections /\ issued' = issued /\ UNCHANGED storage
  BY DEF ProfileUpdate
<1>2. p \in DOMAIN players.names
  BY <1>1 DEF Base, Formed, Range
<1> HIDE DEF p
<1>3. /\ \E e : Enters(e)
      /\ DOMAIN players'.names = DOMAIN players.names /\ players'.unlocked = players.unlocked
  BY <1>1, <1>2, ChangedEnters
<1>4. connections' \in [Conn -> Holder] /\ HoldersKnown'
  BY <1>1, <1>3, NoCopyStep
<1>5. QED
  BY <1>1, <1>3, <1>4 DEF RequestFacts

LEMMA UnlockStep ==
    ASSUME Base, NEW p \in Id, Unlock(p)
    PROVE  RequestFacts
<1> DEFINE e == [unlock |-> p]
<1>1. /\ players' = [players EXCEPT !.unlocked = @ \cup {p}] /\ log' = Append(log, e)
      /\ connections' = connections /\ issued' = issued /\ UNCHANGED storage
  BY DEF Unlock, Logs
<1>2. e \in Entry /\ IsUnlock(e) /\ e.unlock = p
  BY DEF Entry, IsUnlock
<1> HIDE DEF e
<1>3. /\ players'.names = players.names /\ players'.index = players.index
      /\ players'.flags = players.flags /\ players'.tokens = players.tokens
      /\ players'.next = players.next /\ players'.unlocked = players.unlocked \cup {p}
      /\ players' \in Maps
  BY <1>1 DEF Base, Types, Maps
<1>4. Enters(e)
  BY <1>1, <1>2, <1>3, UnlockEntryFacts DEF Enters, Base, Types
<1>5. connections' \in [Conn -> Holder] /\ HoldersKnown'
  BY <1>1, <1>3, NoCopyStep
<1>6. QED
  BY <1>1, <1>4, <1>5 DEF RequestFacts

LEMMA RequestStep == ASSUME Base, Request PROVE RequestFacts
<1>1. offer.names \subseteq Name \cup {BadName} /\ offer.flags \subseteq Flag
  BY IdentityAssumption DEF Base, Types, Flag
<1>2. CASE \E k \in Conn, n \in offer.names, f \in offer.flags : JoinNew(k, n, f)
  BY <1>1, <1>2, JoinNewStep
<1>3. CASE \E k \in Conn, t \in 1 .. issued, n \in offer.names \cup {NoName}, f \in offer.flags :
              JoinBack(k, t, n, f)
  BY <1>1, <1>3, JoinBackStep
<1>4. CASE \E k \in Conn, n \in offer.names \cup {NoName}, f \in offer.flags :
              UpdateProfile(k, n, f)
  BY <1>1, <1>4, UpdateProfileStep
<1>5. CASE \E t \in 1 .. issued, n \in offer.names \cup {NoName}, f \in offer.flags :
              ProfileUpdate(t, n, f)
  BY <1>1, <1>5, ProfileUpdateStep
<1>6. CASE PaidFlag \in offer.flags /\ \E p \in Id : Unlock(p)
  BY <1>6, UnlockStep
<1>7. QED
  BY <1>2, <1>3, <1>4, <1>5, <1>6 DEF Request

-----------------------------------------------------------------------------
(***************************************************************************)
(* What is stored accounts for what is in memory: a kill loses requests,   *)
(* but it never leaves a flag without its unlock, and it never leaves a    *)
(* token that opens two identities or an identity that two tokens open,    *)
(* however much of the log it cuts off.                                    *)
(***************************************************************************)

\* The players that entries first to last of s unlock the flag for.
UnlocksIn(s, first, last) ==
    {p \in Id : \E i \in first .. last : IsUnlock(s[i]) /\ s[i].unlock = p}

\* Token t opens the identity p: in the maps m, by an entry of s, anywhere.
HasToken(m, t, p) == t \in DOMAIN m.tokens /\ m.tokens[t] = p
GivesToken(s, t, p) ==
    \E i \in 1 .. Len(s) :
        ~ IsUnlock(s[i]) /\ s[i].token = t /\ t # NoToken /\ s[i].id = p
Opens(t, p) == HasToken(players, t, p) \/ HasToken(snapshot.maps, t, p) \/ GivesToken(log, t, p)

Places ==
    /\ removed <= listed /\ listed <= durable /\ durable <= Len(log)
    /\ snapshot.upTo <= Len(log)

UnlocksBacked ==
    /\ players.unlocked \subseteq
           snapshot.maps.unlocked \cup UnlocksIn(log, removed + 1, Len(log))
    /\ snapshot.maps.unlocked \subseteq players.unlocked
    /\ UnlocksIn(log, 1, Len(log)) \subseteq players.unlocked
    /\ UnlocksIn(log, 1, listed) \subseteq snapshot.maps.unlocked
    /\ \A i \in 1 .. Len(log) :
          ~ IsUnlock(log[i]) /\ log[i].flag = PaidFlag =>
              log[i].id \in snapshot.maps.unlocked \cup UnlocksIn(log, removed + 1, i - 1)

TokensKnown ==
    /\ \A t, u \in Nat, p, q \in Id : Opens(t, p) /\ Opens(u, q) => (t = u <=> p = q)
    /\ \A t \in Nat, p \in Id : Opens(t, p) => t <= issued

IdsKnown ==
    /\ snapshot.maps.next <= players.next
    /\ \A i \in 1 .. Len(log) : ~ IsUnlock(log[i]) => log[i].id < players.next
    /\ \A i \in 1 .. listed : ~ IsUnlock(log[i]) => log[i].id < snapshot.maps.next

Backed ==
    /\ Base /\ Formed(snapshot.maps) /\ Earns(snapshot.maps)
    /\ Places /\ UnlocksBacked /\ TokensKnown /\ IdsKnown

\* Only who plays is given a token.
LEMMA OpensFacts ==
    ASSUME Backed, NEW t \in Nat, NEW p \in Id, Opens(t, p)
    PROVE  p < players.next
<1>1. CASE HasToken(players, t, p)
  BY <1>1 DEF HasToken, Backed, Base, Formed, Range
<1>2. CASE HasToken(snapshot.maps, t, p)
  <2>1. p < snapshot.maps.next
    BY <1>2 DEF HasToken, Backed, Formed, Range
  <2>2. p \in Nat /\ snapshot.maps.next \in Nat /\ players.next \in Nat
    BY IdNat DEF Backed, Base, Types, Maps
  <2>3. QED
    BY <2>1, <2>2 DEF Backed, IdsKnown
<1>3. CASE GivesToken(log, t, p)
  BY <1>3 DEF GivesToken, Backed, IdsKnown
<1>4. QED
  BY <1>1, <1>2, <1>3 DEF Opens

\* What a boot starts from.
LEMMA RestoredFacts ==
    ASSUME Types, NEW m \in Restored
    PROVE  /\ m \in Maps /\ m.names = snapshot.maps.names /\ m.flags = snapshot.maps.flags
           /\ m.tokens = snapshot.maps.tokens /\ m.next = snapshot.maps.next
           /\ m.unlocked = snapshot.maps.unlocked
           /\ Formed(snapshot.maps) => Formed(m)
           /\ Earns(snapshot.maps) => Earns(m)
<1> DEFINE w == snapshot.maps
<1>1. w \in Maps
  BY DEF Types
<1>2. PICK g \in [Range(w.names) -> DOMAIN w.names] : m = [w EXCEPT !.index = g]
  BY DEF Restored
<1>3. Range(w.names) \subseteq Name /\ DOMAIN w.names \subseteq Id
  BY <1>1, PartialFacts DEF Maps, Range
<1>4. g \in Partial(Name, Id)
  <2>1. g \in [Range(w.names) -> Id]
    BY <1>3
  <2>2. QED
    BY <1>3, <2>1, PartialFacts
<1> HIDE DEF w
<1>5. /\ m \in Maps /\ m.names = w.names /\ m.flags = w.flags
      /\ m.tokens = w.tokens /\ m.next = w.next /\ m.unlocked = w.unlocked
  BY <1>1, <1>2, <1>4 DEF Maps
<1>6. QED
  BY <1>5 DEF w, Formed, Earns

\* What replaying the log up to n makes of that.
Accounts(x, n) ==
    /\ x \in Maps /\ Formed(x) /\ Earns(x)
    /\ x.unlocked = snapshot.maps.unlocked \cup UnlocksIn(log, removed + 1, n)
    /\ \A t \in Nat, p \in Id :
          HasToken(x, t, p) => HasToken(snapshot.maps, t, p) \/ GivesToken(log, t, p)
    /\ snapshot.maps.next <= x.next
    /\ \A i \in removed + 1 .. n : ~ IsUnlock(log[i]) => log[i].id < x.next

LEMMA AccountsStart ==
    ASSUME Backed, NEW m \in Restored
    PROVE  Accounts(m, removed)
<1>1. UnlocksIn(log, removed + 1, removed) = {} /\ removed + 1 .. removed = {}
  BY DEF UnlocksIn, Backed, Base, Types
<1>2. /\ m \in Maps /\ m.tokens = snapshot.maps.tokens /\ m.next = snapshot.maps.next
      /\ m.unlocked = snapshot.maps.unlocked /\ Formed(m) /\ Earns(m)
  BY RestoredFacts DEF Backed, Base
<1>3. snapshot.maps.next <= m.next
  BY <1>2 DEF Maps
<1>4. \A t, p : HasToken(m, t, p) => HasToken(snapshot.maps, t, p)
  BY <1>2 DEF HasToken
<1>5. QED
  BY <1>1, <1>2, <1>3, <1>4 DEF Accounts

LEMMA AccountsGoOn ==
    ASSUME Backed, NEW x, NEW n \in removed .. Len(log), n < Len(log), Accounts(x, n)
    PROVE  Accounts(ReplayEntry(x, log[n + 1]), n + 1)
<1> DEFINE e == log[n + 1]
           y == ReplayEntry(x, e)
<1>1. /\ removed \in Nat /\ n \in Nat /\ n + 1 \in 1 .. Len(log) /\ e \in Entry
      /\ removed + 1 .. n + 1 = (removed + 1 .. n) \cup {n + 1}
  BY DEF Backed, Base, Types
<1>2. x \in Maps /\ Formed(x) /\ Earns(x)
  BY DEF Accounts
<1>3. Formed(y) /\ x.next <= y.next /\ (~ IsUnlock(e) => e.id < y.next)
  BY <1>1, <1>2, EntryKeepsFormed
<1>4. CASE IsUnlock(e)
  <2>1. /\ y \in Maps /\ y.flags = x.flags /\ y.tokens = x.tokens /\ y.next = x.next
        /\ y.unlocked = x.unlocked \cup {e.unlock} /\ e.unlock \in Id
    BY <1>1, <1>2, <1>4, UnlockEntryFacts, EntryFacts
  <2>2. UnlocksIn(log, removed + 1, n + 1) = UnlocksIn(log, removed + 1, n) \cup {e.unlock}
    BY <1>1, <1>4, <2>1 DEF UnlocksIn
  <2>3. \A i \in removed + 1 .. n + 1 : ~ IsUnlock(log[i]) => i \in removed + 1 .. n
    BY <1>1, <1>4
  <2> HIDE DEF e, y
  <2>4. Earns(y)
    BY <1>2, <2>1 DEF Earns
  <2>5. \A t, p : HasToken(y, t, p) <=> HasToken(x, t, p)
    BY <2>1 DEF HasToken
  <2>6. QED
    BY <1>3, <2>1, <2>2, <2>3, <2>4, <2>5 DEF Accounts, y, e
<1>5. CASE ~ IsUnlock(e)
  <2>1. /\ y \in Maps /\ y.flags = Put(x.flags, e.id, e.flag) /\ y.unlocked = x.unlocked
        /\ y.tokens = IF e.token = NoToken THEN x.tokens ELSE Put(x.tokens, e.token, e.id)
    BY <1>1, <1>2, <1>5, PlayerEntryFacts
  <2>2. UnlocksIn(log, removed + 1, n + 1) = UnlocksIn(log, removed + 1, n)
    BY <1>1, <1>5 DEF UnlocksIn
  <2>3. e.flag = PaidFlag => e.id \in x.unlocked
    <3>1. e.flag = PaidFlag =>
            e.id \in snapshot.maps.unlocked \cup UnlocksIn(log, removed + 1, (n + 1) - 1)
      BY <1>1, <1>5 DEF Backed, UnlocksBacked
    <3>2. (n + 1) - 1 = n
      BY <1>1
    <3>3. QED
      BY <3>1, <3>2 DEF Accounts
  <2>4. GivesToken(log, e.token, e.id) \/ e.token = NoToken
    BY <1>1, <1>5 DEF GivesToken
  <2>5. \A i \in removed + 1 .. n + 1 : ~ IsUnlock(log[i]) => log[i].id < y.next
    <3>1. ASSUME NEW i \in removed + 1 .. n, ~ IsUnlock(log[i])  PROVE log[i].id < y.next
      <4>1. log[i].id < x.next
        BY <3>1 DEF Accounts
      <4>2. log[i] \in Entry
        BY <1>1, <3>1 DEF Backed, Base, Types
      <4>3. log[i].id \in Nat /\ x.next \in Nat /\ y.next \in Nat
        BY <1>2, <2>1, <3>1, <4>2, EntryFacts, IdNat DEF Maps
      <4>4. QED
        BY <1>3, <4>1, <4>3
    <3>2. QED
      BY <1>1, <1>3, <1>5, <3>1
  <2>6. snapshot.maps.next <= y.next
    <3>1. snapshot.maps.next \in Nat /\ x.next \in Nat /\ y.next \in Nat
      BY <1>2, <2>1 DEF Backed, Base, Types, Maps
    <3>2. QED
      BY <1>3, <3>1 DEF Accounts
  <2> HIDE DEF e, y
  <2>7. Earns(y)
    <3>1. \A q \in DOMAIN y.flags :
            y.flags[q] = IF q = e.id THEN e.flag ELSE x.flags[q]
      BY <2>1 DEF Put
    <3>2. \A q \in DOMAIN y.flags : q = e.id \/ q \in DOMAIN x.flags
      BY <2>1 DEF Put
    <3>3. QED
      BY <1>2, <2>1, <2>3, <3>1, <3>2 DEF Earns
  <2>8. \A t, p : HasToken(y, t, p) => HasToken(x, t, p) \/ GivesToken(log, t, p)
    <3>1. CASE e.token = NoToken
      BY <2>1, <3>1 DEF HasToken
    <3>2. CASE e.token # NoToken
      <4>1. \A t \in DOMAIN y.tokens :
              \/ t = e.token /\ y.tokens[t] = e.id
              \/ t \in DOMAIN x.tokens /\ y.tokens[t] = x.tokens[t]
        BY <2>1, <3>2 DEF Put
      <4>2. QED
        BY <2>4, <3>2, <4>1 DEF HasToken
    <3>3. QED
      BY <3>1, <3>2
  <2>9. QED
    BY <1>3, <2>1, <2>2, <2>5, <2>6, <2>7, <2>8 DEF Accounts, y, e
<1>6. QED
  BY <1>4, <1>5

LEMMA ReplayAccounts ==
    ASSUME Backed, NEW m \in Restored, NEW n \in removed .. Len(log)
    PROVE  Accounts(Replay(m, log, removed + 1, n), n)
<1> DEFINE T == {k \in removed .. Len(log) : Accounts(Replay(m, log, removed + 1, k), k)}
<1>1. /\ removed \in Nat /\ Len(log) \in Nat /\ removed <= Len(log) /\ log \in Seq(Entry)
      /\ durable \in Nat /\ listed \in Nat
  BY DEF Backed, Base, Types, Places
<1>2. removed \in T
  BY <1>1, ReplayNone, AccountsStart
<1>3. ASSUME NEW k \in removed .. Len(log), k \in T, k + 1 <= Len(log)
      PROVE  k + 1 \in T
  <2>1. k \in Nat /\ removed <= k /\ k < Len(log) /\ k + 1 \in removed .. Len(log)
    BY <1>1, <1>3
  <2>2. Replay(m, log, removed + 1, k + 1)
          = ReplayEntry(Replay(m, log, removed + 1, k), log[k + 1])
    BY <1>1, <2>1, ReplayOneMore
  <2>3. QED
    BY <1>3, <2>1, <2>2, AccountsGoOn
<1>4. removed .. Len(log) \subseteq T
  <2> HIDE DEF T
  <2>1. QED
    BY <1>1, <1>2, <1>3, IntervalByInduction
<1>5. QED
  BY <1>4

\* An entry at the end of the log.
LEMMA EntryAppended ==
    ASSUME NEW s \in Seq(Entry), NEW e \in Entry
    PROVE  LET t == Append(s, e)
           IN  /\ t \in Seq(Entry) /\ Len(t) = Len(s) + 1 /\ t[Len(s) + 1] = e
               /\ \A i \in 1 .. Len(s) : t[i] = s[i]
OBVIOUS

LEMMA BackedInit == ASSUME Init PROVE Backed
<1>1. Nobody \in Maps /\ Formed(Nobody) /\ Earns(Nobody)
  <2>1. <<>> \in Partial(Id, Name) /\ <<>> \in Partial(Name, Id) /\ <<>> \in Partial(Id, Flag)
        /\ <<>> \in Partial(Nat, Id) /\ DOMAIN <<>> = {}
    <3>1. \A T : <<>> \in [{} -> T] /\ DOMAIN <<>> = {}
      OBVIOUS
    <3>2. QED
      BY <3>1, PartialFacts
  <2>2. QED
    BY <2>1 DEF Nobody, Maps, Formed, Earns, Range
<1>2. Spectator \in Holder
  BY DEF Spectator, Holder, Flag
<1>3. Base
  BY <1>1, <1>2 DEF Init, Base, Types, HoldersKnown
<1>4. snapshot.maps = Nobody /\ players = Nobody /\ log = <<>> /\ Len(log) = 0
  BY DEF Init
<1>5. Places
  BY DEF Init, Places
<1>6. UnlocksBacked
  <2>1. players.unlocked = {} /\ snapshot.maps.unlocked = {}
    BY <1>4 DEF Nobody
  <2>2. \A a, b \in Nat : b = 0 => UnlocksIn(log, 1, b) = {}
    BY DEF UnlocksIn
  <2>3. listed = 0
    BY DEF Init
  <2>4. QED
    BY <1>4, <2>1, <2>2, <2>3 DEF UnlocksBacked
<1>7. TokensKnown
  <2>1. \A t, p : ~ HasToken(Nobody, t, p)
    BY DEF HasToken, Nobody
  <2>2. \A t, p : ~ GivesToken(log, t, p)
    BY <1>4 DEF GivesToken
  <2>3. QED
    BY <1>4, <2>1, <2>2 DEF TokensKnown, Opens
<1>8. IdsKnown
  BY <1>4 DEF Init, IdsKnown, Nobody
<1>9. QED
  BY <1>1, <1>3, <1>4, <1>5, <1>6, <1>7, <1>8 DEF Backed

\* A request that writes an entry.
LEMMA EntersBacked ==
    ASSUME Backed, NEW e, Enters(e), UNCHANGED <<storage, offer>>,
           connections' \in [Conn -> Holder], HoldersKnown'
    PROVE  Backed'
<1> DEFINE x == ReplayEntry(players, e)
<1>1. /\ e \in Entry /\ log' = Append(log, e) /\ players' \in Maps /\ players \in Maps
      /\ players'.names = x.names /\ players'.flags = x.flags
      /\ players'.tokens = x.tokens /\ players'.next = x.next
      /\ players'.unlocked = x.unlocked
  BY DEF Enters, Backed, Base, Types
<1>2. /\ log \in Seq(Entry) /\ log' \in Seq(Entry) /\ Len(log) \in Nat
      /\ Len(log') = Len(log) + 1 /\ log'[Len(log) + 1] = e
      /\ \A i \in 1 .. Len(log) : log'[i] = log[i]
  BY <1>1, EntryAppended DEF Backed, Base, Types
<1>3. /\ snapshot' = snapshot /\ removed' = removed /\ durable' = durable
      /\ listed' = listed /\ removed \in Nat /\ durable \in Nat /\ listed \in Nat
      /\ snapshot.maps \in Maps /\ issued \in Nat
      /\ snapshot.upTo \in Nat /\ offer' = offer
  BY DEF storage, Backed, Base, Types
<1>4. IF IsUnlock(e) THEN issued' = issued
      ELSE /\ e.flag = PaidFlag => e.id \in players.unlocked
           /\ \/ e.token = NoToken /\ issued' = issued /\ e.id \in DOMAIN players.names
              \/ e.token = issued + 1 /\ issued' = issued + 1 /\ e.id = players.next
  BY DEF Enters
<1>5. issued' \in Nat /\ issued <= issued'
  BY <1>3, <1>4
<1>6. Formed(players') /\ players.next <= players'.next
      /\ (~ IsUnlock(e) => e.id < players'.next)
  <2>1. Formed(x) /\ players.next <= x.next /\ (~ IsUnlock(e) => e.id < x.next)
    BY <1>1, EntryKeepsFormed DEF Backed, Base
  <2> HIDE DEF x
  <2>2. QED
    BY <1>1, <2>1 DEF Formed
<1>7. /\ IsUnlock(e) => /\ e.unlock \in Id /\ players'.unlocked = players.unlocked \cup {e.unlock}
                        /\ players'.flags = players.flags /\ players'.tokens = players.tokens
      /\ ~ IsUnlock(e) =>
            /\ players'.unlocked = players.unlocked
            /\ players'.flags = Put(players.flags, e.id, e.flag)
            /\ players'.tokens = IF e.token = NoToken THEN players.tokens
                                 ELSE Put(players.tokens, e.token, e.id)
  BY <1>1, UnlockEntryFacts, PlayerEntryFacts, EntryFacts
<1> HIDE DEF x
<1>8. Earns(players')
  <2>1. CASE IsUnlock(e)
    BY <1>7, <2>1 DEF Earns, Backed, Base
  <2>2. CASE ~ IsUnlock(e)
    <3>1. \A q \in DOMAIN players'.flags :
            /\ q = e.id \/ q \in DOMAIN players.flags
            /\ players'.flags[q] = IF q = e.id THEN e.flag ELSE players.flags[q]
      BY <1>7, <2>2 DEF Put
    <3>2. QED
      BY <1>4, <1>7, <2>2, <3>1 DEF Earns, Backed, Base
  <2>3. QED
    BY <2>1, <2>2
<1>9. Base'
  BY <1>1, <1>2, <1>3, <1>5, <1>6, <1>8 DEF Base, Types, Backed
<1>10. Places'
  BY <1>2, <1>3 DEF Places, Backed
<1>11. UnlocksBacked'
  <2>1. \A a, b \in Nat : b <= Len(log) /\ 1 <= a => UnlocksIn(log', a, b) = UnlocksIn(log, a, b)
    BY <1>2 DEF UnlocksIn
  <2>2. \A a \in Nat : 1 <= a /\ a <= Len(log) + 1 =>
            UnlocksIn(log', a, Len(log) + 1) =
               IF IsUnlock(e) THEN UnlocksIn(log, a, Len(log)) \cup {e.unlock}
               ELSE UnlocksIn(log, a, Len(log))
    <3>1. ASSUME NEW a \in Nat, 1 <= a, a <= Len(log) + 1
          PROVE  a .. Len(log) + 1 = (a .. Len(log)) \cup {Len(log) + 1}
      BY <1>2, <3>1
    <3>2. \A a \in Nat : 1 <= a => a .. Len(log) \subseteq 1 .. Len(log)
      BY <1>2
    <3>3. QED
      BY <1>2, <1>7, <3>1, <3>2 DEF UnlocksIn
  <2>3. removed + 1 \in Nat /\ 1 <= removed + 1 /\ removed + 1 <= Len(log) + 1
        /\ listed <= Len(log) /\ 1 \in Nat /\ 1 <= Len(log) + 1
    BY <1>2, <1>3 DEF Backed, Places
  <2>4. players'.unlocked \subseteq
           snapshot.maps.unlocked \cup UnlocksIn(log', removed + 1, Len(log) + 1)
    BY <1>7, <2>2, <2>3 DEF Backed, UnlocksBacked
  <2>5. snapshot.maps.unlocked \subseteq players'.unlocked
    BY <1>7 DEF Backed, UnlocksBacked
  <2>6. UnlocksIn(log', 1, Len(log) + 1) \subseteq players'.unlocked
    <3>1. UnlocksIn(log', 1, Len(log) + 1) =
               IF IsUnlock(e) THEN UnlocksIn(log, 1, Len(log)) \cup {e.unlock}
               ELSE UnlocksIn(log, 1, Len(log))
      <4>1. 1 \in Nat /\ 1 <= 1 /\ 1 <= Len(log) + 1
        BY <1>2
      <4>2. QED
        BY <2>2, <4>1, Zenon
    <3>2. UnlocksIn(log, 1, Len(log)) \subseteq players.unlocked
      BY DEF Backed, UnlocksBacked
    <3>3. QED
      BY <1>7, <3>1, <3>2
  <2>7. UnlocksIn(log', 1, listed) \subseteq snapshot.maps.unlocked
    BY <1>3, <2>1, <2>3 DEF Backed, UnlocksBacked
  <2>8. ASSUME NEW i \in 1 .. Len(log) + 1, ~ IsUnlock(log'[i]), log'[i].flag = PaidFlag
        PROVE  log'[i].id \in snapshot.maps.unlocked \cup UnlocksIn(log', removed + 1, i - 1)
    <3>1. i - 1 \in Nat /\ i - 1 <= Len(log)
      BY <1>2
    <3>2. UnlocksIn(log', removed + 1, i - 1) = UnlocksIn(log, removed + 1, i - 1)
      BY <2>1, <2>3, <3>1
    <3>3. CASE i \in 1 .. Len(log)
      BY <1>2, <2>8, <3>2, <3>3 DEF Backed, UnlocksBacked
    <3>4. CASE i = Len(log) + 1
      <4>1. log'[i] = e /\ i - 1 = Len(log)
        BY <1>2, <3>4
      <4>2. e.id \in players.unlocked
        BY <1>4, <2>8, <4>1
      <4>3. QED
        BY <3>2, <4>1, <4>2 DEF Backed, UnlocksBacked
    <3>5. QED
      BY <1>2, <3>3, <3>4
  <2>9. QED
    BY <1>2, <1>3, <2>4, <2>5, <2>6, <2>7, <2>8 DEF UnlocksBacked
<1>12. TokensKnown'
  <2>1. ASSUME NEW t \in Nat, NEW p \in Id, Opens(t, p)'
        PROVE  \/ Opens(t, p)
               \/ t = issued + 1 /\ p = players.next /\ issued' = issued + 1
    <3>1. CASE HasToken(players', t, p)
      <4>1. CASE players'.tokens = players.tokens
        BY <3>1, <4>1 DEF HasToken, Opens
      <4>2. CASE players'.tokens # players.tokens
        <5>1. ~ IsUnlock(e) /\ e.token # NoToken /\ players'.tokens = Put(players.tokens, e.token, e.id)
          BY <1>7, <4>2
        <5>2. HasToken(players, t, p) \/ (t = e.token /\ p = e.id)
          BY <3>1, <5>1 DEF HasToken, Put
        <5>3. QED
          BY <1>4, <5>1, <5>2 DEF Opens
      <4>3. QED
        BY <4>1, <4>2
    <3>2. CASE HasToken(snapshot.maps, t, p)
      BY <3>2 DEF Opens
    <3>3. CASE GivesToken(log', t, p)
      <4>1. PICK i \in 1 .. Len(log) + 1 : ~ IsUnlock(log'[i]) /\ log'[i].token = t
                 /\ t # NoToken /\ log'[i].id = p
        BY <1>2, <3>3 DEF GivesToken
      <4>2. CASE i \in 1 .. Len(log)
        <5>1. GivesToken(log, t, p)
          BY <1>2, <4>1, <4>2 DEF GivesToken
        <5>2. QED
          BY <5>1 DEF Opens
      <4>3. CASE i = Len(log) + 1
        BY <1>2, <1>4, <4>1, <4>3
      <4>4. QED
        BY <1>2, <4>2, <4>3
    <3>4. QED
      BY <1>3, <2>1, <3>1, <3>2, <3>3 DEF Opens
  <2>2. \A t \in Nat, p \in Id : Opens(t, p) => t # issued + 1 /\ p # players.next
    <3>1. ASSUME NEW t \in Nat, NEW p \in Id, Opens(t, p)
          PROVE  t # issued + 1 /\ p # players.next
      <4>1. t <= issued /\ p < players.next
        BY <3>1, OpensFacts DEF Backed, TokensKnown
      <4>2. p \in Nat /\ players.next \in Nat
        BY <1>1, IdNat DEF Maps
      <4>3. QED
        BY <1>3, <4>1, <4>2
    <3>2. QED
      BY <3>1
  <2> DEFINE New(t, p) == t = issued + 1 /\ p = players.next /\ issued' = issued + 1
  <2>3. ASSUME NEW t \in Nat, NEW u \in Nat, NEW p \in Id, NEW q \in Id,
               Opens(t, p)', Opens(u, q)'
        PROVE  t = u <=> p = q
    <3>1. (Opens(t, p) \/ New(t, p)) /\ (Opens(u, q) \/ New(u, q))
      BY <2>1, <2>3
    <3>2. CASE Opens(t, p) /\ Opens(u, q)
      BY <3>2 DEF Backed, TokensKnown
    <3>3. CASE New(t, p) /\ New(u, q)
      BY <3>3
    <3>4. CASE New(t, p) /\ Opens(u, q)
      BY <2>2, <3>4
    <3>5. CASE Opens(t, p) /\ New(u, q)
      BY <2>2, <3>5
    <3>6. QED
      BY <3>1, <3>2, <3>3, <3>4, <3>5
  <2>4. ASSUME NEW t \in Nat, NEW p \in Id, Opens(t, p)'
        PROVE  t <= issued'
    <3>1. CASE Opens(t, p)
      BY <1>3, <1>5, <3>1 DEF Backed, TokensKnown
    <3>2. CASE New(t, p)
      BY <1>3, <3>2
    <3>3. QED
      BY <2>1, <2>4, <3>1, <3>2
  <2>5. QED
    BY <2>3, <2>4 DEF TokensKnown
<1>13. IdsKnown'
  <2>1. players.next \in Nat /\ players'.next \in Nat /\ snapshot.maps.next \in Nat
    BY <1>1, <1>3 DEF Maps
  <2>2. snapshot.maps.next <= players'.next
    BY <1>6, <2>1 DEF Backed, IdsKnown
  <2>3. ASSUME NEW i \in 1 .. Len(log) + 1, ~ IsUnlock(log'[i])
        PROVE  log'[i].id < players'.next
    <3>1. CASE i \in 1 .. Len(log)
      <4>1. log[i] \in Entry /\ log'[i] = log[i]
        BY <1>2, <3>1
      <4>2. log[i].id \in Nat
        BY <2>3, <4>1, EntryFacts, IdNat
      <4>3. log[i].id < players.next
        BY <2>3, <3>1, <4>1 DEF Backed, IdsKnown
      <4>4. QED
        BY <1>6, <2>1, <4>1, <4>2, <4>3
    <3>2. CASE i = Len(log) + 1
      BY <1>2, <1>6, <2>3, <3>2
    <3>3. QED
      BY <1>2, <3>1, <3>2
  <2>4. \A i \in 1 .. listed : ~ IsUnlock(log'[i]) => log'[i].id < snapshot.maps.next
    <3>1. \A i \in 1 .. listed : log'[i] = log[i]
      BY <1>2, <1>3 DEF Backed, Places
    <3>2. QED
      BY <3>1 DEF Backed, IdsKnown
  <2>5. QED
    BY <1>2, <1>3, <2>2, <2>3, <2>4 DEF IdsKnown
<1>14. QED
  BY <1>3, <1>9, <1>10, <1>11, <1>12, <1>13 DEF Backed

\* A request that is refused.
LEMMA RefusesBacked ==
    ASSUME Backed, Refuses, UNCHANGED <<storage, offer>>,
           connections' \in [Conn -> Holder], HoldersKnown'
    PROVE  Backed'
<1>1. /\ log' = log /\ issued' = issued /\ players' \in Maps
      /\ snapshot' = snapshot /\ removed' = removed /\ durable' = durable /\ listed' = listed
      /\ players'.names = players.names /\ players'.tokens = players.tokens
      /\ players'.next = players.next /\ players'.unlocked = players.unlocked
      /\ DOMAIN players'.flags = DOMAIN players.flags /\ Earns(players')
  BY DEF Refuses, storage
<1>2. Base'
  BY <1>1 DEF Base, Types, Formed, Backed
<1>3. \A t, p : Opens(t, p)' <=> Opens(t, p)
  BY <1>1 DEF Opens, HasToken
<1>4. TokensKnown'
  BY <1>1, <1>3 DEF TokensKnown, Backed
<1>5. QED
  BY <1>1, <1>2, <1>4 DEF Backed, Places, UnlocksBacked, IdsKnown

LEMMA LeaveBacked ==
    ASSUME Backed, NEW k \in Conn, Leave(k), UNCHANGED offer
    PROVE  Backed'
<1>1. /\ players' = players /\ issued' = issued /\ log' = log /\ UNCHANGED storage
      /\ connections' = [connections EXCEPT ![k] = Spectator]
  BY DEF Leave
<1>2. Spectator \in Holder
  BY DEF Spectator, Holder, Flag
<1>3. connections' \in [Conn -> Holder] /\ HoldersKnown'
  BY <1>1, <1>2, HoldersStay DEF Backed, Base, Types
<1>4. \A t, p : Opens(t, p)' <=> Opens(t, p)
  BY <1>1 DEF Opens, HasToken, GivesToken, storage
<1>5. QED
  BY <1>1, <1>3, <1>4
     DEF Backed, Base, Types, storage, Places, UnlocksBacked, TokensKnown, IdsKnown

LEMMA FlushBacked == ASSUME Backed, Flush, UNCHANGED offer PROVE Backed'
<1>1. /\ durable' \in durable + 1 .. Len(log) /\ players' = players /\ issued' = issued
      /\ connections' = connections /\ log' = log /\ removed' = removed
      /\ snapshot' = snapshot /\ listed' = listed
  BY DEF Flush
<1>2. Base'
  BY <1>1 DEF Backed, Base, Types, HoldersKnown
<1>3. Places'
  BY <1>1 DEF Backed, Places, Base, Types
<1>4. \A t, p : Opens(t, p)' <=> Opens(t, p)
  BY <1>1 DEF Opens
<1>5. QED
  BY <1>1, <1>2, <1>3, <1>4 DEF Backed, UnlocksBacked, TokensKnown, IdsKnown

LEMMA SaveSnapshotBacked == ASSUME Backed, SaveSnapshot, UNCHANGED offer PROVE Backed'
<1>1. /\ snapshot' = [maps |-> players, upTo |-> Len(log)] /\ listed' \in removed .. durable
      /\ players' = players /\ connections' = connections /\ issued' = issued /\ log' = log
      /\ durable' = durable /\ removed' = removed
  BY DEF SaveSnapshot
<1>2. snapshot'.maps = players /\ snapshot'.upTo = Len(log)
      /\ snapshot' \in [maps : Maps, upTo : Nat]
  BY <1>1 DEF Backed, Base, Types
<1>3. Base'
  BY <1>1, <1>2 DEF Backed, Base, Types, HoldersKnown
<1>4. /\ durable \in Nat /\ removed \in Nat /\ listed' \in Nat /\ durable <= Len(log)
      /\ removed <= listed' /\ listed' <= durable /\ Len(log) \in Nat /\ players.next \in Nat
  BY <1>1 DEF Backed, Places, Base, Types, Maps
<1>5. Places'
  BY <1>1, <1>2, <1>4 DEF Places
<1>6. UnlocksBacked'
  <2>1. UnlocksIn(log, 1, Len(log)) \subseteq players.unlocked
        /\ snapshot.maps.unlocked \subseteq players.unlocked
    BY DEF Backed, UnlocksBacked
  <2>2. UnlocksIn(log, 1, listed') \subseteq UnlocksIn(log, 1, Len(log))
    BY <1>4 DEF UnlocksIn
  <2>3. ASSUME NEW i \in 1 .. Len(log), ~ IsUnlock(log[i]), log[i].flag = PaidFlag
        PROVE  log[i].id \in players.unlocked
    <3>1. UnlocksIn(log, removed + 1, i - 1) \subseteq UnlocksIn(log, 1, Len(log))
      BY <1>4 DEF UnlocksIn
    <3>2. QED
      BY <2>1, <2>3, <3>1 DEF Backed, UnlocksBacked
  <2>4. QED
    BY <1>1, <1>2, <2>1, <2>2, <2>3 DEF UnlocksBacked
<1>7. \A t, p : Opens(t, p)' => Opens(t, p)
  BY <1>1, <1>2 DEF Opens
<1>8. TokensKnown'
  BY <1>1, <1>7 DEF TokensKnown, Backed
<1>9. IdsKnown'
  <2>1. \A i \in 1 .. listed' : i \in 1 .. Len(log)
    BY <1>4
  <2>2. QED
    BY <1>1, <1>2, <1>4, <2>1 DEF IdsKnown, Backed
<1>10. QED
  BY <1>2, <1>3, <1>5, <1>6, <1>8, <1>9 DEF Backed, Base

LEMMA TruncateLogBacked == ASSUME Backed, TruncateLog, UNCHANGED offer PROVE Backed'
<1>1. /\ removed' \in removed + 1 .. listed /\ players' = players /\ connections' = connections
      /\ issued' = issued /\ log' = log /\ durable' = durable /\ snapshot' = snapshot
      /\ listed' = listed
  BY DEF TruncateLog
<1>2. /\ removed \in Nat /\ listed \in Nat /\ durable \in Nat /\ Len(log) \in Nat
      /\ removed' \in Nat /\ removed <= removed' /\ removed' <= listed /\ log \in Seq(Entry)
  BY <1>1 DEF Backed, Base, Types
<1>3. Base'
  BY <1>1, <1>2 DEF Backed, Base, Types, HoldersKnown
<1>4. Places'
  BY <1>1, <1>2 DEF Backed, Places
<1>5. ASSUME NEW b \in Int
      PROVE  UnlocksIn(log, removed + 1, b) \subseteq
                 snapshot.maps.unlocked \cup UnlocksIn(log, removed' + 1, b)
  <2>1. ASSUME NEW p \in Id, NEW i \in removed + 1 .. b, IsUnlock(log[i]), log[i].unlock = p
        PROVE  p \in snapshot.maps.unlocked \cup UnlocksIn(log, removed' + 1, b)
    <3>1. CASE i <= listed
      <4>1. p \in UnlocksIn(log, 1, listed)
        BY <1>2, <2>1, <3>1 DEF UnlocksIn
      <4>2. QED
        BY <4>1 DEF Backed, UnlocksBacked
    <3>2. CASE ~ (i <= listed)
      <4>1. i \in Int /\ i <= b
        BY <1>2, <1>5, <2>1
      <4>2. removed' \in Int /\ listed \in Int /\ removed' <= listed
        BY <1>2
      <4>3. \A x, y, z, c \in Int : x <= y /\ ~ (z <= y) /\ z <= c => z \in x + 1 .. c
        OBVIOUS
      <4>4. i \in removed' + 1 .. b
        BY <3>2, <4>1, <4>2, <4>3
      <4>5. QED
        BY <2>1, <4>4 DEF UnlocksIn
    <3>3. QED
      BY <3>1, <3>2
  <2>2. QED
    BY <2>1 DEF UnlocksIn
<1>6. UnlocksBacked'
  <2>1. players.unlocked \subseteq
            snapshot.maps.unlocked \cup UnlocksIn(log, removed' + 1, Len(log))
    BY <1>2, <1>5 DEF Backed, UnlocksBacked
  <2>2. \A i \in 1 .. Len(log) :
          ~ IsUnlock(log[i]) /\ log[i].flag = PaidFlag =>
              log[i].id \in snapshot.maps.unlocked \cup UnlocksIn(log, removed' + 1, i - 1)
    BY <1>5 DEF Backed, UnlocksBacked
  <2>3. QED
    BY <1>1, <2>1, <2>2 DEF Backed, UnlocksBacked
<1>7. \A t, p : Opens(t, p)' <=> Opens(t, p)
  BY <1>1 DEF Opens
<1>8. QED
  BY <1>1, <1>3, <1>4, <1>6, <1>7 DEF Backed, TokensKnown, IdsKnown

\* A boot: the log ends where it was durable, and nothing is left that the
\* maps do not account for.
LEMMA RebootBacked == ASSUME Backed, Reboot, UNCHANGED offer PROVE Backed'
<1>1. PICK m \in Restored : players' = Replay(m, log, removed + 1, durable)
  BY DEF Reboot, Rebuilt, Replay
<1>2. /\ log' = SubSeq(log, 1, durable)
      /\ snapshot' = [snapshot EXCEPT !.upTo = IF @ > durable THEN durable ELSE @]
      /\ connections' = [k \in Conn |-> Spectator] /\ listed' = removed
      /\ issued' = issued /\ durable' = durable /\ removed' = removed
  BY DEF Reboot
<1>3. /\ removed \in Nat /\ listed \in Nat /\ durable \in Nat /\ Len(log) \in Nat
      /\ removed <= listed /\ listed <= durable /\ durable <= Len(log)
      /\ log \in Seq(Entry) /\ snapshot \in [maps : Maps, upTo : Nat]
  BY DEF Backed, Places, Base, Types
<1>4. Accounts(players', durable)
  <2>1. durable \in removed .. Len(log)
    BY <1>3
  <2>2. QED
    BY <1>1, <2>1, ReplayAccounts
<1>5. log' \in Seq(Entry) /\ Len(log') = durable /\ \A i \in 1 .. durable : log'[i] = log[i]
  BY <1>2, <1>3
<1>6. /\ snapshot' \in [maps : Maps, upTo : Nat] /\ snapshot'.maps = snapshot.maps
      /\ snapshot'.upTo <= durable
  BY <1>2, <1>3
<1>7. Spectator \in Holder
  BY DEF Spectator, Holder, Flag
<1>8. Base'
  <2>1. Types'
    BY <1>2, <1>3, <1>4, <1>5, <1>6, <1>7 DEF Types, Accounts, Backed, Base
  <2>2. HoldersKnown'
    BY <1>2 DEF HoldersKnown
  <2>3. QED
    BY <1>4, <2>1, <2>2 DEF Base, Accounts
<1>9. Places'
  BY <1>2, <1>3, <1>5, <1>6 DEF Places
<1>10. \A a, b \in Nat : 1 <= a /\ b <= durable => UnlocksIn(log', a, b) = UnlocksIn(log, a, b)
  BY <1>5 DEF UnlocksIn
<1>11. UnlocksBacked'
  <2>1. /\ UnlocksIn(log', removed + 1, durable) = UnlocksIn(log, removed + 1, durable)
        /\ UnlocksIn(log', 1, durable) = UnlocksIn(log, 1, durable)
        /\ UnlocksIn(log', 1, removed) = UnlocksIn(log, 1, removed)
    <3>1. 1 \in Nat /\ 1 <= 1 /\ 1 <= removed + 1 /\ removed + 1 \in Nat /\ removed <= durable
          /\ durable <= durable
      BY <1>3
    <3>2. QED
      BY <1>3, <1>10, <3>1, Zenon
  <2>2. players'.unlocked = snapshot.maps.unlocked \cup UnlocksIn(log, removed + 1, durable)
    BY <1>4 DEF Accounts
  <2>3. UnlocksIn(log, 1, removed) \subseteq snapshot.maps.unlocked
    <3>1. UnlocksIn(log, 1, removed) \subseteq UnlocksIn(log, 1, listed)
      BY <1>3 DEF UnlocksIn
    <3>2. QED
      BY <3>1 DEF Backed, UnlocksBacked
  <2>4. UnlocksIn(log, 1, durable) \subseteq players'.unlocked
    <3>1. UnlocksIn(log, 1, durable)
            \subseteq UnlocksIn(log, 1, removed) \cup UnlocksIn(log, removed + 1, durable)
      BY <1>3 DEF UnlocksIn
    <3>2. QED
      BY <2>2, <2>3, <3>1
  <2>5. ASSUME NEW i \in 1 .. durable, ~ IsUnlock(log'[i]), log'[i].flag = PaidFlag
        PROVE  log'[i].id \in snapshot.maps.unlocked \cup UnlocksIn(log', removed + 1, i - 1)
    <3>1. log'[i] = log[i] /\ i \in 1 .. Len(log)
      BY <1>3, <1>5
    <3>2. log[i].id \in snapshot.maps.unlocked \cup UnlocksIn(log, removed + 1, i - 1)
      BY <2>5, <3>1 DEF Backed, UnlocksBacked
    <3>3. UnlocksIn(log', removed + 1, i - 1) = UnlocksIn(log, removed + 1, i - 1)
      <4>1. removed + 1 \in Nat /\ i - 1 \in Nat /\ 1 <= removed + 1 /\ i - 1 <= durable
        BY <1>3
      <4>2. QED
        BY <1>10, <4>1, Zenon
    <3>4. QED
      BY <3>1, <3>2, <3>3
  <2>6. QED
    BY <1>2, <1>5, <1>6, <2>1, <2>2, <2>3, <2>4, <2>5 DEF UnlocksBacked
<1>12. \A t \in Nat, p \in Id : Opens(t, p)' => Opens(t, p)
  <2>1. \A t, p : GivesToken(log', t, p) => GivesToken(log, t, p)
    BY <1>3, <1>5 DEF GivesToken
  <2>2. QED
    BY <1>4, <1>6, <2>1 DEF Opens, Accounts
<1>13. TokensKnown'
  BY <1>2, <1>12 DEF TokensKnown, Backed
<1>14. IdsKnown'
  <2>1. snapshot.maps.next <= players'.next
    BY <1>4 DEF Accounts
  <2>2. ASSUME NEW i \in 1 .. durable, ~ IsUnlock(log'[i])
        PROVE  log'[i].id < players'.next
    <3>1. log'[i] = log[i] /\ log[i] \in Entry /\ log[i].id \in Nat
      BY <1>3, <1>5, <2>2, EntryFacts, IdNat
    <3>2. CASE i <= removed
      <4>1. log[i].id < snapshot.maps.next
        BY <1>3, <2>2, <3>1, <3>2 DEF Backed, IdsKnown
      <4>2. snapshot.maps.next \in Nat /\ players'.next \in Nat
        BY <1>3, <1>4 DEF Accounts, Maps
      <4>3. QED
        BY <2>1, <3>1, <4>1, <4>2
    <3>3. CASE ~ (i <= removed)
      <4>1. i \in removed + 1 .. durable
        BY <1>3, <3>3
      <4>2. QED
        BY <1>4, <2>2, <3>1, <4>1 DEF Accounts
    <3>4. QED
      BY <3>2, <3>3
  <2>3. ASSUME NEW i \in 1 .. removed, ~ IsUnlock(log'[i])
        PROVE  log'[i].id < snapshot.maps.next
    <3>1. i \in 1 .. listed /\ log'[i] = log[i]
      BY <1>3, <1>5
    <3>2. QED
      BY <2>3, <3>1 DEF Backed, IdsKnown
  <2>4. QED
    BY <1>2, <1>5, <1>6, <2>1, <2>2, <2>3 DEF IdsKnown
<1>15. Formed(snapshot.maps)' /\ Earns(snapshot.maps)'
  BY <1>6 DEF Backed, Formed, Earns
<1>16. QED
  BY <1>8, <1>9, <1>11, <1>13, <1>14, <1>15 DEF Backed

LEMMA BackedNext == ASSUME Backed, [Next]_vars PROVE Backed'
<1>1. CASE Request /\ UNCHANGED offer
  <2>1. RequestFacts
    BY <1>1, RequestStep DEF Backed
  <2>2. QED
    BY <1>1, <2>1, EntersBacked, RefusesBacked DEF RequestFacts
<1>2. CASE (\E k \in Conn : Leave(k)) /\ UNCHANGED offer
  BY <1>2, LeaveBacked
<1>3. CASE (Flush \/ SaveSnapshot \/ TruncateLog \/ Reboot) /\ UNCHANGED offer
  BY <1>3, FlushBacked, SaveSnapshotBacked, TruncateLogBacked, RebootBacked
<1>4. CASE UNCHANGED vars
  <2>1. \A t, p : Opens(t, p)' <=> Opens(t, p)
    BY <1>4 DEF vars, storage, Opens, HasToken, GivesToken
  <2>2. QED
    BY <1>4, <2>1 DEF vars, storage, Backed, Base, Types, HoldersKnown, Formed, Earns, Places,
       UnlocksBacked, TokensKnown, IdsKnown
<1>5. QED
  BY <1>1, <1>2, <1>3, <1>4 DEF Next

\* The storage accounts for the memory in every reachable state.
THEOREM BackedInvariance == Spec => []Backed
<1>1. Init => Backed
  BY BackedInit
<1>2. Backed /\ [Next]_vars => Backed'
  BY BackedNext
<1>3. QED
  BY <1>1, <1>2, PTL DEF Spec

\* A token opens the identity it was issued for and no other (handleJoin,
\* restoreSnapshotData, replay): also when a kill takes ids back and gives
\* them away again.
THEOREM TokensApartHolds == Spec => []TokensApart
<1>1. ASSUME Backed PROVE TokensApart
  <2>1. players.tokens \in Partial(Nat, Id)
    BY <1>1 DEF Backed, Base, Types, Maps
  <2>2. DOMAIN players.tokens \subseteq Nat
        /\ \A t \in DOMAIN players.tokens : players.tokens[t] \in Id
    BY <2>1, PartialFacts
  <2>3. \A t \in DOMAIN players.tokens : Opens(t, players.tokens[t])
    BY DEF Opens, HasToken
  <2>4. \A t, u \in DOMAIN players.tokens : players.tokens[t] = players.tokens[u] => t = u
    BY <1>1, <2>2, <2>3 DEF Backed, TokensKnown
  <2>5. QED
    BY <2>4 DEF TokensApart, IsInjective
<1>2. QED
  BY <1>1, BackedInvariance, PTL

\* Nobody carries a flag that was not unlocked, in the maps or in the copy of
\* a connection (isFlagUnlockedLocked, handleJoin, handleUpdateProfile).
THEOREM PaidFlagsEarnedHolds == Spec => []PaidFlagsEarned
<1>1. ASSUME Backed PROVE PaidFlagsEarned
  <2>1. Spectator.flag # PaidFlag
    BY IdentityAssumption DEF Spectator
  <2>2. QED
    BY <1>1, <2>1 DEF Backed, Base, Earns, HoldersKnown, PaidFlagsEarned
<1>2. QED
  BY <1>1, BackedInvariance, PTL

-----------------------------------------------------------------------------
(***************************************************************************)
(* What a boot makes of the snapshot and the log.  A snapshot is taken     *)
(* while its part of the log is still there, and the log is replayed on    *)
(* top of it from any point that it had reached: old entries over newer    *)
(* maps.  That it ends where it was rests on the names: nobody takes a     *)
(* name before its owner has given it up, so an old entry that gives a     *)
(* name back to a former owner is followed by the entry that takes it away *)
(* again.                                                                  *)
(***************************************************************************)

\* The maps agree but for the flags.
Same(m, w) ==
    /\ m.names = w.names /\ m.index = w.index /\ m.tokens = w.tokens
    /\ m.unlocked = w.unlocked /\ m.next = w.next

\* The maps m reflect entry i of s, as one of the first n: what it gave is
\* still there, and its name belongs to its player as long as no later entry
\* is about the player, and to another one only by a later entry.
Reflects(m, s, i, n) ==
    /\ IsUnlock(s[i]) => s[i].unlock \in m.unlocked
    /\ ~ IsUnlock(s[i]) =>
        /\ s[i].id \in DOMAIN m.names /\ s[i].id < m.next
        /\ s[i].token # NoToken => HasToken(m, s[i].token, s[i].id)
        /\ (\A j \in i + 1 .. n : ~ Of(s[j], s[i].id)) => m.names[s[i].id] = s[i].name
        /\ \A p \in DOMAIN m.names \ {s[i].id} :
              m.names[p] = s[i].name => \E j \in i + 1 .. n : Of(s[j], p)

Consistent(m, s, d, n) == Exact(m) /\ \A i \in d + 1 .. n : Reflects(m, s, i, n)

\* In the entries d + 1 to n nobody takes a name before its owner gives it up.
HandedOver(s, d, n) ==
    \A i, j \in d + 1 .. n :
        /\ i < j /\ ~ IsUnlock(s[i]) /\ ~ IsUnlock(s[j])
        /\ s[i].id # s[j].id /\ s[i].name = s[j].name
        => \E k \in i + 1 .. j - 1 : Of(s[k], s[i].id) /\ s[k].name # s[i].name

LEMMA LastEntry ==
    ASSUME NEW s, NEW a \in Nat, NEW b \in Nat, NEW p, NEW i \in a .. b, Of(s[i], p)
    PROVE  \E j \in a .. b : i <= j /\ Of(s[j], p) /\ \A k \in j + 1 .. b : ~ Of(s[k], p)
<1> DEFINE J == {j \in a .. b : i <= j /\ Of(s[j], p)}
<1>1. J \in SUBSET Nat /\ J # {} /\ IsFiniteSet(J)
  <2>1. IsFiniteSet(a .. b)
    BY FS_Interval
  <2>2. i \in J
    OBVIOUS
  <2>3. QED
    BY <2>1, <2>2, FS_Subset
<1>2. PICK j \in J : \A k \in J : k <= j
  <2> HIDE DEF J
  <2>1. QED
    BY <1>1, FiniteSetHasMaximum
<1>3. ASSUME NEW k \in j + 1 .. b, Of(s[k], p)  PROVE FALSE
  <2>1. k \in J /\ j \in Nat /\ k > j
    BY <1>3
  <2>2. QED
    BY <1>2, <2>1
<1>4. QED
  BY <1>3

\* Maps that agree but for the flags are as good as each other, and stay so
\* when an entry is replayed on both.
LEMMA SameConsistent ==
    ASSUME NEW m, NEW w, Same(m, w), NEW s, NEW d, NEW n, Consistent(w, s, d, n)
    PROVE  Consistent(m, s, d, n)
BY DEF Same, Consistent, Exact, Reflects, HasToken

LEMMA SameStep ==
    ASSUME NEW m \in Maps, NEW w \in Maps, Same(m, w), NEW e \in Entry
    PROVE  Same(ReplayEntry(m, e), ReplayEntry(w, e))
<1>1. CASE IsUnlock(e)
  BY <1>1, UnlockEntryFacts DEF Same
<1>2. CASE ~ IsUnlock(e)
  <2>1. IndexWithout(m, e) = IndexWithout(w, e)
    BY DEF Same, IndexWithout
  <2>2. QED
    BY <1>2, <2>1, PlayerEntryFacts DEF Same
<1>3. QED
  BY <1>1, <1>2

\* Replaying a part of the log gives maps.
LEMMA ReplayMaps ==
    ASSUME NEW m \in Maps, NEW s \in Seq(Entry), NEW r \in Nat, NEW n \in r .. Len(s)
    PROVE  Replay(m, s, r + 1, n) \in Maps
<1> DEFINE T == {k \in r .. Len(s) : Replay(m, s, r + 1, k) \in Maps}
<1>1. r \in T /\ Len(s) \in Nat
  BY ReplayNone
<1>2. ASSUME NEW k \in r .. Len(s), k \in T, k + 1 <= Len(s)  PROVE k + 1 \in T
  <2>1. k \in Nat /\ r <= k /\ k < Len(s) /\ s[k + 1] \in Entry /\ k + 1 \in r .. Len(s)
    BY <1>1, <1>2
  <2>2. Replay(m, s, r + 1, k + 1) = ReplayEntry(Replay(m, s, r + 1, k), s[k + 1])
    BY <2>1, ReplayOneMore
  <2>3. QED
    BY <1>2, <2>1, <2>2, UnlockEntryFacts, PlayerEntryFacts
<1>3. r .. Len(s) \subseteq T
  <2> HIDE DEF T
  <2>1. QED
    BY <1>1, <1>2, IntervalByInduction
<1>4. QED
  BY <1>3

\* Replaying a part that two logs share.
LEMMA ReplayPrefix ==
    ASSUME NEW m, NEW s \in Seq(Entry), NEW t \in Seq(Entry), NEW r \in Nat, NEW n \in Nat,
           n <= Len(s), n <= Len(t), \A i \in 1 .. n : s[i] = t[i]
    PROVE  Replay(m, s, r + 1, n) = Replay(m, t, r + 1, n)
<1>1. SubSeq(s, r + 1, n) = SubSeq(t, r + 1, n)
  OBVIOUS
<1>2. QED
  BY <1>1 DEF Replay

LEMMA ConsistentPrefix ==
    ASSUME NEW m, NEW s, NEW t, NEW d \in Nat, NEW n \in Nat, \A i \in 1 .. n : s[i] = t[i],
           Consistent(m, s, d, n)
    PROVE  Consistent(m, t, d, n)
<1>1. \A i \in d + 1 .. n : i \in 1 .. n
  OBVIOUS
<1>2. \A i \in d + 1 .. n : \A j \in i + 1 .. n : j \in 1 .. n
  OBVIOUS
<1>3. ASSUME NEW i \in d + 1 .. n  PROVE Reflects(m, t, i, n)
  <2>1. Reflects(m, s, i, n) /\ s[i] = t[i] /\ \A j \in i + 1 .. n : s[j] = t[j]
    BY <1>1, <1>2 DEF Consistent
  <2>2. QED
    BY <2>1 DEF Reflects
<1>4. QED
  BY <1>3 DEF Consistent

LEMMA HandedOverPrefix ==
    ASSUME NEW s, NEW t, NEW d \in Nat, NEW n \in Nat, NEW c \in Nat, NEW k \in Nat,
           \A i \in 1 .. k : s[i] = t[i], HandedOver(s, d, n), d <= c, k <= n
    PROVE  HandedOver(t, c, k)
<1>1. ASSUME NEW i \in c + 1 .. k, NEW j \in c + 1 .. k,
             i < j, ~ IsUnlock(t[i]), ~ IsUnlock(t[j]),
             t[i].id # t[j].id, t[i].name = t[j].name
      PROVE  \E h \in i + 1 .. j - 1 : Of(t[h], t[i].id) /\ t[h].name # t[i].name
  <2>1. /\ i \in d + 1 .. n /\ j \in d + 1 .. n /\ i \in 1 .. k /\ j \in 1 .. k
        /\ s[i] = t[i] /\ s[j] = t[j] /\ \A h \in i + 1 .. j - 1 : h \in 1 .. k
    OBVIOUS
  <2>2. PICK h \in i + 1 .. j - 1 : Of(s[h], s[i].id) /\ s[h].name # s[i].name
    BY <1>1, <2>1 DEF HandedOver
  <2>3. s[h] = t[h]
    BY <2>1
  <2>4. QED
    BY <2>1, <2>2, <2>3
<1>2. QED
  BY <1>1 DEF HandedOver

\* A player entry with a name that nobody else has keeps the names exact.
LEMMA EntryKeepsExact ==
    ASSUME NEW m \in Maps, NEW e \in Entry, ~ IsUnlock(e), Exact(m),
           \A q \in DOMAIN m.names \ {e.id} : m.names[q] # e.name
    PROVE  Exact(ReplayEntry(m, e))
<1> DEFINE x == ReplayEntry(m, e)
           p == e.id
           v == IndexWithout(m, e)
<1>1. p \in Id /\ e.name \in Name
  BY EntryFacts
<1>2. x.names = Put(m.names, p, e.name) /\ x.index = Put(v, e.name, p)
  BY PlayerEntryFacts
<1>3. v \in Partial(Name, Id) /\ m.names \in Partial(Id, Name) /\ m.index \in Partial(Name, Id)
  BY DropFacts DEF IndexWithout, Maps
<1>4. /\ DOMAIN x.names = DOMAIN m.names \cup {p} /\ x.names[p] = e.name
      /\ \A q \in DOMAIN m.names \ {p} : x.names[q] = m.names[q]
      /\ DOMAIN x.index = DOMAIN v \cup {e.name} /\ x.index[e.name] = p
      /\ \A k \in DOMAIN v \ {e.name} : x.index[k] = v[k]
  <2> HIDE DEF x, v, p
  <2>1. QED
    BY <1>2 DEF Put
<1>5. /\ \A q \in DOMAIN m.names : m.names[q] \in DOMAIN m.index /\ m.index[m.names[q]] = q
      /\ \A k \in DOMAIN m.index : m.index[k] \in DOMAIN m.names /\ m.names[m.index[k]] = k
  BY ExactFacts
<1>6. /\ \A k \in DOMAIN v : k \in DOMAIN m.index /\ v[k] = m.index[k]
      /\ \A k \in DOMAIN m.index : k \in DOMAIN v \/ (p \in DOMAIN m.names /\ k = m.names[p])
      /\ p \in DOMAIN m.names /\ m.names[p] # e.name => m.names[p] \notin DOMAIN v
  <2>1. v = IF p \in DOMAIN m.names /\ m.names[p] # e.name THEN Drop(m.index, m.names[p])
            ELSE m.index
    BY DEF IndexWithout
  <2> HIDE DEF x, v, p
  <2>2. QED
    BY <2>1 DEF Drop
<1> HIDE DEF x, v, p
<1>7. ASSUME NEW q \in DOMAIN x.names
      PROVE  x.names[q] \in DOMAIN x.index /\ x.index[x.names[q]] = q
  <2>1. CASE q = p
    BY <1>4, <2>1
  <2>2. CASE q # p
    <3>1. q \in DOMAIN m.names /\ x.names[q] = m.names[q] /\ m.names[q] # e.name
      BY <1>4, <2>2 DEF p
    <3>2. m.names[q] \in DOMAIN v
      <4>1. p \in DOMAIN m.names => m.names[q] # m.names[p]
        BY <1>5, <2>2, <3>1
      <4>2. QED
        BY <1>5, <1>6, <3>1, <4>1
    <3>3. QED
      BY <1>4, <1>5, <1>6, <3>1, <3>2
  <2>3. QED
    BY <2>1, <2>2
<1>8. ASSUME NEW k \in DOMAIN x.index
      PROVE  \E q \in DOMAIN x.names : x.names[q] = k
  <2>1. CASE k = e.name
    BY <1>4, <2>1
  <2>2. CASE k # e.name
    <3>1. k \in DOMAIN v /\ k \in DOMAIN m.index /\ m.index[k] \in DOMAIN m.names
          /\ m.names[m.index[k]] = k
      BY <1>4, <1>5, <1>6, <2>2
    <3>2. m.index[k] # p
      BY <1>6, <2>2, <3>1
    <3>3. QED
      BY <1>4, <3>1, <3>2
  <2>3. QED
    BY <2>1, <2>2
<1>9. Exact(x)
  BY <1>7, <1>8 DEF Exact, Range
<1>10. QED
  BY <1>9 DEF x

\* What is written is reflected at once, and what was reflected stays so.
LEMMA ConsistentAppend ==
    ASSUME NEW m \in Maps, NEW s \in Seq(Entry), NEW e \in Entry, NEW d \in Nat,
           d <= Len(s), Consistent(m, s, d, Len(s)),
           ~ IsUnlock(e) =>
              /\ \A q \in DOMAIN m.names \ {e.id} : m.names[q] # e.name
              /\ \A i \in 1 .. Len(s) :
                    ~ IsUnlock(s[i]) /\ s[i].token # NoToken => s[i].token # e.token
    PROVE  Consistent(ReplayEntry(m, e), Append(s, e), d, Len(s) + 1)
<1> DEFINE x == ReplayEntry(m, e)
           t == Append(s, e)
           l == Len(s)
<1>1. l \in Nat /\ t[l + 1] = e /\ \A i \in 1 .. l : t[i] = s[i]
  BY EntryAppended
<1>2. /\ \A i \in d + 1 .. l : i \in 1 .. l
      /\ d + 1 .. l + 1 = (d + 1 .. l) \cup {l + 1}
      /\ \A i \in d + 1 .. l : i + 1 .. l + 1 = (i + 1 .. l) \cup {l + 1}
      /\ (l + 1) + 1 .. l + 1 = {}
      /\ \A i \in d + 1 .. l : \A j \in i + 1 .. l : j \in 1 .. l
  BY <1>1
<1>3. Exact(m) /\ \A i \in d + 1 .. l : Reflects(m, s, i, l)
  BY DEF Consistent
<1>4. CASE IsUnlock(e)
  <2>1. /\ x.names = m.names /\ x.index = m.index /\ x.tokens = m.tokens /\ x.next = m.next
        /\ x.unlocked = m.unlocked \cup {e.unlock}
    BY <1>4, UnlockEntryFacts
  <2>2. Exact(x)
    BY <1>3, <2>1 DEF Exact
  <2>3. ASSUME NEW i \in d + 1 .. l  PROVE Reflects(x, t, i, l + 1)
    <3>1. Reflects(m, s, i, l) /\ t[i] = s[i] /\ \A j \in i + 1 .. l : t[j] = s[j]
      BY <1>1, <1>2, <1>3
    <3>2. \A p : ~ Of(t[l + 1], p)
      BY <1>1, <1>4 DEF Of
    <3> HIDE DEF x, t, l
    <3>3. QED
      BY <1>2, <2>1, <3>1, <3>2 DEF Reflects, HasToken
  <2>4. Reflects(x, t, l + 1, l + 1)
    BY <1>1, <1>4, <2>1 DEF Reflects
  <2> HIDE DEF x, t, l
  <2>5. QED
    BY <1>2, <2>2, <2>3, <2>4 DEF Consistent, x, t, l
<1>5. CASE ~ IsUnlock(e)
  <2> DEFINE q == e.id
  <2>1. /\ x \in Maps /\ x.names = Put(m.names, q, e.name) /\ x.unlocked = m.unlocked
        /\ x.tokens = IF e.token = NoToken THEN m.tokens ELSE Put(m.tokens, e.token, q)
        /\ x.next = IF q >= m.next THEN q + 1 ELSE m.next
        /\ q \in Nat /\ m.next \in Nat /\ x.next \in Nat
    BY <1>5, PlayerEntryFacts, EntryFacts, IdNat DEF Maps
  <2>2. /\ DOMAIN x.names = DOMAIN m.names \cup {q} /\ x.names[q] = e.name
        /\ \A p \in DOMAIN m.names \ {q} : x.names[p] = m.names[p]
    BY <2>1 DEF Put
  <2>3. m.next <= x.next /\ q < x.next
    BY <2>1
  <2>4. Exact(x)
    BY <1>3, <1>5, EntryKeepsExact
  <2>5. Of(t[l + 1], q) /\ \A p : p # q => ~ Of(t[l + 1], p)
    BY <1>1, <1>5 DEF Of
  <2>6. ASSUME NEW i \in d + 1 .. l  PROVE Reflects(x, t, i, l + 1)
    <3>1. /\ Reflects(m, s, i, l) /\ t[i] = s[i] /\ \A j \in i + 1 .. l : t[j] = s[j]
          /\ i + 1 .. l + 1 = (i + 1 .. l) \cup {l + 1} /\ i \in 1 .. l
      BY <1>1, <1>2, <1>3
    <3>2. IsUnlock(t[i]) => t[i].unlock \in x.unlocked
      BY <2>1, <3>1 DEF Reflects
    <3>3. ASSUME ~ IsUnlock(t[i])
          PROVE  /\ t[i].id \in DOMAIN x.names /\ t[i].id < x.next
                 /\ t[i].token # NoToken => HasToken(x, t[i].token, t[i].id)
                 /\ (\A j \in i + 1 .. l + 1 : ~ Of(t[j], t[i].id)) => x.names[t[i].id] = t[i].name
                 /\ \A p \in DOMAIN x.names \ {t[i].id} :
                       x.names[p] = t[i].name => \E j \in i + 1 .. l + 1 : Of(t[j], p)
      <4> DEFINE p == t[i].id
      <4>1. /\ p \in DOMAIN m.names /\ p < m.next
            /\ t[i].token # NoToken => HasToken(m, t[i].token, p)
            /\ (\A j \in i + 1 .. l : ~ Of(s[j], p)) => m.names[p] = t[i].name
            /\ \A o \in DOMAIN m.names \ {p} :
                  m.names[o] = t[i].name => \E j \in i + 1 .. l : Of(s[j], o)
        BY <3>1, <3>3 DEF Reflects
      <4>2. p \in Nat
        <5>1. s[i] \in Entry
          BY <3>1
        <5>2. QED
          BY <3>1, <3>3, <5>1, EntryFacts, IdNat
      <4>3. p < x.next
        BY <2>1, <2>3, <4>1, <4>2
      <4>4. t[i].token # NoToken => HasToken(x, t[i].token, p)
        <5>1. t[i].token # NoToken => t[i].token # e.token
          BY <1>5, <3>1, <3>3
        <5>2. \A u : HasToken(m, u, p) /\ u # e.token => HasToken(x, u, p)
          BY <2>1 DEF HasToken, Put
        <5>3. QED
          BY <4>1, <5>1, <5>2
      <4> HIDE DEF p, q, x, t, l
      <4>5. (\A j \in i + 1 .. l + 1 : ~ Of(t[j], p)) => x.names[p] = t[i].name
        <5>1. (\A j \in i + 1 .. l + 1 : ~ Of(t[j], p)) =>
                 p # q /\ \A j \in i + 1 .. l : ~ Of(s[j], p)
          BY <2>5, <3>1
        <5>2. QED
          BY <2>2, <4>1, <5>1
      <4>6. ASSUME NEW o \in DOMAIN x.names \ {p}, x.names[o] = t[i].name
            PROVE  \E j \in i + 1 .. l + 1 : Of(t[j], o)
        <5>1. CASE o = q
          BY <2>5, <3>1, <5>1
        <5>2. CASE o # q
          <6>1. o \in DOMAIN m.names \ {p} /\ m.names[o] = t[i].name
            BY <2>2, <4>6, <5>2
          <6>2. QED
            BY <3>1, <4>1, <6>1
        <5>3. QED
          BY <5>1, <5>2
      <4>7. QED
        BY <2>2, <4>1, <4>3, <4>4, <4>5, <4>6 DEF p
    <3> HIDE DEF x, t, l
    <3>4. QED
      BY <3>2, <3>3 DEF Reflects
  <2>7. Reflects(x, t, l + 1, l + 1)
    <3>1. e.token # NoToken => HasToken(x, e.token, q)
      BY <2>1 DEF HasToken, Put
    <3>2. \A p \in DOMAIN x.names \ {q} : x.names[p] # e.name
      BY <1>5, <2>2
    <3> HIDE DEF x, t, l
    <3>3. QED
      BY <1>1, <1>5, <2>2, <2>3, <3>1, <3>2 DEF Reflects
  <2> HIDE DEF x, t, l, q
  <2>8. QED
    BY <1>2, <2>4, <2>6, <2>7 DEF Consistent, x, t, l
<1>6. QED
  BY <1>4, <1>5

LEMMA HandedOverAppend ==
    ASSUME NEW m \in Maps, NEW s \in Seq(Entry), NEW e \in Entry, NEW d \in Nat,
           d <= Len(s), Consistent(m, s, d, Len(s)), HandedOver(s, d, Len(s)),
           ~ IsUnlock(e) => \A q \in DOMAIN m.names \ {e.id} : m.names[q] # e.name
    PROVE  HandedOver(Append(s, e), d, Len(s) + 1)
<1> DEFINE t == Append(s, e)
           l == Len(s)
<1>1. l \in Nat /\ t[l + 1] = e /\ \A i \in 1 .. l : t[i] = s[i]
  BY EntryAppended
<1>2. ASSUME NEW i \in d + 1 .. l + 1, NEW j \in d + 1 .. l + 1,
             i < j, ~ IsUnlock(t[i]), ~ IsUnlock(t[j]),
             t[i].id # t[j].id, t[i].name = t[j].name
      PROVE  \E k \in i + 1 .. j - 1 : Of(t[k], t[i].id) /\ t[k].name # t[i].name
  <2>1. i \in d + 1 .. l /\ i \in 1 .. l /\ t[i] = s[i] /\ i \in Nat /\ j \in Nat
    BY <1>1, <1>2
  <2>2. CASE j <= l
    <3>1. j \in d + 1 .. l /\ t[j] = s[j]
      BY <1>1, <1>2, <2>2
    <3>2. PICK k \in i + 1 .. j - 1 : Of(s[k], s[i].id) /\ s[k].name # s[i].name
      BY <1>2, <2>1, <3>1 DEF HandedOver
    <3>3. k \in 1 .. l
      BY <1>1, <2>1, <2>2
    <3>4. t[k] = s[k]
      BY <1>1, <3>3
    <3>5. QED
      BY <2>1, <3>2, <3>4
  <2>3. CASE ~ (j <= l)
    <3> DEFINE p == s[i].id
    <3>1. j = l + 1 /\ t[j] = e
      BY <1>1, <1>2, <2>1, <2>3
    <3>2. Reflects(m, s, i, l)
      BY <2>1 DEF Consistent
    <3>3. p \in DOMAIN m.names /\ m.names[p] # s[i].name
      BY <1>2, <2>1, <3>1, <3>2 DEF Reflects
    <3>4. PICK h \in i + 1 .. l : Of(s[h], p)
      BY <1>2, <2>1, <3>2, <3>3 DEF Reflects
    <3> HIDE DEF p
    <3>5. i + 1 \in Nat
      BY <2>1
    <3>6. PICK k \in i + 1 .. l : Of(s[k], p) /\ \A o \in k + 1 .. l : ~ Of(s[o], p)
      <4> DEFINE a == i + 1
      <4>1. a \in Nat /\ l \in Nat /\ h \in a .. l /\ Of(s[h], p)
        BY <1>1, <3>4, <3>5
      <4> HIDE DEF a, l
      <4>2. \E k \in a .. l : h <= k /\ Of(s[k], p) /\ \A o \in k + 1 .. l : ~ Of(s[o], p)
        BY <4>1, LastEntry
      <4>3. QED
        BY <4>2 DEF a
    <3>7. k \in d + 1 .. l /\ k \in 1 .. l /\ t[k] = s[k] /\ k \in i + 1 .. j - 1
      BY <1>1, <2>1, <3>1, <3>6
    <3>8. Reflects(m, s, k, l)
      BY <3>7 DEF Consistent
    <3>9. m.names[p] = s[k].name
      BY <3>6, <3>8 DEF Reflects, Of
    <3>10. QED
      BY <2>1, <3>3, <3>6, <3>7, <3>9 DEF p
  <2>4. QED
    BY <2>2, <2>3
<1> HIDE DEF t, l
<1>3. HandedOver(t, d, l + 1)
  BY <1>2 DEF HandedOver
<1>4. QED
  BY <1>3 DEF t, l

\* How far the maps x have come from w back to w when entries r + 1 to n of s
\* are replayed: a name is that of w, or that of the last entry about its
\* player, and the players that no entry is still to come about are settled.
Settling(x, w, s, r, n) ==
    /\ x \in Maps /\ x.tokens = w.tokens /\ x.unlocked = w.unlocked /\ x.next = w.next
    /\ DOMAIN x.names = DOMAIN w.names
    /\ \A p \in DOMAIN w.names :
          \/ x.names[p] = w.names[p]
          \/ \E i \in r + 1 .. n : /\ Of(s[i], p) /\ x.names[p] = s[i].name
                                   /\ \A k \in i + 1 .. n : ~ Of(s[k], p)
    /\ \A p \in DOMAIN w.names :
          (\A k \in n + 1 .. Len(s) : ~ Of(s[k], p)) =>
              /\ x.names[p] = w.names[p] /\ w.names[p] \in DOMAIN x.index
              /\ x.index[w.names[p]] = p
    /\ \A k \in DOMAIN x.index : x.index[k] \in DOMAIN x.names /\ x.names[x.index[k]] = k

LEMMA SettlingGoesOn ==
    ASSUME NEW w \in Maps, NEW s \in Seq(Entry), NEW d \in Nat, NEW r \in Nat, NEW n \in Nat,
           d <= r, r <= n, n < Len(s), Consistent(w, s, d, Len(s)), HandedOver(s, d, Len(s)),
           NEW x, Settling(x, w, s, r, n)
    PROVE  Settling(ReplayEntry(x, s[n + 1]), w, s, r, n + 1)
<1> DEFINE e == s[n + 1]
           y == ReplayEntry(x, e)
           l == Len(s)
<1>1. /\ l \in Nat /\ n + 1 \in d + 1 .. l /\ n + 1 \in 1 .. l /\ e \in Entry /\ x \in Maps
      /\ n + 1 .. l = ((n + 1) + 1 .. l) \cup {n + 1}
      /\ r + 1 .. n + 1 = (r + 1 .. n) \cup {n + 1}
      /\ \A i \in r + 1 .. n : i + 1 .. n + 1 = (i + 1 .. n) \cup {n + 1}
      /\ (n + 1) + 1 .. n + 1 = {}
  BY DEF Settling
<1>2. Reflects(w, s, n + 1, l) /\ Exact(w)
  BY <1>1 DEF Consistent
<1>3. CASE IsUnlock(e)
  <2>1. /\ y \in Maps /\ y.names = x.names /\ y.index = x.index /\ y.tokens = x.tokens
        /\ y.next = x.next /\ y.unlocked = x.unlocked \cup {e.unlock}
    BY <1>1, <1>3, UnlockEntryFacts
  <2>2. e.unlock \in w.unlocked
    BY <1>2, <1>3 DEF Reflects
  <2>3. \A p : ~ Of(s[n + 1], p)
    BY <1>3 DEF Of
  <2> HIDE DEF e, y, l
  <2>4. y.unlocked = w.unlocked
    BY <2>1, <2>2 DEF Settling
  <2>5. QED
    BY <1>1, <2>1, <2>3, <2>4 DEF Settling, e, y, l
<1>4. CASE ~ IsUnlock(e)
  <2> DEFINE q == e.id
  <2>1. /\ q \in DOMAIN w.names /\ q < w.next
        /\ e.token # NoToken => HasToken(w, e.token, q)
        /\ (\A j \in (n + 1) + 1 .. l : ~ Of(s[j], q)) => w.names[q] = e.name
        /\ \A p \in DOMAIN w.names \ {q} :
              w.names[p] = e.name => \E j \in (n + 1) + 1 .. l : Of(s[j], p)
    BY <1>2, <1>4 DEF Reflects
  <2>2. /\ y \in Maps /\ y.names = Put(x.names, q, e.name) /\ y.unlocked = x.unlocked
        /\ y.index = Put(IndexWithout(x, e), e.name, q)
        /\ y.tokens = IF e.token = NoToken THEN x.tokens ELSE Put(x.tokens, e.token, q)
        /\ y.next = IF q >= x.next THEN q + 1 ELSE x.next
        /\ q \in Nat
    BY <1>1, <1>4, PlayerEntryFacts, EntryFacts, IdNat
  <2>3. /\ x.names \in Partial(Id, Name) /\ x.index \in Partial(Name, Id)
        /\ x.tokens \in Partial(Nat, Id) /\ x.next \in Nat
    BY <1>1 DEF Maps
  <2>4. Of(e, q) /\ \A p : p # q => ~ Of(e, p)
    BY <1>4 DEF Of
  <2>5. /\ x.tokens = w.tokens /\ x.unlocked = w.unlocked /\ x.next = w.next
        /\ DOMAIN x.names = DOMAIN w.names
    BY DEF Settling
  <2>6. y.next = w.next
    <3>1. ~ (q >= x.next)
      BY <2>1, <2>2, <2>3, <2>5
    <3>2. QED
      BY <2>2, <2>5, <3>1
  <2>7. y.tokens = w.tokens
    <3>1. CASE e.token = NoToken
      BY <2>2, <2>5, <3>1
    <3>2. CASE e.token # NoToken
      <4>1. e.token \in DOMAIN x.tokens /\ x.tokens[e.token] = q
        BY <2>1, <2>5, <3>2 DEF HasToken
      <4>2. Put(x.tokens, e.token, q) = x.tokens
        BY <2>3, <4>1, PutSame
      <4>3. QED
        BY <2>2, <2>5, <3>2, <4>2
    <3>3. QED
      BY <3>1, <3>2
  <2>8. /\ DOMAIN y.names = DOMAIN w.names /\ y.names[q] = e.name
        /\ \A p \in DOMAIN w.names \ {q} : y.names[p] = x.names[p]
    BY <2>1, <2>2, <2>5 DEF Put
  <2>9. /\ e.name \in DOMAIN y.index /\ y.index[e.name] = q
        /\ \A k \in DOMAIN y.index \ {e.name} :
              k \in DOMAIN x.index /\ y.index[k] = x.index[k]
              /\ (x.names[q] # e.name => k # x.names[q])
        /\ \A k \in DOMAIN x.index : k # e.name /\ (x.names[q] # e.name => k # x.names[q]) =>
              k \in DOMAIN y.index /\ y.index[k] = x.index[k]
    <3> DEFINE v == IndexWithout(x, e)
    <3>1. v = IF x.names[q] # e.name THEN Drop(x.index, x.names[q]) ELSE x.index
      BY <2>1, <2>5 DEF IndexWithout
    <3>2. y.index = Put(v, e.name, q)
      BY <2>2
    <3> HIDE DEF v, q, y, e
    <3>3. QED
      BY <3>1, <3>2 DEF Put, Drop
  <2> HIDE DEF q, y, l
  <2>10. ASSUME NEW p \in DOMAIN w.names
         PROVE  \/ y.names[p] = w.names[p]
                \/ \E i \in r + 1 .. n + 1 : /\ Of(s[i], p) /\ y.names[p] = s[i].name
                                             /\ \A k \in i + 1 .. n + 1 : ~ Of(s[k], p)
    <3>1. CASE p = q
      BY <1>1, <2>4, <2>8, <3>1
    <3>2. CASE p # q
      <4>1. \/ x.names[p] = w.names[p]
            \/ \E i \in r + 1 .. n : /\ Of(s[i], p) /\ x.names[p] = s[i].name
                                     /\ \A k \in i + 1 .. n : ~ Of(s[k], p)
        BY DEF Settling
      <4>2. y.names[p] = x.names[p] /\ ~ Of(s[n + 1], p)
        BY <2>4, <2>8, <3>2
      <4>3. QED
        BY <1>1, <4>1, <4>2
    <3>3. QED
      BY <3>1, <3>2
  <2>11. ASSUME NEW p \in DOMAIN w.names, \A k \in (n + 1) + 1 .. l : ~ Of(s[k], p)
         PROVE  /\ y.names[p] = w.names[p] /\ w.names[p] \in DOMAIN y.index
                /\ y.index[w.names[p]] = p
    <3>1. CASE p = q
      BY <2>1, <2>8, <2>9, <2>11, <3>1
    <3>2. CASE p # q
      <4>1. \A k \in n + 1 .. l : ~ Of(s[k], p)
        BY <1>1, <2>4, <2>11, <3>2
      <4>2. /\ x.names[p] = w.names[p] /\ w.names[p] \in DOMAIN x.index
            /\ x.index[w.names[p]] = p
        BY <4>1 DEF Settling, l
      <4>3. w.names[p] # e.name
        BY <2>1, <2>11, <3>2
      <4>4. ASSUME x.names[q] # e.name, x.names[q] = w.names[p]  PROVE FALSE
        <5>1. w.names[q] # w.names[p]
          BY <1>2, <2>1, <3>2 DEF Exact
        <5>2. PICK i \in r + 1 .. n : /\ Of(s[i], q) /\ x.names[q] = s[i].name
                                      /\ \A k \in i + 1 .. n : ~ Of(s[k], q)
          BY <2>1, <4>4, <5>1 DEF Settling
        <5>3. i \in d + 1 .. l /\ i \in Nat
          BY <1>1 DEF l
        <5>4. Reflects(w, s, i, l)
          BY <5>3 DEF Consistent, l
        <5>5. ~ IsUnlock(s[i]) /\ s[i].id = q /\ w.names[p] = s[i].name
          BY <4>4, <5>2 DEF Of
        <5>6. PICK h \in i + 1 .. l : Of(s[h], p)
          BY <3>2, <5>4, <5>5 DEF Reflects
        <5>7. PICK j \in i + 1 .. l : Of(s[j], p) /\ \A k \in j + 1 .. l : ~ Of(s[k], p)
          <6> DEFINE a == i + 1
          <6>1. a \in Nat /\ l \in Nat /\ h \in a .. l /\ Of(s[h], p)
            BY <1>1, <5>3, <5>6
          <6> HIDE DEF a
          <6>2. \E j \in a .. l : h <= j /\ Of(s[j], p) /\ \A k \in j + 1 .. l : ~ Of(s[k], p)
            BY <6>1, LastEntry
          <6>3. QED
            BY <6>2 DEF a
        <5>8. j \in Nat /\ l \in Nat /\ i < j /\ j <= l
          BY <1>1, <5>3, <5>7
        <5>9. j <= n
          <6>1. j \notin n + 1 .. l
            BY <4>1, <5>7
          <6>2. QED
            BY <5>8, <6>1
        <5>10. j \in d + 1 .. l
          BY <5>3, <5>8
        <5>11. ~ IsUnlock(s[j]) /\ s[j].id = p /\ w.names[p] = s[j].name
          <6>1. Reflects(w, s, j, l)
            BY <5>10 DEF Consistent, l
          <6>2. QED
            BY <5>7, <6>1 DEF Reflects, Of
        <5>12. PICK k \in i + 1 .. j - 1 : Of(s[k], q)
          BY <3>2, <5>3, <5>5, <5>8, <5>10, <5>11 DEF HandedOver, l
        <5>13. k \in i + 1 .. n
          BY <5>3, <5>8, <5>9
        <5>14. QED
          BY <5>2, <5>12, <5>13
      <4>5. y.names[p] = x.names[p]
        BY <2>8, <3>2
      <4>6. QED
        BY <2>9, <4>2, <4>3, <4>4, <4>5
    <3>3. QED
      BY <3>1, <3>2
  <2>12. ASSUME NEW k \in DOMAIN y.index
         PROVE  y.index[k] \in DOMAIN y.names /\ y.names[y.index[k]] = k
    <3>1. CASE k = e.name
      BY <2>1, <2>8, <2>9, <3>1
    <3>2. CASE k # e.name
      <4>1. /\ k \in DOMAIN x.index /\ y.index[k] = x.index[k]
            /\ (x.names[q] # e.name => k # x.names[q])
        BY <2>9, <3>2
      <4>2. x.index[k] \in DOMAIN w.names /\ x.names[x.index[k]] = k
        BY <2>5, <4>1 DEF Settling
      <4>3. x.index[k] # q
        BY <3>2, <4>1, <4>2
      <4>4. QED
        BY <2>8, <4>1, <4>2, <4>3
    <3>3. QED
      BY <3>1, <3>2
  <2> HIDE DEF e
  <2>13. y \in Maps /\ y.unlocked = w.unlocked
    BY <2>2, <2>5
  <2>14. Settling(y, w, s, r, n + 1)
    BY <2>6, <2>7, <2>8, <2>10, <2>11, <2>12, <2>13 DEF Settling, l
  <2>15. QED
    BY <2>14 DEF y, e
<1>5. QED
  BY <1>3, <1>4

\* Whatever part of the log is replayed on maps that reflect it all, the maps
\* are what they were.
LEMMA ReplaySettles ==
    ASSUME NEW w \in Maps, NEW s \in Seq(Entry), NEW d \in Nat, NEW r \in Nat, d <= r,
           r <= Len(s), Consistent(w, s, d, Len(s)), HandedOver(s, d, Len(s))
    PROVE  Same(Replay(w, s, r + 1, Len(s)), w)
<1> DEFINE T == {k \in r .. Len(s) : Settling(Replay(w, s, r + 1, k), w, s, r, k)}
<1>1. Len(s) \in Nat /\ r \in r .. Len(s)
  OBVIOUS
<1>2. r \in T
  <2>1. Settling(w, w, s, r, r)
    BY ExactFacts DEF Settling, Consistent
  <2>2. QED
    BY <1>1, <2>1, ReplayNone
<1>3. ASSUME NEW k \in r .. Len(s), k \in T, k + 1 <= Len(s)  PROVE k + 1 \in T
  <2>1. k \in Nat /\ r <= k /\ k < Len(s) /\ k + 1 \in r .. Len(s)
    BY <1>1, <1>3
  <2>2. Replay(w, s, r + 1, k + 1) = ReplayEntry(Replay(w, s, r + 1, k), s[k + 1])
    BY <2>1, ReplayOneMore
  <2>3. QED
    BY <1>3, <2>1, <2>2, SettlingGoesOn
<1>4. r .. Len(s) \subseteq T
  <2> HIDE DEF T
  <2>1. QED
    BY <1>1, <1>2, <1>3, IntervalByInduction
<1> DEFINE x == Replay(w, s, r + 1, Len(s))
<1>5. Settling(x, w, s, r, Len(s)) /\ Len(s) + 1 .. Len(s) = {}
  BY <1>1, <1>4
<1> HIDE DEF x
<1>6. /\ x \in Maps /\ x.tokens = w.tokens /\ x.unlocked = w.unlocked /\ x.next = w.next
      /\ DOMAIN x.names = DOMAIN w.names
      /\ \A p \in DOMAIN w.names : /\ x.names[p] = w.names[p] /\ w.names[p] \in DOMAIN x.index
                                   /\ x.index[w.names[p]] = p
      /\ \A k \in DOMAIN x.index : x.index[k] \in DOMAIN x.names /\ x.names[x.index[k]] = k
  BY <1>5 DEF Settling
<1>7. /\ x.names = [p \in DOMAIN x.names |-> x.names[p]]
      /\ w.names = [p \in DOMAIN w.names |-> w.names[p]]
      /\ x.index = [k \in DOMAIN x.index |-> x.index[k]]
      /\ w.index = [k \in DOMAIN w.index |-> w.index[k]]
  BY <1>6, PartialFacts DEF Maps
<1>8. x.names = w.names
  BY <1>6, <1>7
<1>9. /\ \A k \in DOMAIN w.index : w.index[k] \in DOMAIN w.names /\ w.names[w.index[k]] = k
      /\ \A p \in DOMAIN w.names : w.names[p] \in DOMAIN w.index /\ w.index[w.names[p]] = p
  BY ExactFacts DEF Consistent
<1>10. DOMAIN x.index = DOMAIN w.index
  <2>1. ASSUME NEW k \in DOMAIN x.index  PROVE k \in DOMAIN w.index
    <3>1. x.index[k] \in DOMAIN w.names /\ w.names[x.index[k]] = k
      BY <1>6, <1>8
    <3>2. QED
      BY <1>9, <3>1
  <2>2. ASSUME NEW k \in DOMAIN w.index  PROVE k \in DOMAIN x.index
    <3>1. w.index[k] \in DOMAIN w.names /\ w.names[w.index[k]] = k
      BY <1>9
    <3>2. QED
      BY <1>6, <3>1
  <2>3. QED
    BY <2>1, <2>2
<1>11. \A k \in DOMAIN w.index : x.index[k] = w.index[k]
  BY <1>6, <1>9
<1>12. x.index = w.index
  BY <1>7, <1>10, <1>11
<1>13. QED
  BY <1>6, <1>8, <1>12 DEF Same, x

\* As long as no boot replayed a log that ends before its snapshot: from
\* wherever the rest of the log starts, and from as far as the snapshot
\* reaches on, the replay reflects the log, and it ends at what is in memory.
Retraced ==
    ~ outdated =>
        /\ Exact(snapshot.maps) /\ listed <= snapshot.upTo
        /\ HandedOver(log, removed, Len(log))
        /\ \A r \in removed .. listed, n \in snapshot.upTo .. Len(log) :
              Consistent(Replay(snapshot.maps, log, r + 1, n), log, removed, n)
        /\ \A r \in removed .. listed : Same(Replay(snapshot.maps, log, r + 1, Len(log)), players)

Remembered == Backed /\ Retraced

StorageFacts ==
    /\ removed \in Nat /\ listed \in Nat /\ durable \in Nat /\ Len(log) \in Nat
    /\ removed <= listed /\ listed <= durable /\ durable <= Len(log)
    /\ log \in Seq(Entry) /\ snapshot \in [maps : Maps, upTo : Nat]
    /\ snapshot.upTo \in Nat /\ snapshot.maps \in Maps /\ snapshot.upTo <= Len(log)
    /\ players \in Maps

LEMMA StoredFacts == ASSUME Backed PROVE StorageFacts
BY DEF Backed, Base, Types, Places, StorageFacts

\* The maps in memory reflect the log.
LEMMA MemoryConsistent ==
    ASSUME Remembered, ~ outdated
    PROVE  Consistent(players, log, removed, Len(log)) /\ Exact(players)
<1> DEFINE x == Replay(snapshot.maps, log, removed + 1, Len(log))
<1>1. StorageFacts
  BY StoredFacts DEF Remembered
<1>2. removed \in removed .. listed /\ Len(log) \in snapshot.upTo .. Len(log)
  BY <1>1 DEF StorageFacts
<1>3. Consistent(x, log, removed, Len(log)) /\ Same(x, players)
  BY <1>2 DEF Remembered, Retraced
<1> HIDE DEF x
<1>4. Same(players, x)
  BY <1>3 DEF Same
<1>5. Consistent(players, log, removed, Len(log))
  BY <1>3, <1>4, SameConsistent
<1>6. QED
  BY <1>5 DEF Consistent

\* The index of an exact snapshot is the only one that a boot can build.
LEMMA RestoredExact ==
    ASSUME Backed, Exact(snapshot.maps), NEW m \in Restored
    PROVE  m = snapshot.maps
<1> DEFINE w == snapshot.maps
<1>1. w \in Maps
  BY StoredFacts DEF StorageFacts
<1>2. PICK g \in [Range(w.names) -> DOMAIN w.names] :
        m = [w EXCEPT !.index = g] /\ \A n \in DOMAIN g : w.names[g[n]] = n
  BY DEF Restored
<1>3. /\ \A p \in DOMAIN w.names : w.names[p] \in DOMAIN w.index /\ w.index[w.names[p]] = p
      /\ DOMAIN w.index = Range(w.names)
  BY <1>1, ExactFacts DEF Exact
<1> HIDE DEF w
<1>4. w.index = [n \in DOMAIN w.index |-> w.index[n]]
  BY <1>1, PartialFacts DEF Maps
<1>5. g = [n \in DOMAIN w.index |-> g[n]] /\ DOMAIN g = DOMAIN w.index
  BY <1>3
<1>6. \A n \in DOMAIN w.index : g[n] = w.index[n]
  <2>1. \A n \in DOMAIN w.index : g[n] \in DOMAIN w.names /\ w.names[g[n]] = n
    BY <1>2, <1>3
  <2>2. QED
    BY <1>3, <2>1
<1>7. g = w.index
  BY <1>4, <1>5, <1>6
<1>8. QED
  BY <1>1, <1>2, <1>7 DEF Maps, w

LEMMA RetracedInit == ASSUME Init PROVE Retraced
<1>1. /\ log = <<>> /\ Len(log) = 0 /\ removed = 0 /\ listed = 0 /\ log \in Seq(Entry)
      /\ players = Nobody /\ snapshot.maps = Nobody /\ snapshot.upTo = 0
  BY DEF Init
<1>2. Exact(Nobody)
  BY DEF Exact, Nobody, Range
<1>3. Replay(Nobody, log, 0 + 1, 0) = Nobody
  BY <1>1, ReplayNone
<1>4. HandedOver(log, 0, 0)
  BY DEF HandedOver
<1>5. Consistent(Nobody, log, 0, 0)
  BY <1>2 DEF Consistent
<1>6. \A r \in 0 .. 0 : r = 0
  OBVIOUS
<1>7. QED
  BY <1>1, <1>2, <1>3, <1>4, <1>5, <1>6 DEF Retraced, Same

\* A request that writes an entry: it is replayed as it happened.
LEMMA EntersRetraced ==
    ASSUME Remembered, NEW e, Enters(e), UNCHANGED storage
    PROVE  Retraced'
<1> DEFINE w == snapshot.maps
           l == Len(log)
<1>1. StorageFacts
  BY StoredFacts DEF Remembered
<1>2. /\ e \in Entry /\ log' = Append(log, e) /\ players' \in Maps /\ outdated' = outdated
      /\ snapshot' = snapshot /\ removed' = removed /\ listed' = listed
  BY DEF Enters, storage
<1>3. SUFFICES ASSUME ~ outdated
      PROVE  /\ HandedOver(log', removed, Len(log'))
             /\ \A r \in removed .. listed, n \in snapshot.upTo .. Len(log') :
                   Consistent(Replay(w, log', r + 1, n), log', removed, n)
             /\ \A r \in removed .. listed : Same(Replay(w, log', r + 1, Len(log')), players')
  BY <1>2 DEF Retraced, Remembered
<1>4. /\ log' \in Seq(Entry) /\ Len(log') = l + 1 /\ log'[l + 1] = e
      /\ \A i \in 1 .. l : log'[i] = log[i]
      /\ log \in Seq(Entry) /\ l \in Nat
  BY <1>1, <1>2, EntryAppended DEF StorageFacts
<1>5. Consistent(players, log, removed, l) /\ Exact(players)
  BY <1>3, MemoryConsistent
<1>6. ~ IsUnlock(e) => \A q \in DOMAIN players.names \ {e.id} : players.names[q] # e.name
  BY <1>5 DEF Enters
<1>7. players \in Maps /\ removed \in Nat /\ removed <= l
  BY <1>1 DEF StorageFacts
<1>8. HandedOver(log', removed, l + 1)
  <2>1. HandedOver(log, removed, l)
    BY <1>3 DEF Remembered, Retraced
  <2> HIDE DEF l
  <2>2. QED
    BY <1>2, <1>4, <1>5, <1>6, <1>7, <2>1, HandedOverAppend DEF l
<1>9. Same(players', ReplayEntry(players, e))
  BY <1>5 DEF Enters, Same
<1>10. Consistent(players', log', removed, l + 1)
  <2>1. ASSUME ~ IsUnlock(e), NEW i \in 1 .. l, ~ IsUnlock(log[i]), log[i].token # NoToken
        PROVE  log[i].token # e.token
    <3>1. log[i] \in Entry
      BY <1>4
    <3>2. log[i].token \in Nat /\ log[i].id \in Id
      BY <2>1, <3>1, EntryFacts
    <3>3. Opens(log[i].token, log[i].id)
      BY <2>1 DEF Opens, GivesToken
    <3>4. log[i].token <= issued /\ issued \in Nat
      BY <3>2, <3>3 DEF Remembered, Backed, TokensKnown, Base, Types
    <3>5. e.token = NoToken \/ e.token = issued + 1
      BY <2>1 DEF Enters
    <3>6. QED
      BY <2>1, <3>2, <3>4, <3>5
  <2>2. Consistent(ReplayEntry(players, e), log', removed, l + 1)
    <3> HIDE DEF l
    <3>1. QED
      BY <1>2, <1>4, <1>5, <1>6, <1>7, <2>1, ConsistentAppend DEF l
  <2>3. QED
    BY <1>9, <2>2, SameConsistent
<1>11. ASSUME NEW r \in removed .. listed
       PROVE  Same(Replay(w, log', r + 1, l + 1), players')
  <2>1. r \in Nat /\ r <= l /\ w \in Maps
    BY <1>1 DEF StorageFacts
  <2>2. Replay(w, log', r + 1, l + 1) = ReplayEntry(Replay(w, log', r + 1, l), e)
    <3>1. /\ log' \in Seq(Entry) /\ l \in Nat /\ r <= l /\ l < Len(log')
          /\ log'[l + 1] = e
      BY <1>4, <2>1
    <3> HIDE DEF l
    <3>2. QED
      BY <2>1, <3>1, ReplayOneMore
  <2>3. Replay(w, log', r + 1, l) = Replay(w, log, r + 1, l)
    BY <1>4, <2>1, ReplayPrefix
  <2>4. Replay(w, log, r + 1, l) \in Maps
    BY <1>4, <2>1, ReplayMaps
  <2>5. Same(Replay(w, log, r + 1, l), players)
    BY <1>3 DEF Remembered, Retraced
  <2>6. Same(Replay(w, log', r + 1, l + 1), ReplayEntry(players, e))
    BY <1>2, <1>7, <2>2, <2>3, <2>4, <2>5, SameStep
  <2>7. QED
    BY <1>9, <2>6 DEF Same
<1>12. ASSUME NEW r \in removed .. listed, NEW n \in snapshot.upTo .. l + 1
       PROVE  Consistent(Replay(w, log', r + 1, n), log', removed, n)
  <2>1. r \in Nat /\ r <= l /\ n \in Nat /\ snapshot.upTo \in Nat
    BY <1>1 DEF StorageFacts
  <2>2. CASE n = l + 1
    BY <1>10, <1>11, <2>2, SameConsistent
  <2>3. CASE n # l + 1
    <3>1. n \in snapshot.upTo .. l /\ n <= l
      BY <1>4, <2>1, <2>3
    <3>2. Consistent(Replay(w, log, r + 1, n), log, removed, n)
      BY <1>3, <3>1 DEF Remembered, Retraced
    <3>3. \A i \in 1 .. n : log[i] = log'[i]
      BY <1>4, <3>1
    <3>4. n <= Len(log) /\ n <= Len(log')
      BY <1>4, <3>1
    <3>5. Replay(w, log', r + 1, n) = Replay(w, log, r + 1, n)
      BY <1>4, <2>1, <3>3, <3>4, ReplayPrefix
    <3>6. Consistent(Replay(w, log, r + 1, n), log', removed, n)
      BY <1>7, <2>1, <3>2, <3>3, ConsistentPrefix
    <3>7. QED
      BY <3>5, <3>6
  <2>4. QED
    BY <2>2, <2>3
<1>13. QED
  BY <1>4, <1>8, <1>11, <1>12

\* Steps that leave the log and the storage alone, and the names in memory.
LEMMA KeepsRetraced ==
    ASSUME Retraced, Same(players', players), log' = log, snapshot' = snapshot,
           removed' = removed, listed' = listed, outdated' = outdated
    PROVE  Retraced'
BY DEF Retraced, Same

LEMMA SaveSnapshotRetraced == ASSUME Remembered, SaveSnapshot PROVE Retraced'
<1>1. StorageFacts
  BY StoredFacts DEF Remembered
<1>2. /\ snapshot'.maps = players /\ snapshot'.upTo = Len(log) /\ listed' \in removed .. durable
      /\ players' = players /\ log' = log /\ removed' = removed /\ outdated' = outdated
  BY DEF SaveSnapshot
<1>3. SUFFICES ASSUME ~ outdated PROVE
        /\ Exact(players) /\ listed' <= Len(log) /\ HandedOver(log, removed, Len(log))
        /\ \A r \in removed .. listed', n \in Len(log) .. Len(log) :
              Consistent(Replay(players, log, r + 1, n), log, removed, n)
        /\ \A r \in removed .. listed' : Same(Replay(players, log, r + 1, Len(log)), players)
  BY <1>2 DEF Retraced
<1>4. Consistent(players, log, removed, Len(log)) /\ Exact(players)
      /\ HandedOver(log, removed, Len(log))
  BY <1>3, MemoryConsistent DEF Remembered, Retraced
<1>5. ASSUME NEW r \in removed .. listed'
      PROVE  Same(Replay(players, log, r + 1, Len(log)), players)
  <2>1. r \in Nat /\ removed \in Nat /\ removed <= r /\ r <= Len(log) /\ players \in Maps
        /\ log \in Seq(Entry)
    BY <1>1, <1>2 DEF StorageFacts
  <2>2. QED
    BY <1>4, <2>1, ReplaySettles
<1>6. \A r \in removed .. listed' :
        Consistent(Replay(players, log, r + 1, Len(log)), log, removed, Len(log))
  BY <1>4, <1>5, SameConsistent
<1>7. listed' <= Len(log) /\ \A n \in Len(log) .. Len(log) : n = Len(log)
  BY <1>1, <1>2 DEF StorageFacts
<1>8. QED
  BY <1>4, <1>5, <1>6, <1>7

LEMMA TruncateLogRetraced == ASSUME Remembered, TruncateLog PROVE Retraced'
<1>1. StorageFacts
  BY StoredFacts DEF Remembered
<1>2. /\ removed' \in removed + 1 .. listed /\ players' = players /\ log' = log
      /\ snapshot' = snapshot /\ listed' = listed /\ outdated' = outdated
  BY DEF TruncateLog
<1>3. /\ removed' \in Nat /\ removed <= removed' /\ removed \in Nat
      /\ \A r \in removed' .. listed : r \in removed .. listed
      /\ \A n \in Int : \A i \in removed' + 1 .. n : i \in removed + 1 .. n
      /\ Len(log) \in Nat /\ \A n \in snapshot.upTo .. Len(log) : n \in Int
  <2>1. /\ removed' \in Nat /\ removed <= removed' /\ removed \in Nat /\ Len(log) \in Nat
        /\ listed \in Nat /\ snapshot.upTo \in Nat
    BY <1>1, <1>2 DEF StorageFacts
  <2>2. \A a, b, c \in Int : a <= b =>
            (\A i \in b .. c : i \in a .. c) /\ (\A i \in b + 1 .. c : i \in a + 1 .. c)
    OBVIOUS
  <2>3. \A n \in snapshot.upTo .. Len(log) : n \in Int
    BY <2>1
  <2>4. removed \in Int /\ removed' \in Int /\ listed \in Int
    BY <2>1
  <2>5. \A c \in Int : (\A i \in removed' .. c : i \in removed .. c)
                       /\ (\A i \in removed' + 1 .. c : i \in removed + 1 .. c)
    BY <2>1, <2>2, <2>4, Zenon
  <2>6. QED
    BY <2>1, <2>3, <2>4, <2>5, Zenon
<1>4. HandedOver(log, removed, Len(log)) => HandedOver(log, removed', Len(log))
  <2>1. \A i \in removed' + 1 .. Len(log) : i \in removed + 1 .. Len(log)
    <3>1. Len(log) \in Int
      BY <1>3
    <3>2. QED
      BY <1>3, <3>1, Zenon
  <2>2. QED
    BY <2>1 DEF HandedOver
<1>5. \A m : \A n \in Int :
        Consistent(m, log, removed, n) => Consistent(m, log, removed', n)
  BY <1>3 DEF Consistent
<1>6. QED
  BY <1>2, <1>3, <1>4, <1>5 DEF Remembered, Retraced

\* A boot whose log reaches as far as the snapshot, or is all removed.
LEMMA RebootRetraced == ASSUME Remembered, Reboot PROVE Retraced'
<1> DEFINE w == snapshot.maps
<1>1. StorageFacts
  BY StoredFacts DEF Remembered
<1>2. /\ log' = SubSeq(log, 1, durable)
      /\ snapshot' = [snapshot EXCEPT !.upTo = IF @ > durable THEN durable ELSE @]
      /\ outdated' = (outdated \/ (removed < durable /\ durable < snapshot.upTo))
      /\ listed' = removed /\ removed' = removed
  BY DEF Reboot
<1>3. SUFFICES ASSUME ~ outdated'  PROVE Retraced'
  BY DEF Retraced
<1>4. ~ outdated /\ ~ (removed < durable /\ durable < snapshot.upTo)
  BY <1>2, <1>3
<1>5. Exact(w)
  BY <1>4 DEF Remembered, Retraced
<1>6. players' = Replay(w, log, removed + 1, durable)
  <2>1. PICK m \in Restored : players' = FoldLeft(ReplayEntry, m, SubSeq(log, removed + 1, durable))
    BY DEF Reboot, Rebuilt
  <2>2. m = w
    BY <1>5, <2>1, RestoredExact DEF Remembered
  <2>3. QED
    BY <2>1, <2>2 DEF Replay
<1>7. /\ log' \in Seq(Entry) /\ Len(log') = durable /\ \A i \in 1 .. durable : log[i] = log'[i]
      /\ log \in Seq(Entry) /\ Len(log) \in Nat /\ durable <= Len(log) /\ durable \in Nat
      /\ removed \in Nat /\ removed <= durable
  BY <1>1, <1>2 DEF StorageFacts
<1>8. ASSUME NEW n \in Nat, n <= durable
      PROVE  Replay(w, log', removed + 1, n) = Replay(w, log, removed + 1, n)
  <2>1. n <= Len(log) /\ n <= Len(log') /\ \A i \in 1 .. n : log'[i] = log[i]
    BY <1>7, <1>8
  <2>2. QED
    BY <1>7, <2>1, ReplayPrefix
<1>9. /\ snapshot'.maps = w
      /\ snapshot'.upTo = IF snapshot.upTo > durable THEN durable ELSE snapshot.upTo
  BY <1>1, <1>2 DEF StorageFacts
<1>10. HandedOver(log', removed, durable)
  <2>1. HandedOver(log, removed, Len(log))
    BY <1>4 DEF Remembered, Retraced
  <2>2. removed <= removed
    BY <1>7
  <2>3. QED
    BY <1>7, <2>1, <2>2, HandedOverPrefix
<1>11. /\ removed <= snapshot'.upTo
       /\ \A n \in snapshot'.upTo .. durable :
             Consistent(Replay(w, log', removed + 1, n), log', removed, n)
  <2>1. CASE snapshot.upTo <= durable
    <3>1. snapshot'.upTo = snapshot.upTo /\ removed <= snapshot.upTo
      <4>1. listed <= snapshot.upTo
        BY <1>4 DEF Remembered, Retraced
      <4>2. QED
        BY <1>1, <1>9, <2>1, <4>1 DEF StorageFacts
    <3>2. ASSUME NEW n \in snapshot.upTo .. durable
          PROVE  Consistent(Replay(w, log', removed + 1, n), log', removed, n)
      <4>1. n \in Nat /\ n <= durable /\ n \in snapshot.upTo .. Len(log)
            /\ removed \in removed .. listed /\ \A i \in 1 .. n : log[i] = log'[i]
        BY <1>1, <1>7 DEF StorageFacts
      <4>2. Consistent(Replay(w, log, removed + 1, n), log, removed, n)
        BY <1>4, <4>1 DEF Remembered, Retraced
      <4>3. Consistent(Replay(w, log, removed + 1, n), log', removed, n)
        BY <1>7, <4>1, <4>2, ConsistentPrefix
      <4>4. QED
        BY <1>8, <4>1, <4>3
    <3>3. QED
      BY <3>1, <3>2
  <2>2. CASE ~ (snapshot.upTo <= durable)
    <3>1. snapshot'.upTo = durable /\ removed = durable
          /\ \A n \in durable .. durable : n = removed
      BY <1>1, <1>4, <1>7, <1>9, <2>2 DEF StorageFacts
    <3>2. Replay(w, log', removed + 1, removed) = w
      BY <1>7, ReplayNone
    <3>3. removed + 1 .. removed = {}
      BY <1>7
    <3>4. Consistent(w, log', removed, removed)
      BY <1>5, <3>3 DEF Consistent
    <3>5. QED
      BY <1>7, <3>1, <3>2, <3>4
  <2>3. QED
    BY <2>1, <2>2
<1>12. Same(Replay(w, log', removed + 1, durable), players')
  BY <1>6, <1>7, <1>8 DEF Same
<1>13. \A r \in removed .. removed : r = removed
  BY <1>7
<1>14. QED
  BY <1>2, <1>5, <1>7, <1>9, <1>10, <1>11, <1>12, <1>13 DEF Retraced

LEMMA RetracedNext == ASSUME Remembered, [Next]_vars PROVE Retraced'
<1>1. CASE Request
  <2>1. RequestFacts
    BY <1>1, RequestStep DEF Remembered, Backed
  <2>2. CASE \E e : Enters(e)
    BY <2>1, <2>2, EntersRetraced DEF RequestFacts
  <2>3. CASE Refuses
    <3>1. Same(players', players) /\ log' = log
      BY <2>3 DEF Refuses, Same
    <3>2. QED
      BY <2>1, <3>1, KeepsRetraced DEF RequestFacts, storage, Remembered
  <2>4. QED
    BY <2>1, <2>2, <2>3 DEF RequestFacts
<1>2. CASE (\E k \in Conn : Leave(k)) \/ Flush \/ UNCHANGED vars
  <2>1. /\ Same(players', players) /\ log' = log /\ snapshot' = snapshot
        /\ removed' = removed /\ listed' = listed /\ outdated' = outdated
    BY <1>2 DEF Leave, Flush, vars, storage, Same
  <2>2. QED
    BY <2>1, KeepsRetraced DEF Remembered
<1>3. CASE SaveSnapshot \/ TruncateLog \/ Reboot
  BY <1>3, SaveSnapshotRetraced, TruncateLogRetraced, RebootRetraced
<1>4. QED
  BY <1>1, <1>2, <1>3 DEF Next

THEOREM RememberedInvariance == Spec => []Remembered
<1>1. Init => Remembered
  BY BackedInit, RetracedInit DEF Remembered
<1>2. Remembered /\ [Next]_vars => Remembered'
  BY BackedNext, RetracedNext DEF Remembered
<1>3. QED
  BY <1>1, <1>2, PTL DEF Spec

\* The fast name lookup is the inverse of the names (handleJoin,
\* handleUpdateProfile, handleProfileUpdate, restoreSnapshotData, replay).
THEOREM IndexExactHolds == Spec => []IndexExact
<1>1. Remembered => IndexExact
  BY MemoryConsistent DEF IndexExact, Exact
<1>2. QED
  BY <1>1, RememberedInvariance, PTL

\* A boot restores every name, token and unlock, whichever part of the log a
\* snapshot has removed (restoreSnapshotData, replay).
THEOREM IdentityRestoredHolds == Spec => []IdentityRestored
<1>1. ASSUME Remembered, ~ outdated, NEW m \in Rebuilt(Len(log))
      PROVE  Same(m, players)
  <2>1. PICK b \in Restored : m = FoldLeft(ReplayEntry, b, SubSeq(log, removed + 1, Len(log)))
    BY <1>1 DEF Rebuilt
  <2>2. b = snapshot.maps
    BY <1>1, <2>1, RestoredExact DEF Remembered, Retraced
  <2>3. removed \in removed .. listed
    BY <1>1, StoredFacts DEF Remembered, StorageFacts
  <2>4. QED
    BY <1>1, <2>1, <2>2, <2>3 DEF Remembered, Retraced, Replay
<1>2. Remembered => IdentityRestored
  BY <1>1 DEF IdentityRestored, Same
<1>3. QED
  BY <1>2, RememberedInvariance, PTL

-----------------------------------------------------------------------------
(* What the variables of Minimap hold. *)

TilePicture == [tile : Tile, version : Nat, res : Resolution, cells : SUBSET Cell]
FullMessage == [is : {"full"}, tile : Tile, version : Nat, res : Resolution, cells : SUBSET Cell]
BatchMessage == [is : {"batch"}, tiles : SUBSET TilePicture]
DeltaMessage == [is : {"delta"}, tile : Tile, version : Nat, res : Resolution,
                 area : SUBSET Cell, cells : SUBSET Cell]
ToClient == FullMessage \cup BatchMessage \cup DeltaMessage
ClientRequest == [is : {"subscribe"}, tiles : SUBSET Tile, res : Resolution]
           \cup [is : {"unsubscribe"}, tiles : SUBSET Tile] \cup [is : {"join"}]
Bounds == [changes : Nat, views : Nat, joins : Nat, closes : Nat, others : Nat, cap : Nat,
           scope : SUBSET Tile, scales : SUBSET Resolution]
Goroutine == [busy : BOOLEAN, todo : SUBSET Tile, batch : SUBSET TilePicture,
              to : SubId \cup {NoId}, res : Resolution]

TileRecord == [version : Nat, dirty : SUBSET Cell, there : BOOLEAN]

ServerTypes ==
    /\ given \in Bounds
    /\ board \in [Tile -> SUBSET Cell]
    /\ ids \in [Link -> SubId \cup {NoId}]
    /\ subs \in [Tile -> SUBSET SubId] /\ count \in [SubId -> Int] /\ res \in [SubId -> Resolution]
    /\ tiles \in [Tile -> TileRecord]
    /\ queued \in SUBSET Tile
    /\ casts \in SUBSET [to : SubId, msg : FullMessage \cup DeltaMessage]
    /\ pump \in [Link -> Goroutine]
ClientTypes ==
    /\ up \in [Link -> Seq(ClientRequest)] /\ down \in Seq(ToClient)
    /\ conn \in Nat /\ connected \in BOOLEAN /\ (connected => conn \in Link)
    /\ desired \in SUBSET Tile /\ active \in SUBSET Tile /\ resolution \in Resolution
    /\ shown \in [Tile -> [version : Nat, cells : SUBSET Cell, res : Resolution \cup {0}]]
    /\ frames \in Seq(SUBSET (TilePicture \cup FullMessage))
    /\ resubscribe \in BOOLEAN
MinimapTypes == ServerTypes /\ ClientTypes

-----------------------------------------------------------------------------
(* The inductive invariant. *)

\* The pictures in a message.
Fulls(m) == CASE m.is = "full" -> {m} [] m.is = "batch" -> m.tiles [] OTHER -> {}

\* A picture or a delta shows cells of the board, of a version there has been,
\* unless versions started over.
Honest(f) ==
    /\ f.cells \subseteq board[f.tile]
    /\ f.tile \notin restarted => f.version <= tiles[f.tile].version
OnePerTile(S) == \A f, g \in S : f.tile = g.tile => f = g

BatchesHonest ==
    \A c \in Link : /\ \A f \in pump[c].batch : Honest(f) /\ f.tile \notin pump[c].todo
                    /\ OnePerTile(pump[c].batch)
DownHonest ==
    \A k \in DOMAIN down : /\ \A f \in Fulls(down[k]) : Honest(f)
                           /\ OnePerTile(Fulls(down[k]))
                           /\ down[k].is = "delta" => Honest(down[k]) /\ down[k].version # 0
FramesHonest == \A j \in DOMAIN frames : (\A f \in frames[j] : Honest(f)) /\ OnePerTile(frames[j])
CastsHonest == \A x \in casts : Honest(x.msg) /\ x.msg.version # 0
CopiesHonest ==
    \A t \in Tile : /\ shown[t].cells \subseteq board[t]
                    /\ t \notin restarted => shown[t].version <= tiles[t].version
Underway == BatchesHonest /\ DownHonest /\ FramesHonest /\ CastsHonest /\ CopiesHonest

\* A goroutine answers under the id of its connection.
Goroutines ==
    /\ \A c \in Link : ids[c] \in {NoId, c, Player} /\ (c > conn => ids[c] = NoId)
    /\ \A c \in Link : IF pump[c].busy THEN ids[c] # NoId /\ pump[c].to = ids[c] ELSE pump[c] = Idle
    /\ connected => ids[conn] # NoId

\* The tile of a chunk is there for its subscribers; what is marked is queued.
TileState ==
    \A t \in Tile : /\ subs[t] = {} => tiles[t] = NoTile
                    /\ tiles[t].dirty # {} => t \in queued

\* One round of the broadcaster at a time: what has changed since is marked.
Round ==
    /\ \A x \in casts : x.msg.tile \notin restarted =>
          /\ x.msg.version = tiles[x.msg.tile].version
          /\ x.msg.is = "full" => board[x.msg.tile] \subseteq x.msg.cells \cup tiles[x.msg.tile].dirty
    /\ \A x, y \in casts : x.to = y.to /\ x.msg.tile = y.msg.tile => x = y

\* A request that would unmake what the client takes itself to have is followed
\* by one that asks again.
Asks(m, t) == m.is = "subscribe" /\ t \in m.tiles
Unmakes(m, t) == \/ m.is = "unsubscribe" /\ t \in m.tiles
                 \/ m.is = "subscribe" /\ m.res # resolution
Requesting ==
    connected => \A t \in active : \A k \in DOMAIN up[conn] :
        Unmakes(up[conn][k], t) => \E l \in DOMAIN up[conn] : l > k /\ Asks(up[conn][l], t)

-----------------------------------------------------------------------------
(* What is on its way about cell x of tile t at resolution r: fr are the     *)
(* pictures that wait for a frame, dn the messages on the way, ba the batch  *)
(* the goroutine has read, fc and dc the full tiles and the deltas of the    *)
(* broadcaster that are not sent.                                            *)

Mine(f, t, r) == f.tile = t /\ f.res = r
\* Pictures S that lack x are older than v.
LackBefore(S, t, r, x, v) == \A f \in S : Mine(f, t, r) /\ x \notin f.cells => f.version < v
\* Deltas S that would take x away are not newer than v.
TakenBy(S, t, r, x, v) == \A m \in S : Mine(m, t, r) /\ x \in m.area \ m.cells => m.version <= v

FramesAfter(fr, j) == UNION {fr[l] : l \in {n \in DOMAIN fr : n > j}}
DownAfter(dn, k) == UNION {Fulls(dn[l]) : l \in {n \in DOMAIN dn : n > k}}
DeltasBefore(dn, k) == {dn[l] : l \in {n \in DOMAIN dn : n < k /\ dn[n].is = "delta"}}
DeltasIn(dn) == {dn[l] : l \in {n \in DOMAIN dn : dn[n].is = "delta"}}
Pending(fr, dn, ba, fc) == FramesAfter(fr, 0) \cup DownAfter(dn, 0) \cup ba \cup fc

\* The client's copy s has x, and keeps it.
Safe(s, fr, dn, ba, fc, dc, t, r, x) ==
    /\ s.res = r /\ x \in s.cells
    /\ LackBefore(Pending(fr, dn, ba, fc), t, r, x, s.version)
    /\ TakenBy(DeltasIn(dn) \cup dc, t, r, x, s.version)

\* Picture f brings x, and what comes later does not take it away.
Brings(f, later, dn, dc, t, r, x) ==
    /\ Mine(f, t, r) /\ x \in f.cells
    /\ LackBefore(later, t, r, x, f.version)
    /\ TakenBy(DeltasIn(dn) \cup dc, t, r, x, f.version)
BroughtByFrame(fr, dn, ba, fc, dc, t, r, x) ==
    \E j \in DOMAIN fr : \E f \in fr[j] :
        Brings(f, FramesAfter(fr, j) \cup DownAfter(dn, 0) \cup ba \cup fc, dn, dc, t, r, x)
BroughtByMessage(dn, ba, fc, dc, t, r, x) ==
    \E k \in DOMAIN dn : \E f \in Fulls(dn[k]) :
        Brings(f, DownAfter(dn, k) \cup ba \cup fc, dn, dc, t, r, x)
BroughtUnsent(dn, ba, fc, dc, t, r, x) ==
    \/ \E f \in ba : Brings(f, fc, dn, dc, t, r, x)
    \/ \E f \in fc : Brings(f, ba, dn, dc, t, r, x)

\* Delta m brings x: it is newer than the copy and than the deltas before it.
Ahead(m, before, s, fr, dn, ba, fc, dc, t, r, x) ==
    /\ Mine(m, t, r) /\ x \in m.area \cap m.cells
    /\ \A e \in before : Mine(e, t, r) => e.version < m.version
    /\ s.res = r => s.version < m.version
    /\ LackBefore(Pending(fr, dn, ba, fc), t, r, x, m.version)
    /\ TakenBy(DeltasIn(dn) \cup dc, t, r, x, m.version)
InDelta(s, fr, dn, ba, fc, dc, t, r, x) ==
    \/ \E k \in DOMAIN dn : /\ dn[k].is = "delta"
                            /\ Ahead(dn[k], DeltasBefore(dn, k), s, fr, dn, ba, fc, dc, t, r, x)
    \/ \E m \in dc : Ahead(m, DeltasIn(dn), s, fr, dn, ba, fc, dc, t, r, x)

Carried(s, fr, dn, ba, fc, dc, t, r, x) ==
    \/ Safe(s, fr, dn, ba, fc, dc, t, r, x)
    \/ BroughtByFrame(fr, dn, ba, fc, dc, t, r, x)
    \/ BroughtByMessage(dn, ba, fc, dc, t, r, x)
    \/ BroughtUnsent(dn, ba, fc, dc, t, r, x)
    \/ InDelta(s, fr, dn, ba, fc, dc, t, r, x)

\* The broadcaster's messages of kind k to id i that are not sent.
CastsTo(i, k) == {y.msg : y \in {z \in casts : z.to = i /\ z.msg.is = k}}
FullCasts == CastsTo(ids[conn], "full")
DeltaCasts == CastsTo(ids[conn], "delta")

\* The client's requests about tile t have been taken up.
Mentions(m, t) == m.is \in {"subscribe", "unsubscribe"} /\ t \in m.tiles
Settled(t) ==
    /\ connected /\ t \in active \ (kept \cup restarted \cup overtaken)
    /\ ids[conn] \in subs[t]
    /\ \A k \in DOMAIN up[conn] : ~ Mentions(up[conn][k], t)

Standing(t) ==
    /\ res[ids[conn]] = resolution
    /\ t \in pump[conn].todo => pump[conn].res = resolution
    /\ t \notin AnsweredElsewhere(conn)

\* Every cell of a settled tile is marked, shown or on its way.
Covered(t) ==
    \/ t \in pump[conn].todo
    \/ \A x \in board[t] :
          \/ x \in tiles[t].dirty
          \/ Carried(shown[t], frames, down, pump[conn].batch, FullCasts, DeltaCasts, t, resolution, x)

Tracking == \A t \in Tile : Settled(t) => Standing(t) /\ Covered(t)

MinimapInv == MinimapTypes /\ Underway /\ Goroutines /\ TileState /\ Round /\ Requesting /\ Tracking

-----------------------------------------------------------------------------
(* Messages joining and leaving what is on the way. *)

AllPictures == TilePicture \cup FullMessage

LEMMA MessageKinds ==
    ASSUME NEW m \in ToClient
    PROVE  /\ m.is \in {"full", "batch", "delta"}
           /\ m.is = "full" => m \in FullMessage /\ Fulls(m) = {m}
           /\ m.is = "batch" => m \in BatchMessage /\ Fulls(m) = m.tiles /\ m.tiles \subseteq TilePicture
           /\ m.is = "delta" => m \in DeltaMessage /\ Fulls(m) = {}
           /\ Fulls(m) \subseteq AllPictures
<1>1. CASE m \in FullMessage
  BY <1>1 DEF FullMessage, Fulls, AllPictures
<1>2. CASE m \in BatchMessage
  BY <1>2 DEF BatchMessage, Fulls, AllPictures
<1>3. CASE m \in DeltaMessage
  BY <1>3 DEF DeltaMessage, Fulls, AllPictures
<1>4. QED
  BY <1>1, <1>2, <1>3 DEF ToClient

LEMMA PictureFields ==
    ASSUME NEW f \in AllPictures
    PROVE  f.version \in Nat /\ f.tile \in Tile /\ f.res \in Resolution /\ f.cells \in SUBSET Cell
BY DEF AllPictures, TilePicture, FullMessage

LEMMA DeltaFields ==
    ASSUME NEW m \in DeltaMessage
    PROVE  /\ m.version \in Nat /\ m.tile \in Tile /\ m.res \in Resolution
           /\ m.area \in SUBSET Cell /\ m.cells \in SUBSET Cell
BY DEF DeltaMessage

LEMMA DownAppend ==
    ASSUME NEW dn \in Seq(ToClient), NEW m \in ToClient
    PROVE  /\ DOMAIN Append(dn, m) = 1 .. Len(dn) + 1 /\ Append(dn, m)[Len(dn) + 1] = m
           /\ \A k \in DOMAIN dn : k \in DOMAIN Append(dn, m) /\ Append(dn, m)[k] = dn[k]
           /\ DownAfter(Append(dn, m), 0) = DownAfter(dn, 0) \cup Fulls(m)
           /\ \A k \in DOMAIN dn : DownAfter(Append(dn, m), k) = DownAfter(dn, k) \cup Fulls(m)
           /\ DownAfter(Append(dn, m), Len(dn) + 1) = {}
           /\ \A k \in DOMAIN dn : DeltasBefore(Append(dn, m), k) = DeltasBefore(dn, k)
           /\ DeltasBefore(Append(dn, m), Len(dn) + 1) = DeltasIn(dn)
           /\ m.is = "delta" => DeltasIn(Append(dn, m)) = DeltasIn(dn) \cup {m}
           /\ m.is # "delta" => DeltasIn(Append(dn, m)) = DeltasIn(dn)
<1> DEFINE n == Len(dn)
           e == Append(dn, m)
<1>1. n \in Nat /\ DOMAIN dn = 1 .. n
  OBVIOUS
<1>2. DOMAIN e = 1 .. n + 1 /\ e[n + 1] = m /\ \A k \in 1 .. n : e[k] = dn[k]
  BY AppendFacts
<1> HIDE DEF e, n
<1>3. \A k \in 0 .. n : {l \in 1 .. n + 1 : l > k} = {l \in 1 .. n : l > k} \cup {n + 1}
  BY <1>1
<1>4. ASSUME NEW k \in 0 .. n  PROVE DownAfter(e, k) = DownAfter(dn, k) \cup Fulls(m)
  <2>1. \A q : q \in DownAfter(e, k) <=> \E l \in 1 .. n + 1 : l > k /\ q \in Fulls(e[l])
    BY <1>2 DEF DownAfter
  <2>2. \A q : q \in DownAfter(dn, k) <=> \E l \in 1 .. n : l > k /\ q \in Fulls(dn[l])
    BY <1>1 DEF DownAfter
  <2>3. \A q : (\E l \in 1 .. n + 1 : l > k /\ q \in Fulls(e[l]))
               <=> (\E l \in 1 .. n : l > k /\ q \in Fulls(dn[l])) \/ q \in Fulls(m)
    <3>1. n + 1 > k /\ n + 1 \in 1 .. n + 1
      BY <1>1
    <3>2. \A l \in 1 .. n : l \in 1 .. n + 1
      BY <1>1
    <3>3. \A l \in 1 .. n + 1 : l \in 1 .. n \/ l = n + 1
      BY <1>1
    <3>4. QED
      BY <1>2, <3>1, <3>2, <3>3
  <2>4. QED
    BY <2>1, <2>2, <2>3
<1>5. DownAfter(e, n + 1) = {}
  BY <1>1, <1>2 DEF DownAfter
<1>6. \A k \in 1 .. n : DeltasBefore(e, k) = DeltasBefore(dn, k)
  BY <1>1, <1>2 DEF DeltasBefore
<1>7. DeltasBefore(e, n + 1) = DeltasIn(dn)
  BY <1>1, <1>2 DEF DeltasBefore, DeltasIn
<1>8. /\ m.is = "delta" => DeltasIn(e) = DeltasIn(dn) \cup {m}
      /\ m.is # "delta" => DeltasIn(e) = DeltasIn(dn)
  BY <1>1, <1>2 DEF DeltasIn
<1>9. 0 \in 0 .. n /\ \A k \in 1 .. n : k \in 0 .. n /\ k \in 1 .. n + 1
  BY <1>1
<1>10. QED
  BY <1>1, <1>2, <1>4, <1>5, <1>6, <1>7, <1>8, <1>9 DEF e, n

LEMMA DownTail ==
    ASSUME NEW dn \in Seq(ToClient), dn # <<>>
    PROVE  /\ Head(dn) \in ToClient /\ Tail(dn) \in Seq(ToClient)
           /\ 1 \in DOMAIN dn /\ dn[1] = Head(dn)
           /\ DownAfter(dn, 0) = DownAfter(Tail(dn), 0) \cup Fulls(Head(dn))
           /\ DownAfter(dn, 1) = DownAfter(Tail(dn), 0)
           /\ Head(dn).is = "delta" => DeltasIn(dn) = DeltasIn(Tail(dn)) \cup {Head(dn)}
           /\ Head(dn).is # "delta" => DeltasIn(dn) = DeltasIn(Tail(dn))
           /\ \A k \in DOMAIN dn : k # 1 =>
                 /\ k - 1 \in DOMAIN Tail(dn) /\ Tail(dn)[k - 1] = dn[k]
                 /\ DownAfter(Tail(dn), k - 1) = DownAfter(dn, k)
                 /\ Head(dn).is = "delta" =>
                       DeltasBefore(dn, k) = DeltasBefore(Tail(dn), k - 1) \cup {Head(dn)}
                 /\ Head(dn).is # "delta" => DeltasBefore(dn, k) = DeltasBefore(Tail(dn), k - 1)
<1> DEFINE n == Len(dn)
           e == Tail(dn)
           m == Head(dn)
<1>1. n \in Nat \ {0} /\ DOMAIN dn = 1 .. n
  OBVIOUS
<1>2. e \in Seq(ToClient) /\ DOMAIN e = 1 .. n - 1 /\ m = dn[1] /\ \A l \in 1 .. n - 1 : e[l] = dn[l + 1]
  OBVIOUS
<1>3. m \in ToClient
  OBVIOUS
<1> HIDE DEF e, n, m
<1>4. ASSUME NEW k \in 1 .. n  PROVE DownAfter(e, k - 1) = DownAfter(dn, k)
  <2>1. \A q : q \in DownAfter(e, k - 1) <=> \E l \in 1 .. n - 1 : l > k - 1 /\ q \in Fulls(e[l])
    BY <1>2 DEF DownAfter
  <2>2. \A q : q \in DownAfter(dn, k) <=> \E l \in 1 .. n : l > k /\ q \in Fulls(dn[l])
    BY <1>1 DEF DownAfter
  <2>3. ASSUME NEW q, NEW l \in 1 .. n, l > k, q \in Fulls(dn[l])
        PROVE  \E p \in 1 .. n - 1 : p > k - 1 /\ q \in Fulls(e[p])
    <3>1. l - 1 \in 1 .. n - 1 /\ l - 1 > k - 1 /\ (l - 1) + 1 = l
      BY <1>1, <2>3
    <3>2. e[l - 1] = dn[l]
      BY <1>2, <3>1
    <3>3. QED
      BY <2>3, <3>1, <3>2
  <2>4. ASSUME NEW q, NEW l \in 1 .. n - 1, l > k - 1, q \in Fulls(e[l])
        PROVE  \E p \in 1 .. n : p > k /\ q \in Fulls(dn[p])
    <3>1. l + 1 \in 1 .. n /\ l + 1 > k
      BY <1>1, <2>4
    <3>2. e[l] = dn[l + 1]
      BY <1>2
    <3>3. QED
      BY <2>4, <3>1, <3>2
  <2>5. QED
    BY <2>1, <2>2, <2>3, <2>4
<1>5. DownAfter(dn, 0) = DownAfter(dn, 1) \cup Fulls(m)
  BY <1>1, <1>2 DEF DownAfter
<1>6. 1 \in 1 .. n /\ 1 - 1 = 0
  BY <1>1
<1>7. DownAfter(dn, 1) = DownAfter(e, 0)
  BY <1>4, <1>6
<1>8. ASSUME NEW k \in 1 .. n, k # 1
      PROVE  /\ m.is = "delta" => DeltasBefore(dn, k) = DeltasBefore(e, k - 1) \cup {m}
             /\ m.is # "delta" => DeltasBefore(dn, k) = DeltasBefore(e, k - 1)
  <2>1. \A q : q \in DeltasBefore(e, k - 1)
               <=> \E l \in 1 .. n - 1 : l < k - 1 /\ e[l].is = "delta" /\ q = e[l]
    BY <1>2 DEF DeltasBefore
  <2>2. \A q : q \in DeltasBefore(dn, k) <=> \E l \in 1 .. n : l < k /\ dn[l].is = "delta" /\ q = dn[l]
    BY <1>1 DEF DeltasBefore
  <2>3. ASSUME NEW l \in 1 .. n, l < k, l # 1
        PROVE  l - 1 \in 1 .. n - 1 /\ l - 1 < k - 1 /\ e[l - 1] = dn[l]
    <3>1. l - 1 \in 1 .. n - 1 /\ l - 1 < k - 1 /\ (l - 1) + 1 = l
      BY <1>1, <2>3
    <3>2. QED
      BY <1>2, <3>1
  <2>4. ASSUME NEW l \in 1 .. n - 1, l < k - 1
        PROVE  l + 1 \in 1 .. n /\ l + 1 < k /\ e[l] = dn[l + 1]
    BY <1>1, <1>2, <2>4
  <2>5. 1 < k
    BY <1>1, <1>8
  <2>6. DeltasBefore(dn, k) = DeltasBefore(e, k - 1) \cup {d \in {m} : d.is = "delta"}
    BY <1>2, <1>6, <2>1, <2>2, <2>3, <2>4, <2>5
  <2>7. QED
    BY <2>6
<1>9. /\ m.is = "delta" => DeltasIn(dn) = DeltasIn(e) \cup {m}
      /\ m.is # "delta" => DeltasIn(dn) = DeltasIn(e)
  <2>1. \A q : q \in DeltasIn(e) <=> \E l \in 1 .. n - 1 : e[l].is = "delta" /\ q = e[l]
    BY <1>2 DEF DeltasIn
  <2>2. \A q : q \in DeltasIn(dn) <=> \E l \in 1 .. n : dn[l].is = "delta" /\ q = dn[l]
    BY <1>1 DEF DeltasIn
  <2>3. ASSUME NEW l \in 1 .. n, l # 1  PROVE l - 1 \in 1 .. n - 1 /\ e[l - 1] = dn[l]
    <3>1. l - 1 \in 1 .. n - 1 /\ (l - 1) + 1 = l
      BY <1>1, <2>3
    <3>2. QED
      BY <1>2, <3>1
  <2>4. ASSUME NEW l \in 1 .. n - 1  PROVE l + 1 \in 1 .. n /\ e[l] = dn[l + 1]
    BY <1>1, <1>2
  <2>5. DeltasIn(dn) = DeltasIn(e) \cup {d \in {m} : d.is = "delta"}
    BY <1>2, <1>6, <2>1, <2>2, <2>3, <2>4
  <2>6. QED
    BY <2>5
<1>10. \A k \in 1 .. n : k # 1 => k - 1 \in 1 .. n - 1 /\ e[k - 1] = dn[k]
  <2>1. SUFFICES ASSUME NEW k \in 1 .. n, k # 1  PROVE k - 1 \in 1 .. n - 1 /\ e[k - 1] = dn[k]
    OBVIOUS
  <2>2. k - 1 \in 1 .. n - 1 /\ (k - 1) + 1 = k
    BY <1>1, <2>1
  <2>3. QED
    BY <1>2, <2>2
<1>11. QED
  BY <1>1, <1>2, <1>3, <1>4, <1>5, <1>6, <1>7, <1>8, <1>9, <1>10 DEF e, n, m

LEMMA FramesAppend ==
    ASSUME NEW fr \in Seq(SUBSET AllPictures), NEW F \in SUBSET AllPictures
    PROVE  /\ DOMAIN Append(fr, F) = 1 .. Len(fr) + 1 /\ Append(fr, F)[Len(fr) + 1] = F
           /\ \A k \in DOMAIN fr : k \in DOMAIN Append(fr, F) /\ Append(fr, F)[k] = fr[k]
           /\ FramesAfter(Append(fr, F), 0) = FramesAfter(fr, 0) \cup F
           /\ \A k \in DOMAIN fr : FramesAfter(Append(fr, F), k) = FramesAfter(fr, k) \cup F
           /\ FramesAfter(Append(fr, F), Len(fr) + 1) = {}
<1> DEFINE n == Len(fr)
           e == Append(fr, F)
<1>1. n \in Nat /\ DOMAIN fr = 1 .. n
  OBVIOUS
<1>2. DOMAIN e = 1 .. n + 1 /\ e[n + 1] = F /\ \A k \in 1 .. n : e[k] = fr[k]
  BY AppendFacts
<1> HIDE DEF e, n
<1>3. ASSUME NEW k \in 0 .. n  PROVE FramesAfter(e, k) = FramesAfter(fr, k) \cup F
  <2>1. \A q : q \in FramesAfter(e, k) <=> \E l \in 1 .. n + 1 : l > k /\ q \in e[l]
    BY <1>2 DEF FramesAfter
  <2>2. \A q : q \in FramesAfter(fr, k) <=> \E l \in 1 .. n : l > k /\ q \in fr[l]
    BY <1>1 DEF FramesAfter
  <2>3. n + 1 > k /\ n + 1 \in 1 .. n + 1 /\ \A l \in 1 .. n : l \in 1 .. n + 1
    BY <1>1
  <2>4. \A l \in 1 .. n + 1 : l \in 1 .. n \/ l = n + 1
    BY <1>1
  <2>5. QED
    BY <1>2, <2>1, <2>2, <2>3, <2>4
<1>4. FramesAfter(e, n + 1) = {}
  BY <1>1, <1>2 DEF FramesAfter
<1>5. 0 \in 0 .. n /\ \A k \in 1 .. n : k \in 0 .. n /\ k \in 1 .. n + 1
  BY <1>1
<1>6. QED
  BY <1>1, <1>2, <1>3, <1>4, <1>5 DEF e, n

LEMMA FramesTail ==
    ASSUME NEW fr \in Seq(SUBSET AllPictures), fr # <<>>
    PROVE  /\ Head(fr) \in SUBSET AllPictures /\ Tail(fr) \in Seq(SUBSET AllPictures)
           /\ 1 \in DOMAIN fr /\ fr[1] = Head(fr)
           /\ FramesAfter(fr, 0) = FramesAfter(Tail(fr), 0) \cup Head(fr)
           /\ FramesAfter(fr, 1) = FramesAfter(Tail(fr), 0)
           /\ \A k \in DOMAIN fr : k # 1 =>
                 /\ k - 1 \in DOMAIN Tail(fr) /\ Tail(fr)[k - 1] = fr[k]
                 /\ FramesAfter(Tail(fr), k - 1) = FramesAfter(fr, k)
<1> DEFINE n == Len(fr)
           e == Tail(fr)
           F == Head(fr)
<1>1. n \in Nat \ {0} /\ DOMAIN fr = 1 .. n
  OBVIOUS
<1>2. e \in Seq(SUBSET AllPictures) /\ DOMAIN e = 1 .. n - 1 /\ F = fr[1]
      /\ \A l \in 1 .. n - 1 : e[l] = fr[l + 1]
  OBVIOUS
<1>3. F \in SUBSET AllPictures
  OBVIOUS
<1> HIDE DEF e, n, F
<1>4. ASSUME NEW k \in 1 .. n  PROVE FramesAfter(e, k - 1) = FramesAfter(fr, k)
  <2>1. \A q : q \in FramesAfter(e, k - 1) <=> \E l \in 1 .. n - 1 : l > k - 1 /\ q \in e[l]
    BY <1>2 DEF FramesAfter
  <2>2. \A q : q \in FramesAfter(fr, k) <=> \E l \in 1 .. n : l > k /\ q \in fr[l]
    BY <1>1 DEF FramesAfter
  <2>3. ASSUME NEW q, NEW l \in 1 .. n, l > k, q \in fr[l]
        PROVE  \E p \in 1 .. n - 1 : p > k - 1 /\ q \in e[p]
    <3>1. l - 1 \in 1 .. n - 1 /\ l - 1 > k - 1 /\ (l - 1) + 1 = l
      BY <1>1, <2>3
    <3>2. e[l - 1] = fr[l]
      BY <1>2, <3>1
    <3>3. QED
      BY <2>3, <3>1, <3>2
  <2>4. ASSUME NEW q, NEW l \in 1 .. n - 1, l > k - 1, q \in e[l]
        PROVE  \E p \in 1 .. n : p > k /\ q \in fr[p]
    <3>1. l + 1 \in 1 .. n /\ l + 1 > k
      BY <1>1, <2>4
    <3>2. e[l] = fr[l + 1]
      BY <1>2
    <3>3. QED
      BY <2>4, <3>1, <3>2
  <2>5. QED
    BY <2>1, <2>2, <2>3, <2>4
<1>5. FramesAfter(fr, 0) = FramesAfter(fr, 1) \cup F
  BY <1>1, <1>2 DEF FramesAfter
<1>6. 1 \in 1 .. n /\ 1 - 1 = 0
  BY <1>1
<1>7. FramesAfter(fr, 1) = FramesAfter(e, 0)
  BY <1>4, <1>6
<1>8. \A k \in 1 .. n : k # 1 => k - 1 \in 1 .. n - 1 /\ e[k - 1] = fr[k]
  <2>1. SUFFICES ASSUME NEW k \in 1 .. n, k # 1  PROVE k - 1 \in 1 .. n - 1 /\ e[k - 1] = fr[k]
    OBVIOUS
  <2>2. k - 1 \in 1 .. n - 1 /\ (k - 1) + 1 = k
    BY <1>1, <2>1
  <2>3. QED
    BY <1>2, <2>2
<1>9. QED
  BY <1>1, <1>2, <1>3, <1>4, <1>5, <1>6, <1>7, <1>8 DEF e, n, F

-----------------------------------------------------------------------------
(* A cell stays carried while messages move. *)

LEMMA SendFullCarried ==
    ASSUME NEW s, NEW fr, NEW dn \in Seq(ToClient), NEW ba, NEW fc, NEW dc, NEW t, NEW r, NEW x,
           NEW f \in FullMessage, f \in fc, OnePerTile(fc),
           Carried(s, fr, dn, ba, fc, dc, t, r, x)
    PROVE  Carried(s, fr, Append(dn, f), ba, fc \ {f}, dc, t, r, x)
<1> DEFINE n == Len(dn)
           e == Append(dn, f)
           gc == fc \ {f}
<1>0. f \in ToClient /\ f.is = "full" /\ Fulls(f) = {f}
  BY MessageKinds DEF ToClient, FullMessage
<1>1. /\ DOMAIN e = 1 .. n + 1 /\ e[n + 1] = f
      /\ \A k \in DOMAIN dn : k \in DOMAIN e /\ e[k] = dn[k]
      /\ DownAfter(e, 0) = DownAfter(dn, 0) \cup {f}
      /\ \A k \in DOMAIN dn : DownAfter(e, k) = DownAfter(dn, k) \cup {f}
      /\ DownAfter(e, n + 1) = {}
      /\ \A k \in DOMAIN dn : DeltasBefore(e, k) = DeltasBefore(dn, k)
      /\ DeltasIn(e) = DeltasIn(dn)
  BY <1>0, DownAppend
<1>2. gc \cup {f} = fc /\ n + 1 \in 1 .. n + 1
  OBVIOUS
<1> HIDE DEF e, n, gc
<1>3. Pending(fr, e, ba, gc) = Pending(fr, dn, ba, fc)
  BY <1>1, <1>2 DEF Pending
<1>4. CASE Safe(s, fr, dn, ba, fc, dc, t, r, x)
  BY <1>1, <1>3, <1>4 DEF Safe, Carried, e, gc
<1>5. CASE BroughtByFrame(fr, dn, ba, fc, dc, t, r, x)
  <2>1a. PICK j \in DOMAIN fr : \E g \in fr[j] :
           Brings(g, FramesAfter(fr, j) \cup DownAfter(dn, 0) \cup ba \cup fc, dn, dc, t, r, x)
    BY <1>5 DEF BroughtByFrame
  <2>1. PICK g \in fr[j] :
           Brings(g, FramesAfter(fr, j) \cup DownAfter(dn, 0) \cup ba \cup fc, dn, dc, t, r, x)
    BY <2>1a
  <2>2. FramesAfter(fr, j) \cup DownAfter(dn, 0) \cup ba \cup fc
        = FramesAfter(fr, j) \cup DownAfter(e, 0) \cup ba \cup gc
    BY <1>1, <1>2
  <2>3. Brings(g, FramesAfter(fr, j) \cup DownAfter(e, 0) \cup ba \cup gc, e, dc, t, r, x)
    BY <1>1, <2>1, <2>2 DEF Brings
  <2>4. QED
    BY <2>3 DEF BroughtByFrame, Carried, e, gc
<1>6. CASE BroughtByMessage(dn, ba, fc, dc, t, r, x)
  <2>1a. PICK k \in DOMAIN dn : \E g \in Fulls(dn[k]) :
           Brings(g, DownAfter(dn, k) \cup ba \cup fc, dn, dc, t, r, x)
    BY <1>6 DEF BroughtByMessage
  <2>1. PICK g \in Fulls(dn[k]) :
           Brings(g, DownAfter(dn, k) \cup ba \cup fc, dn, dc, t, r, x)
    BY <2>1a
  <2>2. DownAfter(dn, k) \cup ba \cup fc = DownAfter(e, k) \cup ba \cup gc
    BY <1>1, <1>2
  <2>3. k \in DOMAIN e /\ g \in Fulls(e[k]) /\ Brings(g, DownAfter(e, k) \cup ba \cup gc, e, dc, t, r, x)
    BY <1>1, <2>1, <2>2 DEF Brings
  <2>4. QED
    BY <2>3 DEF BroughtByMessage, Carried, e, gc
<1>7. CASE BroughtUnsent(dn, ba, fc, dc, t, r, x)
  <2>1. CASE \E g \in ba : Brings(g, fc, dn, dc, t, r, x)
    <3>1. PICK g \in ba : Brings(g, fc, dn, dc, t, r, x)
      BY <2>1
    <3>2. Brings(g, gc, e, dc, t, r, x)
      BY <1>1, <1>2, <3>1 DEF Brings, LackBefore
    <3>3. QED
      BY <3>2 DEF BroughtUnsent, Carried, e, gc
  <2>2. CASE \E g \in fc : Brings(g, ba, dn, dc, t, r, x)
    <3>1. PICK g \in fc : Brings(g, ba, dn, dc, t, r, x)
      BY <2>2
    <3>2. CASE g = f
      <4>1. \A h \in gc : h.tile # t
        BY <1>2, <3>1, <3>2 DEF OnePerTile, Brings, Mine, gc
      <4>2. Brings(f, DownAfter(e, n + 1) \cup ba \cup gc, e, dc, t, r, x)
        BY <1>1, <3>1, <3>2, <4>1 DEF Brings, LackBefore, Mine
      <4>3. n + 1 \in DOMAIN e /\ f \in Fulls(e[n + 1])
        BY <1>0, <1>1, <1>2
      <4>4. QED
        BY <4>2, <4>3 DEF BroughtByMessage, Carried, e, gc
    <3>3. CASE g # f
      <4>1. g \in gc /\ Brings(g, ba, e, dc, t, r, x)
        BY <1>1, <3>1, <3>3 DEF Brings, gc
      <4>2. QED
        BY <4>1 DEF BroughtUnsent, Carried, e, gc
    <3>4. QED
      BY <3>2, <3>3
  <2>3. QED
    BY <1>7, <2>1, <2>2 DEF BroughtUnsent
<1>8. CASE InDelta(s, fr, dn, ba, fc, dc, t, r, x)
  <2>1. CASE \E m \in dc : Ahead(m, DeltasIn(dn), s, fr, dn, ba, fc, dc, t, r, x)
    <3>1. PICK m \in dc : Ahead(m, DeltasIn(dn), s, fr, dn, ba, fc, dc, t, r, x)
      BY <2>1
    <3>2. Ahead(m, DeltasIn(e), s, fr, e, ba, gc, dc, t, r, x)
      BY <1>1, <1>3, <3>1 DEF Ahead
    <3>3. QED
      BY <3>2 DEF InDelta, Carried, e, gc
  <2>2. CASE \E k \in DOMAIN dn : /\ dn[k].is = "delta"
                                  /\ Ahead(dn[k], DeltasBefore(dn, k), s, fr, dn, ba, fc, dc, t, r, x)
    <3>1. PICK k \in DOMAIN dn : /\ dn[k].is = "delta"
                                 /\ Ahead(dn[k], DeltasBefore(dn, k), s, fr, dn, ba, fc, dc, t, r, x)
      BY <2>2
    <3>2. k \in DOMAIN e /\ e[k].is = "delta" /\ Ahead(e[k], DeltasBefore(e, k), s, fr, e, ba, gc, dc, t, r, x)
      BY <1>1, <1>3, <3>1 DEF Ahead
    <3>3. QED
      BY <3>2 DEF InDelta, Carried, e, gc
  <2>3. QED
    BY <1>8, <2>1, <2>2 DEF InDelta
<1>9. QED
  BY <1>4, <1>5, <1>6, <1>7, <1>8 DEF Carried

LEMMA SendDeltaCarried ==
    ASSUME NEW s, NEW fr, NEW dn \in Seq(ToClient), NEW ba, NEW fc, NEW dc, NEW t, NEW r, NEW x,
           NEW m \in DeltaMessage, m \in dc, OnePerTile(dc),
           Carried(s, fr, dn, ba, fc, dc, t, r, x)
    PROVE  Carried(s, fr, Append(dn, m), ba, fc, dc \ {m}, t, r, x)
<1> DEFINE n == Len(dn)
           e == Append(dn, m)
           ec == dc \ {m}
<1>0. m \in ToClient /\ m.is = "delta" /\ Fulls(m) = {}
  BY MessageKinds DEF ToClient, DeltaMessage
<1>9. /\ DOMAIN e = 1 .. n + 1 /\ e[n + 1] = m
      /\ \A k \in DOMAIN dn : k \in DOMAIN e /\ e[k] = dn[k]
      /\ DownAfter(e, 0) = DownAfter(dn, 0) \cup Fulls(m)
      /\ \A k \in DOMAIN dn : DownAfter(e, k) = DownAfter(dn, k) \cup Fulls(m)
      /\ \A k \in DOMAIN dn : DeltasBefore(e, k) = DeltasBefore(dn, k)
      /\ DeltasBefore(e, n + 1) = DeltasIn(dn)
      /\ DeltasIn(e) = DeltasIn(dn) \cup {m}
  BY <1>0, DownAppend
<1>2. ec \cup {m} = dc /\ n + 1 \in 1 .. n + 1
  OBVIOUS
<1> HIDE DEF e, n, ec
<1>1. /\ DOMAIN e = 1 .. n + 1 /\ e[n + 1] = m
      /\ \A k \in DOMAIN dn : k \in DOMAIN e /\ e[k] = dn[k]
      /\ DownAfter(e, 0) = DownAfter(dn, 0)
      /\ \A k \in DOMAIN dn : DownAfter(e, k) = DownAfter(dn, k)
      /\ \A k \in DOMAIN dn : DeltasBefore(e, k) = DeltasBefore(dn, k)
      /\ DeltasBefore(e, n + 1) = DeltasIn(dn)
      /\ DeltasIn(e) = DeltasIn(dn) \cup {m}
  BY <1>0, <1>9
<1>3. Pending(fr, e, ba, fc) = Pending(fr, dn, ba, fc)
  BY <1>1 DEF Pending
<1>4. DeltasIn(e) \cup ec = DeltasIn(dn) \cup dc
  BY <1>1, <1>2
<1>5. \A g, later : Brings(g, later, dn, dc, t, r, x) <=> Brings(g, later, e, ec, t, r, x)
  BY <1>4 DEF Brings
<1>6. CASE Safe(s, fr, dn, ba, fc, dc, t, r, x)
  BY <1>3, <1>4, <1>6 DEF Safe, Carried, e, ec
<1>7. CASE BroughtByFrame(fr, dn, ba, fc, dc, t, r, x)
  <2>1. BroughtByFrame(fr, e, ba, fc, ec, t, r, x)
    BY <1>1, <1>5, <1>7 DEF BroughtByFrame
  <2>2. QED
    BY <2>1 DEF Carried, e, ec
<1>8. CASE BroughtByMessage(dn, ba, fc, dc, t, r, x)
  <2>1. BroughtByMessage(e, ba, fc, ec, t, r, x)
    BY <1>1, <1>5, <1>8 DEF BroughtByMessage
  <2>2. QED
    BY <2>1 DEF Carried, e, ec
<1>10. CASE BroughtUnsent(dn, ba, fc, dc, t, r, x)
  <2>1. BroughtUnsent(e, ba, fc, ec, t, r, x)
    BY <1>5, <1>10 DEF BroughtUnsent
  <2>2. QED
    BY <2>1 DEF Carried, e, ec
<1>11. CASE InDelta(s, fr, dn, ba, fc, dc, t, r, x)
  <2>0. \A d, before : Ahead(d, before, s, fr, dn, ba, fc, dc, t, r, x)
                       => Ahead(d, before, s, fr, e, ba, fc, ec, t, r, x)
    BY <1>3, <1>4 DEF Ahead
  <2>1. CASE \E d \in dc : Ahead(d, DeltasIn(dn), s, fr, dn, ba, fc, dc, t, r, x)
    <3>1. PICK d \in dc : Ahead(d, DeltasIn(dn), s, fr, dn, ba, fc, dc, t, r, x)
      BY <2>1
    <3>2. Ahead(d, DeltasIn(dn), s, fr, e, ba, fc, ec, t, r, x)
      BY <2>0, <3>1
    <3>3. CASE d = m
      <4>1. n + 1 \in DOMAIN e /\ e[n + 1].is = "delta"
            /\ Ahead(e[n + 1], DeltasBefore(e, n + 1), s, fr, e, ba, fc, ec, t, r, x)
        BY <1>0, <1>1, <1>2, <3>2, <3>3
      <4>2. QED
        BY <4>1 DEF InDelta, Carried, e, ec
    <3>4. CASE d # m
      <4>1. d \in ec /\ m.tile # t
        BY <3>1, <3>4 DEF OnePerTile, Ahead, Mine, ec
      <4>2. Ahead(d, DeltasIn(e), s, fr, e, ba, fc, ec, t, r, x)
        BY <1>1, <3>2, <4>1 DEF Ahead, Mine
      <4>3. QED
        BY <4>1, <4>2 DEF InDelta, Carried, e, ec
    <3>5. QED
      BY <3>3, <3>4
  <2>2. CASE \E k \in DOMAIN dn : /\ dn[k].is = "delta"
                                  /\ Ahead(dn[k], DeltasBefore(dn, k), s, fr, dn, ba, fc, dc, t, r, x)
    <3>1. PICK k \in DOMAIN dn : /\ dn[k].is = "delta"
                                 /\ Ahead(dn[k], DeltasBefore(dn, k), s, fr, dn, ba, fc, dc, t, r, x)
      BY <2>2
    <3>2. k \in DOMAIN e /\ e[k].is = "delta" /\ Ahead(e[k], DeltasBefore(e, k), s, fr, e, ba, fc, ec, t, r, x)
      BY <1>1, <2>0, <3>1
    <3>3. QED
      BY <3>2 DEF InDelta, Carried, e, ec
  <2>3. QED
    BY <1>11, <2>1, <2>2 DEF InDelta
<1>12. QED
  BY <1>6, <1>7, <1>8, <1>10, <1>11 DEF Carried

\* The batch of the connection leaves; the goroutine's becomes empty.
LEMMA SendBatchCarried ==
    ASSUME NEW s, NEW fr, NEW dn \in Seq(ToClient), NEW ba, NEW fc, NEW dc, NEW t, NEW r, NEW x,
           NEW m \in BatchMessage, m.tiles = ba,
           Carried(s, fr, dn, ba, fc, dc, t, r, x)
    PROVE  Carried(s, fr, Append(dn, m), {}, fc, dc, t, r, x)
<1> DEFINE n == Len(dn)
           e == Append(dn, m)
<1>0. m \in ToClient /\ m.is = "batch" /\ Fulls(m) = ba
  BY MessageKinds DEF ToClient, BatchMessage
<1>1. /\ DOMAIN e = 1 .. n + 1 /\ e[n + 1] = m
      /\ \A k \in DOMAIN dn : k \in DOMAIN e /\ e[k] = dn[k]
      /\ DownAfter(e, 0) = DownAfter(dn, 0) \cup ba
      /\ \A k \in DOMAIN dn : DownAfter(e, k) = DownAfter(dn, k) \cup ba
      /\ DownAfter(e, n + 1) = {}
      /\ \A k \in DOMAIN dn : DeltasBefore(e, k) = DeltasBefore(dn, k)
      /\ DeltasIn(e) = DeltasIn(dn)
  BY <1>0, DownAppend
<1>2. n + 1 \in 1 .. n + 1
  OBVIOUS
<1> HIDE DEF e, n
<1>3. Pending(fr, e, {}, fc) = Pending(fr, dn, ba, fc)
  BY <1>1, <1>2 DEF Pending
<1>5. \A g, later : Brings(g, later, dn, dc, t, r, x) <=> Brings(g, later, e, dc, t, r, x)
  BY <1>1 DEF Brings
<1>6. CASE Safe(s, fr, dn, ba, fc, dc, t, r, x)
  BY <1>1, <1>3, <1>6 DEF Safe, Carried, e
<1>7. CASE BroughtByFrame(fr, dn, ba, fc, dc, t, r, x)
  <2>1a. PICK j \in DOMAIN fr : \E g \in fr[j] :
           Brings(g, FramesAfter(fr, j) \cup DownAfter(dn, 0) \cup ba \cup fc, dn, dc, t, r, x)
    BY <1>7 DEF BroughtByFrame
  <2>1. PICK g \in fr[j] :
           Brings(g, FramesAfter(fr, j) \cup DownAfter(dn, 0) \cup ba \cup fc, dn, dc, t, r, x)
    BY <2>1a
  <2>2. FramesAfter(fr, j) \cup DownAfter(dn, 0) \cup ba \cup fc
        = FramesAfter(fr, j) \cup DownAfter(e, 0) \cup {} \cup fc
    BY <1>1
  <2>3. Brings(g, FramesAfter(fr, j) \cup DownAfter(e, 0) \cup {} \cup fc, e, dc, t, r, x)
    BY <1>5, <2>1, <2>2
  <2>4. QED
    BY <2>3 DEF BroughtByFrame, Carried, e
<1>8. CASE BroughtByMessage(dn, ba, fc, dc, t, r, x)
  <2>1a. PICK k \in DOMAIN dn : \E g \in Fulls(dn[k]) :
           Brings(g, DownAfter(dn, k) \cup ba \cup fc, dn, dc, t, r, x)
    BY <1>8 DEF BroughtByMessage
  <2>1. PICK g \in Fulls(dn[k]) :
           Brings(g, DownAfter(dn, k) \cup ba \cup fc, dn, dc, t, r, x)
    BY <2>1a
  <2>2. DownAfter(dn, k) \cup ba \cup fc = DownAfter(e, k) \cup {} \cup fc
    BY <1>1
  <2>3. k \in DOMAIN e /\ g \in Fulls(e[k]) /\ Brings(g, DownAfter(e, k) \cup {} \cup fc, e, dc, t, r, x)
    BY <1>1, <1>5, <2>1, <2>2
  <2>4. QED
    BY <2>3 DEF BroughtByMessage, Carried, e
<1>9. CASE BroughtUnsent(dn, ba, fc, dc, t, r, x)
  <2>1. CASE \E g \in ba : Brings(g, fc, dn, dc, t, r, x)
    <3>1. PICK g \in ba : Brings(g, fc, dn, dc, t, r, x)
      BY <2>1
    <3>2. DownAfter(e, n + 1) \cup {} \cup fc = fc
      BY <1>1
    <3>3. n + 1 \in DOMAIN e /\ g \in Fulls(e[n + 1])
          /\ Brings(g, DownAfter(e, n + 1) \cup {} \cup fc, e, dc, t, r, x)
      BY <1>0, <1>1, <1>2, <1>5, <3>1, <3>2
    <3>4. QED
      BY <3>3 DEF BroughtByMessage, Carried, e
  <2>2. CASE \E g \in fc : Brings(g, ba, dn, dc, t, r, x)
    <3>1. PICK g \in fc : Brings(g, ba, dn, dc, t, r, x)
      BY <2>2
    <3>2. Brings(g, {}, e, dc, t, r, x)
      BY <1>1, <3>1 DEF Brings, LackBefore
    <3>3. QED
      BY <3>2 DEF BroughtUnsent, Carried, e
  <2>3. QED
    BY <1>9, <2>1, <2>2 DEF BroughtUnsent
<1>10. CASE InDelta(s, fr, dn, ba, fc, dc, t, r, x)
  <2>0. \A d, before : Ahead(d, before, s, fr, dn, ba, fc, dc, t, r, x)
                       => Ahead(d, before, s, fr, e, {}, fc, dc, t, r, x)
    BY <1>1, <1>3 DEF Ahead
  <2>1. CASE \E d \in dc : Ahead(d, DeltasIn(dn), s, fr, dn, ba, fc, dc, t, r, x)
    BY <1>1, <2>0, <2>1 DEF InDelta, Carried, e
  <2>2. CASE \E k \in DOMAIN dn : /\ dn[k].is = "delta"
                                  /\ Ahead(dn[k], DeltasBefore(dn, k), s, fr, dn, ba, fc, dc, t, r, x)
    <3>1. PICK k \in DOMAIN dn : /\ dn[k].is = "delta"
                                 /\ Ahead(dn[k], DeltasBefore(dn, k), s, fr, dn, ba, fc, dc, t, r, x)
      BY <2>2
    <3>2. k \in DOMAIN e /\ e[k].is = "delta" /\ Ahead(e[k], DeltasBefore(e, k), s, fr, e, {}, fc, dc, t, r, x)
      BY <1>1, <2>0, <3>1
    <3>3. QED
      BY <3>2 DEF InDelta, Carried, e
  <2>3. QED
    BY <1>10, <2>1, <2>2 DEF InDelta
<1>11. QED
  BY <1>6, <1>7, <1>8, <1>9, <1>10 DEF Carried

\* Pictures and deltas that are not about the cell change nothing: in the
\* batch, in a message, among those of the broadcaster.
LEMMA ForeignCarried ==
    ASSUME NEW s, NEW fr, NEW dn, NEW ba, NEW fc, NEW dc, NEW t, NEW r, NEW x,
           NEW gb, NEW gc, NEW ec, ba \subseteq gb, fc \subseteq gc, dc \subseteq ec,
           \A f \in gb \ ba : f.tile # t,
           \A f \in gc \ fc : f.tile # t,
           \A m \in ec \ dc : Mine(m, t, r) => x \notin m.area,
           Carried(s, fr, dn, ba, fc, dc, t, r, x)
    PROVE  Carried(s, fr, dn, gb, gc, ec, t, r, x)
<1>1. \A S, v : LackBefore(S \cup ba \cup fc, t, r, x, v) => LackBefore(S \cup gb \cup gc, t, r, x, v)
  BY DEF LackBefore, Mine
<1>2. \A v : LackBefore(Pending(fr, dn, ba, fc), t, r, x, v) => LackBefore(Pending(fr, dn, gb, gc), t, r, x, v)
  BY <1>1 DEF Pending
<1>3. \A v : TakenBy(DeltasIn(dn) \cup dc, t, r, x, v) => TakenBy(DeltasIn(dn) \cup ec, t, r, x, v)
  BY DEF TakenBy
<1>4. \A f, S, S2 : /\ Brings(f, S, dn, dc, t, r, x)
                    /\ \A v : LackBefore(S, t, r, x, v) => LackBefore(S2, t, r, x, v)
                    => Brings(f, S2, dn, ec, t, r, x)
  BY <1>3 DEF Brings
<1>5. CASE Safe(s, fr, dn, ba, fc, dc, t, r, x)
  BY <1>2, <1>3, <1>5 DEF Safe, Carried
<1>6. CASE BroughtByFrame(fr, dn, ba, fc, dc, t, r, x)
  <2>1. BroughtByFrame(fr, dn, gb, gc, ec, t, r, x)
    BY <1>1, <1>4, <1>6 DEF BroughtByFrame
  <2>2. QED
    BY <2>1 DEF Carried
<1>7. CASE BroughtByMessage(dn, ba, fc, dc, t, r, x)
  <2>1. BroughtByMessage(dn, gb, gc, ec, t, r, x)
    BY <1>1, <1>4, <1>7 DEF BroughtByMessage
  <2>2. QED
    BY <2>1 DEF Carried
<1>8. CASE BroughtUnsent(dn, ba, fc, dc, t, r, x)
  <2>1. \A v : /\ LackBefore(ba, t, r, x, v) => LackBefore(gb, t, r, x, v)
               /\ LackBefore(fc, t, r, x, v) => LackBefore(gc, t, r, x, v)
    BY DEF LackBefore, Mine
  <2>2. BroughtUnsent(dn, gb, gc, ec, t, r, x)
    BY <1>4, <1>8, <2>1 DEF BroughtUnsent
  <2>3. QED
    BY <2>2 DEF Carried
<1>9. CASE InDelta(s, fr, dn, ba, fc, dc, t, r, x)
  <2>1. \A d, before : Ahead(d, before, s, fr, dn, ba, fc, dc, t, r, x)
                       => Ahead(d, before, s, fr, dn, gb, gc, ec, t, r, x)
    BY <1>2, <1>3 DEF Ahead
  <2>2. InDelta(s, fr, dn, gb, gc, ec, t, r, x)
    BY <1>9, <2>1 DEF InDelta
  <2>3. QED
    BY <2>2 DEF Carried
<1>10. QED
  BY <1>5, <1>6, <1>7, <1>8, <1>9 DEF Carried

LEMMA ForeignMessageCarried ==
    ASSUME NEW s, NEW fr, NEW dn \in Seq(ToClient), NEW ba, NEW fc, NEW dc, NEW t, NEW r, NEW x,
           NEW m \in BatchMessage, \A f \in m.tiles : f.tile # t,
           Carried(s, fr, dn, ba, fc, dc, t, r, x)
    PROVE  Carried(s, fr, Append(dn, m), ba, fc, dc, t, r, x)
<1> DEFINE n == Len(dn)
           e == Append(dn, m)
<1>0. m \in ToClient /\ m.is = "batch" /\ Fulls(m) = m.tiles
  BY MessageKinds DEF ToClient, BatchMessage
<1>1. /\ \A k \in DOMAIN dn : k \in DOMAIN e /\ e[k] = dn[k]
      /\ DownAfter(e, 0) = DownAfter(dn, 0) \cup m.tiles
      /\ \A k \in DOMAIN dn : DownAfter(e, k) = DownAfter(dn, k) \cup m.tiles
      /\ \A k \in DOMAIN dn : DeltasBefore(e, k) = DeltasBefore(dn, k)
      /\ DeltasIn(e) = DeltasIn(dn)
  BY <1>0, DownAppend
<1> HIDE DEF e, n
<1>2. \A A, B, v : LackBefore(A \cup B, t, r, x, v) => LackBefore(A \cup m.tiles \cup B, t, r, x, v)
  BY DEF LackBefore, Mine
<1>3. \A v : LackBefore(Pending(fr, dn, ba, fc), t, r, x, v) => LackBefore(Pending(fr, e, ba, fc), t, r, x, v)
  BY <1>1 DEF Pending, LackBefore, Mine
<1>5. \A g, S, S2 : /\ Brings(g, S, dn, dc, t, r, x)
                    /\ \A v : LackBefore(S, t, r, x, v) => LackBefore(S2, t, r, x, v)
                    => Brings(g, S2, e, dc, t, r, x)
  BY <1>1 DEF Brings
<1>6. CASE Safe(s, fr, dn, ba, fc, dc, t, r, x)
  BY <1>1, <1>3, <1>6 DEF Safe, Carried, e
<1>7. CASE BroughtByFrame(fr, dn, ba, fc, dc, t, r, x)
  <2>1. \A j \in DOMAIN fr : \A v :
           LackBefore(FramesAfter(fr, j) \cup DownAfter(dn, 0) \cup ba \cup fc, t, r, x, v)
           => LackBefore(FramesAfter(fr, j) \cup DownAfter(e, 0) \cup ba \cup fc, t, r, x, v)
    BY <1>1 DEF LackBefore, Mine
  <2>2. BroughtByFrame(fr, e, ba, fc, dc, t, r, x)
    BY <1>5, <1>7, <2>1 DEF BroughtByFrame
  <2>3. QED
    BY <2>2 DEF Carried, e
<1>8. CASE BroughtByMessage(dn, ba, fc, dc, t, r, x)
  <2>1. \A k \in DOMAIN dn : \A v :
           LackBefore(DownAfter(dn, k) \cup ba \cup fc, t, r, x, v)
           => LackBefore(DownAfter(e, k) \cup ba \cup fc, t, r, x, v)
    BY <1>1 DEF LackBefore, Mine
  <2>2. BroughtByMessage(e, ba, fc, dc, t, r, x)
    BY <1>1, <1>5, <1>8, <2>1 DEF BroughtByMessage
  <2>3. QED
    BY <2>2 DEF Carried, e
<1>9. CASE BroughtUnsent(dn, ba, fc, dc, t, r, x)
  <2>1. BroughtUnsent(e, ba, fc, dc, t, r, x)
    BY <1>5, <1>9 DEF BroughtUnsent
  <2>2. QED
    BY <2>1 DEF Carried, e
<1>10. CASE InDelta(s, fr, dn, ba, fc, dc, t, r, x)
  <2>1. \A d, before : Ahead(d, before, s, fr, dn, ba, fc, dc, t, r, x)
                       => Ahead(d, before, s, fr, e, ba, fc, dc, t, r, x)
    BY <1>1, <1>3 DEF Ahead
  <2>2. InDelta(s, fr, e, ba, fc, dc, t, r, x)
    BY <1>1, <1>10, <2>1 DEF InDelta
  <2>3. QED
    BY <2>2 DEF Carried, e
<1>11. QED
  BY <1>6, <1>7, <1>8, <1>9, <1>10 DEF Carried

\* A message with pictures arrives and waits for a frame.
LEMMA ReceivePicturesCarried ==
    ASSUME NEW s, NEW fr \in Seq(SUBSET AllPictures), NEW dn \in Seq(ToClient), dn # <<>>,
           NEW ba, NEW fc, NEW dc, NEW t, NEW r, NEW x, Head(dn).is # "delta",
           Carried(s, fr, dn, ba, fc, dc, t, r, x)
    PROVE  Carried(s, Append(fr, Fulls(Head(dn))), Tail(dn), ba, fc, dc, t, r, x)
<1> DEFINE e == Tail(dn)
           F == Fulls(Head(dn))
           n == Len(fr)
           gr == Append(fr, F)
<1>0. Fulls(dn[1]) = F
  BY DownTail
<1>1. /\ 1 \in DOMAIN dn /\ dn[1].is # "delta"
      /\ DownAfter(dn, 0) = DownAfter(e, 0) \cup F
      /\ DownAfter(dn, 1) = DownAfter(e, 0)
      /\ DeltasIn(dn) = DeltasIn(e)
      /\ \A k \in DOMAIN dn : k # 1 =>
            /\ k - 1 \in DOMAIN e /\ e[k - 1] = dn[k]
            /\ DownAfter(e, k - 1) = DownAfter(dn, k)
            /\ DeltasBefore(dn, k) = DeltasBefore(e, k - 1)
  BY DownTail
<1>2. F \in SUBSET AllPictures
  BY DownTail, MessageKinds
<1>3. /\ DOMAIN gr = 1 .. n + 1 /\ gr[n + 1] = F
      /\ \A k \in DOMAIN fr : k \in DOMAIN gr /\ gr[k] = fr[k]
      /\ FramesAfter(gr, 0) = FramesAfter(fr, 0) \cup F
      /\ \A k \in DOMAIN fr : FramesAfter(gr, k) = FramesAfter(fr, k) \cup F
      /\ FramesAfter(gr, n + 1) = {}
  BY <1>2, FramesAppend
<1>4. n + 1 \in 1 .. n + 1
  OBVIOUS
<1> HIDE DEF e, F, n, gr
<1>5. Pending(gr, e, ba, fc) = Pending(fr, dn, ba, fc)
  BY <1>1, <1>3 DEF Pending
<1>6. \A g, later : Brings(g, later, dn, dc, t, r, x) <=> Brings(g, later, e, dc, t, r, x)
  BY <1>1 DEF Brings
<1>7. CASE Safe(s, fr, dn, ba, fc, dc, t, r, x)
  BY <1>1, <1>5, <1>7 DEF Safe, Carried, e, gr, F
<1>8. CASE BroughtByFrame(fr, dn, ba, fc, dc, t, r, x)
  <2>1. PICK j \in DOMAIN fr : \E g \in fr[j] :
           Brings(g, FramesAfter(fr, j) \cup DownAfter(dn, 0) \cup ba \cup fc, dn, dc, t, r, x)
    BY <1>8 DEF BroughtByFrame
  <2>2. FramesAfter(fr, j) \cup DownAfter(dn, 0) \cup ba \cup fc
        = FramesAfter(gr, j) \cup DownAfter(e, 0) \cup ba \cup fc
    BY <1>1, <1>3
  <2>3. j \in DOMAIN gr /\ \E g \in gr[j] :
           Brings(g, FramesAfter(gr, j) \cup DownAfter(e, 0) \cup ba \cup fc, e, dc, t, r, x)
    BY <1>3, <1>6, <2>1, <2>2
  <2>4. QED
    BY <2>3 DEF BroughtByFrame, Carried, e, gr, F
<1>9. CASE BroughtByMessage(dn, ba, fc, dc, t, r, x)
  <2>1. PICK k \in DOMAIN dn : \E g \in Fulls(dn[k]) :
           Brings(g, DownAfter(dn, k) \cup ba \cup fc, dn, dc, t, r, x)
    BY <1>9 DEF BroughtByMessage
  <2>2. CASE k = 1
    <3>1. DownAfter(dn, k) \cup ba \cup fc = FramesAfter(gr, n + 1) \cup DownAfter(e, 0) \cup ba \cup fc
      BY <1>1, <1>3, <2>2
    <3>2. n + 1 \in DOMAIN gr /\ \E g \in gr[n + 1] :
             Brings(g, FramesAfter(gr, n + 1) \cup DownAfter(e, 0) \cup ba \cup fc, e, dc, t, r, x)
      BY <1>0, <1>3, <1>4, <1>6, <2>1, <2>2, <3>1
    <3>3. QED
      BY <3>2 DEF BroughtByFrame, Carried, e, gr, F
  <2>3. CASE k # 1
    <3>1. k - 1 \in DOMAIN e /\ \E g \in Fulls(e[k - 1]) :
             Brings(g, DownAfter(e, k - 1) \cup ba \cup fc, e, dc, t, r, x)
      BY <1>1, <1>6, <2>1, <2>3
    <3>2. QED
      BY <3>1 DEF BroughtByMessage, Carried, e, gr, F
  <2>4. QED
    BY <2>2, <2>3
<1>10. CASE BroughtUnsent(dn, ba, fc, dc, t, r, x)
  <2>1. BroughtUnsent(e, ba, fc, dc, t, r, x)
    BY <1>6, <1>10 DEF BroughtUnsent
  <2>2. QED
    BY <2>1 DEF Carried, e, gr, F
<1>11. CASE InDelta(s, fr, dn, ba, fc, dc, t, r, x)
  <2>1. \A d, before : Ahead(d, before, s, fr, dn, ba, fc, dc, t, r, x)
                       => Ahead(d, before, s, gr, e, ba, fc, dc, t, r, x)
    BY <1>1, <1>5 DEF Ahead
  <2>2. CASE \E m \in dc : Ahead(m, DeltasIn(dn), s, fr, dn, ba, fc, dc, t, r, x)
    BY <1>1, <2>1, <2>2 DEF InDelta, Carried, e, gr, F
  <2>3. CASE \E k \in DOMAIN dn : /\ dn[k].is = "delta"
                                  /\ Ahead(dn[k], DeltasBefore(dn, k), s, fr, dn, ba, fc, dc, t, r, x)
    <3>1. PICK k \in DOMAIN dn : /\ dn[k].is = "delta"
                                 /\ Ahead(dn[k], DeltasBefore(dn, k), s, fr, dn, ba, fc, dc, t, r, x)
      BY <2>3
    <3>2. k - 1 \in DOMAIN e /\ e[k - 1].is = "delta"
          /\ Ahead(e[k - 1], DeltasBefore(e, k - 1), s, gr, e, ba, fc, dc, t, r, x)
      BY <1>1, <2>1, <3>1
    <3>3. QED
      BY <3>2 DEF InDelta, Carried, e, gr, F
  <2>4. QED
    BY <1>11, <2>2, <2>3 DEF InDelta
<1>12. QED
  BY <1>7, <1>8, <1>9, <1>10, <1>11 DEF Carried

\* The versions of what is on the way are numbers.
LEMMA VersionsAreNumbers ==
    ASSUME NEW fr \in Seq(SUBSET AllPictures), NEW dn \in Seq(ToClient),
           NEW ba \in SUBSET TilePicture, NEW fc \in SUBSET FullMessage, NEW dc \in SUBSET DeltaMessage
    PROVE  /\ \A f \in Pending(fr, dn, ba, fc) : f \in AllPictures /\ f.version \in Nat
           /\ \A d \in DeltasIn(dn) \cup dc : d \in DeltaMessage /\ d.version \in Nat
<1>1. ASSUME NEW k \in DOMAIN dn
      PROVE  Fulls(dn[k]) \subseteq AllPictures /\ (dn[k].is = "delta" => dn[k] \in DeltaMessage)
  <2>1. dn[k] \in ToClient
    OBVIOUS
  <2>2. QED
    BY <2>1, MessageKinds
<1>2. ASSUME NEW j \in DOMAIN fr  PROVE fr[j] \subseteq AllPictures
  OBVIOUS
<1>3. DownAfter(dn, 0) \subseteq AllPictures /\ FramesAfter(fr, 0) \subseteq AllPictures
  BY <1>1, <1>2 DEF DownAfter, FramesAfter
<1>4. \A f \in Pending(fr, dn, ba, fc) : f \in AllPictures
  BY <1>3 DEF AllPictures, Pending
<1>5. \A d \in DeltasIn(dn) \cup dc : d \in DeltaMessage
  BY <1>1 DEF DeltasIn
<1>6. QED
  BY <1>4, <1>5, PictureFields, DeltaFields

\* A delta arrives and makes copy s2 of copy s.
LEMMA ReceiveDeltaCarried ==
    ASSUME NEW s, NEW s2, NEW fr \in Seq(SUBSET AllPictures), NEW dn \in Seq(ToClient), dn # <<>>,
           NEW ba \in SUBSET TilePicture, NEW fc \in SUBSET FullMessage, NEW dc \in SUBSET DeltaMessage,
           NEW t, NEW r, NEW x, s.version \in Nat, Head(dn).is = "delta",
           ~ Mine(Head(dn), t, r) => s2 = s,
           Mine(Head(dn), t, r) =>
              IF s.res = r /\ Head(dn).version <= s.version THEN s2 = s
              ELSE /\ s2.version = Head(dn).version /\ s2.res = r
                   /\ s2.cells = ((IF s.res = r THEN s.cells ELSE {}) \ Head(dn).area) \cup Head(dn).cells,
           Carried(s, fr, dn, ba, fc, dc, t, r, x)
    PROVE  Carried(s2, fr, Tail(dn), ba, fc, dc, t, r, x)
<1> DEFINE e == Tail(dn)
           m == Head(dn)
           P == Pending(fr, dn, ba, fc)
           D == DeltasIn(dn) \cup dc
           D2 == DeltasIn(e) \cup dc
<1>1. m \in DeltaMessage /\ Fulls(m) = {} /\ m.version \in Nat
  BY DownTail, MessageKinds, DeltaFields
<1>2. /\ 1 \in DOMAIN dn /\ dn[1] = m
      /\ DownAfter(dn, 0) = DownAfter(e, 0)
      /\ DeltasIn(dn) = DeltasIn(e) \cup {m}
      /\ \A k \in DOMAIN dn : k # 1 =>
            /\ k - 1 \in DOMAIN e /\ e[k - 1] = dn[k]
            /\ DownAfter(e, k - 1) = DownAfter(dn, k)
            /\ DeltasBefore(dn, k) = DeltasBefore(e, k - 1) \cup {m}
  <2>1. DownAfter(dn, 0) = DownAfter(e, 0) \cup Fulls(m)
    BY DownTail
  <2>2. DownAfter(dn, 0) = DownAfter(e, 0)
    BY <1>1, <2>1
  <2>3. QED
    BY <2>2, DownTail
<1>3. \A d \in D : d.version \in Nat
  BY VersionsAreNumbers
<1>4. \A f \in P : f.version \in Nat
  BY VersionsAreNumbers
<1>5. m \in D /\ \A d \in dc : d \in D
  BY <1>2
<1>6. Pending(fr, e, ba, fc) = P
  BY <1>2 DEF Pending
<1>7. \A v : TakenBy(D, t, r, x, v) => TakenBy(D2, t, r, x, v)
  BY <1>2 DEF TakenBy
<1> HIDE DEF e, m, P, D, D2
<1>8. \A g, S, S2 : S = S2 /\ Brings(g, S, dn, dc, t, r, x) => Brings(g, S2, e, dc, t, r, x)
  BY <1>7 DEF Brings, D, D2
<1>9. CASE Safe(s, fr, dn, ba, fc, dc, t, r, x)
  <2>1. s.res = r /\ x \in s.cells /\ LackBefore(P, t, r, x, s.version) /\ TakenBy(D, t, r, x, s.version)
    BY <1>9 DEF Safe, P, D
  <2>2. CASE s2 = s
    BY <1>6, <1>7, <2>1, <2>2 DEF Safe, Carried, e, P, D2
  <2>3. CASE s2 # s
    <3>1. /\ Mine(m, t, r) /\ s.version < m.version
          /\ s2.version = m.version /\ s2.res = r /\ s2.cells = (s.cells \ m.area) \cup m.cells
      BY <1>1, <2>1, <2>3 DEF m
    <3>2. x \in s2.cells
      <4>1. x \notin m.area \ m.cells
        BY <1>1, <1>5, <2>1, <3>1 DEF TakenBy
      <4>2. QED
        BY <2>1, <3>1, <4>1
    <3>3. LackBefore(P, t, r, x, m.version)
      BY <1>1, <1>4, <2>1, <3>1 DEF LackBefore
    <3>4. TakenBy(D, t, r, x, m.version)
      BY <1>1, <1>3, <2>1, <3>1 DEF TakenBy
    <3>5. Safe(s2, fr, e, ba, fc, dc, t, r, x)
      BY <1>6, <1>7, <3>1, <3>2, <3>3, <3>4 DEF Safe, P, D2
    <3>6. QED
      BY <3>5 DEF Carried, e
  <2>4. QED
    BY <2>2, <2>3
<1>10. CASE BroughtByFrame(fr, dn, ba, fc, dc, t, r, x)
  <2>1. PICK j \in DOMAIN fr : \E g \in fr[j] :
           Brings(g, FramesAfter(fr, j) \cup DownAfter(dn, 0) \cup ba \cup fc, dn, dc, t, r, x)
    BY <1>10 DEF BroughtByFrame
  <2>2. \E g \in fr[j] : Brings(g, FramesAfter(fr, j) \cup DownAfter(e, 0) \cup ba \cup fc, e, dc, t, r, x)
    BY <1>2, <1>8, <2>1
  <2>3. QED
    BY <2>2 DEF BroughtByFrame, Carried, e
<1>11. CASE BroughtByMessage(dn, ba, fc, dc, t, r, x)
  <2>1. PICK k \in DOMAIN dn : \E g \in Fulls(dn[k]) :
           Brings(g, DownAfter(dn, k) \cup ba \cup fc, dn, dc, t, r, x)
    BY <1>11 DEF BroughtByMessage
  <2>2. k # 1
    BY <1>1, <1>2, <2>1
  <2>3. k - 1 \in DOMAIN e /\ \E g \in Fulls(e[k - 1]) :
           Brings(g, DownAfter(e, k - 1) \cup ba \cup fc, e, dc, t, r, x)
    BY <1>2, <1>8, <2>1, <2>2
  <2>4. QED
    BY <2>3 DEF BroughtByMessage, Carried, e
<1>12. CASE BroughtUnsent(dn, ba, fc, dc, t, r, x)
  <2>1. BroughtUnsent(e, ba, fc, dc, t, r, x)
    BY <1>8, <1>12 DEF BroughtUnsent
  <2>2. QED
    BY <2>1 DEF Carried, e
<1>13. CASE InDelta(s, fr, dn, ba, fc, dc, t, r, x)
  \* A delta that was behind the one that arrives is still ahead.
  <2>1. ASSUME NEW d \in D, NEW before, NEW before2, before = before2 \cup {m},
               Ahead(d, before, s, fr, dn, ba, fc, dc, t, r, x)
        PROVE  Ahead(d, before2, s2, fr, e, ba, fc, dc, t, r, x)
    <3>1. /\ Mine(d, t, r) /\ x \in d.area \cap d.cells
          /\ LackBefore(P, t, r, x, d.version) /\ TakenBy(D, t, r, x, d.version)
          /\ \A b \in before : Mine(b, t, r) => b.version < d.version
          /\ s.res = r => s.version < d.version
      BY <2>1 DEF Ahead, P, D
    <3>2. \A b \in before2 : Mine(b, t, r) => b.version < d.version
      BY <2>1, <3>1
    <3>3. s2.res = r => s2.version < d.version
      <4>1. CASE s2 = s
        BY <3>1, <4>1
      <4>2. CASE s2 # s
        <5>1. Mine(m, t, r) /\ s2.version = m.version
          BY <4>2 DEF m
        <5>2. QED
          BY <2>1, <3>1, <5>1
      <4>3. QED
        BY <4>1, <4>2
    <3>4. QED
      BY <1>6, <1>7, <3>1, <3>2, <3>3 DEF Ahead, P, D2
  <2>2. CASE \E d \in dc : Ahead(d, DeltasIn(dn), s, fr, dn, ba, fc, dc, t, r, x)
    <3>1. PICK d \in dc : Ahead(d, DeltasIn(dn), s, fr, dn, ba, fc, dc, t, r, x)
      BY <2>2
    <3>2. Ahead(d, DeltasIn(e), s2, fr, e, ba, fc, dc, t, r, x)
      BY <1>2, <1>5, <2>1, <3>1
    <3>3. QED
      BY <3>2 DEF InDelta, Carried, e
  <2>3. CASE \E k \in DOMAIN dn : /\ dn[k].is = "delta"
                                  /\ Ahead(dn[k], DeltasBefore(dn, k), s, fr, dn, ba, fc, dc, t, r, x)
    <3>1. PICK k \in DOMAIN dn : /\ dn[k].is = "delta"
                                 /\ Ahead(dn[k], DeltasBefore(dn, k), s, fr, dn, ba, fc, dc, t, r, x)
      BY <2>3
    <3>2. dn[k] \in D
      BY <3>1 DEF D, DeltasIn
    <3>3. CASE k # 1
      <4>1. k - 1 \in DOMAIN e /\ e[k - 1].is = "delta"
            /\ Ahead(e[k - 1], DeltasBefore(e, k - 1), s2, fr, e, ba, fc, dc, t, r, x)
        BY <1>2, <2>1, <3>1, <3>2, <3>3
      <4>2. QED
        BY <4>1 DEF InDelta, Carried, e
    \* It is the one that arrives.
    <3>4. CASE k = 1
      <4>1. /\ Mine(m, t, r) /\ x \in m.area \cap m.cells
            /\ LackBefore(P, t, r, x, m.version) /\ TakenBy(D, t, r, x, m.version)
            /\ s.res = r => s.version < m.version
        BY <1>2, <3>1, <3>4 DEF Ahead, P, D
      <4>2. ~ (s.res = r /\ m.version <= s.version)
        BY <1>1, <4>1
      <4>3. s2.version = m.version /\ s2.res = r /\ x \in s2.cells
        BY <4>1, <4>2 DEF m
      <4>4. Safe(s2, fr, e, ba, fc, dc, t, r, x)
        BY <1>6, <1>7, <4>1, <4>3 DEF Safe, P, D2
      <4>5. QED
        BY <4>4 DEF Carried, e
    <3>5. QED
      BY <3>3, <3>4
  <2>4. QED
    BY <1>13, <2>2, <2>3 DEF InDelta
<1>14. QED
  BY <1>9, <1>10, <1>11, <1>12, <1>13 DEF Carried

\* A frame is drawn: what it has of the tile is not older than copy s.
LEMMA DrawCarried ==
    ASSUME NEW s, NEW s2, NEW fr \in Seq(SUBSET AllPictures), NEW dn \in Seq(ToClient), fr # <<>>,
           NEW ba \in SUBSET TilePicture, NEW fc \in SUBSET FullMessage, NEW dc \in SUBSET DeltaMessage,
           NEW t, NEW r, NEW x, s.version \in Nat, OnePerTile(Head(fr)),
           \/ s2 = s /\ \A f \in Head(fr) : ~ Mine(f, t, r)
           \/ \E f \in Head(fr) : /\ Mine(f, t, r) /\ s.version <= f.version
                                  /\ s2.version = f.version /\ s2.cells = f.cells /\ s2.res = f.res,
           Carried(s, fr, dn, ba, fc, dc, t, r, x)
    PROVE  Carried(s2, Tail(fr), dn, ba, fc, dc, t, r, x)
<1> DEFINE e == Tail(fr)
           F == Head(fr)
           P == Pending(fr, dn, ba, fc)
           P2 == Pending(e, dn, ba, fc)
           D == DeltasIn(dn) \cup dc
<1>1. F \in SUBSET AllPictures
  BY FramesTail
<1>2. /\ 1 \in DOMAIN fr /\ fr[1] = F
      /\ FramesAfter(fr, 0) = FramesAfter(e, 0) \cup F
      /\ FramesAfter(fr, 1) = FramesAfter(e, 0)
      /\ \A k \in DOMAIN fr : k # 1 =>
            k - 1 \in DOMAIN e /\ e[k - 1] = fr[k] /\ FramesAfter(e, k - 1) = FramesAfter(fr, k)
  BY FramesTail
<1>3. \A d \in D : d.version \in Nat
  BY VersionsAreNumbers
<1>4. \A f \in P : f.version \in Nat
  BY VersionsAreNumbers
<1>5. P2 \subseteq P /\ F \subseteq P
  BY <1>2 DEF Pending
<1>6. P2 = FramesAfter(e, 0) \cup DownAfter(dn, 0) \cup ba \cup fc
  BY DEF Pending
<1> HIDE DEF e, F, P, P2, D
\* A picture of the frame that has the cell, and a version not older than v.
<1>7. ASSUME NEW f \in F, NEW v, Mine(f, t, r), x \in f.cells, v \in Nat, v <= f.version,
             LackBefore(P, t, r, x, v), TakenBy(D, t, r, x, v), s2 # s \/ \E g \in F : Mine(g, t, r)
      PROVE  Safe(s2, e, dn, ba, fc, dc, t, r, x)
  <2>1. PICK g \in F : /\ Mine(g, t, r)
                       /\ s2.version = g.version /\ s2.cells = g.cells /\ s2.res = g.res
    BY <1>7 DEF F
  <2>2. g = f
    BY <1>7, <2>1 DEF OnePerTile, Mine, F
  <2>3. f.version \in Nat
    BY <1>4, <1>5
  <2>4. LackBefore(P2, t, r, x, f.version)
    BY <1>4, <1>5, <1>7, <2>3 DEF LackBefore
  <2>5. TakenBy(D, t, r, x, f.version)
    BY <1>3, <1>7, <2>3 DEF TakenBy
  <2>6. QED
    BY <1>7, <2>1, <2>2, <2>4, <2>5 DEF Safe, Mine, P2, D
<1>8. \/ s2 = s /\ (\A f \in F : ~ Mine(f, t, r))
      \/ \E f \in F : /\ Mine(f, t, r) /\ s.version <= f.version
                      /\ s2.version = f.version /\ s2.cells = f.cells /\ s2.res = f.res
  BY DEF F
<1>9. CASE Safe(s, fr, dn, ba, fc, dc, t, r, x)
  <2>1. s.res = r /\ x \in s.cells /\ LackBefore(P, t, r, x, s.version) /\ TakenBy(D, t, r, x, s.version)
    BY <1>9 DEF Safe, P, D
  <2>2. CASE s2 = s /\ \A f \in F : ~ Mine(f, t, r)
    <3>1. LackBefore(P2, t, r, x, s.version)
      BY <1>5, <2>1 DEF LackBefore
    <3>2. QED
      BY <2>1, <2>2, <3>1 DEF Safe, Carried, e, P2, D
  <2>3. CASE \E f \in F : Mine(f, t, r) /\ s.version <= f.version
    <3>1. PICK f \in F : Mine(f, t, r) /\ s.version <= f.version
      BY <2>3
    <3>2. x \in f.cells
      BY <1>4, <1>5, <2>1, <3>1 DEF LackBefore
    <3>3. Safe(s2, e, dn, ba, fc, dc, t, r, x)
      BY <1>7, <2>1, <3>1, <3>2
    <3>4. QED
      BY <3>3 DEF Carried, e
  <2>4. QED
    BY <1>8, <2>2, <2>3
<1>10. CASE BroughtByFrame(fr, dn, ba, fc, dc, t, r, x)
  <2>1. PICK j \in DOMAIN fr : \E g \in fr[j] :
           Brings(g, FramesAfter(fr, j) \cup DownAfter(dn, 0) \cup ba \cup fc, dn, dc, t, r, x)
    BY <1>10 DEF BroughtByFrame
  <2>2. PICK g \in fr[j] :
           Brings(g, FramesAfter(fr, j) \cup DownAfter(dn, 0) \cup ba \cup fc, dn, dc, t, r, x)
    BY <2>1
  <2>3. CASE j = 1
    <3>1. g \in F /\ Mine(g, t, r) /\ x \in g.cells
      BY <1>2, <2>2, <2>3 DEF Brings
    <3>2. LackBefore(P2, t, r, x, g.version) /\ TakenBy(D, t, r, x, g.version)
      BY <1>2, <1>6, <2>2, <2>3 DEF Brings, D
    <3>3. PICK h \in F : /\ Mine(h, t, r)
                         /\ s2.version = h.version /\ s2.cells = h.cells /\ s2.res = h.res
      BY <1>8, <3>1
    <3>4. h = g
      BY <3>1, <3>3 DEF OnePerTile, Mine, F
    <3>5. Safe(s2, e, dn, ba, fc, dc, t, r, x)
      BY <3>1, <3>2, <3>3, <3>4 DEF Safe, Mine, P2, D
    <3>6. QED
      BY <3>5 DEF Carried, e
  <2>4. CASE j # 1
    <3>1. j - 1 \in DOMAIN e /\ \E q \in e[j - 1] :
             Brings(q, FramesAfter(e, j - 1) \cup DownAfter(dn, 0) \cup ba \cup fc, dn, dc, t, r, x)
      BY <1>2, <2>2, <2>4
    <3>2. QED
      BY <3>1 DEF BroughtByFrame, Carried, e
  <2>5. QED
    BY <2>3, <2>4
<1>11. CASE BroughtByMessage(dn, ba, fc, dc, t, r, x)
  BY <1>11 DEF Carried
<1>12. CASE BroughtUnsent(dn, ba, fc, dc, t, r, x)
  BY <1>12 DEF Carried
<1>13. CASE InDelta(s, fr, dn, ba, fc, dc, t, r, x)
  <2>1. ASSUME NEW d \in D, NEW before, Ahead(d, before, s, fr, dn, ba, fc, dc, t, r, x)
        PROVE  \/ Safe(s2, e, dn, ba, fc, dc, t, r, x)
               \/ Ahead(d, before, s2, e, dn, ba, fc, dc, t, r, x)
    <3>1. /\ Mine(d, t, r) /\ x \in d.area \cap d.cells
          /\ LackBefore(P, t, r, x, d.version) /\ TakenBy(D, t, r, x, d.version)
          /\ \A b \in before : Mine(b, t, r) => b.version < d.version
          /\ s.res = r => s.version < d.version
      BY <2>1 DEF Ahead, P, D
    <3>2. d.version \in Nat
      BY <1>3
    <3>3. LackBefore(P2, t, r, x, d.version)
      BY <1>5, <3>1 DEF LackBefore
    <3>4. CASE s2.res = r => s2.version < d.version
      BY <3>1, <3>3, <3>4 DEF Ahead, P2, D
    <3>5. CASE s2.res = r /\ ~ (s2.version < d.version)
      <4>1. PICK f \in F : /\ Mine(f, t, r) /\ s2.version = f.version
        BY <1>8, <3>1, <3>5
      <4>2. f.version \in Nat /\ d.version <= f.version
        BY <1>4, <1>5, <3>2, <3>5, <4>1
      <4>3. x \in f.cells
        BY <1>5, <3>1, <3>2, <4>1, <4>2 DEF LackBefore
      <4>4. QED
        BY <1>7, <3>1, <3>2, <4>1, <4>2, <4>3
    <3>6. QED
      BY <3>4, <3>5
  <2>2. CASE \E d \in dc : Ahead(d, DeltasIn(dn), s, fr, dn, ba, fc, dc, t, r, x)
    <3>1. PICK d \in dc : Ahead(d, DeltasIn(dn), s, fr, dn, ba, fc, dc, t, r, x)
      BY <2>2
    <3>2. d \in D
      BY DEF D
    <3>3. QED
      BY <2>1, <3>1, <3>2 DEF InDelta, Carried, e
  <2>3. CASE \E k \in DOMAIN dn : /\ dn[k].is = "delta"
                                  /\ Ahead(dn[k], DeltasBefore(dn, k), s, fr, dn, ba, fc, dc, t, r, x)
    <3>1. PICK k \in DOMAIN dn : /\ dn[k].is = "delta"
                                 /\ Ahead(dn[k], DeltasBefore(dn, k), s, fr, dn, ba, fc, dc, t, r, x)
      BY <2>3
    <3>2. dn[k] \in D
      BY <3>1 DEF D, DeltasIn
    <3>3. QED
      BY <2>1, <3>1, <3>2 DEF InDelta, Carried, e
  <2>4. QED
    BY <1>13, <2>2, <2>3 DEF InDelta
<1>14. QED
  BY <1>9, <1>10, <1>11, <1>12, <1>13 DEF Carried

-----------------------------------------------------------------------------
(* Types. *)

LEMMA SpendBounds ==
    ASSUME given \in Bounds, NEW what \in {"changes", "views", "joins", "closes", "others"}, Spend(what)
    PROVE  given' \in Bounds
BY DEF Bounds, Spend

LEMMA CardinalityOfTiles ==
    ASSUME NEW S \in SUBSET Tile
    PROVE  IsFiniteSet(S) /\ Cardinality(S) \in Nat
BY MinimapAssumption, FS_Subset, FS_CardinalityType

LEMMA ToPlayerType ==
    ASSUME down \in Seq(ToClient), NEW i, NEW m \in ToClient, ToPlayer(i, m)
    PROVE  down' \in Seq(ToClient)
BY DEF ToPlayer

LEMMA TaskType ==
    ASSUME MinimapTypes, NEW c \in Link, NEW what, Take(c, what)
    PROVE  /\ ids[c] \in SubId /\ ids[c] # NoId /\ ~ pump[c].busy
           /\ up[c] # <<>> /\ Head(up[c]) \in ClientRequest /\ Head(up[c]).is = what
           /\ up' = [up EXCEPT ![c] = Tail(@)] /\ up' \in [Link -> Seq(ClientRequest)]
<1>1. up[c] \in Seq(ClientRequest) /\ up[c] # <<>>
  BY DEF Take, MinimapTypes, ClientTypes
<1>2. Head(up[c]) \in ClientRequest /\ Tail(up[c]) \in Seq(ClientRequest)
  BY <1>1
<1>3. ids[c] \in SubId
  BY DEF Take, MinimapTypes, ServerTypes
<1>4. QED
  BY <1>1, <1>2, <1>3 DEF Take, MinimapTypes, ClientTypes

LEMMA RequestKinds ==
    ASSUME NEW m \in ClientRequest
    PROVE  /\ m.is \in {"subscribe", "unsubscribe", "join"}
           /\ m.is = "subscribe" => m.tiles \in SUBSET Tile /\ m.res \in Resolution
           /\ m.is = "unsubscribe" => m.tiles \in SUBSET Tile
BY DEF ClientRequest

\* What the first phase of handleMinimapSubscribe does: new are the tiles it
\* registers.
Registers(c, new) ==
    LET m == Head(up[c])
        i == ids[c]
        old == {t \in m.tiles : i \in subs[t]}
    IN  /\ new \in SUBSET (m.tiles \ old)
        /\ subs' = [t \in Tile |-> IF t \in new THEN subs[t] \cup {i} ELSE subs[t]]
        /\ count' = [count EXCEPT ![i] = @ + Cardinality(new)]
        /\ res' = [res EXCEPT ![i] = m.res]
        /\ pump' = [pump EXCEPT ![c] = [busy |-> TRUE, todo |-> new, batch |-> {}, to |-> i, res |-> m.res]]
        /\ kept' = IF ~ connected \/ ids[conn] # i THEN kept
                   ELSE IF c = conn THEN (kept \ new) \cup old \cup (new \cap AnsweredElsewhere(c))
                   ELSE kept \cup m.tiles \cup {t \in Tile : i \in subs[t] /\ res[i] # m.res}

LEMMA SubscribeRegisters ==
    ASSUME NEW c \in Link, Subscribe(c)
    PROVE  \E new : Registers(c, new)
<1> DEFINE m == Head(up[c])
           i == ids[c]
           old == {t \in m.tiles : i \in subs[t]}
<1>1. PICK new \in kSubset(Min({Room(i), Cardinality(m.tiles \ old)}), m.tiles \ old) :
         /\ subs' = [t \in Tile |-> IF t \in new THEN subs[t] \cup {i} ELSE subs[t]]
         /\ count' = [count EXCEPT ![i] = @ + Added(i, new, new \cup old)]
         /\ res' = [res EXCEPT ![i] = m.res]
         /\ pump' = [pump EXCEPT ![c] = [busy |-> TRUE, todo |-> new, batch |-> {}, to |-> i, res |-> m.res]]
         /\ kept' = IF ~ connected \/ ids[conn] # i THEN kept
                    ELSE IF c = conn THEN (kept \ new) \cup old \cup (new \cap AnsweredElsewhere(c))
                    ELSE kept \cup m.tiles \cup {t \in Tile : i \in subs[t] /\ res[i] # m.res}
  BY Zenon DEF Subscribe
<1>2. new \in SUBSET (m.tiles \ old)
  BY DEF kSubset
<1>3. QED
  BY <1>1, <1>2 DEF Registers, Added

LEMMA PictureOfTile ==
    ASSUME NEW t \in Tile, NEW v \in Nat, NEW r \in Resolution, NEW C \in SUBSET Cell
    PROVE  [tile |-> t, version |-> v, res |-> r, cells |-> C] \in TilePicture
BY DEF TilePicture

LEMMA MessageType ==
    ASSUME ServerTypes, NEW t \in Tile, NEW v \in Nat, NEW r \in Resolution
    PROVE  Message(t, v, r) \in FullMessage \cup DeltaMessage
<1>1. board[t] \in SUBSET Cell
  BY DEF ServerTypes
<1>2. \A b \in Blocks[r] : b \subseteq Cell
  BY MinimapAssumption DEF Resolution
<1> DEFINE marked == {b \in Blocks[r] : b \cap tiles[t].dirty # {}}
<1>3. UNION marked \in SUBSET Cell
  BY <1>2
<1>4. CASE Cardinality(marked) > Cardinality(Blocks[r]) \div 2
  BY <1>1, <1>4 DEF Message, FullMessage
<1>5. CASE ~ (Cardinality(marked) > Cardinality(Blocks[r]) \div 2)
  <2> DEFINE area == UNION marked
  <2>1. area \in SUBSET Cell /\ board[t] \cap area \in SUBSET Cell
    BY <1>1, <1>3
  <2>2. Message(t, v, r) = [is |-> "delta", tile |-> t, version |-> v, res |-> r,
                            area |-> area, cells |-> board[t] \cap area]
    BY <1>5 DEF Message
  <2> HIDE DEF area
  <2>3. QED
    BY <2>1, <2>2 DEF DeltaMessage
<1>6. QED
  BY <1>4, <1>5

\* What SendCast and SendBatch send is a message to the client.
LEMMA BatchType ==
    ASSUME NEW B \in SUBSET TilePicture
    PROVE  [is |-> "batch", tiles |-> B] \in BatchMessage
BY DEF BatchMessage

LEMMA KeepOnlyTypes ==
    ASSUME ServerTypes, NEW s \in [Tile -> SUBSET SubId], KeepOnly(s)
    PROVE  /\ subs' \in [Tile -> SUBSET SubId]
           /\ tiles' \in [Tile -> TileRecord]
<1>1. NoTile \in TileRecord
  BY DEF NoTile, TileRecord
<1>2. QED
  BY <1>1 DEF KeepOnly, Left, ServerTypes

LEMMA ForgetTypes ==
    ASSUME ServerTypes, NEW i \in SubId, Forget(i)
    PROVE  /\ subs' \in [Tile -> SUBSET SubId] /\ count' \in [SubId -> Int] /\ res' \in [SubId -> Resolution]
           /\ tiles' \in [Tile -> TileRecord]
<1>1. Without(i) \in [Tile -> SUBSET SubId]
  BY DEF Without, ServerTypes
<1>2. QED
  BY <1>1, KeepOnlyTypes, MinimapAssumption DEF Forget, ServerTypes

\* What a change, a round of the broadcaster and a read do to the records.
LEMMA TileRecordUpdates ==
    ASSUME NEW e \in TileRecord, NEW D \in SUBSET Cell
    PROVE  /\ e.version \in Nat /\ e.dirty \in SUBSET Cell
           /\ [e EXCEPT !.dirty = @ \cup D, !.there = TRUE] \in TileRecord
           /\ [e EXCEPT !.dirty = @ \cup D, !.there = TRUE].version = e.version
           /\ [e EXCEPT !.dirty = @ \cup D, !.there = TRUE].dirty = e.dirty \cup D
           /\ [e EXCEPT !.version = NextVersion(@), !.dirty = {}] \in TileRecord
           /\ [e EXCEPT !.version = NextVersion(@), !.dirty = {}].version = e.version + 1
           /\ [e EXCEPT !.version = NextVersion(@), !.dirty = {}].dirty = {}
           /\ NextVersion(e.version) = e.version + 1
<1>1. e.version \in Nat /\ e.dirty \in SUBSET Cell /\ NextVersion(e.version) = e.version + 1
  BY DEF TileRecord, NextVersion
<1>2. /\ [e EXCEPT !.dirty = @ \cup D, !.there = TRUE] \in TileRecord
      /\ [e EXCEPT !.dirty = @ \cup D, !.there = TRUE].version = e.version
      /\ [e EXCEPT !.dirty = @ \cup D, !.there = TRUE].dirty = e.dirty \cup D
  BY DEF TileRecord
<1> DEFINE v == NextVersion(e.version)
<1>3. v \in Nat /\ v = e.version + 1
  BY <1>1
<1> HIDE DEF v
<1>4. /\ [e EXCEPT !.version = v, !.dirty = {}] \in TileRecord
      /\ [e EXCEPT !.version = v, !.dirty = {}].version = v
      /\ [e EXCEPT !.version = v, !.dirty = {}].dirty = {}
  BY <1>3 DEF TileRecord
<1>5. QED
  BY <1>1, <1>2, <1>3, <1>4 DEF v

LEMMA ChangeEffect ==
    ASSUME MinimapTypes, NEW t \in given.scope, NEW D \in SUBSET Cell, Change(t, D)
    PROVE  /\ t \in Tile /\ given' \in Bounds
           /\ board' = [board EXCEPT ![t] = board[t] \cup D] /\ board' \in [Tile -> SUBSET Cell]
           /\ tiles' \in [Tile -> TileRecord] /\ \A u \in Tile : u # t => tiles'[u] = tiles[u]
           /\ subs[t] = {} => tiles' = tiles /\ queued' = queued
           /\ subs[t] # {} => /\ tiles'[t].version = tiles[t].version /\ tiles'[t].dirty = tiles[t].dirty \cup D
                              /\ queued' = queued \cup {t}
<1>0. ServerTypes /\ t \in Tile
  BY DEF MinimapTypes, ServerTypes, Bounds
<1>1. given' \in Bounds /\ board' = [board EXCEPT ![t] = board[t] \cup D] /\ board' \in [Tile -> SUBSET Cell]
  BY <1>0, SpendBounds DEF Change, ServerTypes
<1>2. CASE subs[t] = {}
  BY <1>0, <1>1, <1>2 DEF Change, ServerTypes
<1>3. CASE subs[t] # {}
  <2>1. tiles' = [tiles EXCEPT ![t].dirty = @ \cup D, ![t].there = TRUE] /\ queued' = queued \cup {t}
    BY <1>3 DEF Change
  <2>2. tiles' = [tiles EXCEPT ![t] = [tiles[t] EXCEPT !.dirty = @ \cup D, !.there = TRUE]]
    BY <1>0, <2>1 DEF ServerTypes
  <2>3. tiles[t] \in TileRecord
    BY <1>0 DEF ServerTypes
  <2> DEFINE e == [tiles[t] EXCEPT !.dirty = @ \cup D, !.there = TRUE]
  <2>4. e \in TileRecord /\ e.version = tiles[t].version /\ e.dirty = tiles[t].dirty \cup D
    BY <2>3, TileRecordUpdates
  <2> HIDE DEF e
  <2>5. tiles' = [tiles EXCEPT ![t] = e]
    BY <2>2 DEF e
  <2>6. QED
    BY <1>0, <1>1, <1>3, <2>1, <2>4, <2>5 DEF ServerTypes
<1>4. QED
  BY <1>2, <1>3

\* The tiles a round is about.
Live == {t \in queued : subs[t] # {} /\ tiles[t].dirty # {}}

LEMMA BroadcastEffect ==
    ASSUME MinimapTypes, Broadcast
    PROVE  /\ tiles' \in [Tile -> TileRecord]
           /\ \A t \in Live : t \in Tile /\ tiles'[t].version = tiles[t].version + 1 /\ tiles'[t].dirty = {}
           /\ \A t \in Tile \ Live : tiles'[t] = IF t \in queued /\ subs[t] = {} THEN NoTile ELSE tiles[t]
           /\ \A y : y \in casts' <=>
                 \E t \in Live : \E i \in subs[t] \ {Other} :
                    y = [to |-> i, msg |-> Message(t, tiles[t].version + 1, res[i])]
<1>0. ServerTypes
  BY DEF MinimapTypes
<1>1. ASSUME NEW t \in Tile
      PROVE  /\ [tiles[t] EXCEPT !.version = NextVersion(@), !.dirty = {}] \in TileRecord
             /\ [tiles[t] EXCEPT !.version = NextVersion(@), !.dirty = {}].version = tiles[t].version + 1
             /\ [tiles[t] EXCEPT !.version = NextVersion(@), !.dirty = {}].dirty = {}
             /\ NextVersion(tiles[t].version) = tiles[t].version + 1
             /\ tiles[t] \in TileRecord
  <2>1. tiles[t] \in TileRecord
    BY <1>0 DEF ServerTypes
  <2>2. QED
    BY <2>1, TileRecordUpdates
<1>2. tiles' = [t \in Tile |->
             IF t \in Live THEN [tiles[t] EXCEPT !.version = NextVersion(@), !.dirty = {}]
             ELSE IF t \in queued /\ subs[t] = {} THEN NoTile
             ELSE tiles[t]]
  BY DEF Broadcast, Live
<1>3. NoTile \in TileRecord
  BY DEF NoTile, TileRecord
<1>4. tiles' \in [Tile -> TileRecord]
  BY <1>1, <1>2, <1>3
<1>5. Live \subseteq Tile
  BY <1>0 DEF ServerTypes, Live
<1>6. casts' = UNION {{[to |-> i, msg |-> Message(t, NextVersion(tiles[t].version), res[i])] :
                             i \in subs[t] \ {Other}} : t \in Live}
  BY DEF Broadcast, Live
<1>7. ASSUME NEW y
      PROVE  y \in casts' <=> \E t \in Live : \E i \in subs[t] \ {Other} :
                    y = [to |-> i, msg |-> Message(t, tiles[t].version + 1, res[i])]
  <2>1. y \in casts' <=> \E t \in Live : \E i \in subs[t] \ {Other} :
                    y = [to |-> i, msg |-> Message(t, NextVersion(tiles[t].version), res[i])]
    BY <1>6
  <2>2. \A t \in Live : NextVersion(tiles[t].version) = tiles[t].version + 1
    BY <1>1, <1>5
  <2>3. QED
    BY <2>1, <2>2
<1>8. QED
  BY <1>1, <1>2, <1>4, <1>5, <1>7

LEMMA ReadTileEffect ==
    ASSUME MinimapTypes, NEW c \in Link, ReadTile(c)
    PROVE  \E t \in pump[c].todo :
              LET f == [tile |-> t, version |-> tiles[t].version, res |-> pump[c].res, cells |-> board[t]]
              IN  /\ t \in Tile /\ f \in TilePicture
                  /\ pump' \in [Link -> Goroutine]
                  /\ \A d \in Link : d # c => pump'[d] = pump[d]
                  /\ pump'[c].busy = pump[c].busy /\ pump'[c].to = pump[c].to /\ pump'[c].res = pump[c].res
                  /\ pump'[c].todo = pump[c].todo \ {t}
                  /\ pump'[c].batch = IF board[t] = {} THEN pump[c].batch ELSE pump[c].batch \cup {f}
<1>0. ServerTypes
  BY DEF MinimapTypes
<1>1. PICK t \in pump[c].todo :
         pump' = [pump EXCEPT
             ![c].todo = @ \ {t},
             ![c].batch = IF board[t] = {} THEN @
                          ELSE @ \cup {[tile |-> t, version |-> tiles[t].version,
                                        res |-> pump[c].res, cells |-> board[t]]}]
  BY DEF ReadTile
<1> DEFINE f == [tile |-> t, version |-> tiles[t].version, res |-> pump[c].res, cells |-> board[t]]
           g == [pump[c] EXCEPT !.todo = @ \ {t}, !.batch = IF board[t] = {} THEN @ ELSE @ \cup {f}]
<1>2. pump[c] \in Goroutine /\ t \in Tile
  BY <1>0 DEF ServerTypes, Goroutine
<1>3. f \in TilePicture
  <2>1. tiles[t] \in TileRecord /\ board[t] \in SUBSET Cell /\ pump[c].res \in Resolution
    BY <1>0, <1>2 DEF ServerTypes, Goroutine
  <2>2. tiles[t].version \in Nat
    BY <2>1 DEF TileRecord
  <2>3. QED
    BY <1>2, <2>1, <2>2, PictureOfTile
<1>4. pump' = [pump EXCEPT ![c] = g]
  BY <1>0, <1>1 DEF ServerTypes
<1> HIDE DEF f
<1>5. /\ g.busy = pump[c].busy /\ g.to = pump[c].to /\ g.res = pump[c].res /\ g.todo = pump[c].todo \ {t}
      /\ g.batch = IF board[t] = {} THEN pump[c].batch ELSE pump[c].batch \cup {f}
  BY <1>2 DEF Goroutine
<1>6. g \in Goroutine
  BY <1>2, <1>3 DEF Goroutine
<1> HIDE DEF g
<1>7. pump' \in [Link -> Goroutine] /\ pump'[c] = g /\ \A d \in Link : d # c => pump'[d] = pump[d]
  BY <1>0, <1>4, <1>6 DEF ServerTypes
<1>8. QED
  BY <1>2, <1>3, <1>5, <1>7 DEF f

LEMMA ServerTypesStep ==
    ASSUME MinimapTypes, MinimapNext
    PROVE  ServerTypes'
<1> USE DEF ServerTypes
<1>0. ServerTypes /\ ClientTypes
  BY DEF MinimapTypes
<1>1. ASSUME NEW t \in given.scope, OtherSubscribes(t)  PROVE ServerTypes'
  <2>1. t \in Tile /\ Other \in SubId /\ given' \in Bounds
    BY <1>0, <1>1, SpendBounds DEF OtherSubscribes, Bounds, SubId
  <2>2. QED
    BY <1>0, <1>1, <2>1 DEF OtherSubscribes
<1>2. ASSUME NEW t \in given.scope, OtherLeaves(t)  PROVE ServerTypes'
  <2>1. t \in Tile /\ Other \in SubId /\ given' \in Bounds
    BY <1>0, <1>2, SpendBounds DEF OtherLeaves, Bounds, SubId
  <2>2. [subs EXCEPT ![t] = @ \ {Other}] \in [Tile -> SUBSET SubId]
    BY <1>0
  <2>3. /\ subs' \in [Tile -> SUBSET SubId]
        /\ tiles' \in [Tile -> TileRecord]
    BY <1>0, <1>2, <2>2, KeepOnlyTypes DEF OtherLeaves
  <2>4. QED
    BY <1>0, <1>2, <2>1, <2>3 DEF OtherLeaves
<1>3. ASSUME NEW t \in given.scope, NEW D \in SUBSET Cell, Change(t, D)  PROVE ServerTypes'
  <2>1. t \in Tile /\ given' \in Bounds /\ board' \in [Tile -> SUBSET Cell] /\ tiles' \in [Tile -> TileRecord]
        /\ (queued' = queued \/ queued' = queued \cup {t})
    BY <1>3, ChangeEffect
  <2>2. QED
    BY <1>0, <1>3, <2>1 DEF Change
<1>4. ASSUME Broadcast  PROVE ServerTypes'
  <2>1. tiles' \in [Tile -> TileRecord]
    BY <1>4, BroadcastEffect
  <2>2. casts' \in SUBSET [to : SubId, msg : FullMessage \cup DeltaMessage]
    <3>1. ASSUME NEW t \in Live, NEW i \in subs[t] \ {Other}
          PROVE  [to |-> i, msg |-> Message(t, tiles[t].version + 1, res[i])]
                    \in [to : SubId, msg : FullMessage \cup DeltaMessage]
      <4>1. t \in Tile /\ i \in SubId /\ res[i] \in Resolution /\ tiles[t] \in TileRecord
        BY <1>0 DEF Live
      <4>2. tiles[t].version + 1 \in Nat
        BY <4>1 DEF TileRecord
      <4>3. Message(t, tiles[t].version + 1, res[i]) \in FullMessage \cup DeltaMessage
        BY <1>0, <4>1, <4>2, MessageType
      <4>4. QED
        BY <4>1, <4>3
    <3>2. \A y \in casts' : \E t \in Live : \E i \in subs[t] \ {Other} :
                    y = [to |-> i, msg |-> Message(t, tiles[t].version + 1, res[i])]
      BY <1>4, BroadcastEffect
    <3>3. QED
      BY <3>1, <3>2
  <2>3. QED
    BY <1>0, <1>4, <2>1, <2>2 DEF Broadcast
<1>5. ASSUME SendCast  PROVE ServerTypes'
  BY <1>0, <1>5 DEF SendCast
<1>6. ASSUME NEW c \in Link, Subscribe(c)  PROVE ServerTypes'
  <2> DEFINE m == Head(up[c])
  <2>1. ids[c] \in SubId /\ m.tiles \in SUBSET Tile /\ m.res \in Resolution
    BY <1>0, <1>6, TaskType, RequestKinds DEF Subscribe, MinimapTypes
  <2>2. PICK new : Registers(c, new)
    BY <1>6, SubscribeRegisters
  <2>3. new \in SUBSET Tile
    BY <2>1, <2>2 DEF Registers
  <2>4. Cardinality(new) \in Nat
    BY <2>3, CardinalityOfTiles
  <2>5. subs' \in [Tile -> SUBSET SubId] /\ count' \in [SubId -> Int] /\ res' \in [SubId -> Resolution]
    BY <1>0, <2>1, <2>2, <2>3, <2>4 DEF Registers
  <2>6. pump' \in [Link -> Goroutine]
    <3>1. [busy |-> TRUE, todo |-> new, batch |-> {}, to |-> ids[c], res |-> m.res] \in Goroutine
      BY <2>1, <2>3 DEF Goroutine
    <3>2. QED
      BY <1>0, <2>2, <3>1 DEF Registers
  <2>7. QED
    BY <1>0, <1>6, <2>5, <2>6 DEF Subscribe
<1>7. ASSUME NEW c \in Link, ReadTile(c)  PROVE ServerTypes'
  <2>1. pump' \in [Link -> Goroutine]
    BY <1>7, ReadTileEffect
  <2>2. QED
    BY <1>0, <1>7, <2>1 DEF ReadTile
<1>8. ASSUME NEW c \in Link, SendBatch(c)  PROVE ServerTypes'
  <2>1. Idle \in Goroutine
    BY MinimapAssumption DEF Idle, Goroutine
  <2>2. pump' = [pump EXCEPT ![c] = Idle]
    BY <1>8 DEF SendBatch
  <2>3. QED
    BY <1>0, <1>8, <2>1, <2>2 DEF SendBatch
<1>9. ASSUME NEW c \in Link, Unsubscribe(c)  PROVE ServerTypes'
  <2> DEFINE gone == Head(up[c]).tiles
             i == ids[c]
             s == [t \in Tile |-> IF t \in gone THEN subs[t] \ {i} ELSE subs[t]]
  <2>1. i \in SubId /\ gone \in SUBSET Tile
    BY <1>0, <1>9, TaskType, RequestKinds DEF Unsubscribe, MinimapTypes
  <2>2. s \in [Tile -> SUBSET SubId]
    BY <1>0
  <2>3. KeepOnly(s) /\ count' = [count EXCEPT ![i] = @ - Cardinality({t \in gone : i \in subs[t]})]
        /\ queued' \in SUBSET queued
    BY <1>9 DEF Unsubscribe
  <2>4. Cardinality({t \in gone : i \in subs[t]}) \in Nat
    BY <2>1, CardinalityOfTiles
  <2> HIDE DEF s
  <2>5. /\ subs' \in [Tile -> SUBSET SubId]
        /\ tiles' \in [Tile -> TileRecord]
    BY <1>0, <2>2, <2>3, KeepOnlyTypes
  <2>6. QED
    BY <1>0, <1>9, <2>1, <2>3, <2>4, <2>5 DEF Unsubscribe
<1>10. ASSUME NEW c \in Link, Join(c)  PROVE ServerTypes'
  <2>1. ids[c] \in SubId
    BY <1>10, TaskType DEF Join
  <2>2. CASE ids[c] = Player
    BY <1>0, <1>10, <2>2 DEF Join
  <2>3. CASE ids[c] # Player
    <3>1. Forget(ids[c]) /\ ids' = [ids EXCEPT ![c] = Player]
      BY <1>10, <2>3 DEF Join
    <3>2. ids' \in [Link -> SubId \cup {NoId}]
      BY <1>0, <3>1 DEF SubId
    <3>3. QED
      BY <1>0, <1>10, <2>1, <3>1, <3>2, ForgetTypes DEF Join
  <2>4. QED
    BY <2>2, <2>3
<1>11. ASSUME NEW c \in Link, RemovePlayer(c)  PROVE ServerTypes'
  <2>1. ids[c] \in SubId /\ ids' \in [Link -> SubId \cup {NoId}]
    BY <1>0, <1>11 DEF RemovePlayer
  <2>2. CASE \E d \in Link \ {c} : ids[d] = ids[c]
    BY <1>0, <1>11, <2>1, <2>2 DEF RemovePlayer
  <2>3. CASE ~ (\E d \in Link \ {c} : ids[d] = ids[c])
    <3>1. Forget(ids[c]) /\ queued' \in SUBSET queued
      BY <1>11, <2>3 DEF RemovePlayer
    <3>2. QED
      BY <1>0, <1>11, <2>1, <3>1, ForgetTypes DEF RemovePlayer
  <2>4. QED
    BY <2>2, <2>3
<1>12. ASSUME DrawFrame \/ Receive \/ ResubscribeAll  PROVE ServerTypes'
  BY <1>0, <1>12 DEF DrawFrame, Receive, ResubscribeAll, server
<1>13. ASSUME NEW v \in SUBSET given.scope, NEW r \in given.scales, View(v, r)  PROVE ServerTypes'
  BY <1>0, <1>13, SpendBounds DEF View, server
<1>14. ASSUME NEW v \in SUBSET given.scope, ClearSource(v)  PROVE ServerTypes'
  BY <1>0, <1>14, SpendBounds DEF ClearSource, server
<1>15. ASSUME Open  PROVE ServerTypes'
  BY <1>0, <1>15 DEF Open, SubId
<1>16. ASSUME AskToJoin  PROVE ServerTypes'
  BY <1>0, <1>16, SpendBounds DEF AskToJoin, server
<1>17. ASSUME Close  PROVE ServerTypes'
  BY <1>0, <1>17, SpendBounds DEF Close, server
<1>18. QED
  BY <1>1, <1>2, <1>3, <1>4, <1>5, <1>6, <1>7, <1>8, <1>9, <1>10, <1>11, <1>12, <1>13, <1>14, <1>15,
     <1>16, <1>17 DEF MinimapNext

\* What a message on its way up looks like after the client's requests.
LEMMA RequestsEffect ==
    ASSUME ClientTypes, connected, NEW add \in SUBSET Tile, NEW del \in SUBSET Tile, NEW r \in Resolution,
           Requests(add, del, r)
    PROVE  /\ up' \in [Link -> Seq(ClientRequest)] /\ \A d \in Link : d # conn => up'[d] = up[d]
           /\ conn \in Link /\ up[conn] \in Seq(ClientRequest)
           /\ \A k \in DOMAIN up[conn] : k \in DOMAIN up'[conn] /\ up'[conn][k] = up[conn][k]
           /\ \A k \in DOMAIN up'[conn] \ DOMAIN up[conn] :
                 \/ up'[conn][k] = [is |-> "subscribe", tiles |-> add, res |-> r]
                 \/ up'[conn][k] = [is |-> "unsubscribe", tiles |-> del]
           /\ add # {} => \E k \in DOMAIN up'[conn] :
                             k > Len(up[conn]) /\ up'[conn][k] = [is |-> "subscribe", tiles |-> add, res |-> r]
<1> DEFINE a == IF add = {} THEN <<>> ELSE <<[is |-> "subscribe", tiles |-> add, res |-> r]>>
           b == IF del = {} THEN <<>> ELSE <<[is |-> "unsubscribe", tiles |-> del]>>
           u == up[conn]
<1>1. conn \in Link /\ u \in Seq(ClientRequest) /\ up \in [Link -> Seq(ClientRequest)]
  BY DEF ClientTypes
<1>2. [is |-> "subscribe", tiles |-> add, res |-> r] \in ClientRequest /\ [is |-> "unsubscribe", tiles |-> del] \in ClientRequest
  BY DEF ClientRequest
<1>3. a \in Seq(ClientRequest) /\ b \in Seq(ClientRequest)
  BY <1>2
<1>4. up' = [up EXCEPT ![conn] = (u \o a) \o b]
  BY DEF Requests
<1>5. /\ \A k \in DOMAIN a : a[k] = [is |-> "subscribe", tiles |-> add, res |-> r]
      /\ \A k \in DOMAIN b : b[k] = [is |-> "unsubscribe", tiles |-> del]
      /\ add # {} => Len(a) = 1 /\ a[1] = [is |-> "subscribe", tiles |-> add, res |-> r]
  OBVIOUS
<1> HIDE DEF a, b, u
<1> DEFINE ua == u \o a
<1>6. /\ ua \in Seq(ClientRequest) /\ Len(ua) = Len(u) + Len(a)
      /\ \A k \in 1 .. Len(u) : ua[k] = u[k]
      /\ \A k \in 1 .. Len(a) : ua[Len(u) + k] = a[k]
  BY <1>1, <1>3, ConcatFacts
<1> HIDE DEF ua
<1> DEFINE w == ua \o b
<1>7. /\ w \in Seq(ClientRequest) /\ Len(w) = Len(ua) + Len(b) /\ DOMAIN w = 1 .. Len(ua) + Len(b)
      /\ \A k \in 1 .. Len(ua) : w[k] = ua[k]
      /\ \A k \in 1 .. Len(b) : w[Len(ua) + k] = b[k]
  <2>1. ua \in Seq(ClientRequest) /\ b \in Seq(ClientRequest)
    BY <1>3, <1>6
  <2>2. QED
    BY <2>1, ConcatFacts
<1> HIDE DEF w
<1>8. /\ Len(u) \in Nat /\ Len(a) \in Nat /\ Len(b) \in Nat /\ DOMAIN u = 1 .. Len(u)
      /\ DOMAIN a = 1 .. Len(a) /\ DOMAIN b = 1 .. Len(b)
  BY <1>1, <1>3
<1>9. up'[conn] = w /\ up' \in [Link -> Seq(ClientRequest)] /\ \A d \in Link : d # conn => up'[d] = up[d]
  BY <1>1, <1>4, <1>7 DEF w, ua
<1>10. \A k \in DOMAIN u : k \in DOMAIN w /\ w[k] = u[k]
  BY <1>6, <1>7, <1>8
<1>11. ASSUME NEW k \in DOMAIN w, k \notin DOMAIN u
       PROVE  \/ w[k] = [is |-> "subscribe", tiles |-> add, res |-> r]
              \/ w[k] = [is |-> "unsubscribe", tiles |-> del]
  <2>1. CASE k <= Len(ua)
    <3>1. k - Len(u) \in 1 .. Len(a) /\ Len(u) + (k - Len(u)) = k /\ k \in 1 .. Len(ua)
      BY <1>6, <1>7, <1>8, <1>11, <2>1
    <3>2. w[k] = a[k - Len(u)]
      BY <1>6, <1>7, <3>1
    <3>3. QED
      BY <1>5, <1>8, <3>1, <3>2
  <2>2. CASE ~ (k <= Len(ua))
    <3>1. k - Len(ua) \in 1 .. Len(b) /\ Len(ua) + (k - Len(ua)) = k
      BY <1>6, <1>7, <1>8, <2>2
    <3>2. w[k] = b[k - Len(ua)]
      BY <1>7, <3>1
    <3>3. QED
      BY <1>5, <1>8, <3>1, <3>2
  <2>3. QED
    BY <2>1, <2>2
<1>12. ASSUME add # {}
       PROVE  \E k \in DOMAIN w : k > Len(u) /\ w[k] = [is |-> "subscribe", tiles |-> add, res |-> r]
  <2>1. Len(u) + 1 \in 1 .. Len(ua) /\ Len(u) + 1 \in DOMAIN w /\ 1 \in 1 .. Len(a) /\ Len(u) + 1 > Len(u)
    BY <1>5, <1>6, <1>7, <1>8, <1>12
  <2>2. w[Len(u) + 1] = a[1]
    BY <1>6, <1>7, <2>1
  <2>3. QED
    BY <1>5, <1>12, <2>1, <2>2
<1>13. QED
  BY <1>1, <1>9, <1>10, <1>11, <1>12 DEF u

\* What a frame draws.
LEMMA DrawEffect ==
    ASSUME MinimapTypes, DrawFrame
    PROVE  /\ frames # <<>> /\ frames' = Tail(frames)
           /\ Head(frames) \in SUBSET AllPictures /\ Tail(frames) \in Seq(SUBSET AllPictures)
           /\ overtaken' = overtaken \cup {f.tile : f \in {g \in Head(frames) : Meant(g) /\ TooOld(g)}}
           /\ DOMAIN shown' = Tile
           /\ \A t \in Tile :
                 \/ /\ shown'[t] = shown[t]
                    /\ \A f \in Head(frames) : f.tile = t /\ Meant(f) => TooOld(f)
                 \/ \E f \in Head(frames) :
                       /\ f.tile = t /\ Meant(f) /\ ~ TooOld(f)
                       /\ shown'[t] = [version |-> f.version, cells |-> f.cells, res |-> f.res]
<1>1. frames # <<>> /\ frames' = Tail(frames) /\ frames \in Seq(SUBSET AllPictures)
  BY DEF DrawFrame, MinimapTypes, ClientTypes, AllPictures
<1>2. Head(frames) \in SUBSET AllPictures /\ Tail(frames) \in Seq(SUBSET AllPictures)
  BY <1>1
<1> DEFINE fulls == {f \in Head(frames) : Meant(f)}
           New(t) == {f \in fulls : f.tile = t /\ ~ TooOld(f)}
<1>3. /\ shown' = [t \in Tile |->
                      IF New(t) = {} THEN shown[t]
                      ELSE [version |-> (CHOOSE f \in New(t) : TRUE).version,
                            cells |-> (CHOOSE f \in New(t) : TRUE).cells,
                            res |-> (CHOOSE f \in New(t) : TRUE).res]]
      /\ overtaken' = overtaken \cup {f.tile : f \in {f \in fulls : TooOld(f)}}
  BY DEF DrawFrame
<1>4. overtaken' = overtaken \cup {f.tile : f \in {g \in Head(frames) : Meant(g) /\ TooOld(g)}}
  BY <1>3
<1>5. ASSUME NEW t \in Tile
      PROVE  \/ /\ shown'[t] = shown[t]
                /\ \A f \in Head(frames) : f.tile = t /\ Meant(f) => TooOld(f)
             \/ \E f \in Head(frames) :
                   /\ f.tile = t /\ Meant(f) /\ ~ TooOld(f)
                   /\ shown'[t] = [version |-> f.version, cells |-> f.cells, res |-> f.res]
  <2>1. CASE New(t) = {}
    BY <1>3, <2>1
  <2>2. CASE New(t) # {}
    <3> DEFINE f == CHOOSE f \in New(t) : TRUE
    <3>1. f \in New(t)
      BY <2>2
    <3>2. shown'[t] = [version |-> f.version, cells |-> f.cells, res |-> f.res]
      BY <1>3, <2>2
    <3> HIDE DEF f
    <3>3. QED
      BY <3>1, <3>2
  <2>3. QED
    BY <2>1, <2>2
<1>6. DOMAIN shown' = Tile
  BY <1>3
<1>7. QED
  BY <1>1, <1>2, <1>4, <1>5, <1>6

Copy == [version : Nat, cells : SUBSET Cell, res : Resolution \cup {0}]

\* What the deltas make of a copy.
LEMMA DeltaEffect ==
    ASSUME MinimapTypes, NEW m \in DeltaMessage
    PROVE  /\ m.tile \in Tile /\ Delta(m) \in Copy
           /\ ~ Meant(m) => Delta(m) = shown[m.tile]
           /\ Meant(m) /\ m.version # 0 =>
                 IF shown[m.tile].res = m.res /\ m.version <= shown[m.tile].version
                 THEN Delta(m) = shown[m.tile]
                 ELSE /\ Delta(m).version = m.version /\ Delta(m).res = m.res
                      /\ Delta(m).cells = ((IF shown[m.tile].res = m.res THEN shown[m.tile].cells ELSE {})
                                              \ m.area) \cup m.cells
<1> DEFINE old == shown[m.tile]
           base == IF old.res = m.res THEN old ELSE [version |-> 0, cells |-> {}, res |-> m.res]
<1>1. m.version \in Nat /\ m.tile \in Tile /\ m.res \in Resolution /\ m.area \in SUBSET Cell /\ m.cells \in SUBSET Cell
  BY DeltaFields
<1>2. old \in Copy
  BY <1>1 DEF MinimapTypes, ClientTypes, Copy
<1>3. base \in Copy
  BY <1>1, <1>2 DEF Copy
<1>4. Delta(m) = IF ~ Meant(m) THEN old
                 ELSE IF m.version <= base.version THEN base
                 ELSE [version |-> m.version, cells |-> (base.cells \ m.area) \cup m.cells, res |-> m.res]
  BY DEF Delta
<1>5. /\ old.res = m.res => base = old
      /\ old.res # m.res => base.version = 0 /\ base.cells = {}
  OBVIOUS
<1>6. base.version \in Nat /\ base.cells \in SUBSET Cell
  BY <1>3 DEF Copy
<1> HIDE DEF old, base
<1>7. CASE ~ Meant(m)
  BY <1>1, <1>2, <1>4, <1>7 DEF old
<1>8. CASE Meant(m) /\ m.version <= base.version
  BY <1>1, <1>3, <1>4, <1>5, <1>8 DEF old
<1>9. CASE Meant(m) /\ ~ (m.version <= base.version)
  <2>1. Delta(m) = [version |-> m.version, cells |-> (base.cells \ m.area) \cup m.cells, res |-> m.res]
    BY <1>4, <1>9
  <2>2. (base.cells \ m.area) \cup m.cells \in SUBSET Cell
    BY <1>1, <1>6
  <2>3. Delta(m) \in Copy
    BY <1>1, <2>1, <2>2 DEF Copy
  <2>4. ~ (old.res = m.res /\ m.version <= old.version)
    BY <1>5, <1>9
  <2>5. base.cells = IF old.res = m.res THEN old.cells ELSE {}
    BY <1>5
  <2>6. Delta(m).version = m.version /\ Delta(m).res = m.res
        /\ Delta(m).cells = ((IF old.res = m.res THEN old.cells ELSE {}) \ m.area) \cup m.cells
    BY <2>1, <2>5
  <2>7. QED
    BY <1>1, <1>9, <2>3, <2>4, <2>6 DEF old
<1>10. QED
  BY <1>7, <1>8, <1>9

LEMMA ReceiveEffect ==
    ASSUME MinimapTypes, Receive
    PROVE  /\ down # <<>> /\ down' = Tail(down) /\ Head(down) \in ToClient /\ Tail(down) \in Seq(ToClient)
           /\ down \in Seq(ToClient) /\ frames \in Seq(SUBSET AllPictures)
           /\ Fulls(Head(down)) \in SUBSET AllPictures
           /\ Head(down).is # "delta" => frames' = Append(frames, Fulls(Head(down))) /\ shown' = shown
           /\ Head(down).is = "delta" => /\ frames' = frames
                                         /\ shown' = [shown EXCEPT ![Head(down).tile] = Delta(Head(down))]
<1>1. down # <<>> /\ down' = Tail(down) /\ down \in Seq(ToClient) /\ frames \in Seq(SUBSET AllPictures)
  BY DEF Receive, MinimapTypes, ClientTypes, AllPictures
<1>2. Head(down) \in ToClient /\ Tail(down) \in Seq(ToClient)
  BY <1>1
<1>3. Fulls(Head(down)) \in SUBSET AllPictures
  BY <1>2, MessageKinds
<1>4. \/ Head(down).is = "full" /\ frames' = Append(frames, {Head(down)}) /\ shown' = shown
      \/ Head(down).is = "batch" /\ frames' = Append(frames, Head(down).tiles) /\ shown' = shown
      \/ /\ Head(down).is = "delta" /\ frames' = frames
         /\ shown' = [shown EXCEPT ![Head(down).tile] = Delta(Head(down))]
  BY DEF Receive
<1>5. QED
  BY <1>1, <1>2, <1>3, <1>4, MessageKinds

LEMMA ReleasedType ==
    ASSUME ClientTypes, NEW del
    PROVE  Released(del) \in [Tile -> Copy]
<1>1. NoCopy \in Copy
  BY DEF NoCopy, Copy
<1>2. shown \in [Tile -> Copy]
  BY DEF ClientTypes, Copy
<1>3. QED
  BY <1>1, <1>2 DEF Released

LEMMA ClientTypesStep ==
    ASSUME MinimapTypes, MinimapNext
    PROVE  ClientTypes'
<1>0. ServerTypes /\ ClientTypes
  BY DEF MinimapTypes
<1>1. ASSUME NEW t \in given.scope, OtherSubscribes(t) \/ OtherLeaves(t)  PROVE ClientTypes'
  BY <1>0, <1>1 DEF OtherSubscribes, OtherLeaves, client, ClientTypes
<1>2. ASSUME NEW t \in given.scope, NEW D \in SUBSET Cell, Change(t, D)  PROVE ClientTypes'
  BY <1>0, <1>2 DEF Change, client, ClientTypes
<1>3. ASSUME Broadcast  PROVE ClientTypes'
  BY <1>0, <1>3 DEF Broadcast, client, ClientTypes
<1>4. ASSUME SendCast  PROVE ClientTypes'
  <2>1. PICK x \in casts : ToPlayer(x.to, x.msg)
    BY <1>4 DEF SendCast
  <2>2. x.msg \in ToClient
    BY <1>0 DEF ServerTypes, ToClient
  <2>3. down' \in Seq(ToClient)
    BY <1>0, <2>1, <2>2, ToPlayerType DEF ClientTypes
  <2>4. QED
    BY <1>0, <1>4, <2>3 DEF SendCast, client, ClientTypes
<1>5. ASSUME NEW c \in Link, Subscribe(c)  PROVE ClientTypes'
  <2>1. up' \in [Link -> Seq(ClientRequest)]
    BY <1>5, TaskType DEF Subscribe
  <2>2. QED
    BY <1>0, <1>5, <2>1 DEF Subscribe, client, ClientTypes
<1>6. ASSUME NEW c \in Link, ReadTile(c)  PROVE ClientTypes'
  BY <1>0, <1>6 DEF ReadTile, client, ClientTypes
<1>7. ASSUME NEW c \in Link, SendBatch(c)  PROVE ClientTypes'
  <2>1. pump[c] \in Goroutine
    BY <1>0 DEF ServerTypes
  <2>2. [is |-> "batch", tiles |-> pump[c].batch] \in ToClient
    BY <2>1, BatchType DEF Goroutine, ToClient
  <2>3. down' \in Seq(ToClient)
    <3>1. CASE pump[c].batch = {}
      BY <1>0, <1>7, <3>1 DEF SendBatch, ClientTypes
    <3>2. CASE pump[c].batch # {}
      <4>1. ToPlayer(pump[c].to, [is |-> "batch", tiles |-> pump[c].batch])
        BY <1>7, <3>2 DEF SendBatch
      <4>2. QED
        BY <1>0, <2>2, <4>1, ToPlayerType DEF ClientTypes
    <3>3. QED
      BY <3>1, <3>2
  <2>4. QED
    BY <1>0, <1>7, <2>3 DEF SendBatch, client, ClientTypes
<1>8. ASSUME NEW c \in Link, Unsubscribe(c)  PROVE ClientTypes'
  <2>1. up' \in [Link -> Seq(ClientRequest)]
    BY <1>8, TaskType DEF Unsubscribe
  <2>2. QED
    BY <1>0, <1>8, <2>1 DEF Unsubscribe, client, ClientTypes
<1>9. ASSUME NEW c \in Link, Join(c)  PROVE ClientTypes'
  <2>1. up' \in [Link -> Seq(ClientRequest)]
    BY <1>9, TaskType DEF Join
  <2>2. QED
    BY <1>0, <1>9, <2>1 DEF Join, client, ClientTypes
<1>10. ASSUME NEW c \in Link, RemovePlayer(c)  PROVE ClientTypes'
  <2>1. up' \in [Link -> Seq(ClientRequest)]
    BY <1>0, <1>10 DEF RemovePlayer, ClientTypes
  <2>2. QED
    BY <1>0, <1>10, <2>1 DEF RemovePlayer, client, ClientTypes
<1>11. ASSUME DrawFrame  PROVE ClientTypes'
  <2>1. shown' \in [Tile -> Copy]
    <3>1. ASSUME NEW t \in Tile  PROVE shown'[t] \in Copy
      <4>1. CASE shown'[t] = shown[t]
        BY <1>0, <4>1 DEF ClientTypes, Copy
      <4>2. CASE shown'[t] # shown[t]
        <5>1. PICK f \in Head(frames) : shown'[t] = [version |-> f.version, cells |-> f.cells, res |-> f.res]
          BY <1>11, <4>2, DrawEffect
        <5>2. f \in AllPictures
          BY <1>11, DrawEffect
        <5>3. QED
          BY <5>1, <5>2, PictureFields DEF Copy
      <4>3. QED
        BY <4>1, <4>2
    <3>2. DOMAIN shown' = Tile
      BY <1>11, DrawEffect
    <3>3. \E S : shown' = [t \in Tile |-> shown'[t]]
      BY <1>11 DEF DrawFrame
    <3>4. QED
      BY <3>1, <3>3
  <2>2. frames' \in Seq(SUBSET (TilePicture \cup FullMessage))
    BY <1>11, DrawEffect DEF AllPictures
  <2>3. QED
    BY <1>0, <1>11, <2>1, <2>2 DEF DrawFrame, ClientTypes, Copy
<1>12. ASSUME Receive  PROVE ClientTypes'
  <2>1. down' \in Seq(ToClient)
    BY <1>12, ReceiveEffect
  <2>2. frames' \in Seq(SUBSET (TilePicture \cup FullMessage))
    <3>1. CASE Head(down).is = "delta"
      BY <1>0, <1>12, <3>1, ReceiveEffect DEF ClientTypes
    <3>2. CASE Head(down).is # "delta"
      <4>1. frames' = Append(frames, Fulls(Head(down))) /\ Fulls(Head(down)) \in SUBSET AllPictures
            /\ frames \in Seq(SUBSET AllPictures)
        BY <1>12, <3>2, ReceiveEffect
      <4>2. QED
        BY <4>1 DEF AllPictures
    <3>3. QED
      BY <3>1, <3>2
  <2>3. shown' \in [Tile -> Copy]
    <3>1. CASE Head(down).is = "delta"
      <4>1. Head(down) \in DeltaMessage
        BY <1>12, <3>1, ReceiveEffect, MessageKinds
      <4>2. Delta(Head(down)) \in Copy
        BY <4>1, DeltaEffect
      <4>3. QED
        BY <1>0, <1>12, <3>1, <4>2, ReceiveEffect DEF ClientTypes, Copy
    <3>2. CASE Head(down).is # "delta"
      BY <1>0, <1>12, <3>2, ReceiveEffect DEF ClientTypes, Copy
    <3>3. QED
      BY <3>1, <3>2
  <2>4. QED
    BY <1>0, <1>12, <2>1, <2>2, <2>3 DEF Receive, ClientTypes, Copy
<1>13. ASSUME NEW v \in SUBSET given.scope, NEW r \in given.scales, View(v, r)  PROVE ClientTypes'
  <2>0. v \in SUBSET Tile /\ r \in Resolution
    BY <1>0 DEF ServerTypes, Bounds
  <2> DEFINE add == IF r = resolution THEN v \ active ELSE v
             del == active \ v
  <2>1. /\ connected /\ Requests(add, del, r) /\ active' = (active \cup add) \ del /\ shown' = Released(del)
        /\ desired' = v /\ resolution' = r
        /\ UNCHANGED <<server, down, conn, connected, frames, resubscribe, notes>>
    BY <1>13 DEF View
  <2>2. add \in SUBSET Tile /\ del \in SUBSET Tile
    BY <1>0, <2>0 DEF ClientTypes
  <2> HIDE DEF add, del
  <2>3. up' \in [Link -> Seq(ClientRequest)]
    BY <1>0, <2>0, <2>1, <2>2, RequestsEffect
  <2>4. shown' \in [Tile -> Copy]
    BY <1>0, <2>1, ReleasedType
  <2>5. QED
    BY <1>0, <2>0, <2>1, <2>2, <2>3, <2>4 DEF ClientTypes, Copy
<1>14. ASSUME NEW v \in SUBSET given.scope, ClearSource(v)  PROVE ClientTypes'
  <2>0. v \in SUBSET Tile
    BY <1>0 DEF ServerTypes, Bounds
  <2>1. CASE ~ connected
    BY <1>0, <1>14, <2>0, <2>1 DEF ClearSource, ClientTypes
  <2>2. CASE connected
    <3> DEFINE del == active \ v
    <3>1. Requests({}, del, resolution) /\ active' = active \cap v /\ shown' = Released(del)
      BY <1>14, <2>2 DEF ClearSource
    <3>2. {} \in SUBSET Tile /\ del \in SUBSET Tile /\ resolution \in Resolution
      BY <1>0 DEF ClientTypes
    <3> HIDE DEF del
    <3>3. up' \in [Link -> Seq(ClientRequest)]
      BY <1>0, <2>2, <3>1, <3>2, RequestsEffect
    <3>4. shown' \in [Tile -> Copy]
      BY <1>0, <3>1, ReleasedType
    <3>5. QED
      BY <1>0, <1>14, <2>0, <3>1, <3>3, <3>4 DEF ClearSource, ClientTypes, Copy
  <2>3. QED
    BY <2>1, <2>2
<1>15. ASSUME Open  PROVE ClientTypes'
  BY <1>0, <1>15 DEF Open, ClientTypes
<1>16. ASSUME ResubscribeAll  PROVE ClientTypes'
  <2>1. connected /\ Requests(desired, {}, resolution)
    BY <1>16 DEF ResubscribeAll
  <2>2. {} \in SUBSET Tile /\ desired \in SUBSET Tile /\ resolution \in Resolution
    BY <1>0 DEF ClientTypes
  <2>3. up' \in [Link -> Seq(ClientRequest)]
    BY <1>0, <2>1, <2>2, RequestsEffect
  <2>4. QED
    BY <1>0, <1>16, <2>2, <2>3 DEF ResubscribeAll, ClientTypes
<1>17. ASSUME AskToJoin  PROVE ClientTypes'
  <2>1. [is |-> "join"] \in ClientRequest
    BY DEF ClientRequest
  <2>2. up' \in [Link -> Seq(ClientRequest)]
    BY <1>0, <1>17, <2>1 DEF AskToJoin, ClientTypes
  <2>3. QED
    BY <1>0, <1>17, <2>2 DEF AskToJoin, client, ClientTypes
<1>18. ASSUME Close  PROVE ClientTypes'
  <2>1. down' \in Seq(ToClient) /\ active' \in SUBSET Tile /\ connected' = FALSE /\ resubscribe' = FALSE
    BY <1>18 DEF Close
  <2>2. QED
    BY <1>0, <1>18, <2>1 DEF Close, ClientTypes
<1>19. QED
  BY <1>1, <1>2, <1>3, <1>4, <1>5, <1>6, <1>7, <1>8, <1>9, <1>10, <1>11, <1>12, <1>13, <1>14, <1>15,
     <1>16, <1>17, <1>18 DEF MinimapNext

LEMMA MinimapTypesStep ==
    ASSUME MinimapTypes, [MinimapNext]_minimapVars
    PROVE  MinimapTypes'
<1>1. CASE MinimapNext
  BY <1>1, ServerTypesStep, ClientTypesStep DEF MinimapTypes
<1>2. CASE UNCHANGED minimapVars
  BY <1>2 DEF minimapVars, server, client, MinimapTypes, ServerTypes, ClientTypes
<1>3. QED
  BY <1>1, <1>2

-----------------------------------------------------------------------------
(* The counters. *)

LEMMA CountsStep ==
    ASSUME MinimapTypes, CountsAgree, [MinimapNext]_minimapVars
    PROVE  CountsAgree'
<1> DEFINE TilesOf(i) == {t \in Tile : i \in subs[t]}
<1>0. /\ subs \in [Tile -> SUBSET SubId] /\ count \in [SubId -> Int]
      /\ \A i \in SubId : count[i] = Cardinality(TilesOf(i)) /\ TilesOf(i) \in SUBSET Tile
  BY DEF MinimapTypes, ServerTypes, CountsAgree
<1>1. SUFFICES ASSUME NEW i \in SubId  PROVE count'[i] = Cardinality(TilesOf(i)')
  BY DEF CountsAgree
\* What id j has grows by S, shrinks by S or goes; the others keep theirs.
<1>2. ASSUME NEW j \in SubId, NEW S \in SUBSET Tile, S \cap TilesOf(j) = {},
             subs' = [t \in Tile |-> IF t \in S THEN subs[t] \cup {j} ELSE subs[t]],
             count' = [count EXCEPT ![j] = @ + Cardinality(S)]
      PROVE  count'[i] = Cardinality(TilesOf(i)')
  <2>1. CASE i = j
    <3>1. TilesOf(i)' = TilesOf(i) \cup S
      BY <1>0, <1>2, <2>1
    <3>2. IsFiniteSet(S) /\ IsFiniteSet(TilesOf(i)) /\ Cardinality(S) \in Nat /\ Cardinality(TilesOf(i)) \in Nat
      BY <1>0, CardinalityOfTiles
    <3>3. TilesOf(i) \cap S = {}
      BY <1>2, <2>1
    <3>4. Cardinality(TilesOf(i) \cup S) = Cardinality(TilesOf(i)) + Cardinality(S)
      <4> HIDE DEF Of
      <4>1. Cardinality(TilesOf(i) \cap S) = 0
        BY <3>3, FS_EmptySet
      <4>2. Cardinality(TilesOf(i) \cup S) = Cardinality(TilesOf(i)) + Cardinality(S) - Cardinality(TilesOf(i) \cap S)
        BY <3>2, FS_Union
      <4>3. QED
        BY <3>2, <4>1, <4>2
    <3>5. count'[i] = count[i] + Cardinality(S)
      BY <1>0, <1>2, <2>1
    <3> HIDE DEF Of
    <3>6. QED
      BY <1>0, <3>1, <3>4, <3>5
  <2>2. CASE i # j
    <3>1. TilesOf(i)' = TilesOf(i) /\ count'[i] = count[i]
      BY <1>0, <1>2, <2>2
    <3>2. QED
      BY <1>0, <3>1
  <2>3. QED
    BY <2>1, <2>2
<1>3. ASSUME NEW j \in SubId, NEW S \in SUBSET Tile,
             subs' = [t \in Tile |-> IF t \in S THEN subs[t] \ {j} ELSE subs[t]],
             count' = [count EXCEPT ![j] = @ - Cardinality({t \in S : j \in subs[t]})]
      PROVE  count'[i] = Cardinality(TilesOf(i)')
  <2>1. CASE i = j
    <3> DEFINE R == {t \in S : j \in subs[t]}
    <3>1. TilesOf(i)' = TilesOf(i) \ R /\ R \subseteq TilesOf(i) /\ R \in SUBSET Tile
      BY <1>0, <1>3, <2>1
    <3>2. IsFiniteSet(R) /\ IsFiniteSet(TilesOf(i)) /\ Cardinality(R) \in Nat /\ Cardinality(TilesOf(i)) \in Nat
      BY <1>0, <3>1, CardinalityOfTiles
    <3>3. count'[i] = count[i] - Cardinality(R)
      BY <1>0, <1>3, <2>1
    <3> HIDE DEF Of, R
    <3>4. Cardinality(TilesOf(i) \ R) = Cardinality(TilesOf(i)) - Cardinality(TilesOf(i) \cap R)
      BY <3>2, FS_Difference
    <3>5. TilesOf(i) \cap R = R
      BY <3>1
    <3>6. QED
      BY <1>0, <3>1, <3>3, <3>4, <3>5
  <2>2. CASE i # j
    <3>1. TilesOf(i)' = TilesOf(i) /\ count'[i] = count[i]
      BY <1>0, <1>3, <2>2
    <3>2. QED
      BY <1>0, <3>1
  <2>3. QED
    BY <2>1, <2>2
<1>4. ASSUME NEW j \in SubId, Forget(j)  PROVE count'[i] = Cardinality(TilesOf(i)')
  <2>1. subs' = [t \in Tile |-> subs[t] \ {j}] /\ count' = [count EXCEPT ![j] = 0]
    BY <1>4 DEF Forget, KeepOnly, Without
  <2>2. CASE i = j
    <3>1. TilesOf(i)' = {} /\ count'[i] = 0
      BY <1>0, <2>1, <2>2
    <3>2. QED
      BY <3>1, FS_EmptySet
  <2>3. CASE i # j
    <3>1. TilesOf(i)' = TilesOf(i) /\ count'[i] = count[i]
      BY <1>0, <2>1, <2>3
    <3>2. QED
      BY <1>0, <3>1
  <2>4. QED
    BY <2>2, <2>3
<1>5. ASSUME subs' = subs, count' = count  PROVE count'[i] = Cardinality(TilesOf(i)')
  BY <1>0, <1>5
<1>6. Other \in SubId /\ Cardinality({}) = 0 /\ \A t : Cardinality({t}) = 1
  BY FS_EmptySet, FS_Singleton DEF SubId
<1> HIDE DEF Of
<1>7. ASSUME NEW t \in given.scope, OtherSubscribes(t)  PROVE count'[i] = Cardinality(TilesOf(i)')
  <2>1. t \in Tile /\ {t} \in SUBSET Tile
    BY DEF MinimapTypes, ServerTypes, Bounds
  <2>2. {t} \cap TilesOf(Other) = {}
    BY <1>7 DEF OtherSubscribes, Of
  <2>3. subs' = [u \in Tile |-> IF u \in {t} THEN subs[u] \cup {Other} ELSE subs[u]]
    BY <1>0, <1>7, <2>1 DEF OtherSubscribes
  <2>4. count' = [count EXCEPT ![Other] = @ + Cardinality({t})]
    BY <1>6, <1>7 DEF OtherSubscribes
  <2>5. QED
    BY <1>2, <1>6, <2>1, <2>2, <2>3, <2>4
<1>8. ASSUME NEW t \in given.scope, OtherLeaves(t)  PROVE count'[i] = Cardinality(TilesOf(i)')
  <2>1. t \in Tile /\ {t} \in SUBSET Tile
    BY DEF MinimapTypes, ServerTypes, Bounds
  <2>2. {u \in {t} : Other \in subs[u]} = {t}
    BY <1>8 DEF OtherLeaves
  <2>3. subs' = [u \in Tile |-> IF u \in {t} THEN subs[u] \ {Other} ELSE subs[u]]
    BY <1>0, <1>8, <2>1 DEF OtherLeaves, KeepOnly
  <2>4. count' = [count EXCEPT ![Other] = @ - Cardinality({u \in {t} : Other \in subs[u]})]
    BY <1>6, <1>8, <2>2 DEF OtherLeaves
  <2>5. QED
    BY <1>3, <1>6, <2>1, <2>3, <2>4
<1>9. ASSUME NEW c \in Link, Subscribe(c)  PROVE count'[i] = Cardinality(TilesOf(i)')
  <2>1. PICK new : Registers(c, new)
    BY <1>9, SubscribeRegisters
  <2>2. ids[c] \in SubId /\ Head(up[c]).tiles \in SUBSET Tile
    BY <1>9, TaskType, RequestKinds DEF Subscribe
  <2>3. new \in SUBSET Tile /\ new \cap TilesOf(ids[c]) = {}
    BY <2>1, <2>2 DEF Registers, Of
  <2>4. /\ subs' = [t \in Tile |-> IF t \in new THEN subs[t] \cup {ids[c]} ELSE subs[t]]
        /\ count' = [count EXCEPT ![ids[c]] = @ + Cardinality(new)]
    BY <2>1 DEF Registers
  <2>5. QED
    BY <1>2, <2>2, <2>3, <2>4
<1>10. ASSUME NEW c \in Link, Unsubscribe(c)  PROVE count'[i] = Cardinality(TilesOf(i)')
  <2> DEFINE gone == Head(up[c]).tiles
  <2>1. ids[c] \in SubId /\ gone \in SUBSET Tile
    BY <1>10, TaskType, RequestKinds DEF Unsubscribe
  <2>2. /\ subs' = [t \in Tile |-> IF t \in gone THEN subs[t] \ {ids[c]} ELSE subs[t]]
        /\ count' = [count EXCEPT ![ids[c]] = @ - Cardinality({t \in gone : ids[c] \in subs[t]})]
    BY <1>10 DEF Unsubscribe, KeepOnly
  <2> HIDE DEF gone
  <2>3. QED
    BY <1>3, <2>1, <2>2
<1>11. ASSUME NEW c \in Link, Join(c)  PROVE count'[i] = Cardinality(TilesOf(i)')
  <2>1. ids[c] \in SubId
    BY <1>11, TaskType DEF Join
  <2>2. Forget(ids[c]) \/ (subs' = subs /\ count' = count)
    BY <1>11 DEF Join
  <2>3. QED
    BY <1>4, <1>5, <2>1, <2>2
<1>12. ASSUME NEW c \in Link, RemovePlayer(c)  PROVE count'[i] = Cardinality(TilesOf(i)')
  <2>1. ids[c] \in SubId
    BY <1>12 DEF RemovePlayer, MinimapTypes, ServerTypes
  <2>2. Forget(ids[c]) \/ (subs' = subs /\ count' = count)
    BY <1>12 DEF RemovePlayer
  <2>3. QED
    BY <1>4, <1>5, <2>1, <2>2
<1>13. ASSUME \/ \E t \in given.scope, D \in SUBSET Cell : Change(t, D)
              \/ Broadcast \/ SendCast
              \/ \E c \in Link : ReadTile(c) \/ SendBatch(c)
       PROVE  count'[i] = Cardinality(TilesOf(i)')
  BY <1>5, <1>13 DEF Change, Broadcast, SendCast, ReadTile, SendBatch
<1>14. ASSUME \/ DrawFrame \/ Receive
              \/ \E v \in SUBSET given.scope : ClearSource(v) \/ \E r \in given.scales : View(v, r)
              \/ Open \/ ResubscribeAll \/ AskToJoin \/ Close
       PROVE  count'[i] = Cardinality(TilesOf(i)')
  BY <1>5, <1>14 DEF DrawFrame, Receive, ClearSource, View, Open, ResubscribeAll, AskToJoin, Close, server
<1>15. CASE UNCHANGED minimapVars
  BY <1>5, <1>15 DEF minimapVars, server
<1>16. CASE MinimapNext
  BY <1>7, <1>8, <1>9, <1>10, <1>11, <1>12, <1>13, <1>14, <1>16 DEF MinimapNext
<1>17. QED
  BY <1>15, <1>16

-----------------------------------------------------------------------------
(* The tiles and their subscribers; the goroutines. *)

LEMMA KeepOnlyTiles ==
    ASSUME ServerTypes, NEW s, KeepOnly(s)
    PROVE  /\ \A t \in Tile : tiles'[t] = IF s[t] = {} THEN NoTile ELSE tiles[t]
           /\ subs' = s /\ restarted \subseteq restarted'
           /\ \A t \in Tile : t \notin restarted' /\ tiles[t].version # 0 => s[t] # {} /\ tiles'[t] = tiles[t]
           /\ \A t \in Tile : t \notin restarted' => tiles'[t].version = tiles[t].version
<1>1. \A t \in Tile : tiles'[t] = IF s[t] = {} THEN NoTile ELSE tiles[t]
  BY DEF KeepOnly, Left
<1>2. subs' = s /\ restarted' = restarted \cup {t \in Tile : s[t] = {} /\ tiles[t].version > 0}
  BY DEF KeepOnly
<1>3. \A t \in Tile : tiles[t].version \in Nat
  BY DEF ServerTypes, TileRecord
<1>4. NoTile.version = 0
  BY DEF NoTile
<1>5. QED
  BY <1>1, <1>2, <1>3, <1>4

LEMMA TileStateStep ==
    ASSUME MinimapTypes, TileState, [MinimapNext]_minimapVars
    PROVE  TileState'
<1>0. ServerTypes /\ \A t \in Tile : (subs[t] = {} => tiles[t] = NoTile) /\ (tiles[t].dirty # {} => t \in queued)
  BY DEF MinimapTypes, TileState
<1>1. NoTile.dirty = {}
  BY DEF NoTile
\* Subscriptions are dropped: what is queued loses only tiles without any.
<1>2. ASSUME NEW s, KeepOnly(s), \A t \in Tile : s[t] # {} /\ t \in queued => t \in queued'
      PROVE  TileState'
  <2>1. /\ \A t \in Tile : tiles'[t] = IF s[t] = {} THEN NoTile ELSE tiles[t]
        /\ subs' = s
    BY <1>0, <1>2, KeepOnlyTiles
  <2>2. QED
    BY <1>0, <1>1, <1>2, <2>1 DEF TileState
<1>3. ASSUME NEW j \in SubId, Forget(j), \A t \in Tile : subs[t] # {j} /\ t \in queued => t \in queued'
      PROVE  TileState'
  <2>1. KeepOnly(Without(j)) /\ \A t \in Tile : Without(j)[t] = subs[t] \ {j}
    BY <1>3 DEF Forget, Without
  <2>2. \A t \in Tile : Without(j)[t] # {} /\ t \in queued => t \in queued'
    BY <1>3, <2>1
  <2>3. QED
    BY <1>2, <2>1, <2>2
<1>4. ASSUME tiles' = tiles, queued' = queued, \A t \in Tile : subs'[t] = {} => subs[t] = {}
      PROVE  TileState'
  BY <1>0, <1>4 DEF TileState
<1>5. ASSUME NEW t \in given.scope, OtherSubscribes(t)  PROVE TileState'
  <2>1. t \in Tile
    BY <1>0 DEF ServerTypes, Bounds
  <2>2. \A u \in Tile : subs'[u] = {} => subs[u] = {}
    BY <1>0, <1>5, <2>1 DEF OtherSubscribes, ServerTypes
  <2>3. QED
    BY <1>4, <1>5, <2>2 DEF OtherSubscribes
<1>6. ASSUME NEW t \in given.scope, OtherLeaves(t)  PROVE TileState'
  <2> DEFINE s == [subs EXCEPT ![t] = @ \ {Other}]
  <2>1. t \in Tile /\ KeepOnly(s) /\ queued' = IF subs[t] = {Other} THEN queued \ {t} ELSE queued
    BY <1>0, <1>6 DEF OtherLeaves, ServerTypes, Bounds
  <2>2. \A u \in Tile : s[u] # {} /\ u \in queued => u \in queued'
    BY <1>0, <2>1 DEF ServerTypes
  <2> HIDE DEF s
  <2>3. QED
    BY <1>2, <2>1, <2>2
<1>7. ASSUME NEW t \in given.scope, NEW D \in SUBSET Cell, Change(t, D)  PROVE TileState'
  <2>1. /\ t \in Tile /\ \A u \in Tile : u # t => tiles'[u] = tiles[u]
        /\ subs[t] = {} => tiles' = tiles /\ queued' = queued
        /\ subs[t] # {} => queued' = queued \cup {t}
    BY <1>7, ChangeEffect
  <2>2. subs' = subs
    BY <1>7 DEF Change
  <2>3. QED
    BY <1>0, <2>1, <2>2 DEF TileState
<1>8. ASSUME Broadcast  PROVE TileState'
  <2>1. /\ \A t \in Live : tiles'[t].dirty = {}
        /\ \A t \in Tile \ Live : tiles'[t] = IF t \in queued /\ subs[t] = {} THEN NoTile ELSE tiles[t]
    BY <1>8, BroadcastEffect
  <2>2. subs' = subs /\ queued' = {}
    BY <1>8 DEF Broadcast
  <2>3. ASSUME NEW t \in Tile  PROVE (subs'[t] = {} => tiles'[t] = NoTile) /\ tiles'[t].dirty = {}
    <3>1. CASE t \in Live
      BY <2>1, <2>2, <3>1 DEF Live
    <3>2. CASE t \notin Live
      BY <1>0, <1>1, <2>1, <2>2, <3>2 DEF Live
    <3>3. QED
      BY <3>1, <3>2
  <2>4. QED
    BY <2>3 DEF TileState
<1>9. ASSUME NEW c \in Link, Subscribe(c)  PROVE TileState'
  <2>1. PICK new : Registers(c, new)
    BY <1>9, SubscribeRegisters
  <2>2. \A t \in Tile : subs'[t] = {} => subs[t] = {}
    BY <2>1 DEF Registers
  <2>3. QED
    BY <1>4, <1>9, <2>2 DEF Subscribe
<1>10. ASSUME NEW c \in Link, Unsubscribe(c)  PROVE TileState'
  <2> DEFINE gone == Head(up[c]).tiles
             s == [t \in Tile |-> IF t \in gone THEN subs[t] \ {ids[c]} ELSE subs[t]]
  <2>1. KeepOnly(s) /\ queued' = queued \ {t \in gone : subs[t] \subseteq {ids[c]}}
    BY <1>10 DEF Unsubscribe
  <2>2. \A t \in Tile : s[t] # {} /\ t \in queued => t \in queued'
    BY <2>1
  <2> HIDE DEF s
  <2>3. QED
    BY <1>2, <2>1, <2>2
<1>11. ASSUME NEW c \in Link, Join(c)  PROVE TileState'
  <2>1. ids[c] \in SubId /\ queued' = queued
    BY <1>11, TaskType DEF Join
  <2>2. Forget(ids[c]) \/ (subs' = subs /\ tiles' = tiles)
    BY <1>11 DEF Join
  <2>3. QED
    BY <1>3, <1>4, <2>1, <2>2
<1>12. ASSUME NEW c \in Link, RemovePlayer(c)  PROVE TileState'
  <2>1. ids[c] \in SubId
    BY <1>0, <1>12 DEF RemovePlayer, ServerTypes
  <2>2. CASE \E d \in Link \ {c} : ids[d] = ids[c]
    <3>1. subs' = subs /\ tiles' = tiles /\ queued' = queued
      BY <1>12, <2>2 DEF RemovePlayer
    <3>2. QED
      BY <1>4, <3>1
  <2>3. CASE ~ (\E d \in Link \ {c} : ids[d] = ids[c])
    <3>1. Forget(ids[c]) /\ queued' = queued \ {t \in Tile : subs[t] = {ids[c]}}
      BY <1>12, <2>3 DEF RemovePlayer
    <3>2. \A t \in Tile : subs[t] # {ids[c]} /\ t \in queued => t \in queued'
      BY <3>1
    <3>3. QED
      BY <1>3, <2>1, <3>1, <3>2
  <2>4. QED
    BY <2>2, <2>3
<1>13. ASSUME SendCast \/ \E c \in Link : ReadTile(c) \/ SendBatch(c)  PROVE TileState'
  BY <1>4, <1>13 DEF SendCast, ReadTile, SendBatch
<1>14. ASSUME \/ DrawFrame \/ Receive
              \/ \E v \in SUBSET given.scope : ClearSource(v) \/ \E r \in given.scales : View(v, r)
              \/ Open \/ ResubscribeAll \/ AskToJoin \/ Close
       PROVE  TileState'
  BY <1>4, <1>14 DEF DrawFrame, Receive, ClearSource, View, Open, ResubscribeAll, AskToJoin, Close, server
<1>15. CASE UNCHANGED minimapVars
  BY <1>4, <1>15 DEF minimapVars, server
<1>16. CASE MinimapNext
  BY <1>5, <1>6, <1>7, <1>8, <1>9, <1>10, <1>11, <1>12, <1>13, <1>14, <1>16 DEF MinimapNext
<1>17. QED
  BY <1>15, <1>16

LEMMA GoroutinesStep ==
    ASSUME MinimapTypes, Goroutines, [MinimapNext]_minimapVars
    PROVE  Goroutines'
<1>0. ServerTypes /\ ClientTypes
  BY DEF MinimapTypes
<1>1. /\ \A c \in Link : ids[c] \in {NoId, c, Player} /\ (c > conn => ids[c] = NoId)
      /\ \A c \in Link : IF pump[c].busy THEN ids[c] # NoId /\ pump[c].to = ids[c] ELSE pump[c] = Idle
      /\ connected => ids[conn] # NoId
  BY DEF Goroutines
<1>2. /\ Link \subseteq Nat /\ NoId \notin Link /\ Player # NoId
      /\ ids \in [Link -> SubId \cup {NoId}] /\ pump \in [Link -> Goroutine] /\ conn \in Nat
      /\ connected => conn \in Link
  BY <1>0, MinimapAssumption DEF ServerTypes, ClientTypes, SubId
<1>3. ASSUME ids' = ids, pump' = pump, conn' = conn, connected' = connected \/ connected' = FALSE
      PROVE  Goroutines'
  BY <1>1, <1>3 DEF Goroutines
<1>4. ASSUME NEW c \in Link, Subscribe(c)  PROVE Goroutines'
  <2>1. PICK new : Registers(c, new)
    BY <1>4, SubscribeRegisters
  <2>2. ids[c] # NoId
    BY <1>4, TaskType DEF Subscribe
  <2>3. pump'[c].busy = TRUE /\ pump'[c].to = ids[c] /\ \A d \in Link : d # c => pump'[d] = pump[d]
    BY <1>2, <2>1 DEF Registers
  <2>4. ids' = ids /\ conn' = conn /\ connected' = connected
    BY <1>4 DEF Subscribe, client
  <2>5. \A d \in Link : IF pump'[d].busy THEN ids'[d] # NoId /\ pump'[d].to = ids'[d] ELSE pump'[d] = Idle
    BY <1>1, <2>2, <2>3, <2>4
  <2>6. QED
    BY <1>1, <2>4, <2>5 DEF Goroutines
<1>5. ASSUME NEW c \in Link, ReadTile(c)  PROVE Goroutines'
  <2>1. /\ \A d \in Link : d # c => pump'[d] = pump[d]
        /\ pump'[c].busy = pump[c].busy /\ pump'[c].to = pump[c].to /\ pump[c].todo # {}
    BY <1>5, ReadTileEffect
  <2>2. pump[c].busy
    BY <1>1, <2>1 DEF Idle
  <2>3. ids' = ids /\ conn' = conn /\ connected' = connected
    BY <1>5 DEF ReadTile, client
  <2>4. \A d \in Link : IF pump'[d].busy THEN ids'[d] # NoId /\ pump'[d].to = ids'[d] ELSE pump'[d] = Idle
    BY <1>1, <2>1, <2>2, <2>3
  <2>5. QED
    BY <1>1, <2>3, <2>4 DEF Goroutines
<1>6. ASSUME NEW c \in Link, SendBatch(c)  PROVE Goroutines'
  <2>1. pump'[c] = Idle /\ \A d \in Link : d # c => pump'[d] = pump[d]
    BY <1>2, <1>6 DEF SendBatch
  <2>2. ids' = ids /\ conn' = conn /\ connected' = connected
    BY <1>6 DEF SendBatch, client
  <2>3. ~ Idle.busy
    BY DEF Idle
  <2>4. \A d \in Link : IF pump'[d].busy THEN ids'[d] # NoId /\ pump'[d].to = ids'[d] ELSE pump'[d] = Idle
    BY <1>1, <2>1, <2>2, <2>3
  <2>5. QED
    BY <1>1, <2>2, <2>4 DEF Goroutines
<1>7. ASSUME NEW c \in Link, Join(c)  PROVE Goroutines'
  <2>1. ids[c] # NoId /\ ~ pump[c].busy /\ pump' = pump /\ conn' = conn /\ connected' = connected
    BY <1>7, TaskType DEF Join, client
  <2>2. ids' = ids \/ ids' = [ids EXCEPT ![c] = Player]
    BY <1>7 DEF Join
  <2>3. \A d \in Link : (d # c => ids'[d] = ids[d]) /\ ids'[c] \in {ids[c], Player}
    BY <1>2, <2>2
  <2>4. QED
    BY <1>1, <1>2, <2>1, <2>3 DEF Goroutines
<1>8. ASSUME NEW c \in Link, RemovePlayer(c)  PROVE Goroutines'
  <2>1. /\ ~ pump[c].busy /\ pump' = pump /\ conn' = conn /\ connected' = connected /\ ~ (connected /\ c = conn)
        /\ ids' = [ids EXCEPT ![c] = NoId]
    BY <1>8 DEF RemovePlayer, client
  <2>2. ids'[c] = NoId /\ \A d \in Link : d # c => ids'[d] = ids[d]
    BY <1>2, <2>1
  <2>3. QED
    BY <1>1, <1>2, <2>1, <2>2 DEF Goroutines
<1>9. ASSUME Open  PROVE Goroutines'
  <2>1. /\ conn + 1 \in Link /\ connected' = TRUE /\ conn' = conn + 1 /\ pump' = pump
        /\ ids' = [ids EXCEPT ![conn + 1] = conn + 1]
    BY <1>9 DEF Open
  <2>2. ids'[conn + 1] = conn + 1 /\ ids[conn + 1] = NoId /\ \A d \in Link : d # conn + 1 => ids'[d] = ids[d]
    BY <1>1, <1>2, <2>1
  <2>3. \A c \in Link : ids'[c] \in {NoId, c, Player} /\ (c > conn' => ids'[c] = NoId)
    BY <1>1, <1>2, <2>1, <2>2
  <2>4. \A c \in Link : IF pump'[c].busy THEN ids'[c] # NoId /\ pump'[c].to = ids'[c] ELSE pump'[c] = Idle
    BY <1>1, <2>1, <2>2
  <2>5. ids'[conn'] # NoId
    BY <1>2, <2>1, <2>2
  <2>6. QED
    BY <2>3, <2>4, <2>5 DEF Goroutines
<1>10. ASSUME \/ \E t \in given.scope : \/ OtherSubscribes(t) \/ OtherLeaves(t)
                                       \/ \E D \in SUBSET Cell : Change(t, D)
              \/ Broadcast \/ SendCast \/ \E c \in Link : Unsubscribe(c)
       PROVE  Goroutines'
  BY <1>3, <1>10 DEF OtherSubscribes, OtherLeaves, Change, Broadcast, SendCast, Unsubscribe, client
<1>11. ASSUME \/ DrawFrame \/ Receive
              \/ \E v \in SUBSET given.scope : ClearSource(v) \/ \E r \in given.scales : View(v, r)
              \/ ResubscribeAll \/ AskToJoin \/ Close
       PROVE  Goroutines'
  BY <1>3, <1>11 DEF DrawFrame, Receive, ClearSource, View, ResubscribeAll, AskToJoin, Close, server, client
<1>12. CASE UNCHANGED minimapVars
  BY <1>3, <1>12 DEF minimapVars, server, client
<1>13. CASE MinimapNext
  BY <1>4, <1>5, <1>6, <1>7, <1>8, <1>9, <1>10, <1>11, <1>13 DEF MinimapNext
<1>14. QED
  BY <1>12, <1>13

-----------------------------------------------------------------------------
(* What is under way is honest. *)

\* Boards grow and so do versions, unless they start over.
LEMMA Growth ==
    ASSUME MinimapTypes, TileState, MinimapNext
    PROVE  /\ restarted \subseteq restarted'
           /\ \A t \in Tile : /\ board[t] \subseteq board'[t]
                              /\ t \notin restarted' => tiles[t].version <= tiles'[t].version
<1>0. ServerTypes /\ \A t \in Tile : tiles[t].version \in Nat
  BY DEF MinimapTypes, ServerTypes, TileRecord
<1> DEFINE Goal == /\ restarted \subseteq restarted'
                   /\ \A t \in Tile : /\ board[t] \subseteq board'[t]
                                      /\ t \notin restarted' => tiles[t].version <= tiles'[t].version
<1>1. ASSUME NEW s, KeepOnly(s), board' = board  PROVE Goal
  BY <1>0, <1>1, KeepOnlyTiles
<1>2. ASSUME board' = board, tiles' = tiles, restarted' = restarted  PROVE Goal
  BY <1>0, <1>2
<1>3. ASSUME NEW t \in given.scope, NEW D \in SUBSET Cell, Change(t, D)  PROVE Goal
  <2>1. /\ t \in Tile /\ board' = [board EXCEPT ![t] = board[t] \cup D]
        /\ \A u \in Tile : u # t => tiles'[u] = tiles[u]
        /\ subs[t] = {} => tiles' = tiles
        /\ subs[t] # {} => tiles'[t].version = tiles[t].version
    BY <1>3, ChangeEffect
  <2>2. restarted' = restarted
    BY <1>3 DEF Change, notes
  <2>3. \A u \in Tile : tiles'[u].version = tiles[u].version /\ board[u] \subseteq board'[u]
    BY <1>0, <2>1 DEF ServerTypes
  <2>4. QED
    BY <1>0, <2>2, <2>3
<1>4. ASSUME Broadcast  PROVE Goal
  <2>1. /\ \A t \in Live : t \in Tile /\ tiles'[t].version = tiles[t].version + 1
        /\ \A t \in Tile \ Live : tiles'[t] = IF t \in queued /\ subs[t] = {} THEN NoTile ELSE tiles[t]
    BY <1>4, BroadcastEffect
  <2>2. board' = board /\ restarted' = restarted
    BY <1>4 DEF Broadcast, notes
  <2>3. \A t \in Tile : tiles[t].version <= tiles'[t].version
    BY <1>0, <2>1 DEF TileState
  <2>4. QED
    BY <2>2, <2>3
<1>5. ASSUME NEW t \in given.scope, OtherSubscribes(t) \/ OtherLeaves(t)  PROVE Goal
  BY <1>1, <1>2, <1>5 DEF OtherSubscribes, OtherLeaves, notes
<1>6. ASSUME NEW c \in Link, Unsubscribe(c)  PROVE Goal
  <2> DEFINE s == [t \in Tile |-> IF t \in Head(up[c]).tiles THEN subs[t] \ {ids[c]} ELSE subs[t]]
  <2>1. KeepOnly(s) /\ board' = board
    BY <1>6 DEF Unsubscribe
  <2> HIDE DEF s
  <2>2. QED
    BY <1>1, <2>1
<1>7. ASSUME NEW c \in Link, Join(c) \/ RemovePlayer(c)  PROVE Goal
  BY <1>1, <1>2, <1>7 DEF Join, RemovePlayer, Forget
<1>8. ASSUME SendCast \/ \E c \in Link : Subscribe(c) \/ ReadTile(c) \/ SendBatch(c)  PROVE Goal
  BY <1>2, <1>8 DEF SendCast, Subscribe, ReadTile, SendBatch, notes
<1>9. ASSUME \/ DrawFrame \/ Receive
             \/ \E v \in SUBSET given.scope : ClearSource(v) \/ \E r \in given.scales : View(v, r)
             \/ Open \/ ResubscribeAll \/ AskToJoin \/ Close
      PROVE  Goal
  BY <1>2, <1>9 DEF DrawFrame, Receive, ClearSource, View, Open, ResubscribeAll, AskToJoin, Close, server, notes
<1> HIDE DEF Goal
<1>10. Goal
  BY <1>3, <1>4, <1>5, <1>6, <1>7, <1>8, <1>9 DEF MinimapNext
<1>11. QED
  BY <1>10 DEF Goal

LEMMA HonestStays ==
    ASSUME MinimapTypes, TileState, MinimapNext, NEW f, f.tile \in Tile, f.version \in Nat, Honest(f)
    PROVE  Honest(f)'
<1>1. /\ restarted \subseteq restarted' /\ board[f.tile] \subseteq board'[f.tile]
      /\ f.tile \notin restarted' => tiles[f.tile].version <= tiles'[f.tile].version
  BY Growth
<1>2. tiles[f.tile].version \in Nat /\ (f.tile \notin restarted' => tiles'[f.tile].version \in Nat)
  <2>1. MinimapTypes'
    BY MinimapTypesStep
  <2>2. QED
    BY <2>1 DEF MinimapTypes, ServerTypes, TileRecord
<1>3. QED
  BY <1>1, <1>2 DEF Honest

\* A tile as it is now.
LEMMA HonestNow ==
    ASSUME MinimapTypes, NEW f, NEW t \in Tile, f.tile = t, f.version = tiles[t].version, f.cells \subseteq board[t]
    PROVE  Honest(f)
<1>1. tiles[t].version \in Nat
  BY DEF MinimapTypes, ServerTypes, TileRecord
<1>2. QED
  BY <1>1 DEF Honest

LEMMA BatchesHonestStep ==
    ASSUME MinimapTypes, TileState, BatchesHonest, MinimapNext
    PROVE  BatchesHonest'
<1>0. \A c \in Link : pump[c] \in Goroutine
  BY DEF MinimapTypes, ServerTypes
<1>1. \A c \in Link : \A f \in pump[c].batch : f \in AllPictures /\ f.tile \in Tile /\ f.version \in Nat
  BY <1>0, PictureFields DEF Goroutine, AllPictures
<1>2. ASSUME NEW c \in Link
      PROVE  /\ \A f \in pump[c].batch : Honest(f)' /\ f.tile \notin pump[c].todo
             /\ OnePerTile(pump[c].batch)
  BY <1>1, HonestStays DEF BatchesHonest
<1>3. Idle.batch = {} /\ OnePerTile({})
  BY DEF Idle, OnePerTile
<1>4. CASE pump' = pump
  BY <1>2, <1>4 DEF BatchesHonest, OnePerTile
<1>5. ASSUME NEW c \in Link, pump'[c].batch = {}, \A d \in Link : d # c => pump'[d] = pump[d]
      PROVE  BatchesHonest'
  BY <1>2, <1>3, <1>5 DEF BatchesHonest, OnePerTile
<1>6. ASSUME NEW c \in Link, Subscribe(c)  PROVE BatchesHonest'
  <2>1. PICK new : Registers(c, new)
    BY <1>6, SubscribeRegisters
  <2>2. pump'[c].batch = {} /\ \A d \in Link : d # c => pump'[d] = pump[d]
    BY <2>1 DEF Registers, MinimapTypes, ServerTypes
  <2>3. QED
    BY <1>5, <2>2
<1>7. ASSUME NEW c \in Link, SendBatch(c)  PROVE BatchesHonest'
  <2>1. pump'[c].batch = {} /\ \A d \in Link : d # c => pump'[d] = pump[d]
    BY <1>3, <1>7 DEF SendBatch, MinimapTypes, ServerTypes
  <2>2. QED
    BY <1>5, <2>1
<1>8. ASSUME NEW c \in Link, ReadTile(c)  PROVE BatchesHonest'
  <2>1. PICK t \in pump[c].todo :
           LET f == [tile |-> t, version |-> tiles[t].version, res |-> pump[c].res, cells |-> board[t]]
           IN  /\ t \in Tile
               /\ \A d \in Link : d # c => pump'[d] = pump[d]
               /\ pump'[c].todo = pump[c].todo \ {t}
               /\ pump'[c].batch = IF board[t] = {} THEN pump[c].batch ELSE pump[c].batch \cup {f}
    BY <1>8, ReadTileEffect
  <2>a. PICK f : f = [tile |-> t, version |-> tiles[t].version, res |-> pump[c].res, cells |-> board[t]]
    OBVIOUS
  <2>2. /\ f.tile = t /\ f.version = tiles[t].version /\ f.cells = board[t]
        /\ pump'[c].batch = pump[c].batch \/ pump'[c].batch = pump[c].batch \cup {f}
    BY <2>1, <2>a
  <2>3. f.version \in Nat /\ pump'[c].todo = pump[c].todo \ {t}
    BY <2>1, <2>2 DEF MinimapTypes, ServerTypes, TileRecord
  <2>4. Honest(f)'
    <3>1. Honest(f)
      BY <2>1, <2>2, HonestNow
    <3>2. QED
      BY <2>1, <2>2, <2>3, <3>1, HonestStays
  <2>5. \A g \in pump[c].batch : g.tile # t
    BY <1>2
  <2>6. \A g \in pump'[c].batch : Honest(g)' /\ g.tile \notin pump'[c].todo
    BY <1>2, <2>2, <2>3, <2>4
  <2>7. OnePerTile(pump'[c].batch)
    BY <1>2, <2>2, <2>3, <2>5 DEF OnePerTile
  <2>8. QED
    BY <1>2, <2>1, <2>6, <2>7 DEF BatchesHonest, OnePerTile
<1>9. ASSUME \/ \E t \in given.scope : \/ OtherSubscribes(t) \/ OtherLeaves(t)
                                      \/ \E D \in SUBSET Cell : Change(t, D)
             \/ Broadcast \/ SendCast \/ \E c \in Link : Unsubscribe(c) \/ Join(c) \/ RemovePlayer(c)
      PROVE  BatchesHonest'
  BY <1>4, <1>9 DEF OtherSubscribes, OtherLeaves, Change, Broadcast, SendCast, Unsubscribe, Join, RemovePlayer
<1>10. ASSUME \/ DrawFrame \/ Receive
              \/ \E v \in SUBSET given.scope : ClearSource(v) \/ \E r \in given.scales : View(v, r)
              \/ Open \/ ResubscribeAll \/ AskToJoin \/ Close
       PROVE  BatchesHonest'
  BY <1>4, <1>10 DEF DrawFrame, Receive, ClearSource, View, Open, ResubscribeAll, AskToJoin, Close, server
<1>11. QED
  BY <1>6, <1>7, <1>8, <1>9, <1>10 DEF MinimapNext

LEMMA CastsHonestStep ==
    ASSUME MinimapTypes, TileState, CastsHonest, MinimapNext
    PROVE  CastsHonest'
<1>0. \A x \in casts : x.msg \in FullMessage \cup DeltaMessage
  BY DEF MinimapTypes, ServerTypes
<1>1. \A m \in FullMessage \cup DeltaMessage : m.tile \in Tile /\ m.version \in Nat
  BY DEF FullMessage, DeltaMessage
<1>2. \A x \in casts : Honest(x.msg)' /\ x.msg.version # 0
  BY <1>0, <1>1, HonestStays DEF CastsHonest
<1>3. CASE casts' \subseteq casts
  BY <1>2, <1>3 DEF CastsHonest
<1>4. ASSUME Broadcast  PROVE CastsHonest'
  <2>1. ASSUME NEW y \in casts'
        PROVE  Honest(y.msg)' /\ y.msg.version # 0
    <3>1. PICK t \in Live : \E i \in subs[t] \ {Other} :
             y = [to |-> i, msg |-> Message(t, tiles[t].version + 1, res[i])]
      BY <1>4, BroadcastEffect
    <3>2. PICK i \in subs[t] \ {Other} : y = [to |-> i, msg |-> Message(t, tiles[t].version + 1, res[i])]
      BY <3>1
    <3>3. t \in Tile /\ tiles'[t].version = tiles[t].version + 1 /\ board' = board
      BY <1>4, BroadcastEffect DEF Broadcast
    <3>4. /\ y.msg.tile = t /\ y.msg.version = tiles[t].version + 1 /\ y.msg.cells \subseteq board[t]
      BY <3>2 DEF Message
    <3>5. tiles[t].version \in Nat
      BY <3>3 DEF MinimapTypes, ServerTypes, TileRecord
    <3>6. QED
      BY <3>3, <3>4, <3>5 DEF Honest
  <2>2. QED
    BY <2>1 DEF CastsHonest
<1>5. ASSUME SendCast  PROVE CastsHonest'
  BY <1>3, <1>5 DEF SendCast
<1>6. ASSUME \/ \E t \in given.scope : \/ OtherSubscribes(t) \/ OtherLeaves(t)
                                      \/ \E D \in SUBSET Cell : Change(t, D)
             \/ \E c \in Link : \/ Subscribe(c) \/ ReadTile(c) \/ SendBatch(c)
                                \/ Unsubscribe(c) \/ Join(c) \/ RemovePlayer(c)
      PROVE  CastsHonest'
  <2>1. casts' = casts
    BY <1>6 DEF OtherSubscribes, OtherLeaves, Change, Subscribe, ReadTile, SendBatch, Unsubscribe, Join, RemovePlayer
  <2>2. QED
    BY <1>3, <2>1
<1>7. ASSUME \/ DrawFrame \/ Receive
             \/ \E v \in SUBSET given.scope : ClearSource(v) \/ \E r \in given.scales : View(v, r)
             \/ Open \/ ResubscribeAll \/ AskToJoin \/ Close
      PROVE  CastsHonest'
  BY <1>3, <1>7 DEF DrawFrame, Receive, ClearSource, View, Open, ResubscribeAll, AskToJoin, Close, server
<1>8. QED
  BY <1>4, <1>5, <1>6, <1>7 DEF MinimapNext


\* A message that is on the way.
HonestMessage(m) ==
    /\ \A f \in Fulls(m) : Honest(f)
    /\ OnePerTile(Fulls(m))
    /\ m.is = "delta" => Honest(m) /\ m.version # 0

LEMMA HonestMessageStays ==
    ASSUME MinimapTypes, TileState, MinimapNext, NEW m \in ToClient, HonestMessage(m)
    PROVE  HonestMessage(m)'
<1>1. \A f \in Fulls(m) : Honest(f)'
  BY MessageKinds, PictureFields, HonestStays DEF HonestMessage
<1>2. m.is = "delta" => Honest(m)'
  BY MessageKinds, DeltaFields, HonestStays DEF HonestMessage
<1>3. QED
  BY <1>1, <1>2 DEF HonestMessage

LEMMA CastIsHonest ==
    ASSUME MinimapTypes, CastsHonest, NEW y \in casts
    PROVE  y.to \in SubId /\ y.msg \in ToClient /\ HonestMessage(y.msg)
<1>1. y.to \in SubId /\ y.msg \in FullMessage \cup DeltaMessage
  BY DEF MinimapTypes, ServerTypes
<1>2. y.msg \in ToClient
  BY <1>1 DEF ToClient
<1>3. Honest(y.msg) /\ y.msg.version # 0 /\ (Fulls(y.msg) = {y.msg} \/ Fulls(y.msg) = {})
  BY <1>1, <1>2, MessageKinds DEF CastsHonest, FullMessage, DeltaMessage
<1>4. QED
  BY <1>1, <1>2, <1>3 DEF HonestMessage, OnePerTile

LEMMA BatchIsHonest ==
    ASSUME MinimapTypes, BatchesHonest, NEW c \in Link, NEW m, m = [is |-> "batch", tiles |-> pump[c].batch]
    PROVE  m \in BatchMessage /\ m \in ToClient /\ m.tiles = pump[c].batch /\ Fulls(m) = m.tiles /\ HonestMessage(m)
<1>1. pump[c].batch \in SUBSET TilePicture
  BY DEF MinimapTypes, ServerTypes, Goroutine
<1>2. m \in BatchMessage /\ m \in ToClient /\ m.tiles = pump[c].batch /\ m.is = "batch"
  BY <1>1, BatchType DEF ToClient
<1>3. Fulls(m) = pump[c].batch
  BY <1>2, MessageKinds
<1>4. (\A f \in pump[c].batch : Honest(f)) /\ OnePerTile(pump[c].batch)
  BY DEF BatchesHonest
<1>5. QED
  BY <1>2, <1>3, <1>4 DEF HonestMessage

\* The queue to the client grows by m, or not at all.
LEMMA ToPlayerAppends ==
    ASSUME NEW i, NEW m, ToPlayer(i, m)
    PROVE  IF connected /\ ids[conn] = i THEN down' = Append(down, m) ELSE down' = down
BY DEF ToPlayer

LEMMA DownHonestStep ==
    ASSUME MinimapTypes, TileState, BatchesHonest, CastsHonest, DownHonest, MinimapNext
    PROVE  DownHonest'
<1>0. down \in Seq(ToClient)
  BY DEF MinimapTypes, ClientTypes
<1>1. \A k \in DOMAIN down : down[k] \in ToClient /\ HonestMessage(down[k])
  BY <1>0 DEF DownHonest, HonestMessage
<1>2. \A m \in ToClient : HonestMessage(m) => HonestMessage(m)'
  BY HonestMessageStays
<1> DEFINE From(m) == m \in ToClient /\ HonestMessage(m)
<1>3. ASSUME \A k \in DOMAIN down' : \E m : down'[k] = m /\ From(m)
      PROVE  DownHonest'
  <2>1. ASSUME NEW k \in DOMAIN down'
        PROVE  /\ \A f \in Fulls(down'[k]) : Honest(f)'
               /\ OnePerTile(Fulls(down'[k]))
               /\ down'[k].is = "delta" => Honest(down[k])' /\ down'[k].version # 0
    <3>1. PICK m : down'[k] = m /\ From(m)
      BY <1>3
    <3>2. HonestMessage(m)'
      BY <1>2, <3>1
    <3>3. QED
      BY <3>1, <3>2 DEF HonestMessage
  <2>2. QED
    BY <2>1 DEF DownHonest
<1>4. \A k \in DOMAIN down : \E m : down[k] = m /\ From(m)
  BY <1>1
<1>5. CASE down' = down
  BY <1>3, <1>4, <1>5
<1>6. ASSUME NEW i, NEW m \in ToClient, From(m), ToPlayer(i, m)  PROVE DownHonest'
  <2>1. CASE down' = Append(down, m)
    <3>1. /\ DOMAIN down' = 1 .. Len(down) + 1 /\ down'[Len(down) + 1] = m
          /\ \A k \in DOMAIN down : down'[k] = down[k]
      BY <1>0, <2>1, DownAppend
    <3>2. DOMAIN down = 1 .. Len(down)
      BY <1>0
    <3>3. \A k \in DOMAIN down' : k \in DOMAIN down \/ k = Len(down) + 1
      BY <1>0, <3>1, <3>2
    <3>4. QED
      BY <1>3, <1>4, <1>6, <3>1, <3>3
  <2>2. QED
    BY <1>5, <1>6, <2>1, ToPlayerAppends
<1>7. ASSUME SendCast  PROVE DownHonest'
  <2>1. PICK y \in casts : ToPlayer(y.to, y.msg)
    BY <1>7 DEF SendCast
  <2>2. From(y.msg)
    BY CastIsHonest
  <2>3. PICK m : m = y.msg
    OBVIOUS
  <2> HIDE DEF From
  <2>4. m \in ToClient /\ From(m) /\ ToPlayer(y.to, m)
    BY <2>1, <2>2, <2>3, CastIsHonest
  <2>5. QED
    BY <1>6, <2>4
<1>8. ASSUME NEW c \in Link, SendBatch(c)  PROVE DownHonest'
  <2>1. PICK m : m = [is |-> "batch", tiles |-> pump[c].batch]
    OBVIOUS
  <2>2. down' = down \/ ToPlayer(pump[c].to, m)
    BY <1>8, <2>1 DEF SendBatch
  <2>3. m \in ToClient /\ From(m)
    BY <2>1, BatchIsHonest
  <2>4. QED
    BY <1>5, <1>6, <2>2, <2>3
<1>9. ASSUME Receive  PROVE DownHonest'
  <2>1. down # <<>> /\ down' = Tail(down)
    BY <1>9 DEF Receive
  <2>2. \A k \in DOMAIN down' : k + 1 \in DOMAIN down /\ down'[k] = down[k + 1]
    BY <1>0, <2>1
  <2>3. QED
    BY <1>3, <1>4, <2>2
<1>10. ASSUME Close  PROVE DownHonest'
  <2>1. down' = <<>>
    BY <1>10 DEF Close
  <2>2. DOMAIN down' = {}
    BY <2>1
  <2>3. QED
    BY <1>3, <2>2
<1>11. ASSUME \/ \E t \in given.scope : \/ OtherSubscribes(t) \/ OtherLeaves(t)
                                        \/ \E D \in SUBSET Cell : Change(t, D)
              \/ Broadcast \/ \E c \in Link : \/ Subscribe(c) \/ ReadTile(c)
                                              \/ Unsubscribe(c) \/ Join(c) \/ RemovePlayer(c)
       PROVE  DownHonest'
  <2>1. down' = down
    BY <1>11 DEF OtherSubscribes, OtherLeaves, Change, Broadcast, Subscribe, ReadTile, Unsubscribe, Join, RemovePlayer
  <2>2. QED
    BY <1>5, <2>1
<1>12. ASSUME \/ DrawFrame
              \/ \E v \in SUBSET given.scope : ClearSource(v) \/ \E r \in given.scales : View(v, r)
              \/ Open \/ ResubscribeAll \/ AskToJoin
       PROVE  DownHonest'
  <2>1. down' = down
    BY <1>12 DEF DrawFrame, ClearSource, View, Open, ResubscribeAll, AskToJoin
  <2>2. QED
    BY <1>5, <2>1
<1>13. QED
  BY <1>7, <1>8, <1>9, <1>10, <1>11, <1>12 DEF MinimapNext

LEMMA FramesHonestStep ==
    ASSUME MinimapTypes, TileState, DownHonest, FramesHonest, MinimapNext
    PROVE  FramesHonest'
<1>0. frames \in Seq(SUBSET AllPictures) /\ down \in Seq(ToClient)
  BY DEF MinimapTypes, ClientTypes, AllPictures
<1> DEFINE From(F) == F \in SUBSET AllPictures /\ (\A f \in F : Honest(f)) /\ OnePerTile(F)
<1>1. \A F : From(F) => \A f \in F : Honest(f)'
  BY PictureFields, HonestStays
<1>2. \A j \in DOMAIN frames : \E F : frames[j] = F /\ From(F)
  BY <1>0 DEF FramesHonest
<1>3. ASSUME \A j \in DOMAIN frames' : \E F : frames'[j] = F /\ From(F)
      PROVE  FramesHonest'
  BY <1>1, <1>3 DEF FramesHonest
<1>4. CASE frames' = frames
  BY <1>2, <1>3, <1>4
<1>5. CASE frames # <<>> /\ frames' = Tail(frames)
  <2>1. \A j \in DOMAIN frames' : j + 1 \in DOMAIN frames /\ frames'[j] = frames[j + 1]
    BY <1>0, <1>5
  <2>2. QED
    BY <1>2, <1>3, <2>1
<1>6. ASSUME Receive  PROVE FramesHonest'
  <2>1. /\ down # <<>> /\ Fulls(Head(down)) \in SUBSET AllPictures
        /\ frames' = frames \/ frames' = Append(frames, Fulls(Head(down)))
    BY <1>6, ReceiveEffect
  <2>2. 1 \in DOMAIN down /\ down[1] = Head(down)
    BY <1>0, <2>1
  <2>3. PICK F : F = Fulls(Head(down))
    OBVIOUS
  <2>4. From(F)
    BY <2>1, <2>2, <2>3 DEF DownHonest
  <2>5. CASE frames' = Append(frames, F)
    <3>1. /\ DOMAIN frames' = 1 .. Len(frames) + 1 /\ frames'[Len(frames) + 1] = F
          /\ \A j \in DOMAIN frames : frames'[j] = frames[j]
      BY <1>0, <2>4, <2>5, FramesAppend
    <3>2. \A j \in DOMAIN frames' : j \in DOMAIN frames \/ j = Len(frames) + 1
      BY <1>0, <3>1
    <3> HIDE DEF From
    <3>3. QED
      BY <1>2, <1>3, <2>4, <3>1, <3>2
  <2>6. QED
    BY <1>4, <2>1, <2>3, <2>5
<1>7. ASSUME Open  PROVE FramesHonest'
  <2>1. DOMAIN frames' = {}
    BY <1>7 DEF Open
  <2>2. QED
    BY <1>3, <2>1
<1>8. ASSUME DrawFrame  PROVE FramesHonest'
  BY <1>5, <1>8 DEF DrawFrame
<1>9. ASSUME \/ \E t \in given.scope : \/ OtherSubscribes(t) \/ OtherLeaves(t)
                                       \/ \E D \in SUBSET Cell : Change(t, D)
             \/ Broadcast \/ SendCast
             \/ \E c \in Link : \/ Subscribe(c) \/ ReadTile(c) \/ SendBatch(c)
                                \/ Unsubscribe(c) \/ Join(c) \/ RemovePlayer(c)
      PROVE  FramesHonest'
  <2>1. frames' = frames
    BY <1>9 DEF OtherSubscribes, OtherLeaves, Change, Broadcast, SendCast, Subscribe, ReadTile, SendBatch,
                Unsubscribe, Join, RemovePlayer, client
  <2>2. QED
    BY <1>4, <2>1
<1>10. ASSUME \/ \E v \in SUBSET given.scope : ClearSource(v) \/ \E r \in given.scales : View(v, r)
              \/ ResubscribeAll \/ AskToJoin \/ Close
       PROVE  FramesHonest'
  <2>1. frames' = frames
    BY <1>10 DEF ClearSource, View, ResubscribeAll, AskToJoin, Close, client
  <2>2. QED
    BY <1>4, <2>1
<1>11. QED
  BY <1>6, <1>7, <1>8, <1>9, <1>10 DEF MinimapNext

LEMMA CopiesHonestStep ==
    ASSUME MinimapTypes, TileState, DownHonest, FramesHonest, CopiesHonest, MinimapNext
    PROVE  CopiesHonest'
<1>0. /\ frames \in Seq(SUBSET AllPictures) /\ down \in Seq(ToClient)
      /\ \A t \in Tile : shown[t].version \in Nat /\ tiles[t].version \in Nat
  BY DEF MinimapTypes, ClientTypes, ServerTypes, TileRecord, AllPictures
<1>1. \A t \in Tile : tiles'[t].version \in Nat
  <2>1. MinimapTypes'
    BY MinimapTypesStep
  <2>2. QED
    BY <2>1 DEF MinimapTypes, ServerTypes, TileRecord
<1>2. /\ restarted \subseteq restarted'
      /\ \A t \in Tile : /\ board[t] \subseteq board'[t]
                         /\ t \notin restarted' => tiles[t].version <= tiles'[t].version
  BY Growth
<1> DEFINE Good(s, t) == /\ s.cells \subseteq board'[t]
                         /\ t \notin restarted' => s.version <= tiles'[t].version
<1>3. \A t \in Tile : Good(shown[t], t) /\ Good(NoCopy, t)
  BY <1>0, <1>1, <1>2 DEF CopiesHonest, NoCopy
<1>4. ASSUME \A t \in Tile : \E s : shown'[t] = s /\ Good(s, t)
      PROVE  CopiesHonest'
  BY <1>4 DEF CopiesHonest
<1>5. ASSUME \A t \in Tile : shown'[t] = shown[t] \/ shown'[t] = NoCopy
      PROVE  CopiesHonest'
  <2> HIDE DEF Good
  <2>1. QED
    BY <1>3, <1>4, <1>5
<1>6. ASSUME DrawFrame  PROVE CopiesHonest'
  <2>1. ASSUME NEW t \in Tile  PROVE \E s : shown'[t] = s /\ Good(s, t)
    <3>1. CASE shown'[t] = shown[t]
      BY <1>3, <3>1
    <3>2. ASSUME NEW f \in Head(frames), f.tile = t,
                 shown'[t] = [version |-> f.version, cells |-> f.cells, res |-> f.res]
          PROVE  Good(shown'[t], t)
      <4>1. frames # <<>> /\ Head(frames) \in SUBSET AllPictures
        BY <1>6, DrawEffect
      <4>2. 1 \in DOMAIN frames /\ frames[1] = Head(frames)
        BY <1>0, <4>1
      <4>3. f \in AllPictures /\ Honest(f)
        BY <3>2, <4>1, <4>2 DEF FramesHonest
      <4>4. Honest(f)'
        BY <4>3, PictureFields, HonestStays
      <4>5. QED
        BY <3>2, <4>4 DEF Honest
    <3>3. QED
      BY <1>6, <3>1, <3>2, DrawEffect
  <2>2. QED
    BY <1>4, <2>1
<1>7. ASSUME Receive  PROVE CopiesHonest'
  <2>1. /\ down # <<>> /\ Head(down) \in ToClient
        /\ Head(down).is # "delta" => shown' = shown
        /\ Head(down).is = "delta" => shown' = [shown EXCEPT ![Head(down).tile] = Delta(Head(down))]
    BY <1>7, ReceiveEffect
  <2>2. 1 \in DOMAIN down /\ down[1] = Head(down)
    BY <1>0, <2>1
  <2>3. CASE Head(down).is # "delta"
    BY <1>5, <2>1, <2>3
  <2>4. CASE Head(down).is = "delta"
    <3>1. PICK m : m = Head(down)
      OBVIOUS
    <3>2. m \in DeltaMessage /\ Honest(m) /\ m.version # 0 /\ m.tile \in Tile /\ m.version \in Nat
      BY <2>1, <2>2, <2>4, <3>1, MessageKinds, DeltaFields DEF DownHonest
    <3>3. Honest(m)'
      BY <3>2, HonestStays
    <3>4. PICK s : s = Delta(m)
      OBVIOUS
    <3>5. \/ s = shown[m.tile]
          \/ s.version = m.version /\ s.cells \subseteq shown[m.tile].cells \cup m.cells
      BY <3>2, <3>4, DeltaEffect
    <3>6. Good(s, m.tile)
      BY <1>3, <3>2, <3>3, <3>5 DEF Honest
    <3>7. \A t \in Tile : shown'[t] = IF t = m.tile THEN s ELSE shown[t]
      BY <2>1, <2>4, <3>1, <3>4 DEF MinimapTypes, ClientTypes
    <3> HIDE DEF Good
    <3>8. QED
      BY <1>3, <1>4, <3>6, <3>7
  <2>5. QED
    BY <2>3, <2>4
<1>8. ASSUME \/ \E t \in given.scope : \/ OtherSubscribes(t) \/ OtherLeaves(t)
                                       \/ \E D \in SUBSET Cell : Change(t, D)
             \/ Broadcast \/ SendCast
             \/ \E c \in Link : \/ Subscribe(c) \/ ReadTile(c) \/ SendBatch(c)
                                \/ Unsubscribe(c) \/ Join(c) \/ RemovePlayer(c)
      PROVE  CopiesHonest'
  <2>1. shown' = shown
    BY <1>8 DEF OtherSubscribes, OtherLeaves, Change, Broadcast, SendCast, Subscribe, ReadTile, SendBatch,
                Unsubscribe, Join, RemovePlayer, client
  <2>2. QED
    BY <1>5, <2>1
<1>9. ASSUME Open \/ ResubscribeAll \/ AskToJoin \/ Close  PROVE CopiesHonest'
  <2>1. shown' = shown
    BY <1>9 DEF Open, ResubscribeAll, AskToJoin, Close, client
  <2>2. QED
    BY <1>5, <2>1
<1>10. ASSUME NEW v, ClearSource(v) \/ \E r \in given.scales : View(v, r)  PROVE CopiesHonest'
  <2>1. \A t \in Tile : shown'[t] = shown[t] \/ shown'[t] = NoCopy
    BY <1>10 DEF ClearSource, View, Released
  <2>2. QED
    BY <1>5, <2>1
<1>11. QED
  BY <1>6, <1>7, <1>8, <1>9, <1>10 DEF MinimapNext

LEMMA UnderwayStep ==
    ASSUME MinimapTypes, TileState, Underway, [MinimapNext]_minimapVars
    PROVE  Underway'
<1>1. CASE MinimapNext
  BY <1>1, BatchesHonestStep, CastsHonestStep, DownHonestStep, FramesHonestStep, CopiesHonestStep DEF Underway
<1>2. CASE UNCHANGED minimapVars
  BY <1>2 DEF Underway, BatchesHonest, CastsHonest, DownHonest, FramesHonest, CopiesHonest, Honest,
              minimapVars, server, client, notes
<1>3. QED
  BY <1>1, <1>2

-----------------------------------------------------------------------------
(* The round of the broadcaster, and the requests of the client. *)

LEMMA RoundStep ==
    ASSUME MinimapTypes, TileState, CastsHonest, Round, MinimapNext
    PROVE  Round'
<1>0. /\ \A x \in casts : x.msg.tile \in Tile /\ x.msg.version # 0
      /\ \A t \in Tile : tiles[t].version \in Nat
  BY DEF MinimapTypes, ServerTypes, TileRecord, FullMessage, DeltaMessage, CastsHonest
<1> DEFINE Kept(t) == /\ tiles'[t].version = tiles[t].version
                      /\ tiles[t].dirty \subseteq tiles'[t].dirty
                      /\ board'[t] \subseteq board[t] \cup tiles'[t].dirty
<1>1. ASSUME casts' \subseteq casts, restarted \subseteq restarted',
             \A t \in Tile : t \notin restarted' /\ tiles[t].version # 0 => Kept(t)
      PROVE  Round'
  <2>1. ASSUME NEW x \in casts', x.msg.tile \notin restarted'
        PROVE  /\ x.msg.version = tiles'[x.msg.tile].version
               /\ x.msg.is = "full" => board'[x.msg.tile] \subseteq x.msg.cells \cup tiles'[x.msg.tile].dirty
    <3>1. /\ x \in casts /\ x.msg.tile \notin restarted /\ x.msg.tile \in Tile
          /\ x.msg.version = tiles[x.msg.tile].version
          /\ x.msg.is = "full" => board[x.msg.tile] \subseteq x.msg.cells \cup tiles[x.msg.tile].dirty
      BY <1>0, <1>1, <2>1 DEF Round
    <3>2. Kept(x.msg.tile)
      BY <1>0, <1>1, <2>1, <3>1
    <3>3. QED
      BY <3>1, <3>2
  <2>2. \A x, y \in casts' : x.to = y.to /\ x.msg.tile = y.msg.tile => x = y
    BY <1>1 DEF Round
  <2>3. QED
    BY <2>1, <2>2 DEF Round
<1>2. ASSUME casts' \subseteq casts, restarted' = restarted, tiles' = tiles, board' = board  PROVE Round'
  BY <1>1, <1>2
<1>3. ASSUME NEW s, KeepOnly(s), casts' = casts, board' = board  PROVE Round'
  <2>1. restarted \subseteq restarted' /\ \A t \in Tile : t \notin restarted' /\ tiles[t].version # 0 => tiles'[t] = tiles[t]
    BY <1>3, KeepOnlyTiles DEF MinimapTypes
  <2>2. \A t \in Tile : t \notin restarted' /\ tiles[t].version # 0 => Kept(t)
    BY <1>3, <2>1
  <2> HIDE DEF Kept
  <2>3. QED
    BY <1>1, <1>3, <2>1, <2>2
<1>4. ASSUME NEW t \in given.scope, NEW D \in SUBSET Cell, Change(t, D)  PROVE Round'
  <2>1. /\ t \in Tile /\ board' = [board EXCEPT ![t] = board[t] \cup D]
        /\ \A u \in Tile : u # t => tiles'[u] = tiles[u]
        /\ subs[t] # {} => tiles'[t].version = tiles[t].version /\ tiles'[t].dirty = tiles[t].dirty \cup D
    BY <1>4, ChangeEffect
  <2>2. restarted' = restarted /\ casts' = casts
    BY <1>4 DEF Change, notes
  <2>3. tiles[t].version # 0 => subs[t] # {}
    BY <2>1 DEF TileState, NoTile
  <2>4. board'[t] = board[t] \cup D /\ \A u \in Tile : u # t => board'[u] = board[u]
    BY <2>1 DEF MinimapTypes, ServerTypes
  <2>5. ASSUME NEW u \in Tile, tiles[u].version # 0  PROVE Kept(u)
    <3>1. CASE u = t
      BY <2>1, <2>3, <2>4, <2>5, <3>1
    <3>2. CASE u # t
      BY <2>1, <2>4, <3>2
    <3>3. QED
      BY <3>1, <3>2
  <2> HIDE DEF Kept
  <2>6. QED
    BY <1>1, <2>2, <2>5
<1>5. ASSUME Broadcast  PROVE Round'
  <2>1. ASSUME NEW y \in casts'
        PROVE  \E t \in Live : \E i : /\ y = [to |-> i, msg |-> Message(t, tiles[t].version + 1, res[i])]
                                      /\ y.msg.tile = t /\ y.msg.version = tiles'[t].version
                                      /\ y.msg.is = "full" => board'[t] \subseteq y.msg.cells
    <3>1. PICK t \in Live : \E i \in subs[t] \ {Other} :
             y = [to |-> i, msg |-> Message(t, tiles[t].version + 1, res[i])]
      BY <1>5, BroadcastEffect
    <3>2. PICK i \in subs[t] \ {Other} : y = [to |-> i, msg |-> Message(t, tiles[t].version + 1, res[i])]
      BY <3>1
    <3>3. t \in Tile /\ tiles'[t].version = tiles[t].version + 1 /\ board' = board
      BY <1>5, BroadcastEffect DEF Broadcast
    <3>4. y.msg.tile = t /\ y.msg.version = tiles[t].version + 1 /\ (y.msg.is = "full" => y.msg.cells = board[t])
      BY <3>2 DEF Message
    <3>5. QED
      BY <3>2, <3>3, <3>4
  <2>2. \A y \in casts' : /\ y.msg.version = tiles'[y.msg.tile].version
                          /\ y.msg.is = "full" => board'[y.msg.tile] \subseteq y.msg.cells
    BY <2>1
  <2>3. ASSUME NEW y \in casts', NEW z \in casts', y.to = z.to, y.msg.tile = z.msg.tile  PROVE y = z
    <3>1. PICK t, i : y = [to |-> i, msg |-> Message(t, tiles[t].version + 1, res[i])] /\ y.msg.tile = t
      BY <2>1
    <3>2. PICK u, j : z = [to |-> j, msg |-> Message(u, tiles[u].version + 1, res[j])] /\ z.msg.tile = u
      BY <2>1
    <3>3. i = j /\ t = u
      BY <2>3, <3>1, <3>2
    <3>4. QED
      BY <3>1, <3>2, <3>3
  <2>4. QED
    BY <2>2, <2>3 DEF Round
<1>6. ASSUME NEW t \in given.scope, OtherSubscribes(t) \/ OtherLeaves(t)  PROVE Round'
  <2>1. CASE OtherSubscribes(t)
    BY <1>2, <2>1 DEF OtherSubscribes, notes
  <2>2. CASE OtherLeaves(t)
    BY <1>3, <2>2 DEF OtherLeaves
  <2>3. QED
    BY <1>6, <2>1, <2>2
<1>7. ASSUME NEW c \in Link, Unsubscribe(c)  PROVE Round'
  <2>1. PICK s : s = [t \in Tile |-> IF t \in Head(up[c]).tiles THEN subs[t] \ {ids[c]} ELSE subs[t]]
    OBVIOUS
  <2>2. KeepOnly(s) /\ board' = board /\ casts' = casts
    BY <1>7, <2>1 DEF Unsubscribe
  <2>3. QED
    BY <1>3, <2>2
<1>8. ASSUME NEW c \in Link, Join(c) \/ RemovePlayer(c)  PROVE Round'
  <2>1. /\ board' = board /\ casts' = casts
        /\ KeepOnly(Without(ids[c])) \/ (tiles' = tiles /\ restarted' = restarted)
    BY <1>8 DEF Join, RemovePlayer, Forget
  <2>2. QED
    BY <1>2, <1>3, <2>1
<1>9. ASSUME SendCast \/ \E c \in Link : Subscribe(c) \/ ReadTile(c) \/ SendBatch(c)  PROVE Round'
  <2>1. casts' \subseteq casts /\ restarted' = restarted /\ tiles' = tiles /\ board' = board
    BY <1>9 DEF SendCast, Subscribe, ReadTile, SendBatch, notes
  <2>2. QED
    BY <1>2, <2>1
<1>10. ASSUME \/ DrawFrame \/ Receive
              \/ \E v \in SUBSET given.scope : ClearSource(v) \/ \E r \in given.scales : View(v, r)
              \/ Open \/ ResubscribeAll \/ AskToJoin \/ Close
       PROVE  Round'
  <2>1. casts' = casts /\ restarted' = restarted /\ tiles' = tiles /\ board' = board
    BY <1>10 DEF DrawFrame, Receive, ClearSource, View, Open, ResubscribeAll, AskToJoin, Close, server, notes
  <2>2. QED
    BY <1>2, <2>1
<1>11. QED
  BY <1>4, <1>5, <1>6, <1>7, <1>8, <1>9, <1>10 DEF MinimapNext

\* Requests keep the pledge for the tiles they ask for and for those they leave
\* alone at the same resolution.
LEMMA RequestsKeep ==
    ASSUME ClientTypes, connected, Requesting, NEW add \in SUBSET Tile, NEW del \in SUBSET Tile,
           NEW r \in Resolution, Requests(add, del, r),
           NEW t, t \notin del, t \in add \/ (t \in active /\ r = resolution),
           NEW k \in DOMAIN up'[conn],
           \/ up'[conn][k].is = "unsubscribe" /\ t \in up'[conn][k].tiles
           \/ up'[conn][k].is = "subscribe" /\ up'[conn][k].res # r
    PROVE  \E l \in DOMAIN up'[conn] : l > k /\ Asks(up'[conn][l], t)
<1> DEFINE q == up[conn]
           p == up'[conn]
<1>1. /\ q \in Seq(ClientRequest) /\ p \in Seq(ClientRequest)
      /\ \A n \in DOMAIN q : n \in DOMAIN p /\ p[n] = q[n]
      /\ \A n \in DOMAIN p \ DOMAIN q :
            p[n] = [is |-> "subscribe", tiles |-> add, res |-> r] \/ p[n] = [is |-> "unsubscribe", tiles |-> del]
      /\ add # {} => \E n \in DOMAIN p : n > Len(q) /\ p[n] = [is |-> "subscribe", tiles |-> add, res |-> r]
  BY RequestsEffect
<1>2. k \in DOMAIN q /\ p[k] = q[k]
  BY <1>1
<1>3. CASE t \in add
  <2>1. PICK n \in DOMAIN p : n > Len(q) /\ p[n] = [is |-> "subscribe", tiles |-> add, res |-> r]
    BY <1>1, <1>3
  <2>2. n > k /\ Asks(p[n], t)
    BY <1>1, <1>2, <1>3, <2>1 DEF Asks
  <2>3. QED
    BY <2>1, <2>2
<1>4. CASE t \in active /\ r = resolution
  <2>1. Unmakes(q[k], t)
    BY <1>2, <1>4 DEF Unmakes
  <2>2. PICK l \in DOMAIN q : l > k /\ Asks(q[l], t)
    BY <1>2, <1>4, <2>1 DEF Requesting
  <2>3. l \in DOMAIN p /\ p[l] = q[l]
    BY <1>1
  <2>4. QED
    BY <2>2, <2>3
<1>5. QED
  BY <1>3, <1>4

LEMMA RequestingStep ==
    ASSUME MinimapTypes, Requesting, MinimapNext
    PROVE  Requesting'
<1>0. ClientTypes
  BY DEF MinimapTypes
<1>1. ASSUME connected' => connected /\ conn' = conn /\ active' = active /\ resolution' = resolution /\ up'[conn] = up[conn]
      PROVE  Requesting'
  BY <1>1 DEF Requesting, Unmakes
<1>2. ASSUME NEW c \in Link, NEW what, Take(c, what),
             connected' = connected, conn' = conn, active' = active, resolution' = resolution
      PROVE  Requesting'
  <2>1. /\ up[c] # <<>> /\ up' = [up EXCEPT ![c] = Tail(@)] /\ up \in [Link -> Seq(ClientRequest)]
        /\ connected => conn \in Link
    BY <1>0, <1>2, TaskType DEF ClientTypes
  <2>2. CASE c # conn \/ ~ connected
    <3>1. connected => up'[conn] = up[conn]
      BY <2>1, <2>2
    <3>2. QED
      BY <1>1, <1>2, <3>1
  <2>3. CASE c = conn /\ connected
    <3>1. PICK q : q = up[conn]
      OBVIOUS
    <3>2. q \in Seq(ClientRequest) /\ q # <<>> /\ up'[conn] = Tail(q)
      BY <2>1, <2>3, <3>1
    <3>3. \A k \in DOMAIN Tail(q) : k \in Nat /\ k + 1 \in DOMAIN q /\ Tail(q)[k] = q[k + 1]
      BY <3>2
    <3>4. \A l \in DOMAIN q : l > 1 => l - 1 \in DOMAIN Tail(q) /\ Tail(q)[l - 1] = q[l] /\ l \in Nat
      BY <3>2
    <3>5. ASSUME NEW t \in active, NEW k \in DOMAIN Tail(q), Unmakes(Tail(q)[k], t)
          PROVE  \E l \in DOMAIN Tail(q) : l > k /\ Asks(Tail(q)[l], t)
      <4>1. PICK l \in DOMAIN q : l > k + 1 /\ Asks(q[l], t)
        BY <2>3, <3>1, <3>3, <3>5 DEF Requesting
      <4>2. l - 1 \in DOMAIN Tail(q) /\ Tail(q)[l - 1] = q[l] /\ l - 1 > k
        BY <3>3, <3>4, <3>5, <4>1
      <4>3. QED
        BY <4>1, <4>2
    <3>6. QED
      BY <1>2, <3>2, <3>5 DEF Requesting, Unmakes
  <2>4. QED
    BY <2>2, <2>3
<1>3. ASSUME NEW add \in SUBSET Tile, NEW del \in SUBSET Tile, NEW r \in Resolution, connected,
             Requests(add, del, r), conn' = conn, resolution' = r,
             \A t \in active' : t \notin del /\ (t \in add \/ (t \in active /\ r = resolution))
      PROVE  Requesting'
  <2>1. ASSUME NEW t \in active', NEW k \in DOMAIN up'[conn],
               \/ up'[conn][k].is = "unsubscribe" /\ t \in up'[conn][k].tiles
               \/ up'[conn][k].is = "subscribe" /\ up'[conn][k].res # r
        PROVE  \E l \in DOMAIN up'[conn] : l > k /\ Asks(up'[conn][l], t)
    <3>1. t \notin del /\ (t \in add \/ (t \in active /\ r = resolution))
      BY <1>3
    <3>2. connected /\ Requests(add, del, r)
      BY <1>3
    <3>3. QED
      BY <1>0, <2>1, <3>1, <3>2, RequestsKeep
  <2>2. QED
    BY <1>3, <2>1 DEF Requesting, Unmakes
<1>4. ASSUME NEW v \in SUBSET given.scope, NEW r \in given.scales, View(v, r)  PROVE Requesting'
  <2>1. v \in SUBSET Tile /\ r \in Resolution
    BY DEF MinimapTypes, ServerTypes, Bounds
  <2>2. PICK add : add = IF r = resolution THEN v \ active ELSE v
    OBVIOUS
  <2>3. PICK del : del = active \ v
    OBVIOUS
  <2>4. connected /\ Requests(add, del, r) /\ active' = (active \cup add) \ del /\ resolution' = r /\ conn' = conn
    BY <1>4, <2>2, <2>3 DEF View
  <2>5. add \in SUBSET Tile /\ del \in SUBSET Tile
    BY <1>0, <2>1, <2>2, <2>3 DEF ClientTypes
  <2>6. \A t \in active' : t \notin del /\ (t \in add \/ (t \in active /\ r = resolution))
    BY <2>2, <2>3, <2>4
  <2>7. QED
    BY <1>3, <2>1, <2>4, <2>5, <2>6
<1>5. ASSUME NEW v \in SUBSET given.scope, ClearSource(v)  PROVE Requesting'
  <2>1. CASE ~ connected
    BY <1>1, <1>5, <2>1 DEF ClearSource
  <2>2. CASE connected
    <3>1. PICK del : del = active \ v
      OBVIOUS
    <3>2. Requests({}, del, resolution) /\ active' = active \cap v /\ resolution' = resolution /\ conn' = conn
      BY <1>5, <2>2, <3>1 DEF ClearSource
    <3>3. del \in SUBSET Tile /\ resolution \in Resolution
      BY <1>0, <3>1 DEF ClientTypes
    <3>4. \A t \in active' : t \notin del /\ t \in active
      BY <3>1, <3>2
    <3>5. QED
      BY <1>3, <2>2, <3>2, <3>3, <3>4
  <2>3. QED
    BY <2>1, <2>2
<1>6. ASSUME ResubscribeAll  PROVE Requesting'
  <2>1. /\ connected /\ Requests(desired, {}, resolution) /\ resolution' = resolution /\ conn' = conn
        /\ active' = IF desired = {} THEN active ELSE desired
    BY <1>6 DEF ResubscribeAll
  <2>2. desired \in SUBSET Tile /\ resolution \in Resolution
    BY <1>0 DEF ClientTypes
  <2>3. \A t \in active' : t \in desired \/ t \in active
    BY <2>1
  <2>4. QED
    BY <1>3, <2>1, <2>2, <2>3
<1>7. ASSUME AskToJoin  PROVE Requesting'
  <2>1. PICK q : q = up[conn]
    OBVIOUS
  <2>2. PICK j : j = [is |-> "join"]
    OBVIOUS
  <2>3. /\ connected /\ conn \in Link /\ q \in Seq(ClientRequest) /\ up' = [up EXCEPT ![conn] = Append(@, j)]
        /\ connected' = connected /\ conn' = conn /\ active' = active /\ resolution' = resolution
    BY <1>0, <1>7, <2>1, <2>2 DEF AskToJoin, ClientTypes, client
  <2>4. up'[conn] = Append(q, j)
    BY <1>0, <2>1, <2>3 DEF ClientTypes
  <2>5. j.is = "join" /\ \A t : ~ Unmakes(j, t)
    BY <2>2 DEF Unmakes
  <2>6. DOMAIN Append(q, j) = 1 .. Len(q) + 1 /\ DOMAIN q = 1 .. Len(q) /\ Len(q) \in Nat
        /\ \A k \in DOMAIN q : Append(q, j)[k] = q[k]
        /\ Append(q, j)[Len(q) + 1] = j
    <3>1. j \in ClientRequest
      BY <2>2 DEF ClientRequest
    <3>2. QED
      BY <2>3, <3>1
  <2>7. ASSUME NEW t \in active, NEW k \in DOMAIN Append(q, j), Unmakes(Append(q, j)[k], t)
        PROVE  \E l \in DOMAIN Append(q, j) : l > k /\ Asks(Append(q, j)[l], t)
    <3>1. k \in DOMAIN q /\ Append(q, j)[k] = q[k]
      BY <2>5, <2>6, <2>7
    <3>2. PICK l \in DOMAIN q : l > k /\ Asks(q[l], t)
      BY <2>1, <2>3, <2>7, <3>1 DEF Requesting
    <3>3. l \in DOMAIN Append(q, j) /\ Append(q, j)[l] = q[l]
      BY <2>6
    <3>4. QED
      BY <3>2, <3>3
  <2>8. QED
    BY <2>3, <2>4, <2>7 DEF Requesting, Unmakes
<1>8. ASSUME Open \/ Close  PROVE Requesting'
  BY <1>8 DEF Open, Close, Requesting
<1>9. ASSUME NEW c \in Link, Subscribe(c) \/ Unsubscribe(c) \/ Join(c)  PROVE Requesting'
  <2>1. \/ Take(c, "subscribe") \/ Take(c, "unsubscribe") \/ Take(c, "join")
    BY <1>9 DEF Subscribe, Unsubscribe, Join
  <2>2. connected' = connected /\ conn' = conn /\ active' = active /\ resolution' = resolution
    BY <1>9 DEF Subscribe, Unsubscribe, Join, client
  <2>3. QED
    BY <1>2, <2>1, <2>2
<1>10. ASSUME NEW c \in Link, RemovePlayer(c)  PROVE Requesting'
  <2>1. /\ ~ (connected /\ c = conn) /\ up' = [up EXCEPT ![c] = <<>>]
        /\ connected' = connected /\ conn' = conn /\ active' = active /\ resolution' = resolution
    BY <1>10 DEF RemovePlayer, client
  <2>2. connected => up'[conn] = up[conn]
    BY <1>0, <2>1 DEF ClientTypes
  <2>3. QED
    BY <1>1, <2>1, <2>2
<1>11. ASSUME \/ \E t \in given.scope : \/ OtherSubscribes(t) \/ OtherLeaves(t)
                                        \/ \E D \in SUBSET Cell : Change(t, D)
              \/ Broadcast \/ SendCast \/ \E c \in Link : ReadTile(c) \/ SendBatch(c)
       PROVE  Requesting'
  <2>1. up' = up /\ connected' = connected /\ conn' = conn /\ active' = active /\ resolution' = resolution
    BY <1>11 DEF OtherSubscribes, OtherLeaves, Change, Broadcast, SendCast, ReadTile, SendBatch, client
  <2>2. QED
    BY <1>1, <2>1
<1>12. ASSUME DrawFrame \/ Receive  PROVE Requesting'
  <2>1. up' = up /\ connected' = connected /\ conn' = conn /\ active' = active /\ resolution' = resolution
    BY <1>12 DEF DrawFrame, Receive
  <2>2. QED
    BY <1>1, <2>1
<1>13. QED
  BY <1>4, <1>5, <1>6, <1>7, <1>8, <1>9, <1>10, <1>11, <1>12 DEF MinimapNext

-----------------------------------------------------------------------------
(* Every cell of a settled tile stays marked, shown or on its way. *)

\* The pieces of Covered.
LEMMA PieceTypes ==
    ASSUME MinimapTypes, connected
    PROVE  /\ conn \in Link /\ ids[conn] \in SubId \cup {NoId}
           /\ frames \in Seq(SUBSET AllPictures) /\ down \in Seq(ToClient)
           /\ pump[conn].todo \in SUBSET Tile /\ pump[conn].batch \in SUBSET TilePicture
           /\ \A t \in Tile : shown[t].version \in Nat /\ tiles[t].version \in Nat
BY DEF MinimapTypes, ServerTypes, ClientTypes, Goroutine, TileRecord, AllPictures

LEMMA CastsToTypes ==
    ASSUME MinimapTypes, Round, NEW i
    PROVE  /\ CastsTo(i, "full") \in SUBSET FullMessage /\ OnePerTile(CastsTo(i, "full"))
           /\ CastsTo(i, "delta") \in SUBSET DeltaMessage /\ OnePerTile(CastsTo(i, "delta"))
<1>1. \A y \in casts : /\ y.msg \in FullMessage \cup DeltaMessage
                       /\ y.msg.is = "full" => y.msg \in FullMessage
                       /\ y.msg.is = "delta" => y.msg \in DeltaMessage
  BY DEF MinimapTypes, ServerTypes, FullMessage, DeltaMessage
<1>2. ASSUME NEW k, NEW f \in CastsTo(i, k), NEW g \in CastsTo(i, k), f.tile = g.tile  PROVE f = g
  <2>1. PICK y \in casts : y.to = i /\ f = y.msg
    BY DEF CastsTo
  <2>2. PICK z \in casts : z.to = i /\ g = z.msg
    BY DEF CastsTo
  <2>3. y = z
    BY <1>2, <2>1, <2>2 DEF Round
  <2>4. QED
    BY <2>1, <2>2, <2>3
<1>3. CastsTo(i, "full") \in SUBSET FullMessage /\ CastsTo(i, "delta") \in SUBSET DeltaMessage
  BY <1>1 DEF CastsTo
<1>4. QED
  BY <1>2, <1>3 DEF OnePerTile

\* What is on the way about a settled tile has a version that it has had.
LEMMA VersionsBehind ==
    ASSUME MinimapTypes, Underway, connected, NEW t \in Tile, t \notin restarted
    PROVE  /\ \A f \in FramesAfter(frames, 0) \cup DownAfter(down, 0) \cup pump[conn].batch :
                 f.tile = t => f.version <= tiles[t].version
           /\ \A m \in DeltasIn(down) \cup DeltaCasts : m.tile = t => m.version <= tiles[t].version
           /\ shown[t].version <= tiles[t].version
<1>1. \A j \in DOMAIN frames : \A f \in frames[j] : f.tile = t => f.version <= tiles[t].version
  BY DEF Underway, FramesHonest, Honest
<1>2. \A k \in DOMAIN down : /\ \A f \in Fulls(down[k]) : f.tile = t => f.version <= tiles[t].version
                             /\ down[k].is = "delta" /\ down[k].tile = t => down[k].version <= tiles[t].version
  BY DEF Underway, DownHonest, Honest
<1>3. \A f \in pump[conn].batch : f.tile = t => f.version <= tiles[t].version
  BY PieceTypes DEF Underway, BatchesHonest, Honest
<1>4. \A m \in DeltaCasts : m.tile = t => m.version <= tiles[t].version
  BY DEF DeltaCasts, CastsTo, Underway, CastsHonest, Honest
<1>5. shown[t].version <= tiles[t].version
  BY DEF Underway, CopiesHonest
<1>6. QED
  BY <1>1, <1>2, <1>3, <1>4, <1>5 DEF FramesAfter, DownAfter, DeltasIn

\* Nothing that the tile is covered by is touched.
LEMMA Undisturbed ==
    ASSUME NEW t \in Tile, Tracking, Settled(t), conn' = conn, ids'[conn] = ids[conn],
           res'[ids[conn]] = res[ids[conn]], resolution' = resolution, pump'[conn] = pump[conn],
           (t \notin AnsweredElsewhere(conn))', board'[t] = board[t], tiles'[t].dirty = tiles[t].dirty,
           shown'[t] = shown[t], frames' = frames, down' = down, casts' = casts
    PROVE  (Standing(t) /\ Covered(t))'
<1>1. Standing(t) /\ Covered(t)
  BY DEF Tracking
<1>2. FullCasts' = FullCasts /\ DeltaCasts' = DeltaCasts
  BY DEF FullCasts, DeltaCasts, CastsTo
<1>3. QED
  BY <1>1, <1>2 DEF Standing, Covered

\* The others' answers are what they were.
LEMMA ElsewhereSame ==
    ASSUME pump' = pump, conn' = conn, ids'[conn] = ids[conn]
    PROVE  AnsweredElsewhere(conn)' = AnsweredElsewhere(conn)
BY DEF AnsweredElsewhere

\* Other connections' answers only shrink.
LEMMA ElsewhereLess ==
    ASSUME conn' = conn, ids'[conn] = ids[conn], NEW t, t \notin AnsweredElsewhere(conn),
           \A d \in Link \ {conn} :
              pump'[d].to = ids[conn] =>
                 \/ t \notin pump'[d].todo \cup {f.tile : f \in pump'[d].batch}
                 \/ /\ pump[d].to = ids[conn]
                    /\ t \in pump'[d].todo \cup {f.tile : f \in pump'[d].batch} =>
                          t \in pump[d].todo \cup {f.tile : f \in pump[d].batch}
    PROVE  (t \notin AnsweredElsewhere(conn))'
BY DEF AnsweredElsewhere

\* A tile that was settled: nothing about it has been taken back.
LEMMA SettledBefore ==
    ASSUME NEW t \in Tile, Settled(t)', connected, conn' = conn, ids'[conn] = ids[conn],
           t \in active, ids[conn] \in subs[t], t \notin kept,
           restarted \subseteq restarted', overtaken \subseteq overtaken',
           \A k \in DOMAIN up[conn] :
              Mentions(up[conn][k], t) => \E l \in DOMAIN up'[conn] : Mentions(up'[conn][l], t)
    PROVE  Settled(t)
BY DEF Settled

\* The goroutine of connection c takes a message: the tile was settled if the
\* message does not mention it.
LEMMA TakeMentions ==
    ASSUME MinimapTypes, connected, NEW c \in Link, NEW what, Take(c, what), NEW t,
           c = conn => ~ Mentions(Head(up[c]), t)
    PROVE  \A k \in DOMAIN up[conn] :
              Mentions(up[conn][k], t) => \E l \in DOMAIN up'[conn] : Mentions(up'[conn][l], t)
<1>1. /\ up[c] # <<>> /\ up' = [up EXCEPT ![c] = Tail(@)] /\ up \in [Link -> Seq(ClientRequest)] /\ conn \in Link
  BY TaskType DEF MinimapTypes, ClientTypes
<1>2. CASE c # conn
  <2>1. up'[conn] = up[conn]
    BY <1>1, <1>2
  <2>2. QED
    BY <2>1
<1>3. CASE c = conn
  <2>1. PICK q : q = up[conn]
    OBVIOUS
  <2>2. q \in Seq(ClientRequest) /\ q # <<>> /\ up'[conn] = Tail(q) /\ Head(q) = q[1]
    BY <1>1, <1>3, <2>1
  <2>3. \A l \in DOMAIN q : l = 1 \/ (l - 1 \in DOMAIN Tail(q) /\ Tail(q)[l - 1] = q[l])
    BY <2>2
  <2>4. QED
    BY <1>3, <2>1, <2>2, <2>3
<1>4. QED
  BY <1>2, <1>3

\* The parts of the invariant.
LEMMA InvParts ==
    ASSUME MinimapInv
    PROVE  /\ MinimapTypes /\ ServerTypes /\ ClientTypes /\ Goroutines /\ TileState /\ Round /\ Requesting /\ Tracking
           /\ Underway /\ BatchesHonest /\ DownHonest /\ FramesHonest /\ CastsHonest /\ CopiesHonest
BY DEF MinimapInv, MinimapTypes, Underway

\* The id of the client is its own, never Other, and not NoId.
LEMMA OwnId ==
    ASSUME MinimapInv, connected
    PROVE  ids[conn] \in {conn, Player} /\ ids[conn] # NoId /\ ids[conn] # Other /\ ids[conn] \in SubId
<1>1. conn \in Link /\ ids[conn] \in {conn, Player} /\ ids[conn] # NoId
  BY InvParts DEF Goroutines, ClientTypes
<1>2. QED
  BY <1>1, MinimapAssumption DEF SubId

\* New cells are marked in the tiles that somebody is subscribed to.
LEMMA ChangeTracks ==
    ASSUME MinimapInv, NEW u \in given.scope, NEW D \in SUBSET Cell, Change(u, D), NEW t \in Tile, Settled(t)'
    PROVE  (Standing(t) /\ Covered(t))'
<1>1. UNCHANGED <<ids, subs, res, casts, pump, up, down, client, notes>>
  BY DEF Change
<1>2. Settled(t)
  BY <1>1 DEF Settled, client, notes
<1>3. Standing(t) /\ Covered(t) /\ ids[conn] \in subs[t]
  BY <1>2, InvParts DEF Tracking, Settled
<1>4. Standing(t)'
  BY <1>1, <1>3 DEF Standing, AnsweredElsewhere, client
<1>5. FullCasts' = FullCasts /\ DeltaCasts' = DeltaCasts
  BY <1>1 DEF FullCasts, DeltaCasts, CastsTo, client
<1>6. /\ \A x \in board'[t] : x \in board[t] \/ x \in tiles'[t].dirty
      /\ tiles[t].dirty \subseteq tiles'[t].dirty
  <2>1. /\ u \in Tile /\ board' = [board EXCEPT ![u] = board[u] \cup D]
        /\ u # t => tiles'[t] = tiles[t]
        /\ subs[u] # {} => tiles'[u].dirty = tiles[u].dirty \cup D
    BY ChangeEffect, InvParts
  <2>2. QED
    BY <1>3, <2>1, InvParts DEF ServerTypes
<1>7. Covered(t)'
  BY <1>1, <1>3, <1>5, <1>6 DEF Covered, client
<1>8. QED
  BY <1>4, <1>7

\* A round has one message about the tile for the client, at the client's
\* resolution and newer than all that is on the way: the whole tile, or all
\* that was marked.
LEMMA BroadcastTracks ==
    ASSUME MinimapInv, Broadcast, NEW t \in Tile, Settled(t)'
    PROVE  (Standing(t) /\ Covered(t))'
<1>1. /\ UNCHANGED <<board, ids, subs, res, pump, up, down, client, notes>> /\ casts = {}
  BY DEF Broadcast
<1>2. Settled(t)
  BY <1>1 DEF Settled, client, notes
<1>3. Standing(t) /\ Covered(t) /\ ids[conn] \in subs[t] /\ connected /\ t \notin restarted
  BY <1>2, InvParts DEF Tracking, Settled
<1>4. Standing(t)'
  BY <1>1, <1>3 DEF Standing, AnsweredElsewhere, client
<1>5. PICK i, r, V : i = ids[conn] /\ r = resolution /\ V = tiles[t].version
  OBVIOUS
<1>6. /\ i # Other /\ i \in SubId /\ res[i] = r /\ V \in Nat /\ resolution \in Resolution
  BY <1>3, <1>5, OwnId, InvParts, PieceTypes DEF Standing, ClientTypes
<1>7. FullCasts = {} /\ DeltaCasts = {}
  BY <1>1 DEF FullCasts, DeltaCasts, CastsTo
<1>8. /\ FullCasts' = {y.msg : y \in {z \in casts' : z.to = i /\ z.msg.is = "full"}}
      /\ DeltaCasts' = {y.msg : y \in {z \in casts' : z.to = i /\ z.msg.is = "delta"}}
  BY <1>1, <1>5 DEF FullCasts, DeltaCasts, CastsTo, client
<1>9. \A y \in casts' : \E u \in Live : \E j \in subs[u] \ {Other} :
          /\ y = [to |-> j, msg |-> Message(u, tiles[u].version + 1, res[j])]
          /\ y.msg.tile = u
  <2>1. ASSUME NEW u, NEW j, NEW y, y = [to |-> j, msg |-> Message(u, tiles[u].version + 1, res[j])]
        PROVE  y.msg.tile = u
    BY <2>1 DEF Message
  <2>2. \A y \in casts' : \E u \in Live : \E j \in subs[u] \ {Other} :
            y = [to |-> j, msg |-> Message(u, tiles[u].version + 1, res[j])]
    BY BroadcastEffect, InvParts
  <2>3. QED
    BY <2>1, <2>2
<1>10. \A y \in casts' : y.to = i /\ y.msg.tile = t => t \in Live /\ y.msg = Message(t, V + 1, r)
  BY <1>5, <1>6, <1>9
<1>11. CASE t \in pump[conn].todo
  BY <1>1, <1>4, <1>11 DEF Covered, client
<1>12. CASE t \notin pump[conn].todo /\ t \notin Live
  <2>1. /\ \A f \in FullCasts' \ FullCasts : f.tile # t
        /\ \A m \in DeltaCasts' \ DeltaCasts : m.tile # t
    BY <1>8, <1>10, <1>12
  <2>2. tiles'[t] = tiles[t]
    BY <1>3, <1>12, BroadcastEffect, InvParts
  <2>3. ASSUME NEW x \in board[t], x \notin tiles[t].dirty
        PROVE  Carried(shown[t], frames, down, pump[conn].batch, FullCasts', DeltaCasts', t, resolution, x)
    <3>1. Carried(shown[t], frames, down, pump[conn].batch, FullCasts, DeltaCasts, t, resolution, x)
      BY <1>3, <1>12, <2>3 DEF Covered
    <3>2. QED
      BY <1>7, <2>1, <3>1, ForeignCarried DEF Mine
  <2>4. Covered(t)'
    BY <1>1, <2>2, <2>3 DEF Covered, client
  <2>5. QED
    BY <1>4, <2>4
<1>13. CASE t \notin pump[conn].todo /\ t \in Live
  <2>1. PICK m : m = Message(t, V + 1, r)
    OBVIOUS
  <2>2. [to |-> i, msg |-> m] \in casts'
    BY <1>3, <1>5, <1>6, <1>13, <2>1, BroadcastEffect, InvParts
  <2>3. /\ m.tile = t /\ m.version = V + 1 /\ m.res = r /\ Mine(m, t, r)
        /\ \/ m.is = "full" /\ m.cells = board[t]
           \/ /\ m.is = "delta" /\ m.cells = board[t] \cap m.area
              /\ m.area = UNION {b \in Blocks[r] : b \cap tiles[t].dirty # {}}
    BY <2>1 DEF Message, Mine
  <2>4. /\ \A f \in FullCasts' : f.tile = t => f = m /\ m.is = "full"
        /\ \A d \in DeltaCasts' : d.tile = t => d = m /\ m.is = "delta"
        /\ m.is = "full" => m \in FullCasts'
        /\ m.is = "delta" => m \in DeltaCasts'
    BY <1>8, <1>10, <2>1, <2>2
  <2>5. /\ \A f \in FramesAfter(frames, 0) \cup DownAfter(down, 0) \cup pump[conn].batch :
              f.tile = t => f.version <= V /\ f.version \in Nat
        /\ \A d \in DeltasIn(down) : d.tile = t => d.version <= V /\ d.version \in Nat
        /\ shown[t].version <= V /\ shown[t].version \in Nat
    <3>1. /\ \A f \in FramesAfter(frames, 0) \cup DownAfter(down, 0) \cup pump[conn].batch :
                f.tile = t => f.version <= V
          /\ \A d \in DeltasIn(down) : d.tile = t => d.version <= V
          /\ shown[t].version <= V
      BY <1>3, <1>5, VersionsBehind, InvParts
    <3>2. /\ \A f \in FramesAfter(frames, 0) \cup DownAfter(down, 0) \cup pump[conn].batch : f.version \in Nat
          /\ \A d \in DeltasIn(down) : d.version \in Nat
      BY <1>3, <1>7, PieceTypes, InvParts, VersionsAreNumbers DEF Pending
    <3>3. QED
      BY <1>3, <3>1, <3>2, PieceTypes, InvParts
  <2>6. ASSUME NEW x
        PROVE  TakenBy(DeltasIn(down) \cup DeltaCasts', t, r, x, V + 1)
    BY <1>6, <2>3, <2>4, <2>5 DEF TakenBy, Mine
  <2>7. ASSUME NEW x \in board[t], m.is = "full"
        PROVE  BroughtUnsent(down, pump[conn].batch, FullCasts', DeltaCasts', t, r, x)
    <3>1. LackBefore(pump[conn].batch, t, r, x, V + 1)
      BY <1>6, <2>5 DEF LackBefore, Mine
    <3>2. Brings(m, pump[conn].batch, down, DeltaCasts', t, r, x)
      BY <2>3, <2>6, <2>7, <3>1 DEF Brings
    <3>3. QED
      BY <2>4, <2>7, <3>2 DEF BroughtUnsent
  <2>8. ASSUME NEW x \in board[t], m.is = "delta", x \in m.area
        PROVE  InDelta(shown[t], frames, down, pump[conn].batch, FullCasts', DeltaCasts', t, r, x)
    <3>1. LackBefore(Pending(frames, down, pump[conn].batch, FullCasts'), t, r, x, V + 1)
      BY <1>6, <2>4, <2>5, <2>8 DEF LackBefore, Mine, Pending
    <3>2. Ahead(m, DeltasIn(down), shown[t], frames, down, pump[conn].batch, FullCasts', DeltaCasts', t, r, x)
      <4>1. x \in m.area \cap m.cells
        BY <2>3, <2>8
      <4>2. \A e \in DeltasIn(down) : Mine(e, t, r) => e.version < m.version
        BY <1>6, <2>3, <2>5 DEF Mine
      <4>3. shown[t].version < m.version
        BY <1>6, <2>3, <2>5
      <4>4. QED
        BY <2>3, <2>6, <3>1, <4>1, <4>2, <4>3 DEF Ahead
    <3>3. QED
      BY <2>4, <2>8, <3>2 DEF InDelta
  <2>9. ASSUME NEW x \in board[t], m.is = "delta", x \notin m.area
        PROVE  Carried(shown[t], frames, down, pump[conn].batch, FullCasts', DeltaCasts', t, resolution, x)
    <3>1. x \notin tiles[t].dirty
      <4>1. x \in Cell
        BY <2>9, InvParts DEF ServerTypes
      <4>2. PICK b \in Blocks[r] : x \in b
        BY <1>5, <1>6, <4>1, MinimapAssumption
      <4>3. QED
        BY <2>3, <2>9, <4>2
    <3>2. Carried(shown[t], frames, down, pump[conn].batch, FullCasts, DeltaCasts, t, resolution, x)
      BY <1>3, <1>13, <2>9, <3>1 DEF Covered
    <3>3. /\ \A f \in FullCasts' \ FullCasts : f.tile # t
          /\ \A d \in DeltaCasts' \ DeltaCasts : Mine(d, t, resolution) => x \notin d.area
      BY <2>4, <2>9 DEF Mine
    <3>4. QED
      BY <1>7, <3>2, <3>3, ForeignCarried
  <2>10. \A x \in board[t] :
            Carried(shown[t], frames, down, pump[conn].batch, FullCasts', DeltaCasts', t, resolution, x)
    BY <1>5, <2>3, <2>7, <2>8, <2>9 DEF Carried
  <2>11. Covered(t)'
    BY <1>1, <2>10 DEF Covered, client
  <2>12. QED
    BY <1>4, <2>11
<1>14. QED
  BY <1>11, <1>12, <1>13

\* A message of the broadcaster joins the queue to the client.
LEMMA SendCastTracks ==
    ASSUME MinimapInv, SendCast, NEW t \in Tile, Settled(t)'
    PROVE  (Standing(t) /\ Covered(t))'
<1>1. UNCHANGED <<board, ids, subs, res, tiles, pump, up, client, notes>>
  BY DEF SendCast
<1>2. Settled(t)
  BY <1>1 DEF Settled, client, notes
<1>3. Standing(t) /\ Covered(t) /\ connected
  BY <1>2, InvParts DEF Tracking, Settled
<1>4. Standing(t)'
  BY <1>1, <1>3 DEF Standing, AnsweredElsewhere, client
<1>5. PICK y \in casts : casts' = casts \ {y} /\ ToPlayer(y.to, y.msg)
  BY DEF SendCast
<1>6. PICK i, m : i = ids[conn] /\ m = y.msg
  OBVIOUS
<1>7. /\ FullCasts = CastsTo(i, "full") /\ DeltaCasts = CastsTo(i, "delta")
      /\ FullCasts' = {z.msg : z \in {w \in casts' : w.to = i /\ w.msg.is = "full"}}
      /\ DeltaCasts' = {z.msg : z \in {w \in casts' : w.to = i /\ w.msg.is = "delta"}}
  BY <1>1, <1>6 DEF FullCasts, DeltaCasts, CastsTo, client
<1>8. /\ FullCasts \in SUBSET FullMessage /\ OnePerTile(FullCasts)
      /\ DeltaCasts \in SUBSET DeltaMessage /\ OnePerTile(DeltaCasts)
  BY <1>7, CastsToTypes, InvParts
<1>9. CASE y.to # i
  <2>1. FullCasts' = FullCasts /\ DeltaCasts' = DeltaCasts
    BY <1>5, <1>7, <1>9 DEF CastsTo
  <2>2. down' = down
    BY <1>5, <1>6, <1>9, ToPlayerAppends
  <2>3. Covered(t)'
    BY <1>1, <1>3, <2>1, <2>2 DEF Covered, client
  <2>4. QED
    BY <1>4, <2>3
<1>10. CASE y.to = i
  <2>1. \A z \in casts : z.to = i /\ z.msg = m => z = y
    BY <1>6, <1>10, InvParts DEF Round
  <2>2. down' = Append(down, m) /\ down \in Seq(ToClient)
    BY <1>3, <1>5, <1>6, <1>10, ToPlayerAppends, PieceTypes, InvParts
  <2>3. CASE m.is = "full"
    <3>1. m \in FullCasts /\ FullCasts' = FullCasts \ {m} /\ DeltaCasts' = DeltaCasts
      BY <1>5, <1>6, <1>7, <1>10, <2>1, <2>3 DEF CastsTo
    <3>2. ASSUME NEW x, Carried(shown[t], frames, down, pump[conn].batch, FullCasts, DeltaCasts, t, resolution, x)
          PROVE  Carried(shown[t], frames, Append(down, m), pump[conn].batch, FullCasts \ {m}, DeltaCasts, t, resolution, x)
      BY <1>8, <2>2, <3>1, <3>2, SendFullCarried
    <3>3. Covered(t)'
      BY <1>1, <1>3, <2>2, <3>1, <3>2 DEF Covered, client
    <3>4. QED
      BY <1>4, <3>3
  <2>4. CASE m.is = "delta"
    <3>1. m \in DeltaCasts /\ DeltaCasts' = DeltaCasts \ {m} /\ FullCasts' = FullCasts
      BY <1>5, <1>6, <1>7, <1>10, <2>1, <2>4 DEF CastsTo
    <3>2. ASSUME NEW x, Carried(shown[t], frames, down, pump[conn].batch, FullCasts, DeltaCasts, t, resolution, x)
          PROVE  Carried(shown[t], frames, Append(down, m), pump[conn].batch, FullCasts, DeltaCasts \ {m}, t, resolution, x)
      BY <1>8, <2>2, <3>1, <3>2, SendDeltaCarried
    <3>3. Covered(t)'
      BY <1>1, <1>3, <2>2, <3>1, <3>2 DEF Covered, client
    <3>4. QED
      BY <1>4, <3>3
  <2>5. m.is = "full" \/ m.is = "delta"
    BY <1>6, InvParts DEF ServerTypes, FullMessage, DeltaMessage
  <2>6. QED
    BY <2>3, <2>4, <2>5
<1>11. QED
  BY <1>9, <1>10

\* The last connection's request registers the tile, to be read, at the
\* client's resolution: a request at another one would be followed by one more.
\* What the other connections do for the same id is noted in kept.
LEMMA SubscribeTracks ==
    ASSUME MinimapInv, NEW c \in Link, Subscribe(c), NEW t \in Tile, Settled(t)'
    PROVE  (Standing(t) /\ Covered(t))'
<1>1. PICK new : Registers(c, new)
  BY SubscribeRegisters
<1>2. PICK m, i, old : m = Head(up[c]) /\ i = ids[c] /\ old = {u \in m.tiles : i \in subs[u]}
  OBVIOUS
<1>3. /\ new \in SUBSET (m.tiles \ old)
      /\ subs' = [u \in Tile |-> IF u \in new THEN subs[u] \cup {i} ELSE subs[u]]
      /\ res' = [res EXCEPT ![i] = m.res]
      /\ pump' = [pump EXCEPT ![c] = [busy |-> TRUE, todo |-> new, batch |-> {}, to |-> i, res |-> m.res]]
      /\ kept' = IF ~ connected \/ ids[conn] # i THEN kept
                 ELSE IF c = conn THEN (kept \ new) \cup old \cup (new \cap AnsweredElsewhere(c))
                 ELSE kept \cup m.tiles \cup {u \in Tile : i \in subs[u] /\ res[i] # m.res}
  BY <1>1, <1>2 DEF Registers
<1>4. /\ Take(c, "subscribe")
      /\ UNCHANGED <<board, ids, tiles, casts, down, client, restarted, overtaken>>
  BY DEF Subscribe
<1>5. /\ i \in SubId /\ m.is = "subscribe" /\ up[c] # <<>> /\ up' = [up EXCEPT ![c] = Tail(@)]
      /\ pump[c] = Idle
  BY <1>2, <1>4, TaskType, InvParts DEF Goroutines
<1>6. /\ connected /\ t \in active /\ t \notin kept' /\ t \notin restarted /\ t \notin overtaken
      /\ ids[conn] \in subs'[t] /\ \A k \in DOMAIN up'[conn] : ~ Mentions(up'[conn][k], t)
  BY <1>4 DEF Settled, client
<1>7. conn \in Link /\ up \in [Link -> Seq(ClientRequest)] /\ res \in [SubId -> Resolution] /\ pump \in [Link -> Goroutine]
  BY <1>6, PieceTypes, InvParts DEF ClientTypes, ServerTypes
<1>8. FullCasts' = FullCasts /\ DeltaCasts' = DeltaCasts /\ conn' = conn /\ ids' = ids /\ resolution' = resolution
  BY <1>4 DEF FullCasts, DeltaCasts, CastsTo, client
<1>9. ASSUME t \in kept => t \in kept', ids[conn] \in subs[t], c = conn => t \notin m.tiles  PROVE Settled(t)
  <2>1. c = conn => ~ Mentions(Head(up[c]), t)
    BY <1>2, <1>9 DEF Mentions
  <2>2. \A k \in DOMAIN up[conn] :
           Mentions(up[conn][k], t) => \E l \in DOMAIN up'[conn] : Mentions(up'[conn][l], t)
    BY <1>4, <1>6, <2>1, TakeMentions, InvParts
  <2>3. QED
    BY <1>4, <1>6, <1>8, <1>9, <2>2, SettledBefore
<1>10. ASSUME t \notin AnsweredElsewhere(conn), c # conn /\ i = ids[conn] => t \notin new
       PROVE  (t \notin AnsweredElsewhere(conn))'
  <2>1. ASSUME NEW d \in Link \ {conn}, pump'[d].to = ids[conn]
        PROVE  \/ t \notin pump'[d].todo \cup {f.tile : f \in pump'[d].batch}
               \/ /\ pump[d].to = ids[conn]
                  /\ t \in pump'[d].todo \cup {f.tile : f \in pump'[d].batch} =>
                        t \in pump[d].todo \cup {f.tile : f \in pump[d].batch}
    <3>1. CASE d = c
      <4>1. pump'[d].todo = new /\ pump'[d].batch = {} /\ pump'[d].to = i
        BY <1>3, <1>7, <3>1
      <4>2. QED
        BY <1>10, <2>1, <3>1, <4>1
    <3>2. CASE d # c
      <4>1. pump'[d] = pump[d]
        BY <1>3, <3>2
      <4>2. QED
        BY <2>1, <4>1
    <3>3. QED
      BY <3>1, <3>2
  <2>2. QED
    BY <1>8, <1>10, <2>1, ElsewhereLess
<1>11. CASE c = conn
  <2>1. /\ i = ids[conn] /\ kept' = (kept \ new) \cup old \cup (new \cap AnsweredElsewhere(conn))
        /\ pump'[conn] = [busy |-> TRUE, todo |-> new, batch |-> {}, to |-> i, res |-> m.res]
        /\ res'[i] = m.res
    BY <1>2, <1>3, <1>5, <1>6, <1>7, <1>11
  <2>2. m.res = resolution
    <3>1. PICK q : q = up[conn]
      OBVIOUS
    <3>2. q \in Seq(ClientRequest) /\ q # <<>> /\ up'[conn] = Tail(q) /\ q[1] = m /\ 1 \in DOMAIN q
      BY <1>2, <1>5, <1>7, <1>11, <3>1
    <3>3. ASSUME m.res # resolution  PROVE FALSE
      <4>1. Unmakes(q[1], t)
        BY <1>5, <3>2, <3>3 DEF Unmakes
      <4>2. PICK l \in DOMAIN q : l > 1 /\ Asks(q[l], t)
        BY <1>6, <3>1, <3>2, <4>1, InvParts DEF Requesting
      <4>3. l - 1 \in DOMAIN Tail(q) /\ Tail(q)[l - 1] = q[l]
        BY <3>2, <4>2
      <4>4. Mentions(q[l], t)
        BY <4>2 DEF Asks, Mentions
      <4>5. QED
        BY <1>6, <3>2, <4>3, <4>4
    <3>4. QED
      BY <3>3
  <2>3. CASE t \in new
    <3>1. t \notin AnsweredElsewhere(conn)
      BY <1>6, <2>1, <2>3
    <3>2. (t \notin AnsweredElsewhere(conn))'
      BY <1>10, <1>11, <3>1
    <3>3. QED
      BY <1>8, <2>1, <2>2, <2>3, <3>2 DEF Standing, Covered
  <2>4. CASE t \notin new
    <3>1. ids[conn] \in subs[t] /\ t \notin m.tiles /\ (t \in kept => t \in kept')
      BY <1>2, <1>3, <1>6, <2>1, <2>4
    <3>2. Standing(t) /\ Covered(t)
      BY <1>9, <3>1, InvParts DEF Tracking
    <3>3. (t \notin AnsweredElsewhere(conn))'
      BY <1>10, <1>11, <3>2 DEF Standing
    <3>4. Standing(t)'
      BY <1>8, <2>1, <2>2, <2>4, <3>3 DEF Standing
    <3>5. pump[conn].todo = {} /\ pump[conn].batch = {} /\ pump'[conn].batch = {}
      BY <1>5, <1>11, <2>1 DEF Idle
    <3>6. Covered(t)'
      BY <1>4, <1>8, <3>2, <3>5 DEF Covered, client
    <3>7. QED
      BY <3>4, <3>6
  <2>5. QED
    BY <2>3, <2>4
<1>12. CASE c # conn
  <2>1. pump'[conn] = pump[conn]
    BY <1>3, <1>12
  <2>2. (i = ids[conn] => t \notin m.tiles) /\ (t \in kept => t \in kept')
    BY <1>3, <1>6, <1>12
  <2>3. ids[conn] \in subs[t]
    BY <1>3, <1>6, <2>2
  <2>4. Settled(t)
    BY <1>9, <1>12, <2>2, <2>3
  <2>5. Standing(t)
    BY <2>4, InvParts DEF Tracking
  <2>6. (t \notin AnsweredElsewhere(conn))'
    BY <1>3, <1>10, <2>2, <2>5 DEF Standing
  <2>7. res'[ids[conn]] = res[ids[conn]]
    <3>1. CASE i = ids[conn]
      BY <1>3, <1>5, <1>6, <1>7, <1>12, <2>3, <3>1
    <3>2. CASE i # ids[conn]
      BY <1>3, <3>2
    <3>3. QED
      BY <3>1, <3>2
  <2>8. QED
    BY <1>4, <1>8, <2>1, <2>4, <2>6, <2>7, Undisturbed, InvParts DEF client
<1>13. QED
  BY <1>11, <1>12

\* A tile that is read is on its way from then on; a full tile of the round,
\* of the same version, has all that is not marked.
LEMMA ReadTileTracks ==
    ASSUME MinimapInv, NEW c \in Link, ReadTile(c), NEW t \in Tile, Settled(t)'
    PROVE  (Standing(t) /\ Covered(t))'
<1>1. UNCHANGED <<board, ids, subs, res, tiles, casts, up, down, client, notes>>
  BY DEF ReadTile
<1>2. Settled(t)
  BY <1>1 DEF Settled, client, notes
<1>3. Standing(t) /\ Covered(t) /\ connected /\ t \notin restarted
  BY <1>2, InvParts DEF Tracking, Settled
<1>4. PICK u \in pump[c].todo :
         LET f == [tile |-> u, version |-> tiles[u].version, res |-> pump[c].res, cells |-> board[u]]
         IN  /\ u \in Tile /\ f \in TilePicture
             /\ \A d \in Link : d # c => pump'[d] = pump[d]
             /\ pump'[c].to = pump[c].to /\ pump'[c].res = pump[c].res
             /\ pump'[c].todo = pump[c].todo \ {u}
             /\ pump'[c].batch = IF board[u] = {} THEN pump[c].batch ELSE pump[c].batch \cup {f}
  BY ReadTileEffect, InvParts
<1>a. PICK f : f = [tile |-> u, version |-> tiles[u].version, res |-> pump[c].res, cells |-> board[u]]
  OBVIOUS
<1>5. /\ f.tile = u /\ f.version = tiles[u].version /\ f.res = pump[c].res /\ f.cells = board[u]
      /\ pump'[c].batch = IF board[u] = {} THEN pump[c].batch ELSE pump[c].batch \cup {f}
  BY <1>4, <1>a
<1>6. FullCasts' = FullCasts /\ DeltaCasts' = DeltaCasts /\ conn' = conn /\ ids' = ids /\ resolution' = resolution
  BY <1>1 DEF FullCasts, DeltaCasts, CastsTo, client
<1>7. (t \notin AnsweredElsewhere(conn))'
  <2>1. t \notin AnsweredElsewhere(conn)
    BY <1>3 DEF Standing
  <2>2. ASSUME NEW d \in Link \ {conn}, pump'[d].to = ids[conn]
        PROVE  /\ pump[d].to = ids[conn]
               /\ t \in pump'[d].todo \cup {g.tile : g \in pump'[d].batch} =>
                     t \in pump[d].todo \cup {g.tile : g \in pump[d].batch}
    <3>1. CASE d = c
      BY <1>4, <1>5, <2>2, <3>1
    <3>2. CASE d # c
      <4>1. pump'[d] = pump[d]
        BY <1>4, <3>2
      <4>2. QED
        BY <2>2, <4>1
    <3>3. QED
      BY <3>1, <3>2
  <2>3. QED
    BY <1>6, <2>1, <2>2, ElsewhereLess
<1>8. CASE c # conn
  <2>1. pump'[conn] = pump[conn]
    BY <1>3, <1>4, <1>8, PieceTypes, InvParts
  <2>2. QED
    BY <1>1, <1>2, <1>6, <1>7, <2>1, Undisturbed, InvParts DEF client
<1>9. CASE c = conn
  <2>1. Standing(t)'
    BY <1>1, <1>3, <1>4, <1>6, <1>7, <1>9 DEF Standing
  <2>2. CASE u # t
    <3>1. /\ pump[conn].batch \subseteq pump'[conn].batch
          /\ \A g \in pump'[conn].batch \ pump[conn].batch : g.tile # t
          /\ t \in pump[conn].todo => t \in pump'[conn].todo
      BY <1>4, <1>5, <1>9, <2>2
    <3>2. ASSUME NEW x, Carried(shown[t], frames, down, pump[conn].batch, FullCasts, DeltaCasts, t, resolution, x)
          PROVE  Carried(shown[t], frames, down, pump'[conn].batch, FullCasts, DeltaCasts, t, resolution, x)
      BY <3>1, <3>2, ForeignCarried
    <3>3. Covered(t)'
      BY <1>1, <1>3, <1>6, <3>1, <3>2 DEF Covered, client
    <3>4. QED
      BY <2>1, <3>3
  <2>3. CASE u = t
    <3>1. f.tile = t /\ f.version = tiles[t].version /\ f.res = resolution /\ f.cells = board[t]
      BY <1>3, <1>4, <1>5, <1>9, <2>3 DEF Standing
    <3>2. ASSUME NEW x \in board[t], x \notin tiles[t].dirty
          PROVE  Carried(shown[t], frames, down, pump'[conn].batch, FullCasts, DeltaCasts, t, resolution, x)
      <4>1. f \in pump'[conn].batch
        BY <1>5, <1>9, <2>3, <3>2
      <4>2. LackBefore(FullCasts, t, resolution, x, f.version)
        BY <1>3, <3>1, <3>2, InvParts DEF LackBefore, Mine, FullCasts, CastsTo, Round
      <4>3. TakenBy(DeltasIn(down) \cup DeltaCasts, t, resolution, x, f.version)
        BY <1>3, <3>1, VersionsBehind, InvParts DEF TakenBy, Mine
      <4>4. Brings(f, FullCasts, down, DeltaCasts, t, resolution, x)
        BY <3>1, <3>2, <4>2, <4>3 DEF Brings, Mine
      <4>5. QED
        BY <4>1, <4>4 DEF Carried, BroughtUnsent
    <3>3. Covered(t)'
      BY <1>1, <1>6, <3>2 DEF Covered, client
    <3>4. QED
      BY <2>1, <3>3
  <2>4. QED
    BY <2>2, <2>3
<1>10. QED
  BY <1>8, <1>9

\* The batch of the last connection joins the queue to the client; the batches
\* of the others have nothing about the tile.
LEMMA SendBatchTracks ==
    ASSUME MinimapInv, NEW c \in Link, SendBatch(c), NEW t \in Tile, Settled(t)'
    PROVE  (Standing(t) /\ Covered(t))'
<1>1. UNCHANGED <<board, ids, subs, res, tiles, casts, up, client, notes>>
  BY DEF SendBatch
<1>2. Settled(t)
  BY <1>1 DEF Settled, client, notes
<1>3. Standing(t) /\ Covered(t) /\ connected /\ conn \in Link /\ pump \in [Link -> Goroutine] /\ down \in Seq(ToClient)
  BY <1>2, PieceTypes, InvParts DEF Tracking, Settled, ServerTypes
<1>4. /\ pump[c].busy /\ pump[c].todo = {} /\ pump' = [pump EXCEPT ![c] = Idle]
      /\ pump[c].to = ids[c] /\ ids[c] # NoId
  BY InvParts DEF SendBatch, Goroutines
<1>5. FullCasts' = FullCasts /\ DeltaCasts' = DeltaCasts /\ conn' = conn /\ ids' = ids /\ resolution' = resolution
  BY <1>1 DEF FullCasts, DeltaCasts, CastsTo, client
<1>6. (t \notin AnsweredElsewhere(conn))'
  <2>1. t \notin AnsweredElsewhere(conn)
    BY <1>3 DEF Standing
  <2>2. ASSUME NEW d \in Link \ {conn}, pump'[d].to = ids[conn]
        PROVE  \/ t \notin pump'[d].todo \cup {g.tile : g \in pump'[d].batch}
               \/ /\ pump[d].to = ids[conn]
                  /\ t \in pump'[d].todo \cup {g.tile : g \in pump'[d].batch} =>
                        t \in pump[d].todo \cup {g.tile : g \in pump[d].batch}
    <3>1. CASE d = c
      BY <1>3, <1>4, <3>1 DEF Idle
    <3>2. CASE d # c
      <4>1. pump'[d] = pump[d]
        BY <1>4, <3>2
      <4>2. QED
        BY <2>2, <4>1
    <3>3. QED
      BY <3>1, <3>2
  <2>3. QED
    BY <1>5, <2>1, <2>2, ElsewhereLess
<1>7. PICK m : m = [is |-> "batch", tiles |-> pump[c].batch]
  OBVIOUS
<1>8. m \in BatchMessage /\ m.tiles = pump[c].batch
  BY <1>7, BatchIsHonest, InvParts
<1>9. IF pump[c].batch # {} /\ ids[conn] = ids[c] THEN down' = Append(down, m) ELSE down' = down
  <2>1. pump[c].batch = {} => down' = down
    BY DEF SendBatch
  <2>2. pump[c].batch # {} => ToPlayer(ids[c], m)
    BY <1>4, <1>7 DEF SendBatch
  <2>3. QED
    BY <1>3, <2>1, <2>2, ToPlayerAppends
<1>10. CASE c = conn
  <2>1. pump'[conn] = Idle
    BY <1>3, <1>4, <1>10
  <2>2. Standing(t)'
    BY <1>1, <1>3, <1>5, <1>6, <2>1 DEF Standing, Idle
  <2>3. ASSUME NEW x, Carried(shown[t], frames, down, pump[conn].batch, FullCasts, DeltaCasts, t, resolution, x)
        PROVE  Carried(shown[t], frames, down', {}, FullCasts, DeltaCasts, t, resolution, x)
    <3>1. CASE pump[c].batch = {}
      BY <1>9, <1>10, <2>3, <3>1
    <3>2. CASE pump[c].batch # {}
      <4>1. Carried(shown[t], frames, Append(down, m), {}, FullCasts, DeltaCasts, t, resolution, x)
        BY <1>3, <1>8, <1>10, <2>3, SendBatchCarried
      <4>2. QED
        BY <1>9, <1>10, <3>2, <4>1
    <3>3. QED
      BY <3>1, <3>2
  <2>4. Covered(t)'
    BY <1>1, <1>3, <1>4, <1>5, <1>10, <2>1, <2>3 DEF Covered, Idle, client
  <2>5. QED
    BY <2>2, <2>4
<1>11. CASE c # conn
  <2>1. pump'[conn] = pump[conn]
    BY <1>3, <1>4, <1>11
  <2>2. Standing(t)'
    BY <1>1, <1>3, <1>5, <1>6, <2>1 DEF Standing
  <2>3. ASSUME NEW x, Carried(shown[t], frames, down, pump[conn].batch, FullCasts, DeltaCasts, t, resolution, x)
        PROVE  Carried(shown[t], frames, down', pump[conn].batch, FullCasts, DeltaCasts, t, resolution, x)
    <3>1. CASE pump[c].batch # {} /\ ids[conn] = ids[c]
      <4>1. \A f \in m.tiles : f.tile # t
        BY <1>3, <1>4, <1>8, <1>11, <3>1 DEF Standing, AnsweredElsewhere
      <4>2. Carried(shown[t], frames, Append(down, m), pump[conn].batch, FullCasts, DeltaCasts, t, resolution, x)
        BY <1>3, <1>8, <2>3, <4>1, ForeignMessageCarried
      <4>3. QED
        BY <1>9, <3>1, <4>2
    <3>2. QED
      BY <1>9, <2>3, <3>1
  <2>4. Covered(t)'
    BY <1>1, <1>3, <1>5, <2>1, <2>3 DEF Covered, client
  <2>5. QED
    BY <2>2, <2>4
<1>12. QED
  BY <1>10, <1>11

\* The copies that a delta makes, for a tile the client is subscribed to.
LEMMA DeltaOfTile ==
    ASSUME MinimapTypes, NEW t \in active, NEW m \in DeltaMessage, m.version # 0, m.tile = t
    PROVE  /\ m.res # resolution => Delta(m) = shown[t]
           /\ m.res = resolution =>
                 IF shown[t].res = resolution /\ m.version <= shown[t].version THEN Delta(m) = shown[t]
                 ELSE /\ Delta(m).version = m.version /\ Delta(m).res = resolution
                      /\ Delta(m).cells = ((IF shown[t].res = resolution THEN shown[t].cells ELSE {})
                                              \ m.area) \cup m.cells
BY DeltaEffect DEF Meant

\* The client draws the pictures of a frame; one that comes after a newer delta
\* is noted.
LEMMA DrawFrameTracks ==
    ASSUME MinimapInv, DrawFrame, NEW t \in Tile, Settled(t)'
    PROVE  (Standing(t) /\ Covered(t))'
<1>1. UNCHANGED <<server, up, down, conn, connected, desired, active, resolution, resubscribe, kept, restarted>>
  BY DEF DrawFrame
<1>2. t \notin overtaken' /\ overtaken \subseteq overtaken'
  BY DEF Settled, DrawFrame
<1>3. Settled(t)
  BY <1>1, <1>2 DEF Settled, server
<1>4. Standing(t) /\ Covered(t) /\ connected /\ t \in active
  BY <1>3, InvParts DEF Tracking, Settled
<1>5. /\ FullCasts' = FullCasts /\ DeltaCasts' = DeltaCasts
      /\ FullCasts \in SUBSET FullMessage /\ DeltaCasts \in SUBSET DeltaMessage
  BY <1>1, CastsToTypes, InvParts DEF FullCasts, DeltaCasts, CastsTo, server
<1>6. Standing(t)'
  BY <1>1, <1>4 DEF Standing, AnsweredElsewhere, server
<1>7. /\ frames # <<>> /\ frames' = Tail(frames)
      /\ \A f \in Head(frames) : Meant(f) /\ f.tile = t => ~ TooOld(f)
      /\ \/ /\ shown'[t] = shown[t]
            /\ \A f \in Head(frames) : f.tile = t /\ Meant(f) => TooOld(f)
         \/ \E f \in Head(frames) :
               /\ f.tile = t /\ Meant(f) /\ ~ TooOld(f)
               /\ shown'[t] = [version |-> f.version, cells |-> f.cells, res |-> f.res]
  BY <1>2, DrawEffect, InvParts
<1>8. /\ frames \in Seq(SUBSET AllPictures) /\ down \in Seq(ToClient) /\ pump[conn].batch \in SUBSET TilePicture
      /\ shown[t].version \in Nat /\ Head(frames) \in SUBSET AllPictures
  BY <1>4, <1>7, PieceTypes, DrawEffect, InvParts
<1>9. OnePerTile(Head(frames))
  <2>1. 1 \in DOMAIN frames /\ frames[1] = Head(frames)
    BY <1>7, <1>8
  <2>2. QED
    BY <2>1, InvParts DEF FramesHonest
<1>10. \A f \in Head(frames) : Mine(f, t, resolution) <=> f.tile = t /\ Meant(f)
  BY <1>4 DEF Mine, Meant
<1>11. PICK s2 : s2 = shown'[t]
  OBVIOUS
<1>12. \/ s2 = shown[t] /\ \A f \in Head(frames) : ~ Mine(f, t, resolution)
       \/ \E f \in Head(frames) : /\ Mine(f, t, resolution) /\ shown[t].version <= f.version
                                  /\ s2.version = f.version /\ s2.cells = f.cells /\ s2.res = f.res
  <2>1. CASE s2 = shown[t] /\ \A f \in Head(frames) : f.tile = t /\ Meant(f) => TooOld(f)
    BY <1>7, <1>10, <2>1
  <2>2. ASSUME NEW f \in Head(frames), f.tile = t, Meant(f), ~ TooOld(f),
               s2 = [version |-> f.version, cells |-> f.cells, res |-> f.res]
        PROVE  /\ Mine(f, t, resolution) /\ shown[t].version <= f.version
               /\ s2.version = f.version /\ s2.cells = f.cells /\ s2.res = f.res
    <3>1. f.version \in Nat
      BY <1>8, <2>2, PictureFields
    <3>2. shown[t].version <= f.version
      BY <1>8, <2>2, <3>1 DEF TooOld
    <3>3. QED
      BY <1>10, <2>2, <3>2
  <2>3. QED
    BY <1>7, <1>11, <2>1, <2>2
<1>13. ASSUME NEW x, Carried(shown[t], frames, down, pump[conn].batch, FullCasts, DeltaCasts, t, resolution, x)
       PROVE  Carried(s2, Tail(frames), down, pump[conn].batch, FullCasts, DeltaCasts, t, resolution, x)
  BY <1>5, <1>7, <1>8, <1>9, <1>12, <1>13, DrawCarried
<1>14. Covered(t)'
  BY <1>1, <1>4, <1>5, <1>7, <1>11, <1>13 DEF Covered, server
<1>15. QED
  BY <1>6, <1>14

\* A message arrives: pictures wait for a frame, a delta is applied at once.
LEMMA ReceiveTracks ==
    ASSUME MinimapInv, Receive, NEW t \in Tile, Settled(t)'
    PROVE  (Standing(t) /\ Covered(t))'
<1>1. UNCHANGED <<given, server, up, conn, connected, desired, active, resolution, resubscribe, notes>>
  BY DEF Receive
<1>2. Settled(t)
  BY <1>1 DEF Settled, server, notes
<1>3. Standing(t) /\ Covered(t) /\ connected /\ t \in active
  BY <1>2, InvParts DEF Tracking, Settled
<1>4. /\ FullCasts' = FullCasts /\ DeltaCasts' = DeltaCasts
      /\ FullCasts \in SUBSET FullMessage /\ DeltaCasts \in SUBSET DeltaMessage
  BY <1>1, CastsToTypes, InvParts DEF FullCasts, DeltaCasts, CastsTo, server
<1>5. Standing(t)'
  BY <1>1, <1>3 DEF Standing, AnsweredElsewhere, server
<1>6. /\ down # <<>> /\ down' = Tail(down) /\ Head(down) \in ToClient
      /\ Head(down).is # "delta" => frames' = Append(frames, Fulls(Head(down))) /\ shown' = shown
      /\ Head(down).is = "delta" => /\ frames' = frames
                                    /\ shown' = [shown EXCEPT ![Head(down).tile] = Delta(Head(down))]
  BY ReceiveEffect, InvParts
<1>7. /\ frames \in Seq(SUBSET AllPictures) /\ down \in Seq(ToClient) /\ pump[conn].batch \in SUBSET TilePicture
      /\ shown[t].version \in Nat
  BY <1>3, PieceTypes, InvParts
<1>8. CASE Head(down).is # "delta"
  <2>1. ASSUME NEW x, Carried(shown[t], frames, down, pump[conn].batch, FullCasts, DeltaCasts, t, resolution, x)
        PROVE  Carried(shown[t], frames', down', pump[conn].batch, FullCasts, DeltaCasts, t, resolution, x)
    <3>1. Carried(shown[t], Append(frames, Fulls(Head(down))), Tail(down), pump[conn].batch, FullCasts, DeltaCasts,
                  t, resolution, x)
      BY <1>6, <1>7, <1>8, <2>1, ReceivePicturesCarried
    <3>2. QED
      BY <1>6, <1>8, <3>1
  <2>2. Covered(t)'
    BY <1>1, <1>3, <1>4, <1>6, <1>8, <2>1 DEF Covered, server
  <2>3. QED
    BY <1>5, <2>2
<1>9. CASE Head(down).is = "delta"
  <2>1. PICK m, s2 : m = Head(down) /\ s2 = shown'[t]
    OBVIOUS
  <2>2. m \in DeltaMessage /\ m.version # 0
    <3>1. 1 \in DOMAIN down /\ down[1] = m
      BY <1>6, <1>7, <2>1
    <3>2. QED
      BY <1>6, <1>9, <2>1, <3>1, MessageKinds, InvParts DEF DownHonest
  <2>3. s2 = IF m.tile = t THEN Delta(m) ELSE shown[t]
    BY <1>6, <1>9, <2>1, InvParts DEF ClientTypes
  <2>4. /\ ~ Mine(m, t, resolution) => s2 = shown[t]
        /\ Mine(m, t, resolution) =>
              IF shown[t].res = resolution /\ m.version <= shown[t].version THEN s2 = shown[t]
              ELSE /\ s2.version = m.version /\ s2.res = resolution
                   /\ s2.cells = ((IF shown[t].res = resolution THEN shown[t].cells ELSE {}) \ m.area) \cup m.cells
    <3>1. CASE m.tile = t
      <4>1. s2 = Delta(m)
        BY <2>3, <3>1
      <4>2. Mine(m, t, resolution) <=> m.res = resolution
        BY <3>1 DEF Mine
      <4>3. /\ m.res # resolution => Delta(m) = shown[t]
            /\ m.res = resolution =>
                  IF shown[t].res = resolution /\ m.version <= shown[t].version THEN Delta(m) = shown[t]
                  ELSE /\ Delta(m).version = m.version /\ Delta(m).res = resolution
                       /\ Delta(m).cells = ((IF shown[t].res = resolution THEN shown[t].cells ELSE {})
                                               \ m.area) \cup m.cells
        BY <1>3, <2>2, <3>1, DeltaOfTile, InvParts
      <4>4. QED
        BY <4>1, <4>2, <4>3
    <3>2. CASE m.tile # t
      BY <2>3, <3>2 DEF Mine
    <3>3. QED
      BY <3>1, <3>2
  <2>5. ASSUME NEW x, Carried(shown[t], frames, down, pump[conn].batch, FullCasts, DeltaCasts, t, resolution, x)
        PROVE  Carried(s2, frames, Tail(down), pump[conn].batch, FullCasts, DeltaCasts, t, resolution, x)
    BY <1>4, <1>6, <1>7, <1>9, <2>1, <2>4, <2>5, ReceiveDeltaCarried
  <2>6. Covered(t)'
    BY <1>1, <1>3, <1>4, <1>6, <1>9, <2>1, <2>5 DEF Covered, server
  <2>7. QED
    BY <1>5, <2>6
<1>10. QED
  BY <1>8, <1>9

\* What ends subscriptions or drops what an id has: a tile that the client is
\* subscribed to afterwards was so before, and nothing about it has changed.
LEMMA ServerTracks ==
    ASSUME MinimapInv, NEW t \in Tile, Settled(t)', UNCHANGED <<board, casts, pump, down, client, overtaken>>,
           ids'[conn] = ids[conn], ids[conn] \in subs[t], res'[ids[conn]] = res[ids[conn]],
           tiles'[t] = tiles[t], t \in kept => t \in kept', restarted \subseteq restarted',
           \A k \in DOMAIN up[conn] :
              Mentions(up[conn][k], t) => \E l \in DOMAIN up'[conn] : Mentions(up'[conn][l], t)
    PROVE  (Standing(t) /\ Covered(t))'
<1>1. conn' = conn /\ resolution' = resolution /\ shown' = shown /\ frames' = frames
  BY DEF client
<1>2. connected /\ t \in active /\ t \notin kept
  BY DEF Settled, client
<1>3. Settled(t)
  BY <1>1, <1>2, SettledBefore
<1>4. (t \notin AnsweredElsewhere(conn))'
  BY <1>1, <1>3, ElsewhereSame, InvParts DEF Tracking, Standing
<1>5. QED
  BY <1>1, <1>3, <1>4, Undisturbed, InvParts

LEMMA KeepOnlyTracks ==
    ASSUME MinimapInv, NEW c \in Link, Unsubscribe(c) \/ Join(c) \/ RemovePlayer(c), NEW t \in Tile, Settled(t)'
    PROVE  (Standing(t) /\ Covered(t))'
<1>1. UNCHANGED <<board, casts, pump, down, client, overtaken>>
  BY DEF Unsubscribe, Join, RemovePlayer
<1>2. connected /\ conn' = conn /\ t \in active /\ t \notin kept' /\ ids'[conn] \in subs'[t]
  BY <1>1 DEF Settled, client
<1>3. /\ conn \in Link /\ ids \in [Link -> SubId \cup {NoId}] /\ up \in [Link -> Seq(ClientRequest)]
      /\ res \in [SubId -> Resolution]
  BY <1>2, PieceTypes, InvParts DEF ServerTypes, ClientTypes
<1>4. ASSUME NEW s, KeepOnly(s), ids'[conn] \in s[t]
      PROVE  tiles'[t] = tiles[t] /\ restarted \subseteq restarted'
  BY <1>4, KeepOnlyTiles, InvParts
<1>5. CASE Unsubscribe(c)
  <2>1. PICK gone : gone = Head(up[c]).tiles
    OBVIOUS
  <2>2. PICK s : s = [u \in Tile |-> IF u \in gone THEN subs[u] \ {ids[c]} ELSE subs[u]]
    OBVIOUS
  <2>3. Take(c, "unsubscribe") /\ KeepOnly(s) /\ ids' = ids /\ res' = res /\ kept' = kept
    BY <1>5, <2>1, <2>2 DEF Unsubscribe
  <2>4. ids[conn] \in s[t] /\ ids'[conn] = ids[conn]
    BY <1>2, <2>3 DEF KeepOnly
  <2>5. ids[conn] \in subs[t] /\ (c = conn => t \notin gone)
    BY <2>2, <2>4
  <2>6. c = conn => ~ Mentions(Head(up[c]), t)
    BY <2>1, <2>5 DEF Mentions
  <2>7. \A k \in DOMAIN up[conn] :
           Mentions(up[conn][k], t) => \E l \in DOMAIN up'[conn] : Mentions(up'[conn][l], t)
    BY <1>2, <2>3, <2>6, TakeMentions, InvParts
  <2>8. tiles'[t] = tiles[t] /\ restarted \subseteq restarted'
    BY <1>4, <2>3, <2>4
  <2>9. QED
    BY <1>1, <2>3, <2>4, <2>5, <2>7, <2>8, ServerTracks
<1>6. ASSUME NEW i, i = ids[c], Forget(i), ids'[conn] = ids[conn], ids[conn] \in SubId, t \in kept => t \in kept',
             \A k \in DOMAIN up[conn] :
                Mentions(up[conn][k], t) => \E l \in DOMAIN up'[conn] : Mentions(up'[conn][l], t)
      PROVE  (Standing(t) /\ Covered(t))'
  <2>1. PICK s : s = Without(i)
    OBVIOUS
  <2>2. KeepOnly(s) /\ res' = [res EXCEPT ![i] = Finest] /\ s[t] = subs[t] \ {i}
    BY <1>6, <2>1 DEF Forget, Without
  <2>3. ids'[conn] \in s[t]
    BY <1>2, <2>2 DEF KeepOnly
  <2>4. ids[conn] \in subs[t] /\ ids[conn] # i
    BY <1>6, <2>2, <2>3
  <2>5. res'[ids[conn]] = res[ids[conn]]
    BY <2>2, <2>4
  <2>6. tiles'[t] = tiles[t] /\ restarted \subseteq restarted'
    BY <1>4, <2>2, <2>3
  <2>7. QED
    BY <1>1, <1>6, <2>4, <2>5, <2>6, ServerTracks
<1>7. CASE Join(c)
  <2>1. Take(c, "join") /\ Head(up[c]).is = "join"
    BY <1>7 DEF Join, Take
  <2>2. \A k \in DOMAIN up[conn] :
           Mentions(up[conn][k], t) => \E l \in DOMAIN up'[conn] : Mentions(up'[conn][l], t)
    <3>1. ~ Mentions(Head(up[c]), t)
      BY <2>1 DEF Mentions
    <3>2. QED
      BY <1>2, <2>1, <3>1, TakeMentions, InvParts
  <2>3. CASE ids[c] = Player
    <3>1. UNCHANGED <<ids, subs, tiles, res, kept, restarted>>
      BY <1>7, <2>3 DEF Join
    <3>2. ids[conn] \in subs[t] /\ ids'[conn] = ids[conn]
      BY <1>2, <3>1
    <3>3. QED
      BY <1>1, <2>2, <3>1, <3>2, ServerTracks
  <2>4. CASE ids[c] # Player
    <3>1. /\ ids' = [ids EXCEPT ![c] = Player] /\ Forget(ids[c])
          /\ kept' = IF c = conn THEN kept \cup {u \in Tile : Player \in subs[u]} ELSE kept
      BY <1>2, <1>7, <2>4 DEF Join
    <3>2. c # conn
      <4>1. ASSUME c = conn  PROVE FALSE
        <5>1. ids'[conn] = Player
          BY <1>3, <3>1, <4>1
        <5>2. subs'[t] = subs[t] \ {ids[c]}
          BY <3>1 DEF Forget, KeepOnly, Without
        <5>3. Player \in subs[t]
          BY <1>2, <5>1, <5>2
        <5>4. QED
          BY <1>2, <3>1, <4>1, <5>3
      <4>2. QED
        BY <4>1
    <3>3. ids'[conn] = ids[conn] /\ ids[conn] \in SubId /\ kept' = kept
      BY <1>2, <1>3, <3>1, <3>2, OwnId
    <3>4. QED
      BY <1>6, <2>2, <3>1, <3>3
  <2>5. QED
    BY <2>3, <2>4
<1>8. CASE RemovePlayer(c)
  <2>1. /\ c # conn /\ ids' = [ids EXCEPT ![c] = NoId] /\ up' = [up EXCEPT ![c] = <<>>] /\ kept' = kept
    BY <1>2, <1>8 DEF RemovePlayer
  <2>2. ids'[conn] = ids[conn] /\ up'[conn] = up[conn] /\ ids[conn] \in SubId
    BY <1>2, <1>3, <2>1, OwnId
  <2>3. CASE UNCHANGED <<subs, tiles, count, res, queued, restarted>>
    <3>1. ids[conn] \in subs[t]
      BY <1>2, <2>2, <2>3
    <3>2. QED
      BY <1>1, <2>1, <2>2, <2>3, <3>1, ServerTracks
  <2>4. CASE Forget(ids[c])
    BY <1>6, <2>1, <2>2, <2>4
  <2>5. QED
    BY <1>8, <2>3, <2>4 DEF RemovePlayer
<1>9. QED
  BY <1>5, <1>7, <1>8

LEMMA OtherTracks ==
    ASSUME MinimapInv, NEW u \in given.scope, OtherSubscribes(u) \/ OtherLeaves(u), NEW t \in Tile, Settled(t)'
    PROVE  (Standing(t) /\ Covered(t))'
<1>1. UNCHANGED <<board, casts, pump, down, client, overtaken, ids, res, up, kept>>
  BY DEF OtherSubscribes, OtherLeaves, notes
<1>2. connected /\ conn' = conn /\ ids[conn] \in subs'[t]
  BY <1>1 DEF Settled, client
<1>3. ids[conn] # Other
  BY <1>2, OwnId
<1>4. /\ subs \in [Tile -> SUBSET SubId]
  BY InvParts DEF ServerTypes
<1>5. CASE OtherSubscribes(u)
  <2>1. subs' = [subs EXCEPT ![u] = @ \cup {Other}] /\ tiles' = tiles /\ restarted' = restarted
    BY <1>5 DEF OtherSubscribes, notes
  <2>2. ids[conn] \in subs[t]
    BY <1>2, <1>3, <1>4, <2>1
  <2>3. QED
    BY <1>1, <2>1, <2>2, ServerTracks
<1>6. CASE OtherLeaves(u)
  <2>1. PICK s : s = [subs EXCEPT ![u] = @ \ {Other}]
    OBVIOUS
  <2>2. KeepOnly(s)
    BY <1>6, <2>1 DEF OtherLeaves
  <2>3. ids[conn] \in s[t]
    BY <1>2, <2>2 DEF KeepOnly
  <2>4. ids[conn] \in subs[t]
    BY <1>4, <2>1, <2>3
  <2>5. tiles'[t] = tiles[t] /\ restarted \subseteq restarted'
    BY <2>2, <2>3, KeepOnlyTiles, InvParts
  <2>6. QED
    BY <1>1, <2>4, <2>5, ServerTracks
<1>7. QED
  BY <1>5, <1>6

\* A tile asked for is not settled until the request is taken up; the others
\* keep their copies.
LEMMA RequestsTrack ==
    ASSUME MinimapInv, connected, NEW add \in SUBSET Tile, NEW del \in SUBSET Tile, NEW r \in Resolution,
           Requests(add, del, r), UNCHANGED <<server, down, conn, frames, notes>>, resolution' = r,
           NEW t \in Tile, Settled(t)', t \notin add => t \in active /\ r = resolution /\ shown'[t] = shown[t]
    PROVE  (Standing(t) /\ Covered(t))'
<1>1. /\ \A k \in DOMAIN up[conn] : k \in DOMAIN up'[conn] /\ up'[conn][k] = up[conn][k]
      /\ add # {} => \E k \in DOMAIN up'[conn] :
                        k > Len(up[conn]) /\ up'[conn][k] = [is |-> "subscribe", tiles |-> add, res |-> r]
  BY RequestsEffect, InvParts
<1>2. t \notin add
  <2>1. ASSUME t \in add  PROVE FALSE
    <3>1. PICK k \in DOMAIN up'[conn] : up'[conn][k] = [is |-> "subscribe", tiles |-> add, res |-> r]
      BY <1>1, <2>1
    <3>2. Mentions(up'[conn][k], t)
      BY <2>1, <3>1 DEF Mentions
    <3>3. QED
      BY <3>2 DEF Settled
  <2>2. QED
    BY <2>1
<1>3. /\ ids' = ids /\ subs' = subs /\ res' = res /\ pump' = pump /\ board' = board /\ tiles' = tiles /\ casts' = casts
      /\ kept' = kept /\ restarted' = restarted /\ overtaken' = overtaken
  BY DEF server, notes
<1>4. ids[conn] \in subs[t] /\ t \notin kept
  BY <1>3 DEF Settled
<1>5. Settled(t)
  BY <1>1, <1>2, <1>3, <1>4, SettledBefore
<1>6. (t \notin AnsweredElsewhere(conn))'
  BY <1>3, <1>5, ElsewhereSame, InvParts DEF Tracking, Standing
<1>7. QED
  BY <1>2, <1>3, <1>5, <1>6, Undisturbed, InvParts

LEMMA ClientTracks ==
    ASSUME MinimapInv, NEW t \in Tile, Settled(t)',
           \/ \E v \in SUBSET given.scope : ClearSource(v) \/ \E r \in given.scales : View(v, r)
           \/ Open \/ ResubscribeAll \/ AskToJoin \/ Close
    PROVE  (Standing(t) /\ Covered(t))'
<1>0. active \in SUBSET Tile /\ desired \in SUBSET Tile /\ resolution \in Resolution
  BY InvParts DEF ClientTypes
<1>1. ASSUME NEW v \in SUBSET given.scope, NEW r \in given.scales, View(v, r)  PROVE (Standing(t) /\ Covered(t))'
  <2>1. v \in SUBSET Tile /\ r \in Resolution
    BY InvParts DEF ServerTypes, Bounds
  <2>2. PICK add, del : add = (IF r = resolution THEN v \ active ELSE v) /\ del = active \ v
    OBVIOUS
  <2>3. /\ connected /\ Requests(add, del, r) /\ active' = (active \cup add) \ del /\ shown' = Released(del)
        /\ resolution' = r /\ UNCHANGED <<server, down, conn, frames, notes>>
    BY <1>1, <2>2 DEF View
  <2>4. add \in SUBSET Tile /\ del \in SUBSET Tile
    BY <1>0, <2>1, <2>2
  <2>5. t \in active'
    BY DEF Settled
  <2>6. t \notin add => t \in active /\ r = resolution /\ shown'[t] = shown[t]
    BY <2>2, <2>3, <2>5 DEF Released
  <2>7. QED
    BY <2>1, <2>3, <2>4, <2>6, RequestsTrack
<1>2. ASSUME NEW v \in SUBSET given.scope, ClearSource(v)  PROVE (Standing(t) /\ Covered(t))'
  <2>1. connected /\ t \in active'
    BY <1>2 DEF ClearSource, Settled
  <2>2. PICK add, del : add = {} /\ del = active \ v
    OBVIOUS
  <2>3. /\ Requests(add, del, resolution) /\ active' = active \cap v /\ shown' = Released(del)
        /\ resolution' = resolution /\ UNCHANGED <<server, down, conn, frames, notes>>
    BY <1>2, <2>1, <2>2 DEF ClearSource
  <2>4. add \in SUBSET Tile /\ del \in SUBSET Tile /\ t \in active /\ shown'[t] = shown[t]
    BY <1>0, <2>1, <2>2, <2>3 DEF Released
  <2>5. QED
    BY <1>0, <2>1, <2>3, <2>4, RequestsTrack
<1>3. ASSUME ResubscribeAll  PROVE (Standing(t) /\ Covered(t))'
  <2>1. /\ connected /\ Requests(desired, {}, resolution) /\ resolution' = resolution
        /\ active' = IF desired = {} THEN active ELSE desired
        /\ UNCHANGED <<server, down, conn, frames, notes, shown>>
    BY <1>3 DEF ResubscribeAll
  <2>2. t \in active'
    BY DEF Settled
  <2>3. QED
    BY <1>0, <2>1, <2>2, RequestsTrack
<1>4. ASSUME AskToJoin  PROVE (Standing(t) /\ Covered(t))'
  <2>1. UNCHANGED <<server, down, client, notes>> /\ connected
    BY <1>4 DEF AskToJoin
  <2>2. PICK q, j : q = up[conn] /\ j = [is |-> "join"]
    OBVIOUS
  <2>3. q \in Seq(ClientRequest) /\ j \in ClientRequest /\ up' = [up EXCEPT ![conn] = Append(@, j)] /\ conn \in Link
    BY <1>4, <2>1, <2>2, PieceTypes, InvParts DEF AskToJoin, ClientTypes, ClientRequest
  <2>4. up'[conn] = Append(q, j)
    BY <2>2, <2>3, InvParts DEF ClientTypes
  <2>5. \A k \in DOMAIN q : k \in DOMAIN Append(q, j) /\ Append(q, j)[k] = q[k]
    BY <2>3
  <2>6. Settled(t)
    BY <2>1, <2>2, <2>4, <2>5 DEF Settled, server, client, notes
  <2>7. (t \notin AnsweredElsewhere(conn))'
    BY <2>1, <2>6, ElsewhereSame, InvParts DEF Tracking, Standing, server, client
  <2>8. QED
    BY <2>1, <2>6, <2>7, Undisturbed, InvParts DEF server, client
<1>5. ASSUME Open \/ Close  PROVE (Standing(t) /\ Covered(t))'
  BY <1>5 DEF Open, Close, Settled
<1>6. QED
  BY <1>1, <1>2, <1>3, <1>4, <1>5

LEMMA TrackingStep ==
    ASSUME MinimapInv, MinimapNext
    PROVE  Tracking'
<1>1. ASSUME NEW t \in Tile, Settled(t)'  PROVE (Standing(t) /\ Covered(t))'
  <2>1. CASE \E u \in given.scope : \/ OtherSubscribes(u) \/ OtherLeaves(u)
                                    \/ \E D \in SUBSET Cell : Change(u, D)
    BY <1>1, <2>1, OtherTracks, ChangeTracks
  <2>2. CASE Broadcast \/ SendCast
    BY <1>1, <2>2, BroadcastTracks, SendCastTracks
  <2>3. CASE \E c \in Link : \/ Subscribe(c) \/ ReadTile(c) \/ SendBatch(c)
                             \/ Unsubscribe(c) \/ Join(c) \/ RemovePlayer(c)
    BY <1>1, <2>3, SubscribeTracks, ReadTileTracks, SendBatchTracks, KeepOnlyTracks
  <2>4. CASE DrawFrame \/ Receive
    BY <1>1, <2>4, DrawFrameTracks, ReceiveTracks
  <2>5. CASE \/ \E v \in SUBSET given.scope : ClearSource(v) \/ \E r \in given.scales : View(v, r)
             \/ Open \/ ResubscribeAll \/ AskToJoin \/ Close
    BY <1>1, <2>5, ClientTracks
  <2>6. QED
    BY <2>1, <2>2, <2>3, <2>4, <2>5 DEF MinimapNext
<1>2. QED
  BY <1>1 DEF Tracking

-----------------------------------------------------------------------------
(* The theorems. *)

LEMMA MinimapInitInv ==
    ASSUME MinimapInit
    PROVE  MinimapInv /\ CountsAgree
<1>1. NoTile \in TileRecord /\ NoCopy \in Copy /\ Idle \in Goroutine
  BY MinimapAssumption DEF NoTile, TileRecord, NoCopy, Copy, Idle, Goroutine
<1>2. ServerTypes
  BY <1>1, MinimapAssumption DEF MinimapInit, ServerTypes, Bounds
<1>3. ClientTypes
  <2>1. <<>> \in Seq(ClientRequest) /\ <<>> \in Seq(ToClient) /\ <<>> \in Seq(SUBSET (TilePicture \cup FullMessage))
    OBVIOUS
  <2>2. up \in [Link -> Seq(ClientRequest)] /\ down \in Seq(ToClient)
        /\ frames \in Seq(SUBSET (TilePicture \cup FullMessage))
    BY <2>1 DEF MinimapInit
  <2>3. shown \in [Tile -> Copy]
    BY <1>1 DEF MinimapInit
  <2>4. QED
    BY <2>2, <2>3, MinimapAssumption DEF MinimapInit, ClientTypes, Copy
<1>4. Underway
  BY DEF MinimapInit, Underway, BatchesHonest, DownHonest, FramesHonest, CastsHonest, CopiesHonest, OnePerTile,
         Idle, NoCopy, NoTile
<1>5. Goroutines /\ TileState /\ Round /\ Requesting /\ Tracking
  BY DEF MinimapInit, Goroutines, TileState, Round, Requesting, Tracking, Settled, Idle, NoTile
<1>6. CountsAgree
  <2>1. Cardinality({}) = 0
    BY FS_EmptySet
  <2>2. \A i \in SubId : {t \in Tile : i \in subs[t]} = {} /\ count[i] = 0
    BY DEF MinimapInit
  <2>3. QED
    BY <2>1, <2>2 DEF CountsAgree
<1>7. QED
  BY <1>2, <1>3, <1>4, <1>5, <1>6 DEF MinimapInv, MinimapTypes

LEMMA MinimapInvStep ==
    ASSUME MinimapInv, [MinimapNext]_minimapVars
    PROVE  MinimapInv'
<1>1. MinimapTypes' /\ Underway' /\ Goroutines' /\ TileState'
  BY InvParts, MinimapTypesStep, UnderwayStep, GoroutinesStep, TileStateStep
<1>2. CASE MinimapNext
  BY <1>1, <1>2, InvParts, RoundStep, RequestingStep, TrackingStep DEF MinimapInv
<1>3. CASE UNCHANGED minimapVars
  <2>1. Round' /\ Requesting'
    BY <1>3, InvParts DEF Round, Requesting, Unmakes, minimapVars, server, client, notes
  <2>2. ASSUME NEW t \in Tile, Settled(t)'  PROVE (Standing(t) /\ Covered(t))'
    <3>1. Settled(t)
      BY <1>3, <2>2 DEF Settled, minimapVars, server, client, notes
    <3>2. Standing(t) /\ Covered(t)
      BY <3>1, InvParts DEF Tracking
    <3>3. Standing(t)'
      BY <1>3, <3>2 DEF Standing, AnsweredElsewhere, minimapVars, server, client
    <3>4. Covered(t)'
      BY <1>3, <3>2 DEF Covered, FullCasts, DeltaCasts, CastsTo, minimapVars, server, client
    <3>5. QED
      BY <3>3, <3>4
  <2>3. QED
    BY <1>1, <2>1, <2>2 DEF MinimapInv, Tracking
<1>4. QED
  BY <1>2, <1>3

LEMMA CountsInvStep ==
    ASSUME MinimapInv, CountsAgree, [MinimapNext]_minimapVars
    PROVE  CountsAgree'
BY InvParts, CountsStep

\* With everything arrived, a cell that is carried is one the copy has.
LEMMA QuietIsCurrent ==
    ASSUME MinimapInv
    PROVE  ShownIsCurrent
<1>1. SUFFICES ASSUME Quiet, NEW t \in active \ (kept \cup restarted \cup overtaken), ids[conn] \in subs[t]
               PROVE  shown[t].cells = board[t] /\ (board[t] # {} => shown[t].res = resolution)
  BY DEF ShownIsCurrent
<1>2. /\ connected /\ up[conn] = <<>> /\ ~ pump[conn].busy /\ queued = {} /\ casts = {} /\ down = <<>> /\ frames = <<>>
  BY <1>1 DEF Quiet
<1>3. t \in Tile /\ conn \in Link
  BY <1>1, <1>2, InvParts DEF ClientTypes
<1>4. Settled(t)
  BY <1>1, <1>2 DEF Settled
<1>5. pump[conn].todo = {} /\ pump[conn].batch = {}
  BY <1>2, <1>3, InvParts DEF Goroutines, Idle
<1>6. tiles[t].dirty = {}
  BY <1>2, <1>3, InvParts DEF TileState
<1>7. FullCasts = {} /\ DeltaCasts = {}
  BY <1>2 DEF FullCasts, DeltaCasts, CastsTo
<1>8. ASSUME NEW x \in board[t]  PROVE x \in shown[t].cells /\ shown[t].res = resolution
  <2>1. Carried(shown[t], <<>>, <<>>, {}, {}, {}, t, resolution, x)
    BY <1>2, <1>3, <1>4, <1>5, <1>6, <1>7, InvParts DEF Tracking, Covered
  <2>2. /\ ~ BroughtByFrame(<<>>, <<>>, {}, {}, {}, t, resolution, x)
        /\ ~ BroughtByMessage(<<>>, {}, {}, {}, t, resolution, x)
        /\ ~ BroughtUnsent(<<>>, {}, {}, {}, t, resolution, x)
        /\ ~ InDelta(shown[t], <<>>, <<>>, {}, {}, {}, t, resolution, x)
    BY DEF BroughtByFrame, BroughtByMessage, BroughtUnsent, InDelta
  <2>3. Safe(shown[t], <<>>, <<>>, {}, {}, {}, t, resolution, x)
    BY <2>1, <2>2 DEF Carried
  <2>4. QED
    BY <2>3 DEF Safe
<1>9. shown[t].cells \subseteq board[t]
  BY <1>3, InvParts DEF CopiesHonest
<1>10. QED
  BY <1>8, <1>9

\* What the variables hold, what is on the way, and that every cell of a
\* settled tile is marked, shown or on its way (minimap.go, websocket.go,
\* useGameState.js).
THEOREM MinimapInvariant == MinimapSpec => []MinimapInv
<1>1. MinimapInit => MinimapInv
  BY MinimapInitInv
<1>2. MinimapInv /\ [MinimapNext]_minimapVars => MinimapInv'
  BY MinimapInvStep
<1>3. QED
  BY <1>1, <1>2, PTL DEF MinimapSpec

\* minimapSubCount, against which handleMinimapSubscribe enforces the cap, is
\* always the number of tiles the id is subscribed to.
THEOREM CountsAgreeHolds == MinimapSpec => []CountsAgree
<1>1. MinimapInit => CountsAgree
  BY MinimapInitInv
<1>2. MinimapInv /\ CountsAgree /\ [MinimapNext]_minimapVars => CountsAgree'
  BY CountsInvStep
<1>3. QED
  BY <1>1, <1>2, MinimapInvariant, PTL DEF MinimapSpec

\* However subscribers come and go, a tile of minimapTiles has one: nothing is
\* kept for nobody.
THEOREM AllocatedForSubscribersHolds == MinimapSpec => []AllocatedForSubscribers
<1>1. MinimapInv => AllocatedForSubscribers
  BY InvParts DEF TileState, AllocatedForSubscribers, NoTile
<1>2. QED
  BY <1>1, MinimapInvariant, PTL

\* When all that was sent has arrived, the client's minimap shows the board in
\* every tile it is subscribed to, however answers, full tiles and deltas
\* passed each other, but for the tiles of notes.
THEOREM ShownIsCurrentHolds == MinimapSpec => []ShownIsCurrent
<1>1. MinimapInv => ShownIsCurrent
  BY QuietIsCurrent
<1>2. QED
  BY <1>1, MinimapInvariant, PTL

=============================================================================

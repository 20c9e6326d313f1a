---------------------------- MODULE ScreenProofs ----------------------------
(***************************************************************************)
(* NoneForgotten and PictureIsCurrent for every board, every set of views, *)
(* every size of the cache of pictures and every bound: any number of      *)
(* clicks, reveals, syncs and moves under way together.                    *)
(***************************************************************************)
EXTENDS Screen, Induction

\* NoneForgotten is inductive with the type of look.
IInv == look \in [Cell -> {"hidden", "blank", "number"}] /\ NoneForgotten

\* The chunk of a cell that needs a seed is around the chunk of the seed.
LEMMA NeededIsNear ==
    ASSUME NEW c \in Cell, NEW S, NEW ch \in Needs[c], ch \in S
    PROVE  ChunkOf[c] \in Around(S)
<1>1. ChunkOf[c] \in Chunk /\ ch \in ChunkOf[c] - 1 .. ChunkOf[c] + 1
  BY ScreenAssumption
<1>2. ChunkOf[c] \in Int
  BY <1>1, ScreenAssumption
<1>3. ChunkOf[c] - ch \in -1 .. 1
  BY <1>1, <1>2
<1>4. QED
  BY <1>1, <1>3 DEF Around

\* When seeds come, what waited for the last of them is complete.
LEMMA WaitsOn ==
    ASSUME NEW c \in Cell, NEW S, NEW waiting, c \in waiting,
           ~ (Needs[c] \subseteq seeds), c \notin Complete(waiting, S, seeds \cup S)
    PROVE  ~ (Needs[c] \subseteq seeds \cup S)
<1> SUFFICES ASSUME Needs[c] \subseteq seeds \cup S PROVE FALSE
  OBVIOUS
<1>1. PICK ch \in Needs[c] : ch \in S
  OBVIOUS
<1>2. ChunkOf[c] \in Around(S)
  BY <1>1, NeededIsNear
<1>3. QED
  BY <1>2 DEF Complete

LEMMA SyncKeeps == ASSUME IInv, NEW m, ReceiveSync(m) PROVE IInv'
<1> DEFINE known == seeds \cup m.chunks
           blanks == {c \in m.opens : Adjacent(c, known) = "blank"}
           now == Complete(pending \cup blanks, m.chunks, known)
<1>1. /\ seeds' = known /\ guess' = guess /\ left' = left \ m.opens
      /\ pending' = (pending \cup blanks) \ now
      /\ look' = [c \in Cell |-> IF c \in m.opens THEN Adjacent(c, known)
                                 ELSE IF c \in now /\ look[c] # "hidden" THEN "number"
                                 ELSE look[c]]
  BY DEF ReceiveSync
<1>2. \A c \in Cell : Adjacent(c, known) \in {"blank", "number"}
                        /\ (Adjacent(c, known) = "blank" => ~ (Needs[c] \subseteq known))
  BY DEF Adjacent
<1>3. look' \in [Cell -> {"hidden", "blank", "number"}]
  BY <1>1, <1>2 DEF IInv
<1>4. ASSUME NEW c \in Cell, look'[c] = "blank"
      PROVE  c \in Guessed(guess') \cup left' \/ (c \in pending' /\ ~ (Needs[c] \subseteq seeds'))
  <2>1. CASE c \in m.opens
    <3>1. c \in blanks /\ ~ (Needs[c] \subseteq known)
      BY <1>1, <1>2, <1>4, <2>1
    <3>2. c \notin now
      BY <3>1 DEF Complete
    <3>3. QED
      BY <1>1, <3>1, <3>2
  <2>2. CASE c \notin m.opens
    <3>1. look[c] = "blank" /\ c \notin now
      BY <1>1, <1>4, <2>2
    <3>2. CASE c \in Guessed(guess) \cup left
      BY <1>1, <2>2, <3>2
    <3>3. CASE c \in pending /\ ~ (Needs[c] \subseteq seeds)
      <4>1. ~ (Needs[c] \subseteq known)
        BY <3>1, <3>3, WaitsOn
      <4>2. QED
        BY <1>1, <3>1, <3>3, <4>1
    <3>4. QED
      BY <3>1, <3>2, <3>3 DEF IInv, NoneForgotten
  <2>3. QED
    BY <2>1, <2>2
<1>5. QED
  BY <1>3, <1>4 DEF IInv, NoneForgotten

LEMMA SeedsKeep == ASSUME IInv, NEW m, ReceiveSeeds(m) PROVE IInv'
<1> DEFINE known == seeds \cup m.chunks
           done == Complete(pending, m.chunks, known)
<1>1. /\ seeds' = known /\ guess' = guess /\ left' = left
      /\ pending' = pending \ done
      /\ look' = [c \in Cell |-> IF c \in {d \in done : look[d] # "hidden"} THEN "number"
                                 ELSE look[c]]
  BY DEF ReceiveSeeds
<1>2. look' \in [Cell -> {"hidden", "blank", "number"}]
  BY <1>1 DEF IInv
<1>3. ASSUME NEW c \in Cell, look'[c] = "blank"
      PROVE  c \in Guessed(guess') \cup left' \/ (c \in pending' /\ ~ (Needs[c] \subseteq seeds'))
  <2>1. look[c] = "blank" /\ c \notin done
    BY <1>1, <1>3
  <2>2. CASE c \in Guessed(guess) \cup left
    BY <1>1, <2>2
  <2>3. CASE c \in pending /\ ~ (Needs[c] \subseteq seeds)
    <3>1. ~ (Needs[c] \subseteq known)
      BY <2>1, <2>3, WaitsOn
    <3>2. QED
      BY <1>1, <2>1, <2>3, <3>1
  <2>4. QED
    BY <2>1, <2>2, <2>3 DEF IInv, NoneForgotten
<1>4. QED
  BY <1>2, <1>3 DEF IInv, NoneForgotten

LEMMA CastKeeps == ASSUME IInv, NEW m, ReceiveCast(m) PROVE IInv'
<1>1. /\ seeds' = seeds /\ guess' = guess \ Forgotten(m.chunk)
      /\ left' = (left \cup Guessed(Forgotten(m.chunk))) \ m.opens
      /\ look' = [c \in Cell |-> IF c \in m.opens THEN Kept(c, seeds) ELSE look[c]]
      /\ pending' = pending \cup {c \in m.opens : look'[c] = "blank"}
  BY DEF ReceiveCast, seeding, Remembered
<1>2. \A c \in Cell : Kept(c, seeds) \in {"blank", "number"}
                        /\ (Kept(c, seeds) = "blank" => ~ (Needs[c] \subseteq seeds))
  BY DEF Kept, Adjacent
<1>3. look' \in [Cell -> {"hidden", "blank", "number"}]
  BY <1>1, <1>2 DEF IInv
<1>4. ASSUME NEW c \in Cell, look'[c] = "blank"
      PROVE  c \in Guessed(guess') \cup left' \/ (c \in pending' /\ ~ (Needs[c] \subseteq seeds'))
  <2>1. c \notin m.opens /\ c \in Guessed(guess) \cup left => c \in Guessed(guess') \cup left'
    BY <1>1 DEF Guessed
  <2>2. QED
    BY <1>1, <1>2, <1>4, <2>1 DEF IInv, NoneForgotten
<1>5. QED
  BY <1>3, <1>4 DEF IInv, NoneForgotten

\* What a click revealed is hidden again, and what other clicks revealed stays.
LEMMA AckKeeps == ASSUME IInv, NEW m, ReceiveAck(m) PROVE IInv'
<1> DEFINE mine == Asked(m.request)
           was(c) == Reverted(c, m.request)
<1>1. CASE mine = {}
  BY <1>1 DEF ReceiveAck, cells, seeding, IInv, NoneForgotten
<1>2. CASE mine # {}
  <2>1. /\ seeds' = seeds /\ guess' = guess \ mine /\ left' = left \ m.opens
        /\ look' = [c \in Cell |-> IF c \in m.opens /\ was(c) # "number"
                                   THEN Adjacent(c, seeds) ELSE was(c)]
        /\ pending' = pending \cup {c \in m.opens : look'[c] = "blank"}
    BY <1>2 DEF ReceiveAck, seeding, Remembered
  <2>2. \A c \in Cell : /\ Adjacent(c, seeds) \in {"blank", "number"}
                        /\ Adjacent(c, seeds) = "blank" => ~ (Needs[c] \subseteq seeds)
                        /\ was(c) \in {"hidden", "blank", "number"}
                        /\ was(c) = "blank" => look[c] = "blank" /\ c \notin Guessed(mine)
    BY DEF Adjacent, Reverted, IInv
  <2>3. look' \in [Cell -> {"hidden", "blank", "number"}]
    BY <2>1, <2>2
  <2>4. ASSUME NEW c \in Cell, look'[c] = "blank"
        PROVE  c \in Guessed(guess') \cup left' \/ (c \in pending' /\ ~ (Needs[c] \subseteq seeds'))
    <3>1. CASE c \in m.opens
      BY <2>1, <2>2, <2>4, <3>1
    <3>2. CASE c \notin m.opens
      <4>1. look[c] = "blank" /\ c \notin Guessed(mine)
        BY <2>1, <2>2, <2>4, <3>2
      <4>2. c \in Guessed(guess) => c \in Guessed(guess')
        BY <2>1, <4>1 DEF Guessed
      <4>3. QED
        BY <2>1, <3>2, <4>1, <4>2 DEF IInv, NoneForgotten
    <3>3. QED
      BY <3>1, <3>2
  <2>5. QED
    BY <2>3, <2>4 DEF IInv, NoneForgotten
<1>3. QED
  BY <1>1, <1>2

LEMMA ClickKeeps == ASSUME IInv, NEW c \in Cell, Click(c) PROVE IInv'
<1>1. /\ look' = [look EXCEPT ![c] = Adjacent(c, seeds)]
      /\ guess' = guess \cup {[request |-> given.clicks, cell |-> c]}
      /\ UNCHANGED <<pending, left, seeds>>
  BY DEF Click, seeding
<1>2. Adjacent(c, seeds) \in {"blank", "number"}
  BY DEF Adjacent
<1> DEFINE new == [request |-> given.clicks, cell |-> c]
<1>3. Guessed(guess') = Guessed(guess) \cup {c}
  <2>1. new.cell = c /\ guess' = guess \cup {new}
    BY <1>1
  <2> HIDE DEF new
  <2>2. QED
    BY <2>1 DEF Guessed
<1>4. QED
  BY <1>1, <1>2, <1>3 DEF IInv, NoneForgotten

LEMMA EvictKeeps == ASSUME IInv, Evict PROVE IInv'
<1>1. PICK far : /\ look' = [c \in Cell |-> IF ChunkOf[c] \in far THEN "hidden" ELSE look[c]]
                 /\ seeds' = seeds \ far
  BY DEF Evict
<1>2. UNCHANGED <<guess, pending, left>>
  BY DEF Evict
<1>3. QED
  BY <1>1, <1>2 DEF IInv, NoneForgotten

\* The other actions leave cells and seeds alone.
LEMMA RestKeeps == ASSUME IInv, UNCHANGED <<look, guess, pending, left, seeds>> PROVE IInv'
BY DEF IInv, NoneForgotten

LEMMA Begins == Init => IInv
BY DEF Init, IInv, NoneForgotten

LEMMA Goes == IInv /\ [Next]_vars => IInv'
<1> SUFFICES ASSUME IInv, [Next]_vars PROVE IInv'
  OBVIOUS
<1>1. CASE Receive
  <2>1. \/ ReceiveSync(Head(down)) \/ ReceiveCast(Head(down))
        \/ ReceiveAck(Head(down)) \/ ReceiveSeeds(Head(down))
    BY <1>1 DEF Receive
  <2>2. QED
    BY <2>1, SyncKeeps, CastKeeps, AckKeeps, SeedsKeep
<1>2. CASE Serve \/ Flush \/ Effect \/ Frame \/ IdleFrame
  BY <1>2, RestKeeps DEF Serve, Flush, Effect, Frame, IdleFrame, Paint, cells, seeding
<1>3. CASE Move \/ Return \/ Subscribe \/ Other
  BY <1>3, RestKeeps DEF Move, Return, Subscribe, Other, cells, seeding
<1>4. CASE Evict
  BY <1>4, EvictKeeps
<1>5. CASE Break
  BY <1>5 DEF Break, IInv, NoneForgotten
<1>6. ASSUME NEW c \in Cell, Click(c) PROVE IInv'
  BY <1>6, ClickKeeps
<1>7. CASE UNCHANGED vars
  BY <1>7, RestKeeps DEF vars, cells, seeding
<1>8. QED
  BY <1>1, <1>2, <1>3, <1>4, <1>5, <1>6, <1>7 DEF Next, Progress

\* The client never forgets a cell that it shows without its number, in
\* whatever order syncs, broadcasts, answers, seeds and evictions come.
THEOREM NoneForgottenHolds == Spec => []NoneForgotten
<1>1. IInv => NoneForgotten
  BY DEF IInv
<1>2. QED
  BY Begins, Goes, <1>1, PTL DEF Spec

-----------------------------------------------------------------------------
(* The screen. *)

Looks == {"hidden", "blank", "number"}
Pictures == UNION {[S -> Looks] : S \in SUBSET Cell}
Given == [others : Nat, clicks : Nat, syncs : Nat, moves : Nat, evicts : Nat,
          breaks : Nat, refusals : Nat]
Raster == [chunk : Chunk, picture : Pictures, fresh : BOOLEAN]

\* What the server sends opens cells of the chunks it names.
SeedMessage == [is : {"seeds"}, chunks : SUBSET Chunk]
SyncMessage == {m \in [is : {"sync"}, chunks : SUBSET Chunk, opens : SUBSET Cell] :
                    \A c \in m.opens : ChunkOf[c] \in m.chunks}
CastMessage == {m \in [is : {"cast"}, chunk : Chunk, opens : SUBSET Cell] :
                    \A c \in m.opens : ChunkOf[c] = m.chunk}
AckMessage == [is : {"ack"}, request : Nat, opens : SUBSET Cell]
Upward == SeedMessage \cup [is : {"click"}, cell : Cell, request : Nat]
Downward == SeedMessage \cup SyncMessage \cup CastMessage \cup AckMessage

Typed ==
    /\ given \in Given
    /\ look \in [Cell -> Looks]
    /\ board \subseteq Cell /\ subs \subseteq Chunk
    /\ seeds \subseteq Chunk /\ wanted \subseteq Chunk
    /\ up \in Seq(Upward) /\ down \in Seq(Downward)
    /\ view \in Views
    /\ rasters \in Seq(Raster)

\* Pictures that pass for fresh are, except of chunks emptied since.
ExactIn(kept) ==
    \A i \in DOMAIN kept :
        kept[i].fresh /\ kept[i].chunk \notin cleared => kept[i].picture = Picture(kept[i].chunk)

\* A chunk without a version has nothing to show and nothing to lose.
Untouched ==
    /\ cleared \subseteq touched
    /\ \A c \in Cell : ChunkOf[c] \notin touched => look[c] = "hidden"

\* PictureIsCurrent is not inductive: a frame is as good as the pictures it is
\* made of and as the background that stands for untouched chunks.
Drawn == ExactIn(rasters) /\ Untouched /\ PictureIsCurrent
PInv == Typed /\ Drawn

LEMMA ViewChunks ==
    ASSUME Typed
    PROVE  view.chunks \subseteq Chunk /\ Chunk \subseteq Nat /\ IsFiniteSet(Chunk)
<1>1. view \in [chunks : SUBSET Chunk, close : BOOLEAN]
  BY ScreenAssumption DEF Typed
<1>2. Cardinality(Chunk) \in Nat /\ Chunk = 1 .. Cardinality(Chunk) /\ IsFiniteSet(Chunk)
  BY ScreenAssumption, FS_CardinalityType
<1>3. \A ch \in 1 .. Cardinality(Chunk) : ch \in Nat
  BY <1>2
<1>4. QED
  BY <1>1, <1>2, <1>3

LEMMA SpentIsTyped ==
    ASSUME Typed,
           NEW what \in {"others", "clicks", "syncs", "moves", "evicts", "breaks", "refusals"},
           Spend(what)
    PROVE  given' \in Given
<1>1. given \in Given /\ given[what] \in Nat
  BY DEF Typed, Given
<1>2. given[what] - 1 \in Nat /\ given' = [given EXCEPT ![what] = given[what] - 1]
  BY <1>1 DEF Spend
<1>3. QED
  BY <1>1, <1>2 DEF Given

LEMMA PictureType ==
    ASSUME look \in [Cell -> Looks], NEW ch
    PROVE  Picture(ch) \in Pictures /\ Background(ch) \in Pictures
<1>1. CellsOf(ch) \in SUBSET Cell
  BY DEF CellsOf
<1>2. \A c \in CellsOf(ch) : look[c] \in Looks
  BY <1>1
<1>3. Picture(ch) \in [CellsOf(ch) -> Looks]
  BY <1>2 DEF Picture
<1>4. Background(ch) \in [CellsOf(ch) -> Looks]
  BY DEF Background, Looks
<1>5. QED
  BY <1>1, <1>3, <1>4 DEF Pictures

\* The picture of a chunk changes with its cells only.
LEMMA SamePicture ==
    ASSUME NEW ch, \A c \in Cell : ChunkOf[c] = ch => look'[c] = look[c]
    PROVE  Picture(ch)' = Picture(ch)
<1>1. \A c \in CellsOf(ch) : look'[c] = look[c]
  BY DEF CellsOf
<1>2. Picture(ch)' = [c \in CellsOf(ch) |-> look'[c]]
  BY DEF Picture, CellsOf
<1>3. QED
  BY <1>1, <1>2 DEF Picture

\* Cells change in the chunks S, the versions of which change.
LEMMA BumpKeeps ==
    ASSUME PInv, NEW S, Bump(S), ticked',
           \A c \in Cell : ChunkOf[c] \notin S => look'[c] = look[c]
    PROVE  rasters' \in Seq(Raster) /\ Drawn'
<1>1. /\ touched' = touched \cup S
      /\ rasters' = [i \in DOMAIN rasters |->
                       [rasters[i] EXCEPT !.fresh = @ /\ rasters[i].chunk \notin S]]
      /\ cleared' = cleared \ S
  BY DEF Bump
<1>2. rasters \in Seq(Raster)
  BY DEF PInv, Typed
<1>3. \A i \in DOMAIN rasters : rasters[i] \in Raster
  BY <1>2
<1>4. \A i \in DOMAIN rasters :
         /\ rasters'[i] \in Raster
         /\ rasters'[i].chunk = rasters[i].chunk
         /\ rasters'[i].picture = rasters[i].picture
         /\ rasters'[i].fresh => rasters[i].fresh /\ rasters[i].chunk \notin S
  BY <1>1, <1>3 DEF Raster
<1>5. rasters' \in Seq(Raster) /\ DOMAIN rasters' = DOMAIN rasters
  <2>1. DOMAIN rasters = 1 .. Len(rasters) /\ Len(rasters) \in Nat
    BY <1>2
  <2>2. rasters' \in [1 .. Len(rasters) -> Raster]
    BY <1>1, <1>4, <2>1
  <2>3. QED
    BY <2>1, <2>2
<1>6. ExactIn(rasters)'
  <2> SUFFICES ASSUME NEW i \in DOMAIN rasters', NEW ch, ch = rasters'[i].chunk,
                      rasters'[i].fresh, ch \notin cleared'
               PROVE  rasters'[i].picture = Picture(ch)'
    BY DEF ExactIn
  <2>1. /\ i \in DOMAIN rasters /\ rasters[i].chunk = ch /\ rasters[i].fresh /\ ch \notin S
        /\ rasters'[i].picture = rasters[i].picture
    BY <1>4, <1>5
  <2>2. ch \notin cleared
    BY <1>1, <2>1
  <2>3. rasters[i].picture = Picture(ch)
    BY <2>1, <2>2 DEF PInv, Drawn, ExactIn
  <2>4. Picture(ch)' = Picture(ch)
    BY <2>1, SamePicture
  <2>5. QED
    BY <2>1, <2>3, <2>4
<1>7. Untouched'
  BY <1>1 DEF PInv, Drawn, Untouched
<1>8. PictureIsCurrent'
  BY DEF PictureIsCurrent
<1>9. QED
  BY <1>5, <1>6, <1>7, <1>8 DEF Drawn

\* Cells are emptied and no version changes; the history takes note.
LEMMA ClearKeeps ==
    ASSUME PInv, UNCHANGED <<touched, rasters, canvas, view, raf, ticked>>,
           cleared \subseteq cleared', cleared' \subseteq touched,
           \A c \in Cell : ChunkOf[c] \notin cleared' => look'[c] = look[c],
           \A c \in Cell : look'[c] \in {look[c], "hidden"}
    PROVE  Drawn'
<1>1. \A ch : ch \notin cleared' => Picture(ch)' = Picture(ch)
  <2> SUFFICES ASSUME NEW ch, ch \notin cleared'  PROVE Picture(ch)' = Picture(ch)
    OBVIOUS
  <2>1. \A c \in Cell : ChunkOf[c] = ch => look'[c] = look[c]
    OBVIOUS
  <2>2. QED
    BY <2>1, SamePicture
<1>2. ExactIn(rasters)'
  <2> SUFFICES ASSUME NEW i \in DOMAIN rasters, rasters[i].fresh, rasters[i].chunk \notin cleared'
               PROVE  rasters[i].picture = Picture(rasters[i].chunk)'
    BY DEF ExactIn
  <2>1. rasters[i].picture = Picture(rasters[i].chunk)
    BY DEF PInv, Drawn, ExactIn
  <2>2. QED
    BY <1>1, <2>1
<1>3. Untouched'
  BY DEF PInv, Drawn, Untouched
<1>4. PictureIsCurrent'
  <2> SUFFICES ASSUME ~ ticked, ~ raf
               PROVE  /\ DOMAIN canvas = view.chunks
                      /\ \A ch \in view.chunks \ cleared' : canvas[ch] = Picture(ch)'
    BY DEF PictureIsCurrent
  <2>1. /\ DOMAIN canvas = view.chunks
        /\ \A ch \in view.chunks \ cleared : canvas[ch] = Picture(ch)
    BY DEF PInv, Drawn, PictureIsCurrent
  <2>2. QED
    BY <1>1, <2>1
<1>5. QED
  BY <1>2, <1>3, <1>4 DEF Drawn

-----------------------------------------------------------------------------
(* What the client receives. *)

LEMMA LooksOf ==
    ASSUME NEW c, NEW known
    PROVE  Adjacent(c, known) \in Looks /\ Kept(c, known) \in Looks
BY DEF Adjacent, Kept, Looks

LEMMA ChunksAround == ASSUME NEW S PROVE Around(S) \subseteq Chunk
BY DEF Around

LEMMA SyncDraws ==
    ASSUME PInv, NEW m \in SyncMessage, ReceiveSync(m)
    PROVE  /\ look' \in [Cell -> Looks] /\ seeds' \subseteq Chunk /\ wanted' \subseteq Chunk
           /\ up' = up /\ rasters' \in Seq(Raster) /\ Drawn'
<1> DEFINE known == seeds \cup m.chunks
           blanks == {c \in m.opens : Adjacent(c, known) = "blank"}
           now == Complete(pending \cup blanks, m.chunks, known)
           S == m.chunks \cup {ChunkOf[c] : c \in {d \in now : look[d] # "hidden"}}
<1>1. /\ seeds' = known /\ wanted' = Wanted(m.chunks) /\ up' = up /\ Bump(S) /\ ticked'
      /\ look' = [c \in Cell |-> IF c \in m.opens THEN Adjacent(c, known)
                                 ELSE IF c \in now /\ look[c] # "hidden" THEN "number"
                                 ELSE look[c]]
  BY DEF ReceiveSync
<1>2. m.chunks \subseteq Chunk /\ \A c \in m.opens : ChunkOf[c] \in m.chunks
  BY DEF SyncMessage
<1>3. look' \in [Cell -> Looks]
  <2>1. \A c \in Cell : look[c] \in Looks /\ "number" \in Looks
    BY DEF PInv, Typed, Looks
  <2>2. QED
    BY <1>1, <2>1, LooksOf
<1>4. \A c \in Cell : ChunkOf[c] \notin S => look'[c] = look[c]
  <2> SUFFICES ASSUME NEW c \in Cell, ChunkOf[c] \notin S  PROVE look'[c] = look[c]
    OBVIOUS
  <2>1. c \notin m.opens
    BY <1>2
  <2>2. ~ (c \in now /\ look[c] # "hidden")
    OBVIOUS
  <2>3. QED
    BY <1>1, <2>1, <2>2
<1>5. wanted' \subseteq Chunk /\ seeds' \subseteq Chunk
  BY <1>1, <1>2, ChunksAround DEF Wanted, PInv, Typed
<1> HIDE DEF S
<1>6. QED
  BY <1>1, <1>3, <1>4, <1>5, BumpKeeps

LEMMA CastDraws ==
    ASSUME PInv, NEW m \in CastMessage, ReceiveCast(m)
    PROVE  /\ look' \in [Cell -> Looks] /\ seeds' = seeds /\ wanted' = wanted
           /\ up' \in Seq(Upward) /\ rasters' \in Seq(Raster) /\ Drawn'
<1>1. /\ up' = IF m.chunk \in seeds THEN up ELSE Append(up, [is |-> "seeds", chunks |-> {m.chunk}])
      /\ look' = [c \in Cell |-> IF c \in m.opens THEN Kept(c, seeds) ELSE look[c]]
      /\ Bump({m.chunk}) /\ ticked' /\ seeds' = seeds /\ wanted' = wanted
  BY DEF ReceiveCast, seeding
<1>2. m.chunk \in Chunk /\ \A c \in m.opens : ChunkOf[c] = m.chunk
  BY DEF CastMessage
<1>3. look' \in [Cell -> Looks]
  <2>1. \A c \in Cell : look[c] \in Looks
    BY DEF PInv, Typed
  <2>2. QED
    BY <1>1, <2>1, LooksOf
<1>4. \A c \in Cell : ChunkOf[c] \notin {m.chunk} => look'[c] = look[c]
  BY <1>1, <1>2
<1>5. up' \in Seq(Upward)
  <2>1. [is |-> "seeds", chunks |-> {m.chunk}] \in Upward
    BY <1>2 DEF Upward, SeedMessage
  <2>2. up \in Seq(Upward)
    BY DEF PInv, Typed
  <2> HIDE DEF Upward
  <2>3. QED
    BY <1>1, <2>1, <2>2
<1>6. QED
  BY <1>1, <1>3, <1>4, <1>5, BumpKeeps

LEMMA AckDraws ==
    ASSUME PInv, NEW m \in AckMessage, ReceiveAck(m), UNCHANGED <<view, raf, canvas>>
    PROVE  /\ look' \in [Cell -> Looks] /\ seeds' = seeds /\ wanted' = wanted
           /\ up' = up /\ rasters' \in Seq(Raster) /\ Drawn'
<1> DEFINE mine == Asked(m.request)
           was(c) == Reverted(c, m.request)
<1>1. CASE mine = {}
  <2>1. UNCHANGED <<look, seeds, wanted, up, rasters, touched, cleared, ticked>>
    BY <1>1 DEF ReceiveAck, cells, versions, seeding
  <2>2. Drawn'
    <3>1. cleared \subseteq touched
      BY DEF PInv, Drawn, Untouched
    <3>2. QED
      BY <2>1, <3>1, ClearKeeps DEF PInv
  <2>3. QED
    BY <2>1, <2>2 DEF PInv, Typed
<1>2. CASE mine # {}
  <2> DEFINE S == {ChunkOf[c] : c \in Guessed(mine) \cup m.opens}
  <2>1. /\ look' = [c \in Cell |->
                       IF c \in m.opens /\ was(c) # "number" THEN Adjacent(c, seeds) ELSE was(c)]
        /\ Bump(S) /\ ticked' /\ up' = up /\ seeds' = seeds /\ wanted' = wanted
    BY <1>2 DEF ReceiveAck, seeding
  <2>2. look' \in [Cell -> Looks]
    <3>1. \A c \in Cell : was(c) \in Looks
      BY DEF PInv, Typed, Looks, Reverted
    <3>2. QED
      BY <2>1, <3>1, LooksOf
  <2>3. \A c \in Cell : ChunkOf[c] \notin S => look'[c] = look[c]
    <3> SUFFICES ASSUME NEW c \in Cell, ChunkOf[c] \notin S  PROVE look'[c] = look[c]
      OBVIOUS
    <3>1. c \notin Guessed(mine) /\ c \notin m.opens
      OBVIOUS
    <3>2. QED
      BY <2>1, <3>1 DEF Reverted
  <2> HIDE DEF S
  <2>4. QED
    BY <2>1, <2>2, <2>3, BumpKeeps
<1>3. QED
  BY <1>1, <1>2

LEMMA SeedsDraw ==
    ASSUME PInv, NEW m \in SeedMessage, ReceiveSeeds(m), UNCHANGED <<view, raf, canvas>>
    PROVE  /\ look' \in [Cell -> Looks] /\ seeds' \subseteq Chunk /\ wanted' = wanted
           /\ up' = up /\ rasters' \in Seq(Raster) /\ Drawn'
<1> DEFINE known == seeds \cup m.chunks
           done == Complete(pending, m.chunks, known)
           now == {c \in done : look[c] # "hidden"}
<1>1. /\ seeds' = known /\ Bump({ChunkOf[c] : c \in now}) /\ ticked' = (ticked \/ now # {})
      /\ up' = up /\ wanted' = wanted
      /\ look' = [c \in Cell |-> IF c \in now THEN "number" ELSE look[c]]
  BY DEF ReceiveSeeds, Redrawn
<1>2. seeds' \subseteq Chunk
  BY <1>1 DEF SeedMessage, PInv, Typed
<1> HIDE DEF now
<1>3. look' \in [Cell -> Looks]
  BY <1>1 DEF PInv, Typed, Looks
<1>4. \A c \in Cell : ChunkOf[c] \notin {ChunkOf[d] : d \in now} => look'[c] = look[c]
  BY <1>1
<1>5. CASE ticked'
  BY <1>1, <1>2, <1>3, <1>4, <1>5, BumpKeeps
<1>6. CASE ~ ticked'
  <2>1. now = {} /\ ~ ticked
    BY <1>1, <1>6
  <2>2. rasters' = rasters /\ touched' = touched /\ cleared' = cleared
    <3>1. /\ touched' = touched \cup {}
          /\ rasters' = [i \in DOMAIN rasters |-> [rasters[i] EXCEPT !.fresh = @ /\ rasters[i].chunk \notin {}]]
          /\ cleared' = cleared \ {}
      BY <1>1, <2>1 DEF Bump
    <3>2. \A i \in DOMAIN rasters : rasters[i] \in Raster
      BY DEF PInv, Typed
    <3>3. \A i \in DOMAIN rasters : [rasters[i] EXCEPT !.fresh = @ /\ rasters[i].chunk \notin {}] = rasters[i]
      BY <3>2 DEF Raster
    <3>4. rasters' = [i \in DOMAIN rasters |-> rasters[i]]
      BY <3>1, <3>3
    <3>5. rasters = [i \in DOMAIN rasters |-> rasters[i]]
      BY DEF PInv, Typed
    <3>6. QED
      BY <3>1, <3>4, <3>5
  <2>3. \A c \in Cell : look'[c] = look[c]
    BY <1>1, <2>1
  <2>4. Drawn'
    <3>1. \A ch : Picture(ch)' = Picture(ch)
      BY <2>3, SamePicture
    <3>2. ExactIn(rasters)'
      BY <2>2, <3>1 DEF PInv, Drawn, ExactIn
    <3>3. Untouched'
      BY <2>2, <2>3 DEF PInv, Drawn, Untouched
    <3>4. PictureIsCurrent'
      BY <2>1, <2>2, <3>1 DEF PInv, Drawn, PictureIsCurrent
    <3>5. QED
      BY <3>2, <3>3, <3>4 DEF Drawn
  <2>5. QED
    BY <1>1, <1>2, <1>3, <2>2, <2>4 DEF PInv, Typed
<1>7. QED
  BY <1>5, <1>6

LEMMA ReceiveDraws ==
    ASSUME PInv, Receive
    PROVE  PInv'
<1> DEFINE m == Head(down)
<1>1. /\ down # <<>> /\ down' = Tail(down)
      /\ UNCHANGED <<given, board, subs, view, raf, canvas>>
      /\ \/ m.is = "sync" /\ ReceiveSync(m)
         \/ m.is = "cast" /\ ReceiveCast(m)
         \/ m.is = "ack" /\ ReceiveAck(m)
         \/ m.is = "seeds" /\ ReceiveSeeds(m)
  BY DEF Receive, server, drawing
<1>2. m \in Downward /\ down' \in Seq(Downward)
  <2>1. down \in Seq(Downward)
    BY DEF PInv, Typed
  <2> HIDE DEF Downward
  <2>2. QED
    BY <1>1, <2>1
<1> HIDE DEF m
<1>3. /\ m.is = "sync" => m \in SyncMessage
      /\ m.is = "cast" => m \in CastMessage
      /\ m.is = "ack" => m \in AckMessage
      /\ m.is = "seeds" => m \in SeedMessage
  BY <1>2 DEF Downward, SyncMessage, CastMessage, AckMessage, SeedMessage
<1>4. /\ look' \in [Cell -> Looks] /\ seeds' \subseteq Chunk /\ wanted' \subseteq Chunk
      /\ up' \in Seq(Upward) /\ rasters' \in Seq(Raster) /\ Drawn'
  <2>1. seeds \subseteq Chunk /\ wanted \subseteq Chunk /\ up \in Seq(Upward)
    BY DEF PInv, Typed
  <2>2. CASE m.is = "sync" /\ ReceiveSync(m)
    BY <1>3, <2>1, <2>2, SyncDraws
  <2>3. CASE m.is = "cast" /\ ReceiveCast(m)
    BY <1>3, <2>1, <2>3, CastDraws
  <2>4. CASE m.is = "ack" /\ ReceiveAck(m)
    BY <1>1, <1>3, <2>1, <2>4, AckDraws
  <2>5. CASE m.is = "seeds" /\ ReceiveSeeds(m)
    BY <1>1, <1>3, <2>1, <2>5, SeedsDraw
  <2>6. QED
    BY <1>1, <2>2, <2>3, <2>4, <2>5
<1>5. QED
  BY <1>1, <1>2, <1>4 DEF PInv, Typed

-----------------------------------------------------------------------------
(* Frames. *)

Frames == [kept : Seq(Raster), drawn : [view.chunks -> Pictures], some : BOOLEAN, again : BOOLEAN]

\* A frame that has got as far as chunk n: it has drawn what is there, or it
\* will ask for another one.
DrawnWell(n, d) ==
    /\ d \in Frames
    /\ ExactIn(d.kept)
    /\ ~ d.again =>
          \A v \in view.chunks \ cleared : v \notin touched \/ v <= n => d.drawn[v] = Picture(v)

\* The recursion behind a frame.
Round(g) ==
    [ch \in Chunk \cup {0} |->
        IF ch = 0
        THEN {[kept |-> rasters, drawn |-> [v \in view.chunks |-> Background(v)],
               some |-> FALSE, again |-> FALSE]}
        ELSE IF ch \in Needed THEN UNION {DrawChunk(d, ch) : d \in g[ch - 1]}
        ELSE g[ch - 1]]

LEMMA RoundHasSolution == \E g : g = Round(g)
<1> DEFINE N == Cardinality(Chunk)
           Good(g, n) == \A ch \in Chunk \cup {0} : ch <= n => g[ch] = Round(g)[ch]
           C == {n \in Nat : \E g : Good(g, n)}
<1>0. N \in Nat /\ Chunk = 1 .. N
  BY ScreenAssumption, FS_CardinalityType
<1> HIDE DEF N
<1>1. 0 \in C
  <2>1. \A ch \in Chunk \cup {0} : ch <= 0 => ch = 0
    BY <1>0
  <2> DEFINE first == {[kept |-> rasters, drawn |-> [v \in view.chunks |-> Background(v)],
                        some |-> FALSE, again |-> FALSE]}
             h == [ch \in Chunk \cup {0} |-> first]
  <2>2. Round(h)[0] = first /\ h[0] = first
    BY DEF Round
  <2> HIDE DEF first, h
  <2>3. Good(h, 0)
    BY <2>1, <2>2
  <2>4. QED
    BY <2>3
<1>2. ASSUME NEW n \in Nat, n \in C  PROVE n + 1 \in C
  <2>1. PICK g : Good(g, n)
    BY <1>2
  <2> DEFINE h == Round(g)
  <2>2. ASSUME NEW ch \in Chunk \cup {0}, ch <= n + 1  PROVE h[ch] = Round(h)[ch]
    <3>1. CASE ch = 0
      BY <3>1 DEF Round
    <3>2. CASE ch # 0
      <4>1. ch - 1 \in Chunk \cup {0} /\ ch \in Nat
        BY <1>0, <3>2
      <4>2. ch - 1 <= n
        BY <2>2, <4>1
      <4>3. g[ch - 1] = h[ch - 1]
        BY <2>1, <4>1, <4>2
      <4>4. h[ch] = IF ch \in Needed THEN UNION {DrawChunk(d, ch) : d \in g[ch - 1]} ELSE g[ch - 1]
        BY <3>2 DEF Round
      <4>5. \A f : Round(f)[ch] = IF ch \in Needed THEN UNION {DrawChunk(d, ch) : d \in f[ch - 1]}
                                  ELSE f[ch - 1]
        BY <3>2 DEF Round
      <4> HIDE DEF h
      <4>6. QED
        BY <4>3, <4>4, <4>5
    <3>3. QED
      BY <3>1, <3>2
  <2>3. Good(h, n + 1)
    BY <2>2
  <2> HIDE DEF h, Good
  <2>4. QED
    BY <2>3
<1>3. Nat \subseteq C
  <2> HIDE DEF C
  <2>1. QED
    BY <1>1, <1>2, NumbersByInduction
<1>4. PICK g : Good(g, N)
  BY <1>0, <1>3
<1> DEFINE h == Round(g)
<1>5. \A ch \in Chunk \cup {0} : g[ch] = h[ch]
  <2>1. \A ch \in Chunk \cup {0} : ch <= N
    BY <1>0
  <2>2. QED
    BY <1>4, <2>1
<1>6. \A ch \in Chunk \cup {0} : ch # 0 => g[ch - 1] = h[ch - 1]
  <2>1. \A ch \in Chunk \cup {0} : ch # 0 => ch - 1 \in Chunk \cup {0}
    BY <1>0
  <2> HIDE DEF h
  <2>2. QED
    BY <1>5, <2>1
<1>7. h = Round(h)
  BY <1>6 DEF Round
<1>8. QED
  BY <1>7

LEMMA FrameUnfolds == DrawnUpTo = Round(DrawnUpTo)
<1> DEFINE Solves(g) ==
        g = [ch \in Chunk \cup {0} |->
                IF ch = 0
                THEN {[kept |-> rasters, drawn |-> [v \in view.chunks |-> Background(v)],
                       some |-> FALSE, again |-> FALSE]}
                ELSE IF ch \in Needed THEN UNION {DrawChunk(d, ch) : d \in g[ch - 1]}
                ELSE g[ch - 1]]
<1>1. \A g : Solves(g) <=> g = Round(g)
  BY Zenon DEF Round
<1>2. DrawnUpTo = CHOOSE g : Solves(g)
  BY Zenon DEF DrawnUpTo
<1> HIDE DEF Solves
<1>3. \E g : Solves(g)
  BY <1>1, RoundHasSolution
<1>4. Solves(CHOOSE g : Solves(g))
  BY <1>3
<1>5. QED
  BY <1>1, <1>2, <1>4

\* An entry that passes for fresh and is not may stay of an emptied chunk only.
ExactEntry(e) == e.fresh /\ e.chunk \notin cleared => e.picture = Picture(e.chunk)

LEMMA StoreFacts ==
    ASSUME Typed, NEW kept \in Seq(Raster), ExactIn(kept), NEW e \in Raster, ExactEntry(e)
    PROVE  Store(kept, e) \in Seq(Raster) /\ ExactIn(Store(kept, e))
<1> DEFINE all == IF Cached(kept, e.chunk) = {} THEN Append(kept, e)
                  ELSE [i \in DOMAIN kept |-> IF kept[i].chunk = e.chunk THEN e ELSE kept[i]]
           over == Len(all) - CacheCap(Needed)
           from == IF over > 0 THEN over + 1 ELSE 1
           s == SubSeq(all, from, Len(all))
<1>1. DOMAIN kept = 1 .. Len(kept) /\ Len(kept) \in Nat /\ \A i \in DOMAIN kept : kept[i] \in Raster
  OBVIOUS
<1>2. Store(kept, e) = s
  BY DEF Store
<1>3. /\ all \in Seq(Raster) /\ Len(all) \in Nat \ {0} /\ DOMAIN all = 1 .. Len(all)
      /\ \A i \in DOMAIN all : all[i] \in Raster /\ ExactEntry(all[i])
  <2>1. CASE Cached(kept, e.chunk) # {}
    <3> DEFINE t == [i \in DOMAIN kept |-> IF kept[i].chunk = e.chunk THEN e ELSE kept[i]]
    <3>1. \A i \in DOMAIN kept : t[i] \in Raster /\ ExactEntry(t[i])
      BY <1>1 DEF ExactIn, ExactEntry
    <3>2. DOMAIN t = 1 .. Len(kept) /\ t \in [1 .. Len(kept) -> Raster]
      BY <1>1, <3>1
    <3>3. Len(kept) # 0
      BY <1>1, <2>1 DEF Cached
    <3>4. all = t
      BY <2>1
    <3> HIDE DEF t, all
    <3>5. t \in Seq(Raster) /\ Len(t) = Len(kept)
      BY <1>1, <3>2
    <3>6. QED
      BY <1>1, <3>1, <3>2, <3>3, <3>4, <3>5
  <2>2. CASE Cached(kept, e.chunk) = {}
    <3>1. all = Append(kept, e)
      BY <2>2
    <3> HIDE DEF all
    <3>2. /\ all \in Seq(Raster) /\ Len(all) = Len(kept) + 1 /\ DOMAIN all = 1 .. Len(all)
          /\ all[Len(kept) + 1] = e /\ \A i \in 1 .. Len(kept) : all[i] = kept[i]
      BY <3>1, AppendFacts
    <3>3. \A i \in DOMAIN all : i \in DOMAIN kept \/ i = Len(kept) + 1
      BY <1>1, <3>2
    <3>4. \A i \in DOMAIN all : all[i] \in Raster /\ ExactEntry(all[i])
      BY <1>1, <3>2, <3>3 DEF ExactIn, ExactEntry
    <3>5. QED
      BY <1>1, <3>2, <3>4
  <2>3. QED
    BY <2>1, <2>2
<1> HIDE DEF all
<1>4. CacheCap(Needed) \in Nat \ {0}
  <2>1. Needed \in SUBSET Chunk /\ IsFiniteSet(Chunk)
    BY ViewChunks DEF Needed
  <2>2. Cardinality(Needed) \in Nat
    BY <2>1, FS_Subset, FS_CardinalityType
  <2>3. Slack \in Nat /\ RasterCap \in Nat \ {0}
    BY ScreenAssumption
  <2> HIDE DEF Needed
  <2>4. QED
    BY <2>2, <2>3 DEF CacheCap
<1>5. from \in Nat \ {0} /\ from <= Len(all)
  BY <1>3, <1>4
<1> HIDE DEF from
<1>6. /\ s \in Seq(Raster) /\ DOMAIN s = 1 .. Len(s) /\ Len(s) = Len(all) - from + 1
      /\ \A i \in 1 .. Len(s) : s[i] = all[from + i - 1]
  BY <1>3, <1>5
<1>7. \A i \in DOMAIN s : from + i - 1 \in DOMAIN all
  BY <1>3, <1>5, <1>6
<1> HIDE DEF s
<1>8. ExactIn(s)
  BY <1>3, <1>6, <1>7 DEF ExactIn, ExactEntry
<1>9. QED
  BY <1>2, <1>6, <1>8

\* A picture that is used becomes the last one.
LEMMA TouchFacts ==
    ASSUME NEW kept \in Seq(Raster), ExactIn(kept), NEW at \in DOMAIN kept
    PROVE  /\ Append(RemoveAt(kept, at), kept[at]) \in Seq(Raster)
           /\ ExactIn(Append(RemoveAt(kept, at), kept[at]))
<1> DEFINE head == SubSeq(kept, 1, at - 1)
           tail == SubSeq(kept, at + 1, Len(kept))
           rest == head \o tail
           s == Append(rest, kept[at])
<1>1. DOMAIN kept = 1 .. Len(kept) /\ Len(kept) \in Nat /\ at \in 1 .. Len(kept) /\ kept[at] \in Raster
  OBVIOUS
<1>2. /\ head \in Seq(Raster) /\ Len(head) = at - 1
      /\ \A i \in 1 .. at - 1 : head[i] = kept[i]
  BY <1>1
<1>3. /\ tail \in Seq(Raster) /\ Len(tail) = Len(kept) - at
      /\ \A i \in 1 .. Len(kept) - at : tail[i] = kept[at + i]
  BY <1>1
<1> HIDE DEF head, tail
<1>4. /\ rest \in Seq(Raster) /\ Len(rest) = Len(kept) - 1
      /\ \A i \in 1 .. at - 1 : rest[i] = kept[i]
      /\ \A i \in 1 .. Len(kept) - at : rest[at - 1 + i] = kept[at + i]
  <2>1. /\ rest \in Seq(Raster) /\ Len(rest) = Len(head) + Len(tail)
        /\ \A i \in 1 .. Len(head) : rest[i] = head[i]
        /\ \A i \in 1 .. Len(tail) : rest[Len(head) + i] = tail[i]
    <3>1. head \in Seq(Raster) /\ tail \in Seq(Raster)
      BY <1>2, <1>3
    <3>2. QED
      BY <3>1, ConcatFacts
  <2>2. at \in Nat /\ Len(kept) \in Nat /\ (at - 1) + (Len(kept) - at) = Len(kept) - 1
    BY <1>1
  <2> HIDE DEF rest
  <2>3. QED
    BY <1>2, <1>3, <2>1, <2>2
<1>5. \A i \in 1 .. Len(kept) - 1 : \E j \in DOMAIN kept : rest[i] = kept[j]
  <2> SUFFICES ASSUME NEW i \in 1 .. Len(kept) - 1  PROVE \E j \in DOMAIN kept : rest[i] = kept[j]
    OBVIOUS
  <2>1. CASE i <= at - 1
    <3>1. i \in 1 .. at - 1 /\ i \in DOMAIN kept
      BY <1>1, <2>1
    <3>2. QED
      BY <1>4, <3>1
  <2>2. CASE ~ (i <= at - 1)
    <3>1. i - (at - 1) \in 1 .. Len(kept) - at /\ at - 1 + (i - (at - 1)) = i
          /\ at + (i - (at - 1)) \in DOMAIN kept
      BY <1>1, <2>2
    <3>2. rest[at - 1 + (i - (at - 1))] = kept[at + (i - (at - 1))]
      BY <1>4, <3>1
    <3>3. QED
      BY <3>1, <3>2
  <2>3. QED
    BY <2>1, <2>2
<1> HIDE DEF rest
<1>6. /\ s \in Seq(Raster) /\ DOMAIN s = 1 .. Len(kept) /\ s[Len(kept)] = kept[at]
      /\ \A i \in 1 .. Len(kept) - 1 : s[i] = rest[i]
  <2>1. /\ s \in Seq(Raster) /\ DOMAIN s = 1 .. Len(rest) + 1 /\ s[Len(rest) + 1] = kept[at]
        /\ \A i \in 1 .. Len(rest) : s[i] = rest[i]
    <3>1. rest \in Seq(Raster) /\ kept[at] \in Raster
      BY <1>1, <1>4
    <3>2. QED
      BY <3>1, AppendFacts
  <2>2. (Len(kept) - 1) + 1 = Len(kept)
    BY <1>1
  <2> HIDE DEF s
  <2>3. QED
    BY <1>4, <2>1, <2>2
<1> HIDE DEF s
<1>7. \A i \in DOMAIN s : \E j \in DOMAIN kept : s[i] = kept[j]
  <2>1. \A i \in DOMAIN s : i \in 1 .. Len(kept) - 1 \/ i = Len(kept)
    BY <1>1, <1>6
  <2>2. QED
    BY <1>5, <1>6, <2>1
<1>8. ExactIn(s)
  BY <1>7 DEF ExactIn
<1>9. RemoveAt(kept, at) = rest
  BY DEF RemoveAt, rest, head, tail
<1>10. QED
  BY <1>6, <1>8, <1>9 DEF s

LEMMA DrawChunkWell ==
    ASSUME PInv, NEW ch \in Needed, NEW n \in Nat, ch = n + 1,
           NEW d, DrawnWell(n, d), NEW e \in DrawChunk(d, ch)
    PROVE  DrawnWell(ch, e)
<1> DEFINE found == Cached(d.kept, ch)
           at == CHOOSE i \in found : TRUE
           entry == IF found = {} THEN [chunk |-> ch, picture |-> Background(ch), fresh |-> FALSE]
                    ELSE d.kept[at]
           taken == [chunk |-> ch, picture |-> Picture(ch), fresh |-> TRUE]
<1>0. Typed /\ look \in [Cell -> Looks]
  BY DEF PInv, Typed
<1>1. ch \in view.chunks /\ ch \in Chunk /\ view.chunks \subseteq Nat
  BY <1>0, ViewChunks DEF Needed
<1>2. /\ d.kept \in Seq(Raster) /\ ExactIn(d.kept) /\ d \in Frames
      /\ d.drawn \in [view.chunks -> Pictures] /\ d.again \in BOOLEAN
  BY DEF DrawnWell, Frames
<1>3. \A v \in view.chunks : v <= ch => v = ch \/ v <= n
  BY <1>1
<1>4. Picture(ch) \in Pictures /\ Background(ch) \in Pictures
  BY <1>0, PictureType
<1>5. \/ entry.fresh /\ e = [d EXCEPT !.kept = Append(RemoveAt(@, at), entry), !.drawn[ch] = entry.picture]
      \/ /\ ~ entry.fresh /\ ~ d.again
         /\ e = [d EXCEPT !.kept = Store(@, taken), !.drawn[ch] = taken.picture, !.some = TRUE]
      \/ ~ entry.fresh /\ e = [d EXCEPT !.drawn[ch] = entry.picture, !.again = TRUE]
  BY DEF DrawChunk
<1>6. found # {} => at \in DOMAIN d.kept /\ d.kept[at].chunk = ch /\ entry = d.kept[at]
  BY DEF Cached
<1>7. entry.picture \in Pictures
  <2>1. CASE found = {}
    BY <1>4, <2>1
  <2>2. CASE found # {}
    <3> HIDE DEF at, found, entry
    <3>1. d.kept[at] \in Raster
      BY <1>2, <1>6, <2>2
    <3>2. QED
      BY <1>6, <2>2, <3>1 DEF Raster
  <2>3. QED
    BY <2>1, <2>2
<1>8. CASE entry.fresh /\ e = [d EXCEPT !.kept = Append(RemoveAt(@, at), entry), !.drawn[ch] = entry.picture]
  <2>1. found # {}
    BY <1>8
  <2> DEFINE kept == Append(RemoveAt(d.kept, at), d.kept[at])
  <2>2. kept \in Seq(Raster) /\ ExactIn(kept)
    BY <1>2, <1>6, <2>1, TouchFacts
  <2>3. e = [d EXCEPT !.kept = kept, !.drawn[ch] = entry.picture]
    BY <1>6, <1>8, <2>1
  <2>4. ch \notin cleared => entry.picture = Picture(ch)
    BY <1>2, <1>6, <1>8, <2>1 DEF ExactIn
  <2> HIDE DEF kept, entry, found, at, taken
  <2>5. /\ e \in Frames /\ e.kept = kept /\ e.again = d.again
        /\ e.drawn[ch] = entry.picture /\ \A v \in view.chunks \ {ch} : e.drawn[v] = d.drawn[v]
    BY <1>1, <1>2, <1>7, <2>2, <2>3 DEF Frames
  <2>6. QED
    BY <1>3, <2>2, <2>4, <2>5 DEF DrawnWell
<1>9. CASE /\ ~ d.again
           /\ e = [d EXCEPT !.kept = Store(@, taken), !.drawn[ch] = taken.picture, !.some = TRUE]
  <2> DEFINE kept == Store(d.kept, taken)
  <2>1. taken \in Raster /\ ExactEntry(taken) /\ taken.picture = Picture(ch)
    BY <1>1, <1>4 DEF Raster, ExactEntry
  <2> HIDE DEF taken
  <2>2. kept \in Seq(Raster) /\ ExactIn(kept)
    BY <1>0, <1>2, <2>1, StoreFacts
  <2>3. e = [d EXCEPT !.kept = kept, !.drawn[ch] = Picture(ch), !.some = TRUE]
    BY <1>9, <2>1
  <2> HIDE DEF kept
  <2>4. /\ e \in Frames /\ e.kept = kept /\ e.again = d.again
        /\ e.drawn[ch] = Picture(ch) /\ \A v \in view.chunks \ {ch} : e.drawn[v] = d.drawn[v]
    BY <1>1, <1>2, <1>4, <2>2, <2>3 DEF Frames
  <2>5. QED
    BY <1>3, <2>2, <2>4 DEF DrawnWell
<1>10. CASE e = [d EXCEPT !.drawn[ch] = entry.picture, !.again = TRUE]
  <2> HIDE DEF entry
  <2>1. e \in Frames /\ e.kept = d.kept /\ e.again
    BY <1>1, <1>2, <1>7, <1>10 DEF Frames
  <2>2. QED
    BY <1>2, <2>1 DEF DrawnWell
<1>11. QED
  BY <1>5, <1>8, <1>9, <1>10

\* Whatever a frame comes to, what it drew is what there is, unless it asks
\* for another.
LEMMA FrameWell ==
    ASSUME PInv
    PROVE  \A d \in DrawnUpTo[Cardinality(Chunk)] : DrawnWell(Cardinality(Chunk), d)
<1> DEFINE N == Cardinality(Chunk)
           C == {n \in Nat : n <= N => \A d \in DrawnUpTo[n] : DrawnWell(n, d)}
<1>1. N \in Nat /\ Chunk = 1 .. N
  BY ScreenAssumption, FS_CardinalityType
<1>2. Typed /\ look \in [Cell -> Looks] /\ rasters \in Seq(Raster) /\ ExactIn(rasters)
  BY DEF PInv, Drawn, Typed
<1>3. \A ch \in Chunk \cup {0} : DrawnUpTo[ch] = Round(DrawnUpTo)[ch]
  BY FrameUnfolds
<1> HIDE DEF N
<1>4. 0 \in C
  <2> DEFINE drawn == [v \in view.chunks |-> Background(v)]
             d == [kept |-> rasters, drawn |-> drawn, some |-> FALSE, again |-> FALSE]
  <2>1. DrawnUpTo[0] = {d}
    BY <1>3 DEF Round
  <2>2. \A v \in view.chunks : Background(v) \in Pictures
    BY <1>2, PictureType
  <2>3. drawn \in [view.chunks -> Pictures]
    BY <2>2
  <2>4. \A v \in view.chunks : v \in Nat /\ (v <= 0 => v = 0) /\ v # 0
    BY <1>1, <1>2, ViewChunks
  <2>5. ASSUME NEW v \in view.chunks, v \notin touched  PROVE drawn[v] = Picture(v)
    <3>1. \A c \in CellsOf(v) : look[c] = "hidden"
      BY <2>5 DEF CellsOf, PInv, Drawn, Untouched
    <3>2. Background(v) = Picture(v)
      BY <3>1 DEF Background, Picture
    <3>3. QED
      BY <3>2
  <2> HIDE DEF drawn
  <2>6. d \in Frames /\ d.kept = rasters /\ d.drawn = drawn
    BY <1>2, <2>3 DEF Frames
  <2> HIDE DEF d
  <2>7. DrawnWell(0, d)
    BY <1>2, <2>4, <2>5, <2>6 DEF DrawnWell
  <2>8. QED
    BY <2>1, <2>7
<1>5. ASSUME NEW n \in Nat, n \in C  PROVE n + 1 \in C
  <2>1. SUFFICES ASSUME n + 1 <= N  PROVE \A e \in DrawnUpTo[n + 1] : DrawnWell(n + 1, e)
    OBVIOUS
  <2> DEFINE ch == n + 1
  <2>2. ch \in Chunk /\ ch - 1 = n /\ ch # 0 /\ n <= N
    BY <1>1, <2>1
  <2>3. \A d \in DrawnUpTo[n] : DrawnWell(n, d)
    BY <1>5, <2>2
  <2>4. DrawnUpTo[ch] = IF ch \in Needed THEN UNION {DrawChunk(d, ch) : d \in DrawnUpTo[n]}
                        ELSE DrawnUpTo[n]
    <3>1. Round(DrawnUpTo)[ch] = IF ch \in Needed THEN UNION {DrawChunk(d, ch) : d \in DrawnUpTo[ch - 1]}
                                 ELSE DrawnUpTo[ch - 1]
      BY <2>2 DEF Round
    <3> HIDE DEF ch
    <3>2. QED
      BY <1>3, <2>2, <3>1
  <2> SUFFICES ASSUME NEW e \in DrawnUpTo[ch]  PROVE DrawnWell(ch, e)
    OBVIOUS
  <2>5. CASE ch \in Needed
    <3>1. PICK d \in DrawnUpTo[n] : e \in DrawChunk(d, ch)
      BY <2>4, <2>5
    <3>2. DrawnWell(n, d)
      BY <2>3
    <3>3. QED
      BY <2>5, <3>1, <3>2, DrawChunkWell
  <2>6. CASE ch \notin Needed
    <3>1. DrawnWell(n, e)
      BY <2>3, <2>4, <2>6
    <3>2. \A v \in view.chunks : v <= ch => v <= n \/ v = ch
      BY <1>2, <2>2, ViewChunks
    <3>3. ch \in view.chunks => ch \notin touched
      BY <2>6 DEF Needed
    <3> HIDE DEF ch
    <3>4. QED
      BY <3>1, <3>2, <3>3 DEF DrawnWell
  <2>7. QED
    BY <2>5, <2>6
<1>6. Nat \subseteq C
  <2> HIDE DEF C
  <2>1. QED
    BY <1>4, <1>5, NumbersByInduction
<1>7. N <= N /\ N \in C
  BY <1>1, <1>6
<1>8. QED
  BY <1>7 DEF N

LEMMA FrameDraws ==
    ASSUME PInv, NEW idle \in BOOLEAN, Paint(idle)
    PROVE  PInv'
<1>1. /\ UNCHANGED <<given, look, board, subs, seeds, wanted, up, down, view, ticked, touched,
                     cleared>>
      /\ \/ /\ canvas' = DrawnClose /\ raf' = FALSE
            /\ rasters' = rasters
         \/ \E d \in DrawnUpTo[Cardinality(Chunk)] :
                canvas' = d.drawn /\ rasters' = d.kept /\ raf' = d.again
  BY DEF Paint, server, messages, cells, seeding
<1>2. Typed
  BY DEF PInv
<1>3. \A ch : Picture(ch)' = Picture(ch)
  BY <1>1 DEF Picture, CellsOf
<1>4. Untouched'
  BY <1>1 DEF PInv, Drawn, Untouched
<1>5. CASE canvas' = DrawnClose /\ raf' = FALSE /\ rasters' = rasters
  <2>1. Typed' /\ ExactIn(rasters)'
    BY <1>1, <1>3, <1>5 DEF PInv, Drawn, Typed, ExactIn
  <2>2. PictureIsCurrent'
    BY <1>1, <1>3, <1>5 DEF PictureIsCurrent, DrawnClose
  <2>3. QED
    BY <1>4, <2>1, <2>2 DEF PInv, Drawn
<1>6. ASSUME NEW d \in DrawnUpTo[Cardinality(Chunk)],
             canvas' = d.drawn, rasters' = d.kept, raf' = d.again
      PROVE  PInv'
  <2>1. DrawnWell(Cardinality(Chunk), d)
    BY <1>6, FrameWell
  <2>2. d.kept \in Seq(Raster) /\ ExactIn(d.kept) /\ d.drawn \in [view.chunks -> Pictures]
    BY <2>1 DEF DrawnWell, Frames
  <2>3. Typed' /\ ExactIn(rasters)'
    <3>1. Typed'
      BY <1>1, <1>6, <2>2 DEF PInv, Typed
    <3>2. ExactIn(rasters)'
      BY <1>1, <1>3, <1>6, <2>2 DEF ExactIn
    <3>3. QED
      BY <3>1, <3>2
  <2>4. PictureIsCurrent'
    <3>1. SUFFICES ASSUME ~ raf'
                   PROVE  /\ DOMAIN canvas' = view'.chunks
                          /\ \A ch \in view'.chunks \ cleared' : canvas'[ch] = Picture(ch)'
      BY DEF PictureIsCurrent
    <3>2. \A v \in view.chunks : v <= Cardinality(Chunk)
      <4>1. view.chunks \subseteq Chunk /\ Chunk = 1 .. Cardinality(Chunk) /\ Cardinality(Chunk) \in Nat
        BY <1>2, ViewChunks, ScreenAssumption, FS_CardinalityType
      <4>2. QED
        BY <4>1
    <3>3. \A v \in view.chunks \ cleared : d.drawn[v] = Picture(v)
      BY <1>6, <2>1, <3>1, <3>2 DEF DrawnWell
    <3>4. QED
      BY <1>1, <1>3, <1>6, <2>2, <3>3
  <2>5. QED
    BY <1>4, <2>3, <2>4 DEF PInv, Drawn
<1>7. QED
  BY <1>1, <1>5, <1>6

-----------------------------------------------------------------------------
(* The other actions. *)

LEMMA ClickDraws == ASSUME PInv, NEW c \in Cell, Click(c) PROVE PInv'
<1>0. given' \in Given
  BY SpentIsTyped DEF PInv, Click
<1>1. /\ look' = [look EXCEPT ![c] = Adjacent(c, seeds)]
      /\ up' = Append(up, [is |-> "click", cell |-> c, request |-> given.clicks])
      /\ Bump({ChunkOf[c]}) /\ ticked'
      /\ UNCHANGED <<board, subs, down, seeds, wanted, view>>
  BY DEF Click, server, seeding, drawing
<1>2. \A d \in Cell : ChunkOf[d] \notin {ChunkOf[c]} => look'[d] = look[d]
  BY <1>1 DEF PInv, Typed
<1>3. rasters' \in Seq(Raster) /\ Drawn'
  BY <1>1, <1>2, BumpKeeps
<1>4. look' \in [Cell -> Looks]
  BY <1>1, LooksOf DEF PInv, Typed
<1>5. up' \in Seq(Upward)
  <2>1. up \in Seq(Upward) /\ [is |-> "click", cell |-> c, request |-> given.clicks] \in Upward
    BY DEF PInv, Typed, Upward, Given
  <2> HIDE DEF Upward
  <2>2. QED
    BY <1>1, <2>1
<1>6. QED
  BY <1>0, <1>1, <1>3, <1>4, <1>5 DEF PInv, Typed

\* Nothing that is drawn or says what is to be drawn changes.
LEMMA StillDraws ==
    ASSUME PInv, UNCHANGED <<look, view, raf, canvas, ticked, touched, rasters, cleared>>
    PROVE  Drawn'
<1>1. cleared \subseteq touched
  BY DEF PInv, Drawn, Untouched
<1>2. QED
  BY <1>1, ClearKeeps DEF PInv, Typed

LEMMA FlushDraws == ASSUME PInv, Flush PROVE PInv'
<1>1. /\ wanted' = {}
      /\ up' = IF connected /\ wanted \ seeds # {}
               THEN Append(up, [is |-> "seeds", chunks |-> wanted \ seeds]) ELSE up
      /\ UNCHANGED <<given, board, subs, down, look, seeds, view, raf, canvas, ticked, touched, rasters, cleared>>
  BY DEF Flush, server, cells, drawing, versions
<1>2. Drawn'
  BY <1>1, StillDraws
<1>3. up' \in Seq(Upward)
  <2>1. up \in Seq(Upward) /\ [is |-> "seeds", chunks |-> wanted \ seeds] \in Upward
    BY DEF PInv, Typed, Upward, SeedMessage
  <2> HIDE DEF Upward
  <2>2. QED
    BY <1>1, <2>1
<1>4. QED
  BY <1>1, <1>2, <1>3 DEF PInv, Typed

LEMMA MoveDraws == ASSUME PInv, Move PROVE PInv'
<1>0. given' \in Given
  BY SpentIsTyped DEF PInv, Move
<1>1. /\ view' \in Views /\ ticked'
      /\ UNCHANGED <<board, subs, up, down, look, seeds, wanted, touched, rasters, cleared>>
  BY DEF Move, server, messages, cells, seeding, versions
<1>2. \A ch : Picture(ch)' = Picture(ch)
  BY <1>1 DEF Picture, CellsOf
<1>3. QED
  BY <1>0, <1>1, <1>2 DEF PInv, Typed, Drawn, ExactIn, Untouched, PictureIsCurrent

LEMMA EffectDraws == ASSUME PInv, Effect PROVE PInv'
<1>1. /\ raf'
      /\ UNCHANGED <<given, board, subs, up, down, look, seeds, wanted, view, touched, rasters, cleared>>
  BY DEF Effect, server, messages, cells, seeding, versions
<1>2. \A ch : Picture(ch)' = Picture(ch)
  BY <1>1 DEF Picture, CellsOf
<1>3. QED
  BY <1>1, <1>2 DEF PInv, Typed, Drawn, ExactIn, Untouched, PictureIsCurrent

LEMMA EvictDraws == ASSUME PInv, Evict PROVE PInv'
<1>0. given' \in Given
  BY SpentIsTyped DEF PInv, Evict
<1>1. PICK far : /\ look' = [c \in Cell |-> IF ChunkOf[c] \in far THEN "hidden" ELSE look[c]]
                 /\ seeds' = seeds \ far
                 /\ cleared' = cleared \cup (far \cap touched)
  BY DEF Evict
<1>2. UNCHANGED <<board, subs, up, down, wanted, view, raf, canvas, ticked, touched, rasters>>
  BY DEF Evict, server, messages, drawing
<1>3. \A c \in Cell : ChunkOf[c] \notin touched => look[c] = "hidden"
  BY DEF PInv, Drawn, Untouched
<1>4. cleared \subseteq cleared' /\ cleared' \subseteq touched
  BY <1>1 DEF PInv, Drawn, Untouched
<1>5. \A c \in Cell : ChunkOf[c] \notin cleared' => look'[c] = look[c]
  BY <1>1, <1>3
<1>6. \A c \in Cell : look'[c] \in {look[c], "hidden"}
  BY <1>1
<1>7. Drawn'
  BY <1>2, <1>4, <1>5, <1>6, ClearKeeps
<1>8. look' \in [Cell -> Looks] /\ seeds' \subseteq Chunk
  BY <1>1 DEF PInv, Typed, Looks
<1>9. QED
  BY <1>0, <1>2, <1>7, <1>8 DEF PInv, Typed

LEMMA BreakDraws == ASSUME PInv, Break PROVE PInv'
<1>0. given' \in Given
  BY SpentIsTyped DEF PInv, Break
<1>1. /\ look' = [c \in Cell |-> "hidden"] /\ cleared' = touched
      /\ subs' = {} /\ up' = <<>> /\ down' = <<>>
      /\ UNCHANGED <<board, seeds, wanted, view, raf, canvas, ticked, touched, rasters>>
  BY DEF Break, seeding, drawing
<1>2. \A c \in Cell : ChunkOf[c] \notin touched => look[c] = "hidden"
  BY DEF PInv, Drawn, Untouched
<1>3. cleared \subseteq cleared' /\ cleared' \subseteq touched
  BY <1>1 DEF PInv, Drawn, Untouched
<1>4. \A c \in Cell : ChunkOf[c] \notin cleared' => look'[c] = look[c]
  BY <1>1, <1>2
<1>5. \A c \in Cell : look'[c] \in {look[c], "hidden"}
  BY <1>1
<1>6. Drawn'
  BY <1>1, <1>3, <1>4, <1>5, ClearKeeps
<1>7. look' \in [Cell -> Looks]
  BY <1>1 DEF Looks
<1>8. QED
  BY <1>0, <1>1, <1>6, <1>7 DEF PInv, Typed

LEMMA ReturnDraws == ASSUME PInv, Return PROVE PInv'
<1>1. UNCHANGED <<given, board, subs, up, down, look, seeds, wanted, view, raf, canvas, ticked,
                  touched, rasters, cleared>>
  BY DEF Return, server, messages, cells, seeding, drawing, versions
<1>2. Drawn'
  BY <1>1, StillDraws
<1>3. QED
  BY <1>1, <1>2 DEF PInv, Typed

LEMMA SubscribeDraws == ASSUME PInv, Subscribe PROVE PInv'
<1>0. given' \in Given
  BY SpentIsTyped DEF PInv, Subscribe
<1>1. UNCHANGED <<board, up, look, seeds, wanted, view, raf, canvas, ticked, touched, rasters, cleared>>
  BY DEF Subscribe, cells, seeding, drawing, versions
<1>2. PICK rect \in Rects :
          /\ subs' = rect
          /\ down' = IF rect \subseteq subs THEN down
                     ELSE Append(down, [is |-> "sync", chunks |-> rect \ subs,
                             opens |-> {c \in board : ChunkOf[c] \in rect \ subs}])
  BY DEF Subscribe
<1>3. rect \subseteq Chunk
  BY ScreenAssumption
<1>4. down' \in Seq(Downward)
  <2> DEFINE m == [is |-> "sync", chunks |-> rect \ subs,
                   opens |-> {c \in board : ChunkOf[c] \in rect \ subs}]
  <2>1. down \in Seq(Downward) /\ board \subseteq Cell
    BY DEF PInv, Typed
  <2>2. m \in SyncMessage
    BY <1>3, <2>1 DEF SyncMessage
  <2>3. m \in Downward
    BY <2>2 DEF Downward
  <2> HIDE DEF Downward, m
  <2>4. QED
    BY <1>2, <2>1, <2>3 DEF m
<1>5. Drawn'
  BY <1>1, StillDraws
<1>6. QED
  BY <1>0, <1>1, <1>2, <1>3, <1>4, <1>5 DEF PInv, Typed

\* The sequences of a set hold its members.
LEMMA SequencesOf ==
    ASSUME NEW S, NEW T, S \subseteq T, NEW s \in SetToSeqs(S), IsFiniteSet(S)
    PROVE  s \in Seq(T)
<1>1. Cardinality(S) \in Nat
  BY FS_CardinalityType
<1>2. s \in [1 .. Cardinality(S) -> S]
  BY DEF SetToSeqs
<1>3. s \in [1 .. Cardinality(S) -> T]
  BY <1>2
<1>4. QED
  BY <1>1, <1>3

LEMMA CastsAreMessages ==
    ASSUME NEW opens \in SUBSET Cell, NEW chunks \in SUBSET Chunk
    PROVE  CastsOf(opens, chunks) \subseteq Downward /\ IsFiniteSet(CastsOf(opens, chunks))
<1> DEFINE S == {ChunkOf[c] : c \in opens} \cap chunks
           cast(ch) == [is |-> "cast", chunk |-> ch, opens |-> opens \cap CellsOf(ch)]
<1>1. CastsOf(opens, chunks) = {cast(ch) : ch \in S}
  BY DEF CastsOf
<1>2. \A ch \in S : cast(ch) \in CastMessage
  BY DEF CastMessage, CellsOf
<1>3. IsFiniteSet(S)
  <2>1. S \subseteq Chunk /\ IsFiniteSet(Chunk)
    BY ScreenAssumption
  <2>2. QED
    BY <2>1, FS_Subset
<1>4. IsFiniteSet({cast(ch) : ch \in S})
  <2> DEFINE T == {cast(ch) : ch \in S}
             f == [ch \in S |-> cast(ch)]
  <2> HIDE DEF S, cast
  <2>1. f \in Surjection(S, T)
    BY DEF Surjection
  <2> HIDE DEF T, f
  <2>2. QED
    BY <1>3, <2>1, FS_Surjection DEF T
<1>5. {cast(ch) : ch \in S} \subseteq Downward
  BY <1>2 DEF Downward
<1>6. QED
  BY <1>1, <1>4, <1>5

LEMMA OtherDraws == ASSUME PInv, Other PROVE PInv'
<1>0. given' \in Given
  BY SpentIsTyped DEF PInv, Other
<1>1. UNCHANGED <<subs, up, look, seeds, wanted, view, raf, canvas, ticked, touched, rasters, cleared>>
  BY DEF Other, cells, seeding, drawing, versions
<1>2. PICK c \in Cell \ board :
          /\ board' = board \cup Opens[c]
          /\ \E casts \in SetToSeqs(CastsOf(Opens[c] \ board, subs)) : down' = down \o casts
  BY DEF Other
<1>3. /\ Opens[c] \subseteq Cell /\ board \subseteq Cell /\ subs \subseteq Chunk
      /\ down \in Seq(Downward)
  BY ScreenAssumption DEF PInv, Typed
<1>4. PICK casts \in SetToSeqs(CastsOf(Opens[c] \ board, subs)) : down' = down \o casts
  BY <1>2
<1>5. casts \in Seq(Downward)
  <2>1. Opens[c] \ board \in SUBSET Cell /\ subs \in SUBSET Chunk
    BY <1>3
  <2>2. QED
    BY <1>4, <2>1, CastsAreMessages, SequencesOf
<1>6. down' \in Seq(Downward)
  BY <1>3, <1>4, <1>5, ConcatFacts
<1>7. Drawn'
  BY <1>1, StillDraws
<1>8. QED
  BY <1>0, <1>1, <1>2, <1>3, <1>6, <1>7 DEF PInv, Typed

LEMMA ServeDraws == ASSUME PInv, Serve PROVE PInv'
<1>0. given' \in Given
  <2>1. given' = given \/ Spend("refusals")
    BY DEF Serve
  <2>2. QED
    BY <2>1, SpentIsTyped DEF PInv, Typed
<1>1. /\ up # <<>> /\ up' = Tail(up)
      /\ UNCHANGED <<subs, look, seeds, wanted, view, raf, canvas, ticked, touched, rasters, cleared>>
  BY DEF Serve, cells, seeding, drawing, versions
<1> DEFINE m == Head(up)
<1>2. m \in Upward /\ up' \in Seq(Upward)
  <2>1. up \in Seq(Upward)
    BY DEF PInv, Typed
  <2> HIDE DEF Upward
  <2>2. QED
    BY <1>1, <2>1
<1>3. \/ m.is = "click" /\ Answer(m.cell, m.request)
      \/ m.is = "seeds" /\ down' = Append(down, m) /\ UNCHANGED board
      \/ UNCHANGED <<down, board>>
  BY DEF Serve
<1> HIDE DEF m
<1>4. /\ m.is = "click" => m.cell \in Cell /\ m.request \in Nat
      /\ m.is = "seeds" => m \in Downward
  BY <1>2 DEF Upward, SeedMessage, Downward
<1>5. down \in Seq(Downward) /\ board \subseteq Cell
  BY DEF PInv, Typed
<1>6. down' \in Seq(Downward) /\ board' \subseteq Cell
  <2>1. CASE m.is = "seeds" /\ down' = Append(down, m) /\ UNCHANGED board
    BY <1>4, <1>5, <2>1, AppendFacts
  <2>2. CASE UNCHANGED <<down, board>>
    BY <1>5, <2>2
  <2>3. ASSUME NEW c \in Cell, NEW request \in Nat, Answer(c, request)
        PROVE  down' \in Seq(Downward) /\ board' \subseteq Cell
    <3> DEFINE opens == Opens[c] \ board
               ack == [is |-> "ack", request |-> request, opens |-> opens \cap CellsOf(ChunkOf[c])]
               none == [is |-> "ack", request |-> request, opens |-> {}]
    <3>1. \/ /\ board' = board \cup Opens[c]
             /\ \E answers \in SetToSeqs(CastsOf(opens, Chunk) \cup {ack}) : down' = down \o answers
          \/ down' = Append(down, none) /\ UNCHANGED board
      BY <2>3 DEF Answer
    <3>2. opens \in SUBSET Cell /\ Opens[c] \subseteq Cell
      BY ScreenAssumption
    <3>3. ack \in Downward /\ none \in Downward
      BY <3>2 DEF Downward, AckMessage
    <3> HIDE DEF opens, ack, none
    <3>4. CASE down' = Append(down, none) /\ UNCHANGED board
      BY <1>5, <3>3, <3>4, AppendFacts
    <3>5. ASSUME NEW answers \in SetToSeqs(CastsOf(opens, Chunk) \cup {ack}), down' = down \o answers
          PROVE  down' \in Seq(Downward)
      <4>1. CastsOf(opens, Chunk) \subseteq Downward /\ IsFiniteSet(CastsOf(opens, Chunk))
        BY <3>2, CastsAreMessages
      <4> DEFINE all == CastsOf(opens, Chunk) \cup {ack}
      <4>2. all \subseteq Downward /\ IsFiniteSet(all)
        BY <3>3, <4>1, FS_AddElement
      <4>3. answers \in Seq(Downward)
        BY <4>2, SequencesOf
      <4>4. QED
        BY <1>5, <3>5, <4>3, ConcatFacts
    <3>6. QED
      BY <1>5, <3>1, <3>2, <3>4, <3>5
  <2>4. QED
    BY <1>3, <1>4, <2>1, <2>2, <2>3
<1>7. Drawn'
  BY <1>1, StillDraws
<1>8. QED
  BY <1>0, <1>1, <1>2, <1>6, <1>7 DEF PInv, Typed

LEMMA BeginsDrawn == Init => PInv
<1> SUFFICES ASSUME Init PROVE PInv
  OBVIOUS
<1>1. Typed
  BY ScreenAssumption DEF Init, Typed, Looks, Given
<1>2. ExactIn(rasters)
  BY DEF Init, ExactIn
<1>3. Untouched /\ PictureIsCurrent
  BY DEF Init, Untouched, PictureIsCurrent
<1>4. QED
  BY <1>1, <1>2, <1>3 DEF PInv, Drawn

LEMMA GoesDrawn == PInv /\ [Next]_vars => PInv'
<1> SUFFICES ASSUME PInv, [Next]_vars PROVE PInv'
  OBVIOUS
<1>1. CASE Progress
  BY <1>1, ReceiveDraws, ServeDraws, FlushDraws, EffectDraws, FrameDraws DEF Progress, Frame
<1>7. CASE IdleFrame
  BY <1>7, FrameDraws DEF IdleFrame
<1>2. CASE Move \/ Evict \/ Break \/ Return
  BY <1>2, MoveDraws, EvictDraws, BreakDraws, ReturnDraws
<1>3. CASE Subscribe \/ Other
  BY <1>3, SubscribeDraws, OtherDraws
<1>4. ASSUME NEW c \in Cell, Click(c) PROVE PInv'
  BY <1>4, ClickDraws
<1>5. CASE UNCHANGED vars
  <2>1. UNCHANGED <<given, board, subs, up, down, look, seeds, wanted, view, raf, canvas, ticked,
                    touched, rasters, cleared>>
    BY <1>5 DEF vars, server, messages, cells, seeding, drawing, versions
  <2>2. Drawn'
    BY <2>1, StillDraws
  <2>3. QED
    BY <2>1, <2>2 DEF PInv, Typed
<1>6. QED
  BY <1>1, <1>2, <1>3, <1>4, <1>5, <1>7 DEF Next

\* When no frame is asked for, the screen shows the cells as they are: however
\* changes, moves of the camera, evictions, lost connections and frames that
\* ran out of time follow each other, and whichever pictures the cache let go.
THEOREM PictureIsCurrentHolds == Spec => []PictureIsCurrent
<1>1. PInv => PictureIsCurrent
  BY DEF PInv, Drawn
<1>2. QED
  BY BeginsDrawn, GoesDrawn, <1>1, PTL DEF Spec
=============================================================================

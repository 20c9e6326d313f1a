--------------------------- MODULE ViewingProofs ---------------------------
(***************************************************************************)
(* Proofs about how the player moves over the board.                       *)
(*                                                                         *)
(* Viewing, for any places, sizes of the screen, prefetch, margin and      *)
(* radius that fit RadiusAssumption, and queues of any length: the client  *)
(* is never deaf to a chunk the server has it subscribed to.               *)
(*                                                                         *)
(* Gestures, for any number of fingers, mice and presses: a press comes to *)
(* one thing, nothing is left over, and two fingers do not pan.            *)
(***************************************************************************)
EXTENDS Viewing, Gestures, FiniteSetTheorems, TLAPS

UpMsg == [kind : {"view"}, view : View] \cup [kind : {"join"}]
DownMsg ==
    [kind : {"sync"}, chunks : SUBSET Int] \cup [kind : {"ack"}, ok : BOOLEAN] \cup [kind : {"hint"}]

Types ==
    /\ cam \in View /\ shown \in Place
    /\ frame \subseteq {"commit", "ask", "spawn", "consider"}
    /\ pending \in View \cup {NoView} /\ ("consider" \in frame => pending \in View)
    /\ last \in View \cup {NoView}
    /\ link \in [sock : {"none", "connecting", "open", "closing"}, retry : BOOLEAN,
                 rejoin : BOOLEAN, joined : BOOLEAN, creds : BOOLEAN]
    /\ up \in Seq(UpMsg) /\ down \in Seq(DownMsg)
    /\ srv \in {"none", "spectator", "player"} /\ subs \subseteq Int
    /\ old \in [there : BOOLEAN, kept : SUBSET Int] /\ (~ old.there => old.kept = {})

\* The server has a connection only while the client has it open.
Apart ==
    /\ srv = "none" => up = <<>> /\ subs = {}
    /\ srv # "none" => link.sock = "open"

\* Behind every view on its way comes, in the end, the one recorded as sent.
LastIsSent ==
    \A i \in DOMAIN up : up[i].kind = "view" =>
        \E j \in DOMAIN up : j >= i /\ up[j].kind = "view" /\ up[j].view = last

\* The server keeps nothing beyond the view recorded as sent, or is about to
\* drop it: this is what makes it harmless not to send that view again.
Covered(c) == (last # NoView /\ c \in Window(last)) \/ Leaving(c)
LastCovers == "shared" \notin lapse => \A c \in subs : Covered(c)

\* NeverDeaf is not inductive: a view that is not sent, being the same as the
\* last, evicts chunks like one that is.
Sound == Apart /\ LastIsSent /\ LastCovers /\ NeverDeaf
IInv == Types /\ Sound

-----------------------------------------------------------------------------
(* Rectangles. *)

LEMMA Bounds ==
    ASSUME NEW v \in View
    PROVE  /\ v.x \in Int /\ v.n \in Size
           /\ Wide(v.n) \in Nat \ {0} /\ Wide(v.n) <= v.n + 2 * MaxPrefetch
<1>1. v.x \in Int /\ v.n \in Nat \ {0} /\ v.n \in Size
  BY ViewingAssumption DEF View
<1>2. Clamp(v.n \div 2) \in Nat /\ Clamp(v.n \div 2) <= MaxPrefetch
  BY <1>1, ViewingAssumption DEF Clamp
<1>3. QED
  BY <1>1, <1>2, ViewingAssumption DEF Wide

\* What the server keeps around a view is near enough for the client to keep.
LEMMA WindowNear ==
    ASSUME NEW v \in View
    PROVE  Window(v) \subseteq Near(v) /\ Rect(v) \subseteq Window(v) /\ Rect(v) \subseteq Int
<1> DEFINE w == Wide(v.n)
           m == v.n + 2 * MaxPrefetch
<1>0. v.n \in Nat /\ MaxPrefetch \in Nat
  BY Bounds, ViewingAssumption
<1>1. v.x \in Int /\ v.n \in Size /\ w \in Nat \ {0} /\ m \in Nat /\ w <= m
  <2>1. v.x \in Int /\ v.n \in Size /\ w \in Nat \ {0} /\ w <= m
    BY Bounds
  <2>2. m \in Nat
    BY <1>0
  <2> QED BY <2>1, <2>2
<1>2. m \div 2 + Margin <= Radius
  BY <1>1, RadiusAssumption
<1>3. w \div 2 <= m \div 2 /\ w - 1 - w \div 2 <= w \div 2 /\ w \div 2 \in Nat
  <2> HIDE DEF w, m
  <2> QED BY <1>1
<1>4. First(v) \in Int /\ First(v) = v.x - w \div 2
  BY <1>1, <1>3 DEF First
<1>5. v.x - Radius <= First(v) - Margin /\ First(v) + w - 1 + Margin <= v.x + Radius
  <2> HIDE DEF w, m
  <2> QED BY <1>1, <1>2, <1>3, <1>4, ViewingAssumption
<1>6. QED
  <2> HIDE DEF m
  <2> QED BY <1>1, <1>4, <1>5, ViewingAssumption DEF Window, Near, Rect

-----------------------------------------------------------------------------
(* Queues. *)

LEMMA Came ==
    ASSUME NEW c
    PROVE  c \in Coming <=> \E i \in DOMAIN down : down[i].kind = "sync" /\ c \in down[i].chunks
BY DEF Coming

LEMMA CameNext ==
    ASSUME NEW c
    PROVE  c \in Coming' <=> \E i \in DOMAIN down' : down'[i].kind = "sync" /\ c \in down'[i].chunks
BY DEF Coming

\* A message that is added takes nothing away.
LEMMA SentMore ==
    ASSUME Types, NEW m \in UpMsg, up' = Append(up, m)
    PROVE  /\ up' \in Seq(UpMsg)
           /\ \A c : Leaving(c) => Leaving(c)'
           /\ \A c : m.kind = "view" /\ c \notin Window(m.view) => Leaving(c)'
<1>1. up' \in Seq(UpMsg) /\ DOMAIN up' = 1 .. Len(up) + 1 /\ up'[Len(up) + 1] = m
  BY DEF Types
<1>2. \A i \in DOMAIN up : i \in DOMAIN up' /\ up'[i] = up[i]
  BY DEF Types
<1>3. Len(up) + 1 \in DOMAIN up'
  BY <1>1 DEF Types
<1>4. \A i : Window(up[i].view)' = Window(up'[i].view)
  BY DEF Window, First
<1>5. QED
  BY <1>1, <1>2, <1>3, <1>4 DEF Leaving

LEMMA ComesMore ==
    ASSUME Types, NEW m \in DownMsg, down' = Append(down, m)
    PROVE  /\ down' \in Seq(DownMsg)
           /\ Coming \subseteq Coming'
           /\ m.kind = "sync" => m.chunks \subseteq Coming'
<1>1. down' \in Seq(DownMsg) /\ DOMAIN down' = 1 .. Len(down) + 1 /\ down'[Len(down) + 1] = m
  BY DEF Types
<1>2. \A i \in DOMAIN down : i \in DOMAIN down' /\ down'[i] = down[i]
  BY DEF Types
<1>3. Len(down) + 1 \in DOMAIN down'
  BY <1>1 DEF Types
<1>4. QED
  BY <1>1, <1>2, <1>3, Came, CameNext

-----------------------------------------------------------------------------
(* Steps. *)

LEMMA Quiet ==
    ASSUME Sound, UNCHANGED <<held, up, down, srv, subs, last, lapse>>,
           srv # "none" => link'.sock = "open"
    PROVE  Sound'
BY DEF Sound, Apart, LastIsSent, LastCovers, Covered, NeverDeaf, Leaving, Coming, Window, First, Wide, Clamp

LEMMA Empty ==
    ASSUME subs' = {}, up' = <<>>, srv' # "none" => link'.sock = "open"
    PROVE  Sound'
BY DEF Sound, Apart, LastIsSent, LastCovers, NeverDeaf

\* What Consider evicts is not in the window of the view it considers.
LEMMA EvictsOutside ==
    ASSUME Types, "consider" \in frame, Consider
    PROVE  pending \in View /\ \A c \in held : c \in Window(pending) => c \in held'
<1>1. pending \in View
  BY DEF Types
<1>2. Window(pending) \subseteq Near(pending)
  BY <1>1, WindowNear
<1>3. QED
  BY <1>1, <1>2 DEF Consider, EvictFar

LEMMA ConsiderSound ==
    ASSUME IInv, "consider" \in frame, Consider, UNCHANGED <<link, down, srv, subs>>
    PROVE  Sound' /\ up' \in Seq(UpMsg) /\ last' \in View \cup {NoView}
<1> USE DEF IInv
<1>1. pending \in View /\ \A c \in held : c \in Window(pending) => c \in held'
  BY EvictsOutside
<1>2. Coming' = Coming
  BY DEF Coming
<1>3. CASE SameRect /\ Skip
  <2>1. UNCHANGED <<last, up>> /\ ("shared" \in lapse <=> "shared" \in lapse')
    BY <1>3 DEF Skip
  <2>2. last # NoView /\ Window(last) = Window(pending)
    BY <1>3 DEF SameRect, Window
  <2>3. \A c : (Leaving(c) <=> Leaving(c)') /\ (Covered(c) <=> Covered(c)')
    BY <2>1 DEF Covered, Leaving, Window, First, Wide, Clamp
  <2>4. LastCovers' /\ LastIsSent' /\ Apart'
    BY <2>1, <2>3 DEF Sound, LastCovers, LastIsSent, Apart
  <2>5. ASSUME NEW c \in subs, "shared" \notin lapse
        PROVE  c \in held' \cup Coming' \/ Leaving(c)'
    <3>1. Covered(c) /\ (c \in held \cup Coming \/ Leaving(c))
      BY <2>5 DEF Sound, LastCovers, NeverDeaf
    <3>2. QED
      BY <3>1, <1>1, <1>2, <2>2, <2>3 DEF Covered
  <2>6. NeverDeaf'
    BY <2>1, <2>5 DEF NeverDeaf
  <2>7. QED
    BY <2>1, <2>4, <2>6 DEF Sound, Types
<1>4. CASE Send /\ srv # "none"
  <2> DEFINE m == [kind |-> "view", view |-> pending]
  <2>1. link.sock = "open"
    BY <1>4 DEF Sound, Apart
  <2>2. /\ up' = Append(up, m) /\ last' = pending
        /\ lapse' = lapse \ {"coalesced", "overtaken"}
    BY <1>4, <2>1 DEF Send
  <2>3. m \in UpMsg /\ m.kind = "view" /\ m.view = pending
    BY <1>1 DEF UpMsg
  <2>4. /\ up' \in Seq(UpMsg) /\ \A c : Leaving(c) => Leaving(c)'
        /\ \A c : c \notin Window(pending) => Leaving(c)'
    <3> HIDE DEF m
    <3> QED BY <2>2, <2>3, SentMore
  <2>5. last' # NoView
    BY <1>1, <2>2, ViewingAssumption DEF View, NoView
  <2>6. \A c : Covered(c)'
    <3>1. \A c : c \in Window(pending) => c \in Window(last)'
      BY <2>2 DEF Window, First, Wide, Clamp
    <3>2. QED
      BY <2>4, <2>5, <3>1 DEF Covered
  <2>7. LastIsSent'
    <3>1. /\ up'[Len(up) + 1] = m /\ Len(up) + 1 \in DOMAIN up'
          /\ \A i \in DOMAIN up' : i <= Len(up) + 1
      BY <2>2 DEF Types
    <3>2. QED
      BY <3>1, <2>2, <2>3 DEF LastIsSent
  <2>8. NeverDeaf'
    <3> SUFFICES ASSUME NEW c \in subs, "shared" \notin lapse
                 PROVE  c \in held' \cup Coming' \/ Leaving(c)'
      BY <2>2 DEF NeverDeaf
    <3>1. c \in held \cup Coming \/ Leaving(c)
      BY DEF Sound, NeverDeaf
    <3>2. QED
      BY <3>1, <1>1, <1>2, <2>4
  <2>9. QED
    BY <1>1, <1>4, <2>1, <2>2, <2>4, <2>6, <2>7, <2>8 DEF Sound, Apart, LastCovers
<1>5. CASE Send /\ srv = "none"
  <2>1. up' = up /\ last' = pending
    BY <1>5 DEF Send
  <2>2. subs' = {} /\ up' = <<>> /\ srv' = "none"
    BY <1>5, <2>1 DEF Sound, Apart
  <2>3. QED
    BY <1>1, <2>1, <2>2, Empty DEF Types
<1>6. (SameRect /\ Skip) \/ Send
  BY DEF Consider, Coalesced
<1>7. QED
  BY <1>3, <1>4, <1>5, <1>6

LEMMA SendJoinSound ==
    ASSUME IInv, SendJoin
    PROVE  Sound' /\ up' \in Seq(UpMsg)
<1> DEFINE m == [kind |-> "join"]
<1>1. /\ up' = Append(up, m) /\ srv # "none" /\ link'.sock = link.sock
      /\ UNCHANGED <<held, down, srv, subs, last, lapse>>
  BY DEF SendJoin, IInv, Types, server, client
<1>2. m \in UpMsg
  BY DEF UpMsg
<1>3. up' \in Seq(UpMsg) /\ \A c : Leaving(c) => Leaving(c)'
  <2> HIDE DEF m
  <2> QED BY <1>1, <1>2, SentMore DEF IInv
<1>4. LastIsSent'
  <2>1. /\ \A i \in DOMAIN up' : i \in DOMAIN up \/ up'[i] = m
        /\ \A i \in DOMAIN up : i \in DOMAIN up' /\ up'[i] = up[i]
    BY <1>1 DEF IInv, Types
  <2>2. QED
    BY <1>1, <2>1 DEF LastIsSent, IInv, Sound
<1>5. Coming' = Coming /\ \A c : Window(last)' = Window(last)
  BY <1>1 DEF Coming, Window, First, Wide, Clamp
<1>6. QED
  BY <1>1, <1>3, <1>4, <1>5 DEF IInv, Sound, Apart, LastCovers, Covered, NeverDeaf

LEMMA DeliverSound ==
    ASSUME IInv, Deliver
    PROVE  Sound' /\ down' \in Seq(DownMsg)
<1> DEFINE msg == Head(down)
<1>1. /\ down # <<>> /\ down' = Tail(down) /\ Arrive(msg)
      /\ UNCHANGED <<last, up, srv, subs>>
  BY DEF Deliver, server
<1>2. down' \in Seq(DownMsg) /\ msg = down[1] /\ msg \in DownMsg
  BY <1>1 DEF IInv, Types
<1>3. \A i \in DOMAIN down : i = 1 \/ (i - 1 \in DOMAIN down' /\ down'[i - 1] = down[i])
  BY <1>1 DEF IInv, Types
<1>4. held \subseteq held' /\ (msg.kind = "sync" => msg.chunks \subseteq held')
  BY <1>1, <1>2 DEF Arrive, DownMsg
<1>5. link'.sock = link.sock /\ ("shared" \notin lapse' => "shared" \notin lapse)
  BY <1>1, <1>2 DEF Arrive, DownMsg, IInv, Types
<1>6. held \cup Coming \subseteq held' \cup Coming'
  BY <1>2, <1>3, <1>4, Came, CameNext
<1>7. \A c : (Leaving(c) <=> Leaving(c)') /\ (Covered(c) <=> Covered(c)')
  BY <1>1 DEF Leaving, Covered, Window, First, Wide, Clamp
<1>8. QED
  BY <1>1, <1>2, <1>5, <1>6, <1>7 DEF IInv, Sound, Apart, LastIsSent, LastCovers, NeverDeaf

\* A view is read: what the server keeps fits it, and the views behind it.
LEMMA LookSound ==
    ASSUME IInv, up # <<>>, up' = Tail(up), Head(up).kind = "view", Look(Head(up).view),
           UNCHANGED <<held, link, last>>
    PROVE  Sound' /\ down' \in Seq(DownMsg) /\ subs' \subseteq Int
<1> USE DEF IInv
<1> DEFINE v == Head(up).view
           m == [kind |-> "sync", chunks |-> Rect(v) \ subs]
<1>1. up[1] = Head(up) /\ up[1] \in UpMsg /\ v \in View /\ 1 \in DOMAIN up
  BY DEF Types, UpMsg
<1>2. Rect(v) \subseteq Window(v) /\ Rect(v) \subseteq Int
  BY <1>1, WindowNear
<1>3. /\ subs' = (subs \cap Window(v)) \cup Rect(v)
      /\ down' = IF Rect(v) \subseteq subs THEN down ELSE Append(down, m)
      /\ srv' = srv /\ lapse' = lapse
  BY DEF Look
<1>4. m \in DownMsg /\ m.kind = "sync" /\ m.chunks = Rect(v) \ subs
  BY <1>2 DEF DownMsg
<1>5. down' \in Seq(DownMsg) /\ Coming \subseteq Coming' /\ Rect(v) \ subs \subseteq Coming'
  <2>1. CASE Rect(v) \subseteq subs
    BY <1>3, <2>1 DEF Types, Coming
  <2>2. CASE ~ (Rect(v) \subseteq subs)
    <3>1. down' = Append(down, m)
      BY <1>3, <2>2
    <3> HIDE DEF m
    <3>2. QED
      BY <3>1, <1>4, ComesMore
  <2>3. QED
    BY <2>1, <2>2
<1>6. \A i \in DOMAIN up : i = 1 \/ (i - 1 \in DOMAIN up' /\ up'[i - 1] = up[i])
  BY DEF Types
<1>7. \A i \in DOMAIN up' : i + 1 \in DOMAIN up /\ up'[i] = up[i + 1] /\ i \in Nat
  BY DEF Types
<1>8. \A c \in Window(v) : Leaving(c) => Leaving(c)'
  <2> SUFFICES ASSUME NEW c \in Window(v), Leaving(c)
               PROVE  Leaving(c)'
    OBVIOUS
  <2>1. PICK i \in DOMAIN up : up[i].kind = "view" /\ c \notin Window(up[i].view)
    BY DEF Leaving
  <2>2. i # 1
    BY <1>1, <2>1
  <2>3. i - 1 \in DOMAIN up' /\ up'[i - 1] = up[i]
    BY <1>6, <2>2
  <2>4. up'[i - 1].kind = "view" /\ c \notin Window(up'[i - 1].view)
    BY <2>1, <2>3
  <2>5. QED
    BY <2>3, <2>4 DEF Leaving
<1>9. LastIsSent'
  <2> SUFFICES ASSUME NEW i \in DOMAIN up', up'[i].kind = "view"
               PROVE  \E j \in DOMAIN up' : j >= i /\ up'[j].kind = "view" /\ up'[j].view = last
    BY DEF LastIsSent
  <2>1. PICK j \in DOMAIN up : j >= i + 1 /\ up[j].kind = "view" /\ up[j].view = last
    BY <1>7 DEF Sound, LastIsSent
  <2>2. j - 1 \in DOMAIN up' /\ up'[j - 1] = up[j] /\ j - 1 >= i
    BY <1>6, <1>7, <2>1 DEF Types
  <2>3. QED
    BY <2>1, <2>2
<1>10. subs' \subseteq Window(v)
  BY <1>2, <1>3
<1>11. ASSUME NEW c \in Window(v)
       PROVE  (last # NoView /\ c \in Window(last)) \/ Leaving(c)'
  <2>1. PICK j \in DOMAIN up : up[j].kind = "view" /\ up[j].view = last
    BY <1>1 DEF Sound, LastIsSent
  <2>2. last # NoView
    <3>1. up[j] \in UpMsg
      BY DEF Types
    <3>2. last \in View
      BY <2>1, <3>1 DEF UpMsg
    <3>3. QED
      BY <3>2, ViewingAssumption DEF View, NoView
  <2>3. CASE c \in Window(last)
    BY <2>2, <2>3
  <2>4. CASE c \notin Window(last)
    <3>1. Leaving(c)
      BY <2>1, <2>4 DEF Leaving
    <3>2. QED
      BY <3>1, <1>8
  <2>5. QED
    BY <2>3, <2>4
<1>12. LastCovers'
  BY <1>10, <1>11 DEF LastCovers, Covered, Window, First, Wide, Clamp
<1>13. NeverDeaf'
  <2> SUFFICES ASSUME NEW c \in subs', "shared" \notin lapse
               PROVE  c \in held' \cup Coming' \/ Leaving(c)'
    BY <1>3 DEF NeverDeaf
  <2>1. CASE c \in subs
    BY <2>1, <1>5, <1>8, <1>10 DEF Sound, NeverDeaf
  <2>2. CASE c \notin subs
    BY <2>2, <1>3, <1>5
  <2>3. QED
    BY <2>1, <2>2
<1>14. Apart' /\ subs' \subseteq Int
  BY <1>1, <1>2, <1>3 DEF Sound, Apart, Types
<1>15. QED
  BY <1>5, <1>9, <1>12, <1>13, <1>14 DEF Sound

\* The player's subscriptions begin empty, or are those of an old connection.
LEMMA AdmitSound ==
    ASSUME IInv, up # <<>>, up' = Tail(up), Head(up).kind = "join", Admit \/ Refuse,
           UNCHANGED <<held, link, last>>
    PROVE  Sound' /\ down' \in Seq(DownMsg)
<1> USE DEF IInv
<1>1. up[1] = Head(up) /\ 1 \in DOMAIN up /\ link.sock = "open"
  BY DEF Types, Sound, Apart
<1>2. \A i \in DOMAIN up : i = 1 \/ (i - 1 \in DOMAIN up' /\ up'[i - 1] = up[i])
  BY DEF Types
<1>3. \A i \in DOMAIN up' : i + 1 \in DOMAIN up /\ up'[i] = up[i + 1] /\ i \in Nat
  BY DEF Types
<1>4. LastIsSent'
  <2> SUFFICES ASSUME NEW i \in DOMAIN up', up'[i].kind = "view"
               PROVE  \E j \in DOMAIN up' : j >= i /\ up'[j].kind = "view" /\ up'[j].view = last
    BY DEF LastIsSent
  <2>1. PICK j \in DOMAIN up : j >= i + 1 /\ up[j].kind = "view" /\ up[j].view = last
    BY <1>3 DEF Sound, LastIsSent
  <2>2. j - 1 \in DOMAIN up' /\ up'[j - 1] = up[j] /\ j - 1 >= i
    BY <1>2, <1>3, <2>1 DEF Types
  <2>3. QED
    BY <2>1, <2>2
<1>5. srv # "none"
  BY DEF Sound, Apart
<1>6. \A c : Leaving(c) => Leaving(c)'
  <2> SUFFICES ASSUME NEW c, Leaving(c)
               PROVE  Leaving(c)'
    OBVIOUS
  <2>1. PICK i \in DOMAIN up : up[i].kind = "view" /\ c \notin Window(up[i].view)
    BY DEF Leaving
  <2>2. i - 1 \in DOMAIN up' /\ up'[i - 1] = up[i]
    BY <1>1, <1>2, <2>1
  <2>3. up'[i - 1].kind = "view" /\ c \notin Window(up'[i - 1].view)
    BY <2>1, <2>2
  <2>4. QED
    BY <2>2, <2>3 DEF Leaving
<1>7. CASE Admit
  <2>1. "shared" \notin lapse' => subs' = {}
    BY <1>7 DEF Admit, Types
  <2>2. down' \in Seq(DownMsg)
    <3>1. [kind |-> "ack", ok |-> TRUE] \in DownMsg /\ [kind |-> "hint"] \in DownMsg
      BY DEF DownMsg
    <3>2. QED
      BY <3>1, <1>7 DEF Admit, Types
  <2>3. srv' # "none" /\ link'.sock = "open"
    BY <1>1, <1>7 DEF Admit
  <2>4. QED
    BY <1>4, <2>1, <2>2, <2>3 DEF Sound, Apart, LastCovers, NeverDeaf
<1>8. CASE Refuse
  <2> DEFINE m == [kind |-> "ack", ok |-> FALSE]
  <2>1. down' = Append(down, m) /\ UNCHANGED <<srv, subs, lapse>>
    BY <1>8 DEF Refuse
  <2>2. m \in DownMsg
    BY DEF DownMsg
  <2>3. down' \in Seq(DownMsg) /\ Coming \subseteq Coming'
    <3> HIDE DEF m
    <3> QED BY <2>1, <2>2, ComesMore
  <2>4. \A c : Covered(c) => Covered(c)'
    BY <1>6 DEF Covered, Window, First, Wide, Clamp
  <2>5. QED
    BY <1>1, <1>4, <1>5, <1>6, <2>1, <2>3, <2>4 DEF Sound, Apart, LastCovers, NeverDeaf
<1>9. QED
  BY <1>7, <1>8

-----------------------------------------------------------------------------
(* Types. *)

LEMMA FrameTypes ==
    ASSUME Types, Frame,
           up' \in Seq(UpMsg), last' \in View \cup {NoView}
    PROVE  Types'
<1>1. /\ cam' \in View /\ shown' \in Place
      /\ pending' = IF "ask" \in frame THEN cam ELSE NoView
  BY ViewingAssumption DEF Types, Frame, Spawns, View
<1>2. /\ frame' \subseteq {"commit", "ask", "spawn", "consider"}
      /\ "consider" \in frame' => "ask" \in frame
  BY DEF Frame
<1>3. QED
  BY <1>1, <1>2 DEF Types, Frame, server

LEMMA TypesKept ==
    ASSUME Types, Next, ~ Frame, up' \in Seq(UpMsg), down' \in Seq(DownMsg), subs' \subseteq Int
    PROVE  Types'
<1> USE DEF Types
<1>1. CASE Navigate \/ Zoom \/ Click \/ Resize
  BY <1>1 DEF Navigate, Zoom, Click, Resize, MoveTo, View, server
<1>2. CASE Effects
  BY <1>2, ViewingAssumption DEF Effects, Spawns, Synced, View, server
<1>3. CASE SendJoin \/ Reap
  <2>2. CASE SendJoin
    BY <2>2 DEF SendJoin, client, server
  <2>3. CASE Reap
    <3>1. old' = Gone /\ UNCHANGED <<cam, shown, frame, pending, last, link, srv>>
      BY <2>3 DEF Reap, client
    <3>2. Gone \in [there : BOOLEAN, kept : SUBSET Int] /\ Gone.kept = {}
      BY DEF Gone
    <3>3. QED
      BY <3>1, <3>2
  <2>4. QED
    BY <1>3, <2>2, <2>3
<1>4. CASE Connect \/ Open \/ Close
  BY <1>4 DEF Connect, MayConnect, Open, Close, Retries, client, server
<1>5. CASE Deliver
  <2>1. down # <<>> /\ Head(down) \in DownMsg
    BY <1>5 DEF Deliver
  <2>2. link' = link \/ \E ok \in BOOLEAN :
          link' = [link EXCEPT !.joined = @ \/ ok, !.creds = ok]
    BY <1>5, <2>1 DEF Deliver, Arrive, DownMsg
  <2>3. QED
    BY <1>5, <2>2 DEF Deliver, server
<1>6. CASE Lose
  <2>1. srv' = "none" /\ UNCHANGED <<cam, shown, frame, pending, last>>
    BY <1>6 DEF Lose, client
  <2>2. PICK sock \in {"open", "closing"} : link' = [link EXCEPT !.sock = sock, !.rejoin = FALSE]
    BY <1>6 DEF Lose
  <2> DEFINE o == [there |-> TRUE, kept |-> subs]
  <2>3. old' = old \/ old' = o
    BY <1>6 DEF Lose
  <2>4. old' \in [there : BOOLEAN, kept : SUBSET Int] /\ (~ old'.there => old'.kept = {})
    <3>1. o \in [there : BOOLEAN, kept : SUBSET Int] /\ o.there
      OBVIOUS
    <3> HIDE DEF o
    <3>2. QED
      BY <2>3, <3>1
  <2>5. QED
    BY <2>1, <2>2, <2>4
<1>7. CASE Serve
  BY <1>7 DEF Serve, Look, Admit, Refuse, client
<1>8. QED
  BY <1>1, <1>2, <1>3, <1>4, <1>5, <1>6, <1>7 DEF Next

-----------------------------------------------------------------------------
(* The theorem. *)

LEMMA Begins == Init => IInv
<1> SUFFICES ASSUME Init PROVE IInv
  OBVIOUS
<1>1. Types
  BY ViewingAssumption DEF Init, Types, View, Gone
<1>2. Sound
  BY DEF Init, Sound, Apart, LastIsSent, LastCovers, NeverDeaf
<1>3. QED
  BY <1>1, <1>2 DEF IInv

LEMMA Goes == IInv /\ [Next]_vars => IInv'
<1> SUFFICES ASSUME IInv, [Next]_vars PROVE IInv'
  OBVIOUS
<1> USE DEF IInv
<1>1. CASE Navigate \/ Zoom \/ Click \/ Resize \/ Effects \/ Reap
  <2>1. UNCHANGED <<held, link, up, down, srv, subs, last, lapse>>
    BY <1>1 DEF Navigate, Zoom, Click, Resize, Effects, Reap, client, server
  <2>2. Sound'
    BY <2>1, Quiet DEF Sound, Apart
  <2>3. Frame \/ Types'
    BY <1>1, <2>1, TypesKept DEF Next, Types
  <2>4. CASE Frame
    BY <2>1, <2>4, <2>2, FrameTypes DEF Types
  <2>5. QED
    BY <2>2, <2>3, <2>4
<1>2. CASE Frame
  <2>1. CASE "consider" \in frame
    <3>1. Sound' /\ up' \in Seq(UpMsg) /\ last' \in View \cup {NoView}
      BY <1>2, <2>1, ConsiderSound DEF Frame, server
    <3>2. QED
      BY <1>2, <3>1, FrameTypes
  <2>2. CASE "consider" \notin frame
    <3>1. UNCHANGED <<held, link, up, down, srv, subs, last, lapse>>
      BY <1>2, <2>2 DEF Frame, server
    <3>2. Sound'
      BY <3>1, Quiet DEF Sound, Apart
    <3>3. QED
      BY <1>2, <3>1, <3>2, FrameTypes DEF Types
  <2>3. QED
    BY <2>1, <2>2
<1>3. CASE (Connect \/ Open \/ Lose \/ Close) /\ ~ Frame
  <2>1. subs' = {} /\ up' = <<>> /\ (srv' # "none" => link'.sock = "open")
    BY <1>3 DEF Connect, Open, Lose, Close, Sound, Apart, client, server, Types
  <2>2. down' \in Seq(DownMsg)
    <3>1. down' = down \/ down' = <<>>
      BY <1>3 DEF Connect, Open, Lose, Close
    <3>2. down \in Seq(DownMsg)
      BY DEF Types
    <3>3. <<>> \in Seq(DownMsg)
      OBVIOUS
    <3>4. QED
      BY <3>1, <3>2, <3>3
  <2>3. Types'
    <3>1. up' \in Seq(UpMsg) /\ subs' \subseteq Int
      BY <2>1
    <3>2. QED
      BY <1>3, <3>1, <2>2, TypesKept DEF Next
  <2>4. QED
    BY <2>1, <2>3, Empty
<1>4. CASE SendJoin /\ ~ Frame
  <2>1. Sound' /\ up' \in Seq(UpMsg)
    BY <1>4, SendJoinSound
  <2>2. Types'
    BY <1>4, <2>1, TypesKept DEF Next, SendJoin, server, Types
  <2>3. QED
    BY <2>1, <2>2
<1>5. CASE Deliver /\ ~ Frame
  <2>1. Sound' /\ down' \in Seq(DownMsg)
    BY <1>5, DeliverSound
  <2>2. Types'
    BY <1>5, <2>1, TypesKept DEF Next, Deliver, server, Types
  <2>3. QED
    BY <2>1, <2>2
<1>6. CASE Serve /\ ~ Frame
  <2>1. up # <<>> /\ up' = Tail(up) /\ UNCHANGED <<held, link, last>>
    BY <1>6 DEF Serve, client
  <2>2. up' \in Seq(UpMsg)
    BY <2>1 DEF Types
  <2>3. Sound' /\ down' \in Seq(DownMsg) /\ subs' \subseteq Int
    <3>1. CASE Head(up).kind = "view" /\ Look(Head(up).view)
      BY <2>1, <3>1, LookSound
    <3>2. CASE Head(up).kind = "join" /\ (Admit \/ Refuse)
      <4>1. subs' \subseteq Int
        BY <3>2 DEF Admit, Refuse, Types
      <4>2. QED
        BY <2>1, <3>2, <4>1, AdmitSound
    <3>3. QED
      BY <1>6, <3>1, <3>2 DEF Serve
  <2>4. Types'
    BY <1>6, <2>2, <2>3, TypesKept DEF Next
  <2>5. QED
    BY <2>3, <2>4
<1>7. CASE UNCHANGED vars
  <2>1. Sound'
    BY <1>7, Quiet DEF vars, client, server, Sound, Apart
  <2>2. QED
    BY <1>7, <2>1 DEF Types, vars, client, server
<1>8. QED
  BY <1>1, <1>2, <1>3, <1>4, <1>5, <1>6, <1>7 DEF Next

\* A chunk the client is subscribed to is in its stores, on its way, or about
\* to be unsubscribed: for every size of the screen, prefetch and margin that
\* fit the radius within which the client keeps chunks.
THEOREM NeverDeafHolds == Spec => []NeverDeaf
<1>1. IInv => NeverDeaf
  BY DEF IInv, Sound
<1>2. QED
  BY <1>1, Begins, Goes, PTL DEF Spec

-----------------------------------------------------------------------------
(* Gestures: the invariant. *)

Spot == {NoSpot} \cup (Pointer \X Position)
Hook == [drag : [dragging : BOOLEAN, start : Spot], pinch : [touches : Nat, on : BOOLEAN],
         timer : Nat, live : SUBSET Nat]
PressRecord == [by : Pointer, alone : BOOLEAN, done : SUBSET {"pan", "zoom", "tap", "flag"}]

GestureTypes ==
    /\ hook \in Hook /\ hook.live \subseteq DOMAIN presses
    /\ holds \in [Pointer -> Nat] /\ at \in [Pointer -> Position]
    /\ presses \in Seq(PressRecord) /\ cancelled \in BOOLEAN
    /\ \A p \in Pointer : holds[p] # 0 => holds[p] \in DOMAIN presses /\ presses[holds[p]].by = p

\* A press n that is down and has been alone so far: its timer is the one the
\* hook remembers, and what came of it shows in the drag.
Alone(n) == n \in DOMAIN presses /\ presses[n].alone
Along(n) ==
    /\ n \in hook.live => hook.timer = n /\ ~ hook.drag.dragging /\ presses[n].done = {}
    /\ \/ presses[n].done = {}
       \/ presses[n].done = {"pan"} /\ (hook.drag.dragging \/ hook.drag.start = NoSpot)
       \/ presses[n].done = {"flag"} /\ hook.drag.start = NoSpot

\* Nothing else can change the drag under it, but for a finger that is gone.
Lonely ==
    \A p \in Pointer : Alone(holds[p]) =>
        /\ \A q \in Pointer \ {p} : holds[q] = 0
        /\ \A n \in hook.live : presses[n].by \in Mouse => n = holds[p]
        /\ Along(holds[p])

\* A press that is over: all that may still come is its long press.
Over ==
    \A n \in DOMAIN presses : Alone(n) /\ holds[presses[n].by] # n =>
        /\ n \in hook.live => presses[n].done = {} /\ cancelled
        /\ presses[n].done = {} \/ \E act : presses[n].done = {act}

Rest ==
    ~ cancelled =>
        /\ Touching = {} => hook.pinch = NoPinch
        /\ (\A p \in Pointer : holds[p] = 0) => hook.drag.start = NoSpot
        /\ (\A q \in Mouse : holds[q] = 0) /\ Cardinality(Touching) = 2 => hook.drag.start = NoSpot

GestureInv == GestureTypes /\ Lonely /\ Over /\ Rest

-----------------------------------------------------------------------------
(* The handlers of the hook. *)

LEMMA HookParts ==
    ASSUME NEW h \in Hook
    PROVE  /\ h.drag \in [dragging : BOOLEAN, start : Spot] /\ h.drag.dragging \in BOOLEAN /\ h.drag.start \in Spot
           /\ h.timer \in Nat /\ h.live \subseteq Nat
           /\ NoDrag \in [dragging : BOOLEAN, start : Spot] /\ NoDrag.start = NoSpot /\ NoDrag.dragging = FALSE
BY DEF Hook, NoDrag, Spot

LEMMA Cleared ==
    ASSUME NEW h \in Hook
    PROVE  LET k == ClearDragTimeout(h)
           IN  /\ k \in Hook /\ k.drag = h.drag /\ k.pinch = h.pinch
               /\ k.live = h.live \ {h.timer} /\ k.timer = 0
BY DEF Hook, ClearDragTimeout

LEMMA TouchStart ==
    ASSUME NEW h \in Hook, NEW T
    PROVE  LET k == OnTouchStart(h, T)
           IN  /\ k \in Hook
               /\ Cardinality(T) # 2 => k = h
               /\ Cardinality(T) = 2 => k.drag.start = NoSpot /\ k.live = h.live \ {h.timer}
<1> DEFINE c == ClearDragTimeout(h)
           k == [c EXCEPT !.drag = NoDrag, !.pinch = [touches |-> 2, on |-> TRUE]]
<1>1. c \in Hook /\ c.live = h.live \ {h.timer}
  BY Cleared
<1>2. NoDrag \in [dragging : BOOLEAN, start : Spot] /\ NoDrag.start = NoSpot
  BY HookParts
<1>3. k \in Hook /\ k.drag = NoDrag /\ k.live = h.live \ {h.timer}
  <2> HIDE DEF c
  <2>1. QED
    BY <1>1, <1>2 DEF Hook
<1>4. OnTouchStart(h, T) = IF Cardinality(T) # 2 THEN h ELSE k
  BY DEF OnTouchStart
<1>5. QED
  <2> HIDE DEF k
  <2>1. QED
    BY <1>2, <1>3, <1>4

LEMMA PointerMove ==
    ASSUME NEW h \in Hook, NEW spot
    PROVE  LET k == OnPointerMove(h, spot)
           IN  /\ k \in Hook /\ k.drag.start = h.drag.start /\ k.pinch = h.pinch
               /\ \/ k = h
                  \/ /\ h.drag.start # NoSpot /\ ~ h.drag.dragging
                     /\ k.drag.dragging /\ k.live = h.live \ {h.timer}
<1> DEFINE c == ClearDragTimeout(h)
           k == [c EXCEPT !.drag.dragging = TRUE]
<1>1. c \in Hook /\ c.drag = h.drag /\ c.pinch = h.pinch /\ c.live = h.live \ {h.timer}
  BY Cleared
<1>2. k \in Hook /\ k.drag.dragging = TRUE /\ k.drag.start = h.drag.start /\ k.pinch = h.pinch
      /\ k.live = h.live \ {h.timer}
  <2> HIDE DEF c
  <2>1. QED
    BY <1>1 DEF Hook
<1>3. OnPointerMove(h, spot) = IF h.drag.start \notin {NoSpot, spot} /\ ~ h.drag.dragging THEN k ELSE h
  BY DEF OnPointerMove
<1>4. QED
  <2> HIDE DEF k
  <2>1. QED
    BY <1>2, <1>3

LEMMA PointerUp ==
    ASSUME NEW h \in Hook
    PROVE  LET k == OnPointerUp(h)
           IN  k \in Hook /\ k.drag = NoDrag /\ k.pinch = h.pinch /\ k.live = h.live \ {h.timer}
<1> DEFINE c == ClearDragTimeout(h)
<1>1. c \in Hook /\ c.pinch = h.pinch /\ c.live = h.live \ {h.timer}
  BY Cleared
<1>2. NoDrag \in [dragging : BOOLEAN, start : Spot]
  BY HookParts
<1>3. OnPointerUp(h) = [c EXCEPT !.drag = NoDrag]
  BY DEF OnPointerUp
<1>4. QED
  <2> HIDE DEF c
  <2>1. QED
    BY <1>1, <1>2, <1>3 DEF Hook

LEMMA TouchEnd ==
    ASSUME NEW h \in Hook, NEW T \in SUBSET Finger, at \in [Pointer -> Position]
    PROVE  LET k == OnTouchEnd(h, T)
           IN  /\ k \in Hook /\ k.live = h.live
               /\ T = {} => k.pinch = NoPinch /\ k.drag = h.drag
               /\ Cardinality(T) = 2 => k = h
<1> DEFINE f == CHOOSE f \in T : TRUE
           k == [h EXCEPT !.pinch = [touches |-> 1, on |-> FALSE],
                          !.drag = [dragging |-> FALSE, start |-> <<f, at[f]>>]]
           n == [h EXCEPT !.pinch = NoPinch]
<1>1. n \in Hook /\ n.live = h.live /\ n.pinch = NoPinch /\ n.drag = h.drag
  BY DEF Hook, NoPinch
<1>2. T # {} => k \in Hook /\ k.live = h.live
  <2> SUFFICES ASSUME T # {} PROVE k \in Hook /\ k.live = h.live
    OBVIOUS
  <2>1. f \in Finger
    OBVIOUS
  <2>2. <<f, at[f]>> \in Spot
    BY <2>1 DEF Spot, Pointer
  <2> HIDE DEF f
  <2>3. QED
    BY <2>2 DEF Hook
<1>3. Cardinality({}) = 0
  BY FS_EmptySet
<1>4. OnTouchEnd(h, T) = IF T = {} THEN n ELSE IF Cardinality(T) = 1 /\ h.pinch.touches = 2 THEN k ELSE h
  BY DEF OnTouchEnd
<1>5. QED
  <2> HIDE DEF k, n
  <2>1. QED
    BY <1>1, <1>2, <1>3, <1>4

-----------------------------------------------------------------------------
(* What becomes of the presses. *)

LEMMA Rewritten ==
    ASSUME NEW S, NEW s \in Seq(S), NEW f, f = [n \in DOMAIN s |-> f[n]], \A n \in DOMAIN s : f[n] \in S
    PROVE  f \in Seq(S) /\ DOMAIN f = DOMAIN s /\ Len(f) = Len(s)
<1>1. DOMAIN s = 1 .. Len(s) /\ Len(s) \in Nat
  OBVIOUS
<1>2. f \in [1 .. Len(s) -> S]
  BY <1>1
<1>3. QED
  BY <1>1, <1>2

LEMMA PressDisturbed ==
    ASSUME GestureTypes, NEW p \in Pointer
    PROVE  LET d == Disturbed(p)
           IN  /\ d \in Seq(PressRecord) /\ DOMAIN d = DOMAIN presses /\ Len(d) = Len(presses)
               /\ \A n \in DOMAIN presses :
                     /\ d[n] \in PressRecord /\ d[n].by = presses[n].by /\ d[n].done = presses[n].done
                     /\ d[n].alone = (presses[n].alone /\ n \notin Others(p))
<1> DEFINE d == Disturbed(p)
<1>1. \A n \in DOMAIN presses : presses[n] \in PressRecord
  BY DEF GestureTypes
<1>2. /\ d = [n \in DOMAIN presses |-> d[n]]
      /\ \A n \in DOMAIN presses : d[n] = IF n \in Others(p) THEN [presses[n] EXCEPT !.alone = FALSE] ELSE presses[n]
  BY DEF Disturbed
<1> HIDE DEF d
<1>3. ASSUME NEW n \in DOMAIN presses
      PROVE  /\ d[n] \in PressRecord /\ d[n].by = presses[n].by /\ d[n].done = presses[n].done
             /\ d[n].alone = (presses[n].alone /\ n \notin Others(p))
  <2>1. CASE n \in Others(p)
    BY <1>1, <1>2, <2>1 DEF PressRecord
  <2>2. CASE n \notin Others(p)
    BY <1>1, <1>2, <2>2 DEF PressRecord
  <2>3. QED
    BY <2>1, <2>2
<1>4. presses \in Seq(PressRecord)
  BY DEF GestureTypes
<1>5. d \in Seq(PressRecord) /\ DOMAIN d = DOMAIN presses /\ Len(d) = Len(presses)
  BY <1>2, <1>3, <1>4, Rewritten
<1>6. QED
  BY <1>3, <1>5 DEF d

LEMMA Doing ==
    ASSUME NEW r \in PressRecord, NEW act \in {"pan", "zoom", "tap", "flag"}
    PROVE  LET d == Did(r, act)
           IN  d \in PressRecord /\ d.by = r.by /\ d.alone = r.alone /\ d.done = r.done \cup {act}
BY DEF Did, PressRecord

LEMMA Acting ==
    ASSUME GestureTypes, NEW k \in DOMAIN presses, NEW act \in {"pan", "zoom", "tap", "flag"}
    PROVE  LET d == Acts({k}, act)
           IN  /\ d \in Seq(PressRecord) /\ DOMAIN d = DOMAIN presses
               /\ \A n \in DOMAIN presses : n # k => d[n] = presses[n]
               /\ d[k].by = presses[k].by /\ d[k].alone = presses[k].alone
               /\ d[k].done = presses[k].done \cup {act}
<1> DEFINE d == Acts({k}, act)
<1>1. presses \in Seq(PressRecord) /\ \A n \in DOMAIN presses : presses[n] \in PressRecord
  BY DEF GestureTypes
<1>2. /\ d = [n \in DOMAIN presses |-> d[n]]
      /\ \A n \in DOMAIN presses : d[n] = IF n = k THEN Did(presses[n], act) ELSE presses[n]
  BY DEF Acts
<1> HIDE DEF d
<1>3. \A n \in DOMAIN presses : d[n] \in PressRecord
  BY <1>1, <1>2, Doing
<1>4. d[k].by = presses[k].by /\ d[k].alone = presses[k].alone /\ d[k].done = presses[k].done \cup {act}
  BY <1>1, <1>2, Doing
<1>5. d \in Seq(PressRecord) /\ DOMAIN d = DOMAIN presses
  BY <1>1, <1>2, <1>3, Rewritten
<1>6. QED
  BY <1>2, <1>4, <1>5 DEF d

-----------------------------------------------------------------------------
(* Every step keeps the invariant. *)

LEMMA Logged ==
    ASSUME GestureTypes
    PROVE  /\ DOMAIN presses = 1 .. Len(presses) /\ Len(presses) \in Nat
           /\ 0 \notin DOMAIN presses /\ Len(presses) + 1 \notin DOMAIN presses
           /\ \A n \in DOMAIN presses : presses[n] \in PressRecord /\ presses[n].by \in Pointer
<1>1. presses \in Seq(PressRecord)
  BY DEF GestureTypes
<1>2. /\ DOMAIN presses = 1 .. Len(presses) /\ Len(presses) \in Nat
      /\ 0 \notin DOMAIN presses /\ Len(presses) + 1 \notin DOMAIN presses
  BY <1>1
<1>3. \A n \in DOMAIN presses : presses[n] \in PressRecord
  BY <1>1
<1>4. \A r \in PressRecord : r.by \in Pointer
  BY DEF PressRecord
<1>5. QED
  BY <1>2, <1>3, <1>4

\* A press that is down belongs to the pointer that holds it.
LEMMA Held ==
    ASSUME GestureTypes, NEW p \in Pointer
    PROVE  /\ holds[p] \in Nat /\ (holds[p] # 0 => holds[p] \in DOMAIN presses /\ presses[holds[p]].by = p)
           /\ Others(p) = {} <=> \A q \in Pointer \ {p} : holds[q] = 0
           /\ \A q \in Pointer \ {p} : holds[q] # 0 => holds[q] \in Others(p) /\ holds[q] # holds[p]
BY DEF GestureTypes, Others

LEMMA PressedInv ==
    ASSUME GestureInv, NEW p \in Pointer, holds[p] = 0, NEW r \in PressRecord, r.by = p, r.alone => r.done = {},
           presses' = Append(Disturbed(p), r), holds' = [holds EXCEPT ![p] = Len(presses) + 1],
           cancelled' = cancelled, at' \in [Pointer -> Position],
           hook' \in Hook, hook'.live \subseteq hook.live \cup {Len(presses) + 1},
           r.alone => Others(p) = {} /\ ~ MouseLeft,
           Len(presses) + 1 \in hook'.live => hook'.timer = Len(presses) + 1 /\ ~ hook'.drag.dragging
    PROVE  GestureTypes' /\ Lonely' /\ Over'
<1> DEFINE n == Len(presses) + 1
<1>0. GestureTypes
  BY DEF GestureInv
<1>1. /\ DOMAIN presses = 1 .. Len(presses) /\ Len(presses) \in Nat /\ n \in Nat \ {0} /\ n \notin DOMAIN presses
      /\ hook.live \subseteq DOMAIN presses
  BY <1>0, Logged DEF GestureTypes
<1>2. /\ presses' \in Seq(PressRecord) /\ DOMAIN presses' = DOMAIN presses \cup {n}
      /\ presses'[n] = r
      /\ \A k \in DOMAIN presses :
            /\ presses'[k] \in PressRecord /\ presses'[k].by = presses[k].by /\ presses'[k].done = presses[k].done
            /\ presses'[k].alone = (presses[k].alone /\ k \notin Others(p))
  <2> DEFINE d == Disturbed(p)
  <2>1. /\ d \in Seq(PressRecord) /\ DOMAIN d = DOMAIN presses /\ Len(d) = Len(presses)
        /\ \A k \in DOMAIN presses :
              /\ d[k] \in PressRecord /\ d[k].by = presses[k].by /\ d[k].done = presses[k].done
              /\ d[k].alone = (presses[k].alone /\ k \notin Others(p))
    BY <1>0, PressDisturbed
  <2> HIDE DEF d
  <2>2. presses' = Append(d, r)
    BY DEF d
  <2>3. /\ presses' \in Seq(PressRecord) /\ DOMAIN presses' = DOMAIN presses \cup {n}
        /\ presses'[n] = r /\ \A k \in DOMAIN presses : presses'[k] = d[k]
    BY <1>1, <2>1, <2>2
  <2>4. QED
    BY <2>1, <2>3
<1>3. /\ holds' \in [Pointer -> Nat] /\ holds'[p] = n /\ \A q \in Pointer \ {p} : holds'[q] = holds[q]
  BY <1>0, <1>1 DEF GestureTypes
<1> HIDE DEF n
<1>4. GestureTypes'
  <2>1. \A q \in Pointer : holds'[q] # 0 => holds'[q] \in DOMAIN presses' /\ presses'[holds'[q]].by = q
    BY <1>0, <1>2, <1>3 DEF GestureTypes
  <2>2. hook'.live \subseteq DOMAIN presses'
    BY <1>1, <1>2 DEF n
  <2>3. QED
    BY <1>0, <1>2, <1>3, <2>1, <2>2 DEF GestureTypes
<1>5. Lonely'
  <2> SUFFICES ASSUME NEW q \in Pointer, Alone(holds[q])'
               PROVE  /\ \A x \in Pointer \ {q} : holds'[x] = 0
                      /\ \A k \in hook'.live : presses'[k].by \in Mouse => k = holds'[q]
                      /\ Along(holds[q])'
    BY DEF Lonely
  <2>1. CASE q = p
    <3>1. r.alone
      BY <1>2, <1>3, <2>1 DEF Alone
    <3>2. \A x \in Pointer \ {p} : holds'[x] = 0
      BY <1>0, <1>3, <3>1, Held
    <3>3. \A k \in hook'.live : presses'[k].by \in Mouse => k = n
      <4> SUFFICES ASSUME NEW k \in hook'.live, k # n PROVE presses'[k].by \notin Mouse
        OBVIOUS
      <4>1. k \in hook.live
        BY DEF n
      <4>2. QED
        BY <1>1, <1>2, <3>1, <4>1 DEF MouseLeft
    <3>4. /\ presses'[n].done = {}
          /\ n \in hook'.live => hook'.timer = n /\ ~ hook'.drag.dragging
      BY <1>2, <3>1 DEF n
    <3>5. QED
      BY <1>3, <2>1, <3>2, <3>3, <3>4 DEF Along
  <2>2. CASE q # p
    <3>1. holds'[q] = holds[q] /\ holds[q] # 0 /\ holds[q] \in DOMAIN presses /\ holds[q] \in Others(p)
      BY <1>0, <1>3, <1>4, <2>2, Held, Logged DEF Alone, GestureTypes
    <3>2. QED
      BY <1>2, <3>1 DEF Alone
  <2>3. QED
    BY <2>1, <2>2
<1>6. Over'
  <2> SUFFICES ASSUME NEW k \in DOMAIN presses', Alone(k)', holds'[presses'[k].by] # k
               PROVE  /\ k \in hook'.live => presses'[k].done = {} /\ cancelled'
                      /\ presses'[k].done = {} \/ \E act : presses'[k].done = {act}
    BY DEF Over
  <2>1. k # n
    BY <1>2, <1>3
  <2>2. k \in DOMAIN presses /\ Alone(k) /\ k \notin Others(p) /\ presses[k].by \in Pointer
    BY <1>0, <1>2, <2>1, Logged DEF Alone
  <2>3. holds[presses[k].by] # k
    BY <1>0, <1>2, <1>3, <2>2, Held
  <2>4. k \in hook'.live => k \in hook.live
    BY <2>1 DEF n
  <2>5. QED
    BY <1>2, <2>2, <2>3, <2>4 DEF GestureInv, Over
<1>7. QED
  BY <1>4, <1>5, <1>6

LEMMA PressInv ==
    ASSUME GestureInv, NEW p \in Pointer, Press(p)
    PROVE  GestureInv'
<1>0. GestureTypes /\ Rest
  BY DEF GestureInv
<1> DEFINE n == Len(presses) + 1
           r == [by |-> p, alone |-> Others(p) = {} /\ ~ MouseLeft, done |-> {}]
           begun == OnPointerDown(hook, n, <<p, 1>>)
           T == Touching \cup {p}
<1>1. /\ holds[p] = 0 /\ cancelled' = cancelled /\ at' = [at EXCEPT ![p] = 1]
      /\ hook' = IF p \in Finger THEN OnTouchStart(begun, T) ELSE begun
      /\ holds' = [holds EXCEPT ![p] = n]
      /\ presses' = Append(Disturbed(p), r)
  BY DEF Press
<1>2. r \in PressRecord /\ r.by = p /\ (r.alone => r.done = {}) /\ (r.alone => Others(p) = {} /\ ~ MouseLeft)
  BY DEF PressRecord
<1>3. /\ begun \in Hook /\ begun.drag.dragging = FALSE /\ begun.pinch = hook.pinch
      /\ begun.live = hook.live \cup {n} /\ begun.timer = n /\ n \in Nat /\ n # 0
  <2>1. n \in Nat /\ n # 0 /\ hook \in Hook
    BY <1>0, Logged DEF GestureTypes
  <2> DEFINE spot == <<p, 1>>
  <2>2. spot \in Spot
    BY DEF Spot, Position
  <2> HIDE DEF n, spot
  <2>3. begun = OnPointerDown(hook, n, spot)
    BY DEF spot
  <2> HIDE DEF begun
  <2>4. QED
    BY <2>1, <2>2, <2>3 DEF Hook, OnPointerDown
<1>4. /\ OnTouchStart(begun, T) \in Hook
      /\ Cardinality(T) # 2 => OnTouchStart(begun, T) = begun
      /\ Cardinality(T) = 2 => /\ OnTouchStart(begun, T).drag.start = NoSpot
                               /\ OnTouchStart(begun, T).live = begun.live \ {n}
  BY <1>3, TouchStart
<1> HIDE DEF n, r, begun
<1>5. /\ hook' \in Hook /\ hook'.live \subseteq hook.live \cup {n}
      /\ n \in hook'.live => hook'.timer = n /\ ~ hook'.drag.dragging
  <2>1. CASE p \notin Finger \/ Cardinality(T) # 2
    BY <1>1, <1>3, <1>4, <2>1
  <2>2. CASE p \in Finger /\ Cardinality(T) = 2
    BY <1>1, <1>3, <1>4, <2>2
  <2>3. QED
    BY <2>1, <2>2
<1>6. at' \in [Pointer -> Position]
  BY <1>0, <1>1 DEF GestureTypes, Position
<1>7. GestureTypes' /\ Lonely' /\ Over'
  BY <1>1, <1>2, <1>5, <1>6, PressedInv DEF n
<1>8. Rest'
  <2>1. holds'[p] = n /\ n # 0 /\ \A q \in Pointer \ {p} : holds'[q] = holds[q]
    BY <1>0, <1>1, <1>3 DEF GestureTypes
  <2>2. Touching' = IF p \in Finger THEN T ELSE Touching
    BY <2>1 DEF Touching, Pointer
  <2>3. p \notin Finger => p \in Mouse /\ hook'.pinch = hook.pinch
    BY <1>1, <1>3 DEF Pointer
  <2>4. p \in Finger /\ Cardinality(T) = 2 => hook'.drag.start = NoSpot
    BY <1>1, <1>4
  <2>5. p \in Finger => Touching' # {}
    BY <2>2
  <2>6. QED
    BY <1>0, <1>1, <2>1, <2>2, <2>3, <2>4, <2>5 DEF Rest
<1>9. QED
  BY <1>7, <1>8 DEF GestureInv

LEMMA RightClickInv ==
    ASSUME GestureInv, NEW m \in Mouse, RightClick(m)
    PROVE  GestureInv'
<1> DEFINE n == Len(presses) + 1
           r == [by |-> m, alone |-> FALSE, done |-> {"flag"}]
<1>0. GestureTypes /\ Rest
  BY DEF GestureInv
<1>1. /\ holds[m] = 0 /\ m \in Pointer /\ m \notin Finger
      /\ holds' = [holds EXCEPT ![m] = n] /\ presses' = Append(Disturbed(m), r)
      /\ UNCHANGED <<hook, at, cancelled>>
  BY GesturesAssumption DEF RightClick, Pointer
<1>2. r \in PressRecord /\ r.by = m /\ r.alone = FALSE
  BY <1>1 DEF PressRecord
<1> HIDE DEF r
<1>3. n \in Nat \ {0} /\ n \notin DOMAIN presses /\ hook.live \subseteq DOMAIN presses
  BY <1>0, Logged DEF GestureTypes
<1>4. GestureTypes' /\ Lonely' /\ Over'
  BY <1>0, <1>1, <1>2, <1>3, PressedInv DEF GestureTypes, n
<1>5. Rest'
  <2>1. holds'[m] # 0 /\ \A q \in Pointer \ {m} : holds'[q] = holds[q]
    BY <1>0, <1>1, <1>3 DEF GestureTypes
  <2>2. Touching' = Touching
    BY <1>1, <2>1 DEF Touching, Pointer
  <2>3. QED
    BY <1>0, <1>1, <2>1, <2>2 DEF Rest
<1>6. QED
  BY <1>4, <1>5 DEF GestureInv

LEMMA CancelInv ==
    ASSUME GestureInv, NEW p \in Pointer, Cancel(p)
    PROVE  GestureInv'
<1>0. GestureTypes /\ Lonely /\ Over
  BY DEF GestureInv
<1>1. /\ holds' = [holds EXCEPT ![p] = 0] /\ holds' \in [Pointer -> Nat] /\ holds'[p] = 0
      /\ cancelled' = TRUE /\ at' \in [Pointer -> Position]
      /\ UNCHANGED <<hook, presses>>
      /\ \A q \in Pointer \ {p} : holds'[q] = holds[q]
  BY <1>0 DEF Cancel, GestureTypes, Position
<1>2. GestureTypes'
  BY <1>0, <1>1 DEF GestureTypes
<1>3. Lonely'
  <2> SUFFICES ASSUME NEW q \in Pointer, Alone(holds'[q])
               PROVE  /\ \A x \in Pointer \ {q} : holds'[x] = 0
                      /\ \A k \in hook.live : presses[k].by \in Mouse => k = holds'[q]
                      /\ Along(holds'[q])
    BY <1>1 DEF Lonely, Alone, Along
  <2>1. q # p /\ holds'[q] = holds[q]
    BY <1>0, <1>1, Held, Logged DEF Alone
  <2>2. QED
    BY <1>0, <1>1, <2>1 DEF Lonely
<1>4. Over'
  <2> SUFFICES ASSUME NEW k \in DOMAIN presses, Alone(k)
               PROVE  /\ k \in hook.live => presses[k].done = {}
                      /\ presses[k].done = {} \/ \E act : presses[k].done = {act}
    BY <1>1 DEF Over, Alone
  <2>1. presses[k].by \in Pointer
    BY <1>0, Logged
  <2>2. CASE holds[presses[k].by] = k
    BY <1>0, <2>1, <2>2 DEF Lonely, Along
  <2>3. CASE holds[presses[k].by] # k
    BY <1>0, <2>3 DEF Over
  <2>4. QED
    BY <2>2, <2>3
<1>5. QED
  BY <1>1, <1>2, <1>3, <1>4 DEF GestureInv, Rest

LEMMA TimeoutInv ==
    ASSUME GestureInv, Timeout
    PROVE  GestureInv'
<1>0. GestureTypes /\ Lonely /\ Over /\ Rest
  BY DEF GestureInv
<1>1. PICK n \in hook.live :
         hook' = OnTimeout(hook, n) /\ presses' = LongPress(n) /\ UNCHANGED <<holds, at, cancelled>>
  BY DEF Timeout
<1>2. n \in DOMAIN presses /\ presses[n] \in PressRecord /\ presses[n].by \in Pointer
  BY <1>0, Logged DEF GestureTypes
<1> DEFINE finger == presses[n].by \in Finger
<1>3. /\ hook' \in Hook /\ hook'.live = hook.live \ {n} /\ hook'.pinch = hook.pinch /\ hook'.timer = hook.timer
      /\ finger => hook'.drag.dragging = FALSE /\ hook'.drag.start = NoSpot
      /\ ~ finger => hook'.drag.start = hook.drag.start
  <2>1. hook \in Hook
    BY <1>0 DEF GestureTypes
  <2>2. CASE finger
    <3>1. hook' = [hook EXCEPT !.live = @ \ {n}, !.drag = NoDrag]
      BY <1>1, <2>2 DEF OnTimeout
    <3>2. NoDrag \in [dragging : BOOLEAN, start : Spot] /\ NoDrag.dragging = FALSE /\ NoDrag.start = NoSpot
      BY <2>1, HookParts
    <3>3. QED
      BY <2>1, <2>2, <3>1, <3>2 DEF Hook
  <2>3. CASE ~ finger
    <3>1. hook' = [hook EXCEPT !.live = @ \ {n}, !.drag.dragging = TRUE]
      BY <1>1, <2>3 DEF OnTimeout
    <3>2. QED
      BY <2>1, <2>3, <3>1 DEF Hook
  <2>4. QED
    BY <2>2, <2>3
<1>4. /\ presses' \in Seq(PressRecord) /\ DOMAIN presses' = DOMAIN presses
      /\ \A k \in DOMAIN presses : k # n => presses'[k] = presses[k]
      /\ presses'[n].by = presses[n].by /\ presses'[n].alone = presses[n].alone
      /\ finger => presses'[n].done = presses[n].done \cup {"flag"}
      /\ ~ finger => presses'[n].done = presses[n].done
  <2>1. CASE finger
    <3>1. presses' = Acts({n}, "flag")
      BY <1>1, <2>1 DEF LongPress
    <3>2. QED
      BY <1>0, <1>2, <2>1, <3>1, Acting
  <2>2. CASE ~ finger
    BY <1>0, <1>1, <2>2 DEF LongPress, GestureTypes
  <2>3. QED
    BY <2>1, <2>2
<1>5. \A k : Alone(k)' <=> Alone(k)
  BY <1>4 DEF Alone
<1>6. \A k \in DOMAIN presses : presses'[k].by = presses[k].by
  BY <1>4
<1> HIDE DEF finger
<1>7. GestureTypes'
  BY <1>0, <1>1, <1>3, <1>4, <1>6 DEF GestureTypes
<1>8. Lonely'
  <2> SUFFICES ASSUME NEW q \in Pointer, Alone(holds[q])
               PROVE  /\ \A x \in Pointer \ {q} : holds[x] = 0
                      /\ \A k \in hook'.live : presses'[k].by \in Mouse => k = holds[q]
                      /\ \A k : k = holds[q] => Along(k)'
    <3>1. \A q \in Pointer : Alone(holds[q])' <=> Alone(holds[q])
      BY <1>1, <1>4 DEF Alone
    <3>2. \A q \in Pointer : (\A k : k = holds[q] => Along(k)') => Along(holds[q])'
      BY <1>1 DEF Along
    <3>3. QED
      BY <1>1, <3>1, <3>2 DEF Lonely
  <2>1. /\ \A x \in Pointer \ {q} : holds[x] = 0
        /\ \A k \in hook.live : presses[k].by \in Mouse => k = holds[q]
        /\ Along(holds[q]) /\ holds[q] \in DOMAIN presses
    BY <1>0 DEF Lonely, Alone
  <2>2. \A k \in hook'.live : presses'[k].by \in Mouse => k = holds[q]
    BY <1>0, <1>3, <1>6, <2>1 DEF GestureTypes
  <2>3. ASSUME NEW k, k = holds[q] PROVE Along(k)'
    <3>1. CASE k = n
      BY <1>3, <1>4, <2>1, <2>3, <3>1 DEF Along
    <3>2. CASE k # n
      <4>1. finger
        BY <1>2, <2>1, <2>3, <3>2 DEF finger, Pointer
      <4>2. presses'[k] = presses[k]
        BY <1>4, <2>1, <2>3, <3>2
      <4>3. QED
        BY <1>3, <2>1, <2>3, <4>1, <4>2 DEF Along
    <3>3. QED
      BY <3>1, <3>2
  <2>4. QED
    BY <2>1, <2>2, <2>3
<1>9. Over'
  <2> SUFFICES ASSUME NEW k \in DOMAIN presses, Alone(k), holds[presses[k].by] # k
               PROVE  /\ k \in hook'.live => presses'[k].done = {} /\ cancelled
                      /\ presses'[k].done = {} \/ \E act : presses'[k].done = {act}
    BY <1>1, <1>4, <1>5, <1>6 DEF Over
  <2>1. /\ k \in hook.live => presses[k].done = {} /\ cancelled
        /\ presses[k].done = {} \/ \E act : presses[k].done = {act}
    BY <1>0 DEF Over
  <2>2. CASE k = n
    <3>1. presses'[k].done = {} \/ presses'[k].done = {"flag"}
      BY <1>4, <2>1, <2>2
    <3>2. QED
      BY <1>3, <2>2, <3>1
  <2>3. CASE k # n
    BY <1>3, <1>4, <2>1, <2>3
  <2>4. QED
    BY <2>2, <2>3
<1>10. Rest'
  <2>1. Touching' = Touching
    BY <1>1 DEF Touching
  <2>2. hook.drag.start = NoSpot => hook'.drag.start = NoSpot
    BY <1>3
  <2>3. QED
    BY <1>0, <1>1, <1>3, <2>1, <2>2 DEF Rest
<1>11. QED
  BY <1>7, <1>8, <1>9, <1>10 DEF GestureInv

\* What a move makes of the presses: all but the pointer's own lose the board to
\* themselves, its own may pan, and what two fingers hold may zoom.
LEMMA MovedPresses ==
    ASSUME GestureTypes, NEW p \in Pointer, Move(p)
    PROVE  /\ presses' \in Seq(PressRecord) /\ DOMAIN presses' = DOMAIN presses
           /\ \A n \in DOMAIN presses :
                 /\ presses'[n].by = presses[n].by
                 /\ presses'[n].alone => presses[n].alone /\ n \notin Others(p)
                 /\ presses'[n].done = IF n = holds[p] /\ Pans(hook') THEN presses[n].done \cup {"pan"}
                                       ELSE IF p \in Finger /\ Zooms(hook', Touching) /\ n \in {holds[f] : f \in Touching}
                                       THEN presses[n].done \cup {"zoom"} ELSE presses[n].done
<1> DEFINE d == Disturbed(p)
           pans(n) == n = holds[p] /\ Pans(hook')
           zooms(n) == p \in Finger /\ Zooms(hook', Touching) /\ n \in {holds[f] : f \in Touching}
           value(n) == IF pans(n) THEN Did(presses[n], "pan") ELSE IF zooms(n) THEN Did(d[n], "zoom") ELSE d[n]
<1>1. presses' = [n \in DOMAIN presses |-> value(n)]
  BY DEF Move
<1>2. \A n \in DOMAIN presses :
         /\ d[n] \in PressRecord /\ d[n].by = presses[n].by /\ d[n].done = presses[n].done
         /\ d[n].alone = (presses[n].alone /\ n \notin Others(p))
  BY PressDisturbed
<1>3. /\ presses \in Seq(PressRecord) /\ 0 \notin DOMAIN presses
      /\ \A n \in DOMAIN presses : presses[n] \in PressRecord
  BY Logged DEF GestureTypes
<1>4. holds[p] # 0 => holds[p] \notin Others(p)
  BY Held DEF Others
<1> HIDE DEF d, pans, zooms
<1>5. ASSUME NEW n \in DOMAIN presses
      PROVE  /\ value(n) \in PressRecord /\ value(n).by = presses[n].by
             /\ value(n).alone => presses[n].alone /\ n \notin Others(p)
             /\ value(n).done = IF pans(n) THEN presses[n].done \cup {"pan"}
                                ELSE IF zooms(n) THEN presses[n].done \cup {"zoom"} ELSE presses[n].done
  <2>1. CASE pans(n)
    <3>1. n \notin Others(p)
      BY <1>3, <1>4, <2>1 DEF pans
    <3> DEFINE r == presses[n]
    <3>2. r \in PressRecord
      BY <1>3
    <3> HIDE DEF r
    <3>3. LET e == Did(r, "pan")
          IN  e \in PressRecord /\ e.by = r.by /\ e.alone = r.alone /\ e.done = r.done \cup {"pan"}
      BY <3>2, Doing
    <3>4. QED
      BY <2>1, <3>1, <3>3 DEF r
  <2>2. CASE ~ pans(n) /\ zooms(n)
    <3> DEFINE r == d[n]
    <3>1. r \in PressRecord
      BY <1>2
    <3> HIDE DEF r
    <3>2. LET e == Did(r, "zoom")
          IN  e \in PressRecord /\ e.by = r.by /\ e.alone = r.alone /\ e.done = r.done \cup {"zoom"}
      BY <3>1, Doing
    <3>3. QED
      BY <1>2, <2>2, <3>2 DEF r
  <2>3. CASE ~ pans(n) /\ ~ zooms(n)
    BY <1>2, <2>3
  <2>4. QED
    BY <2>1, <2>2, <2>3
<1> HIDE DEF value
<1>6. presses' \in Seq(PressRecord) /\ DOMAIN presses' = DOMAIN presses /\ \A n \in DOMAIN presses : presses'[n] = value(n)
  <2>1. presses' = [n \in DOMAIN presses |-> presses'[n]] /\ \A n \in DOMAIN presses : presses'[n] = value(n)
    BY <1>1
  <2>2. \A n \in DOMAIN presses : presses'[n] \in PressRecord
    BY <1>5, <2>1
  <2>3. QED
    BY <1>3, <2>1, <2>2, Rewritten
<1>7. QED
  <2>1. \A n \in DOMAIN presses :
           /\ presses'[n].by = presses[n].by
           /\ presses'[n].alone => presses[n].alone /\ n \notin Others(p)
           /\ presses'[n].done = IF pans(n) THEN presses[n].done \cup {"pan"}
                                 ELSE IF zooms(n) THEN presses[n].done \cup {"zoom"} ELSE presses[n].done
    BY <1>5, <1>6
  <2>2. QED
    BY <1>6, <2>1 DEF pans, zooms

LEMMA MoveInv ==
    ASSUME GestureInv, NEW p \in Pointer, Move(p)
    PROVE  GestureInv'
<1>0. GestureTypes /\ Lonely /\ Over /\ Rest
  BY DEF GestureInv
<1>1. /\ UNCHANGED <<holds, cancelled>> /\ at' \in [Pointer -> Position]
      /\ \E there : hook' = OnPointerMove(hook, there)
  BY <1>0 DEF Move, GestureTypes
<1>2. /\ hook' \in Hook /\ hook'.drag.start = hook.drag.start /\ hook'.pinch = hook.pinch
      /\ \/ hook' = hook
         \/ /\ hook.drag.start # NoSpot /\ ~ hook.drag.dragging
            /\ hook'.drag.dragging /\ hook'.live = hook.live \ {hook.timer}
  BY <1>0, <1>1, PointerMove DEF GestureTypes
<1> DEFINE panned(n) == n = holds[p] /\ Pans(hook')
           zoomed(n) == p \in Finger /\ Zooms(hook', Touching) /\ n \in {holds[f] : f \in Touching}
<1>3. /\ presses' \in Seq(PressRecord) /\ DOMAIN presses' = DOMAIN presses
      /\ \A n \in DOMAIN presses :
            /\ presses'[n].by = presses[n].by
            /\ presses'[n].alone => presses[n].alone /\ n \notin Others(p)
            /\ panned(n) => presses'[n].done = presses[n].done \cup {"pan"}
            /\ ~ panned(n) /\ ~ zoomed(n) => presses'[n].done = presses[n].done
  BY <1>0, MovedPresses
<1> HIDE DEF panned, zoomed
<1>4. GestureTypes'
  BY <1>0, <1>1, <1>2, <1>3 DEF GestureTypes
<1>5. \A n : Alone(n)' => Alone(n) /\ n \notin Others(p)
  BY <1>3 DEF Alone
<1>6. hook'.live \subseteq hook.live
  BY <1>2
<1>7. Lonely'
  <2> DEFINE n == holds[p]
  <2> SUFFICES ASSUME NEW q \in Pointer, \E k : k = holds[q] /\ Alone(k)'
               PROVE  /\ q = p
                      /\ \A x \in Pointer \ {p} : holds[x] = 0
                      /\ \A k \in hook'.live : presses'[k].by \in Mouse => k = n
                      /\ \A k : k = n => Along(k)'
    BY <1>1 DEF Lonely, Alone, Along
  <2>1. Alone(holds[q]) /\ holds[q] \notin Others(p)
    BY <1>5
  <2>2. q = p
    BY <1>0, <2>1, Held, Logged DEF Alone
  <2>3. /\ \A x \in Pointer \ {p} : holds[x] = 0
        /\ \A k \in hook.live : presses[k].by \in Mouse => k = n
        /\ Along(n) /\ n \in DOMAIN presses
    BY <1>0, <2>1, <2>2 DEF Lonely, Alone
  <2>4. ~ Zooms(hook', Touching)
    <3>1. Touching = {} \/ Touching = {p}
      BY <2>3 DEF Touching, Pointer
    <3>2. Cardinality({}) = 0 /\ Cardinality({p}) = 1
      BY FS_EmptySet, FS_Singleton
    <3>3. Cardinality(Touching) # 2
      BY <3>1, <3>2
    <3>4. QED
      BY <3>3 DEF Zooms
  <2>5. ~ zoomed(n)
    BY <2>4 DEF zoomed
  <2>6. panned(n) <=> hook.drag.start # NoSpot /\ hook'.drag.dragging
    BY <1>2 DEF panned, Pans
  <2>7. /\ panned(n) => presses'[n].done = presses[n].done \cup {"pan"}
        /\ ~ panned(n) => presses'[n].done = presses[n].done
    BY <1>3, <2>3, <2>5
  <2>8. \A k \in hook'.live : presses'[k].by \in Mouse => k = n
    BY <1>0, <1>3, <1>6, <2>3 DEF GestureTypes
  <2> HIDE DEF n
  <2>9. n \in hook'.live => hook'.timer = n /\ ~ hook'.drag.dragging /\ presses'[n].done = {}
    <3> SUFFICES ASSUME n \in hook'.live PROVE hook'.timer = n /\ ~ hook'.drag.dragging /\ presses'[n].done = {}
      OBVIOUS
    <3>1. hook.timer = n /\ ~ hook.drag.dragging /\ presses[n].done = {}
      BY <1>6, <2>3 DEF Along
    <3>2. hook' = hook
      BY <1>2, <3>1
    <3>3. QED
      BY <2>6, <2>7, <3>1, <3>2
  <2>10. \/ presses'[n].done = {}
         \/ presses'[n].done = {"pan"} /\ (hook'.drag.dragging \/ hook'.drag.start = NoSpot)
         \/ presses'[n].done = {"flag"} /\ hook'.drag.start = NoSpot
    <3>1. CASE panned(n)
      <4>1. presses[n].done = {} \/ presses[n].done = {"pan"}
        BY <2>3, <2>6, <3>1 DEF Along
      <4>2. QED
        BY <2>6, <2>7, <3>1, <4>1
    <3>2. CASE ~ panned(n)
      BY <1>2, <2>3, <2>7, <3>2 DEF Along
    <3>3. QED
      BY <3>1, <3>2
  <2>11. QED
    BY <2>2, <2>3, <2>8, <2>9, <2>10 DEF Along
<1>8. Over'
  <2> SUFFICES ASSUME NEW k \in DOMAIN presses, Alone(k)', holds[presses[k].by] # k
               PROVE  /\ k \in hook'.live => presses'[k].done = {} /\ cancelled
                      /\ presses'[k].done = {} \/ \E act : presses'[k].done = {act}
    BY <1>1, <1>3 DEF Over
  <2>1. /\ k \in hook.live => presses[k].done = {} /\ cancelled
        /\ presses[k].done = {} \/ \E act : presses[k].done = {act}
    BY <1>0, <1>5 DEF Over
  <2>2. ~ panned(k) /\ ~ zoomed(k)
    BY <1>0, Held, Logged DEF panned, zoomed, GestureTypes, Touching, Pointer
  <2>3. QED
    BY <1>3, <1>6, <2>1, <2>2
<1>9. Rest'
  BY <1>0, <1>1, <1>2 DEF Rest, Touching
<1>10. QED
  BY <1>4, <1>7, <1>8, <1>9 DEF GestureInv

LEMMA LiftInv ==
    ASSUME GestureInv, NEW p \in Pointer, NEW S \in SUBSET Touching, S # {} => p \in Finger, p \notin S, Lift(p, S)
    PROVE  GestureInv'
<1>0. GestureTypes /\ Lonely /\ Over /\ Rest
  BY DEF GestureInv
<1> DEFINE n == holds[p]
           ended == OnPointerUp(hook)
           left == Touching \ (S \cup {p})
<1>1. /\ n # 0 /\ n \in DOMAIN presses /\ presses[n].by = p
      /\ holds' = [q \in Pointer |-> IF q \in S \cup {p} THEN 0 ELSE holds[q]]
      /\ hook' = IF p \in Finger THEN OnTouchEnd(ended, left) ELSE ended
      /\ presses' = IF Taps(hook) THEN Acts({n}, "tap") ELSE presses
      /\ cancelled' = cancelled /\ at' \in [Pointer -> Position]
  BY <1>0 DEF Lift, GestureTypes, Position
<1>2. ended \in Hook /\ ended.drag = NoDrag /\ ended.pinch = hook.pinch /\ ended.live = hook.live \ {hook.timer}
  BY <1>0, PointerUp DEF GestureTypes
<1>3. left \in SUBSET Finger /\ Touching' = left
  <2>1. Touching' = {f \in Finger : f \notin S \cup {p} /\ holds[f] # 0}
    BY <1>1 DEF Touching, Pointer
  <2>2. QED
    BY <2>1 DEF Touching
<1> HIDE DEF ended, left
<1>4. /\ hook' \in Hook /\ hook'.live = hook.live \ {hook.timer}
      /\ p \in Finger => /\ left = {} => hook'.pinch = NoPinch /\ hook'.drag = NoDrag
                         /\ Cardinality(left) = 2 => hook'.drag = NoDrag
      /\ p \notin Finger => hook'.pinch = hook.pinch /\ hook'.drag = NoDrag
  <2>1. CASE p \in Finger
    <3>1. at \in [Pointer -> Position]
      BY <1>0 DEF GestureTypes
    <3>2. hook' \in Hook /\ hook'.live = ended.live /\ (left = {} => hook'.pinch = NoPinch /\ hook'.drag = ended.drag)
          /\ (Cardinality(left) = 2 => hook' = ended)
      BY <1>1, <1>2, <1>3, <2>1, <3>1, TouchEnd
    <3>3. QED
      BY <1>2, <2>1, <3>2
  <2>2. CASE p \notin Finger
    BY <1>1, <1>2, <2>2
  <2>3. QED
    BY <2>1, <2>2
<1>5. NoDrag.start = NoSpot
  BY DEF NoDrag
<1>6. /\ presses' \in Seq(PressRecord) /\ DOMAIN presses' = DOMAIN presses
      /\ \A k \in DOMAIN presses :
            /\ presses'[k].by = presses[k].by /\ presses'[k].alone = presses[k].alone
            /\ k # n => presses'[k].done = presses[k].done
      /\ presses'[n].done = IF Taps(hook) THEN presses[n].done \cup {"tap"} ELSE presses[n].done
  <2> HIDE DEF n
  <2>1. CASE Taps(hook)
    BY <1>0, <1>1, <2>1, Acting
  <2>2. CASE ~ Taps(hook)
    BY <1>0, <1>1, <2>2 DEF GestureTypes
  <2>3. QED
    BY <2>1, <2>2
<1>7. GestureTypes'
  <2>1. holds' \in [Pointer -> Nat] /\ \A q \in Pointer : holds'[q] # 0 => holds'[q] = holds[q]
    BY <1>0, <1>1 DEF GestureTypes
  <2>2. QED
    BY <1>0, <1>1, <1>4, <1>6, <2>1 DEF GestureTypes
<1>8. \A k : Alone(k)' <=> Alone(k)
  BY <1>6 DEF Alone
<1>9. Lonely'
  <2> SUFFICES ASSUME NEW q \in Pointer, \E k : k = holds'[q] /\ Alone(k)' PROVE FALSE
    BY DEF Lonely, Alone
  <2>1. Alone(holds'[q]) /\ holds'[q] # 0
    BY <1>0, <1>8, Logged DEF Alone
  <2>2. q # p /\ holds'[q] = holds[q]
    BY <1>1, <2>1
  <2>3. QED
    BY <1>0, <1>1, <2>1, <2>2 DEF Lonely
<1>10. Over'
  <2> SUFFICES ASSUME NEW k \in DOMAIN presses, Alone(k)
               PROVE  /\ k \in hook'.live => presses'[k].done = {} /\ cancelled
                      /\ presses'[k].done = {} \/ \E act : presses'[k].done = {act}
    BY <1>1, <1>6, <1>8 DEF Over
  <2>1. presses[k].by \in Pointer
    BY <1>0, Logged
  <2>2. CASE holds[presses[k].by] # k
    <3>1. k # n
      BY <1>1, <2>2
    <3>2. presses'[k].done = presses[k].done /\ (k \in hook'.live => k \in hook.live)
      BY <1>4, <1>6, <3>1
    <3>3. /\ k \in hook.live => presses[k].done = {} /\ cancelled
          /\ presses[k].done = {} \/ \E act : presses[k].done = {act}
      BY <1>0, <2>2 DEF Over
    <3>4. QED
      BY <3>2, <3>3
  <2>3. CASE holds[presses[k].by] = k
    <3>1. k = n /\ Along(k)
      BY <1>0, <1>1, <2>1, <2>3 DEF Lonely
    <3>2. k \notin hook'.live
      BY <1>4, <3>1 DEF Along
    <3>3. Taps(hook) => presses[k].done = {}
      BY <3>1 DEF Along, Taps
    <3>4. \/ presses'[k].done = {"tap"} \/ presses'[k].done = presses[k].done
      BY <1>6, <3>1, <3>3
    <3>5. QED
      BY <3>1, <3>2, <3>4 DEF Along
  <2>4. QED
    BY <2>2, <2>3
<1>11. Rest'
  <2>1. \A q \in Pointer : holds'[q] = 0 <=> q \in S \cup {p} \/ holds[q] = 0
    BY <1>1
  <2>2. (\A q \in Pointer : holds'[q] = 0) => Touching' = {}
    BY DEF Touching, Pointer
  <2>3. p \notin Finger => Touching' = Touching
    BY <1>3 DEF Touching, left
  <2>4. QED
    BY <1>0, <1>1, <1>3, <1>4, <1>5, <2>2, <2>3 DEF Rest
<1>12. QED
  BY <1>7, <1>9, <1>10, <1>11 DEF GestureInv

LEMMA GesturesInitInv ==
    GesturesInit => GestureInv
<1> SUFFICES ASSUME GesturesInit PROVE GestureInv
  OBVIOUS
<1>1. /\ hook = [drag |-> NoDrag, pinch |-> NoPinch, timer |-> 0, live |-> {}]
      /\ holds = [p \in Pointer |-> 0] /\ at = [p \in Pointer |-> 1] /\ presses = <<>> /\ cancelled = FALSE
  BY DEF GesturesInit
<1>2. hook \in Hook /\ hook.live = {} /\ hook.drag.start = NoSpot /\ hook.pinch = NoPinch
  BY <1>1 DEF Hook, NoDrag, NoPinch, Spot
<1>3. presses \in Seq(PressRecord) /\ DOMAIN presses = {}
  BY <1>1
<1>4. GestureTypes
  <2>1. holds \in [Pointer -> Nat] /\ at \in [Pointer -> Position] /\ \A p \in Pointer : holds[p] = 0
    BY <1>1 DEF Position
  <2>2. QED
    BY <1>1, <1>2, <1>3, <2>1 DEF GestureTypes
<1>5. QED
  BY <1>2, <1>3, <1>4 DEF GestureInv, Lonely, Over, Rest, Alone

LEMMA GesturesStep ==
    GestureInv /\ [GesturesNext]_gestures => GestureInv'
<1> SUFFICES ASSUME GestureInv, [GesturesNext]_gestures PROVE GestureInv'
  OBVIOUS
<1>1. ASSUME NEW m \in Mouse, RightClick(m) PROVE GestureInv'
  BY <1>1, RightClickInv
<1>2. ASSUME NEW p \in Pointer, Press(p) PROVE GestureInv'
  BY <1>2, PressInv
<1>3. ASSUME NEW p \in Pointer, Move(p) PROVE GestureInv'
  BY <1>3, MoveInv
<1>4. ASSUME NEW p \in Pointer, Lift(p, {}) PROVE GestureInv'
  BY <1>4, LiftInv
<1>5. ASSUME NEW p \in Pointer, Cancel(p) PROVE GestureInv'
  BY <1>5, CancelInv
<1>6. ASSUME NEW f \in Touching, NEW g \in Touching, f # g, Lift(f, {g}) PROVE GestureInv'
  <2>1. f \in Pointer /\ f \in Finger /\ {g} \in SUBSET Touching /\ f \notin {g}
    BY <1>6 DEF Touching, Pointer
  <2>2. QED
    BY <1>6, <2>1, LiftInv
<1>7. CASE Timeout
  BY <1>7, TimeoutInv
<1>8. CASE UNCHANGED gestures
  BY <1>8 DEF gestures, GestureInv, GestureTypes, Lonely, Along, Over, Alone, Rest, Touching
<1>9. QED
  BY <1>1, <1>2, <1>3, <1>4, <1>5, <1>6, <1>7, <1>8 DEF GesturesNext

LEMMA OneOutcomeFollows ==
    GestureInv => OneOutcome
<1> SUFFICES ASSUME GestureInv, NEW n \in DOMAIN presses, Alone(n) PROVE Cardinality(presses[n].done) <= 1
  BY DEF OneOutcome, Alone
<1>1. presses[n].by \in Pointer
  BY Logged DEF GestureInv
<1>2. CASE holds[presses[n].by] = n
  <2>1. \E act : presses[n].done = {} \/ presses[n].done = {act}
    BY <1>1, <1>2 DEF GestureInv, Lonely, Along
  <2>2. QED
    BY <2>1, FS_EmptySet, FS_Singleton
<1>3. CASE holds[presses[n].by] # n
  <2>1. \E act : presses[n].done = {} \/ presses[n].done = {act}
    BY <1>3 DEF GestureInv, Over
  <2>2. QED
    BY <2>1, FS_EmptySet, FS_Singleton
<1>4. QED
  BY <1>2, <1>3

LEMMA RestsCleanFollows ==
    GestureInv => RestsClean
<1> SUFFICES ASSUME GestureInv, \A p \in Pointer : holds[p] = 0, ~ cancelled
             PROVE  /\ hook.drag.start = NoSpot /\ hook.pinch = NoPinch
                    /\ \A n \in hook.live : ~ presses[n].alone
  BY DEF RestsClean
<1>1. hook.drag.start = NoSpot /\ hook.pinch = NoPinch
  BY DEF GestureInv, Rest, Touching, Pointer
<1>2. ASSUME NEW n \in hook.live, presses[n].alone PROVE FALSE
  <2>1. n \in DOMAIN presses /\ presses[n].by \in Pointer /\ n # 0
    BY Logged DEF GestureInv, GestureTypes
  <2>2. QED
    BY <1>2, <2>1 DEF GestureInv, Over, Alone
<1>3. QED
  BY <1>1, <1>2

LEMMA PinchStep ==
    ASSUME GestureInv, [GesturesNext]_gestures, Cardinality(Touching) = 2, \A m \in Mouse : holds[m] = 0,
           ~ cancelled, holds' = holds, NEW f \in Touching, "pan" \in presses'[holds[f]].done
    PROVE  "pan" \in presses[holds[f]].done
<1>1. GestureTypes /\ hook.drag.start = NoSpot /\ f \in Pointer
  BY DEF GestureInv, Rest, Touching, Pointer
<1>2. holds[f] \in DOMAIN presses
  BY <1>1 DEF GestureTypes, Touching
<1>3. ASSUME NEW m \in Mouse, RightClick(m) PROVE FALSE
  BY <1>1, <1>3, Logged DEF RightClick, GestureTypes, Pointer
<1>4. ASSUME NEW p \in Pointer, Press(p) PROVE FALSE
  BY <1>1, <1>4, Logged DEF Press, GestureTypes
<1>5. ASSUME NEW p \in Pointer, Move(p) PROVE "pan" \in presses[holds[f]].done
  <2>1. hook'.drag.start = NoSpot
    BY <1>1, <1>5, PointerMove DEF Move, GestureTypes
  <2>2. ~ Pans(hook')
    BY <2>1 DEF Pans
  <2>3. presses'[holds[f]].done = presses[holds[f]].done \/ presses'[holds[f]].done = presses[holds[f]].done \cup {"zoom"}
    BY <1>1, <1>2, <1>5, <2>2, MovedPresses
  <2>4. QED
    BY <2>3
<1>6. ASSUME NEW p \in Pointer, NEW S, Lift(p, S) PROVE FALSE
  BY <1>1, <1>6 DEF Lift, GestureTypes
<1>7. ASSUME NEW p \in Pointer, Cancel(p) PROVE FALSE
  BY <1>1, <1>7 DEF Cancel, GestureTypes
<1>8. CASE Timeout
  <2>1. PICK n \in hook.live : presses' = LongPress(n)
    BY <1>8 DEF Timeout
  <2>2. n \in DOMAIN presses
    BY <1>1 DEF GestureTypes
  <2>3. CASE presses[n].by \in Finger
    <3>1. presses' = Acts({n}, "flag")
      BY <2>1, <2>3 DEF LongPress
    <3>2. presses'[holds[f]].done = presses[holds[f]].done \/ presses'[holds[f]].done = presses[holds[f]].done \cup {"flag"}
      <4>1. CASE holds[f] = n
        BY <1>1, <2>2, <3>1, <4>1, Acting
      <4>2. CASE holds[f] # n
        <5>1. \A k \in DOMAIN presses : k # n => presses'[k] = presses[k]
          BY <1>1, <2>2, <3>1, Acting
        <5>2. presses'[holds[f]] = presses[holds[f]]
          BY <1>2, <4>2, <5>1
        <5>3. QED
          BY <5>2
      <4>3. QED
        BY <4>1, <4>2
    <3>3. QED
      BY <3>2
  <2>4. CASE presses[n].by \notin Finger
    BY <2>1, <2>4 DEF LongPress
  <2>5. QED
    BY <2>3, <2>4
<1>9. CASE UNCHANGED gestures
  BY <1>9 DEF gestures
<1>10. QED
  BY <1>3, <1>4, <1>5, <1>6, <1>7, <1>8, <1>9 DEF GesturesNext, Touching, Pointer

\* Whatever the fingers and the mouse do, and whenever the browser runs the
\* timers, the hook keeps in step with the presses.
LEMMA GestureInvHolds ==
    GesturesSpec => []GestureInv
BY GesturesInitInv, GesturesStep, PTL DEF GesturesSpec

\* A press that has the board to itself is a click, a drag or a long press, and
\* never two of them (usePinchPanZoom.js), for any number of fingers and mice.
THEOREM OneOutcomeHolds ==
    GesturesSpec => []OneOutcome
BY GestureInvHolds, OneOutcomeFollows, PTL

\* When the last pointer is lifted nothing of the gesture is left in the hook:
\* no drag for a hovering mouse, no pinch, no timer of a press that was alone.
THEOREM RestsCleanHolds ==
    GesturesSpec => []RestsClean
BY GestureInvHolds, RestsCleanFollows, PTL

\* Two fingers zoom and do not pan, whatever gestures went before, also those
\* of a third finger that has come and gone.
THEOREM PinchNeverPansHolds ==
    GesturesSpec => PinchNeverPans
<1> DEFINE A == Cardinality(Touching) = 2 /\ (\A m \in Mouse : holds[m] = 0) /\ ~ cancelled /\ holds' = holds =>
                   \A f \in Touching : "pan" \in presses'[holds[f]].done => "pan" \in presses[holds[f]].done
<1>1. GestureInv /\ [GesturesNext]_gestures => [A]_gestures
  BY PinchStep
<1> HIDE DEF A
<1>2. GesturesSpec => [][A]_gestures
  BY <1>1, GestureInvHolds, PTL DEF GesturesSpec
<1>3. QED
  BY <1>2, PTL DEF PinchNeverPans, A

=============================================================================

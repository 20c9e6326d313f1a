------------------------------ MODULE Gestures ------------------------------
(***************************************************************************)
(* Fingers and mouse on the board (frontend/src/hooks/usePinchPanZoom.js)  *)
(* and what App.jsx makes of them: a tap reveals, a long press or a right  *)
(* click flags, a drag pans and two fingers zoom.                          *)
(*                                                                         *)
(* The hook keeps one drag, one pinch and one timer for all pointers.  A   *)
(* browser sends a pointer event and then, for a finger, a touch event     *)
(* about the same contact: the two handlers are one action here, and the   *)
(* timers of setTimeout fire in between.  Positions are cut down to what   *)
(* the hook tells apart: whether a pointer is within ten pixels of where   *)
(* the drag began.  Pointers are never that close to each other, and none  *)
(* is at column 0 of the screen, which the hook takes for no drag.         *)
(***************************************************************************)
EXTENDS Integers, Sequences, FiniteSets

CONSTANTS
    Finger,   \* pointers that also send touch events
    Mouse,    \* mice and pens
    MaxPress  \* bound: presses in one behaviour

ASSUME GesturesAssumption == Finger \cap Mouse = {} /\ MaxPress \in Nat

Pointer == Finger \cup Mouse
Position == {1, 2}  \* places of one pointer, more than ten pixels apart
NoSpot == <<>>

VARIABLES
    hook,      \* the state of the hook: drag, pinch, timer (dragTimeoutRef)
               \* and live, the presses whose timer has still to fire
    holds,     \* holds[p]: the press that p is down for, or 0
    at,        \* at[p]: the place of p
    presses,   \* history: by whom, whether alone, and what came of it (done)
    cancelled  \* history: whether the browser ever took a pointer away

gestures == <<hook, holds, at, presses, cancelled>>

NoDrag == [dragging |-> FALSE, start |-> NoSpot]
NoPinch == [touches |-> 0, on |-> FALSE]

GesturesInit ==
    /\ hook = [drag |-> NoDrag, pinch |-> NoPinch, timer |-> 0, live |-> {}]
    /\ holds = [p \in Pointer |-> 0]
    /\ at = [p \in Pointer |-> 1]
    /\ presses = <<>>
    /\ cancelled = FALSE

Touching == {f \in Finger : holds[f] # 0}

-----------------------------------------------------------------------------
(* The handlers of the hook, as functions of its state. *)

ClearDragTimeout(h) == [h EXCEPT !.live = @ \ {h.timer}, !.timer = 0]

\* Variant: no second timer is started while one is remembered, and a timer
\* that has fired is never forgotten.
VariantOnPointerDown(h, n, spot) ==
    IF h.timer # 0 THEN [h EXCEPT !.drag = [dragging |-> FALSE, start |-> spot]]
    ELSE [h EXCEPT !.drag = [dragging |-> FALSE, start |-> spot], !.timer = n, !.live = @ \cup {n}]
\* The last timer is not cleared: only the new one can be, from here on.
OnPointerDown(h, n, spot) ==
    [h EXCEPT !.drag = [dragging |-> FALSE, start |-> spot], !.timer = n, !.live = @ \cup {n}]

\* Variant: the drag of the first finger goes on beside the pinch.
VariantOnTouchStart(h, touching) ==
    IF Cardinality(touching) # 2 THEN h
    ELSE [ClearDragTimeout(h) EXCEPT !.pinch = [touches |-> 2, on |-> TRUE]]
OnTouchStart(h, touching) ==
    IF Cardinality(touching) # 2 THEN h
    ELSE [ClearDragTimeout(h) EXCEPT !.drag = NoDrag, !.pinch = [touches |-> 2, on |-> TRUE]]

OnPointerMove(h, spot) ==
    IF h.drag.start \notin {NoSpot, spot} /\ ~ h.drag.dragging
    THEN [ClearDragTimeout(h) EXCEPT !.drag.dragging = TRUE] ELSE h
Pans(h) == h.drag.start # NoSpot /\ h.drag.dragging

Zooms(h, touching) == Cardinality(touching) = 2 /\ h.pinch.on

Taps(h) == h.drag.start # NoSpot /\ ~ h.drag.dragging

\* Variant: the drag is left as it is.
VariantOnPointerUp(h) == ClearDragTimeout(h)
OnPointerUp(h) == [ClearDragTimeout(h) EXCEPT !.drag = NoDrag]

\* The finger that is left begins a drag.
OnTouchEnd(h, touching) ==
    IF touching = {} THEN [h EXCEPT !.pinch = NoPinch]
    ELSE IF Cardinality(touching) = 1 /\ h.pinch.touches = 2
    THEN [h EXCEPT !.pinch = [touches |-> 1, on |-> FALSE],
                   !.drag = [dragging |-> FALSE,
                             start |-> LET f == CHOOSE f \in touching : TRUE IN <<f, at[f]>>]]
    ELSE h

-----------------------------------------------------------------------------
(* What comes of a press, in App.jsx: the pan, the zoom, or the click. *)

\* The presses S come to act.
Did(record, act) == [record EXCEPT !.done = @ \cup {act}]
Acts(S, act) == [n \in DOMAIN presses |-> IF n \in S THEN Did(presses[n], act) ELSE presses[n]]

\* The presses of other pointers than p, which are no longer alone.
Others(p) == {holds[q] : q \in Pointer \ {p}} \ {0}
Disturbed(p) == [n \in DOMAIN presses |->
    IF n \in Others(p) THEN [presses[n] EXCEPT !.alone = FALSE] ELSE presses[n]]

\* A mouse press was taken away and its timer is still to fire.
MouseLeft == \E n \in hook.live : presses[n].by \in Mouse

-----------------------------------------------------------------------------
(* Pointers. *)

\* The right button flags at once and starts nothing.
RightClick(m) ==
    /\ holds[m] = 0 /\ Len(presses) < MaxPress
    /\ holds' = [holds EXCEPT ![m] = Len(presses) + 1]
    /\ presses' = Append(Disturbed(m), [by |-> m, alone |-> FALSE, done |-> {"flag"}])
    /\ UNCHANGED <<hook, at, cancelled>>

Press(p) ==
    /\ holds[p] = 0 /\ Len(presses) < MaxPress
    /\ LET n == Len(presses) + 1
           down == OnPointerDown(hook, n, <<p, 1>>)
       IN  /\ hook' = IF p \in Finger THEN OnTouchStart(down, Touching \cup {p}) ELSE down
           /\ holds' = [holds EXCEPT ![p] = n]
           /\ presses' = Append(Disturbed(p),
                 [by |-> p, alone |-> Others(p) = {} /\ ~ MouseLeft, done |-> {}])
    /\ at' = [at EXCEPT ![p] = 1]
    /\ UNCHANGED cancelled

\* A mouse moves over the board also when no button is down, which the hook
\* sees while it has a drag.  A finger that is one of two zooms.
Move(p) ==
    /\ holds[p] # 0 \/ (p \in Mouse /\ hook.drag # NoDrag)
    /\ \E there \in Position \ {at[p]} :
          /\ at' = [at EXCEPT ![p] = there]
          /\ hook' = OnPointerMove(hook, <<p, there>>)
    /\ presses' = [n \in DOMAIN presses |->
          IF n = holds[p] /\ Pans(hook') THEN Did(presses[n], "pan")
          ELSE IF p \in Finger /\ Zooms(hook', Touching) /\ n \in {holds[f] : f \in Touching}
          THEN Did(Disturbed(p)[n], "zoom") ELSE Disturbed(p)[n]]
    /\ UNCHANGED <<holds, cancelled>>

\* The pointer p is lifted and with it, in the same touch event, the fingers
\* of S: p is the first to be told to the hook, the only one that can tap.
Lift(p, S) ==
    /\ holds[p] # 0
    /\ holds' = [q \in Pointer |-> IF q \in S \cup {p} THEN 0 ELSE holds[q]]
    /\ hook' = LET up == OnPointerUp(hook)
               IN  IF p \in Finger THEN OnTouchEnd(up, Touching \ (S \cup {p})) ELSE up
    /\ presses' = IF Taps(hook) THEN Acts({holds[p]}, "tap") ELSE presses
    /\ at' = [q \in Pointer |-> IF q \in S \cup {p} THEN 1 ELSE at[q]]
    /\ UNCHANGED cancelled

\* The browser takes a pointer for itself (pointercancel, touchcancel): no
\* handler is bound.
Cancel(p) ==
    /\ holds[p] # 0
    /\ holds' = [holds EXCEPT ![p] = 0]
    /\ cancelled' = TRUE
    /\ at' = [at EXCEPT ![p] = 1]
    /\ UNCHANGED <<hook, presses>>

\* The timer of press n: a long press of a finger, the start of a mouse drag.
\* Variant: the drag outlives the long press, and the lifted finger taps too.
VariantOnTimeout(h, n) ==
    IF presses[n].by \in Finger THEN [h EXCEPT !.live = @ \ {n}]
    ELSE [h EXCEPT !.live = @ \ {n}, !.drag.dragging = TRUE]
OnTimeout(h, n) ==
    IF presses[n].by \in Finger THEN [h EXCEPT !.live = @ \ {n}, !.drag = NoDrag]
    ELSE [h EXCEPT !.live = @ \ {n}, !.drag.dragging = TRUE]

LongPress(n) == IF presses[n].by \in Finger THEN Acts({n}, "flag") ELSE presses

Timeout ==
    \E n \in hook.live :
        /\ hook' = OnTimeout(hook, n)
        /\ presses' = LongPress(n)
        /\ UNCHANGED <<holds, at, cancelled>>

GesturesNext ==
    \/ \E m \in Mouse : RightClick(m)
    \/ \E p \in Pointer : Press(p) \/ Move(p) \/ Lift(p, {}) \/ Cancel(p)
    \/ \E f, g \in Touching : f # g /\ Lift(f, {g})
    \/ Timeout

\* The browser runs every timer in the end.
GesturesSpec == GesturesInit /\ [][GesturesNext]_gestures /\ WF_gestures(Timeout)

-----------------------------------------------------------------------------
(* Properties. *)

\* A press that has the board to itself comes to one thing at most: a click is
\* no drag, a drag ends without a click, a long press is not followed by a
\* tap; whenever the timer fires, and whatever earlier pointers left behind.
OneOutcome == \A n \in DOMAIN presses : presses[n].alone => Cardinality(presses[n].done) <= 1

\* how-to-play/index.html:236: "long-press to flag, drag to move and pinch to
\* zoom": a press that was half of a pinch flags nothing.  The code does not
\* keep to it.
PinchOnlyZooms ==
    \A n \in DOMAIN presses : "zoom" \in presses[n].done => "flag" \notin presses[n].done

\* Nothing is left over when all pointers are up: no drag that a hovering mouse
\* would go on with, no half of a pinch, no timer of a press that was alone.
RestsClean ==
    (\A p \in Pointer : holds[p] = 0) /\ ~ cancelled =>
        /\ hook.drag.start = NoSpot /\ hook.pinch = NoPinch
        /\ \A n \in hook.live : ~ presses[n].alone

\* While there are two fingers on the board, which zoom, neither of them pans,
\* also when a third has come and gone.  (While it is there, it pans: it has
\* begun a drag, and three fingers are no pinch.)
PinchNeverPans ==
    [][Cardinality(Touching) = 2 /\ (\A m \in Mouse : holds[m] = 0) /\ ~ cancelled /\ holds' = holds =>
          \A f \in Touching :
            "pan" \in presses'[holds[f]].done => "pan" \in presses[holds[f]].done]_gestures

\* A finger that rests on the board, with no other pointer about, is answered
\* by a flag, or it has panned.
Unanswered(n) ==
    /\ n \in DOMAIN presses
    /\ presses[n].by \in Finger /\ holds[presses[n].by] = n
    /\ presses[n].alone /\ presses[n].done = {}
LongPressAnswered == \A n \in 1 .. MaxPress : Unanswered(n) ~> ~ Unanswered(n)

=============================================================================

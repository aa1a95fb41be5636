------------------------------ MODULE Gestures ------------------------------
(***************************************************************************)
(* Fingers on the screen.  The document tells a swipe of one finger (next  *)
(* and previous terminal) from one of two (TAB and ESC) (public/js/        *)
(* mobile.js); the terminal's gesture layer sees its touches first and     *)
(* keeps many of them for itself (public/js/shell-sessions.js: mount); the *)
(* switcher has a third tracker (public/js/switcher.js: init).             *)
(***************************************************************************)
EXTENDS Lists

CONSTANT MaxTouches

VARIABLE x

\* A terminal, a dialog or a tab bar or the switcher, the rest of the page.
Places == {"term", "excluded", "page"}

TypeOK ==
    /\ x.down \in Seq(Places) /\ Len(x.down) <= 2        \* where each finger came down
    /\ x.mode \in {"idle", "tap", "horizontal", "vertical", "select"}   \* touchGesture
    /\ {x.multiTouch, x.fired} \subseteq BOOLEAN         \* of the document
    /\ x.tracking \in {"no", "yes", "fired"}             \* _touchState of the switcher
    /\ x.fingers \in 0..2                                \* the most there were in this gesture
    /\ {x.sent, x.switched, x.panels} \subseteq 0..2     \* what the gesture has done
    /\ x.missed \in BOOLEAN                              \* the document missed an end
    /\ x.touches \in 0..MaxTouches

Init ==
    x = [down |-> <<>>, mode |-> "idle", multiTouch |-> FALSE, fired |-> FALSE,
         tracking |-> "no", fingers |-> 0, sent |-> 0, switched |-> 0, panels |-> 0,
         missed |-> FALSE, touches |-> 0]

\* A touch of a terminal activates it and starts a gesture of the layer, and
\* nobody else hears of it; a second finger resets the layer.
Down(p) ==
    /\ Len(x.down) < 2 /\ x.touches < MaxTouches
    /\ LET s == [x EXCEPT !.down = Append(@, p), !.touches = @ + 1]
       IN x' = IF x.down = <<>>
               THEN [s EXCEPT !.fingers = 1, !.sent = 0, !.switched = 0, !.panels = 0,
                              !.missed = @ /\ x.multiTouch,
                              !.mode = IF p = "term" THEN "tap" ELSE @]
               ELSE [s EXCEPT !.fingers = 2, !.multiTouch = TRUE, !.fired = FALSE,
                              !.sent = 0, !.panels = 0, !.missed = FALSE, !.tracking = "yes",
                              !.mode = IF p = "term" THEN "idle" ELSE @]

\* touchmove with two fingers: the key is sent in the midst of the swipe.
MoveTwo(p) ==
    /\ Len(x.down) = 2 /\ p \in ToSet(x.down)
    /\ x.multiTouch /\ ~x.fired /\ p # "excluded"
    /\ x' = [x EXCEPT !.fired = TRUE, !.sent = @ + 1]

\* The switcher's tracker: up shows or hides it, down opens the keyboard.
MoveUpOrDown ==
    /\ Len(x.down) = 2 /\ x.tracking = "yes"
    /\ x' = [x EXCEPT !.tracking = "fired", !.panels = @ + 1]

\* One finger on the layer.
MoveOne(m) ==
    /\ x.down = <<"term">> /\ x.mode = "tap"
    /\ x' = [x EXCEPT !.mode = m]

\* The last finger has left, and the document goes on counting two.
Missed(s) == [s EXCEPT !.missed = @ \/ (s.multiTouch /\ s.down = <<>>)]

\* The end of a touch that the terminal has: nothing goes further.
LayerEnds(s) ==
    LET t == [Missed(s) EXCEPT !.mode = "idle"]
    IN {t} \cup (IF s.mode = "horizontal" THEN {[t EXCEPT !.switched = @ + 1]} ELSE {})

\* doSwipe2: the swipe was wide enough, or it was not.
Swipe2(s) == {s} \cup (IF s.fired THEN {} ELSE {[s EXCEPT !.sent = @ + 1]})
Forget(s) == [s EXCEPT !.multiTouch = FALSE, !.fired = FALSE]

\* Slip: the flags are left as they are after a staggered lift.
PageEndsKeeping(s) ==
    IF s.down # <<>> THEN {s}
    ELSE IF s.multiTouch THEN Swipe2(s)
    ELSE {s, [s EXCEPT !.switched = @ + 1]}

\* touchend at the document: it waits for the last finger.
PageEnds(s) ==
    IF s.down # <<>> THEN {s}
    ELSE IF s.multiTouch THEN {Forget(t) : t \in Swipe2(s)}
    ELSE {s, [s EXCEPT !.switched = @ + 1]}

\* It ignores the end while text is selected, and in an excluded place.
Ends(s, p) ==
    IF p = "term" THEN LayerEnds(s)
    ELSE IF p = "excluded" \/ s.mode = "select"
    THEN {Missed(s)}
    ELSE PageEnds([s EXCEPT !.tracking = "no"])

Up(i) ==
    /\ i \in DOMAIN x.down
    /\ x' \in Ends([x EXCEPT !.down = RemoveAt(@, i)], x.down[i])

\* Both fingers at once: one event where they share a target, else two.
UpBoth ==
    /\ Len(x.down) = 2
    /\ LET s == [x EXCEPT !.down = <<>>]
       IN \/ x.down = <<"page", "page">> /\ x.mode # "select"
             /\ x' \in {Forget([t EXCEPT !.tracking = "no"]) :
                            t \in IF s.multiTouch THEN Swipe2(s) ELSE {s}}
          \/ x' \in UNION {Ends(t, x.down[2]) : t \in Ends(s, x.down[1])}

Hold == x.mode = "tap" /\ Len(x.down) = 1 /\ x' = [x EXCEPT !.mode = "select"]

Cancel ==
    /\ x.down # <<>>
    /\ x' = [Forget(x) EXCEPT !.down = <<>>,
                              !.mode = IF "term" \in ToSet(x.down) THEN "idle" ELSE @]

Next ==
    \/ \E p \in Places : Down(p) \/ MoveTwo(p)
    \/ \E m \in {"horizontal", "vertical"} : MoveOne(m)
    \/ \E i \in 1..2 : Up(i)
    \/ MoveUpOrDown \/ UpBoth \/ Hold \/ Cancel

Spec == Init /\ [][Next]_x

-----------------------------------------------------------------------------
\* A gesture sends at most one key to the shell, whether the swipe is noticed
\* while it goes on or when the fingers leave, together or one by one, and only
\* two fingers send one, unless the end of an earlier gesture was kept from the
\* document.
OneKeyOfTwoFingers == x.sent <= 1 /\ (x.sent = 1 => x.fingers = 2 \/ x.missed)

\* What makes it inductive: two fingers are remembered only as long as they are
\* down or their end was missed, and then no key is sent twice.
Fields == {"down", "mode", "multiTouch", "fired", "tracking", "fingers", "sent",
           "switched", "panels", "missed", "touches"}
Lifting(s) ==
    /\ DOMAIN s = Fields /\ s.down \in Seq(Places)
    /\ {s.multiTouch, s.fired, s.missed} \subseteq BOOLEAN
    /\ s.sent \in 0..1
    /\ s.multiTouch /\ ~s.fired => s.sent = 0
    /\ s.multiTouch \/ s.sent = 1 => s.fingers = 2 \/ s.missed
Inv(s) == Lifting(s) /\ (s.multiTouch /\ s.down = <<>> => s.missed)

=============================================================================

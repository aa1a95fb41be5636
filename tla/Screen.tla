------------------------------- MODULE Screen -------------------------------
(***************************************************************************)
(* Which terminals one browser tab shows, and which it lets the server     *)
(* pause (public/js/shell-sessions.js: setActive, toggleFullscreen,        *)
(* updateSleepState and the tab bar; public/js/mobile.js: the layout).     *)
(*                                                                         *)
(* A tile that is fullscreen covers the others.  The hidden ones sleep:    *)
(* the server holds their output back until they are resumed.  The state   *)
(* is one record; x.tiles is the Map of sessions, in its order.            *)
(***************************************************************************)
EXTENDS Lists

CONSTANTS
    Tiles,    \* the sessions that may be shown
    None,
    MaxMoves  \* how much may happen

VARIABLE x

TypeOK ==
    /\ x.tiles \in Seq(Tiles) /\ IsInjective(x.tiles)
    /\ x.active \in Tiles \cup {None} /\ x.master \in Tiles \cup {None}
    /\ x.full \subseteq Tiles /\ x.auto \subseteq Tiles   \* .fullscreen, data-auto-fs
    /\ x.bar \in [Tiles -> SUBSET Tiles]                  \* the tabs in a tile's bar
    /\ x.asleep \subseteq Tiles                           \* isAsleep
    /\ x.paused \subseteq Tiles                           \* what the server holds back
    /\ x.attaching \in Seq(Tiles)                         \* not yet attached again
    /\ x.sliding \subseteq Tiles                          \* left by a slide, timer armed
    /\ x.cards \subseteq Tiles                            \* in the switcher; none: closed
    /\ x.later \subseteq Tiles                            \* fullscreen when its timer fires
    /\ {x.online, x.mobile, x.stale, x.doubled} \subseteq BOOLEAN
    /\ x.moves \in 0..MaxMoves

Listed(s) == ToSet(s.tiles)

Init ==
    x = [tiles |-> <<>>, active |-> None, master |-> None, full |-> {}, auto |-> {},
         bar |-> [t \in Tiles |-> {}], asleep |-> {}, paused |-> {}, attaching |-> <<>>,
         sliding |-> {}, cards |-> {}, later |-> {},
         online |-> TRUE, mobile |-> FALSE, stale |-> FALSE, doubled |-> FALSE, moves |-> 0]

\* The tile that hides the others, and those it hides.
Covering(s) == {s.active} \cap s.full \cap Listed(s)
Hidden(s)   == IF Covering(s) = {} THEN {} ELSE Listed(s) \ Covering(s)

\* Slip: only tiles fall asleep.
UpdateSleepStateOneWay(s) ==
    [s EXCEPT !.asleep = @ \cup Hidden(s), !.paused = IF s.online THEN @ \cup Hidden(s) ELSE @,
              !.stale = FALSE]

\* updateSleepState: what falls asleep is paused, what wakes is resumed; the
\* messages are dropped while there is no connection.
UpdateSleepState(s) ==
    [s EXCEPT !.asleep = Hidden(s),
              !.paused = IF s.online
                         THEN (@ \cup (Hidden(s) \ s.asleep)) \ (s.asleep \ Hidden(s)) ELSE @,
              !.stale = FALSE]

\* _renderFsTabs, and _refreshFsTabs for the tile that is fullscreen: the first
\* of them in the document, which has the order of the Map.
RenderFsTabs(s, t) ==
    [s EXCEPT !.bar[t] = IF Len(s.tiles) <= 1 THEN @ ELSE Listed(s)]

FirstFull(s) ==
    {t \in s.full : \E i \in DOMAIN s.tiles :
         s.tiles[i] = t /\ \A j \in DOMAIN s.tiles : s.tiles[j] \in s.full => i <= j}

RefreshFsTabs(s) ==
    [s EXCEPT !.bar = [t \in Tiles |-> IF t \notin FirstFull(s) THEN @[t]
                                       ELSE IF Len(s.tiles) <= 1 THEN {} ELSE Listed(s)]]

\* Nothing takes the class from a tile that has it when another gets it.
ToggleFullscreen(s, t) ==
    UpdateSleepState(
        IF t \in s.full
        THEN [s EXCEPT !.full = @ \ {t}, !.bar[t] = {}]
        ELSE RenderFsTabs([s EXCEPT !.full = @ \cup {t}, !.doubled = @ \/ s.full # {}], t))

\* On a phone the active tile is fullscreen as soon as there are two.
EnsureFullscreenMobile(s, t) ==
    IF s.mobile /\ Len(s.tiles) > 1 /\ t \in Listed(s) \ s.full
    THEN ToggleFullscreen(s, t) ELSE s

\* setActive: fullscreen moves along with the selection.  A slide leaves a
\* timer that takes the class off the tile that was left.
SetActive(s, t, slides) ==
    LET was  == s.active \in s.full \cap Listed(s)
        s1   == [s EXCEPT !.active = t]
        bare == [s1 EXCEPT !.full = {}, !.bar = [u \in Tiles |-> {}], !.doubled = FALSE]
        s2   == IF ~was THEN s1
                ELSE IF t \notin Listed(s) THEN bare
                ELSE RenderFsTabs([bare EXCEPT !.full = {t},
                         !.sliding = IF slides /\ s.active # t THEN @ \cup {s.active} ELSE @], t)
    IN EnsureFullscreenMobile(UpdateSleepState(s2), t)

Last1(q) == IF q = <<>> THEN None ELSE q[Len(q)]

\* A Map, or the rest of one, after a deletion.
Without(q, t) ==
    IF t \notin ToSet(q) THEN q ELSE RemoveAt(q, CHOOSE i \in DOMAIN q : q[i] = t)

-----------------------------------------------------------------------------
Moves(s) == x.moves < MaxMoves /\ x' = [s EXCEPT !.moves = @ + 1]

\* Slip: the tab bar of the tile that is fullscreen is left as it is.
MountQuietly(s, t) ==
    [s EXCEPT !.tiles = Append(@, t), !.attaching = IF @ = <<>> THEN @ ELSE Append(@, t)]

\* mount: the new tile attaches at once, awake, wherever it is; a loop over the
\* sessions that is attaching them again comes by it too.
Mount(s, t) ==
    RefreshFsTabs([s EXCEPT !.tiles = Append(@, t),
                            !.attaching = IF @ = <<>> THEN @ ELSE Append(@, t)])

\* The session of another browser, or one made here, which becomes active.
Created(t) == x.online /\ t \notin Listed(x) /\ Moves(Mount(x, t))
Create(t) ==
    /\ x.online /\ t \notin Listed(x)
    /\ Moves(SetActive([Mount(x, t) EXCEPT !.master = IF @ = None THEN t ELSE @], t, FALSE))

\* destroy: the selection moves to the last tile.
Destroy(t) ==
    /\ t \in Listed(x)
    /\ LET rest == Without(x.tiles, t)
           s1   == [x EXCEPT !.tiles = rest, !.full = @ \ {t}, !.auto = @ \ {t},
                             !.bar[t] = {}, !.asleep = @ \ {t}, !.paused = @ \ {t},
                             !.master = IF @ = t THEN Last1(rest) ELSE @,
                             !.attaching = Without(@, t),
                             !.sliding = @ \ {t}, !.later = @ \ {t}]
       IN Moves(RefreshFsTabs(IF x.active = t THEN SetActive(s1, Last1(rest), FALSE) ELSE s1))

\* A tap on a tile or on a tab.
Select(t) == t \in Listed(x) /\ Moves(SetActive(x, t, FALSE))

\* The switcher shows the sessions of the moment.  A card selects its session,
\* though it be gone; a single terminal on a phone is to fill the screen, which
\* is looked at again after 220 ms.
ShowSwitcher == x.cards = {} /\ x.tiles # <<>> /\ Moves([x EXCEPT !.cards = Listed(x)])

SelectCard(t) ==
    /\ t \in x.cards
    /\ LET s == SetActive(x, t, FALSE)
       IN Moves([s EXCEPT !.cards = {},
                          !.later = IF s.mobile /\ t \in Listed(s) \ s.full
                                    THEN @ \cup {t} ELSE @])

HideSwitcher == x.cards # {} /\ Moves([x EXCEPT !.cards = {}])

Later(t) ==
    /\ t \in x.later
    /\ LET s == [x EXCEPT !.later = @ \ {t}]
       IN x' = IF t \in Listed(s) \ s.full THEN ToggleFullscreen(s, t) ELSE s

\* next and previous slide.
Step(d) ==
    /\ Len(x.tiles) > 1
    /\ LET n  == Len(x.tiles)
           i  == IF x.active \in Listed(x) THEN CHOOSE j \in 1..n : x.tiles[j] = x.active ELSE 0
           i1 == IF d = "next" THEN i + 1 ELSE i + n - 1
       IN Moves(SetActive(x, x.tiles[((i1 - 1) % n) + 1], TRUE))

\* The slide's timer, armed for 250 ms: its tile loses the class even when it
\* has become active again.
SlideEnds(t) ==
    /\ t \in x.sliding
    /\ x' = [x EXCEPT !.sliding = @ \ {t}, !.full = @ \ {t},
                      !.stale = @ \/ t \in Covering(x)]

\* The button of the active tile; promote-master.
Toggle == x.active \in Listed(x) /\ Moves(ToggleFullscreen(x, x.active))
PromoteToMaster(t) == t \in Listed(x) /\ x.master # t /\ Moves([x EXCEPT !.master = t])

\* A double tap on a phone with one terminal, and the keyboard that closes.
DoubleTap(t) ==
    /\ x.mobile /\ x.tiles = <<t>> /\ t \notin x.full
    /\ LET s == SetActive(x, t, FALSE)
       IN Moves([ToggleFullscreen(s, t) EXCEPT !.auto = {t}])

ViewportGrows ==
    /\ x.mobile /\ x.auto # {}
    /\ Moves([x EXCEPT !.full = @ \ x.auto, !.auto = {},
                       !.stale = @ \/ Covering(x) \cap x.auto # {}])

\* applyMobileLayout: leaving the mobile width clears every forced fullscreen.
Resize ==
    Moves(IF x.mobile
          THEN [x EXCEPT !.mobile = FALSE, !.full = {}, !.doubled = FALSE,
                         !.bar = [t \in Tiles |-> IF t \in x.full THEN {} ELSE @[t]],
                         !.stale = @ \/ Covering(x) # {}]
          ELSE [x EXCEPT !.mobile = TRUE])

\* The connection is lost; the new one knows nothing, and attaches one by one.
Lose == x.online /\ Moves([x EXCEPT !.online = FALSE, !.attaching = <<>>, !.paused = {}])

Reconnect ==
    /\ ~x.online
    /\ x' = [x EXCEPT !.online = TRUE, !.attaching = x.tiles, !.paused = {}]

\* attach, then pause for a tile that sleeps.
AttachAgain ==
    /\ x.attaching # <<>>
    /\ LET t == Head(x.attaching)
       IN x' = [x EXCEPT !.attaching = Tail(@),
                         !.paused = IF t \in x.asleep THEN @ \cup {t} ELSE @ \ {t}]

Next ==
    \/ \E t \in Tiles : \/ Created(t) \/ Create(t) \/ Destroy(t) \/ Select(t)
                        \/ SlideEnds(t) \/ PromoteToMaster(t) \/ DoubleTap(t)
                        \/ SelectCard(t) \/ Later(t)
    \/ \E d \in {"next", "previous"} : Step(d)
    \/ ShowSwitcher \/ HideSwitcher \/ Toggle \/ ViewportGrows \/ Resize
    \/ Lose \/ Reconnect \/ AttachAgain

Spec == Init /\ [][Next]_x

-----------------------------------------------------------------------------
Shown == IF x.full # {} THEN x.full ELSE Listed(x)

\* The active terminal is never asleep, and none that can be seen is: except
\* between a change of the fullscreen class that updateSleepState does not hear
\* of (the end of a slide, the keyboard that closes, a resize) and the next
\* selection, and except that of two tiles that are fullscreen, because a card
\* was late, the one that is not active sleeps.  And once every tile is attached
\* again, the server holds back the output of the sleeping tiles and of no
\* other, whatever was selected while the connection was down or the tiles were
\* being attached.
ShownRuns ==
    /\ x.stale \/ x.active \notin x.asleep
    /\ x.stale \/ x.doubled \/ Shown \cap x.asleep = {}
    /\ (x.online /\ x.attaching = <<>>) => x.paused = x.asleep

\* The tab bar of a fullscreen tile names every session, unless it is the
\* second of two.
TabsComplete ==
    ~x.doubled => \A t \in x.full : Len(x.tiles) > 1 => x.bar[t] = Listed(x)

\* What makes them inductive: one tile is fullscreen, what sleeps is hidden, and
\* the server knows of the tiles that are attached who sleeps.
Fields == {"tiles", "active", "master", "full", "auto", "bar", "asleep", "paused",
           "attaching", "sliding", "cards", "later", "online", "mobile", "stale",
           "doubled", "moves"}
Typed(s) ==
    /\ DOMAIN s = Fields /\ s.tiles \in Seq(Tiles) /\ s.attaching \in Seq(Tiles)
    /\ \A i, j \in DOMAIN s.tiles : s.tiles[i] = s.tiles[j] => i = j
    /\ s.full \subseteq Listed(s) /\ s.asleep \subseteq Listed(s)
    /\ s.paused \subseteq Tiles /\ s.bar = [t \in Tiles |-> s.bar[t]]
    /\ {s.online, s.mobile, s.stale, s.doubled} \subseteq BOOLEAN
Single(s) == ~s.doubled => \A t, u \in s.full : t = u
Tabbed(s) == ~s.doubled /\ Len(s.tiles) > 1 => \A t \in s.full : s.bar[t] = Listed(s)
Sleeping(s) == ~s.stale => s.asleep \subseteq Hidden(s)
Told(s) == s.online =>
    \A t \in Tiles \ ToSet(s.attaching) : t \in s.paused <=> t \in s.asleep
Inv(s) == Typed(s) /\ Single(s) /\ Told(s) /\ Sleeping(s) /\ Tabbed(s)

=============================================================================

-------------------------------- MODULE Bell --------------------------------
(***************************************************************************)
(* The bell that rings when a terminal that kept redrawing goes silent     *)
(* (public/js/shell-sessions.js: runTick, _noteOutput, _evalBusy and       *)
(* _ringBell), for one session.  A browser that throttles its timers may   *)
(* leave out any number of the evaluations that come once a second.        *)
(***************************************************************************)
EXTENDS Naturals

CONSTANTS
    RunGap,     \* RUN_GAP_MS
    MinRun,     \* MIN_RUN_MS
    InputIdle,  \* INPUT_IDLE_MS
    Cooldown,   \* BELL_COOLDOWN_MS
    EndOfTime

VARIABLE x

Start == InputIdle + 1
Times == 0..(Start + EndOfTime)

TypeOK ==
    /\ {x.now, x.lastOutputAt, x.lastInputAt, x.runStart} \subseteq Times
    /\ x.suppressUntil \in 0..(Start + EndOfTime + Cooldown)
    /\ {x.latched, x.active, x.suppressed} \subseteq BOOLEAN
    /\ x.frames \subseteq Times   \* when output was noted
    /\ x.rang \subseteq Times     \* the last output of each run that rang
    /\ x.seen \in Times           \* the last evaluation, by the timer or by output

Init ==
    \E m \in BOOLEAN :
        x = [now |-> Start, lastOutputAt |-> 0, lastInputAt |-> 0, runStart |-> 0,
             suppressUntil |-> Start + Cooldown, latched |-> FALSE, active |-> FALSE, suppressed |-> m,
             frames |-> {}, rang |-> {}, seen |-> 0]

\* _ringBell: muted while the page loads, after the mount and after each sound.
RingBell(s) ==
    IF s.suppressed \/ s.now < s.suppressUntil THEN s
    ELSE [s EXCEPT !.latched = @ \/ ~s.active, !.suppressUntil = s.now + Cooldown]

Ended(s) == s.runStart # 0 /\ s.now - s.lastOutputAt >= RunGap

\* Slip: only the timer looks for the end of a run.
RunTickByTimer(s, frame) ==
    IF frame
    THEN [s EXCEPT !.runStart = IF @ = 0 THEN s.now ELSE @, !.lastOutputAt = s.now]
    ELSE IF Ended(s) /\ s.lastOutputAt - s.runStart >= MinRun /\ s.lastInputAt <= s.lastOutputAt
    THEN RingBell([s EXCEPT !.runStart = 0, !.rang = @ \cup {s.lastOutputAt}])
    ELSE [s EXCEPT !.runStart = IF Ended(s) THEN 0 ELSE @]

\* runTick, and the bell when a run just ended that should ring.
RunTick(s, frame) ==
    LET rings == /\ Ended(s)
                 /\ s.lastOutputAt - s.runStart >= MinRun
                 /\ s.lastInputAt <= s.lastOutputAt
        s1 == [s EXCEPT !.runStart = IF Ended(s) THEN 0 ELSE @,
                        !.rang = IF rings THEN @ \cup {s.lastOutputAt} ELSE @]
        s2 == IF frame THEN [s1 EXCEPT !.runStart = IF @ = 0 THEN s.now ELSE @,
                                       !.lastOutputAt = s.now]
              ELSE s1
    IN IF rings THEN RingBell(s2) ELSE s2

-----------------------------------------------------------------------------
Passes == x.now < Start + EndOfTime /\ x' = [x EXCEPT !.now = @ + 1]

\* _evalBusy, when the browser lets it run.
EvalBusy == x.seen # x.now /\ x' = [RunTick(x, FALSE) EXCEPT !.seen = x.now]

\* _noteOutput: what follows a key is echo.
NoteOutput ==
    /\ x.now - x.lastInputAt >= InputIdle
    /\ x' = [RunTick(x, TRUE) EXCEPT !.seen = x.now, !.frames = @ \cup {x.now}]

\* A key; the program rings by itself; the user comes and goes.
Input  == x.lastInputAt # x.now /\ x' = [x EXCEPT !.lastInputAt = x.now]
Bel    == x' = RingBell(x)
Select == ~x.active /\ x' = [x EXCEPT !.active = TRUE, !.latched = FALSE]
Leave  == x.active /\ x' = [x EXCEPT !.active = FALSE]
Loaded == x.suppressed /\ x' = [x EXCEPT !.suppressed = FALSE]

Next == Passes \/ EvalBusy \/ NoteOutput \/ Input \/ Bel \/ Select \/ Leave \/ Loaded

Spec == Init /\ [][Next]_x

-----------------------------------------------------------------------------
\* The runs, defined from the outputs: what is linked by gaps below RunGap.
Linked(s, e, f) == \A g \in s.frames :
    (e < g /\ g <= f) => \E h \in s.frames : e <= h /\ h < g /\ g - h < RunGap

RunOf(s, f) == {e \in s.frames : e <= f /\ Linked(s, e, f)}
Last(s, f)  == s.seen >= f + RunGap /\ \A g \in s.frames : g > f => g - f >= RunGap
Long(s, f)  == \E e \in RunOf(s, f) : f - e >= MinRun

\* A run that lasted long enough and has been silent rings when it is next
\* looked at, by the timer or by the next output, and nothing else rings: a
\* timer that the browser holds back drops no bell, bursts and periodic output
\* never ring, and what the user has answered since may stay silent.
Exact(s) ==
    \A f \in s.frames :
        /\ f \in s.rang => Last(s, f) /\ Long(s, f)
        /\ Last(s, f) /\ Long(s, f) /\ s.lastInputAt <= f => f \in s.rang

RingsExact == Exact(x)

\* What makes it inductive: the run that is under way is that of the last
\* output, and without one the last output has been looked at when it was over.
Fields == {"now", "lastOutputAt", "lastInputAt", "runStart", "suppressUntil", "latched",
           "active", "suppressed", "frames", "rang", "seen"}
Typed(s) ==
    /\ DOMAIN s = Fields /\ s.frames \subseteq Nat /\ s.rang \subseteq s.frames
    /\ {s.now, s.lastOutputAt, s.lastInputAt, s.runStart, s.seen} \subseteq Nat
    /\ s.now # 0 /\ s.lastOutputAt <= s.seen /\ s.seen <= s.now /\ s.lastInputAt <= s.now
Noted(s) ==
    /\ \A f \in s.frames : 0 < f /\ f <= s.lastOutputAt
    /\ s.lastOutputAt # 0 => s.lastOutputAt \in s.frames
Running(s) ==
    /\ s.runStart = 0 /\ s.frames # {} => s.seen >= s.lastOutputAt + RunGap
    /\ s.runStart # 0 =>
         /\ s.runStart \in s.frames /\ s.seen < s.lastOutputAt + RunGap
         /\ \A h \in s.frames : h < s.runStart => s.runStart - h >= RunGap
         /\ Linked(s, s.runStart, s.lastOutputAt)
Inv(s) == Typed(s) /\ Noted(s) /\ Running(s) /\ Exact(s)

=============================================================================

------------------------------- MODULE Search -------------------------------
(***************************************************************************)
(* Searching in a terminal (public/js/shell/search.js), with the change of *)
(* the active session that ends it (setActive and destroy in public/js/    *)
(* shell-sessions.js).  What is typed is searched for 150 ms later, by a   *)
(* timer that belongs to the search bar and is not cleared with it.        *)
(***************************************************************************)
EXTENDS Naturals

CONSTANTS
    Shells,    \* the sessions
    None,
    Queries,   \* what may be typed; None is the empty field
    Bad,       \* those that are no regular expression
    MaxSteps

VARIABLE x

Typed == [text : Queries \cup {None}, regex : BOOLEAN]

TypeOK ==
    /\ x.live \subseteq Shells /\ x.active \in Shells \cup {None}
    /\ x.sid \in Shells \cup {None}          \* _searchState; None when it is null
    /\ x.bar \in Shells \cup {None}          \* the tile the bar is in
    /\ x.field \in Typed                     \* the bar's input and its toggle
    /\ x.search \in Typed                    \* _searchState.query and .opts
    /\ x.regexError \in BOOLEAN
    /\ x.timer \in BOOLEAN                   \* the debounce of the bar
    /\ x.orphans \subseteq Typed             \* debounces of bars that are gone
    /\ x.marks \in [Shells -> Typed \cup {None}]   \* the decorations of each terminal
    /\ x.decorates \in BOOLEAN               \* _searchDecorations
    /\ x.steps \in 0..MaxSteps

Blank == [text |-> None, regex |-> FALSE]

Init ==
    \E a \in Shells :
        x = [live |-> Shells, active |-> a, sid |-> None, bar |-> None, field |-> Blank,
             search |-> Blank, regexError |-> FALSE, timer |-> FALSE, orphans |-> {},
             marks |-> [s \in Shells |-> None], decorates |-> TRUE, steps |-> 0]

\* _clearSearch, in the session that is searched.
ClearSearch(s) == IF s.sid \in s.live THEN [s EXCEPT !.marks[s.sid] = None] ELSE s

\* _runSearch: an invalid pattern does not reach the addon.  The addon may not
\* support decorations: they are dropped for good.
RunSearch(s) ==
    IF s.sid \notin s.live THEN {s}
    ELSE IF s.search.text = None THEN {[ClearSearch(s) EXCEPT !.regexError = FALSE]}
    ELSE IF s.search.regex /\ s.search.text \in Bad THEN {[s EXCEPT !.regexError = TRUE]}
    ELSE {[s EXCEPT !.regexError = FALSE, !.marks[s.sid] = IF s.decorates THEN s.search ELSE @],
          [s EXCEPT !.regexError = FALSE, !.decorates = FALSE]}

\* run, of the bar that is open or of one that is gone.
Run(s, typed) == IF s.sid = None THEN {s} ELSE RunSearch([s EXCEPT !.search = typed])

\* The bar goes with its field; a timer that is armed stays.
DropBar(s) ==
    [s EXCEPT !.bar = None, !.timer = FALSE,
              !.orphans = IF s.timer THEN @ \cup {s.field} ELSE @]

\* Slip: the search is forgotten before its decorations are cleared.
CloseSearchEarly(s) == ClearSearch([DropBar(s) EXCEPT !.sid = None])

CloseSearch(s) == [ClearSearch(DropBar(s)) EXCEPT !.sid = None]

\* setActive closes the search of another session.
SetActive(s, a) ==
    LET s1 == [s EXCEPT !.active = a]
    IN IF s.sid \notin {None, a} THEN CloseSearch(s1) ELSE s1

-----------------------------------------------------------------------------
Steps(S) == x.steps < MaxSteps /\ x' \in {[s EXCEPT !.steps = @ + 1] : s \in S}

\* openSearch; a second one only takes the focus.
OpenSearch ==
    /\ x.active \in x.live /\ x.sid = None
    /\ Steps({[x EXCEPT !.sid = x.active, !.bar = x.active, !.field = Blank,
                        !.search = Blank, !.regexError = FALSE, !.decorates = TRUE]})

Type(q) ==
    /\ x.bar # None /\ q # x.field.text
    /\ Steps({[x EXCEPT !.field.text = q, !.timer = TRUE]})

\* The toggle searches at once and leaves the timer; Enter clears it.
ToggleRegex ==
    /\ x.bar # None
    /\ LET s == [x EXCEPT !.field.regex = ~@] IN Steps(Run(s, s.field))

Enter == x.bar # None /\ Steps(Run([x EXCEPT !.timer = FALSE], x.field))

Debounced == x.timer /\ x' \in Run([x EXCEPT !.timer = FALSE], x.field)

OrphanDebounced(t) == t \in x.orphans /\ x' \in Run([x EXCEPT !.orphans = @ \ {t}], t)

\* The arrows of the bar: what was searched for last.
NextMatch == x.bar # None /\ Steps(RunSearch(x))

Close == x.bar # None /\ Steps({CloseSearch(x)})

Select(a) == a \in x.live \ {x.active} /\ Steps({SetActive(x, a)})

\* destroy: the terminal and its tile go, with the bar, then the selection moves.
Destroy(d) ==
    /\ d \in x.live
    /\ LET s == [IF x.bar = d THEN DropBar(x) ELSE x EXCEPT
                    !.live = @ \ {d}, !.marks[d] = None]
       IN Steps(IF x.active # d THEN {s}
                ELSE IF s.live = {} THEN {SetActive(s, None)}
                ELSE {SetActive(s, a) : a \in s.live})

Next ==
    \/ OpenSearch \/ ToggleRegex \/ Enter \/ Debounced \/ NextMatch \/ Close
    \/ \E q \in Queries \cup {None} : Type(q)
    \/ \E t \in Typed : OrphanDebounced(t)
    \/ \E a \in Shells : Select(a) \/ Destroy(a)

Spec == Init /\ [][Next]_x

-----------------------------------------------------------------------------
\* A terminal shows highlights only while its own search is open, and they are
\* of a pattern that is valid: none stays behind when the search is closed, when
\* another session becomes active, when a session is destroyed, or when a timer
\* runs late.
HighlightsOwned ==
    \A s \in Shells : x.marks[s] # None =>
        /\ x.sid = s /\ x.bar = s /\ x.active = s
        /\ ~(x.marks[s].regex /\ x.marks[s].text \in Bad)

\* What makes it inductive: only the session that is searched has marks, and it
\* is the active one and has the bar.
Fields == {"live", "active", "sid", "bar", "field", "search", "regexError", "timer",
           "orphans", "marks", "decorates", "steps"}
Marked(s) ==
    /\ DOMAIN s = Fields /\ s.live \subseteq Shells
    /\ s.marks = [t \in Shells |-> s.marks[t]]
    /\ \A t \in Shells : s.marks[t] # None =>
         s.sid = t /\ t \in s.live /\ ~(s.marks[t].regex /\ s.marks[t].text \in Bad)
Inv(s) == Marked(s) /\ s.sid \in {None, s.active} /\ s.bar = s.sid

=============================================================================

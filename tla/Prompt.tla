------------------------------- MODULE Prompt -------------------------------
(***************************************************************************)
(* The prompt dialog and its suggestions (public/js/tui-dialog.js).  A     *)
(* suggestion is asked for 50 ms after the last key; what the browser      *)
(* knows is answered at once, the rest by the server, in any order.        *)
(***************************************************************************)
EXTENDS Lists

CONSTANTS
    Texts,      \* what the field may hold; "" is empty
    Suggested,  \* what autocomplete returns for a text, by what was deleted
    Remote,     \* the texts only the server can complete
    Deletable,  \* the suggestions that have a delete button
    Folders,    \* the texts that end in "/"
    MaxKeys     \* how often the user acts

Loading == "Loading..."

VARIABLE x

Items == [list : Seq(Texts), old : BOOLEAN]

TypeOK ==
    /\ x.text \in Texts \cup {Loading} /\ x.list \in Seq(Texts \cup {Loading})
    /\ x.at \in 0..Len(x.list)           \* activeSuggestionIdx; 0: no item has it
    /\ x.asked \in Seq(Items)            \* requests on their way
    /\ x.deleting \subseteq Texts        \* onDelete is awaited
    /\ x.removed \subseteq Deletable
    /\ {x.open, x.timer, x.dismissed, x.late} \subseteq BOOLEAN
    /\ x.answer \in Texts \cup {Loading, "cancelled", "none"}
    /\ x.keys \in 0..MaxKeys

Complete(t, removed) == IF t \in Texts THEN Suggested[t][removed] ELSE <<>>

\* The dialog has been shown and its field has the focus.
Init ==
    x = [text |-> "", list |-> Complete("", {}), at |-> 0, asked |-> <<>>, deleting |-> {},
         removed |-> {}, open |-> TRUE, timer |-> FALSE, dismissed |-> FALSE, late |-> FALSE,
         answer |-> "none", keys |-> 0]

Overtaken(q) == [i \in DOMAIN q |-> [q[i] EXCEPT !.old = TRUE]]

\* updateSuggestions, up to the request and, when no server is asked, to its end.
UpdateSuggestions(s) ==
    LET s1 == [s EXCEPT !.list = IF @ = <<>> THEN @ ELSE <<Loading>>,
                        !.at = 0, !.dismissed = FALSE]
    IN IF s.text \in Remote
       THEN [s1 EXCEPT !.asked = Append(@, [list |-> Complete(s.text, s.removed),
                                            old |-> FALSE])]
       ELSE [s1 EXCEPT !.list = Complete(s.text, s.removed), !.asked = Overtaken(@), !.late = FALSE]

\* confirm and cancel.
Confirm(s, t) == [s EXCEPT !.open = FALSE, !.timer = FALSE, !.text = t, !.answer = t]

-----------------------------------------------------------------------------
Key(s) == x.open /\ x.keys < MaxKeys /\ x' = [s EXCEPT !.keys = @ + 1]

Type(t) == t # x.text /\ Key([x EXCEPT !.text = t, !.at = 0, !.timer = TRUE])

Focus == Key(UpdateSuggestions(x))

Debounced == x.open /\ x.timer /\ x' = UpdateSuggestions([x EXCEPT !.timer = FALSE])

\* Slip: the place of the highlight survives the list it was in.
AnsweredKeepingPlace(i) ==
    /\ i \in DOMAIN x.asked
    /\ x' = [x EXCEPT !.list = x.asked[i].list, !.late = x.asked[i].old,
                      !.asked = Overtaken(SubSeq(@, 1, i - 1)) \o SubSeq(@, i + 1, Len(@))]

\* The answers come in any order, each replaces what is shown.
Answered(i) ==
    /\ i \in DOMAIN x.asked
    /\ x' = [x EXCEPT !.list = x.asked[i].list, !.at = 0, !.late = x.asked[i].old,
                      !.asked = Overtaken(SubSeq(@, 1, i - 1)) \o SubSeq(@, i + 1, Len(@))]

\* Enter takes the highlighted one; in the empty field the first one, which may
\* be the placeholder of a request on its way.
Enter ==
    Key(Confirm(x, IF x.at > 0 THEN x.list[x.at]
                   ELSE IF x.text = "" /\ x.list # <<>> THEN x.list[1] ELSE x.text))

Click(i) ==
    /\ i \in DOMAIN x.list /\ x.list[i] # Loading
    /\ Key(Confirm(x, x.list[i]))

Down == x.at < Len(x.list) /\ Key([x EXCEPT !.at = @ + 1])
Up   == x.at > 0 /\ Key([x EXCEPT !.at = @ - 1])

Pick == x.list[IF x.at > 0 THEN x.at ELSE 1]

\* Slip: a completed folder keeps the suggestions of before.
TabQuietly ==
    /\ x.list # <<>>
    /\ Key(IF Pick \in Folders THEN [x EXCEPT !.text = Pick, !.at = 0]
           ELSE [x EXCEPT !.text = Pick, !.list = <<>>, !.at = 0, !.dismissed = TRUE])

Tab ==
    /\ x.list # <<>>
    /\ Key(IF Pick \in Folders THEN UpdateSuggestions([x EXCEPT !.text = Pick])
           ELSE [x EXCEPT !.text = Pick, !.list = <<>>, !.at = 0, !.dismissed = TRUE])

\* Escape reaches the overlay as well, which closes.
Cancel == Key([Confirm(x, x.text) EXCEPT !.answer = "cancelled"])

\* A delete button: onDelete is awaited, then the suggestions are asked for.
Delete(t) ==
    /\ t \in ToSet(x.list) \cap (Deletable \ x.deleting)
    /\ Key([x EXCEPT !.deleting = @ \cup {t}])

Deleted(t) ==
    /\ t \in x.deleting
    /\ x' = UpdateSuggestions([x EXCEPT !.deleting = @ \ {t}, !.removed = @ \cup {t}])

Next ==
    \/ \E t \in Texts : Type(t) \/ Delete(t) \/ Deleted(t)
    \/ \E i \in DOMAIN x.asked : Answered(i)
    \/ \E i \in DOMAIN x.list : Click(i)
    \/ Focus \/ Debounced \/ Enter \/ Down \/ Up \/ Tab \/ Cancel

Spec == Init /\ [][Next]_x

-----------------------------------------------------------------------------
\* Once the last key has been waited for and every answer is in, the
\* suggestions are those of the text, without what was deleted, unless an
\* answer was overtaken by a later one.
SuggestionsFit ==
    (x.open /\ ~x.timer /\ x.asked = <<>> /\ x.deleting = {} /\ ~x.dismissed /\ ~x.late)
        => x.list = Complete(x.text, x.removed)

\* What makes it inductive: the answer to the last request, unless it has been
\* overtaken, is that of the text.
Fields == {"text", "list", "at", "asked", "deleting", "removed", "open", "timer",
           "dismissed", "late", "answer", "keys"}
Answers == [list : {Complete(t, r) : t \in Texts, r \in SUBSET Deletable}, old : BOOLEAN]
Typed(s) ==
    /\ DOMAIN s = Fields /\ s.asked \in Seq(Answers)
    /\ {s.deleting, s.removed} \subseteq SUBSET Deletable
Settled(s) == s.open /\ ~s.timer /\ s.deleting = {} /\ ~s.dismissed
Fits(s) ==
    Settled(s) =>
        /\ s.asked = <<>> /\ ~s.late => s.list = Complete(s.text, s.removed)
        /\ s.asked # <<>> /\ ~s.asked[Len(s.asked)].old =>
             s.asked[Len(s.asked)].list = Complete(s.text, s.removed)
Inv(s) == Typed(s) /\ Fits(s)

=============================================================================

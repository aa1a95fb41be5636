------------------------------ MODULE Dialogs -------------------------------
(***************************************************************************)
(* The dialogs that are open at one time (public/js/tui-dialog.js and      *)
(* tui-dialog/dom.js).  Every one of them listens to the keys of the whole *)
(* document, so one key may answer several.                                *)
(***************************************************************************)
EXTENDS Naturals, Sequences

CONSTANTS None, MaxDialogs, MaxKeys

VARIABLE x

Kinds == {"alert", "confirm", "prompt", "select", "status"}
Ids   == 1..MaxDialogs
Shell == 0

TypeOK ==
    /\ x.kind \in Seq(Kinds) /\ Len(x.kind) <= MaxDialogs   \* those opened so far
    /\ x.open \subseteq DOMAIN x.kind                  \* whose overlay is in the page
    /\ x.escapes \subseteq DOMAIN x.kind               \* escHandler is registered
    /\ x.listens \subseteq DOMAIN x.kind               \* keyHandler is registered
    /\ x.choice \in [Ids -> {"confirm", "cancel"}]     \* activeChoice
    /\ x.answers \in [Ids -> Nat]                      \* how often it was answered
    /\ x.activeStatus \in Ids \cup {None}
    /\ x.focus \in Ids \cup {Shell, None}
    /\ x.frames \subseteq Ids \cup {Shell}             \* whose focus comes with a frame
    /\ x.keys \in 0..MaxKeys

Init ==
    x = [kind |-> <<>>, open |-> {}, escapes |-> {}, listens |-> {},
         choice |-> [i \in Ids |-> "confirm"], answers |-> [i \in Ids |-> 0],
         activeStatus |-> None, focus |-> Shell, frames |-> {}, keys |-> 0]

\* Slip: dialogs that go keep their other key handler.
CloseAllListening(s, D) ==
    [s EXCEPT !.open = @ \ D, !.escapes = @ \ D,
              !.activeStatus = IF @ \in D THEN None ELSE @,
              !.answers = [i \in Ids |-> IF i \in D THEN @[i] + 1 ELSE @[i]],
              !.focus = IF @ \in D THEN None ELSE @, !.frames = (@ \ D) \cup {Shell}]

\* done, confirm, cancel, close and selectValue, of each that heard the key:
\* _cleanup, then the answer.  The focus goes with the overlay, and refocus
\* looks for it in the next frame.
CloseAll(s, D) ==
    [s EXCEPT !.open = @ \ D, !.escapes = @ \ D, !.listens = @ \ D,
              !.activeStatus = IF @ \in D THEN None ELSE @,
              !.answers = [i \in Ids |-> IF i \in D THEN @[i] + 1 ELSE @[i]],
              !.focus = IF @ \in D THEN None ELSE @, !.frames = (@ \ D) \cup {Shell}]

Close(s, i) == CloseAll(s, {i})

Overlay(s, k) ==
    LET i == Len(s.kind) + 1
    IN [s EXCEPT !.kind = Append(@, k), !.open = @ \cup {i}, !.escapes = @ \cup {i},
                 !.listens = IF k \in {"alert", "confirm", "select"} THEN @ \cup {i} ELSE @,
                 !.frames = IF k = "status" THEN @ ELSE @ \cup {i}]

Alert   == Overlay(x, "alert")
Confirm == Overlay(x, "confirm")
Prompt  == Overlay(x, "prompt")
Select  == Overlay(x, "select")

\* The close of a status does nothing the second time.
CloseStatus(s, i) == IF i \in s.open THEN Close(s, i) ELSE s

\* status closes the status of before.
Status ==
    LET s == IF x.activeStatus = None THEN x ELSE CloseStatus(x, x.activeStatus)
    IN [Overlay(s, "status") EXCEPT !.activeStatus = Len(s.kind) + 1]

-----------------------------------------------------------------------------
Open ==
    /\ Len(x.kind) < MaxDialogs
    /\ x' \in {Alert, Confirm, Prompt, Select, Status}

\* The frame after: a dialog takes the focus, the shell only when no dialog has it.
Frame(i) ==
    /\ i \in x.frames
    /\ x' = [x EXCEPT !.frames = @ \ {i},
                      !.focus = IF i = Shell /\ @ \in x.open THEN @ ELSE i]

Pressed(s) == x.keys < MaxKeys /\ x' = [s EXCEPT !.keys = @ + 1]

\* Every open dialog hears Escape, whoever has the focus.
Escape == x.escapes # {} /\ Pressed(CloseAll(x, x.escapes))

\* isEditableTarget: the terminal's own text area, and the fields of dialogs.
Editable(i) == i = Shell \/ (i \in Ids /\ x.kind[i] \in {"prompt", "select"})

\* Enter belongs to the field that has the focus, or else to every dialog.
EnterField ==
    /\ x.focus \in x.open /\ Editable(x.focus)
    /\ Pressed(Close(x, x.focus))

Enter ==
    /\ ~Editable(x.focus) /\ x.listens # {}
    /\ Pressed(CloseAll(x, x.listens))

\* Arrows move the choice of every confirm that listens.
Arrow ==
    /\ ~Editable(x.focus)
    /\ \E i \in x.listens : x.kind[i] = "confirm"
    /\ Pressed([x EXCEPT !.choice =
            [i \in Ids |-> IF i \in x.listens /\ x.kind[i] = "confirm"
                           THEN (IF @[i] = "confirm" THEN "cancel" ELSE "confirm")
                           ELSE @[i]]])

\* A button, a card, the background.
Click(i) == i \in x.open /\ x.kind[i] # "status" /\ Pressed(Close(x, i))

\* What a status announced has ended; the user may have closed it before.
Ended(i) ==
    i \in DOMAIN x.kind /\ x.kind[i] = "status" /\ Pressed(CloseStatus(x, i))

Next ==
    \/ Open \/ Escape \/ EnterField \/ Enter \/ Arrow
    \/ \E i \in Ids \cup {Shell} : Frame(i)
    \/ \E i \in Ids : Click(i) \/ Ended(i)

Spec == Init /\ [][Next]_x

-----------------------------------------------------------------------------
\* Every dialog is answered once and no more, when its overlay goes, though keys
\* are heard by all of them and a status can be closed by its owner, by Escape
\* and by the next status: what an answer starts (a session is destroyed, a
\* connection is removed) is never started twice.
AnsweredOnce ==
    \A i \in DOMAIN x.kind : x.answers[i] = (IF i \in x.open THEN 0 ELSE 1)

\* What makes it inductive: only an open dialog hears keys, and a dialog that
\* has not been opened has not been answered.
Fields == {"kind", "open", "escapes", "listens", "choice", "answers", "activeStatus",
           "focus", "frames", "keys"}
Inv(s) ==
    /\ DOMAIN s = Fields
    /\ s.kind \in Seq(Kinds) /\ Len(s.kind) <= MaxDialogs
    /\ s.open \subseteq DOMAIN s.kind
    /\ s.escapes \subseteq s.open /\ s.listens \subseteq s.open
    /\ s.answers = [i \in Ids |-> IF i \in DOMAIN s.kind \ s.open THEN 1 ELSE 0]

=============================================================================

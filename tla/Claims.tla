------------------------------- MODULE Claims -------------------------------
(***************************************************************************)
(* Who rules the size of a terminal that several browsers show             *)
(* (public/js/shell/scaling.js), seen from one browser and one session:    *)
(* what it believes, what it has claimed, and whether its tile is scaled.  *)
(* The server's side of the protocol is in Attachments; here it and the    *)
(* other browsers are external.                                            *)
(***************************************************************************)
EXTENDS Naturals, Sequences

CONSTANTS None, MaxClaims

VARIABLE x

TypeOK ==
    /\ x.belief \in {"unknown", "yes", "no"}       \* _isActiveClient
    /\ x.role \in {"me", "other", None}            \* whom the server has as active
    /\ x.down \in Seq(BOOLEAN)                     \* pty-size messages on their way: isActive
    /\ x.up \in Nat                                \* claim-active messages on their way
    /\ x.going \subseteq BOOLEAN    \* broadcasts that read the role and have yet to reach us
    /\ x.misled \in BOOLEAN         \* it holds a role that was lost and nobody will say so
    /\ x.leaving \in BOOLEAN        \* cleanup of the active connection has read the role
    /\ x.mounted \in BOOLEAN
    /\ x.reclaim \in BOOLEAN                       \* _pendingClaimSids
    /\ x.recent \in BOOLEAN                        \* claimed less than 300 ms ago
    /\ x.swallowed \in BOOLEAN                     \* the last claim was not sent
    /\ x.frames \in Nat                            \* _applyScaling calls queued
    /\ x.scaled \in BOOLEAN                        \* the tile has the scaling styles
    /\ x.attached \in BOOLEAN /\ x.moves \in 0..MaxClaims

Init ==
    \E r \in {"other", None}, c \in BOOLEAN :
        x = [belief |-> "unknown", role |-> r, down |-> <<>>, up |-> 0, going |-> {},
             misled |-> FALSE, leaving |-> FALSE, mounted |-> FALSE, reclaim |-> c, recent |-> FALSE,
             swallowed |-> FALSE, frames |-> 0, scaled |-> FALSE, attached |-> FALSE, moves |-> 0]

Happens(s) == x.moves < MaxClaims /\ x' = [s EXCEPT !.moves = @ + 1]

\* _claimActiveIfNeeded: the belief changes, the styles go, and the claim is
\* sent unless one was sent less than 300 ms ago or there is no connection.
ClaimActiveIfNeeded(s) ==
    IF ~s.mounted \/ s.belief = "yes" THEN s
    ELSE LET sent == ~s.recent /\ s.attached
         IN [s EXCEPT !.belief = "yes", !.scaled = FALSE, !.recent = TRUE,
                      !.up = IF sent THEN @ + 1 ELSE @, !.swallowed = ~sent]

\* Slip: a browser that believes to be active keeps the belief.
HandlePtySizeKeeping(s, active) ==
    [s EXCEPT !.belief = IF active \/ @ = "yes" THEN "yes" ELSE "no", !.swallowed = FALSE,
              !.scaled = @ /\ ~active, !.frames = IF active THEN @ ELSE @ + 1,
              !.reclaim = FALSE]

\* _handlePtySize: the first one after a page load claims the role back from
\* another device.
HandlePtySize(s, active) ==
    LET s1 == [s EXCEPT !.belief = IF active THEN "yes" ELSE "no", !.swallowed = FALSE,
                        !.scaled = @ /\ ~active, !.frames = IF active THEN @ ELSE @ + 1,
                        !.reclaim = FALSE]
    IN IF s.reclaim /\ ~active THEN ClaimActiveIfNeeded(s1) ELSE s1

-----------------------------------------------------------------------------
\* The server's answer to an attach: the first connection of the session becomes
\* active, any other leaves the role where it is.
Attached(s) ==
    \E first \in BOOLEAN :
        LET r == IF first THEN "me" ELSE s.role
        IN x' = [s EXCEPT !.attached = TRUE, !.role = r, !.down = Append(@, r = "me")]

Mount == ~x.mounted /\ Attached([x EXCEPT !.mounted = TRUE])

\* A size arrives.
Arrives ==
    /\ x.down # <<>>
    /\ x' = HandlePtySize([x EXCEPT !.down = Tail(@)], Head(x.down))

\* A press or a swipe on the tile.
Touch == x.mounted /\ x.belief # "yes" /\ Happens(ClaimActiveIfNeeded(x))

Cool == x.recent /\ x' = [x EXCEPT !.recent = FALSE]

\* Slip: a frame scales whatever has been claimed since it was queued.
FrameAnyway ==
    /\ x.frames > 0
    /\ \E small \in BOOLEAN : x' = [x EXCEPT !.frames = @ - 1, !.scaled = small]

\* _applyScaling in its frame: nothing when this browser became active since,
\* else the tile is scaled if the terminal is larger than it.
Frame ==
    /\ x.frames > 0
    /\ \E small \in BOOLEAN :
         x' = [x EXCEPT !.frames = @ - 1, !.scaled = IF x.belief = "yes" THEN @ ELSE small]

\* handleClaimActive: the claim makes its sender active, and the others, not the
\* sender, are told.
ServerClaimed ==
    /\ x.up > 0
    /\ x' = [x EXCEPT !.up = @ - 1, !.role = "me", !.misled = FALSE]

\* Another browser becomes active; its broadcast reads that.
OtherClaims ==
    /\ x.role # "other"
    /\ Happens([x EXCEPT !.role = "other", !.going = IF x.attached THEN @ \cup {FALSE} ELSE @])

\* Another browser broadcasts the size it set while it was active; our claim may
\* have been served before it reads who is active.
OtherResizes ==
    /\ x.attached
    /\ Happens([x EXCEPT !.going = @ \cup {x.role = "me"}])

\* A broadcast reaches this browser, with what it read.
Broadcast(active) ==
    /\ active \in x.going
    /\ x' = [x EXCEPT !.going = @ \ {active}, !.down = Append(@, active),
                      !.misled = active /\ x.role # "me"]

\* cleanup of the connection that is active: it reads the role and then clears
\* it, whoever has it by now, and nobody is told.
OtherLeaves == x.role = "other" /\ ~x.leaving /\ Happens([x EXCEPT !.leaving = TRUE])

RoleCleared ==
    x.leaving /\ x' = [x EXCEPT !.leaving = FALSE, !.role = None,
                                !.misled = @ \/ x.role = "me"]

\* The connection is lost with what is on its way, and sync attaches again.  An
\* active role of ours stays with the old connection until that is cleaned up.
Lose ==
    /\ x.attached
    /\ Happens([x EXCEPT !.attached = FALSE, !.down = <<>>, !.up = 0, !.going = {},
                         !.misled = FALSE, !.role = IF @ = "me" THEN "other" ELSE @])

Reattach == x.mounted /\ ~x.attached /\ Attached(x)

Next == \/ Mount \/ Arrives \/ Touch \/ Cool \/ Frame \/ ServerClaimed
        \/ OtherClaims \/ OtherResizes \/ OtherLeaves \/ RoleCleared \/ Lose \/ Reattach
        \/ \E active \in BOOLEAN : Broadcast(active)

Spec == Init /\ [][Next]_x

-----------------------------------------------------------------------------
\* An active tile is never scaled, though frames that would scale it are still
\* queued when the role is claimed.
ActiveNotScaled == x.belief = "yes" => ~x.scaled

\* Two browsers do not both keep a size of their own: once nothing is on its way,
\* a browser that believes to be active is the server's active one, though claims,
\* sizes and reconnections cross.  (Unless its last claim was not sent, the
\* throttle keeping it back after the belief has changed; of two broadcasts the
\* one that had read the older role came last; or the cleanup of the connection
\* that was active cleared the role after it had been claimed.)
BelieverIsActive ==
    (/\ x.attached /\ x.down = <<>> /\ x.up = 0 /\ x.going = {}
     /\ ~x.swallowed /\ ~x.misled /\ x.belief = "yes")
        => x.role = "me"

\* What makes them inductive: what the browser will believe when it has read all
\* that was sent is the server's role, or a message that changes it is to come.
Fields == {"belief", "role", "down", "up", "going", "misled", "leaving", "mounted", "reclaim",
           "recent", "swallowed", "frames", "scaled", "attached", "moves"}
Typed(s) ==
    /\ DOMAIN s = Fields /\ s.down \in Seq(BOOLEAN) /\ s.up \in Nat
    /\ {s.mounted, s.reclaim, s.recent, s.swallowed, s.scaled, s.attached, s.misled}
         \subseteq BOOLEAN
    /\ s.going \subseteq BOOLEAN
    /\ s.attached => s.mounted
WillBelieve(s) ==
    IF s.down = <<>> THEN s.belief = "yes" /\ ~s.swallowed ELSE s.down[Len(s.down)]
ToldOrClaimed(s) ==
    s.attached /\ ~s.misled /\ WillBelieve(s)
        => s.role = "me" \/ s.up > 0 \/ FALSE \in s.going
Inv(s) ==
    /\ Typed(s) /\ ToldOrClaimed(s)
    /\ s.belief = "yes" => ~s.scaled

=============================================================================

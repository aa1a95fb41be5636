----------------------------- MODULE Attachments -----------------------------
(***************************************************************************)
(* The connection handler (internal/wshandler/wshandler.go): the registry  *)
(* of connections, which client is attached to which session, the place    *)
(* each client takes in a session, the active client, the terminal's size  *)
(* and the two fan-outs, notifyDestroyed and broadcastPtySize.             *)
(*                                                                         *)
(* A connection has one goroutine here, its read loop: it runs the handler *)
(* of one message at a time and, at the end, cleanup.  A terminal size is  *)
(* one number.  What an attach replays is the business of Relay; the life  *)
(* of a session is reduced to the two flags SessionManager works with.     *)
(***************************************************************************)
EXTENDS Naturals, FiniteSets

CONSTANTS Conns, Sessions,
          Sizes,        \* what a client may ask for; 0 is "no size given"
          DefaultSize,
          Resizers,     \* connections whose user resizes or claims a terminal
          MaxClients,   \* Config.MaxClientsPerSession
          MaxConns,     \* the limit of ServeHTTP
          None

ASSUME AttachmentsAssumption ==
    /\ Sizes \subseteq Nat /\ DefaultSize \in Sizes \ {0}
    /\ Resizers \subseteq Conns
    /\ MaxClients \in Nat \ {0} /\ MaxConns \in Nat
    /\ IsFiniteSet(Conns) /\ None \notin Conns

VARIABLES
    stage,      \* where a connection is; registered from "open" to "closed"
    pc,         \* where its read loop is
    job,        \* the session, the size and the sequel of what it does
    attached,   \* ClientConn.attached, as the set of session ids
    listed, destroyed,         \* of a session: in the registry, destroyed
    clients, active,           \* Session.Clients, Session.ActiveWS
    size, ptySize,             \* Session.Cols/Rows, and the terminal's own
    cast,       \* a pty-size broadcast under way: what it says and to whom
    notice,     \* notifyDestroyed under way
    told,       \* the last pty-size sent to a client since it attached
    heard,      \* the sessions a connected client was told are gone
    heirs       \* history: clients attached when a session was deleted

connVars == <<stage, pc, job, attached>>
sessionVars == <<listed, destroyed>>
shareVars == <<clients, active, size, ptySize>>
vars == <<connVars, sessionVars, shareVars, cast, notice, told, heard, heirs>>

Registered == {c \in Conns : stage[c] \in {"open", "ready", "closed"}}
Asked == Sizes \cup {0}
\* Bound: a client whose user does not resize asks for the default size.
AskedBy(c) == IF c \in Resizers THEN Asked ELSE {DefaultSize}

\* util.ClampInt, for sizes that are not too large.
Clamped(z, fallback) == IF z = 0 THEN fallback ELSE z

\* cc.mu is held across a step only by attach, once it has the lock, and by the
\* loop of cleanup.  The other critical sections are single steps.
Locked(c) == \/ pc[c] \in {"join", "role", "look", "tell", "leave", "yield?", "yield"}
             \/ pc[c] \in {"resize", "setSize"} /\ job[c].sequel = "look"

Stages == {"absent", "accepted", "open", "ready", "closed", "gone"}
Steps == {"idle", "attach", "join", "role", "resize", "setSize", "look", "tell", "detach",
          "resize?", "claim", "announce", "cast", "cleanup", "leave", "yield?", "yield",
          "unregister", "done"}

NoJob == [sid |-> None, size |-> 0, sequel |-> "idle"]
NoCast == [size |-> 0, todo |-> {}, hit |-> None]

TypeOK ==
    /\ stage \in [Conns -> Stages]
    /\ pc \in [Conns -> Steps]
    /\ job \in [Conns -> [sid : Sessions \cup {None}, size : Asked,
                          sequel : {"idle", "look", "announce"}]]
    /\ attached \in [Conns -> SUBSET Sessions]
    /\ {listed, destroyed} \subseteq [Sessions -> BOOLEAN]
    /\ clients \in [Sessions -> 0..Cardinality(Conns)]
    /\ active \in [Sessions -> Conns \cup {None}]
    /\ size \in [Sessions -> Sizes] /\ ptySize \in [Sessions -> Sizes]
    /\ cast \in [Conns -> [size : Asked, todo : SUBSET Conns,
                           hit : Conns \cup {None}]]
    /\ notice \in [Sessions -> [begun : BOOLEAN, todo : SUBSET Conns,
                                hit : Conns \cup {None}]]
    /\ told \in [Conns -> [Sessions -> Asked]]
    /\ heard \in [Conns -> SUBSET Sessions]
    /\ heirs \in [Sessions -> SUBSET Conns]

Init ==
    /\ stage = [c \in Conns |-> "absent"]
    /\ pc = [c \in Conns |-> "idle"] /\ job = [c \in Conns |-> NoJob]
    /\ attached = [c \in Conns |-> {}]
    /\ listed = [s \in Sessions |-> TRUE] /\ destroyed = [s \in Sessions |-> FALSE]
    /\ clients = [s \in Sessions |-> 0] /\ active = [s \in Sessions |-> None]
    /\ size = [s \in Sessions |-> DefaultSize]
    /\ ptySize = [s \in Sessions |-> DefaultSize]
    /\ cast = [c \in Conns |-> NoCast]
    /\ notice = [s \in Sessions |-> [begun |-> FALSE, todo |-> {}, hit |-> None]]
    /\ told = [c \in Conns |-> [s \in Sessions |-> 0]]
    /\ heard = [c \in Conns |-> {}]
    /\ heirs = [s \in Sessions |-> {}]

Goes(c, to) == pc' = [pc EXCEPT ![c] = to]

\* The read loop of c begins the handler of a message about session s.
Begins(c, at, s, z, sequel) ==
    /\ pc[c] = "idle" /\ stage[c] = "ready"
    /\ Goes(c, at)
    /\ job' = [job EXCEPT ![c] = [sid |-> s, size |-> z, sequel |-> sequel]]

Ends(c) == Goes(c, "idle") /\ job' = [job EXCEPT ![c] = NoJob]

\* A control message reaches a client unless its connection was closed.
Tell(c, s, z) ==
    told' = IF stage[c] = "ready" THEN [told EXCEPT ![c][s] = z] ELSE told
TellGone(c, s) ==
    heard' = IF stage[c] = "ready" THEN [heard EXCEPT ![c] = @ \cup {s}] ELSE heard
-----------------------------------------------------------------------------
(* Connections                                                              *)

\* ServeHTTP counts the registered connections, upgrades, and registers.
Accept(c) ==
    /\ stage[c] = "absent" /\ Cardinality(Registered) < MaxConns
    /\ stage' = [stage EXCEPT ![c] = "accepted"]
    /\ UNCHANGED <<pc, job, attached, sessionVars, shareVars, cast, notice, told,
                   heard, heirs>>

Register(c) ==
    /\ stage[c] = "accepted"
    /\ stage' = [stage EXCEPT ![c] = "open"]
    /\ UNCHANGED <<pc, job, attached, sessionVars, shareVars, cast, notice, told,
                   heard, heirs>>

\* The handshake succeeds.
Ready(c) ==
    /\ stage[c] = "open" /\ pc[c] = "idle"
    /\ stage' = [stage EXCEPT ![c] = "ready"]
    /\ UNCHANGED <<pc, job, attached, sessionVars, shareVars, cast, notice, told,
                   heard, heirs>>

\* The read loop ends, between two messages: cleanup sets `closed`.
CloseBegins(c) ==
    /\ stage[c] \in {"open", "ready"} /\ pc[c] = "idle"
    /\ stage' = [stage EXCEPT ![c] = "closed"]
    /\ Goes(c, "cleanup")
    /\ heirs' = [s \in Sessions |-> heirs[s] \ {c}]
    /\ told' = [told EXCEPT ![c] = [s \in Sessions |-> 0]]
    /\ heard' = [heard EXCEPT ![c] = {}]
    /\ UNCHANGED <<job, attached, sessionVars, shareVars, cast, notice>>

CleanupLocks(c) ==
    /\ pc[c] = "cleanup" /\ Goes(c, "leave")
    /\ UNCHANGED <<stage, job, attached, sessionVars, shareVars, cast, notice, told,
                   heard, heirs>>

\* RemoveClient, which stops at 0.
OneLess(n) == IF n = 0 THEN 0 ELSE n - 1

\* Slip: cleanup cancels the listeners and keeps the client's place.
CleanupLeaveUncounted(c, s) ==
    /\ pc[c] = "leave" /\ s \in attached[c]
    /\ attached' = [attached EXCEPT ![c] = @ \ {s}]
    /\ Goes(c, "leave") /\ UNCHANGED <<job, clients>>
    /\ UNCHANGED <<stage, sessionVars, active, size, ptySize, cast, notice, told,
                   heard, heirs>>

\* Cleanup gives back the place in one session; nobody else sees the map before
\* the lock is released.
CleanupLeave(c, s) ==
    /\ pc[c] = "leave" /\ s \in attached[c]
    /\ attached' = [attached EXCEPT ![c] = @ \ {s}]
    /\ IF listed[s]
       THEN /\ clients' = [clients EXCEPT ![s] = OneLess(@)]
            /\ Goes(c, "yield?")
            /\ job' = [job EXCEPT ![c].sid = s]
       ELSE UNCHANGED <<clients, pc, job>>
    /\ UNCHANGED <<stage, sessionVars, active, size, ptySize, cast, notice, told,
                   heard, heirs>>

\* Two separate critical sections of the session: is it me, then nobody.
CleanupReadsRole(c) ==
    /\ pc[c] = "yield?"
    /\ Goes(c, IF active[job[c].sid] = c THEN "yield" ELSE "leave")
    /\ UNCHANGED <<stage, job, attached, sessionVars, shareVars, cast, notice, told,
                   heard, heirs>>

CleanupYields(c) ==
    /\ pc[c] = "yield" /\ Goes(c, "leave")
    /\ active' = [active EXCEPT ![job[c].sid] = None]
    /\ UNCHANGED <<stage, job, attached, sessionVars, clients, size, ptySize, cast,
                   notice, told, heard, heirs>>

CleanupUnlocks(c) ==
    /\ pc[c] = "leave" /\ attached[c] = {}
    /\ Goes(c, "unregister") /\ job' = [job EXCEPT ![c] = NoJob]
    /\ UNCHANGED <<stage, attached, sessionVars, shareVars, cast, notice, told, heard,
                   heirs>>

Unregister(c) ==
    /\ pc[c] = "unregister" /\ Goes(c, "done")
    /\ stage' = [stage EXCEPT ![c] = "gone"]
    /\ UNCHANGED <<job, attached, sessionVars, shareVars, cast, notice, told, heard,
                   heirs>>
-----------------------------------------------------------------------------
(* handleAttach and handleDetach                                            *)

\* The session is looked up before the lock is taken.
AttachLooksUp(c, s, z) ==
    /\ IF listed[s]
       THEN Begins(c, "attach", s, Clamped(z, DefaultSize), "look")
            /\ UNCHANGED heard
       ELSE pc[c] = "idle" /\ stage[c] = "ready" /\ TellGone(c, s)
            /\ UNCHANGED <<pc, job>>
    /\ UNCHANGED <<stage, attached, sessionVars, shareVars, cast, notice, told, heirs>>

\* A client that is attached already is ignored; one that finds the session full is
\* also closed, which it may be at any time here.
AttachTurnedAway(c) ==
    /\ pc[c] = "attach"
    /\ job[c].sid \in attached[c] \/ clients[job[c].sid] >= MaxClients
    /\ Ends(c)
    /\ UNCHANGED <<stage, attached, sessionVars, shareVars, cast, notice, told, heard,
                   heirs>>

AttachAdmitted(c) ==
    /\ pc[c] = "attach"
    /\ job[c].sid \notin attached[c] /\ clients[job[c].sid] < MaxClients
    /\ Goes(c, "join")
    /\ UNCHANGED <<stage, job, attached, sessionVars, shareVars, cast, notice, told,
                   heard, heirs>>

\* AddClient and the entry in the map; the first client takes the active role
\* and gives the terminal its size.
Join(c) ==
    /\ pc[c] = "join"
    /\ LET s == job[c].sid IN
       /\ clients' = [clients EXCEPT ![s] = @ + 1]
       /\ attached' = [attached EXCEPT ![c] = @ \cup {s}]
       /\ Goes(c, IF clients[s] = 0 THEN "role" ELSE "look")
    /\ UNCHANGED <<stage, job, sessionVars, active, size, ptySize, cast, notice, told,
                   heard, heirs>>

FirstTakesRole(c) ==
    /\ pc[c] = "role" /\ Goes(c, "resize")
    /\ active' = [active EXCEPT ![job[c].sid] = c]
    /\ UNCHANGED <<stage, job, attached, sessionVars, clients, size, ptySize, cast,
                   notice, told, heard, heirs>>

\* TryTermResize does nothing once the session is destroyed.
TermResize(c) ==
    /\ pc[c] = "resize" /\ Goes(c, "setSize")
    /\ LET s == job[c].sid IN
       ptySize' = IF destroyed[s] THEN ptySize ELSE [ptySize EXCEPT ![s] = job[c].size]
    /\ UNCHANGED <<stage, job, attached, sessionVars, clients, active, size, cast,
                   notice, told, heard, heirs>>

SetSize(c) ==
    /\ pc[c] = "setSize" /\ Goes(c, job[c].sequel)
    /\ size' = [size EXCEPT ![job[c].sid] = job[c].size]
    /\ UNCHANGED <<stage, job, attached, sessionVars, clients, active, ptySize, cast,
                   notice, told, heard, heirs>>

\* The size is read, and sent as pty-size before the replay; then the lock is
\* released.  The `ready` message of 50 ms later changes nothing here.
AttachLooks(c) ==
    /\ pc[c] = "look" /\ Goes(c, "tell")
    /\ job' = [job EXCEPT ![c].size = size[job[c].sid]]
    /\ UNCHANGED <<stage, attached, sessionVars, shareVars, cast, notice, told, heard,
                   heirs>>

AttachTells(c) ==
    /\ pc[c] = "tell" /\ Ends(c)
    /\ Tell(c, job[c].sid, job[c].size)
    /\ UNCHANGED <<stage, attached, sessionVars, shareVars, cast, notice, heard, heirs>>

DetachDelete(c, s) ==
    /\ s \in attached[c] /\ Begins(c, "detach", s, 0, "idle")
    /\ attached' = [attached EXCEPT ![c] = @ \ {s}]
    /\ heirs' = [heirs EXCEPT ![s] = @ \ {c}]
    /\ told' = [told EXCEPT ![c][s] = 0]
    /\ UNCHANGED <<stage, sessionVars, shareVars, cast, notice, heard>>

\* The place is given back outside the lock; the active role is not.
DetachLeave(c) ==
    /\ pc[c] = "detach" /\ Ends(c)
    /\ LET s == job[c].sid IN
       clients' = IF listed[s] THEN [clients EXCEPT ![s] = OneLess(@)] ELSE clients
    /\ UNCHANGED <<stage, attached, sessionVars, active, size, ptySize, cast, notice,
                   told, heard, heirs>>
-----------------------------------------------------------------------------
(* handleResize, handleClaimActive and broadcastPtySize                     *)

ResizeBegins(c, s, z) ==
    /\ c \in Resizers /\ s \in attached[c] /\ z # 0
    /\ Begins(c, "resize?", s, z, "announce")
    /\ UNCHANGED <<stage, attached, sessionVars, shareVars, cast, notice, told, heard,
                   heirs>>

ClaimBegins(c, s, z) ==
    /\ c \in Resizers /\ s \in attached[c]
    /\ Begins(c, "claim", s, Clamped(z, DefaultSize), "announce")
    /\ UNCHANGED <<stage, attached, sessionVars, shareVars, cast, notice, told, heard,
                   heirs>>

Alive(s) == listed[s] /\ ~destroyed[s]

\* Only the active client's size is applied.
ResizeChecks(c) ==
    /\ pc[c] = "resize?"
    /\ IF Alive(job[c].sid) /\ active[job[c].sid] = c
       THEN Goes(c, "resize") /\ UNCHANGED job
       ELSE Ends(c)
    /\ UNCHANGED <<stage, attached, sessionVars, shareVars, cast, notice, told, heard,
                   heirs>>

ClaimTakesRole(c) ==
    /\ pc[c] = "claim"
    /\ IF Alive(job[c].sid)
       THEN /\ active' = [active EXCEPT ![job[c].sid] = c]
            /\ Goes(c, "resize") /\ UNCHANGED job
       ELSE Ends(c) /\ UNCHANGED active
    /\ UNCHANGED <<stage, attached, sessionVars, clients, size, ptySize, cast, notice,
                   told, heard, heirs>>

\* The size and the registry are copied; the clients follow one by one.  Who is
\* active is part of the message and of no property here.
CastBegins(c) ==
    /\ pc[c] = "announce" /\ Goes(c, "cast")
    /\ LET s == job[c].sid IN
       cast' = [cast EXCEPT ![c] = [size |-> size[s], todo |-> Registered \ {c},
                                    hit |-> None]]
    /\ UNCHANGED <<stage, job, attached, sessionVars, shareVars, notice, told, heard,
                   heirs>>

\* Slip: the broadcast passes over a client whose lock is taken.
CastChecksHasty(c, d) ==
    /\ pc[c] = "cast" /\ d \in cast[c].todo /\ cast[c].hit = None
    /\ cast' = [cast EXCEPT ![c].todo = @ \ {d},
                            ![c].hit = IF ~Locked(d) /\ job[c].sid \in attached[d]
                                       THEN d ELSE None]
    /\ UNCHANGED <<connVars, sessionVars, shareVars, notice, told, heard, heirs>>

\* Under the other client's lock: is it attached?
CastChecks(c, d) ==
    /\ pc[c] = "cast" /\ d \in cast[c].todo /\ cast[c].hit = None
    /\ stage[d] = "open" \/ ~Locked(d)
    /\ cast' = [cast EXCEPT ![c].todo = @ \ {d},
                            ![c].hit = IF job[c].sid \in attached[d] THEN d ELSE None]
    /\ UNCHANGED <<connVars, sessionVars, shareVars, notice, told, heard, heirs>>

CastTells(c) ==
    /\ pc[c] = "cast" /\ cast[c].hit # None
    /\ Tell(cast[c].hit, job[c].sid, cast[c].size)
    /\ cast' = [cast EXCEPT ![c].hit = None]
    /\ UNCHANGED <<connVars, sessionVars, shareVars, notice, heard, heirs>>

CastEnds(c) ==
    /\ pc[c] = "cast" /\ cast[c].todo = {} /\ cast[c].hit = None
    /\ Ends(c) /\ cast' = [cast EXCEPT ![c] = NoCast]
    /\ UNCHANGED <<stage, attached, sessionVars, shareVars, notice, told, heard, heirs>>
-----------------------------------------------------------------------------
(* Sessions come to their end, and notifyDestroyed                          *)

Condemn(s) ==
    /\ ~destroyed[s] /\ destroyed' = [destroyed EXCEPT ![s] = TRUE]
    /\ UNCHANGED <<connVars, listed, shareVars, cast, notice, told, heard, heirs>>

\* destroy deletes a session it has condemned, DestroyAll one it will condemn.
Delete(s) ==
    /\ listed[s] /\ listed' = [listed EXCEPT ![s] = FALSE]
    /\ heirs' = [heirs EXCEPT ![s] = {c \in Conns : s \in attached[c] /\ stage[c] = "ready"}]
    /\ UNCHANGED <<connVars, destroyed, shareVars, cast, notice, told, heard>>

\* Slip: the notification goes out before the session is deleted.
NotifyBeginsEarly(s) ==
    /\ destroyed[s] /\ ~notice[s].begun
    /\ notice' = [notice EXCEPT ![s] = [begun |-> TRUE, todo |-> Registered, hit |-> None]]
    /\ UNCHANGED <<connVars, sessionVars, shareVars, cast, told, heard, heirs>>

NotifyBegins(s) ==
    /\ destroyed[s] /\ ~listed[s] /\ ~notice[s].begun
    /\ notice' = [notice EXCEPT ![s] = [begun |-> TRUE, todo |-> Registered, hit |-> None]]
    /\ UNCHANGED <<connVars, sessionVars, shareVars, cast, told, heard, heirs>>

NotifyChecks(s, d) ==
    /\ d \in notice[s].todo /\ notice[s].hit = None
    /\ stage[d] = "open" \/ ~Locked(d)
    /\ notice' = [notice EXCEPT ![s].todo = @ \ {d},
                                ![s].hit = IF s \in attached[d] THEN d ELSE None]
    /\ UNCHANGED <<connVars, sessionVars, shareVars, cast, told, heard, heirs>>

NotifyTells(s) ==
    /\ notice[s].hit # None
    /\ TellGone(notice[s].hit, s)
    /\ notice' = [notice EXCEPT ![s].hit = None]
    /\ UNCHANGED <<connVars, sessionVars, shareVars, cast, told, heirs>>

NotifyOver(s) == notice[s].begun /\ notice[s].todo = {} /\ notice[s].hit = None
-----------------------------------------------------------------------------
Cleanup(c) == \/ CleanupLocks(c) \/ CleanupReadsRole(c) \/ CleanupYields(c)
              \/ CleanupUnlocks(c) \/ Unregister(c)
              \/ \E s \in Sessions : CleanupLeave(c, s)

Attach(c) == \/ AttachTurnedAway(c) \/ AttachAdmitted(c) \/ Join(c) \/ FirstTakesRole(c)
             \/ AttachLooks(c) \/ AttachTells(c)

Resize(c) == \/ ResizeChecks(c) \/ ClaimTakesRole(c) \/ TermResize(c) \/ SetSize(c)
             \/ CastBegins(c) \/ CastTells(c) \/ CastEnds(c)
             \/ \E d \in Conns : CastChecks(c, d)

\* What the read loop does once it has taken a message, or its end.
Handle(c) == Cleanup(c) \/ Attach(c) \/ DetachLeave(c) \/ Resize(c)

Connect(c) == Accept(c) \/ Register(c) \/ Ready(c) \/ CloseBegins(c)

Receive(c) ==
    \E s \in Sessions :
       \/ DetachDelete(c, s)
       \/ \E z \in AskedBy(c) : AttachLooksUp(c, s, z) \/ ResizeBegins(c, s, z) \/ ClaimBegins(c, s, z)

Notify(s) == NotifyBegins(s) \/ NotifyTells(s) \/ \E d \in Conns : NotifyChecks(s, d)

Next == \/ \E c \in Conns : Connect(c) \/ Receive(c) \/ Handle(c)
        \/ \E s \in Sessions : Condemn(s) \/ Delete(s) \/ Notify(s)

Spec == Init /\ [][Next]_vars

(***************************************************************************)
(* A read loop goes on with the message it has; a goroutine that destroys  *)
(* a session goes on with its notification.  Strongly, for a mutex that is *)
(* free again and again is granted to whoever waits for it.  Nobody has to *)
(* connect, send or close.                                                 *)
(***************************************************************************)
Fairness == /\ \A c \in Conns : SF_vars(Handle(c))
            /\ \A s \in Sessions : SF_vars(Notify(s))

FairSpec == Spec /\ Fairness
-----------------------------------------------------------------------------
(* Properties                                                               *)

Attached(s) == {c \in Conns : s \in attached[c]}
Leaving(s) == {c \in Conns : pc[c] = "detach" /\ job[c].sid = s}
Joining(c) == Locked(c) /\ stage[c] = "ready"

\* A session's count of clients is the number of connections attached to it or
\* about to give their place back, through every overlap of attach, detach and
\* the end of a connection: no place is lost, and none is given back twice.
ClientsCounted ==
    \A s \in Sessions :
       listed[s] => clients[s] = Cardinality(Attached(s)) + Cardinality(Leaving(s))

\* A client that was attached when a session was deleted, and still is, has been
\* told by the time notifyDestroyed returns.
GoneIsHeard ==
    \A s \in Sessions : NotifyOver(s) => \A c \in heirs[s] : s \in heard[c]

\* When the broadcast of a new size ends, every other attached client knows it,
\* or the size a first attach has put in its place: the broadcast told it, or its
\* attach, under the lock the broadcast waits for, read the new size.  Two users
\* resizing at once may overtake each other, so this is checked for one.
AnnouncedToAll ==
    [][\A c \in Conns : pc[c] = "cast" /\ pc'[c] = "idle" =>
         LET s == job[c].sid IN
         \A d \in Conns \ {c} :
            stage[d] = "ready" /\ s \in attached[d] /\ ~Joining(d)
               => told[d][s] \in {cast[c].size, size[s]}]_vars

\* A broadcast waits for the lock of every other connection in turn, and comes to
\* its end whatever those connections are doing: joining, leaving, broadcasting.
BroadcastEnds == \A c \in Resizers : pc[c] = "cast" ~> pc[c] = "idle"

\* The clients of a destroyed session are all dealt with in the end.
NotificationEnds == \A s \in Sessions : destroyed[s] /\ ~listed[s] ~> NotifyOver(s)

\* All three: what is told to all clients reaches all of them, and the telling ends.
BroadcastsReachAll == AnnouncedToAll /\ BroadcastEnds /\ NotificationEnds
=============================================================================

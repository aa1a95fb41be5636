------------------------------- MODULE Client -------------------------------
(***************************************************************************)
(* The connection core of one browser tab (public/js/shell-sessions.js):   *)
(* sockets and their handlers, the handshake, the list of sessions and the *)
(* requests that create and close them.                                    *)
(*                                                                         *)
(* JavaScript runs one task at a time; an action is what runs between two  *)
(* awaits.  What a function knows before an await is in a variable of its  *)
(* own (known, bootList) and may be stale when it is used.  The server,    *)
(* the network and the other browsers are external.                        *)
(***************************************************************************)
EXTENDS Naturals, Sequences, FiniteSets, SequencesExt

CONSTANTS
    Sids,        \* the sessions that may ever exist; ids are never reused
    Sockets,     \* the sockets, each used once
    None,
    MaxEvents,   \* how many things may happen: failures, and what the users do
    Refusals,    \* may the dialogs of the handshake be refused
    Attempts,    \* how often restore tries to connect: 3 in the code
    ListRace,    \* may the server send an event between taking and sending its list
    SlowFetch    \* may a request take longer than it takes to reconnect

ASSUME ClientAssumption ==
    /\ None \notin Sids \cup Sockets
    /\ Sids # {} /\ IsFiniteSet(Sids)
    /\ MaxEvents \in Nat /\ Attempts \in Nat \ {0}
    /\ {Refusals, ListRace, SlowFetch} \subseteq BOOLEAN

\* Who opens a prompt for a new shell: restore, sync, the removal of the last
\* tile, or the user.
Origins == {"boot", "sync", "empty", "user"}

VARIABLES
    alive,     \* the server's sessions
    unborn,    \* the ids no session has had yet
    link,      \* per socket: none, connecting, open, cut (not noticed yet), closing, closed
    served,    \* per socket, on the server: no, ready (list taken), sent (auth-success)
    snap,      \* per socket: the list the server has taken
    attached,  \* per socket: the sessions its server side is attached to
    wire,      \* per socket: the messages that have arrived and wait for rx
    cur,       \* this.ws
    ready,     \* this._wsReady
    promise,   \* the socket behind this._wsPromise
    timer,     \* is this._reconnectTimer armed
    crypto,    \* the socket this.cryptoState was made for, and cryptoReady
    cancelled, \* this._secretCancelled
    pc,        \* per socket: where its handler waits
    known,     \* per socket: the list sync works on, and the tiles of before
    tiles,     \* the keys of this.sessions
    dead,      \* those with remotelyClosed set
    prompts,   \* the origins with an open prompt
    posting,   \* per session its POST created: who asked and with whose key, unanswered
    deleting,  \* the sessions whose DELETE has not been answered
    boot,      \* where restore waits
    attempt,   \* how often it has tried
    bootList,  \* the list restore has fetched
    events     \* how much has happened so far

vars == <<alive, unborn, link, served, snap, attached, wire, cur, ready, promise, timer,
          crypto, cancelled, pc, known, tiles, dead, prompts, posting, deleting,
          boot, attempt, bootList, events>>

server == <<alive, unborn>>
net    == <<link, served, snap>>
conn   == <<cur, ready, promise, timer, crypto, cancelled>>
view   == <<tiles, dead, attached>>
pages  == <<prompts, posting, deleting, boot, attempt, bootList>>

Ack        == [type |-> "crypto-ack"]
Auth(l)    == [type |-> "auth-success", list |-> l]
Created(s) == [type |-> "created", sid |-> s]
Gone(s)    == [type |-> "gone", sid |-> s]

Messages == {Ack} \cup {Auth(l) : l \in SUBSET Sids}
            \cup {Created(s) : s \in Sids} \cup {Gone(s) : s \in Sids}

TypeOK ==
    /\ alive \subseteq Sids /\ unborn \subseteq Sids /\ alive \cap unborn = {}
    /\ link \in [Sockets -> {"none", "connecting", "open", "cut", "closing", "closed"}]
    /\ served \in [Sockets -> {"no", "ready", "sent"}]
    /\ snap \in [Sockets -> SUBSET Sids]
    /\ attached \in [Sockets -> SUBSET Sids]
    /\ wire \in [Sockets -> Seq(Messages)]
    /\ cur \in Sockets \cup {None} /\ promise \in Sockets \cup {None}
    /\ ready \in BOOLEAN /\ timer \in BOOLEAN /\ cancelled \in BOOLEAN
    /\ crypto \in [of : Sockets \cup {None}, up : BOOLEAN]
    /\ pc \in [Sockets -> {"idle", "proving", "syncing", "prompting", "attaching"}]
    /\ known \in [Sockets -> SUBSET Sids]
    /\ tiles \subseteq Sids /\ dead \subseteq tiles
    /\ prompts \subseteq Origins
    /\ posting \in [Sids -> [by : Origins, key : Sockets] \cup {None}]
    /\ deleting \subseteq Sids
    /\ boot \in {"calling", "connecting", "listing", "prompting", "done"}
    /\ attempt \in 0..Attempts /\ bootList \subseteq Sids
    /\ events \in 0..MaxEvents

NoCrypto == [of |-> None, up |-> FALSE]

Init ==
    /\ alive \in {{}, {CHOOSE s \in Sids : TRUE}} /\ unborn = Sids \ alive
    /\ link = [w \in Sockets |-> "none"]
    /\ served = [w \in Sockets |-> "no"] /\ snap = [w \in Sockets |-> {}]
    /\ attached = [w \in Sockets |-> {}]
    /\ wire = [w \in Sockets |-> <<>>]
    /\ cur = None /\ ready = FALSE /\ promise = None /\ timer = FALSE
    /\ crypto = NoCrypto /\ cancelled = FALSE
    /\ pc = [w \in Sockets |-> "idle"]
    /\ known = [w \in Sockets |-> {}]
    /\ tiles = {} /\ dead = {}
    /\ prompts = {}
    /\ posting = [s \in Sids |-> None] /\ deleting = {}
    /\ boot = "calling" /\ attempt = 0 /\ bootList = {}
    /\ events = 0

-----------------------------------------------------------------------------
(* Helpers.                                                                *)

Requesting ==
    \/ boot = "listing" \/ deleting # {}
    \/ \E w \in Sockets : pc[w] = "syncing"
    \/ \E s \in Sids : posting[s] # None

Happens == events < MaxEvents /\ events' = events + 1

\* A connection that was cut looks open until its close event.
Open(w)   == w # None /\ link[w] \in {"open", "cut"}
Online    == ready /\ Open(cur)

\* Which of the unused sockets, or ids, is taken makes no difference.
Fresh(S) == CHOOSE x \in S : TRUE

\* Slip: the socket being opened is not waited for.
GetWsEagerly ==
    IF Online
    THEN UNCHANGED <<link, cur, promise>>
    ELSE /\ \E w \in Sockets : link[w] = "none"
         /\ LET w == Fresh({v \in Sockets : link[v] = "none"})
            IN link' = [link EXCEPT ![w] = "connecting"] /\ cur' = w /\ promise' = w

\* getWs: the socket at hand, the one being opened, or a new one.
GetWs ==
    IF Online \/ promise # None
    THEN UNCHANGED <<link, cur, promise>>
    ELSE /\ \E w \in Sockets : link[w] = "none"
         /\ LET w == Fresh({v \in Sockets : link[v] = "none"})
            IN link' = [link EXCEPT ![w] = "connecting"] /\ cur' = w /\ promise' = w

Goners(S)  == LET q == SetToSeq(S) IN [i \in 1..Len(q) |-> Gone(q[i])]
ToAll(m)   == [w \in Sockets |-> IF served[w] # "no" /\ link[w] = "open"
                                 THEN Append(wire[w], m) ELSE wire[w]]
Gone1(s)   == [w \in Sockets |-> IF s \in attached[w] THEN Append(wire[w], Gone(s)) ELSE wire[w]]
Handled(w) == [wire EXCEPT ![w] = Tail(@)]

\* sendWs of detach and attach: over this.ws if it is ready, else to nobody.
\* The server attaches what exists and answers gone for what does not.
Tell(olds, news, queues) ==
    IF Online /\ link[cur] = "open"
    THEN /\ attached' = [attached EXCEPT ![cur] = (@ \ olds) \cup (news \cap alive)]
         /\ wire' = [queues EXCEPT ![cur] = @ \o Goners(news \ alive)]
    ELSE UNCHANGED attached /\ wire' = queues

\* Slip: what belongs to a removed tile is left behind.
MountAndDestroyKeeping(news, olds, queues) ==
    /\ tiles' = (tiles \cup news) \ olds
    /\ dead' = dead
    /\ Tell(olds, news \ olds, queues)
    /\ IF news \ tiles # {} THEN GetWs ELSE UNCHANGED <<link, cur, promise>>

\* mount adds a tile and attaches it once getWs has a socket; destroy removes
\* one, and the last one removed opens a prompt.
MountAndDestroy(news, olds, queues) ==
    /\ tiles' = (tiles \cup news) \ olds
    /\ dead' = dead \ olds
    /\ Tell(olds, news \ olds, queues)
    /\ IF news \ tiles # {} THEN GetWs ELSE UNCHANGED <<link, cur, promise>>

Emptied == tiles # {} /\ tiles' = {}

Mount(s, queues) ==
    IF s \in tiles
    THEN wire' = queues /\ UNCHANGED <<tiles, dead, attached, link, cur, promise>>
    ELSE MountAndDestroy({s}, {}, queues)

Destroyed(olds, queues) ==
    /\ MountAndDestroy({}, olds, queues)
    /\ prompts' = IF Emptied THEN prompts \cup {"empty"} ELSE prompts

-----------------------------------------------------------------------------
(* The handshake.                                                          *)

\* The connection is up, a key pair is made and the server answers init-crypto.
\* The key pair takes no time to speak of.
Opened(w) ==
    /\ link[w] = "connecting"
    /\ SlowFetch \/ ~Requesting
    /\ link' = [link EXCEPT ![w] = "open"]
    /\ crypto' = [of |-> w, up |-> FALSE]
    /\ wire' = [wire EXCEPT ![w] = Append(@, Ack)]
    /\ UNCHANGED <<server, served, snap, cur, ready, promise, timer, cancelled, pc, view, known,
                   pages, events>>

Next1(w, type) == pc[w] = "idle" /\ wire[w] # <<>> /\ Head(wire[w]).type = type

\* A sealed frame is only opened with the keys of its own connection.
Sealed(w, type) == Next1(w, type) /\ crypto = [of |-> w, up |-> TRUE]

\* The dialogs, the derivation and the proofs take their time.
HandleAck(w) ==
    /\ Next1(w, "crypto-ack")
    /\ wire' = Handled(w)
    /\ pc' = [pc EXCEPT ![w] = "proving"]
    /\ UNCHANGED <<server, net, conn, view, known, pages, events>>

\* this.cryptoState is read again after the await: with the keys of this
\* socket the proof is sent, with another's or none the handshake fails.
Proved(w) ==
    /\ pc[w] = "proving" /\ crypto.of = w
    /\ crypto' = [of |-> w, up |-> TRUE]
    /\ pc' = [pc EXCEPT ![w] = "idle"]
    /\ IF link[w] = "open"
       THEN /\ served' = [served EXCEPT ![w] = "ready"]
            /\ snap' = [snap EXCEPT ![w] = alive]
       ELSE UNCHANGED <<served, snap>>
    /\ UNCHANGED <<server, link, wire, cur, ready, promise, timer, cancelled, view, known, pages, events>>

\* ws.close(): the close event follows.
CloseWs(w) ==
    /\ link' = [link EXCEPT ![w] = IF @ \in {"open", "cut"} THEN "closing" ELSE @]
    /\ attached' = [attached EXCEPT ![w] = {}]
    /\ served' = [served EXCEPT ![w] = "no"]

ProofFails(w) ==
    /\ pc[w] = "proving" /\ crypto.of # w
    /\ pc' = [pc EXCEPT ![w] = "idle"]
    /\ CloseWs(w)
    /\ UNCHANGED <<server, snap, wire, conn, tiles, dead, known, pages, events>>

\* The user rejects the fingerprint or gives a wrong secret, or gives none.
Refused(w) ==
    /\ pc[w] = "proving" /\ Refusals /\ Happens
    /\ pc' = [pc EXCEPT ![w] = "idle"]
    /\ cancelled' \in {cancelled, TRUE}
    /\ CloseWs(w)
    /\ UNCHANGED <<server, snap, wire, cur, ready, promise, timer, crypto, tiles, dead, known, pages>>

\* The server queues auth-success with the list it has taken.
ServerAuth(w) ==
    /\ served[w] = "ready"
    /\ served' = [served EXCEPT ![w] = "sent"]
    /\ wire' = [wire EXCEPT ![w] = Append(@, Auth(snap[w]))]
    /\ UNCHANGED <<server, link, snap, conn, pc, known, view, pages, events>>

-----------------------------------------------------------------------------
(* Frames, handled one at a time and in order of arrival.                  *)

\* A frame is dropped without keys, and for a socket that is not the ready
\* one nothing but the arrival of auth-success counts.
Drop1(w) ==
    /\ pc[w] = "idle" /\ wire[w] # <<>> /\ Head(wire[w]).type # "crypto-ack"
    /\ \/ crypto # [of |-> w, up |-> TRUE]
       \/ ready = (Head(wire[w]).type = "auth-success")
       \/ Head(wire[w]).type = "gone" /\ Head(wire[w]).sid \notin tiles
    /\ wire' = Handled(w)
    /\ UNCHANGED <<server, net, conn, pc, known, view, pages, events>>

HandleAuth(w) ==
    /\ Sealed(w, "auth-success") /\ ~ready
    /\ wire' = Handled(w)
    /\ ready' = TRUE /\ promise' = None /\ timer' = FALSE
    /\ known' = [known EXCEPT ![w] = Head(wire[w]).list]
    /\ pc' = [pc EXCEPT ![w] = "syncing"]
    /\ UNCHANGED <<server, net, cur, crypto, cancelled, view, pages, events>>

\* Slip: what has come while the tab was away is not mounted.
SyncRemoving(w) ==
    /\ pc[w] = "syncing"
    /\ MountAndDestroy({}, tiles \ known[w], wire)
    /\ prompts' = prompts \cup (IF Emptied THEN {"empty"} ELSE {})
                          \cup (IF tiles' = {} THEN {"sync"} ELSE {})
    /\ pc' = [pc EXCEPT ![w] = IF tiles' = {} THEN "prompting" ELSE "attaching"]
    /\ UNCHANGED <<server, served, snap, ready, timer, crypto, cancelled, known,
                   posting, deleting, boot, attempt, bootList, events>>

\* sync, once the list of SSH hosts has come: what the list has is mounted,
\* what it lacks is destroyed, and if nothing is left a prompt is opened.
Sync(w) ==
    /\ pc[w] = "syncing"
    /\ MountAndDestroy(known[w] \ tiles, tiles \ known[w], wire)
    /\ prompts' = prompts \cup (IF Emptied THEN {"empty"} ELSE {})
                          \cup (IF tiles' = {} THEN {"sync"} ELSE {})
    /\ pc' = [pc EXCEPT ![w] = IF tiles' = {} THEN "prompting" ELSE "attaching"]
    /\ UNCHANGED <<server, served, snap, ready, timer, crypto, cancelled, known,
                   posting, deleting, boot, attempt, bootList, events>>

SyncPrompted(w) ==
    /\ pc[w] = "prompting" /\ "sync" \notin prompts
    /\ \A s \in Sids : posting[s] # None => posting[s].by # "sync"
    /\ pc' = [pc EXCEPT ![w] = "attaching"]
    /\ UNCHANGED <<server, net, wire, conn, known, view, pages, events>>

\* Slip: the tiles that survived the disconnect are taken for attached.
AttachAllNew(w) ==
    /\ pc[w] = "attaching"
    /\ pc' = [pc EXCEPT ![w] = "idle"]
    /\ boot' = IF boot = "connecting" THEN "listing" ELSE boot
    /\ bootList' = IF boot = "connecting" THEN alive ELSE bootList
    /\ UNCHANGED <<server, net, wire, conn, known, view, prompts, posting, deleting, attempt, events>>

\* Every tile is attached, those of before the connection with resume, and
\* the promise of getWs is resolved.
AttachAll(w) ==
    /\ pc[w] = "attaching"
    /\ Tell({}, tiles, wire)
    /\ pc' = [pc EXCEPT ![w] = "idle"]
    /\ boot' = IF boot = "connecting" THEN "listing" ELSE boot
    /\ bootList' = IF boot = "connecting" THEN alive ELSE bootList
    /\ UNCHANGED <<server, net, conn, known, tiles, dead, prompts, posting, deleting, attempt, events>>

HandleCreated(w) ==
    /\ Sealed(w, "created") /\ ready
    /\ Mount(Head(wire[w]).sid, Handled(w))
    /\ UNCHANGED <<server, served, snap, ready, timer, crypto, cancelled, pc, known, pages, events>>

HandleGone(w) ==
    /\ Sealed(w, "gone") /\ ready
    /\ Head(wire[w]).sid \in tiles
    /\ dead' = dead \cup {Head(wire[w]).sid}
    /\ wire' = Handled(w)
    /\ UNCHANGED <<server, net, conn, pc, known, tiles, attached, pages, events>>

-----------------------------------------------------------------------------
(* Losing the connection and coming back.                                  *)

\* Slip: the promise of a connection that failed is kept.
ClosedKeepingPromise(w) ==
    /\ \/ link[w] \in {"cut", "closing"} /\ events' = events
       \/ link[w] = "connecting" /\ Happens
    /\ link' = [link EXCEPT ![w] = "closed"]
    /\ ready' = FALSE /\ crypto' = NoCrypto /\ timer' = TRUE
    /\ boot' = IF boot = "connecting" THEN "calling" ELSE boot
    /\ UNCHANGED <<server, served, snap, attached, wire, cur, promise, cancelled, pc, known,
                   tiles, dead, prompts, posting, deleting, attempt, bootList>>

\* onclose, of whichever socket: what the tab has is taken for this one's.
Closed(w) ==
    /\ \/ link[w] \in {"cut", "closing"} /\ events' = events
       \/ link[w] = "connecting" /\ Happens
    /\ link' = [link EXCEPT ![w] = "closed"]
    /\ ready' = FALSE /\ promise' = None /\ crypto' = NoCrypto
    /\ cancelled' = FALSE
    /\ IF cancelled
       THEN tiles' = {} /\ dead' = {} /\ timer' = timer
       ELSE timer' = TRUE /\ UNCHANGED <<tiles, dead>>
    /\ boot' = IF boot # "connecting" THEN boot
               ELSE IF attempt < Attempts THEN "calling"
               ELSE IF tiles = {} THEN "prompting" ELSE "done"
    /\ prompts' = prompts \cup (IF Emptied THEN {"empty"} ELSE {})
                          \cup (IF boot # "prompting" /\ boot' = "prompting" THEN {"boot"} ELSE {})
    /\ UNCHANGED <<server, served, snap, attached, wire, cur, pc, known, posting, deleting, attempt, bootList>>

\* The two seconds are over.
Reconnect ==
    /\ timer
    /\ timer' = FALSE
    /\ GetWs
    /\ UNCHANGED <<server, served, snap, wire, ready, crypto, cancelled, view, pc, known, pages, events>>

Lost(w) ==
    /\ link[w] = "open" /\ Happens
    /\ link' = [link EXCEPT ![w] = "cut"]
    /\ attached' = [attached EXCEPT ![w] = {}]
    /\ served' = [served EXCEPT ![w] = "no"]
    /\ UNCHANGED <<server, snap, wire, conn, tiles, dead, pc, known, pages>>

\* The server starts anew: no sessions, no connections.
Restart ==
    /\ Happens
    /\ alive' = {}
    /\ link' = [w \in Sockets |-> IF link[w] = "open" THEN "cut" ELSE link[w]]
    /\ served' = [w \in Sockets |-> "no"]
    /\ attached' = [w \in Sockets |-> {}]
    /\ UNCHANGED <<unborn, snap, wire, conn, tiles, dead, pc, known, pages>>

-----------------------------------------------------------------------------
(* restore, when the page is loaded.                                       *)

\* getWs, again after a while if it failed.
BootCalls ==
    /\ boot = "calling"
    /\ attempt' = attempt + 1
    /\ boot' = IF Online THEN "listing" ELSE "connecting"
    /\ bootList' = IF Online THEN alive ELSE bootList
    /\ GetWs
    /\ UNCHANGED <<server, served, snap, wire, ready, timer, crypto, cancelled, view, pc, known,
                   prompts, posting, deleting, events>>

\* The list has come, and what it names is mounted.
BootLists ==
    /\ boot = "listing" /\ crypto.up
    /\ boot' = IF bootList = {} THEN "prompting" ELSE "done"
    /\ prompts' = IF bootList = {} THEN prompts \cup {"boot"} ELSE prompts
    /\ MountAndDestroy(bootList \ tiles, {}, wire)
    /\ UNCHANGED <<server, served, snap, ready, timer, crypto, cancelled, pc, known,
                   posting, deleting, attempt, bootList, events>>

\* The connection was lost before the answer could be read.
BootFails ==
    /\ boot = "listing" /\ ~crypto.up
    /\ boot' = IF tiles = {} THEN "prompting" ELSE "done"
    /\ prompts' = IF tiles = {} THEN prompts \cup {"boot"} ELSE prompts
    /\ UNCHANGED <<server, net, wire, conn, view, pc, known, posting, deleting, attempt, bootList, events>>

-----------------------------------------------------------------------------
(* The user, and the others.                                               *)

NewShell ==
    /\ prompts = {} /\ Happens
    /\ prompts' = {"user"}
    /\ UNCHANGED <<server, net, wire, conn, view, pc, known, posting, deleting, boot, attempt, bootList>>

\* promptCreate ends without a session: cancelled, or the request failed.
PromptEnds(o) ==
    /\ o \in prompts
    /\ prompts' = prompts \ {o}
    /\ boot' = IF o = "boot" THEN "done" ELSE boot
    /\ UNCHANGED <<server, net, wire, conn, view, pc, known, posting, deleting, attempt, bootList, events>>

\* The POST has made a session, which every ready connection hears of.
Post(o) ==
    /\ o \in prompts /\ unborn # {}
    /\ crypto.up /\ served[crypto.of] = "sent"
    /\ LET s == Fresh(unborn) IN
        /\ posting' = [posting EXCEPT ![s] = [by |-> o, key |-> crypto.of]]
        /\ alive' = alive \cup {s} /\ unborn' = unborn \ {s}
        /\ wire' = ToAll(Created(s))
    /\ prompts' = prompts \ {o}
    /\ UNCHANGED <<net, conn, view, pc, known, deleting, boot, attempt, bootList, events>>

\* The answer can only be read with the keys it was asked with.
Posted(s) ==
    /\ posting[s] # None
    /\ posting' = [posting EXCEPT ![s] = None]
    /\ boot' = IF posting[s].by = "boot" THEN "done" ELSE boot
    /\ IF crypto = [of |-> posting[s].key, up |-> TRUE]
       THEN Mount(s, wire)
       ELSE UNCHANGED <<wire, tiles, dead, attached, link, cur, promise>>
    /\ UNCHANGED <<server, served, snap, ready, timer, crypto, cancelled, pc, known,
                   prompts, deleting, attempt, bootList, events>>

\* destroy(id): the server is asked to end the session, unless there are no
\* keys to ask with, and the tile goes when the request is over, well or not.
CloseShell(s) ==
    /\ s \in tiles \ deleting /\ Happens
    /\ IF crypto.up
       THEN \/ /\ deleting' = deleting \cup {s}
               /\ alive' = alive \ {s}
               /\ wire' = Gone1(s)
               /\ UNCHANGED <<tiles, dead, attached, link, cur, promise, prompts>>
            \/ /\ link[crypto.of] # "open"
               /\ Destroyed({s}, wire)
               /\ UNCHANGED <<alive, deleting>>
       ELSE Destroyed({s}, wire) /\ UNCHANGED <<alive, deleting>>
    /\ UNCHANGED <<unborn, served, snap, ready, timer, crypto, cancelled, pc, known, posting, boot, attempt, bootList>>

CloseAnswered(s) ==
    /\ s \in deleting
    /\ deleting' = deleting \ {s}
    /\ Destroyed({s}, wire)
    /\ UNCHANGED <<server, served, snap, ready, timer, crypto, cancelled, pc, known, posting,
                   boot, attempt, bootList, events>>

\* A click on the status bar of a session that is gone.
Discard(s) ==
    /\ s \in dead
    /\ Destroyed({s}, wire)
    /\ UNCHANGED <<server, served, snap, ready, timer, crypto, cancelled, pc, known, posting,
                   deleting, boot, attempt, bootList, events>>

\* Another browser creates a session.
OthersCreate ==
    /\ unborn # {} /\ Happens
    /\ ~ListRace => \A w \in Sockets : served[w] # "ready"
    /\ LET s == Fresh(unborn) IN
        /\ alive' = alive \cup {s} /\ unborn' = unborn \ {s}
        /\ wire' = ToAll(Created(s))
    /\ UNCHANGED <<net, conn, view, pc, known, pages>>

\* A shell exits, or another browser closes it.
Ends(s) ==
    /\ s \in alive /\ Happens
    /\ alive' = alive \ {s}
    /\ wire' = Gone1(s)
    /\ attached' = [w \in Sockets |-> attached[w] \ {s}]
    /\ UNCHANGED <<unborn, net, conn, tiles, dead, pc, known, pages>>

Handler(w) ==
    \/ HandleAck(w) \/ Proved(w) \/ ProofFails(w) \/ Drop1(w) \/ HandleAuth(w)
    \/ Sync(w) \/ SyncPrompted(w) \/ AttachAll(w) \/ HandleCreated(w) \/ HandleGone(w)

Next ==
    \/ \E w \in Sockets : Handler(w) \/ Opened(w) \/ Refused(w) \/ ServerAuth(w) \/ Closed(w) \/ Lost(w)
    \/ Reconnect \/ Restart \/ BootCalls \/ BootLists \/ BootFails \/ NewShell \/ OthersCreate
    \/ \E o \in Origins : PromptEnds(o) \/ Post(o)
    \/ \E s \in Sids : Posted(s) \/ CloseShell(s) \/ CloseAnswered(s) \/ Discard(s) \/ Ends(s)

\* What the network, the server and the event loop owe the tab.  The people
\* owe nothing but an answer to the dialogs of the handshake.
Fairness ==
    /\ \A w \in Sockets : /\ WF_vars(Handler(w)) /\ WF_vars(Opened(w)) /\ WF_vars(ServerAuth(w))
                          /\ WF_vars(link[w] # "connecting" /\ Closed(w))
    /\ WF_vars(Reconnect) /\ WF_vars(BootCalls) /\ WF_vars(BootLists) /\ WF_vars(BootFails)
    /\ \A s \in Sids : WF_vars(Posted(s)) /\ WF_vars(CloseAnswered(s))

Spec == Init /\ [][Next]_vars /\ Fairness

-----------------------------------------------------------------------------
(* Properties.                                                             *)

AtRest ==
    /\ Online /\ link[cur] = "open" /\ ~timer /\ boot = "done" /\ deleting = {} /\ prompts = {}
    /\ \A s \in Sids : posting[s] = None
    /\ \A w \in Sockets : pc[w] = "idle" /\ wire[w] = <<>> /\ served[w] # "ready"

\* When the tab is online and nothing is under way, its tiles that are not
\* marked as closed are the sessions of the server (sync, created and gone
\* events, POST and DELETE answers, whatever their order).
ListAgrees == AtRest => tiles \ dead = alive

\* No tile of a live session is left without an attachment of the present
\* connection, whatever was lost in between: it would show nothing any more.
ShownIsAttached == AtRest => tiles \ dead \subseteq attached[cur]

\* A tab that is online holds one connection: no second one was opened by
\* the callers of getWs and forgotten (this.ws names only the last).
OneConnection == AtRest => \A w \in Sockets : link[w] = "open" => w = cur

\* Unless the user refused to give the secret, the tab is online again in the
\* end, however its connections failed.
Reconnects == []~cancelled => <>[](Online /\ link[cur] = "open")
=============================================================================

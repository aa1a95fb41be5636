# Verification of Shells

Shells is a persistent web terminal. A Go server keeps shells running in pseudo
terminals; browsers attach to them over one encrypted WebSocket each, leave, come
back and find their output replayed. This directory holds TLA+ specifications of the
server's own logic and of the browser client's, the TLC configurations that check them
on small instances, and TLAPS proofs, for instances of any size, of what matters most.

Line numbers are those of the sources under `src/`. The exact lines every definition
stands for, the hazards, the findings and the mutants are in `PROJECT.json`.

1. [The system](#1-the-system)
2. [Modules](#2-modules)
3. [Runs, bounds and what they show](#3-runs-bounds-and-what-they-show)
4. [Fairness](#4-fairness)
5. [Proofs](#5-proofs)
6. [Where code and documentation disagree](#6-where-code-and-documentation-disagree)
7. [Not modelled, and the plan](#7-not-modelled-and-the-plan)

## 1. The system

### Components, their state and operations

| Component (source) | State | Operations | What makes it correct |
|---|---|---|---|
| Session manager (`internal/session/session.go`) | registry of sessions; per session `destroyed`, `termOps`, output ring, carry, client count, active client, size, title, DEC modes | Create, Destroy, the exit hook, DestroyAll, TryTermWrite/TryTermResize (the drain), List, AddClient/RemoveClient, SetSize | one teardown and one notification per session whoever starts it; no PTY use after the drain; the registry within `MaxSessions`; at shutdown, children confirmed dead |
| Terminal (`internal/pty/pty.go`, `openpty_*.go`) | child, pid, reader and reaper goroutines, listeners | Spawn, Write, Resize, Kill, OnData/OnExit, dispatch | every child reaped, its exit dispatched once, Kill hits only this child's group |
| Ring buffer (`internal/ringbuf/ringbuf.go`) | slots, head, tail, size, byteTotal | Push, Shift, Snapshot, growth, eviction | the newest chunks within both limits, in order |
| Output relay (`internal/wshandler/relay.go`) | per attachment: coalescing buffer and timer, unsent ring, `isPaused`, `throttled` | onPtyData, flushCoalesce, replayBuffer, flushClientBuffer, backpressureCheck | bytes are not lost silently, repeated or reordered; the output in the queue is bounded |
| Connection handler (`internal/wshandler/wshandler.go`) | registry of connections; per connection `attached`, `ready`, `closed`, token | upgrade, handshake messages, attach, detach, resize, claim, pause, resume, title, lock-all, cleanup, the broadcasts | client counts exact; who is attached hears of new sizes and of the end of the session |
| WebSocket transport (`internal/websocket/websocket.go`) | send queue, `buffered`, `pongsQueued`, closing flags, read and write loops | SendText/SendBinary, ping/pong, Close, terminate | frames in order, nothing after close, counters exact, every connection released |
| Handshake and frame encryption (`internal/crypto/crypto.go`) | per-connection keys, transcript | init, finalize, encrypt, decrypt | only an authenticated peer reaches `ready`, once |
| Session tokens (`internal/auth/auth.go`) | tokens with the connection they belong to | Register, Revoke, Validate, cleanup | a token lives as long as its connection; the cap holds |
| Rate limiter (`internal/util/ratelimit.go`) | timestamps per key | Allow, sweep | at most the limit in a window; memory bounded |
| HTTP API (`internal/api/api.go`) | recents, cached update check, in-flight check | create, destroy, recents, update check, update | one check in flight; lists not lost |
| Pasted files (`internal/api/api_paste.go`) | files on disk, records per session | paste, evict, remove with the session | a session's files go with it and no others |
| SSH connections (`internal/ssh/*.go`, `internal/api/api_ssh.go`) | saved list, key files | probe, add, update, delete | the list and the key files agree |
| Self-update supervisor (`internal/selfupdate/selfupdate.go`) | the binary, `.new`, its digest, `.previous`, `.broken`; crash and start-failure counters | run child, verify, preflight, swap, rollback, stop | a working build survives every interruption; only verified files are installed; a crashing release is replaced |
| Release check and staging (`internal/release/*.go`) | staged file and digest | check, Apply | what is staged is what was verified |
| Branding and atomic files (`internal/branding`, `internal/fsutil`) | branding record, its file | Get, Set | the file holds the last update |
| Stream parser (`internal/stream/stream.go`) | none (the carry belongs to the session) | split of incomplete UTF-8 and escape sequences, title and mode extraction | nothing cut in half reaches a terminal |
| Static assets, icons, configuration, TLS files, command index | read at start | – | – |
| Entry and shutdown (`main.go`) | server, signal goroutine | start, signal, shutdown | DestroyAll finishes before the process ends |
| Browser client: connection (`public/js/shell-sessions.js`) | socket, its promise, reconnect timer, keys, sessions, tiles | getWs, handshake, resume, sync, create, destroy, attach | one connection; the list is the server's; every tile is attached; online again in the end |
| Browser client: tiles (`shell-sessions.js`, `mobile.js`, `switcher.js`) | active tile, full screen, sleep, tab bar, layout | setActive, toggleFullscreen, slides, updateSleepState | what is shown runs, what sleeps is paused, the bar is complete |
| Browser client: sizes (`shell/scaling.js`) | believed role, pending claims, queued frames | claim, pty-size, scaling | who believes to be active is; an active tile is not scaled |
| Browser client: bell (`shell-sessions.js` 230-330) | run of output, mute, last input | runTick, noteOutput | exactly the ends of long runs ring |
| Browser client: locking (`shell-sessions.js` 40-190) | cached key, lock request, storage events | lock, lock-all, idle clock, unlock, bfcache | a lock reaches every tab of the browser |
| Browser client: dialogs (`tui-dialog.js`, `tui-dialog/dom.js`) | open overlays, key handlers, focus; suggestions of a prompt | open, keys, close; type, complete, delete | each is answered once; suggestions fit the text |
| Browser client: new shell (`shell/backends.js`, `shell/recents.js`) | stage of the dialogue, recent lists here and stored | choose, probe, install, connect, create, prune | what proved unusable is not offered again |
| Browser client: touch and search (`mobile.js`, `shell/search.js`) | fingers and their modes; search bar, debounce, highlights | swipes, keys; type, next, close | one key per two-finger gesture; highlights belong to the open search |
| Browser client: paste (`shell/paste.js`) | uploads of each paste | read, upload, paste paths | every file is pasted in order or reported |
| Installed app (`public/sw.js`, `public/pwa.js`, `public/index.html`) | workers, caches, version of the page, marks in storage | install, activate, serve, take over, check, reload | page and assets of one version; no reload loop |
| Browser client: drawing, settings, encryption | theme, layout, key bars, gauges, keys | – | – |

### How they interact

* **Goroutines.** Each WebSocket has a read loop, which runs the handlers, and a write
  loop. Each terminal has a reader, which calls the data listeners, and a reaper, which
  calls the exit listeners. Timers flush coalesced output, and a ticker runs the
  backpressure check. HTTP requests run concurrently with all of them.
* **Locks.** `Manager.mu` (the registry), `Session.mu` (one session), `ClientConn.mu`
  (one connection's attachments), `Handler.mu` (the registry of connections),
  `Conn.queueMu`. `ClientConn.mu` is held across a whole attach, replay included, and
  across cleanup; nearly everything else is a short critical section, so checks and the
  actions they guard are often in different sections.
* **Callbacks.** The shell's output goes reader → session listener (ring, carry) →
  `onPtyData` of each attached client → coalescing or the client's ring → the send
  queue → the socket. The shell's exit goes reaper → destroy → kill, drain, removal →
  `onDestroy` → `notifyDestroyed` to every attached client.
* **The browser.** JavaScript runs one task at a time, so what interleaves are the pieces
  between two awaits, timers, frames, storage events, messages and answers. What a function
  read before an await may be stale after it. The tabs of a browser share `localStorage`;
  the pages of an origin share the service worker and its caches.
* **Processes.** The server is the child of a supervisor, the same binary, which talks
  to it through exit codes, an environment variable and files beside the binary.

### What is hard about it

Teardown started by three parties at once; a shell that exits before its session exists;
a client that attaches while output is being dispatched; output held back in three places
under two thresholds; a peer that stops reading; attach, detach and the end of a connection
against the end of the session; a binary replaced by renames that a power cut may separate; and, in the browser, lists and
forms that wait for an answer while the events that outdate them come in.
Every such spot is a hazard in `PROJECT.json` with the properties that watch it.

## 2. Modules

| Module | Models | Uses |
|---|---|---|
| `Pty` | one terminal per session: child, pid, reader, reaper, exit listeners | |
| `SessionManager` | the registry, Create, destroy, DestroyAll, the drain | extends `Pty`, instantiates `SessionLife` |
| `SessionLife` | abstract: a session is unborn, listed, dying, gone; its end is reported at most once | |
| `RingBuffer` | the slots, indices and byte count of a ring | extends `ChunkQueue`, instantiates `BoundedFifo` |
| `ChunkQueue` | what a ring keeps of a queue of chunks under its two limits | |
| `BoundedFifo` | abstract: a queue of the newest chunks that fit two limits | extends `ChunkQueue` |
| `Relay` | the path of output from the reader to one client's screen | extends `ChunkQueue`, for both rings |
| `Transport` | one WebSocket connection | |
| `Attachments` | connections, attachments, client counts, active client, sizes, fan-outs | |
| `Supervisor` | the supervisor loop, the files and two update requests | |
| `Client` | the connection of one tab: sockets, handshake, list, attach, create, close, load screen | |
| `Screen` | tiles, full screen, sleep, tab bar, phone layout, switcher | |
| `Claims` | one browser's view of who rules a terminal's size | |
| `Bell` | the bell at the end of a run of output, against a definition of runs | |
| `Locking` | the tabs of several browsers and the lock | |
| `Dialogs`, `Prompt` | stacked dialogs; one prompt with its suggestions | |
| `NewShell` | the dialogue for a new shell, recent lists, removal of a connection | |
| `Gestures`, `Search`, `Paste` | fingers; the search bar; pasted files | |
| `AppUpdate` | service workers, caches and the page they serve | |
| `Lists` | three operators on sequences, for the parts of the page | |
| `Page` | the disjoint union of the page's parts, each with its own sizes | instantiates the modules from `Screen` to `AppUpdate` |
| `SessionManager_proofs`, `Relay_proofs`, `Transport_proofs`, `Attachments_proofs`, `Supervisor_proofs`, `Client_proofs`, `RingBuffer_proofs`, `Page_proofs` | theorems | extend their module and TLAPS |
| `MCSessionManager`, `MCRingBuffer`, `MCSupervisor`, `MCPage` | symmetry sets and inputs for TLC | |

**Conventions.** Variables keep the names of the Go fields. An action is one critical
section or one system call, with all it does; where a goroutine may be
preempted between two of them, a `pc` says where it is. Operators whose comment begins with
*Slip* are mutants: a plausible mistake in the definition that follows, which the check
substitutes to see the property fail. They are never part of a specification.

**Pty, SessionManager.** `child` runs through alive, doomed (SIGKILL sent), zombie, reaped;
`reaper` through `cmd.Wait`, the join with the reader, and the callbacks. An *actor* is whoever
can tear a session down: an API caller, the exit hook in the reaper of a session, or one of
DestroyAll's goroutines. Its `pc` walks through claim (`destroyed := true` under the lock,
440-447), kill (450), drain (451 and 520-560), delete (453-455) or, for DestroyAll, await
(482-505), and notify. `termOps` counts writers inside the PTY. Create is cut at every unlocked
gap: check, spawn, each hook, insertion or kill of the orphan, announcement. The model has no
output, titles or sizes.

**RingBuffer.** `Push` is growth, store, and evictions until both limits hold, in one step,
as in the code, which is only called under a lock. A chunk is a sequence. `EvictOne` is one round of the eviction loop, `WithoutOldest` several.

**Relay.** A byte is its position in the shell's output, so order, loss and repetition are
visible; the title that heads a replay is one byte more. `ReadChunk`, `SessionHears` and `ClientHears` are the reader's three steps; `queue` is the send queue and `SocketDelivers`
the peer. `mu` says who keeps the connection's lock from one step to the next: an attach (`attach`, `replay`, `modes`) or a flush. The
socket goes on taking frames meanwhile, so the loops of the replay (`ReplayChunk`, `ReplayEnds`) and of the flush (`FlushChunk`,
`FlushEnds`) test the queue again for every chunk. The frames that are sent without a look at the queue, the size, the reset, the DEC modes, the alternate screen and the
heartbeat, carry no output and weigh one byte each in `Buffered`, which is what the code tests; `DataBuffered` counts output alone. A title that is broadcast is left out.
Time is not counted: an armed timer may fire at any moment. A close
by the server for any reason is an instance of `Drop`.

**Transport.** Frames are opcodes with a fixed payload length. The sender's test of `closed` and
its enqueuing are separate steps (243-258), as are the queuing of a pong and its count (234-241),
taking a batch, writing its frames and crediting them. `peer` changes at will between reading,
stalled (sends but does not read) and silent.

**Attachments.** One goroutine per connection runs a message's handler to its end and finally
cleanup, so the handlers of one connection never overlap, while those of different
connections interleave freely. `Locked` says when a connection's lock is held across steps: from
the admission of an attach to its end, and in the loop of cleanup. A broadcast copies the registry
and visits it, waiting for each lock. Sizes are one number. `told`, `heard` and `heirs` are history: the last
size a client was sent, the sessions it was told are gone, and who was attached when a session was deleted.

**Supervisor.** Files are versions or `None`. Every rename and removal is a step of its own, and the
machine or the supervisor may stop between any two (`Crash`, `Boot`). A first rename that fails is ignored, as in the code: the second is
tried all the same (`SwapOutFails`). Apply is its download, the
rename of the file and that of the digest, for two requests at a time. Preflight and verification are
reduced to their outcome; which builds crash is a constant.

**Client.** The three steps of a message are on the `wire`, being handled (`pc`, with what the handler knew before its
await in `known`), and done. `served` and `snap` are the server's side: it marks a connection ready, takes its list and
then sends it. `posting` is a request to create, `prompts` who has a dialog for a new shell open, `boot` the load of
the page up to its own list. A frame is opened only with the keys of its own connection, making a key pair takes no
time, and the moment in which the browser has heard of the server's close but not reported it is left out.

**Parts of the page.** Eleven modules have the shape `VARIABLE x`, a record whose fields are named for the code's
variables, because the code keeps them in closures and DOM attributes that one function reads and writes at once: an action is
a function from the record to the next. In `Screen`, `auto` is `data-auto-fs`, `bar` the tabs drawn in each tile, and
`paused` what the server holds back. In `Bell` time is counted in units and a timer of one second may skip any number
of beats. In `Gestures` the three trackers see the touches in the order in which the DOM hands them out. In `Claims` the server's side
follows wshandler.go 251-278, 308-312, 540-587 and 677-730: a claim is not answered, the others are told; a broadcast first reads who is active and reaches
this browser later (`going`), and the cleanup of another connection reads the role and clears it later (`leaving`); `misled` is history, a role that was lost with nobody to say so. In `NewShell` the requests
for the lists of this machine are on their way one by one (`reqs`), served in any order, answered later or lost, and other tabs store whole lists; `culprit` is history,
the name last proven unusable, and `revived` that a list fetched since names it. In `Locking`,
`owes` and `missed` are history: who was there when a lock was requested, and who of them was frozen when the signal was taken back. In `AppUpdate` the cache of a version holds a version of
each of two kinds of URL, page and assets, and of the page under an address with a query, which is an entry of its own; `stray` says that the page was loaded from one.

## 3. Runs, bounds and what they show

| Run | Instance | States | Shows |
|---|---|---|---|
| `session_manager` | 2 sessions, 1 caller, `MaxSessions` 1, symmetric | 2.4 M | If DestroyAll returns in time its children are dead (`ConfirmedDead`); the manager implements `SessionLife`, limit of the registry included (`ImplementsSessionLife`) |
| `session_duel` | 1 session, 2 callers, 1 writer | 59 k | One teardown (`OneTeardown`) and a drain that stays drained (`QuiescedStaysQuiet`); condemned shells are reaped and teardowns end (`EveryTeardownEnds`); exited sessions are unlisted (`ExitedSessionUnlisted`) |
| `ring_buffer` | capacity 2 growing to 4, 6 bytes, 5 chunks of 1 to 7 bytes | 1.3 k | The array stays consistent and implements `BoundedFifo` (`RingIsFifo`) |
| `relay` | 2 bytes of output and a title, 2 attaches, rings of 3 bytes | 389 k | No byte an attached client was handed sits in a buffer with nothing to move it (`NothingStranded`); the output in the queue stays within the high-water mark, one frame and a coalesced remainder, and a paused client is sent none (`NothingPilesUp`); what a client was handed, or is due in its replay, is shown, sent or still held but for two losses, a push that does not fit and a replay cut short, and nothing is given twice but one chunk in the snapshot race (`NeitherLostNorRepeated`); whatever waits for an unpaused client is delivered (`DeliveredInTheEnd`) |
| `transport` | 2 pongs, queue of 2 | 103 k | Nothing follows the close frame, pongs are bounded, the buffered amount is exact until close (`QueueSound`); a terminated connection is reported and released, a closing one ends unless the peer stalls (`EveryConnectionEnds`) |
| `supervisor` | 3 versions, one faulty, 2 requests, crash limit 2 | 37 k | Whatever is interrupted, no step destroys the last build that has run, but an installation over one that could not be moved away (`ARunBuildSurvives`), only the verified file is installed (`InstalledWasVerified`), a faulty release is replaced and a missing binary put back (`BadReleaseGivesWay`) |
| `attachments` | 2 connections, 1 session, 2 sizes, 1 resizer | 321 k | Counts are exact (`ClientsCounted`), whoever was attached at the deletion is told (`GoneIsHeard`), a broadcast leaves no client with an old size and both fan-outs end (`BroadcastsReachAll`) |
| `client_connection` | 2 sessions, 3 sockets, 2 events, 2 attempts to load | 276 k | At rest the tiles are the server's sessions (`ListAgrees`), all attached (`ShownIsAttached`), over one connection (`OneConnection`); unless the user refuses, the tab is online again in the end (`Reconnects`) |
| `page` | 11 parts, see `MCPage` | 831 k | One property or two for each part, named in section 1's last column (`ShownRuns` to `NeverLoops`) |
| `session_zombie`, `relay_order`, `client_slow` | the smallest that show it | | a documented claim the code breaks (section 6) |

**Why the bounds are enough.** *Sessions:* the registry and shutdown relate two sessions, everything else
concerns one; a second caller is what makes two API teardowns meet the reaper and DestroyAll.
*Ring:* a capacity of two reaches growth at every head position and the wrap-around; one
chunk exceeds the budget by itself. *Relay:* two bytes reach both thresholds and let one be held back while the other is
sent; with a title a ring of three bytes has room for all but a batch that is held beside them, so that a byte is evicted only where a push overflows; the second attach meets a queue that the first has
filled, and a replay that is cut short.
*Transport:* with two pongs both sides of the limit are reached; `MaxQueue` bounds
only what senders let pile up. *Supervisor:* one release to run, one that crashes and one to
roll forward to; two requests so that one may overwrite what the other staged. *Attachments:* the fan-outs
need a sender and a receiver; the second connection may be joining, leaving or broadcasting. *Client:* a stale handler needs an
old socket and a new one, and a third lets the new one fail; one session is kept while another comes or goes; each event is a
failure, a restart or something a user does. *Page:* three tiles are what a slide, its neighbour and a bar need; the steps of each part
(four to six touches, keys, claims or moves, two pastes of two files, three loads of two versions) let an action be overtaken by
a second and corrected by a third.

`CHECK_DEADLOCK FALSE` is set where the system may come to rest: all sessions gone, all connections closed,
the shell silent, the supervisor stopped, the user idle. The ring never rests and is checked for deadlock.

## 4. Fairness

Only what the code's scheduling gives is assumed.

* *Goroutines run and timers fire* (weak fairness of each goroutine's steps): the Go scheduler.
* *A child that was sent SIGKILL dies, and the reader of a dead child's terminal gets an error*: the kernel. A writer
  blocked in the terminal need never return; the drain's time-out is what `EveryTeardownEnds` rests on.
* *A free mutex is granted in the end* (strong fairness of `Handle` and `Notify` in `Attachments`): Go's mutexes hand over
  to a waiter that has waited long.
* *A frame is written if the peer keeps reading now and then* (strong fairness of `WriteFrame`): nothing is assumed of a
  stalled peer, and `EveryConnectionEnds` excepts it.
* *A faulty release keeps crashing; a rename does not fail for ever; a start that can work does in the end; a stop
  request is seen while the supervisor waits* (strong fairness in `Supervisor`).
* *Messages that have arrived are handled, a socket that is opening opens or fails, timers fire and requests are answered* (weak fairness
  in `Client`): the event loop and the network. The dialogs of the handshake are answered one way or the other.

The parts of the page are checked for safety only, without fairness. Nobody has to connect, type, resize, ask for an update or close, and no shell has to exit.

## 5. Proofs

TLAPS checks these theorems for any values of the constants that satisfy the modules' assumptions. The invariants that make them
inductive stand in the `_proofs` modules, those of the page's parts beside their properties.

| Theorem | Says | Property of a run |
|---|---|---|
| `TypeCorrect` | the manager and its terminals are always well typed | |
| `OpsAreCounted` | `termOps` is the number of writers inside the PTY | |
| `TeardownIsExclusive` | one teardown | `OneTeardown` |
| `GoneAtMostOnce` | one notification, after the kill | |
| `DrainIsFinal` | no operation after the drain | `QuiescedStaysQuiet` |
| `ShutdownConfirmsDeaths` | DestroyAll returning in time means its children are dead | `ConfirmedDead` |
| `RegistryIsBounded` | the registry never outgrows `MaxSessions` | |
| `ManagerImplementsLife` | the manager implements `SessionLife` | `ImplementsSessionLife` |
| `RingImplementsFifo` | the circular array implements `BoundedFifo`, and its books agree | `RingIsFifo` |
| `NothingIsStranded` | output that waits has something that will send it | `NothingStranded` |
| `QueueStaysBounded` | the output in the send queue is bounded, however often the client attaches, and a hidden client is sent none | `NothingPilesUp` |
| `GivenOnce` | what a client was handed or is due in its replay is sent or kept, but for an eviction and a replay cut short; what it was given twice is one chunk at most | `NeitherLostNorRepeated` |
| `QueueIsSound` | frames in order, pongs bounded, bytes counted | `QueueSound` |
| `RunBuildSurvives` | no step destroys the last build that has run, but an installation over one that could not be moved away | `ARunBuildSurvives` |
| `MissingBinaryIsRecoverable` | without an installed binary, `.previous` can be put back | |
| `OnlyVerifiedInstalled` | only the verified file, or `.previous`, is installed | `InstalledWasVerified` |
| `ClientsAreCounted` | a session's client count is exact | `ClientsCounted` |
| `GoneReachesHeirs` | whoever was attached at the deletion and still is has been told | `GoneIsHeard` |
| `TypesCorrect` | a tab and its connection are well typed; it tries no more often than it may | `TypeOK` of `Client` |
| `OneSocketOnly` | of all its sockets a tab uses only the current one | `OneConnection` |
| `TilesAreAttached` | every tile shown is attached on the connection that is ready | `ShownIsAttached` |
| `NoGhosts` | at rest a tab shows no session as alive that the server does not have | |
| `PageTyped` | every part of the page is well typed, its queues and counters within their bounds | `TypeOK` of `Page` |
| `ShownTerminalsRun`, `TabsAreComplete` | no terminal that is seen sleeps, the server pauses the sleeping ones only; the tab bar names every session | `ShownRuns`, `TabsComplete` |
| `ActiveIsNotScaled`, `BelieversAreActive` | an active tile is not scaled; with nothing on its way a browser that believes to be active is, with the three exceptions of section 6 | `ActiveNotScaled`, `BelieverIsActive` |
| `ShownSuggestionsFit` | the suggestions shown are those of the text, unless an answer was overtaken | `SuggestionsFit` |
| `AnsweredOnlyOnce` | a dialog is answered exactly once | `AnsweredOnce` |
| `PrunedStaysGone` | a folder or command that was of no use the page neither offers nor stores until it is entered again; only a list fetched since brings it back | `PrunedStaysPruned` |
| `BellsAreExact` | exactly the ends of runs that lasted long enough ring | `RingsExact` |
| `TwoFingersSendOneKey` | a gesture of two fingers sends at most one key | `OneKeyOfTwoFingers` |
| `HighlightsAreOwned` | highlights belong to the session that is searched | `HighlightsOwned` |
| `EveryFileIsAccounted` | every file of a finished paste is in the terminal, in its place, or its failure was told | `EveryFileAccounted` |
| `EveryTabHearsTheLock` | a tab that was there at a lock is loaded anew or will hear of it, but a frozen one for which the signal was taken back | `LockReachesAll` |
| `PageIsConsistent`, `ChecksNeverLoop` | a page and its assets are of one version, but a page with a query in its address; no two forced reloads in a row | `PageConsistent`, `NeverLoops` |

**Sessions.** None of the middle properties is inductive: nothing in `OneTeardown` forbids an actor from
being past its claim with `destroyed` unset. `LifeInv` adds what the code relies on without saying it: a
busy actor has a session (`BusyHasTarget`), nothing refers to a session before its spawn
(`NothingBeforeSpawn`), an owner has set the flag (`OwnerHasFlag`), the exit hook runs after the
wait (`ExitedIsReaped`), and DestroyAll's goroutine notifies, or finishes, only after the exit it
waited for (`SweptAwaitsExit`). TLC has checked `LifeInv` on the instance of `session_duel`. The proof goes action by action; `RegistryIsBounded` needs only that insertion tests
the limit in the critical section that inserts. For the refinement, a
session's abstract phase is a function of the registry, the flag and the notification. Insertion opens a session, the claim of any party
condemns it, the notification buries it (one lemma each), and every other step leaves all phases as they are (`SamePhase`).

**RingBuffer.** The invariant `Sound` is about a ring as a record: the window from `head` to `tail` holds the chunks and nothing else does, and
`byteTotal` is the bytes of its contents. One lemma for each operation says that its result is sound and which chunks it holds: growing none
other (`GrownIs`), storing one more (`StoredIs`), evicting the longest suffix that fits (`EvictedIs`). The model states the loop of `Push` in closed
form, `WithoutOldest(r, n)`, because a recursive function cannot be proved about; `NoneEvicted` and `OneMoreEvicted` prove that it is what
n calls of `EvictOne`, the code's step, leave. The arithmetic of `%` is in three lemmas (`Wrapped`, `Slides`, `Apart`).

**Relay.** `RelayInv` is the types and two lists of facts, which TLC has checked on larger instances than that of the run. `Waiters`: a
byte in the coalescing buffer has its timer, and the timer its callback; a client that is not attached has nothing in any buffer; during an attach
nothing is held back, coalesced or paused; whatever is in the ring of unsent output has a pause, the throttle, a resume or a flush. `Sizes`: a chunk of
the session's ring is no longer than the carry and one read, a frame no longer than `LargestFrame`, and the output
buffered for the socket plus what is being coalesced stays under the bound. `QueueBounded` alone is not inductive: the coalescing buffer
may be sent while the queue is above the high-water mark. The bound is on output: a test of the queue also counts the other frames, which can only make it stop earlier. `ChunkQueue` counts bytes by their positions, so that sums are cardinalities and need no recursion;
`BytesAppended`, `BytesOfTail` and `PushedIsSuffix` say what an append, a shift and a push do. The first half of `GivenOnce`, that
nothing else is lost, goes through every buffer in turn (`AcceptedIsKept`) and rests on two lemmas about the send queue: an appended frame wipes nothing (`SentGrows`), and a frame the socket takes is on the
screen (`SentIsShown`). The second half counts, for each byte, at how many places it stands in the screen, the frames, the coalescing
buffer and the rings (`Occurrences`), and needs `OnceInv`: the session's ring holds a byte once; a byte the client has been handed stands once in what
the client has or will have, unless it belongs to the one chunk that was being dispatched when an attach took its snapshot; and since
a reset frame wipes the screen and a dropped connection brings back what was shown before, the same holds of every prefix of the frames on their way (`Arriving`).

**Transport.** The write queue and the batch taken from it are one sequence, `InFlight`: a sender appends to it, the write loop takes
its head. `QueueInv` adds to `QueueSound` that the pongs counted cover those in flight except the one being counted
(`PongsBehind`), that a close frame is the last (`CloseIsLast`), that an idle writer has no batch (`BatchDone`), and that a connection is
reported only when its reader ends (`OnceAtEnd`).

**Supervisor.** `FilesInv` states that the files are versions, that `.previous` only ever holds one that has run, and is there when no
binary is installed (`RanKept`), that what runs is installed until it is moved away (`InstalledRuns`), that a rollback has something to go back to
(`WayBack`), and that between verification and the second rename the staged file is the verified one
(`StagedIsVerified`), because the child, whose requests write it, is down. That some build that has run is on the disk is no invariant: the second rename of a
swap replaces an installed build that the first could not move, and `.previous` is gone by then. `RunBuildSurvives` says that no other step loses the last one.

**Attachments.** `ClientsCounted` needs that a handler under way knows its session and that one about to join is not
attached (`HandlersKnow`): the test at line 503 and the registration at 538 are under one lock. The four
steps that move a client between the groups "attached" and "giving its place back" are lemmas about
cardinalities; all others leave both groups alone (`CountKept`). `GoneIsHeard` needs that the notification
starts after the deletion and that each heir is in the copy of the registry, in hand, or told (`HeirsServed`), and that
only a closed connection cleans up (`CleanersClosed`).

**Client.** `ClientInv` is the types and five parts. `OneSocket`: no socket but `this.ws` is alive, its promise is kept until it is
ready, and the keys, if there are any, are its own. `OneHandshake`: a connection shakes hands once, before anything else is sent
over it; a socket that is closing is not proving its key, without which the end of an old socket could complete the handshake of the next.
`IdsAreFresh`: a session that ended does not come back, so what a tab takes for dead is dead and nobody knows a session before it is
born. `TilesAttached`: behind a ready connection whose handler is idle every tile shows its session or will hear of its end. `Tries`:
the first load asks again only below its limit. `NoGhosts` follows: what is shown at rest is alive, or the tab has taken it for dead. The converse, that nothing is missing, the code does not give,
and so there is no theorem about it: `ListRace` and `SlowFetch` are the two ways to break it (section 6), and `ListAgrees` is checked without them. TLC has checked `ClientInv` on the instance of `client_connection`.

**Page.** The parts share no state, so each is proved alone (`PartAlone`). Each of the modules proved about states its inductive
invariant as `Inv(x)`, beside the properties: one tile is fullscreen, what sleeps is hidden, and the server knows who sleeps of the tiles that
are attached (`Screen`); a browser that will believe to be active when it has read what is on its way is, or has claimed the role, or a broadcast that says otherwise has yet to reach it (`Claims`); the answer to the last request, unless it was overtaken, is that of the
text (`Prompt`); a dialog has been answered once if it went and never if it is open, and only open ones listen (`Dialogs`); what was pruned is in neither the page's list nor any list the page has sent since, unless a fetched one names it, and a folder has been entered when the session is asked for (`NewShell`); the run under way is that of the last output, and without one that output has
been looked at since its run was over (`Bell`); two fingers are remembered as long as
they are down or their end was missed, and while they are and none has fired no key was sent (`Gestures`); only the session that is searched, which is the
active one, has marks (`Search`); what is in the terminal was uploaded, and a failure was told (`Paste`, where lemma `PathsAre` says what the filter of
the uploads leaves); a tab that owes a reload has an event on its way or is frozen and will find the signal, unless that was taken back (`Locking`); workers follow each
other in the order of their versions, the page under way, unless it is stray, is what the active one or else the server has, and a second reload is marked (`AppUpdate`).
`PageTyped` keeps beside `Inv` what it leaves out of a part's types (`ScreenRest`, `ClaimsRest` and so on to `VersionsRest`). Most of it is kept by each
step alone; that a gesture sends and switches at most twice is not, and rests on which tracker still has which finger (`TouchRest`), and that a paste's stages
are a function of its files on what one answer may change (`PasteRest`). Two bounds of the types held of the instance only, and are stated as they are.
The proof of `Screen` found what five moves are too few to show: with a second tile made fullscreen by a late card, a terminal
that can be seen sleeps (section 6). The ghost `doubled` marks it, and the properties except it.

**Assumptions.** `ManagerAssumption`, `PtyAssumption`, `RelayAssumption`, `TransportAssumption`, `SupervisorAssumption`,
`AttachmentsAssumption`, `ClientAssumption`, `PageAssumption` and `RingAssumption` only say that limits are numbers, some of them positive, that
a batch is not empty, `None` is no session, tab, version or recent name, that a remote folder is a text, and that the ids a tab may ever see are finitely many (an id has a fixed
length) and not none. `PageBounds`, for the types alone, says that the caps on steps are numbers, that the empty text is a text and what may be
deleted are texts, and that suggestions are lists of texts. No theorem assumes more, and `ListRace` and `SlowFetch` are free in all of them.

**Only model-checked.** Liveness under fairness is out of the prover's reach: `EveryTeardownEnds`, `ExitedSessionUnlisted`, `BadReleaseGivesWay`, `BroadcastsReachAll`,
`EveryConnectionEnds`, `DeliveredInTheEnd` and `Reconnects` stay with TLC. So does `ListAgrees`, which holds only while no list is overtaken and no request outlasts a reconnection. Every other property of a passing run is stated by a theorem.

## 6. Where code and documentation disagree

Three runs end in a counterexample to what a comment says of the code.

* `session_zombie`, `GoneIsUnlisted`: a shell that exits while Create is running is torn down by the exit hook and *then* inserted
  (session.go:418). It stays listed and counted.
* `relay_order`, `ShownInOrder`: resume clears `isPaused` and flushes in two critical sections, and coalesced bytes may be
  queued behind newer ones: output reaches the screen out of order, where the comment allows a gap at worst.
* `client_slow`, `ListAgrees`: a synchronisation waits for the list of SSH connections (shell-sessions.js:779) and goes on with the list of sessions it began
  with, though its socket is no longer the current one; when the answer takes longer than the reconnection, sessions that are gone
  are mounted, or new ones destroyed, where the comment says the list is synchronised with the server's. The other runs assume that
  no request outlasts a reconnection (`SlowFetch = FALSE`).

Observed while modelling, and not the subject of a run:

* *Replay.* A replay that meets a full queue buffers the batch in hand and leaves out the remainder (relay.go:66; line 61 says "buffer the rest"). It is
  the second of the two losses `NeitherLostNorRepeated` names; the first is an eviction by a push that does not fit.
* *Ungated frames.* Sizes, resets, DEC modes, ready, heartbeats, and the frames of other sessions on the same socket are queued without a look at the queue
  (wshandler.go 580-594, 603-607, 618-619, relay.go:110): a client that attaches again and again over a stalled socket piles them up until the close at `WSCWM`. `NothingPilesUp` bounds output alone.
* *Killed child.* A child killed by a signal has exit code -1, which Run takes for a stop request (selfupdate.go:195, 182).
* *Early exit.* A shell that exits before Create registers its listeners (session.go:397) is heard by nobody; the session stays.
* *Kill after the wait.* The exit path kills the process group of a pid already reaped (session.go:401, pty.go:157). If the
  kernel has reused it for another session's shell, that shell dies. The model allows the reuse in every run: the properties checked hold all the same, and none says that only
  the session's own shell is hit, since that is not so.
* *Held-back output.* What waits for a client that is paused or throttled is abandoned when its session is destroyed:
  no flush runs for a destroyed session (relay.go 168, 205). `NothingStranded` excepts it.
* *Snapshot race.* A chunk dispatched to the listener an attach has just registered is also in the snapshot, and is shown
  twice (wshandler.go:597-600 says it cannot). `NeitherLostNorRepeated` bounds it. The other way round, a chunk whose dispatch copied the listeners before the registration and
  that reaches the session's listener after the snapshot is never shown to that client; it was handed to nobody, so no property speaks of it.
* *Stalled peer.* Close only queues a frame; a peer that keeps sending but stops reading holds the connection, since writes have no deadline
  (websocket.go:294). `EveryConnectionEnds` excepts it.
* *Counters.* Writing the close frame drives `buffered` below zero (websocket.go:307); `pongsQueued` may be negative
  for a moment (websocket.go:239).
* *Supervisor.* While starts fail no signal is read (selfupdate.go:90); a refusal is forgotten when the next start fails
  (81); swap removes `.previous` before the rename that may fail (310-312), so `BadReleaseGivesWay` excepts a missing one. The error of that rename is ignored, and the second
  (313) then replaces the only build that has run by one that has not; `ARunBuildSurvives` excepts that step and no other.
* *Limits.* The limits on connections (wshandler.go:125) and on clients of a session (507) are tested in one critical section and applied in
  another, and can be exceeded by as many as arrive together.
* *Active role.* Detach leaves its client active (671). Cleanup reads who is active and then clears the role (311-312): a claim in between is
  wiped, and that client's resizes are ignored until it claims again. `Claims` has the step (`RoleCleared`), and `BelieverIsActive` excepts who lost the role so.
* *Late joiner.* A client that looked the session up before its deletion (495) and attaches after the notification is never told. `GoneIsHeard` is about
  those attached at the deletion.
* *Sizes.* TryTermResize and SetSize are two steps (573-574, 701-702, 727-728): two clients that claim at once, or one that claims while
  another attaches first, may leave the session's size different from the terminal's, and two broadcasts may overtake each other. The first attach resizes without a
  broadcast. `BroadcastsReachAll` is checked with one resizing client and allows the size of a first attach.

* *List race.* A connection is ready before its list is taken and sent (wshandler.go:412): a created event may come first, and a session that
  ended in between is listed all the same. `ListRace = TRUE` shows it; the runs use `FALSE`.

In the browser (line numbers of `shell-sessions.js` unless named):

* *Connection.* A resumed attach asks for no replay (587), so output of the gap is not shown. A restarted server's empty list opens two
  prompts for a new shell (789, 1151). "Reconnecting in" names a growing delay while the timer is always 2 s (674-686). A synchronisation may
  destroy a session whose answer to its creation is still on its way.
* *Load screen.* A splash that was shown again may be removed by the one-second timer of the first (loadscreen.js).
* *Late card.* A card of a single terminal on a phone looks after 220 ms whether its own tile is fullscreen, not whether another is
  (switcher.js:179-185, "re-check inside the timeout to never fight it"): if a terminal was opened meanwhile, two tiles are fullscreen, one of them asleep, and
  the one later in the document is seen. Leaving full screen takes the class off the active one only, and the next selection on a phone makes it
  two again (1693-1711). `_refreshFsTabs` draws the first of the two.
* *Tiles.* The timer that ends a slide takes full screen from a tile that was activated again meanwhile (1662-1671); leaving the phone's layout, or an automatic
  full screen, does not update who sleeps (mobile.js 201-204, 249-252), which is what `stale` marks in `Screen`; a card of the switcher may
  name a session that is gone (switcher.js:173); a session announced as created is mounted without becoming active.
* *Claims.* A claim within 300 ms of another is not sent, but believed (scaling.js:62): `swallowed` in `Claims`. Nobody tells a claimant that it is active (wshandler.go:262): if
  a size with `isActive` false was on its way when the claim was made, the browser takes it for the later news, and shows a scaled terminal although the server has it as active, until it is touched again;
  `BelieverIsActive` therefore says nothing of a browser that does not believe. Of two broadcasts that cross, the one that read the older role may come last (`misled`).
* *Dialogs.* One Escape answers every open dialog (dom.js:102). Enter in an empty field while "Loading..." is shown submits that word (tui-dialog.js:345-350,
  backends.js:561). An answer that was overtaken by a later one replaces it (tui-dialog.js:245); `SuggestionsFit` excepts
  it.
* *Recents.* The lists are stored as a whole, by every tab, and nothing orders the requests: one that is lost, or overtaken by an older one, leaves what was pruned in the stored list, and the next fetch brings it
  back (`revived`, which `PrunedStaysPruned` excepts). A default path is read before a deletion that may remove it (backends.js:490). The model has one chain of dialogs at a time;
  a second one, started while a dismissed status still waits, is left out.
* *Gestures.* Two fingers on a terminal set the document's `multiTouch` but their end is kept from it (mobile.js:131-132).
* *Search.* The debounce of a closed bar may search in the next one; what it highlights belongs to an open search still.
* *Locking.* A tab that was deriving its key when another locked caches it again after the lock (120); the removal of `lock-req` is heard like its setting.
  A page that comes back from the browser's cache is to ask for the secret "if a lock was requested at any point after the page was loaded" (134-136), but looks only whether `lock-req` is still set (137), and
  another tab that has joined meanwhile, even one that was already joining at the lock and needs no secret, removes it (567): the page comes back as it was, until the next lock. `LockReachesAll` excepts it (`missed`).
* *Updates.* The alarm of a failed verification is not shown while another dialog of updates is open (update.js 108-131). An install of the worker that missed
  files counts as complete (sw.js:113); `PageConsistent` excepts it.
  A page that was reloaded at `/?_=...` (index.html 105-107) keeps that address: at its next load the worker looks html up with the query and misses it (sw.js:169), assets without (175), and the server's new
  html meets the cached assets of the old version, which sw.js 164-167 sets out to exclude. `PageConsistent` excepts such a page (`stray`).

## 7. Not modelled, and the plan

The server's core came first, then the browser client. Next, in this order:

| Module | Component | What for |
|---|---|---|
| `Handshake`, `AuthTokens` | crypto, auth, handlers of wshandler.go 378-430 | replay of handshake messages, tokens against the end of their connection, the cap |
| `PtyOutput` | pty.go 86-112 | the last output of an exiting shell against the closing of the master |
| `Shutdown` | main.go | the signal goroutine, DestroyAll and the end of main |
| `RateLimiter` | util/ratelimit.go | windows of different callers in one map |
| `UpdateCheck`, `Recents` | api.go | the single flight under one request's deadline; read-prune-write |
| `Pastes` | api_paste.go | eviction, records and reused ids |
| `Branding`, `SshConnections` | branding.go, fsutil.go, ssh*.go | writes outside the lock, through one temporary file |
| `StreamParser` | stream.go | what is held back at the end of a chunk, against a reference definition |

Planned proofs: the safety of the modules above.

Left out for good: ciphers and key derivation (taken as given), parsing of frames and JSON, titles, themes, icons, static assets, layout, gauges, key bars,
keyboard input and drawing in the browser, build scripts, and what ssh, the kernel and the browser do beyond the steps marked external.

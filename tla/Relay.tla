-------------------------------- MODULE Relay --------------------------------
(***************************************************************************)
(* The output path from one session to one client: the PTY reader, the     *)
(* session's replay ring, the attachment with its coalescing buffer and    *)
(* its ring of unsent output, and the send queue of the WebSocket          *)
(* (internal/wshandler/relay.go, the attach and detach handlers of         *)
(* wshandler.go, the output listener of session.go).                       *)
(*                                                                         *)
(* A byte of output is a number, its position in what the shell wrote, and *)
(* the title that a replay begins with is one byte more.  A chunk read     *)
(* from the PTY is one byte, a frame of data is a sequence of bytes.       *)
(* Time is not counted: a timer may fire as soon as it is armed, and a     *)
(* window has elapsed or not.                                              *)
(***************************************************************************)
EXTENDS ChunkQueue, SequencesExt

\* Both rings are queues of module ChunkQueue; MaxBytes is OutputBufferMax.
CONSTANTS HWM, LWM,    \* WSHWM, WSLWM
          BatchLen,    \* replay batch, 32768
          FlushLen,    \* coalesceFlushBytes
          MaxCarry,    \* maxCarry
          MaxOutput,   \* bound: bytes the shell writes
          MaxAttaches, \* bound: times the client attaches
          MaxTimers    \* bound: coalesce timers running at the same time

ASSUME RelayAssumption ==
    /\ {MaxBytes, MaxCount, BatchLen, FlushLen, MaxCarry, MaxTimers} \subseteq Nat \ {0}
    /\ {HWM, LWM, MaxOutput, MaxAttaches} \subseteq Nat

VARIABLES produced,    \* bytes read from the PTY
          reader,      \* the reader goroutine, in its listeners
          heard,       \* did dispatchData copy the client's listener?
          ring, carry, \* Session.outputBuffer and Session.carry
          gone,        \* the session was destroyed
          listening,   \* the client's listener is registered with the Term
          mu,          \* who holds cc.mu from one step to the next: handleAttach
                       \* ("attach", "replay", "modes") or a flush ("flush")
          replay,      \* chunks still to replay, and the frame being filled
          attached,    \* cc.attached has the session
          resume,      \* the resume flag of the attach under way
          resuming,    \* "resume" has been handled up to its flush
          paused, throttled,
          cbuf,        \* attachState.clientBuffer
          co,          \* attachState.coalesceBuf
          timerSet,    \* attachState.coalesceTimer # nil
          timers,      \* coalesce timers that have not run their callback
          unreported,  \* attachState.pausedBytes
          signalled,   \* attachState.lastActSig is set
          queue,       \* frames in the send queue of the WebSocket
          screen,      \* what the client's terminal was given since a reset
          kept,        \* the terminal outlived its connection
          attaches

readerVars == <<produced, reader, heard, ring, carry, gone>>
bufferVars == <<paused, throttled, cbuf, co, timerSet, timers>>
badgeVars  == <<unreported, signalled>>
clientOf   == <<listening, attached, resume, resuming, attaches>>
attachVars == <<clientOf, mu, replay>>
clientVars == <<screen, kept>>
vars == <<readerVars, bufferVars, badgeVars, attachVars, queue, clientVars>>

Data(bytes) == [kind |-> "data", bytes |-> bytes]
Reset       == [kind |-> "reset", bytes |-> <<>>]
Control     == [kind |-> "control", bytes |-> <<>>]  \* a size, modes, a heartbeat

NoReplay    == [todo |-> <<>>, batch |-> <<>>]

\* Data is queued after a look at the queue, every other frame without one.
Payload(frames) == [i \in DOMAIN frames |-> frames[i].bytes]
DataBuffered(frames) == ByteCount(Payload(frames))

\* BufferedAmount: the frames that are not data count as one byte each.
Buffered(frames) ==
    DataBuffered(frames) + Cardinality({i \in DOMAIN frames : frames[i].kind # "data"})

Title  == 0
Output == 1..MaxOutput
Bytes  == Output \cup {Title}
Frames == [kind : {"data", "reset", "control"}, bytes : Seq(Bytes)]

DataTypes ==
    /\ ring \in Seq(Seq(Bytes)) /\ carry \in Seq(Bytes)
    /\ cbuf \in Seq(Seq(Bytes)) /\ co \in Seq(Bytes)
    /\ replay \in [todo : Seq(Seq(Bytes)), batch : Seq(Bytes)]
    /\ queue \in Seq(Frames) /\ screen \in Seq(Bytes)

FlagTypes ==
    /\ heard \in BOOLEAN /\ gone \in BOOLEAN /\ listening \in BOOLEAN
    /\ attached \in BOOLEAN /\ resume \in BOOLEAN /\ resuming \in BOOLEAN
    /\ paused \in BOOLEAN /\ throttled \in BOOLEAN /\ timerSet \in BOOLEAN
    /\ signalled \in BOOLEAN /\ kept \in BOOLEAN

TypeOK ==
    /\ produced \in 0..MaxOutput
    /\ reader \in {"idle", "session", "client"}
    /\ mu \in {"free", "attach", "replay", "modes", "flush"}
    /\ timers \in 0..MaxTimers /\ unreported \in Nat
    /\ attaches \in 0..MaxAttaches
    /\ FlagTypes /\ DataTypes

Init ==
    /\ produced = 0 /\ reader = "idle" /\ heard = FALSE
    /\ ring = <<>> /\ carry = <<>> /\ gone = FALSE
    /\ listening = FALSE /\ mu = "free" /\ replay = NoReplay /\ attached = FALSE /\ resume = FALSE
    /\ resuming = FALSE /\ attaches = 0
    /\ paused = FALSE /\ throttled = FALSE /\ cbuf = <<>> /\ co = <<>>
    /\ timerSet = FALSE /\ timers = 0
    /\ unreported = 0 /\ signalled = FALSE
    /\ queue = <<>> /\ screen = <<>> /\ kept = FALSE
-----------------------------------------------------------------------------
(* The reader goroutine: dispatchData copies the listeners under the Term's *)
(* lock, then calls the session's and the client's, each with its own lock. *)

ReadChunk ==
    /\ reader = "idle" /\ produced < MaxOutput
    /\ produced' = produced + 1
    /\ heard' = listening
    /\ reader' = "session"
    /\ UNCHANGED <<ring, carry, gone, bufferVars, badgeVars, attachVars,
                   queue, clientVars>>

\* The chunk stays inside an unfinished escape sequence: it goes to the carry,
\* and a carry that is full goes to the ring first, as it is.
Carried ==
    /\ carry' = Append(IF Len(carry) >= MaxCarry THEN <<>> ELSE carry, produced)
    /\ ring' = IF Len(carry) >= MaxCarry THEN Pushed(ring, carry) ELSE ring

\* The chunk ends on a clean boundary, and completes what was carried.
Recorded ==
    /\ ring' = Pushed(ring, Append(carry, produced))
    /\ carry' = <<>>

SessionHears ==
    /\ reader = "session"
    /\ IF gone THEN UNCHANGED <<ring, carry>> ELSE Carried \/ Recorded
    /\ reader' = IF heard THEN "client" ELSE "idle"
    /\ UNCHANGED <<produced, heard, gone, bufferVars, badgeVars, attachVars,
                   queue, clientVars>>

SessionGone ==
    /\ ~gone /\ gone' = TRUE
    /\ UNCHANGED <<produced, reader, heard, ring, carry, bufferVars, badgeVars,
                   attachVars, queue, clientVars>>
-----------------------------------------------------------------------------
(* onPtyData and the coalescing timer.                                      *)

\* Timer.Stop does not recall a callback that has started.
StopTimer ==
    /\ timerSet' = FALSE
    /\ \/ timers' = timers /\ (timerSet => timers < MaxTimers)
       \/ timerSet /\ timers' = timers - 1

ArmTimer ==
    IF timerSet THEN UNCHANGED <<timerSet, timers>>
    ELSE timerSet' = TRUE /\ timers' = timers + 1

\* Slip: a throttled client's output is not kept.
HoldBackNothing == UNCHANGED <<cbuf, co, timerSet, timers>>

HoldBack ==
    /\ cbuf' = Pushed(cbuf, <<produced>>)
    /\ UNCHANGED <<co, timerSet, timers>>

\* The heartbeat of a paused session: due at once, then every activitySigInterval.
Heartbeat ==
    \/ /\ queue' = Append(queue, Control)
       /\ unreported' = 0 /\ signalled' = TRUE
    \/ /\ signalled
       /\ unreported' = unreported + 1
       /\ UNCHANGED <<queue, signalled>>

\* Slip: the timer is not armed for the bytes that wait.
CoalesceUntimed ==
    /\ cbuf' = cbuf
    /\ \E quiet \in BOOLEAN :
         IF (~timerSet /\ co = <<>> /\ quiet) \/ Len(co) + 1 >= FlushLen
         THEN /\ queue' = Append(queue, Data(Append(co, produced)))
              /\ co' = <<>> /\ StopTimer
         ELSE /\ co' = Append(co, produced)
              /\ UNCHANGED <<queue, timerSet, timers>>

\* quiet: the last frame went out at least one coalesce window ago.
Coalesce ==
    /\ cbuf' = cbuf
    /\ \E quiet \in BOOLEAN :
         IF (~timerSet /\ co = <<>> /\ quiet) \/ Len(co) + 1 >= FlushLen
         THEN /\ queue' = Append(queue, Data(Append(co, produced)))
              /\ co' = <<>> /\ StopTimer
         ELSE /\ co' = Append(co, produced)
              /\ ArmTimer /\ UNCHANGED queue

OnPtyData ==
    /\ throttled' = (throttled \/ Buffered(queue) > HWM)
    /\ IF paused \/ throttled'
       THEN /\ HoldBack
            /\ IF paused THEN Heartbeat ELSE UNCHANGED <<badgeVars, queue>>
       ELSE Coalesce /\ UNCHANGED badgeVars
    /\ UNCHANGED paused

ClientHears ==
    /\ reader = "client" /\ mu = "free"
    /\ reader' = "idle"
    /\ IF attached /\ heard THEN OnPtyData
                            ELSE UNCHANGED <<bufferVars, badgeVars, queue>>
    /\ UNCHANGED <<produced, heard, ring, carry, gone, attachVars, clientVars>>

\* flushCoalesceLocked, called by the timer.
FlushCoalesce ==
    /\ co' = <<>> /\ timerSet' = FALSE
    /\ IF co = <<>> THEN UNCHANGED <<queue, cbuf>>
       ELSE IF paused \/ throttled
            THEN cbuf' = Pushed(cbuf, co) /\ UNCHANGED queue
            ELSE queue' = Append(queue, Data(co)) /\ UNCHANGED cbuf

TimerFires ==
    /\ timers > 0 /\ mu = "free"
    /\ timers' = timers - 1
    /\ IF attached THEN FlushCoalesce ELSE UNCHANGED <<co, timerSet, queue, cbuf>>
    /\ UNCHANGED <<readerVars, paused, throttled, badgeVars, attachVars,
                   clientVars>>
-----------------------------------------------------------------------------
(* Attach: the state is made and the listener registered, then the size and *)
(* the snapshot are sent, then the modes, all under cc.mu.                  *)

AttachSubscribe ==
    /\ mu = "free" /\ ~resuming /\ ~attached /\ ~gone
    /\ attaches < MaxAttaches /\ attaches' = attaches + 1
    /\ mu' = "attach" /\ attached' = TRUE /\ listening' = TRUE
    /\ \E keep \in BOOLEAN : (keep => kept) /\ resume' = keep
    /\ paused' = FALSE /\ throttled' = FALSE
    /\ cbuf' = <<>> /\ co' = <<>> /\ timerSet' = FALSE
    /\ unreported' = 0 /\ signalled' = FALSE
    /\ UNCHANGED <<readerVars, timers, resuming, replay, queue, clientVars>>

AttachReplay ==
    /\ mu = "attach"
    /\ IF resume THEN mu' = "modes" /\ queue' = Append(queue, Control) /\ UNCHANGED replay
       ELSE /\ mu' = "replay" /\ queue' = Append(Append(queue, Control), Reset)
            /\ \E title \in {<<>>, <<Title>>} : replay' = [todo |-> ring, batch |-> title]
    /\ UNCHANGED <<readerVars, bufferVars, badgeVars, clientOf, clientVars>>

\* The loop of replayBuffer leaves with the batch it has, and what it had not
\* looked at is not replayed.
BatchHeld(batch) ==
    /\ throttled' = TRUE /\ cbuf' = Pushed(cbuf, batch)
    /\ mu' = "modes" /\ replay' = NoReplay
    /\ UNCHANGED queue

BatchFills(batch) ==
    /\ Len(batch) <= BatchLen
    /\ replay' = [todo |-> Tail(replay.todo), batch |-> batch]
    /\ UNCHANGED <<queue, throttled, cbuf, mu>>

BatchSent(batch) ==
    /\ Len(batch) > BatchLen
    /\ replay' = [todo |-> Tail(replay.todo), batch |-> <<>>]
    /\ queue' = Append(queue, Data(batch))
    /\ UNCHANGED <<throttled, cbuf, mu>>

\* Slip: the frames are sent without a look at the write queue.
ReplayChunkUnthrottled ==
    /\ mu = "replay" /\ replay.todo # <<>>
    /\ LET batch == replay.batch \o Head(replay.todo)
       IN  BatchFills(batch) \/ BatchSent(batch)
    /\ UNCHANGED <<readerVars, paused, co, timerSet, timers, badgeVars, clientOf,
                   clientVars>>

\* One round of the loop of replayBuffer.
ReplayChunk ==
    /\ mu = "replay" /\ replay.todo # <<>>
    /\ LET batch == replay.batch \o Head(replay.todo)
       IN  \/ BatchFills(batch)
           \/ Buffered(queue) <= HWM /\ BatchSent(batch)
           \/ Buffered(queue) > HWM /\ Len(batch) > BatchLen /\ BatchHeld(batch)
    /\ UNCHANGED <<readerVars, paused, co, timerSet, timers, badgeVars, clientOf,
                   clientVars>>

\* The last frame, which is not full.
ReplayEnds ==
    /\ mu = "replay" /\ replay.todo = <<>>
    /\ IF replay.batch # <<>> /\ Buffered(queue) > HWM THEN BatchHeld(replay.batch)
       ELSE /\ mu' = "modes" /\ replay' = NoReplay
            /\ queue' = IF replay.batch = <<>> THEN queue
                        ELSE Append(queue, Data(replay.batch))
            /\ UNCHANGED <<throttled, cbuf>>
    /\ UNCHANGED <<readerVars, paused, co, timerSet, timers, badgeVars, clientOf,
                   clientVars>>

\* The DEC modes that are on, the alternate screen of a fresh attach, and the
\* unlock of handleAttach.
AttachEnds ==
    /\ mu = "modes" /\ mu' = "free"
    /\ \/ queue' = queue
       \/ queue' = Append(queue, Control)
       \/ ~resume /\ queue' = Append(Append(queue, Control), Control)
    /\ UNCHANGED <<readerVars, bufferVars, badgeVars, clientOf, replay, clientVars>>

\* What handleDetach and cleanup do to the attachment.
Release ==
    /\ attached' = FALSE /\ listening' = FALSE
    /\ co' = <<>> /\ cbuf' = <<>> /\ paused' = FALSE /\ throttled' = FALSE
    /\ unreported' = 0 /\ signalled' = FALSE

Detach ==
    /\ attached /\ mu = "free" /\ ~resuming
    /\ Release /\ StopTimer
    /\ kept' = FALSE
    /\ UNCHANGED <<readerVars, mu, replay, resume, resuming, attaches, queue, screen>>

\* The connection is lost, or closed for exceeding WSCWM.  The terminal stays,
\* and another ClientConn takes over; callbacks of the old one do nothing.
Drop ==
    /\ attached /\ mu = "free" /\ ~resuming
    /\ Release /\ timerSet' = FALSE /\ timers' = 0
    /\ heard' = FALSE /\ queue' = <<>> /\ kept' = TRUE
    /\ UNCHANGED <<produced, reader, ring, carry, gone, mu, replay, resume, resuming,
                   attaches, screen>>
-----------------------------------------------------------------------------
(* Pause, resume and backpressure.                                          *)

Pause ==
    /\ attached /\ ~paused /\ mu = "free" /\ ~resuming
    /\ paused' = TRUE
    /\ UNCHANGED <<readerVars, throttled, cbuf, co, timerSet, timers, badgeVars,
                   attachVars, queue, clientVars>>

\* resume clears the flag in one critical section and flushes in another.
Resume ==
    /\ attached /\ paused /\ mu = "free" /\ ~resuming
    /\ paused' = FALSE /\ unreported' = 0 /\ signalled' = FALSE
    /\ resuming' = TRUE
    /\ UNCHANGED <<readerVars, throttled, cbuf, co, timerSet, timers, listening,
                   mu, replay, attached, resume, attaches, queue, clientVars>>

\* The lock is free again, and a destroyed session is not flushed.
ResumeFlush ==
    /\ resuming /\ mu = "free"
    /\ resuming' = FALSE
    /\ mu' = IF gone THEN "free" ELSE "flush"
    /\ UNCHANGED <<readerVars, bufferVars, badgeVars, listening, attached, resume,
                   attaches, replay, queue, clientVars>>

\* backpressureCheck, every 100 ms.
BackpressureTick ==
    /\ mu = "free" /\ Buffered(queue) < LWM
    /\ attached /\ throttled /\ ~paused /\ ~gone
    /\ mu' = "flush"
    /\ UNCHANGED <<readerVars, bufferVars, badgeVars, clientOf, replay, queue,
                   clientVars>>

\* Slip: the throttle is lifted although the ring is not empty.
FlushChunkHasty ==
    /\ mu = "flush" /\ cbuf # <<>>
    /\ IF Buffered(queue) > HWM
       THEN throttled' = FALSE /\ mu' = "free" /\ UNCHANGED <<queue, cbuf>>
       ELSE /\ queue' = Append(queue, Data(Head(cbuf))) /\ cbuf' = Tail(cbuf)
            /\ UNCHANGED <<throttled, mu>>
    /\ UNCHANGED <<readerVars, paused, co, timerSet, timers, badgeVars, clientOf,
                   replay, clientVars>>

\* flushClientBufferLocked: send until the ring is empty or WSHWM is passed.
FlushChunk ==
    /\ mu = "flush" /\ cbuf # <<>>
    /\ IF Buffered(queue) > HWM
       THEN throttled' = TRUE /\ mu' = "free" /\ UNCHANGED <<queue, cbuf>>
       ELSE /\ queue' = Append(queue, Data(Head(cbuf))) /\ cbuf' = Tail(cbuf)
            /\ UNCHANGED <<throttled, mu>>
    /\ UNCHANGED <<readerVars, paused, co, timerSet, timers, badgeVars, clientOf,
                   replay, clientVars>>

FlushEnds ==
    /\ mu = "flush" /\ cbuf = <<>>
    /\ throttled' = (throttled /\ Buffered(queue) >= LWM)
    /\ mu' = "free"
    /\ UNCHANGED <<readerVars, paused, cbuf, co, timerSet, timers, badgeVars,
                   clientOf, replay, queue, clientVars>>

\* The socket takes a frame and the browser's terminal applies it.
SocketDelivers ==
    /\ queue # <<>>
    /\ queue' = Tail(queue)
    /\ screen' = IF Head(queue) = Reset THEN <<>> ELSE screen \o Head(queue).bytes
    /\ UNCHANGED <<readerVars, bufferVars, badgeVars, attachVars, kept>>
-----------------------------------------------------------------------------
Next ==
    \/ ReadChunk \/ SessionHears \/ SessionGone \/ ClientHears \/ TimerFires
    \/ AttachSubscribe \/ AttachReplay \/ ReplayChunk \/ ReplayEnds \/ AttachEnds
    \/ Detach \/ Drop \/ Pause \/ Resume \/ ResumeFlush
    \/ BackpressureTick \/ FlushChunk \/ FlushEnds \/ SocketDelivers

Spec == Init /\ [][Next]_vars

\* Goroutines are scheduled, timers fire, the ticker ticks, the peer reads.
Fairness ==
    /\ WF_vars(SessionHears) /\ WF_vars(ClientHears) /\ WF_vars(TimerFires)
    /\ WF_vars(AttachReplay) /\ WF_vars(ReplayChunk) /\ WF_vars(ReplayEnds) /\ WF_vars(AttachEnds)
    /\ WF_vars(ResumeFlush) /\ WF_vars(FlushChunk) /\ WF_vars(FlushEnds)
    /\ WF_vars(BackpressureTick) /\ WF_vars(SocketDelivers)

FairSpec == Spec /\ Fairness
-----------------------------------------------------------------------------
(* Properties                                                               *)

\* The frames no later reset wipes, by position, and whether one wipes the screen.
Standing == {i \in DOMAIN queue : \A j \in i..Len(queue) : queue[j] # Reset}
Wiped == \E i \in DOMAIN queue : queue[i] = Reset

\* What the client has or will have, as chunks and as a set of output.
Stream ==
    <<IF Wiped THEN <<>> ELSE screen>>
    \o [i \in DOMAIN queue |-> IF i \in Standing THEN queue[i].bytes ELSE <<>>]
    \o <<replay.batch>> \o replay.todo \o cbuf \o <<co>>

Occurrences(b, chunks) ==
    Cardinality({p \in Positions(chunks) : chunks[p[1]][p[2]] = b})

Contents(chunks) == UNION {Range(chunks[i]) : i \in DOMAIN chunks}
Waiting  == Contents(cbuf) \cup Range(co)
Replayed == Contents(replay.todo) \cup Range(replay.batch)
Sent == (IF Wiped THEN {} ELSE Range(screen))
        \cup UNION {Range(queue[i].bytes) : i \in Standing}
InStream == (Sent \cup Replayed \cup Waiting) \ {Title}
Pending == UNION {Range(queue[i].bytes) : i \in DOMAIN queue} \cup Replayed \cup Waiting

Accepted == reader = "client" /\ reader' = "idle" /\ attached /\ heard

\* A chunk is pushed to the ring of unsent output, and does not fit beside the others.
Overflows ==
    LET chunk == cbuf'[Len(cbuf')]
    IN  cbuf' # <<>> /\ cbuf' = Pushed(cbuf, chunk) /\ ~Fits(Append(cbuf, chunk))

\* The replay meets a full queue, and stops.
CutShort == mu = "replay" /\ mu' = "modes" /\ Buffered(queue) > HWM

\* A byte handed to an attached client, or in the snapshot of its replay, is sent
\* or waits in one of its buffers, through pauses, throttling and timers.  Only
\* two things are given up: what waits in the ring of unsent output, by a push
\* that exceeds one of its limits ("a transient gap of evicted head bytes"), and
\* the part of a replay that was not looked at when the queue was found full
\* (relay.go:66, where the comment says "buffer the rest").
KeptUntilShown ==
    [][mu # "attach" /\ attached /\ attached' =>
          /\ \A b \in InStream \ InStream' :
                \/ b \in Contents(cbuf) /\ Overflows
                \/ b \in Contents(replay.todo) /\ CutShort
          /\ Accepted => produced \in InStream']_<<reader, screen, queue, replay, cbuf, co>>

\* The race between the reader and an attach, which wshandler.go:597-600 takes for
\* impossible, repeats at most one chunk, once: the one that was being dispatched
\* when the snapshot was taken.
AtMostOneRepeat ==
    LET Repeated == {b \in Output : Occurrences(b, Stream) > 1}
    IN  \A a, b \in Repeated : a = b /\ Occurrences(a, Stream) = 2

\* What a client is given: every byte, and but for that chunk once.
NeitherLostNorRepeated == KeptUntilShown /\ [](AtMostOneRepeat)

\* Whatever waits has someone to send it: the coalescing buffer a running
\* timer, the ring of unsent output a pause, the throttle's tick, or the second
\* half of a resume.  (Output held back from a client is abandoned when its
\* session is destroyed: no flush runs for a destroyed session.)
NothingStranded ==
    /\ co # <<>> => timers > 0
    /\ cbuf # <<>> => paused \/ throttled \/ resuming \/ mu = "flush" \/ gone

\* The largest frame a replay or a coalescing buffer makes.
LargestFrame == IF FlushLen > BatchLen + MaxCarry + 1 THEN FlushLen
                ELSE BatchLen + MaxCarry + 1

\* A stalled socket is never handed more output than WSHWM, the frame that was
\* under way and the coalesced remainder, however often the client attaches.  (The
\* other frames of an attach, a size, a reset and modes, are sent without a look at
\* the queue: only the close at WSCWM bounds those.)
QueueBounded == DataBuffered(queue) <= HWM + LargestFrame + (FlushLen - 1)

\* A hidden tab is sent no terminal bytes: not by a late timer, not by the
\* backpressure tick.
PausedIsQuiet ==
    [][paused /\ paused' => DataBuffered(queue') <= DataBuffered(queue)]_vars

\* No output piles up in the queue of a client, one that attaches again and again
\* or one that is hidden.
NothingPilesUp == [](TypeOK /\ QueueBounded) /\ PausedIsQuiet

\* With a live session and a peer that reads, nothing waits for ever unless the
\* client asked for silence: the output ends, and then all of it is delivered.
DeliveredInTheEnd == Pending # {} ~> (Pending = {} \/ paused \/ gone)

\* "The worst that happens on a saturated link is a transient gap": what the
\* terminal shows is in the order the shell wrote it.
ShownInOrder ==
    \A i, j \in DOMAIN screen : i < j /\ screen[j] # Title => screen[i] <= screen[j]
=============================================================================

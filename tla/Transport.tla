------------------------------ MODULE Transport ------------------------------
(***************************************************************************)
(* One WebSocket connection (internal/websocket/websocket.go): the send    *)
(* queue, the goroutine that writes it, the goroutine that reads, and the  *)
(* teardown that either of them, or a Close from anywhere, may start.      *)
(*                                                                         *)
(* A frame is its opcode; payload lengths are fixed per opcode.            *)
(***************************************************************************)
EXTENDS Integers, Sequences, FiniteSets

CONSTANTS MaxPongs,  \* maxPendingPongs
          MaxQueue   \* bound: frames a sender lets pile up in the queue

ASSUME TransportAssumption == MaxPongs \in Nat /\ MaxQueue \in Nat

VARIABLES queue,        \* Conn.queue
          batch,        \* frames the write loop took and has not written
          shutdown,     \* `closing` as the write loop saw it with the batch
          closing, closeQueued, closeSent, closed,
          closeOnce,    \* closeOnce has been used
          buffered,     \* Conn.buffered
          pongs,        \* Conn.pongsQueued
          sender,       \* a goroutine in send, with its check of `closed` behind it
          pc,           \* the read loop and the write loop
          tcp,          \* the socket; with it Conn.done
          reported,     \* number of times OnClose ran
          peer          \* what the other end does

queueVars == <<queue, batch, shutdown, buffered, pongs>>
closeVars == <<closing, closeQueued, closeSent, closed, closeOnce, tcp>>
vars == <<queueVars, closeVars, sender, pc, reported, peer>>

Loops == {"reader", "writer"}

Opcodes == {"data", "ping", "pong", "close"}
PayloadLen == [op \in Opcodes |-> CASE op = "data"  -> 3 [] op = "ping" -> 0
                                    [] op = "pong"  -> 1 [] op = "close" -> 2]

Positions(op, frames) == {i \in DOMAIN frames : frames[i] = op}
Count(op, frames) == Cardinality(Positions(op, frames))
\* The payload of the frames other than the close frame.
Payload(frames) == PayloadLen["data"] * Count("data", frames)
                     + PayloadLen["ping"] * Count("ping", frames)
                     + PayloadLen["pong"] * Count("pong", frames)
InFlight == batch \o queue

ReaderState == {"read", "ponged", "handle", "wait", "report", "done"}
WriterState == {"idle", "write", "handle", "wait", "done"}

TypeOK ==
    /\ queue \in Seq(Opcodes) /\ batch \in Seq(Opcodes)
    /\ {shutdown, closing, closeQueued, closeSent, closed, closeOnce} \subseteq BOOLEAN
    /\ buffered \in Int /\ pongs \in -1..MaxPongs
    /\ sender \in {"idle", "checked"}
    /\ pc \in [Loops -> ReaderState \cup WriterState]
    /\ pc["reader"] \in ReaderState /\ pc["writer"] \in WriterState
    /\ tcp \in {"open", "closed"}
    /\ reported \in 0..1
    /\ peer \in {"healthy", "stalled", "silent"}

Init ==
    /\ queue = <<>> /\ batch = <<>> /\ shutdown = FALSE
    /\ closing = FALSE /\ closeQueued = FALSE /\ closeSent = FALSE
    /\ closed = FALSE /\ closeOnce = FALSE
    /\ buffered = 0 /\ pongs = 0
    /\ sender = "idle"
    /\ pc = [l \in Loops |-> IF l = "reader" THEN "read" ELSE "idle"]
    /\ tcp = "open" /\ reported = 0
    /\ peer \in {"healthy", "stalled", "silent"}

Goes(loop, to) == pc' = [pc EXCEPT ![loop] = to]
-----------------------------------------------------------------------------
(* send: the check of `closed`, then the append under queueMu.              *)

Enqueue(op) ==
    /\ ~closing
    /\ queue' = Append(queue, op)
    /\ buffered' = buffered + PayloadLen[op]

SendCheck ==
    /\ sender = "idle" /\ ~closed /\ Len(queue) < MaxQueue
    /\ sender' = "checked"
    /\ UNCHANGED <<queueVars, closeVars, pc, reported, peer>>

SendEnqueue ==
    /\ sender = "checked" /\ sender' = "idle"
    /\ \/ \E op \in {"data", "ping"} : Enqueue(op)
       \/ closing /\ UNCHANGED <<queue, buffered>>
    /\ UNCHANGED <<batch, shutdown, pongs, closeVars, pc, reported, peer>>

\* The body of closeOnce in Close.
QueueClose ==
    /\ closeOnce' = TRUE
    /\ IF closeOnce THEN UNCHANGED <<closing, closeQueued, queue>>
       ELSE /\ closing' = TRUE /\ closeQueued' = TRUE
            /\ queue' = Append(queue, "close")

\* A limit, a failed handshake or the backpressure check closes the connection.
Close ==
    /\ ~closeOnce /\ QueueClose
    /\ UNCHANGED <<batch, shutdown, buffered, pongs, closeSent, closed, tcp,
                   sender, pc, reported, peer>>
-----------------------------------------------------------------------------
(* terminate, by the loop that calls it.                                    *)

AfterTerminate(loop) == IF loop = "reader" THEN "report" ELSE "done"

CloseTcp(loop) ==
    /\ closing' = TRUE /\ tcp' = "closed"
    /\ Goes(loop, AfterTerminate(loop))

\* handleClose uses closeOnce up first; then the test-and-set of `closed`.
Terminate(loop) ==
    /\ pc[loop] = "handle"
    /\ closeOnce' = (closeOnce \/ loop = "reader")
    /\ \/ /\ closed /\ Goes(loop, AfterTerminate(loop))
          /\ UNCHANGED <<closing, closed, tcp>>
       \/ /\ ~closed /\ closed' = TRUE
          /\ IF closeQueued THEN Goes(loop, "wait") /\ UNCHANGED <<closing, tcp>>
                            ELSE CloseTcp(loop)
    /\ UNCHANGED <<queueVars, closeQueued, closeSent, sender, reported, peer>>

\* Slip: terminate waits for the close frame without a limit.
WaitUnbounded(loop) ==
    /\ pc[loop] = "wait" /\ closeSent /\ CloseTcp(loop)
    /\ UNCHANGED <<queueVars, closeQueued, closeSent, closed, closeOnce, sender,
                   reported, peer>>

\* closeSent was signalled, or closeSendWait ran out.
WaitEnds(loop) ==
    /\ pc[loop] = "wait" /\ CloseTcp(loop)
    /\ UNCHANGED <<queueVars, closeQueued, closeSent, closed, closeOnce, sender,
                   reported, peer>>
-----------------------------------------------------------------------------
(* The write loop.                                                          *)

TakeBatch ==
    /\ pc["writer"] = "idle"
    /\ queue # <<>> \/ closing
    /\ batch' = queue /\ queue' = <<>> /\ shutdown' = closing
    /\ Goes("writer", "write")
    /\ UNCHANGED <<buffered, pongs, closeVars, sender, reported, peer>>

WriteFrame ==
    /\ pc["writer"] = "write" /\ batch # <<>>
    /\ tcp = "open" /\ peer = "healthy"
    /\ batch' = Tail(batch)
    /\ pongs' = (IF Head(batch) = "pong" THEN pongs - 1 ELSE pongs)
    /\ closeSent' = (closeSent \/ Head(batch) = "close")
    /\ buffered' = buffered - PayloadLen[Head(batch)]
    /\ UNCHANGED <<queue, shutdown, closing, closeQueued, closed, closeOnce, tcp,
                   sender, pc, reported, peer>>

\* The socket was closed under the loop, or the peer reset it.
WriteFails ==
    /\ pc["writer"] = "write" /\ batch # <<>>
    /\ closeSent' = TRUE
    /\ Goes("writer", "handle")
    /\ UNCHANGED <<queueVars, closing, closeQueued, closed, closeOnce, tcp, sender,
                   reported, peer>>

BatchWritten ==
    /\ pc["writer"] = "write" /\ batch = <<>>
    /\ Goes("writer", IF shutdown THEN "handle" ELSE "idle")
    /\ UNCHANGED <<queueVars, closeVars, sender, reported, peer>>
-----------------------------------------------------------------------------
(* The read loop.  Messages change nothing here.                            *)

\* Slip: every ping is answered.
ReadPingUngated ==
    /\ pc["reader"] = "read" /\ tcp = "open" /\ peer # "silent"
    /\ ~closed /\ Len(queue) < MaxQueue /\ Enqueue("pong")
    /\ Goes("reader", "ponged")
    /\ UNCHANGED <<batch, shutdown, pongs, closeVars, sender, reported, peer>>

\* A ping is answered unless enough pongs wait already.
ReadPing ==
    /\ pc["reader"] = "read" /\ tcp = "open" /\ peer # "silent"
    /\ pongs < MaxPongs /\ ~closed /\ Enqueue("pong")
    /\ Goes("reader", "ponged")
    /\ UNCHANGED <<batch, shutdown, pongs, closeVars, sender, reported, peer>>

\* The pong is counted once it is already in the queue.
CountPong ==
    /\ pc["reader"] = "ponged" /\ Goes("reader", "read")
    /\ pongs' = pongs + 1
    /\ UNCHANGED <<queue, batch, shutdown, buffered, closeVars, sender, reported,
                   peer>>

ReadClose ==
    /\ pc["reader"] = "read" /\ tcp = "open" /\ peer # "silent"
    /\ QueueClose
    /\ Goes("reader", "handle")
    /\ UNCHANGED <<batch, shutdown, buffered, pongs, closeSent, closed, tcp,
                   sender, reported, peer>>

\* A protocol error, a reset, or a socket closed by the other loop.
ReadFails ==
    /\ pc["reader"] = "read" /\ Goes("reader", "handle")
    /\ UNCHANGED <<queueVars, closeVars, sender, reported, peer>>

\* handleClose runs OnClose whether or not it won the termination.
ReportClose ==
    /\ pc["reader"] = "report" /\ Goes("reader", "done")
    /\ reported' = reported + 1
    /\ UNCHANGED <<queueVars, closeVars, sender, peer>>

\* A silent peer is dead: it does not come back on the same connection.
PeerChanges ==
    /\ peer # "silent"
    /\ peer' \in {"healthy", "stalled", "silent"} \ {peer}
    /\ UNCHANGED <<queueVars, closeVars, sender, pc, reported>>
-----------------------------------------------------------------------------
Reader == \/ ReadPing \/ CountPong \/ ReadClose \/ ReadFails \/ ReportClose
          \/ Terminate("reader") \/ WaitEnds("reader")

Writer == \/ TakeBatch \/ WriteFrame \/ WriteFails \/ BatchWritten
          \/ Terminate("writer") \/ WaitEnds("writer")

Next == SendCheck \/ SendEnqueue \/ Close \/ Reader \/ Writer \/ PeerChanges

Spec == Init /\ [][Next]_vars

(***************************************************************************)
(* Both loops are scheduled and the timers fire.  A write goes through if  *)
(* the peer keeps coming back to taking bytes, and fails once the socket   *)
(* is closed; a read fails once the socket is closed, or by its deadline   *)
(* when the peer is silent.  A stalled peer that keeps sending trips no    *)
(* deadline at all: writes have none.                                      *)
(***************************************************************************)
Fairness ==
    /\ WF_vars(SendEnqueue)
    /\ WF_vars(CountPong) /\ WF_vars(ReportClose)
    /\ WF_vars((tcp = "closed" \/ peer = "silent") /\ ReadFails)
    /\ WF_vars(TakeBatch) /\ SF_vars(WriteFrame) /\ WF_vars(BatchWritten)
    /\ WF_vars(tcp = "closed" /\ WriteFails)
    /\ \A loop \in Loops : WF_vars(Terminate(loop)) /\ WF_vars(WaitEnds(loop))

FairSpec == Spec /\ Fairness
-----------------------------------------------------------------------------
(* Properties                                                               *)

\* RFC 6455: no frame follows the close frame, whoever sends while Close runs.
NothingFollowsClose ==
    \A i \in DOMAIN InFlight : InFlight[i] = "close" => i = Len(InFlight)

\* A ping flood gets at most MaxPongs pongs in flight, although the counter is
\* raised only after the pong is queued and lowered by the other loop.
PongsBounded == Count("pong", InFlight) <= MaxPongs

\* Until the close frame is written, the amount the backpressure thresholds
\* look at is the payload that has been queued and not written.
BufferedExact == ~closeSent => buffered = Payload(InFlight)

\* The write queue is in order, bounded and counted, with every sender, both
\* loops, Close and teardown at work on it.
QueueSound == TypeOK /\ NothingFollowsClose /\ PongsBounded /\ BufferedExact

\* A terminated connection is reported to the handler, and its write loop and
\* socket are released, whichever loop terminated it.
TerminationCompletes ==
    closed ~> (reported = 1 /\ tcp = "closed" /\ pc["writer"] = "done")

\* A connection that is closing ends, unless the peer stops taking bytes and
\* keeps sending.
ClosingEnds == closing ~> (tcp = "closed" \/ peer = "stalled")

\* Both: no connection is left half closed.
EveryConnectionEnds == TerminationCompletes /\ ClosingEnds
=============================================================================

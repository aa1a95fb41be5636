-------------------------- MODULE Transport_proofs --------------------------
(***************************************************************************)
(* The write queue is sound (Transport!QueueSound) whatever the limits are *)
(* and however long a connection lives.  What the queue and the batch hold *)
(* together is one sequence, InFlight: a sender appends to it, the write   *)
(* loop takes its head, and every other step leaves it alone.              *)
(***************************************************************************)
EXTENDS Transport, FiniteSetTheorems, SequenceTheorems, TLAPS

\* What makes QueueSound inductive: the count of pongs is behind by the pong that was
\* just queued; a close frame is only there once closeOnce was used and senders
\* are turned away; the write loop takes a batch when it has written the last;
\* and the close is reported by the read loop's last step.
PongsBehind ==
    Count("pong", InFlight) = pongs + (IF pc["reader"] = "ponged" THEN 1 ELSE 0)
CloseIsLast == "close" \in {InFlight[i] : i \in DOMAIN InFlight} => closeOnce /\ closing
BatchDone   == pc["writer"] = "idle" => batch = <<>>
OnceAtEnd   == pc["reader"] # "done" => reported = 0

QueueInv ==
    /\ TypeOK /\ NothingFollowsClose /\ PongsBounded /\ BufferedExact
    /\ PongsBehind /\ CloseIsLast /\ BatchDone /\ OnceAtEnd

\* An opcode is found at finitely many places.
LEMMA PositionsFinite ==
    ASSUME NEW f \in Seq(Opcodes), NEW op
    PROVE  IsFiniteSet(Positions(op, f)) /\ Count(op, f) \in Nat
<1>1. DOMAIN f = 1..Len(f) /\ Len(f) \in Nat
  OBVIOUS
<1>2. IsFiniteSet(1..Len(f))
  BY <1>1, FS_Interval
<1>3. Positions(op, f) \in SUBSET (1..Len(f))
  BY <1>1 DEF Positions
<1>4. IsFiniteSet(Positions(op, f))
  BY <1>2, <1>3, FS_Subset
<1> QED BY <1>4, FS_CardinalityType DEF Count

\* A frame that is appended is counted once (queueFrame).
LEMMA AppendCounts ==
    ASSUME NEW f \in Seq(Opcodes), NEW x \in Opcodes, NEW op
    PROVE  Count(op, Append(f, x)) = Count(op, f) + (IF x = op THEN 1 ELSE 0)
<1>1. /\ DOMAIN f = 1..Len(f) /\ Len(f) \in Nat
      /\ DOMAIN Append(f, x) = 1..(Len(f) + 1)
      /\ Append(f, x)[Len(f) + 1] = x
      /\ \A i \in 1..Len(f) : Append(f, x)[i] = f[i]
  OBVIOUS
<1>2. IsFiniteSet(Positions(op, f)) /\ Count(op, f) \in Nat
  BY PositionsFinite
<1>3. Len(f) + 1 \notin Positions(op, f)
  BY <1>1 DEF Positions
<1>4. CASE x = op
  <2>1. Positions(op, Append(f, x)) = Positions(op, f) \cup {Len(f) + 1}
    BY <1>1, <1>4 DEF Positions
  <2> QED BY <2>1, <1>2, <1>3, <1>4, FS_AddElement DEF Count
<1>5. CASE x # op
  <2>1. Positions(op, Append(f, x)) = Positions(op, f)
    BY <1>1, <1>5 DEF Positions
  <2> QED BY <2>1, <1>2, <1>5 DEF Count
<1> QED BY <1>4, <1>5

\* The head of what is in flight is not counted once it is written (writeLoop).
LEMMA TailCounts ==
    ASSUME NEW f \in Seq(Opcodes), f # <<>>, NEW op
    PROVE  Count(op, Tail(f)) = Count(op, f) - (IF Head(f) = op THEN 1 ELSE 0)
<1> DEFINE Rest  == Positions(op, f) \ {1}
           shift == [i \in Positions(op, Tail(f)) |-> i + 1]
<1>1. /\ DOMAIN f = 1..Len(f) /\ Len(f) \in Nat \ {0}
      /\ DOMAIN Tail(f) = 1..(Len(f) - 1) /\ Tail(f) \in Seq(Opcodes)
      /\ Head(f) = f[1]
      /\ \A i \in 1..(Len(f) - 1) : Tail(f)[i] = f[i + 1]
  OBVIOUS
<1>2. IsFiniteSet(Positions(op, f)) /\ Count(op, f) \in Nat
  BY PositionsFinite
<1>3. IsFiniteSet(Positions(op, Tail(f))) /\ Count(op, Tail(f)) \in Nat
  BY <1>1, PositionsFinite
<1>4. \A i \in Positions(op, Tail(f)) : i \in Nat /\ i + 1 \in Rest
  BY <1>1 DEF Positions
<1>5. \A j \in Rest : j \in Nat /\ j - 1 \in Positions(op, Tail(f))
  BY <1>1 DEF Positions
<1>6. shift \in [Positions(op, Tail(f)) -> Rest]
  BY <1>4
<1>7. \A i, j \in Positions(op, Tail(f)) : shift[i] = shift[j] => i = j
  BY <1>4
<1>8. \A j \in Rest : \E i \in Positions(op, Tail(f)) : shift[i] = j
  <2> TAKE j \in Rest
  <2>1. j \in Nat /\ j - 1 \in Positions(op, Tail(f)) /\ shift[j - 1] = j
    BY <1>5
  <2> QED BY <2>1
<1>9. shift \in Bijection(Positions(op, Tail(f)), Rest)
  <2> HIDE DEF Rest, shift
  <2> QED BY <1>6, <1>7, <1>8 DEF Bijection, Injection, Surjection, IsInjective
<1>10. Cardinality(Rest) = Count(op, Tail(f))
  <2> HIDE DEF Rest, shift
  <2> QED BY <1>3, <1>9, FS_Bijection DEF ExistsBijection, Count
<1>11. Cardinality(Rest) = IF 1 \in Positions(op, f) THEN Count(op, f) - 1 ELSE Count(op, f)
  BY <1>2, FS_RemoveElement DEF Count
<1>12. 1 \in Positions(op, f) <=> Head(f) = op
  BY <1>1 DEF Positions
<1> QED BY <1>2, <1>3, <1>10, <1>11, <1>12

-----------------------------------------------------------------------------
(* What a step does to the frames in flight.                                *)

\* A sender's frame goes to the end of what is in flight.
LEMMA EnqueueAppends ==
    ASSUME NEW q \in Seq(Opcodes), NEW b \in Seq(Opcodes), NEW op \in Opcodes
    PROVE  b \o Append(q, op) = Append(b \o q, op)
<1>1. Append(q, op) = q \o <<op>> /\ Append(b \o q, op) = (b \o q) \o <<op>>
  BY ConcatProperties, AppendIsConcat
<1>2. <<op>> \in Seq(Opcodes)
  OBVIOUS
<1> QED BY <1>1, <1>2, ConcatAssociative

\* The frame the write loop writes is the first of those in flight.
LEMMA WriteTakesHead ==
    ASSUME NEW q \in Seq(Opcodes), NEW b \in Seq(Opcodes), b # <<>>
    PROVE  /\ b \o q # <<>> /\ Head(b \o q) = Head(b)
           /\ Tail(b) \in Seq(Opcodes) /\ Tail(b) \o q = Tail(b \o q)
<1>1. /\ b \o q \in Seq(Opcodes) /\ Len(b \o q) = Len(b) + Len(q)
      /\ \A i \in 1..(Len(b) + Len(q)) :
             (b \o q)[i] = IF i <= Len(b) THEN b[i] ELSE q[i - Len(b)]
  BY ConcatProperties
<1>2. Len(b) \in Nat \ {0} /\ Len(q) \in Nat /\ Head(b) = b[1]
  OBVIOUS
<1>3. b \o q # <<>> /\ Head(b \o q) = Head(b)
  BY <1>1, <1>2
<1>4. /\ Tail(b) \in Seq(Opcodes) /\ Len(Tail(b)) = Len(b) - 1
      /\ \A i \in 1..(Len(b) - 1) : Tail(b)[i] = b[i + 1]
  OBVIOUS
<1>5. /\ Tail(b) \o q \in Seq(Opcodes) /\ Len(Tail(b) \o q) = Len(b) - 1 + Len(q)
      /\ \A i \in 1..(Len(b) - 1 + Len(q)) :
             (Tail(b) \o q)[i] = IF i <= Len(b) - 1 THEN Tail(b)[i] ELSE q[i - (Len(b) - 1)]
  BY <1>4, ConcatProperties
<1>6. /\ Tail(b \o q) \in Seq(Opcodes) /\ Len(Tail(b \o q)) = Len(b) + Len(q) - 1
      /\ \A i \in 1..(Len(b) + Len(q) - 1) : Tail(b \o q)[i] = (b \o q)[i + 1]
  BY <1>1, <1>3
<1>7. \A i \in 1..(Len(b) + Len(q) - 1) : (Tail(b) \o q)[i] = Tail(b \o q)[i]
  <2> TAKE i \in 1..(Len(b) + Len(q) - 1)
  <2>1. Tail(b \o q)[i] = IF i + 1 <= Len(b) THEN b[i + 1] ELSE q[(i + 1) - Len(b)]
    BY <1>1, <1>2, <1>6
  <2>2. (Tail(b) \o q)[i] = IF i <= Len(b) - 1 THEN b[i + 1] ELSE q[i - (Len(b) - 1)]
    BY <1>2, <1>4, <1>5
  <2>3. i - (Len(b) - 1) = (i + 1) - Len(b)
    BY <1>2
  <2> QED BY <2>1, <2>2, <2>3, <1>2
<1>8. Tail(b) \o q = Tail(b \o q)
  BY <1>2, <1>5, <1>6, <1>7, SeqEqual
<1> QED BY <1>3, <1>4, <1>8

\* The counts and the payload of a longer queue.
LEMMA AppendedFrames ==
    ASSUME NEW f \in Seq(Opcodes), NEW x \in Opcodes
    PROVE  /\ Append(f, x) \in Seq(Opcodes)
           /\ Count("pong", Append(f, x)) = Count("pong", f) + (IF x = "pong" THEN 1 ELSE 0)
           /\ x # "close" => Payload(Append(f, x)) = Payload(f) + PayloadLen[x]
           /\ x = "close" => Payload(Append(f, x)) = Payload(f)
<1>1. \A op : Count(op, Append(f, x)) = Count(op, f) + (IF x = op THEN 1 ELSE 0)
  BY AppendCounts
<1>2. \A op : Count(op, f) \in Nat
  BY PositionsFinite
<1>3. Append(f, x) \in Seq(Opcodes)
  OBVIOUS
<1> HIDE DEF Opcodes
<1>4. x \in {"data", "ping", "pong", "close"}
  BY DEF Opcodes
<1>5. PayloadLen["data"] = 3 /\ PayloadLen["ping"] = 0 /\ PayloadLen["pong"] = 1
  BY DEF PayloadLen, Opcodes
<1> QED BY <1>1, <1>2, <1>3, <1>4, <1>5 DEF Payload

\* The counts and the payload once the first frame is written.
LEMMA WrittenFrames ==
    ASSUME NEW f \in Seq(Opcodes), f # <<>>
    PROVE  /\ Head(f) \in Opcodes
           /\ Count("pong", Tail(f)) = Count("pong", f) - (IF Head(f) = "pong" THEN 1 ELSE 0)
           /\ Head(f) # "close" => Payload(Tail(f)) = Payload(f) - PayloadLen[Head(f)]
<1>1. \A op : Count(op, Tail(f)) = Count(op, f) - (IF Head(f) = op THEN 1 ELSE 0)
  BY TailCounts
<1>2. \A op : Count(op, f) \in Nat
  BY PositionsFinite
<1>3. Head(f) \in Opcodes
  OBVIOUS
<1>4. Head(f) \in {"data", "ping", "pong", "close"}
  BY <1>3 DEF Opcodes
<1>5. PayloadLen["data"] = 3 /\ PayloadLen["ping"] = 0 /\ PayloadLen["pong"] = 1
  BY DEF PayloadLen, Opcodes
<1> QED BY <1>1, <1>2, <1>3, <1>4, <1>5, SMTT(30) DEF Payload

-----------------------------------------------------------------------------
(* The invariant.                                                           *)

\* What every step that leaves the frames in flight alone preserves.
FramesSame == InFlight' = InFlight

\* A step that queues a frame: a sender's while nobody closes, or the close
\* frame, once.  Either way no close frame is there yet.
LEMMA FrameQueued ==
    ASSUME QueueInv, NEW op \in Opcodes, queue' = Append(queue, op), batch' = batch,
           ~closing \/ ~closeOnce
    PROVE  /\ queue' \in Seq(Opcodes) /\ NothingFollowsClose'
           /\ Count("pong", InFlight') = Count("pong", InFlight)
                                            + (IF op = "pong" THEN 1 ELSE 0)
           /\ op # "close" => Payload(InFlight') = Payload(InFlight) + PayloadLen[op]
           /\ op = "close" => Payload(InFlight') = Payload(InFlight)
           /\ "close" \in {InFlight'[i] : i \in DOMAIN InFlight'} => op = "close"
<1> DEFINE f == InFlight
<1>1. queue \in Seq(Opcodes) /\ batch \in Seq(Opcodes) /\ f \in Seq(Opcodes)
  BY ConcatProperties DEF QueueInv, TypeOK, InFlight
<1>2. InFlight' = Append(f, op)
  BY <1>1, EnqueueAppends DEF InFlight
<1>3. \A i \in DOMAIN f : f[i] # "close"
  BY DEF QueueInv, CloseIsLast
<1> HIDE DEF f
<1>4. /\ DOMAIN f = 1..Len(f) /\ Len(f) \in Nat
      /\ DOMAIN Append(f, op) = 1..(Len(f) + 1) /\ Len(Append(f, op)) = Len(f) + 1
      /\ Append(f, op)[Len(f) + 1] = op
      /\ \A i \in 1..Len(f) : Append(f, op)[i] = f[i]
  BY <1>1
<1>5. \A i \in 1..(Len(f) + 1) : Append(f, op)[i] = "close" => i = Len(f) + 1 /\ op = "close"
  BY <1>3, <1>4
<1>6. NothingFollowsClose'
  BY <1>2, <1>4, <1>5 DEF NothingFollowsClose
<1>7. "close" \in {InFlight'[i] : i \in DOMAIN InFlight'} => op = "close"
  BY <1>2, <1>4, <1>5
<1>8. queue' \in Seq(Opcodes)
  BY <1>1
<1> QED BY <1>1, <1>2, <1>6, <1>7, <1>8, AppendedFrames DEF f

\* A step that writes the first frame in flight.
LEMMA FrameWritten ==
    ASSUME QueueInv, batch # <<>>, batch' = Tail(batch), queue' = queue
    PROVE  /\ batch' \in Seq(Opcodes) /\ NothingFollowsClose' /\ Head(batch) \in Opcodes
           /\ Count("pong", InFlight') = Count("pong", InFlight)
                                            - (IF Head(batch) = "pong" THEN 1 ELSE 0)
           /\ Head(batch) # "close" =>
                 Payload(InFlight') = Payload(InFlight) - PayloadLen[Head(batch)]
           /\ "close" \in {InFlight'[i] : i \in DOMAIN InFlight'} =>
                 "close" \in {InFlight[i] : i \in DOMAIN InFlight}
<1> DEFINE f == InFlight
<1>1. queue \in Seq(Opcodes) /\ batch \in Seq(Opcodes) /\ f \in Seq(Opcodes)
  BY ConcatProperties DEF QueueInv, TypeOK, InFlight
<1>2. /\ f # <<>> /\ Head(f) = Head(batch) /\ InFlight' = Tail(f)
      /\ batch' \in Seq(Opcodes)
  BY <1>1, WriteTakesHead DEF InFlight
<1>3. \A i \in DOMAIN f : f[i] = "close" => i = Len(f)
  BY DEF QueueInv, NothingFollowsClose
<1> HIDE DEF f
<1>4. /\ DOMAIN f = 1..Len(f) /\ Len(f) \in Nat \ {0}
      /\ DOMAIN Tail(f) = 1..(Len(f) - 1) /\ Len(Tail(f)) = Len(f) - 1
      /\ \A i \in 1..(Len(f) - 1) : Tail(f)[i] = f[i + 1]
  BY <1>1, <1>2
<1>5. NothingFollowsClose'
  BY <1>2, <1>3, <1>4 DEF NothingFollowsClose
<1>6. "close" \in {InFlight'[i] : i \in DOMAIN InFlight'} => "close" \in {f[i] : i \in DOMAIN f}
  BY <1>2, <1>4
<1> QED BY <1>1, <1>2, <1>5, <1>6, WrittenFrames DEF f

\* QueueInv is inductive: it holds at first and every step keeps it.
LEMMA QueueInvInit == Init => QueueInv
<1> SUFFICES ASSUME Init PROVE QueueInv
  OBVIOUS
<1> USE TransportAssumption
<1>1. InFlight = <<>> /\ DOMAIN InFlight = {}
  BY DEF Init, InFlight
<1>2. \A op : Count(op, InFlight) = 0
  BY <1>1, FS_EmptySet DEF Count, Positions
<1>3. Payload(InFlight) = 0
  <2>1. PayloadLen["data"] = 3 /\ PayloadLen["ping"] = 0 /\ PayloadLen["pong"] = 1
    BY DEF PayloadLen, Opcodes
  <2> QED BY <1>2, <2>1 DEF Payload
<1>4. TypeOK
  <2>1. queue \in Seq(Opcodes) /\ batch \in Seq(Opcodes)
    BY DEF Init
  <2>2. pc \in [Loops -> ReaderState \cup WriterState] /\ pc["reader"] = "read"
        /\ pc["writer"] = "idle"
    BY DEF Init, Loops, ReaderState, WriterState
  <2>3. {shutdown, closing, closeQueued, closeSent, closed, closeOnce} \subseteq BOOLEAN
    BY DEF Init
  <2> QED BY <2>1, <2>2, <2>3 DEF Init, TypeOK, ReaderState, WriterState
<1>5. NothingFollowsClose /\ CloseIsLast
  BY <1>1 DEF NothingFollowsClose, CloseIsLast
<1> QED BY <1>2, <1>3, <1>4, <1>5
        DEF Init, QueueInv, PongsBounded, BufferedExact, PongsBehind, BatchDone, OnceAtEnd,
            Loops

LEMMA QueueInvStep == QueueInv /\ [Next]_vars => QueueInv'
<1> SUFFICES ASSUME QueueInv, [Next]_vars PROVE QueueInv'
  OBVIOUS
<1> USE TransportAssumption
<1>1. /\ TypeOK /\ Count("pong", InFlight) \in Nat
      /\ \A op : Count(op, InFlight) \in Nat
  <2>1. InFlight \in Seq(Opcodes)
    BY ConcatProperties DEF QueueInv, TypeOK, InFlight
  <2> QED BY <2>1, PositionsFinite DEF QueueInv
<1>p. Payload(InFlight) \in Int /\ \A op \in Opcodes : PayloadLen[op] \in Int
  BY <1>1 DEF Payload, PayloadLen, Opcodes
<1>2. ASSUME FramesSame, TypeOK', pongs' = pongs, buffered' = buffered,
             pc'["reader"] = "ponged" <=> pc["reader"] = "ponged",
             closeSent => closeSent', closeOnce => closeOnce', closing => closing',
             BatchDone', OnceAtEnd'
      PROVE  QueueInv'
  BY <1>2 DEF FramesSame, QueueInv, NothingFollowsClose, PongsBounded, BufferedExact,
              PongsBehind, CloseIsLast
<1>q. ASSUME ~closeOnce, QueueClose, UNCHANGED <<batch, shutdown, buffered, pongs, closeSent>>,
             pc' = pc \/ (Goes("reader", "handle") /\ pc["reader"] = "read"),
             UNCHANGED <<closed, tcp, sender, reported, peer>>
      PROVE  QueueInv'
  <2>1. /\ queue' = Append(queue, "close") /\ closeOnce' /\ closing' /\ closeQueued'
        /\ closeOnce' = TRUE /\ closing' = TRUE /\ closeQueued' = TRUE
        /\ "close" \in Opcodes
    BY <1>q DEF QueueClose, Opcodes
  <2>2. /\ queue' \in Seq(Opcodes) /\ NothingFollowsClose'
        /\ Count("pong", InFlight') = Count("pong", InFlight)
        /\ Payload(InFlight') = Payload(InFlight)
    BY <1>q, <1>1, <2>1, FrameQueued
  <2>3. TypeOK' /\ BatchDone' /\ OnceAtEnd' /\ (pc'["reader"] = "ponged" <=> pc["reader"] = "ponged")
    BY <1>q, <2>1, <2>2 DEF QueueInv, TypeOK, BatchDone, OnceAtEnd, Goes, Loops, ReaderState,
       WriterState
  <2> QED BY <1>q, <1>1, <2>1, <2>2, <2>3
          DEF QueueInv, PongsBounded, BufferedExact, PongsBehind, CloseIsLast
<1>3. CASE SendCheck
  BY <1>1, <1>2, <1>3 DEF SendCheck, QueueInv, TypeOK, BatchDone, OnceAtEnd, FramesSame,
     InFlight, closeVars, queueVars
<1>4. CASE SendEnqueue
  <2>1. CASE closing /\ UNCHANGED <<queue, buffered>>
    BY <1>1, <1>2, <1>4, <2>1 DEF SendEnqueue, QueueInv, TypeOK, BatchDone, OnceAtEnd,
       FramesSame, InFlight, closeVars
  <2>2. CASE \E op \in {"data", "ping"} : Enqueue(op)
    <3> PICK op \in {"data", "ping"} : Enqueue(op)
      BY <2>2
    <3>1. /\ op \in Opcodes /\ queue' = Append(queue, op) /\ batch' = batch /\ ~closing
          /\ buffered' = buffered + PayloadLen[op]
          /\ UNCHANGED <<shutdown, pongs, closeVars, pc, reported, peer>>
          /\ sender' = "idle"
      BY <1>4 DEF SendEnqueue, Enqueue, Opcodes
    <3>2. PayloadLen[op] \in Int
      BY <1>p, <3>1
    <3> QED BY <1>1, <1>p, <3>1, <3>2, FrameQueued, SMTT(30)
            DEF QueueInv, TypeOK, PongsBounded, BufferedExact, PongsBehind, CloseIsLast,
                BatchDone, OnceAtEnd, closeVars
  <2> QED BY <1>4, <2>1, <2>2 DEF SendEnqueue
<1>5. CASE Close
  BY <1>5, <1>q DEF Close
<1>6. CASE ReadPing
  <2>1. /\ "pong" \in Opcodes /\ queue' = Append(queue, "pong") /\ batch' = batch /\ ~closing
        /\ buffered' = buffered + PayloadLen["pong"]
        /\ pc["reader"] = "read" /\ pc' = [pc EXCEPT !["reader"] = "ponged"]
        /\ pongs < MaxPongs
        /\ UNCHANGED <<shutdown, pongs, closeVars, sender, reported, peer>>
    BY <1>6 DEF ReadPing, Enqueue, Opcodes, Goes
  <2>2. PayloadLen["pong"] \in Int
    BY <1>p, <2>1
  <2>3. pc'["reader"] = "ponged" /\ pc'["writer"] = pc["writer"]
    BY <1>1, <2>1 DEF TypeOK, Loops
  <2>4. TypeOK'
    BY <1>1, <2>1, <2>2, <2>3, FrameQueued DEF TypeOK, closeVars, Loops, ReaderState, WriterState
  <2> QED BY <1>1, <1>p, <2>1, <2>2, <2>3, <2>4, FrameQueued, SMTT(30)
          DEF QueueInv, TypeOK, PongsBounded, BufferedExact, PongsBehind, CloseIsLast,
              BatchDone, OnceAtEnd, closeVars
<1>7. CASE CountPong
  <2>1. /\ pc["reader"] = "ponged" /\ pc'["reader"] = "read" /\ pc'["writer"] = pc["writer"]
        /\ pongs' = pongs + 1 /\ InFlight' = InFlight
    BY <1>1, <1>7 DEF CountPong, Goes, TypeOK, Loops, InFlight
  <2>2. TypeOK'
    BY <1>1, <1>7, <2>1 DEF CountPong, QueueInv, TypeOK, closeVars, Goes, Loops, ReaderState,
       WriterState, PongsBehind, PongsBounded
  <2> QED BY <1>1, <1>7, <2>1, <2>2
          DEF CountPong, QueueInv, NothingFollowsClose, PongsBounded, BufferedExact,
              PongsBehind, CloseIsLast, BatchDone, OnceAtEnd, closeVars
<1>8. CASE ReadClose
  <2>1. CASE ~closeOnce
    BY <1>8, <1>q, <2>1 DEF ReadClose
  <2>2. CASE closeOnce
    <3>1. /\ UNCHANGED <<queueVars, closing, closeQueued, closeSent, closed, tcp, sender,
                         reported, peer>>
          /\ closeOnce' = TRUE /\ pc' = [pc EXCEPT !["reader"] = "handle"]
          /\ pc["reader"] = "read"
      BY <1>8, <2>2 DEF ReadClose, QueueClose, Goes, queueVars
    <3>2. /\ TypeOK' /\ BatchDone' /\ OnceAtEnd'
          /\ pc'["reader"] # "ponged" /\ pc["reader"] # "ponged"
      BY <1>1, <3>1 DEF QueueInv, TypeOK, BatchDone, OnceAtEnd, Loops, ReaderState,
         WriterState, queueVars
    <3> QED BY <1>2, <3>1, <3>2 DEF FramesSame, InFlight, queueVars
  <2> QED BY <2>1, <2>2
<1>9. CASE ReadFails
  <2>1. /\ TypeOK' /\ BatchDone' /\ OnceAtEnd'
        /\ pc'["reader"] # "ponged" /\ pc["reader"] # "ponged"
    BY <1>1, <1>9 DEF ReadFails, QueueInv, TypeOK, BatchDone, OnceAtEnd, Loops, ReaderState,
       WriterState, queueVars, closeVars, Goes
  <2> QED BY <1>2, <1>9, <2>1 DEF ReadFails, FramesSame, InFlight, queueVars, closeVars
<1>10. CASE ReportClose
  <2>1. /\ TypeOK' /\ BatchDone' /\ OnceAtEnd'
        /\ pc'["reader"] # "ponged" /\ pc["reader"] # "ponged"
    BY <1>1, <1>10 DEF ReportClose, QueueInv, TypeOK, BatchDone, OnceAtEnd, Loops, ReaderState,
       WriterState, queueVars, closeVars, Goes
  <2> QED BY <1>2, <1>10, <2>1 DEF ReportClose, FramesSame, InFlight, queueVars, closeVars
<1>t. ASSUME NEW loop \in Loops, Terminate(loop) \/ WaitEnds(loop)
      PROVE  QueueInv'
  <2>1. loop = "reader" \/ loop = "writer"
    BY DEF Loops
  <2>2. /\ pc' = [pc EXCEPT ![loop] = AfterTerminate(loop)]
            \/ pc' = [pc EXCEPT ![loop] = "wait"]
        /\ pc[loop] \in {"handle", "wait"}
        /\ closing => closing'
        /\ closeOnce => closeOnce'
    BY <1>1, <1>t DEF Terminate, WaitEnds, CloseTcp, Goes, TypeOK
  <2>3. /\ UNCHANGED <<queueVars, closeQueued, closeSent, sender, reported, peer>>
        /\ closing' \in BOOLEAN /\ closed' \in BOOLEAN /\ closeOnce' \in BOOLEAN
        /\ tcp' \in {"open", "closed"}
    BY <1>1, <1>t DEF Terminate, WaitEnds, CloseTcp, TypeOK
  <2>4. /\ TypeOK' /\ BatchDone' /\ OnceAtEnd'
        /\ pc'["reader"] = "ponged" <=> pc["reader"] = "ponged"
    BY <1>1, <2>1, <2>2, <2>3 DEF AfterTerminate, QueueInv, TypeOK, BatchDone, OnceAtEnd, Loops,
       ReaderState, WriterState, queueVars
  <2> QED BY <1>2, <2>2, <2>3, <2>4 DEF FramesSame, InFlight, queueVars
<1>11. CASE TakeBatch
  <2>1. /\ batch = <<>> /\ queue \in Seq(Opcodes) /\ batch' = queue /\ queue' = <<>>
    BY <1>1, <1>11 DEF TakeBatch, QueueInv, BatchDone, TypeOK
  <2>2. FramesSame
    BY <2>1, ConcatEmptySeq DEF FramesSame, InFlight
  <2>3. /\ TypeOK' /\ BatchDone' /\ OnceAtEnd'
        /\ pc'["reader"] = "ponged" <=> pc["reader"] = "ponged"
    BY <1>1, <1>11, <2>1 DEF TakeBatch, QueueInv, TypeOK, BatchDone, OnceAtEnd, Loops,
       ReaderState, WriterState, closeVars, Goes
  <2> QED BY <1>2, <1>11, <2>2, <2>3 DEF TakeBatch, closeVars
<1>12. CASE WriteFrame
  <2>1. /\ batch # <<>> /\ batch' = Tail(batch) /\ queue' = queue
        /\ pc["writer"] = "write"
        /\ pongs' = (IF Head(batch) = "pong" THEN pongs - 1 ELSE pongs)
        /\ closeSent' = (closeSent \/ Head(batch) = "close")
        /\ buffered' = buffered - PayloadLen[Head(batch)]
        /\ UNCHANGED <<shutdown, closing, closeQueued, closed, closeOnce, tcp, sender, pc,
                       reported, peer>>
    BY <1>12 DEF WriteFrame
  <2>2. /\ batch' \in Seq(Opcodes) /\ NothingFollowsClose' /\ Head(batch) \in Opcodes
        /\ Count("pong", InFlight') = Count("pong", InFlight)
                                         - (IF Head(batch) = "pong" THEN 1 ELSE 0)
        /\ Head(batch) # "close" =>
              Payload(InFlight') = Payload(InFlight) - PayloadLen[Head(batch)]
        /\ "close" \in {InFlight'[i] : i \in DOMAIN InFlight'} =>
              "close" \in {InFlight[i] : i \in DOMAIN InFlight}
    BY <2>1, FrameWritten
  <2>3. PayloadLen[Head(batch)] \in Int
    BY <1>p, <2>2
  <2>4. Count("pong", InFlight') \in Nat
    <3>1. InFlight' \in Seq(Opcodes)
      BY <1>1, <2>1, <2>2, ConcatProperties DEF TypeOK, InFlight
    <3> QED BY <3>1, PositionsFinite
  <2>5. TypeOK' /\ PongsBounded' /\ PongsBehind'
    <3>1. PongsBounded' /\ PongsBehind'
      BY <1>1, <2>1, <2>2, <2>4 DEF QueueInv, TypeOK, PongsBounded, PongsBehind
    <3>2. pongs' \in -1..MaxPongs
      <4>1. pongs \in -1..MaxPongs /\ MaxPongs \in Nat
        BY <1>1, TransportAssumption DEF TypeOK
      <4>2. -1 <= pongs'
        BY <2>1, <2>4, <3>1, <4>1 DEF PongsBehind
      <4> QED BY <2>1, <4>1, <4>2
    <3>3. buffered' \in Int
      BY <1>1, <2>1, <2>3 DEF TypeOK
    <3> QED BY <1>1, <2>1, <2>2, <3>1, <3>2, <3>3 DEF TypeOK
  <2>6. BufferedExact'
    BY <1>1, <1>p, <2>1, <2>2, <2>3 DEF QueueInv, TypeOK, BufferedExact
  <2>7. CloseIsLast' /\ BatchDone' /\ OnceAtEnd'
    BY <2>1, <2>2 DEF QueueInv, CloseIsLast, BatchDone, OnceAtEnd
  <2> QED BY <2>2, <2>5, <2>6, <2>7 DEF QueueInv
<1>13. CASE WriteFails \/ BatchWritten
  <2>1. /\ UNCHANGED <<queueVars, closing, closeQueued, closed, closeOnce, tcp, sender,
                       reported, peer>>
        /\ closeSent' \in BOOLEAN
        /\ closeSent => closeSent'
        /\ pc["writer"] = "write"
        /\ \/ pc' = [pc EXCEPT !["writer"] = "handle"]
           \/ pc' = [pc EXCEPT !["writer"] = "idle"] /\ batch = <<>>
    <3>1. CASE WriteFails
      BY <3>1 DEF WriteFails, Goes
    <3>2. CASE BatchWritten
      <4>1. closeSent \in BOOLEAN
        BY <1>1 DEF TypeOK
      <4>2. \/ pc' = [pc EXCEPT !["writer"] = "handle"]
            \/ pc' = [pc EXCEPT !["writer"] = "idle"] /\ batch = <<>>
        BY <3>2 DEF BatchWritten, Goes
      <4>3. pc["writer"] = "write" /\ UNCHANGED <<queueVars, closeVars, sender, reported, peer>>
        BY <3>2 DEF BatchWritten
      <4> QED BY <4>1, <4>2, <4>3 DEF closeVars
    <3> QED BY <1>13, <3>1, <3>2
  <2>2. /\ TypeOK' /\ BatchDone' /\ OnceAtEnd'
        /\ pc'["reader"] = "ponged" <=> pc["reader"] = "ponged"
    <3>1. /\ pc' \in [Loops -> ReaderState \cup WriterState] /\ pc'["reader"] = pc["reader"]
          /\ pc'["writer"] \in {"handle", "idle"} /\ (pc'["writer"] = "idle" => batch = <<>>)
      BY <1>1, <2>1 DEF TypeOK, Loops, ReaderState, WriterState
    <3> QED BY <1>1, <2>1, <3>1 DEF QueueInv, TypeOK, BatchDone, OnceAtEnd, WriterState, queueVars
  <2> QED BY <1>2, <2>1, <2>2 DEF FramesSame, InFlight, queueVars
<1>14. CASE PeerChanges
  <2>1. TypeOK' /\ BatchDone' /\ OnceAtEnd'
    BY <1>1, <1>14 DEF PeerChanges, QueueInv, TypeOK, BatchDone, OnceAtEnd, queueVars, closeVars
  <2> QED BY <1>2, <1>14, <2>1 DEF PeerChanges, FramesSame, InFlight, queueVars, closeVars
<1>15. CASE UNCHANGED vars
  <2>1. TypeOK' /\ BatchDone' /\ OnceAtEnd'
    BY <1>1, <1>15 DEF vars, QueueInv, TypeOK, BatchDone, OnceAtEnd, queueVars, closeVars
  <2> QED BY <1>2, <1>15, <2>1 DEF vars, FramesSame, InFlight, queueVars, closeVars
<1>16. "reader" \in Loops /\ "writer" \in Loops
  BY DEF Loops
<1> QED
  BY <1>3, <1>4, <1>5, <1>6, <1>7, <1>8, <1>9, <1>10, <1>t, <1>11, <1>12, <1>13, <1>14, <1>15,
     <1>16 DEF Next, Reader, Writer

\* Transport!QueueSound: nothing is queued behind a close frame, a flood of
\* pings gets a bounded number of pongs, and the count of buffered bytes the
\* backpressure checks read is exact, for every limit (websocket.go).
THEOREM QueueIsSound == Spec => []QueueSound
<1>1. QueueInv => QueueSound
  BY DEF QueueInv, QueueSound
<1> QED BY <1>1, QueueInvInit, QueueInvStep, PTL DEF Spec
=============================================================================

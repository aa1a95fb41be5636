---------------------------- MODULE Relay_proofs ----------------------------
(***************************************************************************)
(* The output path keeps its bounds and loses nothing, whatever the limits *)
(* of the relay are, however much a shell writes and however often a       *)
(* client attaches, and repeats nothing but one chunk.  RelayInv is        *)
(* inductive: its parts are the types, who wakes what waits (Waiters) and  *)
(* how long a chunk may be (Sizes).  OnceInv, above it, counts how often a *)
(* byte stands in what the client has or will have.                        *)
(***************************************************************************)
EXTENDS Relay, SequenceTheorems, FiniteSetTheorems, WellFoundedInduction, TLAPS

\* What keeps the properties true.  A waiting byte
\* has its timer, a detached client has nothing, and nothing is held back when a
\* replay begins.
Waiters ==
    /\ reader # "idle" => produced \in Output
    /\ co # <<>> => timerSet
    /\ IF timerSet THEN timers > 0 ELSE timers < MaxTimers
    /\ ~attached => /\ co = <<>> /\ cbuf = <<>> /\ ~timerSet
                    /\ ~resuming /\ mu = "free"
    /\ mu \in {"attach", "replay", "modes"} => co = <<>> /\ ~timerSet /\ ~paused
    /\ mu \in {"attach", "replay"} => cbuf = <<>>
    /\ mu = "flush" \/ resuming => ~paused
    /\ cbuf # <<>> => paused \/ throttled \/ resuming \/ mu = "flush" \/ gone

\* Every chunk is at most as long as what the frame it becomes may be, and the
\* coalesced remainder has its place in the bound of the queue.
Sizes ==
    /\ Len(carry) <= MaxCarry
    /\ \A i \in DOMAIN ring : Len(ring[i]) <= MaxCarry + 1
    /\ \A i \in DOMAIN replay.todo : Len(replay.todo[i]) <= MaxCarry + 1
    /\ Len(replay.batch) <= BatchLen
    /\ \A i \in DOMAIN cbuf : Len(cbuf[i]) <= LargestFrame
    /\ Len(co) < FlushLen
    /\ DataBuffered(queue) + Len(co) <= HWM + LargestFrame + (FlushLen - 1)

RelayInv == TypeOK /\ Waiters /\ Sizes

(***************************************************************************)
(* Natural numbers, finite sets and queues of chunks.                      *)
(***************************************************************************)

\* A set of natural numbers that is not empty has a least element.
LEMMA LeastNat ==
    ASSUME NEW S \in SUBSET Nat, S # {}
    PROVE  \E m \in S : \A k \in S : m <= k
<1> DEFINE R == {p \in Nat \X Nat : p[1] < p[2]}
<1>1. IsWellFoundedOn(R, Nat)
  <2>1. R = OpToRel(<, Nat)
    BY DEF OpToRel
  <2> QED BY <2>1, NatLessThanWellFounded
<1> HIDE DEF R
<1>2. PICK m \in S : \A y \in S : ~ (<<y, m>> \in R)
  BY <1>1, WFMin
<1>3. \A y \in S : m <= y
  <2> TAKE y \in S
  <2>1. y \in Nat /\ m \in Nat /\ ~(y < m)
    BY <1>2 DEF R
  <2> QED BY <2>1
<1> QED BY <1>3

\* The positions of the bytes of one chunk.
LEMMA RowFinite ==
    ASSUME NEW S, NEW c \in Seq(S), NEW i
    PROVE  IsFiniteSet({i} \X DOMAIN c) /\ Cardinality({i} \X DOMAIN c) = Len(c)
<1>1. DOMAIN c = 1..Len(c) /\ Len(c) \in Nat
  OBVIOUS
<1>2. IsFiniteSet(DOMAIN c) /\ Cardinality(DOMAIN c) = Len(c)
  BY <1>1, FS_Interval, SMTT(30)
<1>3. IsFiniteSet({i}) /\ Cardinality({i}) = 1
  BY FS_Singleton
<1>4. /\ IsFiniteSet({i} \X DOMAIN c)
      /\ Cardinality({i} \X DOMAIN c) = Cardinality({i}) * Cardinality(DOMAIN c)
  BY <1>2, <1>3, FS_Product
<1> QED BY <1>1, <1>2, <1>3, <1>4

\* A queue of chunks has a finite number of bytes: if not, there is a shortest
\* prefix that has infinitely many, and without its last chunk it has not.
LEMMA PositionsFinite ==
    ASSUME NEW S, NEW q \in Seq(Seq(S))
    PROVE  IsFiniteSet(Positions(q)) /\ ByteCount(q) \in Nat
<1> DEFINE P(n) == UNION {{i} \X DOMAIN q[i] : i \in 1..n}
           Bad == {n \in 0..Len(q) : ~IsFiniteSet(P(n))}
<1>1. Bad = {}
  <2> SUFFICES ASSUME Bad # {} PROVE FALSE
    OBVIOUS
  <2>1. Bad \in SUBSET Nat
    OBVIOUS
  <2>2. PICK m \in Bad : \A k \in Bad : m <= k
    BY <2>1, LeastNat
  <2>3. CASE m = 0
    <3>1. P(0) = {}
      OBVIOUS
    <3> QED BY <2>3, <3>1, FS_EmptySet
  <2>4. CASE m # 0
    <3>1. m - 1 \in 0..Len(q) /\ m \in 1..Len(q) /\ ~(m <= m - 1)
      BY <2>4
    <3>2. IsFiniteSet(P(m - 1))
      BY <2>2, <3>1
    <3>3. IsFiniteSet({m} \X DOMAIN q[m])
      <4>1. q[m] \in Seq(S)
        BY <3>1
      <4> QED BY <4>1, RowFinite
    <3>4. 1..m = (1..(m - 1)) \cup {m}
      BY <3>1
    <3>5. P(m) = P(m - 1) \cup ({m} \X DOMAIN q[m])
      BY <3>4
    <3>6. IsFiniteSet(P(m))
      <4> DEFINE Row == {m} \X DOMAIN q[m]
      <4>1. IsFiniteSet(Row) /\ P(m) = P(m - 1) \cup Row
        BY <3>3, <3>5
      <4> HIDE DEF P, Row
      <4>2. IsFiniteSet(P(m - 1) \cup Row)
        BY <3>2, <4>1, FS_Union
      <4> QED BY <4>1, <4>2
    <3> QED BY <3>6
  <2> QED BY <2>3, <2>4
<1>2. Len(q) \in 0..Len(q) /\ DOMAIN q = 1..Len(q)
  OBVIOUS
<1>3. IsFiniteSet(P(Len(q)))
  BY <1>1, <1>2
<1>4. Positions(q) = P(Len(q))
  BY <1>2 DEF Positions
<1> QED BY <1>3, <1>4, FS_CardinalityType DEF ByteCount

\* An empty queue has none.
LEMMA NoBytes == ByteCount(<<>>) = 0
<1>1. Positions(<<>>) = {}
  BY DEF Positions
<1> QED BY <1>1, FS_EmptySet DEF ByteCount

\* A chunk more has its length in bytes more.
LEMMA BytesAppended ==
    ASSUME NEW S, NEW q \in Seq(Seq(S)), NEW c \in Seq(S)
    PROVE  ByteCount(Append(q, c)) = ByteCount(q) + Len(c)
<1> DEFINE n == Len(q) + 1
           Row == {n} \X DOMAIN c
<1>1. /\ DOMAIN Append(q, c) = DOMAIN q \cup {n} /\ n \notin DOMAIN q
      /\ \A i \in DOMAIN q : Append(q, c)[i] = q[i]
      /\ Append(q, c)[n] = c
  OBVIOUS
<1>2. Positions(Append(q, c)) = Positions(q) \cup Row
  BY <1>1 DEF Positions
<1>3. Positions(q) \cap Row = {}
  BY <1>1 DEF Positions
<1>4. IsFiniteSet(Positions(q)) /\ Cardinality(Positions(q)) \in Nat
  BY PositionsFinite, FS_CardinalityType
<1>5. IsFiniteSet(Row) /\ Cardinality(Row) = Len(c) /\ Len(c) \in Nat
  <2> HIDE DEF n
  <2>1. Len(c) \in Nat
    OBVIOUS
  <2> QED BY <2>1, RowFinite
<1> HIDE DEF Row
<1>6. Cardinality(Positions(q) \cap Row) = 0
  BY <1>3, FS_EmptySet
<1>7. Cardinality(Positions(q) \cup Row)
        = Cardinality(Positions(q)) + Cardinality(Row) - Cardinality(Positions(q) \cap Row)
  BY <1>4, <1>5, FS_Union
<1>8. Cardinality(Positions(Append(q, c))) = Cardinality(Positions(q)) + Len(c)
  BY <1>2, <1>4, <1>5, <1>6, <1>7
<1> QED BY <1>8 DEF ByteCount

\* A queue loses bytes with its oldest chunk, and gains none.
LEMMA BytesOfTail ==
    ASSUME NEW S, NEW q \in Seq(Seq(S)), q # <<>>
    PROVE  ByteCount(Tail(q)) <= ByteCount(q)
<1> DEFINE A == Positions(Tail(q))
           B == Positions(q)
           f == [p \in A |-> <<p[1] + 1, p[2]>>]
<1>1. /\ DOMAIN Tail(q) \subseteq Nat
      /\ \A i \in DOMAIN Tail(q) : i + 1 \in DOMAIN q /\ Tail(q)[i] = q[i + 1]
  OBVIOUS
<1>2. ASSUME NEW p \in A
      PROVE  /\ p[1] \in Nat /\ p = <<p[1], p[2]>>
             /\ <<p[1] + 1, p[2]>> \in B
  <2>1. PICK i \in DOMAIN Tail(q) : p \in {i} \X DOMAIN (Tail(q)[i])
    BY DEF Positions
  <2>2. p = <<i, p[2]>> /\ p[1] = i /\ p[2] \in DOMAIN (q[i + 1])
    BY <1>1, <2>1
  <2>3. <<i + 1, p[2]>> \in {i + 1} \X DOMAIN q[i + 1]
    BY <2>2
  <2>4. <<i + 1, p[2]>> \in B
    BY <1>1, <2>3 DEF Positions
  <2> QED BY <1>1, <2>2, <2>4
<1>3. f \in Injection(A, B)
  <2>1. f \in [A -> B]
    BY <1>2
  <2>2. ASSUME NEW p \in A, NEW r \in A, f[p] = f[r] PROVE p = r
    <3>1. <<p[1] + 1, p[2]>> = <<r[1] + 1, r[2]>>
      BY <2>2
    <3>2. p[1] \in Nat /\ r[1] \in Nat
      BY <1>2
    <3>3. p[1] = r[1] /\ p[2] = r[2]
      BY <3>1, <3>2
    <3> QED BY <1>2, <3>3
  <2> QED BY <2>1, <2>2 DEF Injection, IsInjective
<1>4. IsFiniteSet(B)
  BY PositionsFinite
<1> HIDE DEF A, B, f
<1>5. Cardinality(A) <= Cardinality(B)
  BY <1>3, <1>4, FS_Injection
<1> QED BY <1>5 DEF A, B, ByteCount

\* What a ring keeps of a queue: a suffix of it that is not empty, and all of it
\* if it fits.
LEMMA TrimmedToSuffix ==
    ASSUME NEW T, NEW q \in Seq(T), q # <<>>
    PROVE  \E k \in 1..Len(q) : /\ Trim(q) = SubSeq(q, k, Len(q))
                                /\ Fits(q) => k = 1
<1> DEFINE Ok(k) == k = Len(q) \/ Fits(SubSeq(q, k, Len(q)))
           Good == {k \in 1..Len(q) : Ok(k)}
           First(k) == Ok(k) /\ \A j \in 1..(k - 1) : ~Ok(j)
           first == CHOOSE k \in 1..Len(q) : First(k)
<1>1. Len(q) \in Nat \ {0}
  OBVIOUS
<1>2. Good \in SUBSET Nat /\ Good # {}
  BY <1>1
<1>3. PICK m \in Good : \A k \in Good : m <= k
  BY <1>2, LeastNat
<1>4. m \in 1..Len(q) /\ First(m)
  <2>1. m \in 1..Len(q) /\ Ok(m)
    BY <1>3
  <2>2. ASSUME NEW j \in 1..(m - 1) PROVE ~Ok(j)
    <3>1. j \in 1..Len(q) /\ ~(m <= j)
      BY <1>1, <2>1
    <3> QED BY <1>3, <3>1
  <2> QED BY <2>1, <2>2
<1>5. first \in 1..Len(q) /\ First(first)
  <2> HIDE DEF First
  <2> QED BY <1>4
<1>6. Trim(q) = SubSeq(q, first, Len(q))
  BY DEF Trim
<1>7. ASSUME Fits(q) PROVE first = 1
  <2>1. SubSeq(q, 1, Len(q)) = q
    OBVIOUS
  <2>2. Ok(1)
    BY <1>7, <2>1
  <2>3. ~(1 \in 1..(first - 1))
    BY <1>5, <2>2
  <2> HIDE DEF first
  <2> QED BY <1>1, <1>5, <2>3
<1> HIDE DEF first
<1> QED BY <1>5, <1>6, <1>7

\* What a push leaves: chunks of the queue and the new one, the new one last,
\* and all of them while the ring has room.
LEMMA PushedIsSuffix ==
    ASSUME NEW S, NEW q \in Seq(Seq(S)), NEW c \in Seq(S)
    PROVE  LET p == Pushed(q, c)
           IN  /\ p \in Seq(Seq(S)) /\ p # <<>>
               /\ \A i \in DOMAIN p : p[i] = c \/ \E j \in DOMAIN q : p[i] = q[j]
               /\ p[Len(p)] = c
               /\ Fits(Append(q, c)) => p = Append(q, c)
<1> DEFINE a == Append(q, c)
           p == Pushed(q, c)
<1>1. /\ a \in Seq(Seq(S)) /\ a # <<>> /\ Len(a) = Len(q) + 1 /\ a[Len(a)] = c
      /\ Len(q) \in Nat
      /\ \A i \in 1..Len(a) : a[i] = c \/ \E j \in DOMAIN q : a[i] = q[j]
  <2>1. /\ a \in Seq(Seq(S)) /\ Len(a) = Len(q) + 1 /\ Len(q) \in Nat
        /\ a[Len(q) + 1] = c /\ \A i \in 1..Len(q) : a[i] = q[i]
        /\ DOMAIN q = 1..Len(q)
    OBVIOUS
  <2> HIDE DEF a
  <2>2. a # <<>> /\ a[Len(a)] = c
    BY <2>1
  <2>3. ASSUME NEW i \in 1..Len(a) PROVE a[i] = c \/ \E j \in DOMAIN q : a[i] = q[j]
    <3>1. CASE i = Len(q) + 1
      BY <2>1, <3>1
    <3>2. CASE i # Len(q) + 1
      <4>1. i \in 1..Len(q)
        BY <2>1, <3>2
      <4> QED BY <2>1, <4>1
    <3> QED BY <3>1, <3>2
  <2> QED BY <2>1, <2>2, <2>3
<1>2. PICK k \in 1..Len(a) : p = SubSeq(a, k, Len(a)) /\ (Fits(a) => k = 1)
  <2> HIDE DEF a
  <2> QED BY <1>1, TrimmedToSuffix DEF a, Pushed
<1>3. /\ p \in Seq(Seq(S)) /\ Len(p) = Len(a) - k + 1
      /\ \A i \in 1..Len(p) : p[i] = a[i + k - 1] /\ i + k - 1 \in 1..Len(a)
  <2> HIDE DEF a, p
  <2> QED BY <1>1, <1>2, SMTT(30)
<1>4. Len(p) \in Nat \ {0} /\ DOMAIN p = 1..Len(p)
  <2> HIDE DEF a, p
  <2> QED BY <1>1, <1>3, SMTT(30)
<1>5. p[Len(p)] = c
  <2>1. p[Len(p)] = a[Len(p) + k - 1] /\ Len(p) + k - 1 = Len(a)
    <3> HIDE DEF a, p
    <3> QED BY <1>1, <1>3, <1>4
  <2> QED BY <1>1, <2>1
<1>6. ASSUME Fits(a)
      PROVE  p = a
  <2>1. k = 1
    BY <1>2, <1>6
  <2> HIDE DEF a, p
  <2>2. SubSeq(a, 1, Len(a)) = a
    BY <1>1
  <2> QED BY <1>2, <2>1, <2>2
<1>7. p # <<>>
  <2> HIDE DEF p
  <2> QED BY <1>4
<1>8. ASSUME NEW i \in DOMAIN p PROVE p[i] = c \/ \E j \in DOMAIN q : p[i] = q[j]
  <2>1. p[i] = a[i + k - 1] /\ i + k - 1 \in 1..Len(a)
    <3> HIDE DEF a, p
    <3> QED BY <1>3, <1>4
  <2> HIDE DEF a, p
  <2> QED BY <1>1, <2>1
<1> HIDE DEF a, p
<1> QED BY <1>3, <1>5, <1>6, <1>7, <1>8 DEF a, p

(***************************************************************************)
(* The queue of frames, and the parameters.                                *)
(***************************************************************************)

\* What is assumed of the limits, one by one, and the frames they bound.
LEMMA Parameters ==
    /\ MaxBytes \in Nat \ {0} /\ MaxCount \in Nat \ {0} /\ FlushLen \in Nat \ {0}
    /\ MaxCarry \in Nat \ {0} /\ MaxTimers \in Nat \ {0}
    /\ HWM \in Nat /\ LWM \in Nat /\ BatchLen \in Nat \ {0} /\ MaxOutput \in Nat
    /\ MaxAttaches \in Nat /\ LargestFrame \in Nat
    /\ FlushLen <= LargestFrame /\ BatchLen + MaxCarry + 1 <= LargestFrame
BY RelayAssumption DEF LargestFrame

\* Output is made of bytes, and so is a title.
LEMMA ByteTypes == Output \subseteq Bytes /\ Title \in Bytes /\ Title \notin Output
BY DEF Output, Bytes, Title

\* The frames a step makes; a reset and the frames that are not data carry no bytes.
LEMMA FrameTypes ==
    /\ \A b \in Seq(Bytes) : Data(b) \in Frames /\ Data(b).bytes = b
    /\ {Reset, Control} \subseteq Frames
    /\ Len(Reset.bytes) = 0 /\ Len(Control.bytes) = 0
BY DEF Data, Reset, Control, Frames

\* What a frame carries.
LEMMA FrameBytes ==
    ASSUME NEW f \in Frames
    PROVE  f.bytes \in Seq(Bytes) /\ Len(f.bytes) \in Nat
<1> DEFINE B == Seq(Bytes)
           K == {"data", "reset", "control"}
<1>1. f \in [kind : K, bytes : B]
  BY DEF Frames
<1> HIDE DEF B, K
<1>2. f.bytes \in B
  BY <1>1
<1> QED BY <1>2 DEF B

\* What is buffered for the socket is a finite number of bytes.
LEMMA PayloadType ==
    ASSUME NEW frames \in Seq(Frames)
    PROVE  /\ Payload(frames) \in Seq(Seq(Bytes)) /\ DataBuffered(frames) \in Nat
           /\ Len(Payload(frames)) = Len(frames)
<1>1. ASSUME NEW i \in 1..Len(frames) PROVE frames[i].bytes \in Seq(Bytes)
  <2>1. frames[i] \in Frames
    OBVIOUS
  <2> QED BY <2>1, FrameBytes
<1>2. Payload(frames) \in Seq(Seq(Bytes)) /\ Len(Payload(frames)) = Len(frames)
  BY <1>1 DEF Payload
<1> QED BY <1>2, PositionsFinite DEF DataBuffered

\* The write queue is no shorter than the output that waits in it.
LEMMA Weight ==
    ASSUME NEW frames \in Seq(Frames)
    PROVE  /\ DataBuffered(frames) \in Nat /\ Buffered(frames) \in Nat
           /\ DataBuffered(frames) <= Buffered(frames)
<1> DEFINE I == {i \in DOMAIN frames : frames[i].kind # "data"}
<1>1. I \subseteq 1..Len(frames) /\ Len(frames) \in Nat
  OBVIOUS
<1>2. IsFiniteSet(1..Len(frames))
  BY <1>1, FS_Interval, SMTT(30)
<1> HIDE DEF I
<1>3. Cardinality(I) \in Nat
  BY <1>1, <1>2, FS_Subset, FS_CardinalityType
<1>4. DataBuffered(frames) \in Nat
  BY PayloadType
<1>5. Buffered(frames) = DataBuffered(frames) + Cardinality(I)
  BY DEF Buffered, I
<1> QED BY <1>3, <1>4, <1>5

\* What is buffered grows by the bytes of the frame that is queued.
LEMMA Queued ==
    ASSUME NEW frames \in Seq(Frames), NEW f \in Frames
    PROVE  /\ Append(frames, f) \in Seq(Frames)
           /\ DataBuffered(Append(frames, f)) = DataBuffered(frames) + Len(f.bytes)
           /\ DataBuffered(frames) \in Nat /\ Len(f.bytes) \in Nat
<1>1. f.bytes \in Seq(Bytes) /\ Len(f.bytes) \in Nat
  BY FrameBytes
<1>2. Payload(Append(frames, f)) = Append(Payload(frames), f.bytes)
  BY PayloadType DEF Payload
<1>3. ByteCount(Append(Payload(frames), f.bytes)) = ByteCount(Payload(frames)) + Len(f.bytes)
  BY <1>1, PayloadType, BytesAppended
<1> QED BY <1>1, <1>2, <1>3, PayloadType DEF DataBuffered

\* And it does not grow when the socket takes one.
LEMMA Unqueued ==
    ASSUME NEW frames \in Seq(Frames), frames # <<>>
    PROVE  /\ Tail(frames) \in Seq(Frames)
           /\ DataBuffered(Tail(frames)) <= DataBuffered(frames)
           /\ DataBuffered(Tail(frames)) \in Nat /\ DataBuffered(frames) \in Nat
<1>1. Tail(frames) \in Seq(Frames)
  OBVIOUS
<1>2. Payload(Tail(frames)) = Tail(Payload(frames)) /\ Payload(frames) # <<>>
  <2>1. /\ Payload(frames) \in Seq(Seq(Bytes)) /\ Len(Payload(frames)) = Len(frames)
        /\ \A i \in 1..Len(frames) : Payload(frames)[i] = frames[i].bytes
    BY PayloadType DEF Payload
  <2>2. /\ Len(frames) \in Nat \ {0} /\ Len(Tail(frames)) = Len(frames) - 1
        /\ \A i \in 1..Len(Tail(frames)) : Tail(frames)[i] = frames[i + 1]
    OBVIOUS
  <2>3. Payload(frames) # <<>>
    BY <2>1, <2>2
  <2>4. /\ Tail(Payload(frames)) \in Seq(Seq(Bytes))
        /\ Len(Tail(Payload(frames))) = Len(frames) - 1
        /\ \A i \in 1..(Len(frames) - 1) :
              Tail(Payload(frames))[i] = Payload(frames)[i + 1]
    BY <2>1, <2>3
  <2>5. /\ Payload(Tail(frames)) \in Seq(Seq(Bytes))
        /\ Len(Payload(Tail(frames))) = Len(frames) - 1
        /\ \A i \in 1..(Len(frames) - 1) : Payload(Tail(frames))[i] = Tail(frames)[i].bytes
    <3> DEFINE t == Tail(frames)
    <3>1. /\ t \in Seq(Frames) /\ Len(t) = Len(frames) - 1
          /\ DOMAIN t = 1..(Len(frames) - 1)
      BY <1>1, <2>2
    <3> HIDE DEF t
    <3>2. Payload(t) \in Seq(Seq(Bytes)) /\ Len(Payload(t)) = Len(frames) - 1
      BY <3>1, PayloadType
    <3>3. \A i \in 1..(Len(frames) - 1) : Payload(t)[i] = t[i].bytes
      BY <3>1 DEF Payload
    <3> QED BY <3>2, <3>3 DEF t
  <2>6. \A i \in 1..(Len(frames) - 1) : Payload(Tail(frames))[i] = Tail(Payload(frames))[i]
    BY <2>1, <2>2, <2>4, <2>5
  <2> HIDE DEF Payload
  <2> QED BY <2>3, <2>4, <2>5, <2>6, SeqEqual
<1>3. ByteCount(Tail(Payload(frames))) <= ByteCount(Payload(frames))
  BY <1>2, PayloadType, BytesOfTail
<1> QED BY <1>1, <1>2, <1>3, PayloadType DEF DataBuffered

\* A ring keeps the length of its chunks within a bound, and is not empty after
\* a push.
LEMMA PushedWithin ==
    ASSUME NEW q \in Seq(Seq(Bytes)), NEW c \in Seq(Bytes), NEW n \in Nat,
           \A i \in DOMAIN q : Len(q[i]) <= n, Len(c) <= n
    PROVE  /\ Pushed(q, c) \in Seq(Seq(Bytes)) /\ Pushed(q, c) # <<>>
           /\ \A i \in DOMAIN Pushed(q, c) : Len(Pushed(q, c)[i]) <= n
<1> HIDE DEF Pushed
<1>1. /\ Pushed(q, c) \in Seq(Seq(Bytes)) /\ Pushed(q, c) # <<>>
      /\ \A i \in DOMAIN Pushed(q, c) :
            Pushed(q, c)[i] = c \/ \E j \in DOMAIN q : Pushed(q, c)[i] = q[j]
  BY PushedIsSuffix
<1> QED BY <1>1

\* The fields of a replay.
LEMMA ReplayTypes ==
    ASSUME NEW t \in Seq(Seq(Bytes)), NEW b \in Seq(Bytes)
    PROVE  /\ [todo |-> t, batch |-> b] \in [todo : Seq(Seq(Bytes)), batch : Seq(Bytes)]
           /\ NoReplay \in [todo : Seq(Seq(Bytes)), batch : Seq(Bytes)]
           /\ NoReplay.todo = <<>> /\ NoReplay.batch = <<>>
           /\ [todo |-> t, batch |-> b].todo = t
           /\ [todo |-> t, batch |-> b].batch = b
<1> DEFINE T == Seq(Seq(Bytes))
           B == Seq(Bytes)
<1>1. t \in T /\ b \in B /\ <<>> \in T /\ <<>> \in B
  OBVIOUS
<1> HIDE DEF T, B
<1>2. /\ [todo |-> t, batch |-> b] \in [todo : T, batch : B]
      /\ NoReplay \in [todo : T, batch : B]
  BY <1>1 DEF NoReplay
<1>3. NoReplay.todo = <<>> /\ NoReplay.batch = <<>>
  BY DEF NoReplay
<1> QED BY <1>2, <1>3 DEF T, B

\* A timer that is stopped leaves room for the next one, whether or not its
\* callback still runs.
LEMMA TimerStops ==
    ASSUME TypeOK, Waiters, StopTimer
    PROVE  timerSet' = FALSE /\ timers' \in 0..MaxTimers /\ timers' < MaxTimers
<1>1. timers \in Nat /\ timers <= MaxTimers /\ MaxTimers \in Nat \ {0} /\ timerSet \in BOOLEAN
  BY Parameters DEF TypeOK, FlagTypes
<1>2. CASE timerSet
  <2>1. timers > 0 /\ (timers' = timers - 1 \/ (timers < MaxTimers /\ timers' = timers))
    BY <1>2 DEF Waiters, StopTimer
  <2> QED BY <1>1, <2>1 DEF StopTimer
<1>3. CASE ~timerSet
  <2>1. timers < MaxTimers /\ timers' = timers
    BY <1>3 DEF Waiters, StopTimer
  <2> QED BY <1>1, <2>1 DEF StopTimer
<1> QED BY <1>1, <1>2, <1>3

\* Empty sequences.
LEMMA NoBytesFit ==
    /\ <<>> \in Seq(Bytes) /\ <<>> \in Seq(Seq(Bytes)) /\ <<>> \in Seq(Frames)
    /\ Len(<<>>) = 0 /\ DOMAIN <<>> = {}
OBVIOUS

(***************************************************************************)
(* The inductive invariant.                                                *)
(***************************************************************************)

\* The relay starts with nothing buffered.
LEMMA InitInv == Init => RelayInv
<1> SUFFICES ASSUME Init PROVE RelayInv
  OBVIOUS
<1>1. DataBuffered(queue) = 0
  <2>1. Payload(queue) = <<>>
    BY DEF Init, Payload
  <2> QED BY <2>1, NoBytes DEF DataBuffered
<1>2. TypeOK
  <2>1. replay \in [todo : Seq(Seq(Bytes)), batch : Seq(Bytes)]
    BY NoBytesFit, ReplayTypes DEF Init
  <2>2. DataTypes
    BY <2>1, NoBytesFit DEF Init, DataTypes
  <2>3. FlagTypes
    BY DEF Init, FlagTypes
  <2> QED BY <2>2, <2>3, Parameters DEF Init, TypeOK
<1>3. Waiters
  BY Parameters DEF Init, Waiters
<1>4. Sizes
  BY <1>1, Parameters DEF Init, Sizes, NoReplay
<1> QED BY <1>2, <1>3, <1>4 DEF RelayInv

\* The chunk that leaves and those that stay are within the same bound.
LEMMA ChunksOfTail ==
    ASSUME NEW q \in Seq(Seq(Bytes)), q # <<>>, NEW n \in Nat,
           \A i \in DOMAIN q : Len(q[i]) <= n
    PROVE  /\ Head(q) \in Seq(Bytes) /\ Len(Head(q)) <= n /\ Len(Head(q)) \in Nat
           /\ Tail(q) \in Seq(Seq(Bytes))
           /\ \A i \in DOMAIN Tail(q) : Len(Tail(q)[i]) <= n
<1>1. /\ Head(q) = q[1] /\ 1 \in DOMAIN q /\ q[1] \in Seq(Bytes)
      /\ Tail(q) \in Seq(Seq(Bytes))
      /\ \A i \in DOMAIN Tail(q) : i + 1 \in DOMAIN q /\ Tail(q)[i] = q[i + 1]
  OBVIOUS
<1>2. Len(Head(q)) \in Nat
  BY <1>1
<1> QED BY <1>1, <1>2

\* Every handler, timer and listener keeps the invariant, one step each.
LEMMA StepInv == RelayInv /\ [Next]_vars => RelayInv'
<1> SUFFICES ASSUME RelayInv, [Next]_vars PROVE RelayInv'
  OBVIOUS
<1> USE Parameters
<1>t. TypeOK /\ Waiters /\ Sizes
  BY DEF RelayInv
<1>b. /\ DataBuffered(queue) \in Nat /\ Buffered(queue) \in Nat
      /\ DataBuffered(queue) <= Buffered(queue)
  BY <1>t, Weight DEF TypeOK, DataTypes

<1>1. CASE ReadChunk
  <2>1. TypeOK'
    <3>1. DataTypes'
      BY <1>t, <1>1 DEF ReadChunk, readerVars, bufferVars, badgeVars, clientOf, attachVars,
         clientVars, Output, Bytes, TypeOK, DataTypes
    <3>2. FlagTypes'
      BY <1>t, <1>1 DEF ReadChunk, readerVars, bufferVars, badgeVars, clientOf, attachVars,
         clientVars, Output, Bytes, TypeOK, FlagTypes
    <3> QED BY <1>t, <1>1, <3>1, <3>2 DEF ReadChunk, readerVars, bufferVars, badgeVars,
       clientOf, attachVars, clientVars, Output, Bytes, TypeOK
  <2>2. Waiters'
    BY <1>t, <1>1 DEF ReadChunk, readerVars, bufferVars, badgeVars, clientOf, attachVars,
       clientVars, Output, Bytes, TypeOK, FlagTypes, Waiters
  <2>3. Sizes'
    BY <1>t, <1>b, <1>1 DEF ReadChunk, readerVars, bufferVars, badgeVars, clientOf,
       attachVars, clientVars, Output, Bytes, TypeOK, DataTypes, Sizes
  <2> QED BY <2>1, <2>2, <2>3 DEF RelayInv

<1>2. CASE SessionGone
  <2>1. TypeOK'
    <3>1. DataTypes'
      BY <1>t, <1>2 DEF SessionGone, readerVars, bufferVars, badgeVars, clientOf,
         attachVars, clientVars, TypeOK, DataTypes
    <3>2. FlagTypes'
      BY <1>t, <1>2 DEF SessionGone, readerVars, bufferVars, badgeVars, clientOf,
         attachVars, clientVars, TypeOK, FlagTypes
    <3> QED BY <1>t, <1>2, <3>1, <3>2 DEF SessionGone, readerVars, bufferVars, badgeVars,
       clientOf, attachVars, clientVars, TypeOK
  <2>2. Waiters'
    BY <1>t, <1>2 DEF SessionGone, readerVars, bufferVars, badgeVars, clientOf, attachVars,
       clientVars, TypeOK, FlagTypes, Waiters
  <2>3. Sizes'
    BY <1>t, <1>b, <1>2 DEF SessionGone, readerVars, bufferVars, badgeVars, clientOf,
       attachVars, clientVars, TypeOK, DataTypes, Sizes
  <2> QED BY <2>1, <2>2, <2>3 DEF RelayInv

<1>3. CASE AttachSubscribe
  <2>1. TypeOK'
    <3>1. DataTypes'
      BY <1>t, <1>3, NoBytesFit DEF AttachSubscribe, readerVars, bufferVars, badgeVars,
         clientOf, attachVars, clientVars, TypeOK, DataTypes
    <3>2. FlagTypes'
      BY <1>t, <1>3 DEF AttachSubscribe, readerVars, bufferVars, badgeVars, clientOf,
         attachVars, clientVars, TypeOK, FlagTypes
    <3> QED BY <1>t, <1>3, <3>1, <3>2 DEF AttachSubscribe, readerVars, bufferVars,
       badgeVars, clientOf, attachVars, clientVars, TypeOK
  <2>2. Waiters'
    BY <1>t, <1>3, NoBytesFit DEF AttachSubscribe, readerVars, bufferVars, badgeVars,
       clientOf, attachVars, clientVars, TypeOK, FlagTypes, Waiters
  <2>3. Sizes'
    BY <1>t, <1>b, <1>3, NoBytesFit, SMTT(30) DEF AttachSubscribe, readerVars, bufferVars, badgeVars,
       clientOf, attachVars, clientVars, TypeOK, DataTypes, Sizes
  <2> QED BY <2>1, <2>2, <2>3 DEF RelayInv

<1>4. CASE Detach
  <2>1. TypeOK'
    <3>1. DataTypes'
      BY <1>t, <1>4, NoBytesFit, TimerStops DEF Detach, readerVars, bufferVars, badgeVars,
         clientOf, attachVars, clientVars, Release, TypeOK, DataTypes
    <3>2. FlagTypes'
      BY <1>t, <1>4, TimerStops DEF Detach, readerVars, bufferVars, badgeVars, clientOf,
         attachVars, clientVars, Release, TypeOK, FlagTypes
    <3> QED BY <1>t, <1>4, <3>1, <3>2, TimerStops DEF Detach, readerVars, bufferVars,
       badgeVars, clientOf, attachVars, clientVars, Release, TypeOK
  <2>2. Waiters'
    BY <1>t, <1>4, NoBytesFit, TimerStops DEF Detach, readerVars, bufferVars, badgeVars,
       clientOf, attachVars, clientVars, Release, TypeOK, FlagTypes, Waiters
  <2>3. Sizes'
    BY <1>t, <1>b, <1>4, NoBytesFit, TimerStops, SMTT(30) DEF Detach, readerVars, bufferVars,
       badgeVars, clientOf, attachVars, clientVars, Release, TypeOK, DataTypes, Sizes
  <2> QED BY <2>1, <2>2, <2>3 DEF RelayInv

<1>6. CASE Pause
  <2>1. TypeOK'
    <3>1. DataTypes'
      BY <1>t, <1>6 DEF Pause, readerVars, bufferVars, badgeVars, clientOf, attachVars,
         clientVars, TypeOK, DataTypes
    <3>2. FlagTypes'
      BY <1>t, <1>6 DEF Pause, readerVars, bufferVars, badgeVars, clientOf, attachVars,
         clientVars, TypeOK, FlagTypes
    <3> QED BY <1>t, <1>6, <3>1, <3>2 DEF Pause, readerVars, bufferVars, badgeVars,
       clientOf, attachVars, clientVars, TypeOK
  <2>2. Waiters'
    BY <1>t, <1>6 DEF Pause, readerVars, bufferVars, badgeVars, clientOf, attachVars,
       clientVars, TypeOK, FlagTypes, Waiters
  <2>3. Sizes'
    BY <1>t, <1>b, <1>6 DEF Pause, readerVars, bufferVars, badgeVars, clientOf, attachVars,
       clientVars, TypeOK, DataTypes, Sizes
  <2> QED BY <2>1, <2>2, <2>3 DEF RelayInv

<1>7. CASE Resume
  <2>1. TypeOK'
    <3>1. DataTypes'
      BY <1>t, <1>7 DEF Resume, readerVars, bufferVars, badgeVars, clientOf, attachVars,
         clientVars, TypeOK, DataTypes
    <3>2. FlagTypes'
      BY <1>t, <1>7 DEF Resume, readerVars, bufferVars, badgeVars, clientOf, attachVars,
         clientVars, TypeOK, FlagTypes
    <3> QED BY <1>t, <1>7, <3>1, <3>2 DEF Resume, readerVars, bufferVars, badgeVars,
       clientOf, attachVars, clientVars, TypeOK
  <2>2. Waiters'
    BY <1>t, <1>7 DEF Resume, readerVars, bufferVars, badgeVars, clientOf, attachVars,
       clientVars, TypeOK, FlagTypes, Waiters
  <2>3. Sizes'
    BY <1>t, <1>b, <1>7 DEF Resume, readerVars, bufferVars, badgeVars, clientOf,
       attachVars, clientVars, TypeOK, DataTypes, Sizes
  <2> QED BY <2>1, <2>2, <2>3 DEF RelayInv

<1>8. CASE ResumeFlush
  <2>1. TypeOK'
    <3>1. DataTypes'
      BY <1>t, <1>8 DEF ResumeFlush, readerVars, bufferVars, badgeVars, clientOf,
         attachVars, clientVars, TypeOK, DataTypes
    <3>2. FlagTypes'
      BY <1>t, <1>8 DEF ResumeFlush, readerVars, bufferVars, badgeVars, clientOf,
         attachVars, clientVars, TypeOK, FlagTypes
    <3> QED BY <1>t, <1>8, <3>1, <3>2 DEF ResumeFlush, readerVars, bufferVars, badgeVars,
       clientOf, attachVars, clientVars, TypeOK
  <2>2. Waiters'
    BY <1>t, <1>8 DEF ResumeFlush, readerVars, bufferVars, badgeVars, clientOf, attachVars,
       clientVars, TypeOK, FlagTypes, Waiters
  <2>3. Sizes'
    BY <1>t, <1>b, <1>8 DEF ResumeFlush, readerVars, bufferVars, badgeVars, clientOf,
       attachVars, clientVars, TypeOK, DataTypes, Sizes
  <2> QED BY <2>1, <2>2, <2>3 DEF RelayInv

<1>9. CASE BackpressureTick
  <2>1. TypeOK'
    <3>1. DataTypes'
      BY <1>t, <1>9 DEF BackpressureTick, readerVars, bufferVars, badgeVars, clientOf,
         attachVars, clientVars, TypeOK, DataTypes
    <3>2. FlagTypes'
      BY <1>t, <1>9 DEF BackpressureTick, readerVars, bufferVars, badgeVars, clientOf,
         attachVars, clientVars, TypeOK, FlagTypes
    <3> QED BY <1>t, <1>9, <3>1, <3>2 DEF BackpressureTick, readerVars, bufferVars,
       badgeVars, clientOf, attachVars, clientVars, TypeOK
  <2>2. Waiters'
    BY <1>t, <1>9 DEF BackpressureTick, readerVars, bufferVars, badgeVars, clientOf,
       attachVars, clientVars, TypeOK, FlagTypes, Waiters
  <2>3. Sizes'
    BY <1>t, <1>b, <1>9 DEF BackpressureTick, readerVars, bufferVars, badgeVars, clientOf,
       attachVars, clientVars, TypeOK, DataTypes, Sizes
  <2> QED BY <2>1, <2>2, <2>3 DEF RelayInv

<1>10. CASE FlushEnds
  <2>1. TypeOK'
    <3>1. DataTypes'
      BY <1>t, <1>10 DEF FlushEnds, readerVars, bufferVars, badgeVars, clientOf,
         attachVars, clientVars, TypeOK, DataTypes
    <3>2. FlagTypes'
      BY <1>t, <1>10 DEF FlushEnds, readerVars, bufferVars, badgeVars, clientOf,
         attachVars, clientVars, TypeOK, FlagTypes
    <3> QED BY <1>t, <1>10, <3>1, <3>2 DEF FlushEnds, readerVars, bufferVars, badgeVars,
       clientOf, attachVars, clientVars, TypeOK
  <2>2. Waiters'
    BY <1>t, <1>10 DEF FlushEnds, readerVars, bufferVars, badgeVars, clientOf, attachVars,
       clientVars, TypeOK, FlagTypes, Waiters
  <2>3. Sizes'
    BY <1>t, <1>b, <1>10 DEF FlushEnds, readerVars, bufferVars, badgeVars, clientOf,
       attachVars, clientVars, TypeOK, DataTypes, Sizes
  <2> QED BY <2>1, <2>2, <2>3 DEF RelayInv

<1>11. CASE SessionHears
  <2>1. produced \in Output /\ produced \in Bytes
    BY <1>t, <1>11, ByteTypes DEF SessionHears, Waiters
  <2>2. /\ ring' \in Seq(Seq(Bytes)) /\ carry' \in Seq(Bytes) /\ Len(carry') <= MaxCarry
        /\ \A i \in DOMAIN ring' : Len(ring'[i]) <= MaxCarry + 1
    <3>1. /\ ring \in Seq(Seq(Bytes)) /\ carry \in Seq(Bytes) /\ Len(carry) <= MaxCarry
          /\ \A i \in DOMAIN ring : Len(ring[i]) <= MaxCarry + 1
          /\ Len(carry) \in Nat
      BY <1>t DEF TypeOK, DataTypes, Sizes
    <3>2. /\ Append(carry, produced) \in Seq(Bytes)
          /\ Len(Append(carry, produced)) = Len(carry) + 1
          /\ <<produced>> \in Seq(Bytes) /\ Len(<<produced>>) = 1
          /\ Append(<<>>, produced) = <<produced>>
      BY <2>1, <3>1
    <3>3. MaxCarry + 1 \in Nat /\ Len(carry) + 1 <= MaxCarry + 1 /\ Len(carry) <= MaxCarry + 1
      BY <3>1
    <3>4. CASE gone
      BY <1>11, <3>1, <3>4 DEF SessionHears
    <3>5. CASE Carried
      <4>1. CASE Len(carry) >= MaxCarry
        <5>1. carry' = <<produced>> /\ ring' = Pushed(ring, carry)
          BY <3>2, <3>5, <4>1 DEF Carried
        <5>2. 1 <= MaxCarry
          OBVIOUS
        <5>3. /\ Pushed(ring, carry) \in Seq(Seq(Bytes))
              /\ \A i \in DOMAIN Pushed(ring, carry) : Len(Pushed(ring,
                 carry)[i]) <= MaxCarry + 1
          BY <3>1, <3>3, PushedWithin
        <5> QED BY <3>2, <5>1, <5>2, <5>3
      <4>2. CASE ~(Len(carry) >= MaxCarry)
        <5>1. carry' = Append(carry, produced) /\ ring' = ring
          BY <3>5, <4>2 DEF Carried
        <5>2. Len(carry) + 1 <= MaxCarry
          BY <3>1, <4>2
        <5> QED BY <3>1, <3>2, <5>1, <5>2
      <4> QED BY <4>1, <4>2
    <3>6. CASE Recorded
      <4> DEFINE c == Append(carry, produced)
      <4>1. carry' = <<>> /\ ring' = Pushed(ring, c)
        BY <3>6 DEF Recorded
      <4>2. c \in Seq(Bytes) /\ Len(c) <= MaxCarry + 1
        BY <3>2, <3>3
      <4> HIDE DEF c
      <4>3. /\ Pushed(ring, c) \in Seq(Seq(Bytes))
            /\ \A i \in DOMAIN Pushed(ring, c) : Len(Pushed(ring, c)[i]) <= MaxCarry + 1
        BY <3>1, <3>3, <4>2, PushedWithin
      <4>4. 0 <= MaxCarry
        OBVIOUS
      <4> QED BY <4>1, <4>3, <4>4, NoBytesFit
    <3> QED BY <1>11, <3>4, <3>5, <3>6 DEF SessionHears
  <2>3. /\ reader' \in {"idle", "client"} /\ (reader' # "idle" => produced \in Output)
        /\ UNCHANGED <<produced, heard, gone, bufferVars, badgeVars, attachVars, queue,
                       clientVars>>
    BY <1>11, <2>1 DEF SessionHears
  <2>4. TypeOK'
    BY <1>t, <2>2, <2>3 DEF TypeOK, FlagTypes, DataTypes, bufferVars, badgeVars, clientOf,
       attachVars, clientVars
  <2>5. Waiters'
    BY <1>t, <2>3 DEF Waiters, bufferVars, badgeVars, clientOf, attachVars, clientVars
  <2>6. Sizes'
    BY <1>t, <2>2, <2>3 DEF Sizes, bufferVars, badgeVars, clientOf, attachVars, clientVars
  <2> QED BY <2>4, <2>5, <2>6 DEF RelayInv
<1>12. CASE SocketDelivers
  <2>1. queue \in Seq(Frames) /\ queue # <<>> /\ queue' = Tail(queue)
    BY <1>t, <1>12 DEF SocketDelivers, TypeOK, DataTypes
  <2>2. /\ queue' \in Seq(Frames) /\ DataBuffered(queue') <= DataBuffered(queue)
        /\ DataBuffered(queue') \in Nat
    BY <2>1, Unqueued
  <2>3. screen' \in Seq(Bytes)
    <3>1. Head(queue) \in Frames
      BY <2>1
    <3>2. Head(queue).bytes \in Seq(Bytes) /\ screen \in Seq(Bytes)
      BY <1>t, <3>1, FrameBytes DEF TypeOK, DataTypes
    <3>3. screen' = <<>> \/ screen' = screen \o Head(queue).bytes
      BY <1>12 DEF SocketDelivers
    <3>4. screen \o Head(queue).bytes \in Seq(Bytes) /\ <<>> \in Seq(Bytes)
      BY <3>2, ConcatProperties
    <3> QED BY <3>3, <3>4
  <2>4. UNCHANGED <<readerVars, bufferVars, badgeVars, attachVars, kept>>
    BY <1>12 DEF SocketDelivers
  <2>5. TypeOK'
    BY <1>t, <2>2, <2>3, <2>4 DEF TypeOK, FlagTypes, DataTypes, readerVars, bufferVars,
       badgeVars, clientOf, attachVars
  <2>6. Waiters'
    BY <1>t, <2>4 DEF Waiters, readerVars, bufferVars, badgeVars, clientOf, attachVars
  <2>7. Sizes'
    <3>1. Len(co) \in Nat
      BY <1>t DEF TypeOK, DataTypes
    <3>2. DataBuffered(queue') + Len(co) <= HWM + LargestFrame + (FlushLen - 1)
      BY <1>t, <1>b, <2>2, <3>1 DEF Sizes
    <3> QED BY <1>t, <2>4, <3>2 DEF Sizes, readerVars, bufferVars, clientOf, attachVars
  <2> QED BY <2>5, <2>6, <2>7 DEF RelayInv
<1>13. CASE Drop
  <2>1. queue' = <<>> /\ DataBuffered(<<>>) = 0 /\ <<>> \in Seq(Frames)
    <3>1. Payload(<<>>) = <<>>
      BY DEF Payload
    <3> QED BY <1>13, <3>1, NoBytes, NoBytesFit DEF Drop, DataBuffered
  <2>2. TypeOK'
    <3>1. DataTypes'
      BY <1>t, <1>13, NoBytesFit DEF Drop, Release, TypeOK, DataTypes
    <3>2. FlagTypes'
      BY <1>t, <1>13 DEF Drop, Release, TypeOK, FlagTypes
    <3> QED BY <1>t, <1>13, <3>1, <3>2 DEF Drop, Release, TypeOK
  <2>3. Waiters'
    BY <1>t, <1>13 DEF Drop, Release, TypeOK, FlagTypes, Waiters
  <2>4. Sizes'
    BY <1>t, <1>13, <2>1, NoBytesFit DEF Drop, Release, TypeOK, DataTypes, Sizes
  <2> QED BY <2>2, <2>3, <2>4 DEF RelayInv
<1>14. CASE AttachReplay
  <2>1. /\ queue' \in Seq(Frames) /\ DataBuffered(queue') = DataBuffered(queue)
        /\ replay' \in [todo : Seq(Seq(Bytes)), batch : Seq(Bytes)]
        /\ \A i \in DOMAIN replay'.todo : Len(replay'.todo[i]) <= MaxCarry + 1
        /\ Len(replay'.batch) <= BatchLen
    <3>s. /\ Append(queue, Control) \in Seq(Frames)
          /\ DataBuffered(Append(queue, Control)) = DataBuffered(queue)
      BY <1>t, <1>b, FrameTypes, Queued DEF TypeOK, DataTypes
    <3>1. CASE resume
      <4>1. queue' = Append(queue, Control) /\ replay' = replay
        BY <1>14, <3>1 DEF AttachReplay
      <4> QED BY <1>t, <3>s, <4>1 DEF TypeOK, DataTypes, Sizes
    <3>2. CASE ~resume
      <4>1. queue' = Append(Append(queue, Control), Reset)
        BY <1>14, <3>2 DEF AttachReplay
      <4>2. queue' \in Seq(Frames) /\ DataBuffered(queue') = DataBuffered(queue)
        <5> DEFINE q == Append(queue, Control)
        <5>1. q \in Seq(Frames) /\ DataBuffered(q) = DataBuffered(queue)
          BY <3>s
        <5> HIDE DEF q
        <5>2. /\ Append(q, Reset) \in Seq(Frames)
              /\ DataBuffered(Append(q, Reset)) = DataBuffered(q)
          BY <1>b, <5>1, FrameTypes, Queued
        <5>3. queue' = Append(q, Reset)
          BY <4>1 DEF q
        <5> QED BY <5>1, <5>2, <5>3
      <4>3. /\ ring \in Seq(Seq(Bytes))
            /\ \A i \in DOMAIN ring : Len(ring[i]) <= MaxCarry + 1
        BY <1>t DEF TypeOK, DataTypes, Sizes
      <4>4. PICK title \in {<<>>, <<Title>>} : replay' = [todo |-> ring, batch |-> title]
        BY <1>14, <3>2 DEF AttachReplay
      <4>5. title \in Seq(Bytes) /\ Len(title) <= BatchLen
        <5>1. /\ <<Title>> \in Seq(Bytes) /\ Len(<<Title>>) = 1
              /\ <<>> \in Seq(Bytes) /\ Len(<<>>) = 0
          BY ByteTypes
        <5>2. 1 <= BatchLen /\ 0 <= BatchLen
          OBVIOUS
        <5> QED BY <4>4, <5>1, <5>2
      <4>6. /\ replay' \in [todo : Seq(Seq(Bytes)), batch : Seq(Bytes)]
            /\ replay'.todo = ring /\ replay'.batch = title
        BY <4>3, <4>4, <4>5, ReplayTypes
      <4> QED BY <4>2, <4>3, <4>5, <4>6
    <3> QED BY <3>1, <3>2
  <2>2. /\ mu = "attach" /\ mu' \in {"modes", "replay"}
        /\ UNCHANGED <<readerVars, bufferVars, badgeVars, clientOf, clientVars>>
    BY <1>14 DEF AttachReplay
  <2>3. TypeOK'
    <3>1. DataTypes'
      BY <1>t, <2>1, <2>2 DEF TypeOK, DataTypes, readerVars, bufferVars, clientVars
    <3>2. FlagTypes'
      BY <1>t, <2>2 DEF TypeOK, FlagTypes, readerVars, bufferVars, badgeVars, clientOf,
         clientVars
    <3> QED BY <1>t, <2>2, <3>1, <3>2 DEF TypeOK, readerVars, bufferVars, badgeVars,
               clientOf, clientVars
  <2>4. Waiters'
    BY <1>t, <2>2 DEF Waiters, readerVars, bufferVars, clientOf
  <2>5. Sizes'
    BY <1>t, <1>b, <2>1, <2>2 DEF Sizes, readerVars, bufferVars
  <2> QED BY <2>3, <2>4, <2>5 DEF RelayInv
<1>5. CASE AttachEnds
  <2>1. queue' \in Seq(Frames) /\ DataBuffered(queue') = DataBuffered(queue)
    <3> DEFINE q == Append(queue, Control)
    <3>1. q \in Seq(Frames) /\ DataBuffered(q) = DataBuffered(queue)
      BY <1>t, <1>b, FrameTypes, Queued DEF TypeOK, DataTypes
    <3>2. queue' \in {queue, q, Append(q, Control)}
      BY <1>5 DEF AttachEnds
    <3> HIDE DEF q
    <3>3. /\ Append(q, Control) \in Seq(Frames)
          /\ DataBuffered(Append(q, Control)) = DataBuffered(q)
      BY <1>b, <3>1, FrameTypes, Queued
    <3> QED BY <1>t, <3>1, <3>2, <3>3 DEF TypeOK, DataTypes
  <2>2. /\ mu = "modes" /\ mu' = "free"
        /\ UNCHANGED <<readerVars, bufferVars, badgeVars, clientOf, replay, clientVars>>
    BY <1>5 DEF AttachEnds
  <2>3. TypeOK'
    <3>1. DataTypes'
      BY <1>t, <2>1, <2>2 DEF TypeOK, DataTypes, readerVars, bufferVars, clientVars
    <3>2. FlagTypes'
      BY <1>t, <2>2 DEF TypeOK, FlagTypes, readerVars, bufferVars, badgeVars, clientOf,
         clientVars
    <3> QED BY <1>t, <2>2, <3>1, <3>2 DEF TypeOK, readerVars, bufferVars, badgeVars,
               clientOf, clientVars
  <2>4. Waiters'
    BY <1>t, <2>2 DEF Waiters, readerVars, bufferVars, clientOf
  <2>5. Sizes'
    BY <1>t, <1>b, <2>1, <2>2 DEF Sizes, readerVars, bufferVars
  <2> QED BY <2>3, <2>4, <2>5 DEF RelayInv
<1>15. CASE TimerFires
  <2>1. /\ co \in Seq(Bytes) /\ Len(co) \in Nat /\ Len(co) <= LargestFrame
        /\ cbuf \in Seq(Seq(Bytes)) /\ queue \in Seq(Frames)
        /\ \A i \in DOMAIN cbuf : Len(cbuf[i]) <= LargestFrame
        /\ timers \in Nat /\ timers <= MaxTimers /\ timers > 0 /\ timers' = timers - 1
        /\ UNCHANGED <<readerVars, paused, throttled, badgeVars, attachVars, clientVars>>
    <3>1. co \in Seq(Bytes) /\ Len(co) \in Nat /\ Len(co) < FlushLen
      BY <1>t DEF TypeOK, DataTypes, Sizes
    <3>2. Len(co) <= LargestFrame
      BY <3>1
    <3>3. timers \in Nat /\ timers <= MaxTimers
      BY <1>t DEF TypeOK
    <3> QED BY <1>t, <1>15, <3>1, <3>2, <3>3 DEF TimerFires, TypeOK, DataTypes, Sizes
  <2>2. CASE ~attached
    <3>1. UNCHANGED <<co, timerSet, queue, cbuf>> /\ ~timerSet
      BY <1>t, <1>15, <2>2 DEF TimerFires, Waiters
    <3>2. TypeOK'
      BY <1>t, <2>1, <3>1 DEF TypeOK, FlagTypes, DataTypes, readerVars, badgeVars, clientOf,
         attachVars, clientVars
    <3>3. Waiters'
      <4>1. timers' < MaxTimers
        BY <2>1
      <4> QED BY <1>t, <2>1, <3>1, <4>1 DEF Waiters, readerVars, clientOf, attachVars
    <3>4. Sizes'
      BY <1>t, <2>1, <3>1 DEF Sizes, readerVars, attachVars
    <3> QED BY <3>2, <3>3, <3>4 DEF RelayInv
  <2>3. CASE attached
    <3>1. FlushCoalesce /\ co' = <<>> /\ timerSet' = FALSE
      BY <1>15, <2>3 DEF TimerFires, FlushCoalesce
    <3>2. /\ queue' \in Seq(Frames) /\ cbuf' \in Seq(Seq(Bytes))
          /\ \A i \in DOMAIN cbuf' : Len(cbuf'[i]) <= LargestFrame
          /\ DataBuffered(queue') \in Nat
          /\ DataBuffered(queue') <= DataBuffered(queue) + Len(co)
          /\ cbuf' = cbuf \/ paused \/ throttled
      <4>1. CASE co = <<>>
        <5>1. queue' = queue /\ cbuf' = cbuf
          BY <3>1, <4>1 DEF FlushCoalesce
        <5> QED BY <1>b, <2>1, <5>1
      <4>2. CASE co # <<>> /\ (paused \/ throttled)
        <5>1. queue' = queue /\ cbuf' = Pushed(cbuf, co)
          BY <3>1, <4>2 DEF FlushCoalesce
        <5>2. /\ Pushed(cbuf, co) \in Seq(Seq(Bytes))
              /\ \A i \in DOMAIN Pushed(cbuf, co) : Len(Pushed(cbuf, co)[i]) <= LargestFrame
          BY <2>1, PushedWithin
        <5> QED BY <1>b, <2>1, <4>2, <5>1, <5>2
      <4>3. CASE co # <<>> /\ ~(paused \/ throttled)
        <5>1. queue' = Append(queue, Data(co)) /\ cbuf' = cbuf
          BY <3>1, <4>3 DEF FlushCoalesce
        <5>2. Data(co) \in Frames /\ Data(co).bytes = co
          BY <2>1, FrameTypes
        <5>3. /\ queue' \in Seq(Frames) /\ DataBuffered(queue') = DataBuffered(queue) + Len(co)
          BY <2>1, <5>1, <5>2, Queued
        <5> QED BY <1>b, <2>1, <5>1, <5>3
      <4> QED BY <4>1, <4>2, <4>3
    <3>3. TypeOK'
      <4>1. DataTypes'
        BY <1>t, <2>1, <3>1, <3>2, NoBytesFit DEF TypeOK, DataTypes, readerVars, attachVars,
           clientVars
      <4>2. FlagTypes'
        BY <1>t, <2>1, <3>1 DEF TypeOK, FlagTypes, readerVars, badgeVars, clientOf,
           attachVars, clientVars
      <4> QED BY <1>t, <2>1, <4>1, <4>2 DEF TypeOK, readerVars, badgeVars, clientOf,
                 attachVars, clientVars
    <3>4. Waiters'
      <4>1. timers' < MaxTimers
        BY <2>1
      <4>2. mu = "free"
        BY <1>15 DEF TimerFires
      <4> QED BY <1>t, <2>1, <2>3, <3>1, <3>2, <4>1, <4>2 DEF Waiters, readerVars, clientOf,
                 attachVars
    <3>5. Sizes'
      <4>1. DataBuffered(queue') <= HWM + LargestFrame + (FlushLen - 1)
        BY <1>t, <1>b, <2>1, <3>2, SMTT(30) DEF Sizes
      <4>2. DataBuffered(queue') + Len(co') <= HWM + LargestFrame + (FlushLen - 1)
        BY <3>1, <3>2, <4>1, NoBytesFit
      <4>3. Len(co') < FlushLen
        BY <3>1, NoBytesFit
      <4> QED BY <1>t, <2>1, <3>2, <4>2, <4>3 DEF Sizes, readerVars, attachVars
    <3> QED BY <3>3, <3>4, <3>5 DEF RelayInv
  <2> QED BY <2>2, <2>3
<1>16. CASE FlushChunk
  <2>1. /\ mu = "flush" /\ cbuf # <<>>
        /\ UNCHANGED <<readerVars, paused, co, timerSet, timers, badgeVars, clientOf, replay,
                       clientVars>>
        /\ cbuf \in Seq(Seq(Bytes)) /\ queue \in Seq(Frames) /\ Len(co) \in Nat
        /\ Len(co) < FlushLen /\ \A i \in DOMAIN cbuf : Len(cbuf[i]) <= LargestFrame
    BY <1>t, <1>16 DEF FlushChunk, TypeOK, DataTypes, Sizes
  <2>2. /\ queue' \in Seq(Frames) /\ cbuf' \in Seq(Seq(Bytes))
        /\ \A i \in DOMAIN cbuf' : Len(cbuf'[i]) <= LargestFrame
        /\ DataBuffered(queue') + Len(co) <= HWM + LargestFrame + (FlushLen - 1)
        /\ \/ throttled' = TRUE /\ mu' = "free"
           \/ throttled' = throttled /\ mu' = mu
    <3>1. CASE Buffered(queue) > HWM
      <4>1. queue' = queue /\ cbuf' = cbuf /\ throttled' = TRUE /\ mu' = "free"
        BY <1>16, <3>1 DEF FlushChunk
      <4> QED BY <1>t, <2>1, <4>1 DEF Sizes
    <3>2. CASE ~(Buffered(queue) > HWM)
      <4>1. /\ queue' = Append(queue, Data(Head(cbuf))) /\ cbuf' = Tail(cbuf)
            /\ throttled' = throttled /\ mu' = mu
        BY <1>16, <3>2 DEF FlushChunk
      <4>2. /\ Head(cbuf) \in Seq(Bytes) /\ Len(Head(cbuf)) <= LargestFrame
            /\ Len(Head(cbuf)) \in Nat
            /\ cbuf' \in Seq(Seq(Bytes))
            /\ \A i \in DOMAIN cbuf' : Len(cbuf'[i]) <= LargestFrame
        BY <2>1, <4>1, ChunksOfTail
      <4>3. Data(Head(cbuf)) \in Frames /\ Data(Head(cbuf)).bytes = Head(cbuf)
        BY <4>2, FrameTypes
      <4>4. /\ queue' \in Seq(Frames)
            /\ DataBuffered(queue') = DataBuffered(queue) + Len(Head(cbuf))
        BY <2>1, <4>1, <4>3, Queued
      <4>5. DataBuffered(queue) + Len(Head(cbuf)) + Len(co) <= HWM + LargestFrame + (FlushLen - 1)
        BY <1>b, <2>1, <3>2, <4>2, SMTT(30)
      <4> QED BY <4>1, <4>2, <4>4, <4>5
    <3> QED BY <3>1, <3>2
  <2>3. TypeOK'
    <3>1. DataTypes'
      BY <1>t, <2>1, <2>2 DEF TypeOK, DataTypes, readerVars, clientVars
    <3>2. FlagTypes'
      BY <1>t, <2>1, <2>2, ZenonT(30) DEF TypeOK, FlagTypes, readerVars, badgeVars, clientOf, clientVars
    <3> QED BY <1>t, <2>1, <2>2, <3>1, <3>2 DEF TypeOK, readerVars, badgeVars, clientOf,
               clientVars
  <2>4. Waiters'
    BY <1>t, <2>1, <2>2 DEF Waiters, readerVars, clientOf
  <2>5. Sizes'
    BY <1>t, <2>1, <2>2 DEF Sizes, readerVars
  <2> QED BY <2>3, <2>4, <2>5 DEF RelayInv
<1>17. CASE ReplayChunk \/ ReplayEnds
  <2>1. /\ mu = "replay" /\ cbuf = <<>> /\ co = <<>> /\ attached /\ ~paused /\ ~timerSet
        /\ UNCHANGED <<readerVars, paused, co, timerSet, timers, badgeVars, clientOf,
                       clientVars>>
    BY <1>t, <1>17 DEF ReplayChunk, ReplayEnds, Waiters
  <2>2. /\ queue \in Seq(Frames) /\ replay.todo \in Seq(Seq(Bytes))
        /\ replay.batch \in Seq(Bytes) /\ Len(replay.batch) \in Nat
        /\ Len(replay.batch) <= BatchLen
        /\ \A i \in DOMAIN replay.todo : Len(replay.todo[i]) <= MaxCarry + 1
    <3> DEFINE T == Seq(Seq(Bytes))
               B == Seq(Bytes)
    <3>1. replay \in [todo : T, batch : B]
      BY <1>t DEF TypeOK, DataTypes
    <3> HIDE DEF T, B
    <3>2. replay.todo \in T /\ replay.batch \in B
      BY <3>1
    <3>3. replay.todo \in Seq(Seq(Bytes)) /\ replay.batch \in Seq(Bytes)
      BY <3>2 DEF T, B
    <3> QED BY <1>t, <3>3 DEF TypeOK, DataTypes, Sizes
  <2>3. /\ NoReplay \in [todo : Seq(Seq(Bytes)), batch : Seq(Bytes)]
        /\ \A i \in DOMAIN NoReplay.todo : Len(NoReplay.todo[i]) <= MaxCarry + 1
        /\ Len(NoReplay.batch) <= BatchLen
    <3>1. /\ NoReplay \in [todo : Seq(Seq(Bytes)), batch : Seq(Bytes)]
          /\ NoReplay.todo = <<>> /\ NoReplay.batch = <<>>
      BY NoBytesFit, ReplayTypes
    <3> QED BY <3>1, NoBytesFit
  <2> DEFINE Room(n) == n + Len(co) <= HWM + LargestFrame + (FlushLen - 1)
             Fine ==
                /\ queue' \in Seq(Frames) /\ Room(DataBuffered(queue'))
                /\ cbuf' \in Seq(Seq(Bytes))
                /\ \A i \in DOMAIN cbuf' : Len(cbuf'[i]) <= LargestFrame
                /\ replay' \in [todo : Seq(Seq(Bytes)), batch : Seq(Bytes)]
                /\ \A i \in DOMAIN replay'.todo : Len(replay'.todo[i]) <= MaxCarry + 1
                /\ Len(replay'.batch) <= BatchLen
                /\ \/ throttled' = TRUE /\ mu' = "modes"
                   \/ throttled' = throttled /\ cbuf' = <<>> /\ mu' \in {"replay", "modes"}
  <2>r. Room(DataBuffered(queue)) /\ Len(co) = 0
    BY <1>t, <2>1, NoBytesFit DEF Sizes
  <2>s. \A n \in Nat : n <= HWM + LargestFrame => Room(n)
    BY <2>r
  <2>4. ASSUME NEW b \in Seq(Bytes), Len(b) <= LargestFrame, BatchHeld(b)
        PROVE  Fine
    <3>1. /\ throttled' = TRUE /\ cbuf' = Pushed(<<>>, b) /\ mu' = "modes"
          /\ replay' = NoReplay /\ queue' = queue
      BY <2>1, <2>4 DEF BatchHeld
    <3>2. /\ Pushed(<<>>, b) \in Seq(Seq(Bytes))
          /\ \A i \in DOMAIN Pushed(<<>>, b) : Len(Pushed(<<>>, b)[i]) <= LargestFrame
      BY <2>4, NoBytesFit, PushedWithin
    <3> HIDE DEF Room
    <3> QED BY <2>2, <2>3, <2>r, <3>1, <3>2
  <2>5. ASSUME NEW b \in Seq(Bytes), Len(b) <= LargestFrame, DataBuffered(queue) <= HWM,
               queue' = Append(queue, Data(b))
        PROVE  queue' \in Seq(Frames) /\ Room(DataBuffered(queue'))
    <3>1. Data(b) \in Frames /\ Data(b).bytes = b
      BY FrameTypes
    <3>2. /\ queue' \in Seq(Frames) /\ DataBuffered(queue') = DataBuffered(queue) + Len(b)
          /\ Len(b) \in Nat
      BY <2>2, <2>5, <3>1, Queued
    <3>3. DataBuffered(queue') \in Nat /\ DataBuffered(queue') <= HWM + LargestFrame
      BY <1>b, <2>5, <3>2
    <3> HIDE DEF Room
    <3> QED BY <2>s, <3>2, <3>3
  <2>u. ASSUME cbuf' = cbuf
        PROVE  /\ cbuf' = <<>> /\ cbuf' \in Seq(Seq(Bytes))
               /\ \A i \in DOMAIN cbuf' : Len(cbuf'[i]) <= LargestFrame
    BY <2>1, <2>u, NoBytesFit
  <2>6. ASSUME ReplayChunk PROVE Fine
    <3> DEFINE b == replay.batch \o Head(replay.todo)
               t == Tail(replay.todo)
    <3>1. /\ b \in Seq(Bytes) /\ Len(b) <= LargestFrame
          /\ t \in Seq(Seq(Bytes)) /\ \A i \in DOMAIN t : Len(t[i]) <= MaxCarry + 1
      <4>1. replay.todo # <<>> /\ MaxCarry + 1 \in Nat
        BY <2>6 DEF ReplayChunk
      <4>2. /\ Head(replay.todo) \in Seq(Bytes) /\ Len(Head(replay.todo)) <= MaxCarry + 1
            /\ Len(Head(replay.todo)) \in Nat
            /\ t \in Seq(Seq(Bytes)) /\ \A i \in DOMAIN t : Len(t[i]) <= MaxCarry + 1
        BY <2>2, <4>1, ChunksOfTail
      <4>3. b \in Seq(Bytes) /\ Len(b) = Len(replay.batch) + Len(Head(replay.todo))
        BY <2>2, <4>2, ConcatProperties
      <4>4. Len(b) <= LargestFrame
        <5>1. \A x, y \in Nat : x <= BatchLen /\ y <= MaxCarry + 1 => x + y <= LargestFrame
          OBVIOUS
        <5> HIDE DEF b
        <5> QED BY <2>2, <4>2, <4>3, <5>1
      <4> QED BY <4>2, <4>3, <4>4
    <3> HIDE DEF b, t
    <3>2. CASE BatchFills(b)
      <4>1. /\ Len(b) <= BatchLen /\ replay' = [todo |-> t, batch |-> b]
            /\ queue' = queue /\ throttled' = throttled /\ cbuf' = cbuf /\ mu' = mu
        BY <3>2 DEF BatchFills, t
      <4>2. /\ replay' \in [todo : Seq(Seq(Bytes)), batch : Seq(Bytes)]
            /\ replay'.todo = t /\ replay'.batch = b
        BY <3>1, <4>1, ReplayTypes
      <4> HIDE DEF Room
      <4>3. mu' \in {"replay", "modes"}
        BY <2>1, <4>1
      <4>4. queue' \in Seq(Frames) /\ Room(DataBuffered(queue'))
        BY <2>2, <2>r, <4>1
      <4> QED BY <2>u, <3>1, <4>1, <4>2, <4>3, <4>4
    <3>3. CASE Buffered(queue) <= HWM /\ BatchSent(b)
      <4>1. /\ replay' = [todo |-> t, batch |-> <<>>] /\ queue' = Append(queue, Data(b))
            /\ throttled' = throttled /\ cbuf' = cbuf /\ mu' = mu
        BY <3>3 DEF BatchSent, t
      <4>2. /\ replay' \in [todo : Seq(Seq(Bytes)), batch : Seq(Bytes)]
            /\ replay'.todo = t /\ replay'.batch = <<>>
        BY <3>1, <4>1, NoBytesFit, ReplayTypes
      <4>3. queue' \in Seq(Frames) /\ Room(DataBuffered(queue'))
        <5>1. DataBuffered(queue) <= HWM
          BY <1>b, <3>3
        <5> QED BY <2>5, <3>1, <4>1, <5>1
      <4>4. 0 <= BatchLen
        OBVIOUS
      <4> HIDE DEF Room
      <4>5. mu' \in {"replay", "modes"}
        BY <2>1, <4>1
      <4> QED BY <2>u, <3>1, <4>1, <4>2, <4>3, <4>4, <4>5, NoBytesFit
    <3>4. CASE BatchHeld(b)
      <4> HIDE DEF Fine
      <4> QED BY <2>4, <3>1, <3>4
    <3>5. BatchFills(b) \/ (Buffered(queue) <= HWM /\ BatchSent(b)) \/ BatchHeld(b)
      BY <2>6 DEF ReplayChunk, b
    <3> QED BY <3>2, <3>3, <3>4, <3>5
  <2>7. ASSUME ReplayEnds PROVE Fine
    <3>1. Len(replay.batch) <= LargestFrame
      BY <2>2
    <3>2. CASE replay.batch # <<>> /\ Buffered(queue) > HWM
      <4>1. BatchHeld(replay.batch)
        BY <2>7, <3>2 DEF ReplayEnds
      <4> HIDE DEF Fine
      <4> QED BY <2>2, <2>4, <3>1, <4>1
    <3>3. CASE ~(replay.batch # <<>> /\ Buffered(queue) > HWM)
      <4>1. /\ mu' = "modes" /\ replay' = NoReplay /\ throttled' = throttled /\ cbuf' = cbuf
            /\ queue' = IF replay.batch = <<>> THEN queue
                        ELSE Append(queue, Data(replay.batch))
        BY <2>7, <3>3 DEF ReplayEnds
      <4>2. queue' \in Seq(Frames) /\ Room(DataBuffered(queue'))
        <5>1. CASE replay.batch = <<>>
          <6> HIDE DEF Room
          <6> QED BY <2>2, <2>r, <4>1, <5>1
        <5>2. CASE replay.batch # <<>>
          <6>1. DataBuffered(queue) <= HWM
            BY <1>b, <3>3, <5>2
          <6> QED BY <2>2, <2>5, <3>1, <4>1, <5>2, <6>1
        <5> QED BY <5>1, <5>2
      <4> HIDE DEF Room
      <4> QED BY <2>3, <2>u, <4>1, <4>2
    <3> QED BY <3>2, <3>3
  <2>8. Fine
    <3> HIDE DEF Fine
    <3> QED BY <1>17, <2>6, <2>7
  <2>9. TypeOK'
    <3>1. DataTypes'
      BY <1>t, <2>1, <2>8, NoBytesFit DEF TypeOK, DataTypes, readerVars, clientVars
    <3>2. FlagTypes'
      BY <1>t, <2>1, <2>8 DEF TypeOK, FlagTypes, readerVars, badgeVars, clientOf, clientVars
    <3> QED BY <1>t, <2>1, <2>8, <3>1, <3>2 DEF TypeOK, readerVars, badgeVars, clientOf,
               clientVars
  <2>10. Waiters'
    BY <1>t, <2>1, <2>8 DEF Waiters, readerVars, clientOf
  <2>11. Sizes'
    BY <1>t, <2>1, <2>8 DEF Sizes, readerVars
  <2> QED BY <2>9, <2>10, <2>11 DEF RelayInv
<1>18. CASE UNCHANGED vars
  <2>1. TypeOK'
    <3>1. DataTypes'
      BY <1>t, <1>18 DEF vars, readerVars, bufferVars, attachVars, clientVars, TypeOK, DataTypes
    <3>2. FlagTypes'
      BY <1>t, <1>18 DEF vars, readerVars, bufferVars, badgeVars, clientOf, attachVars,
         clientVars, TypeOK, FlagTypes
    <3> QED BY <1>t, <1>18, <3>1, <3>2 DEF vars, readerVars, bufferVars, badgeVars, clientOf,
               attachVars, TypeOK
  <2>2. Waiters'
    BY <1>t, <1>18 DEF vars, readerVars, bufferVars, clientOf, attachVars, Waiters
  <2>3. Sizes'
    BY <1>t, <1>18 DEF vars, readerVars, bufferVars, attachVars, Sizes
  <2> QED BY <2>1, <2>2, <2>3 DEF RelayInv
<1>19. CASE ClientHears
  <2>1. /\ reader = "client" /\ mu = "free" /\ reader' = "idle" /\ produced \in Bytes
        /\ UNCHANGED <<produced, heard, ring, carry, gone, attachVars, clientVars>>
    BY <1>t, <1>19, ByteTypes DEF ClientHears, Waiters
  <2>2. /\ co \in Seq(Bytes) /\ Len(co) \in Nat /\ Len(co) < FlushLen
        /\ cbuf \in Seq(Seq(Bytes)) /\ queue \in Seq(Frames)
        /\ \A i \in DOMAIN cbuf : Len(cbuf[i]) <= LargestFrame
        /\ DataBuffered(queue) + Len(co) <= HWM + LargestFrame + (FlushLen - 1)
        /\ timers \in Nat /\ timers <= MaxTimers /\ timerSet \in BOOLEAN
        /\ unreported \in Nat /\ signalled \in BOOLEAN
    BY <1>t DEF TypeOK, FlagTypes, DataTypes, Sizes
  <2> DEFINE Types ==
                /\ cbuf' \in Seq(Seq(Bytes)) /\ co' \in Seq(Bytes) /\ queue' \in Seq(Frames)
                /\ timers' \in 0..MaxTimers /\ timerSet' \in BOOLEAN
                /\ unreported' \in Nat /\ signalled' \in BOOLEAN
                /\ throttled' \in BOOLEAN /\ paused' = paused
             Amounts ==
                /\ \A i \in DOMAIN cbuf' : Len(cbuf'[i]) <= LargestFrame
                /\ Len(co') < FlushLen
                /\ DataBuffered(queue') + Len(co') <= HWM + LargestFrame + (FlushLen - 1)
             Timed ==
                /\ co' # <<>> => timerSet'
                /\ IF timerSet' THEN timers' > 0 ELSE timers' < MaxTimers
                /\ ~attached => co' = <<>> /\ cbuf' = <<>> /\ ~timerSet'
                /\ cbuf' # <<>> => paused \/ throttled' \/ resuming \/ mu = "flush" \/ gone
  <2>3. ASSUME ~(attached /\ heard) PROVE Types /\ Amounts /\ Timed
    <3>1. UNCHANGED <<bufferVars, badgeVars, queue>>
      BY <1>19, <2>3 DEF ClientHears
    <3>2. Types
      BY <1>t, <2>2, <3>1 DEF TypeOK, FlagTypes, bufferVars, badgeVars
    <3>3. Amounts
      BY <2>2, <3>1 DEF bufferVars
    <3>4. Timed
      BY <1>t, <3>1 DEF Waiters, bufferVars
    <3> QED BY <3>2, <3>3, <3>4
  <2>4. ASSUME attached, heard PROVE Types /\ Amounts /\ Timed
    <3>1. OnPtyData
      BY <1>19, <2>4 DEF ClientHears
    <3>2. /\ throttled' \in BOOLEAN /\ paused' = paused
          /\ ~throttled' => ~throttled /\ ~(Buffered(queue) > HWM)
      BY <3>1 DEF OnPtyData
    <3>3. ASSUME paused \/ throttled' PROVE Types /\ Amounts /\ Timed
      <4>1. /\ cbuf' = Pushed(cbuf, <<produced>>)
            /\ co' = co /\ timerSet' = timerSet /\ timers' = timers
            /\ IF paused THEN Heartbeat ELSE UNCHANGED <<badgeVars, queue>>
        BY <3>1, <3>3 DEF OnPtyData, HoldBack
      <4>2. <<produced>> \in Seq(Bytes) /\ Len(<<produced>>) <= LargestFrame
        <5>1. <<produced>> \in Seq(Bytes) /\ Len(<<produced>>) = 1
          BY <2>1
        <5> QED BY <5>1
      <4>3. /\ cbuf' \in Seq(Seq(Bytes))
            /\ \A i \in DOMAIN cbuf' : Len(cbuf'[i]) <= LargestFrame
        BY <2>2, <4>1, <4>2, PushedWithin
      <4>4. /\ queue' \in Seq(Frames) /\ DataBuffered(queue') = DataBuffered(queue)
            /\ unreported' \in Nat /\ signalled' \in BOOLEAN
        <5>1. /\ Append(queue, Control) \in Seq(Frames)
              /\ DataBuffered(Append(queue, Control)) = DataBuffered(queue)
          BY <1>b, <2>2, FrameTypes, Queued
        <5>2. CASE UNCHANGED <<badgeVars, queue>>
          BY <2>2, <5>2 DEF badgeVars
        <5>3. CASE queue' = Append(queue, Control) /\ unreported' = 0 /\ signalled' = TRUE
          BY <5>1, <5>3
        <5>4. CASE unreported' = unreported + 1 /\ UNCHANGED <<queue, signalled>>
          BY <2>2, <5>4
        <5> QED BY <4>1, <5>2, <5>3, <5>4 DEF Heartbeat
      <4>5. Types
        BY <2>2, <3>2, <4>1, <4>3, <4>4
      <4>6. Amounts
        BY <2>2, <4>1, <4>3, <4>4
      <4>7. Timed
        BY <1>t, <2>4, <3>3, <4>1 DEF Waiters
      <4> QED BY <4>5, <4>6, <4>7
    <3>4. ASSUME ~(paused \/ throttled') PROVE Types /\ Amounts /\ Timed
      <4>1. /\ Coalesce /\ cbuf' = cbuf /\ UNCHANGED badgeVars /\ DataBuffered(queue) <= HWM
            /\ throttled' = FALSE
        BY <1>b, <3>1, <3>2, <3>4 DEF OnPtyData, Coalesce
      <4>2. /\ Append(co, produced) \in Seq(Bytes)
            /\ Len(Append(co, produced)) = Len(co) + 1
        BY <2>1, <2>2
      <4>3. /\ co' \in Seq(Bytes) /\ queue' \in Seq(Frames) /\ Len(co') < FlushLen
            /\ DataBuffered(queue') + Len(co') <= HWM + LargestFrame + (FlushLen - 1)
            /\ timerSet' \in BOOLEAN /\ timers' \in 0..MaxTimers
            /\ co' # <<>> => timerSet'
            /\ IF timerSet' THEN timers' > 0 ELSE timers' < MaxTimers
        <5>1. CASE /\ queue' = Append(queue, Data(Append(co, produced)))
                   /\ co' = <<>> /\ StopTimer
          <6>1. /\ Data(Append(co, produced)) \in Frames
                /\ Data(Append(co, produced)).bytes = Append(co, produced)
            BY <4>2, FrameTypes
          <6>2. /\ queue' \in Seq(Frames)
                /\ DataBuffered(queue') = DataBuffered(queue) + (Len(co) + 1)
            BY <2>2, <4>2, <5>1, <6>1, Queued
          <6>3. DataBuffered(queue') + 0 <= HWM + LargestFrame + (FlushLen - 1)
            BY <1>b, <2>2, <4>1, <6>2
          <6>4. timerSet' = FALSE /\ timers' \in 0..MaxTimers /\ timers' < MaxTimers
            BY <1>t, <5>1, TimerStops
          <6>5. 0 < FlushLen
            OBVIOUS
          <6> QED BY <5>1, <6>2, <6>3, <6>4, <6>5, NoBytesFit
        <5>2. CASE /\ co' = Append(co, produced) /\ queue' = queue /\ ArmTimer
                   /\ Len(co) + 1 < FlushLen
          <6>1. DataBuffered(queue) + (Len(co) + 1) <= HWM + LargestFrame + (FlushLen - 1)
            BY <1>b, <2>2, <4>1, <5>2
          <6>2. timerSet' = TRUE /\ timers' \in 0..MaxTimers /\ timers' > 0
            <7>1. CASE timerSet
              BY <1>t, <2>2, <5>2, <7>1 DEF ArmTimer, Waiters
            <7>2. CASE ~timerSet
              <8>1. timerSet' = TRUE /\ timers' = timers + 1 /\ timers < MaxTimers
                BY <1>t, <5>2, <7>2 DEF ArmTimer, Waiters
              <8> QED BY <2>2, <8>1
            <7> QED BY <7>1, <7>2
          <6> QED BY <2>2, <4>2, <5>2, <6>1, <6>2
        <5>3. \/ /\ queue' = Append(queue, Data(Append(co, produced)))
                 /\ co' = <<>> /\ StopTimer
              \/ /\ co' = Append(co, produced) /\ queue' = queue /\ ArmTimer
                 /\ ~(Len(co) + 1 >= FlushLen)
          BY <4>1 DEF Coalesce
        <5>4. ~(Len(co) + 1 >= FlushLen) => Len(co) + 1 < FlushLen
          BY <2>2
        <5> QED BY <5>1, <5>2, <5>3, <5>4
      <4>4. Types
        BY <2>2, <3>2, <4>1, <4>3 DEF badgeVars
      <4>5. Amounts
        BY <2>2, <4>1, <4>3
      <4>6. Timed
        BY <1>t, <2>4, <3>2, <3>4, <4>1, <4>3 DEF Waiters
      <4> QED BY <4>4, <4>5, <4>6
    <3> QED BY <3>3, <3>4
  <2>5. Types /\ Amounts /\ Timed
    <3> HIDE DEF Types, Amounts, Timed
    <3> QED BY <2>3, <2>4
  <2>6. TypeOK'
    <3>1. DataTypes'
      BY <1>t, <2>1, <2>5 DEF TypeOK, DataTypes, attachVars, clientVars
    <3>2. FlagTypes'
      BY <1>t, <2>1, <2>5 DEF TypeOK, FlagTypes, attachVars, clientOf, clientVars
    <3> QED BY <1>t, <2>1, <2>5, <3>1, <3>2 DEF TypeOK, attachVars, clientOf, clientVars
  <2>7. Waiters'
    BY <1>t, <2>1, <2>5 DEF Waiters, attachVars, clientOf
  <2>8. Sizes'
    BY <1>t, <2>1, <2>5 DEF Sizes, attachVars
  <2> QED BY <2>6, <2>7, <2>8 DEF RelayInv
<1> QED BY <1>1, <1>2, <1>3, <1>4, <1>5, <1>6, <1>7, <1>8, <1>9, <1>10, <1>11, <1>12, <1>13, <1>14,
           <1>15, <1>16, <1>17, <1>18, <1>19 DEF Next

(***************************************************************************)
(* The theorems.                                                           *)
(***************************************************************************)

\* The inductive invariant holds of every behaviour.
THEOREM RelayIsSound == Spec => []RelayInv
<1>1. Init => RelayInv
  BY InitInv
<1>2. RelayInv /\ [Next]_vars => RelayInv'
  BY StepInv
<1> QED BY <1>1, <1>2, PTL DEF Spec

\* Output that waits, in the coalescing buffer or in the ring of unsent output,
\* always has a timer, a throttle or a resume that will send it.
THEOREM NothingIsStranded == Spec => []NothingStranded
<1>1. RelayInv => NothingStranded
  BY DEF RelayInv, Waiters, NothingStranded
<1> QED BY <1>1, RelayIsSound, PTL

\* A step does not add to what is buffered for a client that is hidden.
LEMMA PausedStep ==
    ASSUME RelayInv, Next, paused, paused'
    PROVE  DataBuffered(queue') <= DataBuffered(queue)
<1> USE Parameters
<1>t. TypeOK /\ Waiters /\ Sizes
  BY DEF RelayInv
<1>b. DataBuffered(queue) \in Nat /\ queue \in Seq(Frames)
  BY <1>t, PayloadType DEF TypeOK, DataTypes
<1>1. CASE queue' = queue
  BY <1>b, <1>1
<1>2. CASE queue' = Append(queue, Control)
  BY <1>b, <1>2, FrameTypes, Queued
<1>3. CASE SocketDelivers
  BY <1>b, <1>3, Unqueued DEF SocketDelivers
<1>4. CASE ClientHears
  <2>1. CASE ~(attached /\ heard)
    BY <1>1, <1>4, <2>1 DEF ClientHears
  <2>2. CASE attached /\ heard
    <3>1. Heartbeat
      BY <1>4, <2>2 DEF ClientHears, OnPtyData
    <3> QED BY <1>1, <1>2, <3>1 DEF Heartbeat
  <2> QED BY <2>1, <2>2
<1>5. CASE TimerFires
  <2>1. UNCHANGED queue
    BY <1>5 DEF TimerFires, FlushCoalesce
  <2> QED BY <1>1, <2>1
<1>6. /\ ~Drop /\ ~AttachReplay /\ ~ReplayChunk /\ ~ReplayEnds /\ ~AttachEnds
      /\ ~FlushChunk
  <2>1. mu \notin {"attach", "replay", "modes", "flush"}
    BY <1>t DEF Waiters
  <2> QED BY <2>1 DEF Drop, Release, AttachReplay, ReplayChunk, ReplayEnds, AttachEnds,
                      FlushChunk
<1>7. CASE ReadChunk \/ SessionHears \/ SessionGone \/ AttachSubscribe \/ Detach \/ Pause
           \/ Resume \/ ResumeFlush \/ BackpressureTick \/ FlushEnds
  <2>1. UNCHANGED queue
    BY <1>7 DEF ReadChunk, SessionHears, SessionGone, AttachSubscribe, Detach, Pause, Resume,
       ResumeFlush, BackpressureTick, FlushEnds
  <2> QED BY <1>1, <2>1
<1> QED BY <1>3, <1>4, <1>5, <1>6, <1>7 DEF Next

\* The output in the send queue of a client is bounded, however often the client
\* attaches and whatever the socket does, and a hidden client gets no terminal output.
THEOREM QueueStaysBounded == Spec => NothingPilesUp
<1>1. RelayInv => TypeOK /\ QueueBounded
  <2> SUFFICES ASSUME RelayInv PROVE TypeOK /\ QueueBounded
    OBVIOUS
  <2>1. TypeOK /\ Sizes /\ Len(co) \in Nat
    BY DEF RelayInv, TypeOK, DataTypes
  <2>2. DataBuffered(queue) \in Nat
    BY <2>1, PayloadType DEF TypeOK, DataTypes
  <2>3. DataBuffered(queue) <= HWM + LargestFrame + (FlushLen - 1)
    BY <2>1, <2>2, Parameters DEF Sizes
  <2> QED BY <2>1, <2>3 DEF QueueBounded
<1>2. RelayInv /\ [Next]_vars
        => [paused /\ paused' => DataBuffered(queue') <= DataBuffered(queue)]_vars
  BY PausedStep
<1> QED BY <1>1, <1>2, RelayIsSound, PTL DEF Spec, NothingPilesUp, PausedIsQuiet

(***************************************************************************)
(* What is accepted is kept until it is shown.                             *)
(***************************************************************************)

\* What the client was or will be sent, of a screen and the frames under way.
SentOf(scr, frames) ==
    (IF \E i \in DOMAIN frames : frames[i] = Reset THEN {} ELSE Range(scr))
    \cup UNION {Range(frames[i].bytes) : i \in {i \in DOMAIN frames :
                    \A j \in i..Len(frames) : frames[j] # Reset}}

\* A frame that is not a reset wipes nothing, and is not wiped.
LEMMA SentMore ==
    ASSUME NEW scr, NEW frames \in Seq(Frames), NEW f \in Frames, f # Reset
    PROVE  /\ SentOf(scr, frames) \subseteq SentOf(scr, Append(frames, f))
           /\ Range(f.bytes) \subseteq SentOf(scr, Append(frames, f))
<1> DEFINE a == Append(frames, f)
           n == Len(frames) + 1
           Upto(q) == {i \in DOMAIN q : \A j \in i..Len(q) : q[j] # Reset}
           Erases(q) == \E i \in DOMAIN q : q[i] = Reset
<1>1. /\ Len(frames) \in Nat /\ DOMAIN frames = 1..Len(frames)
      /\ Len(a) = n /\ DOMAIN a = 1..n /\ a[n] = f
      /\ \A i \in 1..Len(frames) : a[i] = frames[i]
  OBVIOUS
<1> HIDE DEF a
<1>d. \A q : SentOf(scr, q) = (IF Erases(q) THEN {} ELSE Range(scr))
                              \cup UNION {Range(q[i].bytes) : i \in Upto(q)}
  BY DEF SentOf
<1>2. Erases(a) => Erases(frames)
  <2> SUFFICES ASSUME NEW i \in 1..n, a[i] = Reset PROVE Erases(frames)
    BY <1>1
  <2>1. i # n
    BY <1>1
  <2>2. i \in 1..Len(frames) /\ frames[i] = Reset
    BY <1>1, <2>1
  <2> QED BY <1>1, <2>2
<1>3. ASSUME NEW i \in Upto(frames) PROVE i \in Upto(a) /\ a[i] = frames[i]
  <2>1. i \in 1..Len(frames) /\ \A j \in i..Len(frames) : frames[j] # Reset
    BY <1>1
  <2>2. ASSUME NEW j \in i..n PROVE a[j] # Reset
    <3>1. CASE j = n
      BY <1>1, <3>1
    <3>2. CASE j # n
      <4>1. j \in i..Len(frames) /\ j \in 1..Len(frames)
        BY <1>1, <2>1, <3>2
      <4> QED BY <1>1, <2>1, <4>1
    <3> QED BY <3>1, <3>2
  <2>3. i \in 1..n
    BY <1>1, <2>1
  <2> QED BY <1>1, <2>1, <2>2, <2>3
<1>4. n \in Upto(a)
  <2>1. n \in 1..n /\ \A j \in n..n : j = n
    BY <1>1
  <2> QED BY <1>1, <2>1
<1> HIDE DEF Upto, Erases
<1>5. Range(f.bytes) \subseteq SentOf(scr, a)
  BY <1>1, <1>4, <1>d
<1>6. SentOf(scr, frames) \subseteq SentOf(scr, a)
  <2> SUFFICES ASSUME NEW x \in SentOf(scr, frames) PROVE x \in SentOf(scr, a)
    OBVIOUS
  <2>1. CASE ~Erases(frames) /\ x \in Range(scr)
    BY <1>2, <1>d, <2>1
  <2>2. ASSUME NEW i \in Upto(frames), x \in Range(frames[i].bytes)
        PROVE  x \in SentOf(scr, a)
    BY <1>3, <1>d, <2>2
  <2> QED BY <1>d, <2>1, <2>2
<1> QED BY <1>5, <1>6 DEF a

\* So it is with the frames in the queue,
LEMMA SentGrows ==
    ASSUME queue \in Seq(Frames), NEW f \in Frames, f # Reset,
           queue' = Append(queue, f), screen' = screen
    PROVE  Sent \subseteq Sent' /\ Range(f.bytes) \subseteq Sent'
<1>1. Sent = SentOf(screen, queue) /\ Sent' = SentOf(screen', queue')
  BY DEF Sent, SentOf, Wiped, Standing
<1> QED BY <1>1, SentMore

\* and with the frames an attach ends with.
LEMMA SentAtEnd ==
    ASSUME queue \in Seq(Frames), AttachEnds
    PROVE  Sent \subseteq Sent'
<1> DEFINE q == Append(queue, Control)
<1>1. Sent = SentOf(screen, queue) /\ Sent' = SentOf(screen', queue')
  BY DEF Sent, SentOf, Wiped, Standing
<1>2. q \in Seq(Frames) /\ Control \in Frames /\ Control # Reset
  BY FrameTypes DEF Control, Reset
<1>3. queue' \in {queue, q, Append(q, Control)} /\ screen' = screen
  BY DEF AttachEnds, clientVars
<1>4. SentOf(screen, queue) \subseteq SentOf(screen, q)
  BY <1>2, SentMore
<1> HIDE DEF q
<1>5. SentOf(screen, q) \subseteq SentOf(screen, Append(q, Control))
  BY <1>2, SentMore
<1> QED BY <1>1, <1>3, <1>4, <1>5

\* Two chunks joined hold the bytes of both.
LEMMA JoinedRange ==
    ASSUME NEW x \in Seq(Bytes), NEW y \in Seq(Bytes)
    PROVE  Range(x) \subseteq Range(x \o y) /\ Range(y) \subseteq Range(x \o y)
<1> DEFINE z == x \o y
<1>1. /\ DOMAIN x = 1..Len(x) /\ DOMAIN y = 1..Len(y)
      /\ Len(x) \in Nat /\ Len(y) \in Nat
      /\ DOMAIN z = 1..(Len(x) + Len(y))
      /\ \A i \in 1..Len(x) : z[i] = x[i]
      /\ \A i \in 1..Len(y) : z[Len(x) + i] = y[i]
  BY ConcatProperties
<1> HIDE DEF z
<1>2. ASSUME NEW i \in 1..Len(x) PROVE x[i] \in Range(z)
  <2>1. i \in DOMAIN z
    BY <1>1
  <2> QED BY <1>1, <2>1 DEF Range
<1>3. ASSUME NEW i \in 1..Len(y) PROVE y[i] \in Range(z)
  <2>1. Len(x) + i \in DOMAIN z
    BY <1>1
  <2> QED BY <1>1, <2>1 DEF Range
<1> QED BY <1>1, <1>2, <1>3 DEF Range, z

\* The bytes of a queue are in its first chunk or in the others.
LEMMA ContentsOfTail ==
    ASSUME NEW q \in Seq(Seq(Bytes)), q # <<>>
    PROVE  /\ Head(q) \in Seq(Bytes)
           /\ Contents(q) \subseteq Range(Head(q)) \cup Contents(Tail(q))
<1> DEFINE t == Tail(q)
           h == Head(q)
<1>1. /\ h \in Seq(Bytes) /\ h = q[1] /\ DOMAIN q = 1..Len(q) /\ Len(q) \in Nat
      /\ DOMAIN t = 1..(Len(q) - 1)
      /\ \A i \in 1..(Len(q) - 1) : t[i] = q[i + 1]
  OBVIOUS
<1> HIDE DEF t, h
<1>2. ASSUME NEW i \in 1..Len(q), i # 1 PROVE Range(q[i]) \subseteq Contents(t)
  <2>1. i - 1 \in 1..(Len(q) - 1) /\ (i - 1) + 1 = i
    BY <1>1, <1>2
  <2>2. i - 1 \in DOMAIN t /\ t[i - 1] = q[i]
    BY <1>1, <2>1
  <2> QED BY <2>2 DEF Contents
<1>3. Contents(q) \subseteq Range(h) \cup Contents(t)
  BY <1>1, <1>2 DEF Contents
<1> QED BY <1>1, <1>3 DEF t, h

\* The frame the socket takes is on the screen, unless a reset wipes it.
LEMMA SentIsShown ==
    ASSUME queue \in Seq(Frames), screen \in Seq(Bytes), SocketDelivers
    PROVE  Sent \subseteq Sent'
<1>1. /\ queue # <<>> /\ queue' = Tail(queue)
      /\ screen' = IF Head(queue) = Reset THEN <<>> ELSE screen \o Head(queue).bytes
  BY DEF SocketDelivers
<1>2. /\ Len(queue) \in Nat \ {0} /\ DOMAIN queue = 1..Len(queue) /\ Head(queue) = queue[1]
      /\ Head(queue) \in Frames
      /\ Len(queue') = Len(queue) - 1 /\ DOMAIN queue' = 1..(Len(queue) - 1)
      /\ \A i \in 1..(Len(queue) - 1) : queue'[i] = queue[i + 1]
  BY <1>1
<1>3. ASSUME NEW i \in Standing, i # 1
      PROVE  i - 1 \in Standing' /\ queue'[i - 1] = queue[i]
  <2>1. i \in 1..Len(queue) /\ \A j \in i..Len(queue) : queue[j] # Reset
    BY <1>2 DEF Standing
  <2>2. i - 1 \in 1..(Len(queue) - 1) /\ (i - 1) + 1 = i
    BY <1>2, <1>3, <2>1
  <2>3. ASSUME NEW j \in (i - 1)..(Len(queue) - 1) PROVE queue'[j] # Reset
    <3>1. j \in 1..(Len(queue) - 1) /\ j + 1 \in i..Len(queue)
      BY <1>2, <2>1, <2>2
    <3> QED BY <1>2, <2>1, <3>1
  <2>4. queue'[i - 1] = queue[i]
    BY <1>2, <2>2
  <2> QED BY <1>2, <2>2, <2>3, <2>4 DEF Standing
<1>4. ASSUME NEW i \in Standing, i # 1, NEW x \in Range(queue[i].bytes)
      PROVE  x \in Sent'
  BY <1>3, <1>4 DEF Sent
<1>5. CASE Wiped
  <2>1. ASSUME NEW i \in Standing PROVE i # 1
    <3>1. PICK k \in 1..Len(queue) : queue[k] = Reset
      BY <1>2, <1>5 DEF Wiped
    <3>2. ~(k \in i..Len(queue)) /\ i \in 1..Len(queue)
      BY <1>2, <3>1 DEF Standing
    <3> QED BY <1>2, <3>1, <3>2
  <2> QED BY <1>4, <1>5, <2>1 DEF Sent
<1>6. CASE ~Wiped
  <2>1. Head(queue) # Reset /\ ~Wiped'
    <3>1. \A i \in 1..Len(queue) : queue[i] # Reset
      BY <1>2, <1>6 DEF Wiped
    <3>2. 1 \in 1..Len(queue)
      BY <1>2
    <3>3. ASSUME NEW i \in 1..(Len(queue) - 1) PROVE queue'[i] # Reset
      <4>1. i + 1 \in 1..Len(queue)
        BY <1>2
      <4> QED BY <1>2, <3>1, <4>1
    <3> QED BY <1>2, <3>1, <3>2, <3>3 DEF Wiped
  <2> DEFINE b == Head(queue).bytes
  <2>2. screen' = screen \o b /\ b \in Seq(Bytes)
    BY <1>1, <1>2, <2>1, FrameBytes
  <2> HIDE DEF b
  <2>3. Range(screen) \subseteq Range(screen') /\ Range(b) \subseteq Range(screen')
    BY <2>2, JoinedRange
  <2>4. ASSUME NEW i \in Standing, NEW x \in Range(queue[i].bytes) PROVE x \in Sent'
    <3>1. CASE i = 1
      <4>1. x \in Range(b)
        BY <1>2, <2>4, <3>1 DEF b
      <4> QED BY <2>1, <2>3, <4>1 DEF Sent
    <3>2. CASE i # 1
      BY <1>4, <2>4, <3>2
    <3> QED BY <3>1, <3>2
  <2>5. ASSUME NEW x \in Range(screen) PROVE x \in Sent'
    BY <2>1, <2>3, <2>5 DEF Sent
  <2> QED BY <1>6, <2>4, <2>5 DEF Sent
<1> QED BY <1>5, <1>6

\* A push keeps the new chunk, and the others unless they do not fit together.
LEMMA PushedKeeps ==
    ASSUME NEW q \in Seq(Seq(Bytes)), NEW c \in Seq(Bytes)
    PROVE  /\ Range(c) \subseteq Contents(Pushed(q, c))
           /\ Pushed(q, c) # <<>> /\ Pushed(q, c)[Len(Pushed(q, c))] = c
           /\ Contents(q) \subseteq Contents(Pushed(q, c)) \/ ~Fits(Append(q, c))
<1> DEFINE p == Pushed(q, c)
<1>1. /\ p \in Seq(Seq(Bytes)) /\ p # <<>> /\ p[Len(p)] = c
      /\ Fits(Append(q, c)) => p = Append(q, c)
  BY PushedIsSuffix
<1> HIDE DEF p
<1>2. Len(p) \in DOMAIN p
  BY <1>1
<1>3. Range(c) \subseteq Contents(p)
  BY <1>1, <1>2 DEF Contents
<1>4. ASSUME p = Append(q, c)
      PROVE  Contents(q) \subseteq Contents(p)
  <2>1. ASSUME NEW i \in DOMAIN q PROVE i \in DOMAIN p /\ p[i] = q[i]
    BY <1>4
  <2> QED BY <2>1 DEF Contents
<1> QED BY <1>1, <1>3, <1>4 DEF p

\* What a step may give up: what a push to the ring of unsent output evicts, and
\* what a replay that is cut short had not looked at.
GivenUp(b) ==
    \/ b \in Contents(cbuf) /\ Overflows
    \/ b \in Contents(replay.todo) /\ CutShort

\* One step keeps the rest of what the client has or will have.
LEMMA KeptStep ==
    ASSUME RelayInv, Next, mu # "attach", attached, attached'
    PROVE  /\ \A b \in InStream \ InStream' : GivenUp(b)
           /\ Accepted => produced \in InStream'
<1> DEFINE All == Sent \cup Replayed \cup Waiting
           Kept == \A b \in All : b \in All' \/ GivenUp(b)
<1>t. TypeOK /\ Waiters /\ Sizes
  BY DEF RelayInv
<1>d. /\ queue \in Seq(Frames) /\ screen \in Seq(Bytes)
      /\ cbuf \in Seq(Seq(Bytes)) /\ co \in Seq(Bytes)
      /\ Len(co) \in Nat /\ Len(cbuf) \in Nat
  BY <1>t DEF TypeOK, DataTypes
<1>e. replay.todo \in Seq(Seq(Bytes)) /\ replay.batch \in Seq(Bytes)
  <2> DEFINE T == Seq(Seq(Bytes))
             B == Seq(Bytes)
  <2>1. replay \in [todo : T, batch : B]
    BY <1>t DEF TypeOK, DataTypes
  <2> HIDE DEF T, B
  <2>2. replay.todo \in T /\ replay.batch \in B
    BY <2>1
  <2> QED BY <2>2 DEF T, B
<1>w. Waiting = Contents(cbuf) \cup Range(co) /\ Waiting' = Contents(cbuf') \cup Range(co')
  BY DEF Waiting
<1>i. InStream = All \ {Title} /\ InStream' = All' \ {Title}
  BY DEF InStream
<1>s. UNCHANGED <<queue, screen>> => Sent' = Sent
  BY DEF Sent, Standing, Wiped
<1>r. /\ replay' = replay => Replayed' = Replayed
      /\ Replayed = Contents(replay.todo) \cup Range(replay.batch)
      /\ Replayed' = Contents(replay'.todo) \cup Range(replay'.batch)
  BY DEF Replayed
<1>n. Range(<<>>) = {} /\ Contents(<<>>) = {}
  BY DEF Range, Contents
<1>f. \A c \in Seq(Bytes) : Data(c) \in Frames /\ Data(c).bytes = c /\ Data(c) # Reset
  BY FrameTypes DEF Data, Reset
<1>o. ASSUME NEW c \in Seq(Bytes), cbuf' = Pushed(cbuf, c)
      PROVE  /\ Range(c) \subseteq Contents(cbuf')
             /\ \A b \in Contents(cbuf) : b \in Contents(cbuf') \/ GivenUp(b)
  <2>1. /\ Range(c) \subseteq Contents(cbuf')
        /\ cbuf' # <<>> /\ cbuf'[Len(cbuf')] = c
        /\ Contents(cbuf) \subseteq Contents(cbuf') \/ ~Fits(Append(cbuf, c))
    BY <1>d, <1>o, PushedKeeps
  <2>2. ~Fits(Append(cbuf, c)) => Overflows
    BY <1>o, <2>1 DEF Overflows
  <2>3. ASSUME NEW b \in Contents(cbuf), b \notin Contents(cbuf') PROVE GivenUp(b)
    <3>1. Overflows
      BY <2>1, <2>2, <2>3
    <3> QED BY <2>3, <3>1 DEF GivenUp
  <2> QED BY <2>1, <2>3
<1>1. ASSUME UNCHANGED <<queue, screen, replay, cbuf, co>> PROVE Kept
  BY <1>1, <1>s, <1>r, <1>w
<1>2. ASSUME ClientHears PROVE Kept /\ (Accepted => produced \in All')
  <2>1. /\ produced \in Bytes /\ screen' = screen /\ produced' = produced
        /\ <<produced>> \in Seq(Bytes) /\ Len(<<produced>>) = 1
        /\ produced \in Range(<<produced>>) /\ replay' = replay
    BY <1>t, <1>2, ByteTypes DEF ClientHears, Waiters, clientVars, attachVars, Range
  <2>2. ASSUME ~(attached /\ heard) PROVE Kept /\ ~Accepted
    <3>1. UNCHANGED <<queue, screen, replay, cbuf, co>>
      BY <1>2, <2>1, <2>2 DEF ClientHears, bufferVars
    <3> QED BY <1>1, <2>2, <3>1 DEF Accepted
  <2>3. ASSUME attached, heard, paused \/ throttled' PROVE Kept /\ produced \in All'
    <3>1. /\ cbuf' = Pushed(cbuf, <<produced>>) /\ co' = co
          /\ queue' = queue \/ queue' = Append(queue, Control)
      BY <1>2, <2>3 DEF ClientHears, OnPtyData, HoldBack, Heartbeat, badgeVars
    <3>2. Sent \subseteq Sent'
      <4>1. Control \in Frames /\ Control # Reset
        BY FrameTypes DEF Control, Reset
      <4> QED BY <1>d, <1>s, <2>1, <3>1, <4>1, SentGrows
    <3>3. /\ Range(<<produced>>) \subseteq Contents(cbuf')
          /\ \A b \in Contents(cbuf) : b \in Contents(cbuf') \/ GivenUp(b)
      BY <1>o, <2>1, <3>1
    <3> QED BY <1>r, <1>w, <2>1, <3>1, <3>2, <3>3
  <2>4. ASSUME attached, heard, ~(paused \/ throttled')
        PROVE  Kept /\ produced \in All'
    <3> DEFINE c == Append(co, produced)
    <3>1. /\ cbuf' = cbuf
          /\ \/ queue' = Append(queue, Data(c)) /\ co' = <<>>
             \/ queue' = queue /\ co' = c
      BY <1>2, <2>4 DEF ClientHears, OnPtyData, Coalesce
    <3>2. c \in Seq(Bytes) /\ Range(co) \subseteq Range(c) /\ produced \in Range(c)
      <4>1. /\ c \in Seq(Bytes) /\ DOMAIN c = DOMAIN co \cup {Len(co) + 1}
            /\ \A i \in DOMAIN co : c[i] = co[i]
            /\ c[Len(co) + 1] = produced
        BY <1>d, <2>1
      <4> HIDE DEF c
      <4> QED BY <4>1 DEF Range
    <3> HIDE DEF c
    <3>3. CASE queue' = Append(queue, Data(c)) /\ co' = <<>>
      <4>1. Sent \subseteq Sent' /\ Range(c) \subseteq Sent'
        <5>1. Data(c) \in Frames /\ Data(c).bytes = c /\ Data(c) # Reset
          BY <1>f, <3>2
        <5> QED BY <1>d, <2>1, <3>3, <5>1, SentGrows
      <4> QED BY <1>r, <1>w, <2>1, <3>1, <3>2, <4>1
    <3>4. CASE queue' = queue /\ co' = c
      BY <1>r, <1>s, <1>w, <2>1, <3>1, <3>2, <3>4
    <3> QED BY <3>1, <3>3, <3>4
  <2> QED BY <2>2, <2>3, <2>4
<1>3. ASSUME TimerFires PROVE Kept
  <2>1. FlushCoalesce /\ screen' = screen /\ replay' = replay
    BY <1>3 DEF TimerFires, clientVars, attachVars
  <2>2. CASE co = <<>>
    <3>1. UNCHANGED <<queue, screen, replay, cbuf, co>>
      BY <2>1, <2>2 DEF FlushCoalesce
    <3> QED BY <1>1, <3>1
  <2>3. CASE co # <<>> /\ (paused \/ throttled)
    <3>1. cbuf' = Pushed(cbuf, co) /\ queue' = queue /\ co' = <<>>
      BY <2>1, <2>3 DEF FlushCoalesce
    <3>2. /\ Range(co) \subseteq Contents(cbuf')
          /\ \A b \in Contents(cbuf) : b \in Contents(cbuf') \/ GivenUp(b)
      BY <1>d, <1>o, <3>1
    <3> QED BY <1>r, <1>s, <1>w, <2>1, <3>1, <3>2
  <2>4. CASE co # <<>> /\ ~(paused \/ throttled)
    <3>1. cbuf' = cbuf /\ queue' = Append(queue, Data(co)) /\ co' = <<>>
      BY <2>1, <2>4 DEF FlushCoalesce
    <3>2. Sent \subseteq Sent' /\ Range(co) \subseteq Sent'
      <4>1. Data(co) \in Frames /\ Data(co).bytes = co /\ Data(co) # Reset
        BY <1>d, <1>f
      <4> QED BY <1>d, <2>1, <3>1, <4>1, SentGrows
    <3> QED BY <1>r, <1>w, <2>1, <3>1, <3>2
  <2> QED BY <2>2, <2>3, <2>4
<1>g. ASSUME NEW c \in Seq(Bytes), queue' = Append(queue, Data(c)), screen' = screen
      PROVE  Sent \subseteq Sent' /\ Range(c) \subseteq Sent'
  <2>1. Data(c) \in Frames /\ Data(c).bytes = c /\ Data(c) # Reset
    BY <1>f
  <2> QED BY <1>d, <1>g, <2>1, SentGrows
<1>h. ASSUME NEW c \in Seq(Bytes), mu = "replay", BatchHeld(c), Buffered(queue) > HWM,
             screen' = screen
      PROVE  Sent' = Sent /\ Range(c) \subseteq Waiting' /\ CutShort
  <2>1. cbuf' = Pushed(cbuf, c) /\ mu' = "modes" /\ queue' = queue
    BY <1>h DEF BatchHeld
  <2> QED BY <1>h, <1>o, <1>s, <1>w, <2>1 DEF CutShort
<1>4. ASSUME ReplayChunk PROVE Kept
  <2> DEFINE b == replay.batch \o Head(replay.todo)
             h == Head(replay.todo)
             t == Tail(replay.todo)
  <2>1. /\ mu = "replay" /\ cbuf = <<>> /\ co = <<>> /\ co' = co /\ screen' = screen
        /\ replay.todo # <<>>
    BY <1>t, <1>4 DEF ReplayChunk, Waiters, clientVars
  <2>2. Waiting = {}
    BY <1>n, <1>w, <2>1
  <2>3. h \in Seq(Bytes) /\ Contents(replay.todo) \subseteq Range(h) \cup Contents(t)
    BY <1>e, <2>1, ContentsOfTail
  <2>4. /\ b \in Seq(Bytes) /\ Range(replay.batch) \subseteq Range(b)
        /\ Range(h) \subseteq Range(b)
    BY <1>e, <2>3, JoinedRange, ConcatProperties
  <2>5. BatchFills(b) \/ BatchSent(b) \/ (Buffered(queue) > HWM /\ BatchHeld(b))
    BY <1>4 DEF ReplayChunk
  <2> HIDE DEF b, h
  <2>6. Replayed \subseteq Range(b) \cup Contents(t)
    BY <1>r, <2>3, <2>4
  <2>7. CASE BatchFills(b)
    <3>1. replay' = [todo |-> t, batch |-> b] /\ queue' = queue
      BY <2>7 DEF BatchFills
    <3>2. replay'.todo = t /\ replay'.batch = b
      BY <3>1
    <3>3. Replayed' = Contents(t) \cup Range(b)
      BY <1>r, <3>2
    <3> HIDE DEF t
    <3> QED BY <1>s, <2>1, <2>2, <2>6, <3>1, <3>3
  <2>8. CASE BatchSent(b)
    <3>1. replay' = [todo |-> t, batch |-> <<>>] /\ queue' = Append(queue, Data(b))
      BY <2>8 DEF BatchSent
    <3>2. replay'.todo = t
      BY <3>1
    <3>3. Contents(t) \subseteq Replayed'
      BY <1>r, <3>2
    <3>4. Sent \subseteq Sent' /\ Range(b) \subseteq Sent'
      BY <1>g, <2>1, <2>4, <3>1
    <3> HIDE DEF t
    <3> QED BY <2>2, <2>6, <3>3, <3>4
  <2>9. CASE Buffered(queue) > HWM /\ BatchHeld(b)
    <3>1. Sent' = Sent /\ Range(b) \subseteq Waiting' /\ CutShort
      BY <1>h, <2>1, <2>4, <2>9
    <3>2. \A x \in Contents(replay.todo) : GivenUp(x)
      BY <3>1 DEF GivenUp
    <3> QED BY <1>r, <2>2, <2>4, <3>1, <3>2
  <2> QED BY <2>5, <2>7, <2>8, <2>9
<1>5. ASSUME ReplayEnds PROVE Kept
  <2> DEFINE b == replay.batch
  <2>1. /\ mu = "replay" /\ cbuf = <<>> /\ co = <<>> /\ co' = co /\ screen' = screen
        /\ replay.todo = <<>> /\ b \in Seq(Bytes)
    BY <1>t, <1>e, <1>5 DEF ReplayEnds, Waiters, clientVars
  <2>2. Waiting = {} /\ Replayed = Range(b)
    BY <1>n, <1>r, <1>w, <2>1
  <2>3. CASE b # <<>> /\ Buffered(queue) > HWM
    <3>1. BatchHeld(b)
      BY <1>5, <2>3 DEF ReplayEnds
    <3>2. Sent' = Sent /\ Range(b) \subseteq Waiting'
      BY <1>h, <2>1, <2>3, <3>1
    <3> QED BY <2>2, <3>2
  <2>4. CASE ~(b # <<>> /\ Buffered(queue) > HWM)
    <3>1. queue' = IF b = <<>> THEN queue ELSE Append(queue, Data(b))
      BY <1>5, <2>4 DEF ReplayEnds
    <3>2. Sent \subseteq Sent' /\ Range(b) \subseteq Sent'
      <4>1. CASE b = <<>>
        BY <1>n, <1>s, <2>1, <3>1, <4>1
      <4>2. CASE b # <<>>
        BY <1>g, <2>1, <3>1, <4>2
      <4> QED BY <4>1, <4>2
    <3> QED BY <2>2, <3>2
  <2> QED BY <2>3, <2>4
<1>6. ASSUME FlushChunk PROVE Kept
  <2>1. screen' = screen /\ co' = co /\ cbuf # <<>> /\ replay' = replay
    BY <1>6 DEF FlushChunk, clientVars
  <2>2. CASE UNCHANGED <<queue, cbuf>>
    BY <1>1, <2>1, <2>2
  <2>3. CASE queue' = Append(queue, Data(Head(cbuf))) /\ cbuf' = Tail(cbuf)
    <3>1. /\ Head(cbuf) \in Seq(Bytes)
          /\ Contents(cbuf) \subseteq Range(Head(cbuf)) \cup Contents(cbuf')
      BY <1>d, <2>1, <2>3, ContentsOfTail
    <3>2. Sent \subseteq Sent' /\ Range(Head(cbuf)) \subseteq Sent'
      BY <1>g, <2>1, <2>3, <3>1
    <3> QED BY <1>r, <1>w, <2>1, <3>1, <3>2
  <2> QED BY <1>6, <2>2, <2>3 DEF FlushChunk
<1>7. ASSUME SocketDelivers PROVE Kept
  <2>1. UNCHANGED <<cbuf, co, replay>>
    BY <1>7 DEF SocketDelivers, bufferVars, attachVars
  <2>2. Sent \subseteq Sent'
    BY <1>7, <1>d, SentIsShown
  <2> QED BY <1>r, <1>w, <2>1, <2>2
<1>8. ASSUME AttachEnds PROVE Kept
  <2>1. UNCHANGED <<cbuf, co, replay>>
    BY <1>8 DEF AttachEnds, bufferVars
  <2>2. Sent \subseteq Sent'
    BY <1>8, <1>d, SentAtEnd
  <2> QED BY <1>r, <1>w, <2>1, <2>2
<1>9. ASSUME ~ClientHears PROVE ~Accepted
  <2>1. reader' = reader \/ reader # "client"
    BY <1>9 DEF Next, ReadChunk, SessionHears, SessionGone, TimerFires, AttachSubscribe,
       AttachReplay, ReplayChunk, ReplayEnds, AttachEnds, Detach, Drop, Pause, Resume,
       ResumeFlush, BackpressureTick, FlushChunk, FlushEnds, SocketDelivers, readerVars
  <2> QED BY <2>1 DEF Accepted
<1>10. ASSUME ReadChunk \/ SessionHears \/ SessionGone \/ Pause \/ Resume \/ ResumeFlush
              \/ BackpressureTick \/ FlushEnds
       PROVE  UNCHANGED <<queue, screen, replay, cbuf, co>>
  BY <1>10 DEF ReadChunk, SessionHears, SessionGone, Pause, Resume, ResumeFlush,
     BackpressureTick, FlushEnds, bufferVars, clientVars, attachVars
<1>11. ~AttachSubscribe /\ ~AttachReplay /\ ~Detach /\ ~Drop
  BY DEF AttachSubscribe, AttachReplay, Detach, Drop, Release
<1>12. Kept
  <2> HIDE DEF Kept
  <2> QED BY <1>1, <1>2, <1>3, <1>4, <1>5, <1>6, <1>7, <1>8, <1>10, <1>11 DEF Next
<1>13. Accepted => produced \in All' /\ produced \in Output
  BY <1>t, <1>2, <1>9 DEF Waiters, Accepted
<1>14. Accepted => produced \in InStream'
  <2> HIDE DEF All
  <2> QED BY <1>i, <1>13, ByteTypes
<1>15. \A b \in InStream \ InStream' : GivenUp(b)
  <2>1. \A b \in All : b \in All' \/ GivenUp(b)
    BY <1>12
  <2> HIDE DEF All
  <2> QED BY <1>i, <2>1
<1> QED BY <1>14, <1>15

\* A byte handed to an attached client, or in the snapshot of its replay, is not
\* lost before it is on its screen (wshandler.onPtyData, flushCoalesceLocked,
\* flushClientBufferLocked, replayBuffer): only the eviction from a ring of unsent
\* output that cannot hold one chunk more, and a replay that meets a full queue,
\* give output up.
THEOREM AcceptedIsKept == Spec => KeptUntilShown
<1> DEFINE Step == mu # "attach" /\ attached /\ attached' =>
                     /\ \A b \in InStream \ InStream' :
                           \/ b \in Contents(cbuf) /\ Overflows
                           \/ b \in Contents(replay.todo) /\ CutShort
                     /\ Accepted => produced \in InStream'
           Flow == <<reader, screen, queue, replay, cbuf, co>>
<1>1. RelayInv /\ [Next]_vars => [Step]_Flow
  <2> SUFFICES ASSUME RelayInv, [Next]_vars, Flow' # Flow PROVE Step
    OBVIOUS
  <2>1. Next
    BY DEF vars, readerVars, bufferVars, clientVars, attachVars
  <2> QED BY <2>1, KeptStep DEF GivenUp
<1>2. KeptUntilShown <=> [][Step]_Flow
  BY PTL DEF KeptUntilShown
<1> HIDE DEF Step, Flow
<1> QED BY <1>1, <1>2, RelayIsSound, PTL DEF Spec

(***************************************************************************)
(* How often a byte stands in a queue of chunks.                           *)
(***************************************************************************)

\* It is a number, the places being some of the positions.
LEMMA OccursNat ==
    ASSUME NEW S, NEW q \in Seq(Seq(S)), NEW b
    PROVE  /\ IsFiniteSet({p \in Positions(q) : q[p[1]][p[2]] = b})
           /\ Occurrences(b, q) \in Nat
<1>1. IsFiniteSet(Positions(q))
  BY PositionsFinite
<1>2. IsFiniteSet({p \in Positions(q) : q[p[1]][p[2]] = b})
  BY <1>1, FS_Subset
<1> QED BY <1>2, FS_CardinalityType DEF Occurrences

\* A position of a queue.
LEMMA PositionIs ==
    ASSUME NEW S, NEW q \in Seq(Seq(S)), NEW p
    PROVE  p \in Positions(q) <=> /\ p = <<p[1], p[2]>>
                                  /\ p[1] \in 1..Len(q) /\ p[2] \in 1..Len(q[p[1]])
<1>1. DOMAIN q = 1..Len(q) /\ \A i \in 1..Len(q) : DOMAIN q[i] = 1..Len(q[i])
  <2>1. ASSUME NEW i \in 1..Len(q) PROVE DOMAIN q[i] = 1..Len(q[i])
    <3>1. q[i] \in Seq(S)
      OBVIOUS
    <3> QED BY <3>1
  <2> QED BY <2>1
<1>2. ASSUME p \in Positions(q)
      PROVE  /\ p = <<p[1], p[2]>>
             /\ p[1] \in 1..Len(q) /\ p[2] \in 1..Len(q[p[1]])
  <2>1. PICK i \in DOMAIN q : p \in {i} \X DOMAIN q[i]
    BY <1>2 DEF Positions
  <2> QED BY <1>1, <2>1
<1>3. ASSUME /\ p = <<p[1], p[2]>>
             /\ p[1] \in 1..Len(q) /\ p[2] \in 1..Len(q[p[1]])
      PROVE  p \in Positions(q)
  <2>1. p \in {p[1]} \X DOMAIN q[p[1]]
    BY <1>1, <1>3
  <2> QED BY <1>1, <1>3, <2>1 DEF Positions
<1> QED BY <1>2, <1>3

\* A byte that stands nowhere.
LEMMA OccursNowhere ==
    ASSUME NEW S, NEW q \in Seq(Seq(S)), NEW b,
           \A i \in 1..Len(q) : q[i] = <<>>
    PROVE  Occurrences(b, q) = 0
<1>1. ASSUME NEW p \in Positions(q) PROVE FALSE
  <2>1. p[1] \in 1..Len(q) /\ p[2] \in 1..Len(q[p[1]])
    BY PositionIs
  <2>2. q[p[1]] = <<>>
    BY <2>1
  <2> QED BY <2>1, <2>2
<1>2. {p \in Positions(q) : q[p[1]][p[2]] = b} = {}
  BY <1>1
<1> QED BY <1>2, FS_EmptySet DEF Occurrences

\* Places of the second queue lie behind those of the first.
LEMMA OccursConcat ==
    ASSUME NEW S, NEW s \in Seq(Seq(S)), NEW t \in Seq(Seq(S)), NEW b
    PROVE  /\ s \o t \in Seq(Seq(S))
           /\ Occurrences(b, s \o t) = Occurrences(b, s) + Occurrences(b, t)
<1> DEFINE n == Len(s)
           u == s \o t
           A == {p \in Positions(s) : s[p[1]][p[2]] = b}
           B == {p \in Positions(t) : t[p[1]][p[2]] = b}
           C == {p \in Positions(u) : u[p[1]][p[2]] = b}
           D == {p \in C : p[1] > n}
           f == [p \in B |-> <<p[1] + n, p[2]>>]
<1>1. /\ u \in Seq(Seq(S)) /\ Len(u) = n + Len(t) /\ n \in Nat /\ Len(t) \in Nat
      /\ \A i \in 1..n : u[i] = s[i]
      /\ \A i \in 1..Len(t) : u[n + i] = t[i]
  BY ConcatProperties, SMTT(30)
<1> HIDE DEF n, u
<1>2. ASSUME NEW p PROVE p \in A <=> p \in C /\ ~(p[1] > n)
  <2>1. p \in A <=> /\ p = <<p[1], p[2]>> /\ p[1] \in 1..n /\ p[2] \in 1..Len(s[p[1]])
                    /\ s[p[1]][p[2]] = b
    BY PositionIs DEF n
  <2>2. p \in C <=> /\ p = <<p[1], p[2]>> /\ p[1] \in 1..Len(u) /\ p[2] \in 1..Len(u[p[1]])
                    /\ u[p[1]][p[2]] = b
    BY <1>1, PositionIs
  <2>3. p[1] \in 1..n <=> p[1] \in 1..Len(u) /\ ~(p[1] > n)
    BY <1>1, SMTT(30)
  <2>4. p[1] \in 1..n => u[p[1]] = s[p[1]]
    BY <1>1, SMTT(30)
  <2> QED BY <2>1, <2>2, <2>3, <2>4
<1>3. ASSUME NEW p \in B
      PROVE  /\ p = <<p[1], p[2]>> /\ p[1] \in Nat
             /\ f[p] \in D
  <2>1. /\ p = <<p[1], p[2]>> /\ p[1] \in 1..Len(t) /\ p[2] \in 1..Len(t[p[1]])
        /\ t[p[1]][p[2]] = b
    BY PositionIs
  <2> DEFINE r == <<p[1] + n, p[2]>>
  <2>2. /\ r[1] = p[1] + n /\ r[2] = p[2] /\ r = <<r[1], r[2]>>
        /\ p[1] + n \in 1..Len(u) /\ p[1] + n > n /\ u[p[1] + n] = t[p[1]]
    <3>1. u[n + p[1]] = t[p[1]] /\ n + p[1] = p[1] + n
      BY <1>1, <2>1
    <3>2. r[1] = p[1] + n /\ r[2] = p[2] /\ r = <<r[1], r[2]>>
      OBVIOUS
    <3>3. p[1] + n \in 1..Len(u) /\ p[1] + n > n
      <4> DEFINE l == Len(t)
                 h == Len(u)
                 m == p[1]
      <4>1. n \in Nat /\ l \in Nat /\ h = n + l /\ m \in 1..l
        BY <1>1, <2>1
      <4> HIDE DEF A, B, C, D, f, l, h, m, r
      <4>2. m + n \in 1..h /\ m + n > n
        BY <4>1
      <4> QED BY <4>2 DEF l, h, m
    <3> HIDE DEF r
    <3> QED BY <3>1, <3>2, <3>3
  <2>3. r \in Positions(u)
    BY <1>1, <2>1, <2>2, PositionIs
  <2>4. r \in D
    BY <2>1, <2>2, <2>3
  <2> QED BY <2>1, <2>4
<1>4. ASSUME NEW r \in D PROVE \E p \in B : f[p] = r
  <2>1. /\ r = <<r[1], r[2]>> /\ r[1] \in 1..Len(u) /\ r[2] \in 1..Len(u[r[1]])
        /\ u[r[1]][r[2]] = b /\ r[1] > n
    BY <1>1, PositionIs
  <2> DEFINE p == <<r[1] - n, r[2]>>
  <2>2. /\ p[1] = r[1] - n /\ p[2] = r[2] /\ p = <<p[1], p[2]>>
        /\ r[1] - n \in 1..Len(t) /\ u[r[1]] = t[r[1] - n] /\ (r[1] - n) + n = r[1]
    <3>1. r[1] - n \in 1..Len(t) /\ n + (r[1] - n) = r[1] /\ (r[1] - n) + n = r[1]
      BY <1>1, <2>1, SMTT(30)
    <3>2. u[n + (r[1] - n)] = t[r[1] - n]
      BY <1>1, <3>1
    <3>3. p[1] = r[1] - n /\ p[2] = r[2] /\ p = <<p[1], p[2]>>
      OBVIOUS
    <3> HIDE DEF p
    <3> QED BY <3>1, <3>2, <3>3
  <2>3. p \in Positions(t)
    BY <2>1, <2>2, PositionIs
  <2>4. p \in B
    BY <2>1, <2>2, <2>3
  <2>5. f[p] = <<p[1] + n, p[2]>>
    BY <2>4, SMTT(30)
  <2> QED BY <2>1, <2>2, <2>4, <2>5
<1>5. f \in Bijection(B, D)
  <2>1. f \in [B -> D]
    BY <1>3
  <2>2. ASSUME NEW p \in B, NEW r \in B, f[p] = f[r] PROVE p = r
    <3>1. <<p[1] + n, p[2]>> = <<r[1] + n, r[2]>>
      BY <2>2, SMTT(30)
    <3>2. p[1] \in Nat /\ r[1] \in Nat
      BY <1>3
    <3>3. p[1] = r[1] /\ p[2] = r[2]
      BY <1>1, <3>1, <3>2, SMTT(30)
    <3> QED BY <1>3, <3>3
  <2> HIDE DEF f, B, D
  <2> QED BY <1>4, <2>1, <2>2 DEF Bijection, Injection, Surjection, IsInjective
<1>6. IsFiniteSet(A) /\ IsFiniteSet(B) /\ IsFiniteSet(C)
  <2>1. IsFiniteSet(A)
    BY OccursNat
  <2>2. IsFiniteSet(B)
    BY OccursNat
  <2>3. IsFiniteSet(C)
    <3>1. u \in Seq(Seq(S))
      BY <1>1
    <3> HIDE DEF u
    <3> QED BY <3>1, OccursNat
  <2> QED BY <2>1, <2>2, <2>3
<1>7. C = A \cup D /\ A \cap D = {}
  <2> HIDE DEF A, C
  <2> QED BY <1>2
<1>8. Cardinality(D) = Cardinality(B) /\ IsFiniteSet(D)
  <2>1. IsFiniteSet(B) /\ f \in Bijection(B, D)
    BY <1>5, <1>6
  <2> HIDE DEF A, B, C, D, f
  <2>2. ExistsBijection(B, D)
    BY <2>1 DEF ExistsBijection
  <2> QED BY <2>1, <2>2, FS_Bijection
<1>9. Cardinality(C) = Cardinality(A) + Cardinality(B)
  <2> HIDE DEF A, B, C, D, f
  <2>1. Cardinality(A \cap D) = 0
    BY <1>7, FS_EmptySet
  <2>2. Cardinality(A \cup D) = Cardinality(A) + Cardinality(D) - Cardinality(A \cap D)
    BY <1>6, <1>8, FS_Union
  <2>3. Cardinality(A) \in Nat /\ Cardinality(B) \in Nat
    BY <1>6, FS_CardinalityType
  <2> QED BY <1>7, <1>8, <2>1, <2>2, <2>3
<1> QED BY <1>1, <1>9 DEF u, Occurrences

\* The places in one chunk.
LEMMA OccursInOne ==
    ASSUME NEW S, NEW c \in Seq(S), NEW b
    PROVE  Occurrences(b, <<c>>) = Cardinality({i \in DOMAIN c : c[i] = b})
<1> DEFINE A == {i \in DOMAIN c : c[i] = b}
           B == {p \in Positions(<<c>>) : <<c>>[p[1]][p[2]] = b}
           f == [i \in A |-> <<1, i>>]
<1>1. DOMAIN c = 1..Len(c) /\ Len(c) \in Nat /\ <<c>> \in Seq(Seq(S)) /\ Len(<<c>>) = 1
      /\ <<c>>[1] = c
  OBVIOUS
<1>2. ASSUME NEW i \in A PROVE f[i] \in B
  <2> DEFINE r == <<1, i>>
  <2>1. r[1] = 1 /\ r[2] = i /\ r = <<r[1], r[2]>> /\ 1 \in 1..Len(<<c>>)
    BY <1>1
  <2>2. i \in 1..Len(c) /\ c[i] = b
    BY <1>1
  <2> HIDE DEF r
  <2>3. r \in Positions(<<c>>)
    BY <1>1, <2>1, <2>2, PositionIs
  <2>4. r \in B
    BY <1>1, <2>1, <2>2, <2>3
  <2> QED BY <2>4 DEF r
<1>3. ASSUME NEW p \in B PROVE p[2] \in A /\ f[p[2]] = p
  <2>1. /\ p = <<p[1], p[2]>> /\ p[1] \in 1..Len(<<c>>) /\ p[2] \in 1..Len(<<c>>[p[1]])
        /\ <<c>>[p[1]][p[2]] = b
    BY <1>1, PositionIs
  <2>2. p[1] = 1
    BY <1>1, <2>1
  <2>3. p[2] \in A
    BY <1>1, <2>1, <2>2
  <2> QED BY <2>1, <2>2, <2>3
<1>4. f \in Bijection(A, B)
  <2>1. f \in [A -> B]
    BY <1>2
  <2>2. ASSUME NEW i \in A, NEW j \in A, f[i] = f[j] PROVE i = j
    <3>1. <<1, i>> = <<1, j>>
      BY <2>2
    <3> QED BY <3>1
  <2> HIDE DEF f, A, B
  <2> QED BY <1>3, <2>1, <2>2 DEF Bijection, Injection, Surjection, IsInjective
<1>5. IsFiniteSet(A)
  <2>1. IsFiniteSet(DOMAIN c)
    BY <1>1, FS_Interval
  <2> QED BY <2>1, FS_Subset
<1> HIDE DEF f, A, B
<1>6. Cardinality(B) = Cardinality(A)
  <2>1. ExistsBijection(A, B)
    BY <1>4 DEF ExistsBijection
  <2> QED BY <1>5, <2>1, FS_Bijection
<1> QED BY <1>6 DEF A, B, Occurrences

\* One byte stands once in itself, and no other does.
LEMMA OccursByte ==
    ASSUME NEW x, NEW b
    PROVE  Occurrences(b, <<<<x>>>>) = IF x = b THEN 1 ELSE 0
<1> DEFINE c == <<x>>
           A == {i \in DOMAIN c : c[i] = b}
<1>1. c \in Seq({x}) /\ DOMAIN c = {1} /\ c[1] = x
  OBVIOUS
<1>2. Occurrences(b, <<c>>) = Cardinality(A)
  BY <1>1, OccursInOne
<1>3. A = IF x = b THEN {1} ELSE {}
  BY <1>1
<1> HIDE DEF A
<1>4. Cardinality(A) = IF x = b THEN 1 ELSE 0
  BY <1>3, FS_EmptySet, FS_Singleton
<1> QED BY <1>2, <1>4

\* A chunk joined of two.
LEMMA OccursJoined ==
    ASSUME NEW S, NEW c \in Seq(S), NEW d \in Seq(S), NEW b
    PROVE  Occurrences(b, <<c \o d>>) = Occurrences(b, <<c>>) + Occurrences(b, <<d>>)
<1> DEFINE n == Len(c)
           u == c \o d
           A == {i \in DOMAIN c : c[i] = b}
           B == {i \in DOMAIN d : d[i] = b}
           C == {i \in DOMAIN u : u[i] = b}
           D == {i \in C : i > n}
           f == [i \in B |-> n + i]
<1>1. /\ u \in Seq(S) /\ Len(u) = n + Len(d) /\ n \in Nat /\ Len(d) \in Nat
      /\ \A i \in 1..n : u[i] = c[i]
      /\ \A i \in 1..Len(d) : u[n + i] = d[i]
  BY ConcatProperties
<1>2. DOMAIN c = 1..n /\ DOMAIN d = 1..Len(d) /\ DOMAIN u = 1..(n + Len(d))
  BY <1>1
<1>3. IsFiniteSet(A) /\ IsFiniteSet(B) /\ IsFiniteSet(C)
  <2>1. IsFiniteSet(DOMAIN c) /\ IsFiniteSet(DOMAIN d) /\ IsFiniteSet(DOMAIN u)
    BY <1>1, <1>2, FS_Interval
  <2> QED BY <2>1, FS_Subset
<1>4. /\ Occurrences(b, <<c>>) = Cardinality(A) /\ Occurrences(b, <<d>>) = Cardinality(B)
      /\ Occurrences(b, <<u>>) = Cardinality(C)
  BY <1>1, OccursInOne
<1> HIDE DEF n, u
<1>5. C = A \cup D /\ A \cap D = {}
  <2>1. \A i : i \in 1..n <=> i \in 1..(n + Len(d)) /\ ~(i > n)
    BY <1>1
  <2> QED BY <1>1, <1>2, <2>1
<1>6. f \in Bijection(B, D)
  <2>1. ASSUME NEW i \in B PROVE f[i] \in D /\ i \in Nat
    <3>1. i \in 1..Len(d)
      BY <1>2
    <3>2. n + i \in 1..(n + Len(d)) /\ n + i > n /\ i \in Nat
      BY <1>1, <3>1
    <3> QED BY <1>1, <1>2, <3>1, <3>2
  <2>2. ASSUME NEW k \in D PROVE k - n \in B /\ f[k - n] = k
    <3>1. k \in 1..(n + Len(d)) /\ k > n
      BY <1>2
    <3>2. k - n \in 1..Len(d) /\ n + (k - n) = k
      BY <1>1, <3>1
    <3>3. d[k - n] = u[k]
      BY <1>1, <3>2
    <3> QED BY <1>2, <3>2, <3>3
  <2>3. f \in [B -> D]
    BY <2>1
  <2>4. ASSUME NEW i \in B, NEW j \in B, f[i] = f[j] PROVE i = j
    <3>1. n + i = n + j
      BY <2>4
    <3> QED BY <1>1, <2>1, <3>1
  <2> HIDE DEF f, B, D
  <2> QED BY <2>2, <2>3, <2>4 DEF Bijection, Injection, Surjection, IsInjective
<1> HIDE DEF A, B, C, D, f
<1>7. Cardinality(D) = Cardinality(B) /\ IsFiniteSet(D)
  <2>1. ExistsBijection(B, D)
    BY <1>6 DEF ExistsBijection
  <2> QED BY <1>3, <2>1, FS_Bijection
<1>8. Cardinality(C) = Cardinality(A) + Cardinality(B)
  <2>1. Cardinality(A \cap D) = 0
    BY <1>5, FS_EmptySet
  <2>2. Cardinality(A \cup D) = Cardinality(A) + Cardinality(D) - Cardinality(A \cap D)
    BY <1>3, <1>7, FS_Union
  <2>3. Cardinality(A) \in Nat /\ Cardinality(B) \in Nat
    BY <1>3, FS_CardinalityType
  <2> QED BY <1>5, <1>7, <2>1, <2>2, <2>3
<1> QED BY <1>4, <1>8 DEF u

\* What appending, taking the oldest and pushing do to the count.
LEMMA OccursAppended ==
    ASSUME NEW S, NEW q \in Seq(Seq(S)), NEW c \in Seq(S), NEW b
    PROVE  Occurrences(b, Append(q, c)) = Occurrences(b, q) + Occurrences(b, <<c>>)
<1> DEFINE d == <<c>>
<1>1. Append(q, c) = q \o d /\ d \in Seq(Seq(S))
  OBVIOUS
<1> HIDE DEF d
<1>2. Occurrences(b, q \o d) = Occurrences(b, q) + Occurrences(b, d)
  BY <1>1, OccursConcat
<1> QED BY <1>1, <1>2 DEF d

LEMMA OccursTail ==
    ASSUME NEW S, NEW q \in Seq(Seq(S)), q # <<>>, NEW b
    PROVE  Occurrences(b, q) = Occurrences(b, <<Head(q)>>) + Occurrences(b, Tail(q))
<1>1. /\ q = <<Head(q)>> \o Tail(q)
      /\ <<Head(q)>> \in Seq(Seq(S)) /\ Tail(q) \in Seq(Seq(S))
  OBVIOUS
<1> DEFINE h == <<Head(q)>>
           t == Tail(q)
<1>2. q = h \o t /\ h \in Seq(Seq(S)) /\ t \in Seq(Seq(S))
  BY <1>1
<1> HIDE DEF h, t
<1>3. Occurrences(b, h \o t) = Occurrences(b, h) + Occurrences(b, t)
  BY <1>2, OccursConcat
<1> QED BY <1>2, <1>3 DEF h, t

LEMMA OccursPushed ==
    ASSUME NEW S, NEW q \in Seq(Seq(S)), NEW c \in Seq(S), NEW b
    PROVE  /\ Pushed(q, c) \in Seq(Seq(S))
           /\ Occurrences(b, Pushed(q, c)) <= Occurrences(b, q) + Occurrences(b, <<c>>)
<1> DEFINE a == Append(q, c)
<1>1. a \in Seq(Seq(S)) /\ a # <<>> /\ Len(a) \in Nat
  OBVIOUS
<1>2. Occurrences(b, a) = Occurrences(b, q) + Occurrences(b, <<c>>)
  BY OccursAppended
<1> HIDE DEF a
<1>3. PICK k \in 1..Len(a) : Trim(a) = SubSeq(a, k, Len(a))
  BY <1>1, TrimmedToSuffix
<1> DEFINE l == SubSeq(a, 1, k - 1)
           r == SubSeq(a, k, Len(a))
<1>4. l \in Seq(Seq(S)) /\ r \in Seq(Seq(S)) /\ a = l \o r
  <2>1. /\ l \in Seq(Seq(S)) /\ r \in Seq(Seq(S))
        /\ Len(l) = k - 1 /\ Len(r) = Len(a) - k + 1
        /\ \A i \in 1..(k - 1) : l[i] = a[i]
        /\ \A i \in 1..(Len(a) - k + 1) : r[i] = a[i + k - 1]
    BY <1>1
  <2> HIDE DEF l, r
  <2>2. /\ l \o r \in Seq(Seq(S)) /\ Len(l \o r) = Len(a)
        /\ \A i \in 1..Len(l) : (l \o r)[i] = l[i]
        /\ \A i \in 1..Len(r) : (l \o r)[Len(l) + i] = r[i]
    <3> DEFINE T == Seq(S)
    <3>1. l \in Seq(T) /\ r \in Seq(T)
      BY <2>1
    <3> HIDE DEF T
    <3>2. /\ l \o r \in Seq(T) /\ Len(l \o r) = Len(l) + Len(r)
          /\ \A i \in 1..Len(l) : (l \o r)[i] = l[i]
          /\ \A i \in 1..Len(r) : (l \o r)[Len(l) + i] = r[i]
      BY <3>1, ConcatProperties
    <3>3. Len(l) + Len(r) = Len(a)
      BY <1>1, <2>1
    <3> QED BY <3>2, <3>3 DEF T
  <2>3. ASSUME NEW i \in 1..Len(a) PROVE (l \o r)[i] = a[i]
    <3>1. CASE i < k
      <4>1. i \in 1..(k - 1) /\ i \in 1..Len(l)
        BY <2>1, <3>1
      <4> QED BY <2>1, <2>2, <4>1
    <3>2. CASE ~(i < k)
      <4> DEFINE m == i - k + 1
      <4>1. /\ m \in 1..Len(r) /\ m \in 1..(Len(a) - k + 1)
            /\ Len(l) + m = i /\ m + k - 1 = i
        BY <1>1, <2>1, <3>2
      <4> HIDE DEF m
      <4>2. (l \o r)[Len(l) + m] = r[m] /\ r[m] = a[m + k - 1]
        BY <2>1, <2>2, <4>1
      <4> QED BY <4>1, <4>2
    <3> QED BY <3>1, <3>2
  <2> QED BY <1>1, <2>1, <2>2, <2>3, SeqEqual, ZenonT(30)
<1> HIDE DEF l, r
<1>5. Occurrences(b, a) = Occurrences(b, l) + Occurrences(b, r)
  BY <1>4, OccursConcat
<1>6. Occurrences(b, l) \in Nat /\ Occurrences(b, r) \in Nat
  BY <1>4, OccursNat
<1>7. Pushed(q, c) = r
  BY <1>3 DEF r, a, Pushed
<1> QED BY <1>2, <1>4, <1>5, <1>6, <1>7

(***************************************************************************)
(* What the client has or will have, byte by byte.                         *)
(***************************************************************************)

Erased(frames) == \E i \in DOMAIN frames : frames[i] = Reset
Live(frames) ==
    [i \in DOMAIN frames |->
        IF \A j \in i..Len(frames) : frames[j] # Reset THEN frames[i].bytes ELSE <<>>]

\* Times a byte is on the screen or under way to it.
Shown(b, scr, frames) ==
    Occurrences(b, <<IF Erased(frames) THEN <<>> ELSE scr>>) + Occurrences(b, Live(frames))

\* The live bytes of frames are chunks.
LEMMA LiveType ==
    ASSUME NEW frames \in Seq(Frames)
    PROVE  Live(frames) \in Seq(Seq(Bytes)) /\ Len(Live(frames)) = Len(frames)
<1>1. DOMAIN frames = 1..Len(frames) /\ Len(frames) \in Nat
  OBVIOUS
<1>2. ASSUME NEW i \in 1..Len(frames)
      PROVE  (IF \A j \in i..Len(frames) : frames[j] # Reset THEN frames[i].bytes ELSE <<>>)
                \in Seq(Bytes)
  <2>1. frames[i] \in Frames
    OBVIOUS
  <2>2. frames[i].bytes \in Seq(Bytes) /\ <<>> \in Seq(Bytes)
    BY <2>1, FrameBytes
  <2> QED BY <2>2
<1>3. Live(frames) = [i \in 1..Len(frames) |->
        IF \A j \in i..Len(frames) : frames[j] # Reset THEN frames[i].bytes ELSE <<>>]
  BY <1>1 DEF Live
<1> QED BY <1>1, <1>2, <1>3

\* The counts are numbers.
LEMMA ShownNat ==
    ASSUME NEW scr \in Seq(Bytes), NEW frames \in Seq(Frames), NEW b
    PROVE  /\ Shown(b, scr, frames) \in Nat
           /\ <<IF Erased(frames) THEN <<>> ELSE scr>> \in Seq(Seq(Bytes))
<1> DEFINE s == IF Erased(frames) THEN <<>> ELSE scr
<1>1. s \in Seq(Bytes)
  OBVIOUS
<1> HIDE DEF s
<1>2. <<s>> \in Seq(Seq(Bytes))
  BY <1>1
<1>3. Occurrences(b, <<s>>) \in Nat
  BY <1>2, OccursNat
<1>4. Occurrences(b, Live(frames)) \in Nat
  BY LiveType, OccursNat
<1> QED BY <1>2, <1>3, <1>4 DEF s, Shown

\* A frame more, which wipes nothing.
LEMMA ShownQueued ==
    ASSUME NEW scr \in Seq(Bytes), NEW frames \in Seq(Frames),
           NEW f \in Frames, f # Reset, NEW b
    PROVE  Shown(b, scr, Append(frames, f)) = Shown(b, scr, frames) + Occurrences(b, <<f.bytes>>)
<1> DEFINE a == Append(frames, f)
           n == Len(frames)
<1>1. /\ a \in Seq(Frames) /\ n \in Nat /\ Len(a) = n + 1 /\ a[n + 1] = f
      /\ \A i \in 1..n : a[i] = frames[i]
      /\ DOMAIN a = 1..(n + 1) /\ DOMAIN frames = 1..n
  OBVIOUS
<1> HIDE DEF a
<1>2. Erased(a) <=> Erased(frames)
  <2>1. ASSUME NEW i \in 1..(n + 1), a[i] = Reset PROVE \E k \in 1..n : frames[k] = Reset
    <3>1. i # n + 1
      BY <1>1, <2>1
    <3>2. i \in 1..n
      BY <1>1, <3>1
    <3> QED BY <1>1, <2>1, <3>2
  <2>2. ASSUME NEW i \in 1..n, frames[i] = Reset PROVE \E k \in 1..(n + 1) : a[k] = Reset
    <3>1. i \in 1..(n + 1) /\ a[i] = Reset
      BY <1>1, <2>2
    <3> QED BY <3>1
  <2> QED BY <1>1, <2>1, <2>2 DEF Erased
<1>3. Live(a) = Append(Live(frames), f.bytes)
  <2> DEFINE l == Live(frames)
             p == Append(l, f.bytes)
  <2>0. f.bytes \in Seq(Bytes)
    BY FrameBytes
  <2>1. /\ l \in Seq(Seq(Bytes)) /\ Len(l) = n
        /\ Live(a) \in Seq(Seq(Bytes)) /\ Len(Live(a)) = n + 1
    BY <1>1, LiveType
  <2>2. /\ p \in Seq(Seq(Bytes)) /\ Len(p) = n + 1 /\ p[n + 1] = f.bytes
        /\ \A i \in 1..n : p[i] = l[i]
    <3> HIDE DEF l
    <3> QED BY <1>1, <2>0, <2>1
  <2>3. ASSUME NEW i \in 1..(n + 1) PROVE Live(a)[i] = p[i]
    <3>1. CASE i = n + 1
      <4>1. \A j \in i..(n + 1) : j = n + 1
        BY <1>1, <3>1
      <4>2. Live(a)[i] = f.bytes
        BY <1>1, <3>1, <4>1 DEF Live
      <4> QED BY <2>2, <3>1, <4>2
    <3>2. CASE i # n + 1
      <4>1. i \in 1..n
        BY <1>1, <3>2
      <4>2. (\A j \in i..(n + 1) : a[j] # Reset) <=> (\A j \in i..n : frames[j] # Reset)
        <5>1. \A j \in i..n : j \in i..(n + 1) /\ a[j] = frames[j]
          BY <1>1, <4>1
        <5>2. \A j \in i..(n + 1) : j \in i..n \/ j = n + 1
          BY <1>1, <4>1
        <5> QED BY <1>1, <5>1, <5>2
      <4>3. Live(a)[i] = IF \A j \in i..(n + 1) : a[j] # Reset THEN a[i].bytes ELSE <<>>
        BY <1>1 DEF Live
      <4>4. l[i] = IF \A j \in i..n : frames[j] # Reset THEN frames[i].bytes ELSE <<>>
        BY <1>1, <4>1 DEF Live
      <4>5. a[i] = frames[i] /\ p[i] = l[i]
        BY <1>1, <2>2, <4>1
      <4> QED BY <4>2, <4>3, <4>4, <4>5
    <3> QED BY <3>1, <3>2
  <2> HIDE DEF p
  <2>4. Live(a) = p
    BY <1>1, <2>1, <2>2, <2>3, SeqEqual
  <2> QED BY <2>4 DEF p
<1>4. Occurrences(b, Append(Live(frames), f.bytes))
        = Occurrences(b, Live(frames)) + Occurrences(b, <<f.bytes>>)
  <2>1. f.bytes \in Seq(Bytes) /\ Live(frames) \in Seq(Seq(Bytes))
    BY FrameBytes, LiveType
  <2> QED BY <2>1, OccursAppended
<1>5. /\ Occurrences(b, Live(frames)) \in Nat
      /\ Occurrences(b, <<f.bytes>>) \in Nat
      /\ Occurrences(b, <<IF Erased(frames) THEN <<>> ELSE scr>>) \in Nat
  <2>1. f.bytes \in Seq(Bytes) /\ Live(frames) \in Seq(Seq(Bytes))
    BY FrameBytes, LiveType
  <2>2. <<f.bytes>> \in Seq(Seq(Bytes))
    BY <2>1
  <2> QED BY <2>1, <2>2, ShownNat, OccursNat
<1>6. Shown(b, scr, a) = Occurrences(b, <<IF Erased(frames) THEN <<>> ELSE scr>>)
                           + Occurrences(b, Live(a))
  BY <1>2 DEF Shown
<1> QED BY <1>3, <1>4, <1>5, <1>6 DEF a, Shown

\* A frame that wipes everything.
LEMMA ShownReset ==
    ASSUME NEW scr \in Seq(Bytes), NEW frames \in Seq(Frames), NEW b
    PROVE  Shown(b, scr, Append(frames, Reset)) = 0
<1> DEFINE a == Append(frames, Reset)
           n == Len(frames) + 1
<1>1. a \in Seq(Frames) /\ n \in Nat \ {0} /\ Len(a) = n /\ a[n] = Reset /\ DOMAIN a = 1..n
  BY FrameTypes
<1> HIDE DEF a, n
<1>2. Erased(a)
  BY <1>1 DEF Erased
<1>3. ASSUME NEW i \in 1..n PROVE Live(a)[i] = <<>>
  <2>1. n \in i..n
    BY <1>1
  <2> QED BY <1>1, <2>1 DEF Live
<1>4. Live(a) \in Seq(Seq(Bytes)) /\ Len(Live(a)) = n
  BY <1>1, LiveType
<1>5. Occurrences(b, Live(a)) = 0
  BY <1>3, <1>4, OccursNowhere
<1>6. Occurrences(b, <<<<>>>>) = 0
  <2> DEFINE e == <<<<>>>>
  <2>1. e \in Seq(Seq(Bytes)) /\ \A i \in 1..Len(e) : e[i] = <<>>
    OBVIOUS
  <2> HIDE DEF e
  <2>2. Occurrences(b, e) = 0
    BY <2>1, OccursNowhere
  <2> QED BY <2>2 DEF e
<1>7. Shown(b, scr, a) = 0
  BY <1>2, <1>5, <1>6 DEF Shown
<1> QED BY <1>7 DEF a

\* The frame the socket takes goes to the screen, and counts there.
LEMMA ShownDelivered ==
    ASSUME NEW scr \in Seq(Bytes), NEW frames \in Seq(Frames), frames # <<>>, NEW b,
           NEW s2, s2 = IF Head(frames) = Reset THEN <<>> ELSE scr \o Head(frames).bytes
    PROVE  Shown(b, s2, Tail(frames)) = Shown(b, scr, frames)
<1> DEFINE t == Tail(frames)
           h == Head(frames)
           n == Len(frames)
           l == Live(frames)
<1>1. /\ t \in Seq(Frames) /\ n \in Nat \ {0} /\ Len(t) = n - 1 /\ h = frames[1] /\ h \in Frames
      /\ \A i \in 1..(n - 1) : t[i] = frames[i + 1]
      /\ DOMAIN t = 1..(n - 1) /\ DOMAIN frames = 1..n
  OBVIOUS
<1> HIDE DEF t, h
<1>2. Erased(frames) <=> h = Reset \/ Erased(t)
  <2>1. ASSUME NEW i \in 1..n, frames[i] = Reset, i # 1
        PROVE \E k \in 1..(n - 1) : t[k] = Reset
    <3>1. i - 1 \in 1..(n - 1) /\ (i - 1) + 1 = i
      BY <1>1, <2>1
    <3>2. t[i - 1] = frames[(i - 1) + 1]
      BY <1>1, <3>1
    <3> QED BY <2>1, <3>1, <3>2
  <2>2. ASSUME NEW i \in 1..(n - 1), t[i] = Reset PROVE \E k \in 1..n : frames[k] = Reset
    <3>1. i + 1 \in 1..n /\ frames[i + 1] = Reset
      BY <1>1, <2>2
    <3> QED BY <3>1
  <2>3. 1 \in 1..n
    BY <1>1
  <2> QED BY <1>1, <2>1, <2>2, <2>3 DEF Erased
<1>3. /\ l \in Seq(Seq(Bytes)) /\ Len(l) = n /\ l # <<>>
      /\ Live(t) \in Seq(Seq(Bytes)) /\ Len(Live(t)) = n - 1
  <2>1. /\ l \in Seq(Seq(Bytes)) /\ Len(l) = n
        /\ Live(t) \in Seq(Seq(Bytes)) /\ Len(Live(t)) = n - 1
    BY <1>1, LiveType
  <2> HIDE DEF l
  <2> QED BY <1>1, <2>1
<1>4. Head(l) = IF Erased(frames) THEN <<>> ELSE h.bytes
  <2>1. Head(l) = l[1] /\ 1 \in 1..n
    <3> HIDE DEF l
    <3> QED BY <1>1, <1>3
  <2>2. l[1] = IF \A j \in 1..n : frames[j] # Reset THEN frames[1].bytes ELSE <<>>
    BY <1>1, <2>1 DEF Live
  <2> QED BY <1>1, <2>1, <2>2 DEF Erased
<1>5. Tail(l) = Live(t)
  <2>1. /\ Tail(l) \in Seq(Seq(Bytes)) /\ Len(Tail(l)) = n - 1
        /\ \A i \in 1..(n - 1) : Tail(l)[i] = l[i + 1]
    <3> HIDE DEF l
    <3> QED BY <1>3
  <2>2. ASSUME NEW i \in 1..(n - 1) PROVE l[i + 1] = Live(t)[i]
    <3>1. i + 1 \in 1..n /\ i \in Nat
      BY <1>1
    <3>2. l[i + 1] = IF \A j \in (i + 1)..n : frames[j] # Reset
                     THEN frames[i + 1].bytes ELSE <<>>
      BY <1>1, <3>1 DEF Live
    <3>3. Live(t)[i] = IF \A j \in i..(n - 1) : t[j] # Reset THEN t[i].bytes ELSE <<>>
      BY <1>1 DEF Live
    <3>4. (\A j \in (i + 1)..n : frames[j] # Reset) <=> (\A j \in i..(n - 1) : t[j] # Reset)
      <4>1. ASSUME NEW j \in i..(n - 1)
            PROVE  j + 1 \in (i + 1)..n /\ t[j] = frames[j + 1]
        <5>1. j \in 1..(n - 1) /\ j + 1 \in (i + 1)..n
          BY <1>1, <3>1
        <5> QED BY <1>1, <5>1
      <4>2. ASSUME NEW j \in (i + 1)..n
            PROVE  j - 1 \in i..(n - 1) /\ t[j - 1] = frames[j]
        <5>1. j - 1 \in 1..(n - 1) /\ j - 1 \in i..(n - 1) /\ (j - 1) + 1 = j
          BY <1>1, <3>1
        <5>2. t[j - 1] = frames[(j - 1) + 1]
          BY <1>1, <5>1
        <5> QED BY <5>1, <5>2
      <4> QED BY <4>1, <4>2
    <3> QED BY <1>1, <3>2, <3>3, <3>4
  <2>3. \A i \in 1..(n - 1) : Tail(l)[i] = Live(t)[i]
    BY <2>1, <2>2
  <2> HIDE DEF l
  <2> QED BY <1>3, <2>1, <2>3, SeqEqual
<1>6. Occurrences(b, l) = Occurrences(b, <<Head(l)>>) + Occurrences(b, Live(t))
  <2> HIDE DEF l
  <2> QED BY <1>3, <1>5, OccursTail
<1>7. h.bytes \in Seq(Bytes)
  BY <1>1, FrameBytes
<1>8. Occurrences(b, <<<<>>>>) = 0
  <2> DEFINE e == <<<<>>>>
  <2>1. e \in Seq(Seq(Bytes)) /\ \A i \in 1..Len(e) : e[i] = <<>>
    OBVIOUS
  <2> HIDE DEF e
  <2>2. Occurrences(b, e) = 0
    BY <2>1, OccursNowhere
  <2> QED BY <2>2 DEF e
<1>9. Occurrences(b, <<scr \o h.bytes>>)
        = Occurrences(b, <<scr>>) + Occurrences(b, <<h.bytes>>)
  BY <1>7, OccursJoined
<1>10. /\ Occurrences(b, <<scr>>) \in Nat /\ Occurrences(b, <<h.bytes>>) \in Nat
       /\ Occurrences(b, Live(t)) \in Nat
  <2>1. <<scr>> \in Seq(Seq(Bytes)) /\ <<h.bytes>> \in Seq(Seq(Bytes))
    BY <1>7
  <2> QED BY <1>3, <2>1, OccursNat
<1> HIDE DEF l
<1>11. CASE h = Reset
  <2>1. s2 = <<>>
    BY <1>11 DEF h
  <2>2. (IF Erased(t) THEN <<>> ELSE s2) = <<>>
    BY <2>1
  <2>3. Shown(b, s2, t) = Occurrences(b, <<<<>>>>) + Occurrences(b, Live(t))
    BY <2>2 DEF Shown
  <2>4. Shown(b, scr, frames) = Occurrences(b, <<<<>>>>) + Occurrences(b, l)
    BY <1>2, <1>11 DEF Shown, l
  <2>5. Occurrences(b, l) = Occurrences(b, <<<<>>>>) + Occurrences(b, Live(t))
    BY <1>2, <1>4, <1>6, <1>11
  <2> QED BY <1>8, <1>10, <2>3, <2>4, <2>5 DEF t
<1>12. CASE h # Reset /\ Erased(frames)
  <2>1. Shown(b, s2, t) = Occurrences(b, <<<<>>>>) + Occurrences(b, Live(t))
    BY <1>2, <1>12 DEF Shown
  <2>2. Shown(b, scr, frames) = Occurrences(b, <<<<>>>>) + Occurrences(b, l)
    BY <1>12 DEF Shown, l
  <2>3. Occurrences(b, l) = Occurrences(b, <<<<>>>>) + Occurrences(b, Live(t))
    BY <1>4, <1>6, <1>12
  <2> QED BY <1>8, <1>10, <2>1, <2>2, <2>3 DEF t
<1>13. CASE h # Reset /\ ~Erased(frames)
  <2>1. s2 = scr \o h.bytes
    BY <1>13 DEF h
  <2>2. Shown(b, s2, t) = Occurrences(b, <<scr \o h.bytes>>) + Occurrences(b, Live(t))
    BY <1>2, <1>13, <2>1 DEF Shown
  <2>3. Shown(b, scr, frames) = Occurrences(b, <<scr>>) + Occurrences(b, l)
    BY <1>13 DEF Shown, l
  <2>4. Occurrences(b, l) = Occurrences(b, <<h.bytes>>) + Occurrences(b, Live(t))
    BY <1>4, <1>6, <1>13
  <2> QED BY <1>9, <1>10, <2>2, <2>3, <2>4 DEF t
<1> QED BY <1>11, <1>12, <1>13

\* Everything the client has, will have, or is about to be replayed.
Tally(scr, frames, cb, c, r) ==
    [b \in Output |-> Shown(b, scr, frames) + Occurrences(b, cb) + Occurrences(b, <<c>>)
                       + Occurrences(b, r.todo) + Occurrences(b, <<r.batch>>)]
Totals == Tally(screen, queue, cbuf, co, replay)

\* What the session has recorded, and the newest byte it may have.
Notes == [b \in Output |-> Occurrences(b, ring) + Occurrences(b, <<carry>>)]
Known == IF reader = "session" THEN produced - 1 ELSE produced

\* At most one byte stands twice, none oftener, and none that is newer than top.
Mild(f, top) ==
    /\ \A a, b \in Output : f[a] > 1 /\ f[b] > 1 => a = b /\ f[a] = 2
    /\ \A b \in Output : b > top => f[b] = 0

\* What the screen shows when some of the frames have arrived.
ShownAll(scr, frames) == [b \in Output |-> Shown(b, scr, frames)]
Arriving(scr, frames, top) ==
    \A k \in 0..Len(frames) : Mild(ShownAll(scr, SubSeq(frames, 1, k)), top)

\* The inductive invariant behind AtMostOneRepeat: the session records a byte
\* once; a byte that is in a replay, or in a snapshot although its dispatch goes
\* on, is the client's once; and whatever the client has lost by a lost
\* connection, what its terminal still shows was so, too.
OnceInv ==
    /\ \A b \in Output : Notes[b] <= 1 /\ (b > Known => Notes[b] = 0)
    /\ Mild(Totals, Known)
    /\ Arriving(screen, queue, Known)
    /\ mu # "replay" => replay = NoReplay
    /\ mu = "replay" \/ (reader = "client" /\ heard /\ Totals[produced] > 0)
         => \A b \in Output : Totals[b] <= 1

LEMMA EmptyOccurs ==
    ASSUME NEW b
    PROVE  Occurrences(b, <<<<>>>>) = 0 /\ Occurrences(b, <<>>) = 0
<1> DEFINE e == <<<<>>>>
           f == <<>>
<1>1. e \in Seq(Seq(Bytes)) /\ \A i \in 1..Len(e) : e[i] = <<>>
  OBVIOUS
<1>2. f \in Seq(Seq(Bytes)) /\ \A i \in 1..Len(f) : f[i] = <<>>
  OBVIOUS
<1> HIDE DEF e, f
<1>3. Occurrences(b, e) = 0 /\ Occurrences(b, f) = 0
  BY <1>1, <1>2, OccursNowhere
<1> QED BY <1>3 DEF e, f

LEMMA TallyIs ==
    ASSUME NEW scr \in Seq(Bytes), NEW frames \in Seq(Frames), NEW cb \in Seq(Seq(Bytes)),
           NEW c \in Seq(Bytes), NEW r \in [todo : Seq(Seq(Bytes)), batch : Seq(Bytes)]
    PROVE  /\ Tally(scr, frames, cb, c, r) \in [Output -> Nat]
           /\ \A b \in Output :
                /\ Tally(scr, frames, cb, c, r)[b]
                     = Shown(b, scr, frames) + Occurrences(b, cb) + Occurrences(b, <<c>>)
                         + Occurrences(b, r.todo) + Occurrences(b, <<r.batch>>)
                /\ Shown(b, scr, frames) \in Nat /\ Occurrences(b, cb) \in Nat
                /\ Occurrences(b, <<c>>) \in Nat
                /\ Occurrences(b, r.todo) \in Nat /\ Occurrences(b, <<r.batch>>) \in Nat
<1>1. r.todo \in Seq(Seq(Bytes)) /\ r.batch \in Seq(Bytes)
  <2> DEFINE T == Seq(Seq(Bytes))
             B == Seq(Bytes)
  <2>1. r \in [todo : T, batch : B]
    OBVIOUS
  <2> HIDE DEF T, B
  <2>2. r.todo \in T /\ r.batch \in B
    BY <2>1
  <2> QED BY <2>2 DEF T, B
<1>2. <<c>> \in Seq(Seq(Bytes)) /\ <<r.batch>> \in Seq(Seq(Bytes))
  BY <1>1
<1>3. ASSUME NEW b \in Output
      PROVE  /\ Shown(b, scr, frames) \in Nat /\ Occurrences(b, cb) \in Nat
             /\ Occurrences(b, <<c>>) \in Nat
             /\ Occurrences(b, r.todo) \in Nat /\ Occurrences(b, <<r.batch>>) \in Nat
  BY <1>1, <1>2, ShownNat, OccursNat
<1>4. ASSUME NEW b \in Output
      PROVE  Shown(b, scr, frames) + Occurrences(b, cb) + Occurrences(b, <<c>>)
               + Occurrences(b, r.todo) + Occurrences(b, <<r.batch>>) \in Nat
  <2>1. \A v, w, x, y, z \in Nat : v + w + x + y + z \in Nat
    OBVIOUS
  <2> QED BY <1>3, <2>1, Zenon
<1> DEFINE t == Tally(scr, frames, cb, c, r)
<1>5. t \in [Output -> Nat]
  BY <1>4 DEF Tally
<1>6. \A b \in Output :
        t[b] = Shown(b, scr, frames) + Occurrences(b, cb) + Occurrences(b, <<c>>)
                 + Occurrences(b, r.todo) + Occurrences(b, <<r.batch>>)
  BY DEF Tally
<1> HIDE DEF t
<1> QED BY <1>3, <1>5, <1>6 DEF t

\* Fewer of everything is as mild.
LEMMA MilderStill ==
    ASSUME NEW f \in [Output -> Nat], NEW g \in [Output -> Nat],
           \A b \in Output : g[b] <= f[b], NEW m \in Int, NEW n \in Int, m <= n, Mild(f, m)
    PROVE  Mild(g, n)
<1>0. Output \subseteq Nat
  BY DEF Output
<1>1. ASSUME NEW a \in Output, NEW b \in Output, g[a] > 1, g[b] > 1 PROVE a = b /\ g[a] = 2
  <2>1. f[a] \in Nat /\ f[b] \in Nat /\ g[a] \in Nat /\ g[b] \in Nat
        /\ g[a] <= f[a] /\ g[b] <= f[b]
    OBVIOUS
  <2>2. f[a] > 1 /\ f[b] > 1
    BY <1>1, <2>1
  <2>3. a = b /\ f[a] = 2
    BY <2>2 DEF Mild
  <2> QED BY <1>1, <2>1, <2>3
<1>2. ASSUME NEW b \in Output, b > n PROVE g[b] = 0
  <2>1. b > m /\ f[b] \in Nat /\ g[b] \in Nat /\ g[b] <= f[b]
    BY <1>0, <1>2
  <2>2. f[b] = 0
    BY <2>1 DEF Mild
  <2> QED BY <2>1, <2>2
<1> QED BY <1>1, <1>2 DEF Mild

LEMMA ShownAllType ==
    ASSUME NEW scr \in Seq(Bytes), NEW frames \in Seq(Frames)
    PROVE  ShownAll(scr, frames) \in [Output -> Nat]
BY ShownNat DEF ShownAll

\* Nothing on the way to the screen is more than the client has or will have.
LEMMA ShownIsMild ==
    ASSUME NEW scr \in Seq(Bytes), NEW frames \in Seq(Frames), NEW cb \in Seq(Seq(Bytes)),
           NEW c \in Seq(Bytes), NEW r \in [todo : Seq(Seq(Bytes)), batch : Seq(Bytes)],
           NEW n \in Int, Mild(Tally(scr, frames, cb, c, r), n)
    PROVE  Mild(ShownAll(scr, frames), n)
<1> DEFINE t == Tally(scr, frames, cb, c, r)
           g == ShownAll(scr, frames)
<1>1. t \in [Output -> Nat] /\ g \in [Output -> Nat]
  BY TallyIs, ShownAllType
<1>2. ASSUME NEW b \in Output PROVE g[b] <= t[b]
  <2>1. /\ t[b] = Shown(b, scr, frames) + Occurrences(b, cb) + Occurrences(b, <<c>>)
                    + Occurrences(b, r.todo) + Occurrences(b, <<r.batch>>)
        /\ Shown(b, scr, frames) \in Nat /\ Occurrences(b, cb) \in Nat
        /\ Occurrences(b, <<c>>) \in Nat
        /\ Occurrences(b, r.todo) \in Nat /\ Occurrences(b, <<r.batch>>) \in Nat
    BY TallyIs
  <2>2. g[b] = Shown(b, scr, frames)
    BY DEF ShownAll
  <2> HIDE DEF t, g
  <2> QED BY <2>1, <2>2, SMTT(30)
<1>3. Mild(t, n)
  OBVIOUS
<1> HIDE DEF t, g
<1>4. Mild(g, n)
  <2>1. n <= n
    OBVIOUS
  <2> QED BY <1>1, <1>2, <1>3, <2>1, MilderStill
<1> QED BY <1>4 DEF g

\* One frame more to arrive.
LEMMA ArrivingQueued ==
    ASSUME NEW scr \in Seq(Bytes), NEW frames \in Seq(Frames), NEW f \in Frames, NEW n \in Int,
           Arriving(scr, frames, n), Mild(ShownAll(scr, Append(frames, f)), n)
    PROVE  Arriving(scr, Append(frames, f), n)
<1> DEFINE a == Append(frames, f)
<1>1. /\ a \in Seq(Frames) /\ Len(a) = Len(frames) + 1 /\ Len(frames) \in Nat
      /\ SubSeq(a, 1, Len(a)) = a
      /\ \A k \in 0..Len(frames) : SubSeq(a, 1, k) = SubSeq(frames, 1, k)
  OBVIOUS
<1>2. Mild(ShownAll(scr, a), n)
  OBVIOUS
<1> HIDE DEF a
<1>3. ASSUME NEW k \in 0..Len(a) PROVE Mild(ShownAll(scr, SubSeq(a, 1, k)), n)
  <2>1. CASE k = Len(a)
    BY <1>1, <1>2, <2>1
  <2>2. CASE k # Len(a)
    <3>1. k \in 0..Len(frames)
      BY <1>1, <2>2
    <3> QED BY <1>1, <3>1 DEF Arriving
  <2> QED BY <2>1, <2>2
<1> QED BY <1>3 DEF Arriving, a

\* One frame less.
LEMMA ArrivingDelivered ==
    ASSUME NEW scr \in Seq(Bytes), NEW frames \in Seq(Frames), frames # <<>>, NEW n \in Int,
           Arriving(scr, frames, n),
           NEW s2, s2 = IF Head(frames) = Reset THEN <<>> ELSE scr \o Head(frames).bytes
    PROVE  Arriving(s2, Tail(frames), n)
<1> SUFFICES ASSUME NEW k \in 0..Len(Tail(frames))
             PROVE  Mild(ShownAll(s2, SubSeq(Tail(frames), 1, k)), n)
  BY DEF Arriving
<1> DEFINE g == SubSeq(frames, 1, k + 1)
<1>1. /\ k + 1 \in 0..Len(frames) /\ g \in Seq(Frames) /\ g # <<>>
      /\ Head(g) = Head(frames) /\ Tail(g) = SubSeq(Tail(frames), 1, k)
  <2>1. k + 1 \in 1..Len(frames) /\ Len(frames) \in Nat /\ Len(Tail(frames)) = Len(frames) - 1
    OBVIOUS
  <2>2. /\ g \in Seq(Frames) /\ Len(g) = k + 1
        /\ \A i \in 1..(k + 1) : g[i] = frames[i]
    BY <2>1
  <2> HIDE DEF g
  <2>3. /\ g # <<>> /\ Head(g) = Head(frames)
        /\ Tail(g) \in Seq(Frames) /\ Len(Tail(g)) = k
        /\ \A i \in 1..k : Tail(g)[i] = g[i + 1]
    BY <2>1, <2>2
  <2> DEFINE t == Tail(frames)
  <2>4. t \in Seq(Frames) /\ k \in 0..Len(t) /\ \A i \in 1..Len(t) : t[i] = frames[i + 1]
    OBVIOUS
  <2> HIDE DEF t
  <2>5. /\ SubSeq(t, 1, k) \in Seq(Frames) /\ Len(SubSeq(t, 1, k)) = k
        /\ \A i \in 1..k : SubSeq(t, 1, k)[i] = t[i]
    BY <2>4
  <2>6. \A i \in 1..k : Tail(g)[i] = SubSeq(t, 1, k)[i]
    <3>1. ASSUME NEW i \in 1..k PROVE Tail(g)[i] = SubSeq(t, 1, k)[i]
      <4>1. i \in 1..Len(t) /\ i + 1 \in 1..(k + 1)
        BY <2>4
      <4> QED BY <2>2, <2>3, <2>4, <2>5, <4>1
    <3> QED BY <3>1
  <2>7. Tail(g) = SubSeq(t, 1, k)
    BY <2>3, <2>5, <2>6, SeqEqual
  <2> QED BY <2>1, <2>2, <2>3, <2>7 DEF t
<1>2. Mild(ShownAll(scr, g), n)
  BY <1>1 DEF Arriving
<1> HIDE DEF g
<1>3. \A b \in Output : Shown(b, s2, Tail(g)) = Shown(b, scr, g)
  BY <1>1, ShownDelivered, ZenonT(30)
<1>4. ShownAll(s2, Tail(g)) = ShownAll(scr, g)
  BY <1>3 DEF ShownAll
<1> QED BY <1>1, <1>2, <1>4

\* What is not on its way any more does not make it worse.
LEMMA ArrivingLater ==
    ASSUME NEW scr \in Seq(Bytes), NEW frames \in Seq(Frames), NEW m \in Int, NEW n \in Int,
           m <= n, Arriving(scr, frames, m)
    PROVE  Arriving(scr, frames, n) /\ Arriving(scr, <<>>, n)
<1>1. ASSUME NEW k \in 0..Len(frames) PROVE Mild(ShownAll(scr, SubSeq(frames, 1, k)), n)
  <2> DEFINE g == ShownAll(scr, SubSeq(frames, 1, k))
  <2>1. Mild(g, m)
    BY DEF Arriving
  <2>2. SubSeq(frames, 1, k) \in Seq(Frames)
    OBVIOUS
  <2>3. g \in [Output -> Nat]
    BY <2>2, ShownAllType
  <2> HIDE DEF g
  <2>4. \A b \in Output : g[b] <= g[b]
    BY <2>3
  <2>5. Mild(g, n)
    BY <2>1, <2>3, <2>4, MilderStill
  <2> QED BY <2>5 DEF g
<1>2. SubSeq(frames, 1, 0) = <<>> /\ 0 \in 0..Len(frames)
  OBVIOUS
<1>3. Mild(ShownAll(scr, <<>>), n)
  BY <1>1, <1>2
<1>4. /\ Len(<<>>) = 0 /\ \A k \in 0..0 : k = 0
      /\ SubSeq(<<>>, 1, 0) = <<>>
  OBVIOUS
<1>5. Arriving(scr, <<>>, n)
  BY <1>3, <1>4 DEF Arriving
<1> QED BY <1>1, <1>5 DEF Arriving

\* The types of what is counted.
LEMMA Counted ==
    ASSUME TypeOK
    PROVE  /\ screen \in Seq(Bytes) /\ queue \in Seq(Frames) /\ cbuf \in Seq(Seq(Bytes))
           /\ co \in Seq(Bytes) /\ replay \in [todo : Seq(Seq(Bytes)), batch : Seq(Bytes)]
           /\ ring \in Seq(Seq(Bytes)) /\ carry \in Seq(Bytes)
           /\ Totals \in [Output -> Nat] /\ Notes \in [Output -> Nat] /\ Known \in Int
           /\ produced \in Nat
<1>1. /\ screen \in Seq(Bytes) /\ queue \in Seq(Frames) /\ cbuf \in Seq(Seq(Bytes))
      /\ co \in Seq(Bytes) /\ replay \in [todo : Seq(Seq(Bytes)), batch : Seq(Bytes)]
      /\ ring \in Seq(Seq(Bytes)) /\ carry \in Seq(Bytes)
  BY DEF TypeOK, DataTypes
<1>2. produced \in Nat
  BY Parameters DEF TypeOK
<1>3. Known \in Int
  BY <1>2 DEF Known
<1>4. Totals \in [Output -> Nat]
  BY <1>1, TallyIs DEF Totals
<1>5. ASSUME NEW b \in Output
      PROVE  Occurrences(b, ring) + Occurrences(b, <<carry>>) \in Nat
  <2>1. <<carry>> \in Seq(Seq(Bytes))
    BY <1>1
  <2>2. Occurrences(b, ring) \in Nat /\ Occurrences(b, <<carry>>) \in Nat
    BY <1>1, <2>1, OccursNat
  <2> QED BY <2>2
<1>6. Notes \in [Output -> Nat]
  BY <1>5 DEF Notes
<1> QED BY <1>1, <1>2, <1>3, <1>4, <1>6

\* The same after a step.
LEMMA CountedNext ==
    ASSUME TypeOK'
    PROVE  /\ screen' \in Seq(Bytes) /\ queue' \in Seq(Frames) /\ cbuf' \in Seq(Seq(Bytes))
           /\ co' \in Seq(Bytes) /\ replay' \in [todo : Seq(Seq(Bytes)), batch : Seq(Bytes)]
           /\ ring' \in Seq(Seq(Bytes)) /\ carry' \in Seq(Bytes)
           /\ Totals' \in [Output -> Nat] /\ Notes' \in [Output -> Nat] /\ Known' \in Int
           /\ produced' \in Nat
<1>1. /\ screen' \in Seq(Bytes) /\ queue' \in Seq(Frames) /\ cbuf' \in Seq(Seq(Bytes))
      /\ co' \in Seq(Bytes) /\ replay' \in [todo : Seq(Seq(Bytes)), batch : Seq(Bytes)]
      /\ ring' \in Seq(Seq(Bytes)) /\ carry' \in Seq(Bytes)
  BY DEF TypeOK, DataTypes
<1>2. produced' \in Nat
  BY Parameters DEF TypeOK
<1>3. Known' \in Int
  BY <1>2 DEF Known
<1>4. Totals' \in [Output -> Nat]
  BY <1>1, TallyIs DEF Totals
<1>5. ASSUME NEW b \in Output
      PROVE  Occurrences(b, ring') + Occurrences(b, <<carry'>>) \in Nat
  <2>1. <<carry'>> \in Seq(Seq(Bytes))
    BY <1>1
  <2>2. Occurrences(b, ring') \in Nat /\ Occurrences(b, <<carry'>>) \in Nat
    BY <1>1, <2>1, OccursNat
  <2> QED BY <2>2
<1>6. Notes' \in [Output -> Nat]
  BY <1>5 DEF Notes
<1> QED BY <1>1, <1>2, <1>3, <1>4, <1>6

\* A size or a mode shows nothing.
LEMMA ShownControl ==
    ASSUME NEW scr \in Seq(Bytes), NEW frames \in Seq(Frames)
    PROVE  /\ Append(frames, Control) \in Seq(Frames)
           /\ \A b : Shown(b, scr, Append(frames, Control)) = Shown(b, scr, frames)
<1>1. Control \in Frames /\ Control # Reset /\ Control.bytes = <<>>
  BY FrameTypes DEF Reset, Control
<1>2. ASSUME NEW b PROVE Shown(b, scr, Append(frames, Control)) = Shown(b, scr, frames)
  <2>1. Shown(b, scr, Append(frames, Control))
          = Shown(b, scr, frames) + Occurrences(b, <<Control.bytes>>)
    BY <1>1, ShownQueued
  <2>2. Shown(b, scr, frames) \in Nat /\ Occurrences(b, <<Control.bytes>>) = 0
    BY <1>1, ShownNat, EmptyOccurs
  <2> QED BY <2>1, <2>2
<1>3. Append(frames, Control) \in Seq(Frames)
  BY <1>1
<1> QED BY <1>2, <1>3

\* What a step may do to the frames and the screen.
Moved ==
    \/ UNCHANGED <<queue, screen>>
    \/ screen' = screen /\ \E f \in Frames : queue' = Append(queue, f)
    \/ screen' = screen /\ \E f \in Frames : queue' = Append(Append(queue, Control), f)
    \/ SocketDelivers
    \/ screen' = screen /\ queue' = <<>>

LEMMA ArrivingStep ==
    ASSUME TypeOK, TypeOK', Arriving(screen, queue, Known), Moved,
           Known <= Known', Mild(Totals', Known')
    PROVE  Arriving(screen', queue', Known')
<1> DEFINE m == Known
           n == Known'
<1>1. /\ screen \in Seq(Bytes) /\ queue \in Seq(Frames) /\ m \in Int /\ n \in Int /\ m <= n
      /\ screen' \in Seq(Bytes) /\ queue' \in Seq(Frames) /\ cbuf' \in Seq(Seq(Bytes))
      /\ co' \in Seq(Bytes) /\ replay' \in [todo : Seq(Seq(Bytes)), batch : Seq(Bytes)]
  BY Counted, CountedNext
<1>2. Arriving(screen, queue, m)
  OBVIOUS
<1>3. Mild(Tally(screen', queue', cbuf', co', replay'), n)
  BY DEF Totals
<1> HIDE DEF m, n
<1>4. Arriving(screen, queue, n) /\ Arriving(screen, <<>>, n)
  BY <1>1, <1>2, ArrivingLater
<1>5. Mild(ShownAll(screen', queue'), n)
  BY <1>1, <1>3, ShownIsMild
<1>6. CASE UNCHANGED <<queue, screen>>
  BY <1>4, <1>6 DEF n
<1>7. CASE screen' = screen /\ \E f \in Frames : queue' = Append(queue, f)
  <2>1. PICK f \in Frames : queue' = Append(queue, f)
    BY <1>7
  <2>2. Mild(ShownAll(screen, Append(queue, f)), n)
    BY <1>5, <1>7, <2>1
  <2>3. Arriving(screen, Append(queue, f), n)
    BY <1>1, <1>4, <2>2, ArrivingQueued
  <2> QED BY <1>7, <2>1, <2>3 DEF n
<1>10. CASE screen' = screen /\ \E f \in Frames : queue' = Append(Append(queue, Control), f)
  <2> DEFINE q == Append(queue, Control)
  <2>1. PICK f \in Frames : queue' = Append(q, f)
    BY <1>10
  <2>2. q \in Seq(Frames) /\ \A b : Shown(b, screen, q) = Shown(b, screen, queue)
    BY <1>1, ShownControl
  <2>3. ShownAll(screen, q) = ShownAll(screen, queue)
    BY <2>2, Zenon DEF ShownAll
  <2>4. Len(queue) \in 0..Len(queue) /\ SubSeq(queue, 1, Len(queue)) = queue
    BY <1>1
  <2>5. Mild(ShownAll(screen, queue), n)
    <3>1. Mild(ShownAll(screen, SubSeq(queue, 1, Len(queue))), n)
      BY <1>4, <2>4, Zenon DEF Arriving
    <3> QED BY <2>4, <3>1
  <2>6. Arriving(screen, q, n)
    BY <1>1, <1>4, <2>3, <2>5, FrameTypes, ArrivingQueued
  <2> HIDE DEF q
  <2>7. Mild(ShownAll(screen, Append(q, f)), n)
    BY <1>5, <1>10, <2>1
  <2>8. Arriving(screen, Append(q, f), n)
    BY <1>1, <2>2, <2>6, <2>7, ArrivingQueued
  <2> QED BY <1>10, <2>1, <2>8 DEF n
<1>8. CASE SocketDelivers
  <2>1. /\ queue # <<>> /\ queue' = Tail(queue)
        /\ screen' = IF Head(queue) = Reset THEN <<>> ELSE screen \o Head(queue).bytes
    BY <1>8 DEF SocketDelivers
  <2>2. Arriving(screen', Tail(queue), n)
    BY <1>1, <1>4, <2>1, ArrivingDelivered
  <2> QED BY <2>1, <2>2 DEF n
<1>9. CASE screen' = screen /\ queue' = <<>>
  BY <1>4, <1>9 DEF n
<1> QED BY <1>6, <1>7, <1>8, <1>9, <1>10 DEF Moved

\* A step that takes nothing from the reader and adds nothing to the client.
LEMMA OnceStays ==
    ASSUME TypeOK, TypeOK', Waiters, OnceInv, Moved,
           \A b \in Output : Totals'[b] <= Totals[b],
           UNCHANGED <<produced, reader, ring, carry>>, heard' => heard,
           mu' = "replay" => mu = "replay", mu' # "replay" => replay' = NoReplay
    PROVE  OnceInv'
<1>1. /\ Totals \in [Output -> Nat] /\ Totals' \in [Output -> Nat] /\ Known \in Int
      /\ Notes \in [Output -> Nat]
  BY Counted, CountedNext
<1>2. Known' = Known /\ Notes' = Notes
  BY DEF Known, Notes
<1>3. Known <= Known'
  BY <1>1, <1>2
<1>4. Mild(Totals', Known')
  BY <1>1, <1>2, <1>3, MilderStill DEF OnceInv
<1>5. Arriving(screen', queue', Known')
  BY <1>3, <1>4, ArrivingStep DEF OnceInv
<1>6. ASSUME mu' = "replay" \/ (reader' = "client" /\ heard' /\ Totals'[produced'] > 0),
             NEW b \in Output
      PROVE  Totals'[b] <= 1
  <2>1. mu = "replay" \/ (reader = "client" /\ heard /\ Totals[produced] > 0)
    <3>1. CASE mu' = "replay"
      BY <3>1
    <3>2. CASE reader' = "client" /\ heard' /\ Totals'[produced'] > 0
      <4>1. produced \in Output
        BY <3>2 DEF Waiters
      <4>2. Totals'[produced] <= Totals[produced] /\ Totals'[produced] > 0
            /\ Totals[produced] \in Nat /\ Totals'[produced] \in Nat
        BY <1>1, <3>2, <4>1
      <4> QED BY <3>2, <4>2
    <3> QED BY <1>6, <3>1, <3>2
  <2>2. Totals[b] <= 1
    BY <2>1 DEF OnceInv
  <2>3. Totals'[b] \in Nat /\ Totals[b] \in Nat /\ Totals'[b] <= Totals[b]
    BY <1>1
  <2> QED BY <2>2, <2>3
<1>7. \A b \in Output : Notes'[b] <= 1 /\ (b > Known' => Notes'[b] = 0)
  BY <1>2 DEF OnceInv
<1> QED BY <1>4, <1>5, <1>6, <1>7 DEF OnceInv

\* What a byte counts before and after a step.
LEMMA Summands ==
    ASSUME TypeOK, TypeOK', NEW b \in Output
    PROVE  /\ Totals[b] = Shown(b, screen, queue) + Occurrences(b, cbuf) + Occurrences(b, <<co>>)
                            + Occurrences(b, replay.todo) + Occurrences(b, <<replay.batch>>)
           /\ Totals'[b] = Shown(b, screen', queue') + Occurrences(b, cbuf')
                             + Occurrences(b, <<co'>>)
                             + Occurrences(b, replay'.todo) + Occurrences(b, <<replay'.batch>>)
           /\ Shown(b, screen, queue) \in Nat /\ Occurrences(b, cbuf) \in Nat
           /\ Occurrences(b, <<co>>) \in Nat
           /\ Occurrences(b, replay.todo) \in Nat /\ Occurrences(b, <<replay.batch>>) \in Nat
           /\ Shown(b, screen', queue') \in Nat /\ Occurrences(b, cbuf') \in Nat
           /\ Occurrences(b, <<co'>>) \in Nat
           /\ Occurrences(b, replay'.todo) \in Nat /\ Occurrences(b, <<replay'.batch>>) \in Nat
<1>1. /\ screen \in Seq(Bytes) /\ queue \in Seq(Frames) /\ cbuf \in Seq(Seq(Bytes))
      /\ co \in Seq(Bytes) /\ replay \in [todo : Seq(Seq(Bytes)), batch : Seq(Bytes)]
  BY Counted
<1>2. /\ screen' \in Seq(Bytes) /\ queue' \in Seq(Frames) /\ cbuf' \in Seq(Seq(Bytes))
      /\ co' \in Seq(Bytes) /\ replay' \in [todo : Seq(Seq(Bytes)), batch : Seq(Bytes)]
  BY CountedNext
<1>3. /\ Totals = Tally(screen, queue, cbuf, co, replay)
      /\ Totals' = Tally(screen', queue', cbuf', co', replay')
  BY DEF Totals
<1>4. /\ Tally(screen, queue, cbuf, co, replay)[b]
           = Shown(b, screen, queue) + Occurrences(b, cbuf) + Occurrences(b, <<co>>)
               + Occurrences(b, replay.todo) + Occurrences(b, <<replay.batch>>)
      /\ Shown(b, screen, queue) \in Nat /\ Occurrences(b, cbuf) \in Nat
      /\ Occurrences(b, <<co>>) \in Nat
      /\ Occurrences(b, replay.todo) \in Nat /\ Occurrences(b, <<replay.batch>>) \in Nat
  BY <1>1, TallyIs
<1>5. /\ Tally(screen', queue', cbuf', co', replay')[b]
           = Shown(b, screen', queue') + Occurrences(b, cbuf') + Occurrences(b, <<co'>>)
               + Occurrences(b, replay'.todo) + Occurrences(b, <<replay'.batch>>)
      /\ Shown(b, screen', queue') \in Nat /\ Occurrences(b, cbuf') \in Nat
      /\ Occurrences(b, <<co'>>) \in Nat
      /\ Occurrences(b, replay'.todo) \in Nat /\ Occurrences(b, <<replay'.batch>>) \in Nat
  BY <1>2, TallyIs
<1> QED BY <1>3, <1>4, <1>5, Zenon

\* A ring and a frame take over what they are given.
LEMMA Handed ==
    ASSUME TypeOK, NEW c \in Seq(Bytes), NEW b
    PROVE  /\ Shown(b, screen, Append(queue, Data(c)))
                = Shown(b, screen, queue) + Occurrences(b, <<c>>)
           /\ Shown(b, screen, Append(queue, Control)) = Shown(b, screen, queue)
           /\ Shown(b, screen, queue) \in Nat /\ Occurrences(b, <<c>>) \in Nat
           /\ Occurrences(b, Pushed(cbuf, c)) <= Occurrences(b, cbuf) + Occurrences(b, <<c>>)
           /\ Data(c) \in Frames /\ Control \in Frames /\ Reset \in Frames
<1>1. screen \in Seq(Bytes) /\ queue \in Seq(Frames) /\ cbuf \in Seq(Seq(Bytes))
  BY Counted
<1>2. /\ Data(c) \in Frames /\ Data(c).bytes = c /\ Data(c) # Reset
      /\ Control \in Frames /\ Control # Reset /\ Control.bytes = <<>> /\ Reset \in Frames
  BY FrameTypes DEF Data, Reset, Control
<1>3. <<c>> \in Seq(Seq(Bytes))
  OBVIOUS
<1>4. Shown(b, screen, queue) \in Nat /\ Occurrences(b, <<c>>) \in Nat
  BY <1>1, <1>3, ShownNat, OccursNat
<1>5. Shown(b, screen, Append(queue, Data(c))) = Shown(b, screen, queue) + Occurrences(b, <<c>>)
  BY <1>1, <1>2, ShownQueued
<1>6. Shown(b, screen, Append(queue, Control)) = Shown(b, screen, queue)
  <2>1. Shown(b, screen, Append(queue, Control))
          = Shown(b, screen, queue) + Occurrences(b, <<Control.bytes>>)
    BY <1>1, <1>2, ShownQueued
  <2> QED BY <1>2, <1>4, <2>1, EmptyOccurs
<1>7. Occurrences(b, Pushed(cbuf, c)) <= Occurrences(b, cbuf) + Occurrences(b, <<c>>)
  BY <1>1, OccursPushed
<1> QED BY <1>2, <1>4, <1>5, <1>6, <1>7

\* The coalescing timer moves bytes and makes none.
LEMMA TimerMoves ==
    ASSUME TypeOK, TypeOK', TimerFires
    PROVE  Moved /\ \A b \in Output : Totals'[b] <= Totals[b]
<1>1. /\ screen' = screen /\ replay' = replay
      /\ FlushCoalesce \/ UNCHANGED <<co, queue, cbuf>>
  BY DEF TimerFires, clientVars, attachVars
<1>c. co \in Seq(Bytes)
  BY Counted
<1>2. CASE UNCHANGED <<co, queue, cbuf>>
  <2>1. Totals' = Totals /\ Moved
    BY <1>1, <1>2 DEF Totals, Moved
  <2> QED BY <2>1, Counted
<1>3. CASE FlushCoalesce /\ co # <<>> /\ (paused \/ throttled)
  <2>1. co' = <<>> /\ cbuf' = Pushed(cbuf, co) /\ queue' = queue
    BY <1>3 DEF FlushCoalesce
  <2>2. ASSUME NEW b \in Output PROVE Totals'[b] <= Totals[b]
    <3>1. Occurrences(b, cbuf') <= Occurrences(b, cbuf) + Occurrences(b, <<co>>)
      BY <1>c, <2>1, Handed
    <3>2. Occurrences(b, <<co'>>) = 0 /\ Shown(b, screen', queue') = Shown(b, screen, queue)
      BY <1>1, <2>1, EmptyOccurs
    <3>3. /\ Totals[b] = Shown(b, screen, queue) + Occurrences(b, cbuf) + Occurrences(b, <<co>>)
                          + Occurrences(b, replay.todo) + Occurrences(b, <<replay.batch>>)
          /\ Shown(b, screen, queue) \in Nat /\ Occurrences(b, cbuf) \in Nat
          /\ Occurrences(b, <<co>>) \in Nat
          /\ Occurrences(b, replay.todo) \in Nat /\ Occurrences(b, <<replay.batch>>) \in Nat
          /\ Occurrences(b, cbuf') \in Nat
      BY Summands
    <3>4. Totals'[b] = Shown(b, screen, queue) + Occurrences(b, cbuf') + 0
                        + Occurrences(b, replay.todo) + Occurrences(b, <<replay.batch>>)
      BY Summands, <1>1, <3>2
    <3> QED BY <3>1, <3>3, <3>4
  <2> QED BY <1>1, <2>1, <2>2 DEF Moved
<1>4. CASE FlushCoalesce /\ co # <<>> /\ ~(paused \/ throttled)
  <2>1. co' = <<>> /\ cbuf' = cbuf /\ queue' = Append(queue, Data(co))
    BY <1>4 DEF FlushCoalesce
  <2>2. ASSUME NEW b \in Output PROVE Totals'[b] <= Totals[b]
    <3>1. Shown(b, screen', queue') = Shown(b, screen, queue) + Occurrences(b, <<co>>)
      BY <1>1, <1>c, <2>1, Handed
    <3>2. Occurrences(b, <<co'>>) = 0
      BY <2>1, EmptyOccurs
    <3>3. /\ Totals[b] = Shown(b, screen, queue) + Occurrences(b, cbuf) + Occurrences(b, <<co>>)
                          + Occurrences(b, replay.todo) + Occurrences(b, <<replay.batch>>)
          /\ Shown(b, screen, queue) \in Nat /\ Occurrences(b, cbuf) \in Nat
          /\ Occurrences(b, <<co>>) \in Nat
          /\ Occurrences(b, replay.todo) \in Nat /\ Occurrences(b, <<replay.batch>>) \in Nat
          /\ Occurrences(b, cbuf') \in Nat
      BY Summands
    <3>4. Totals'[b] = (Shown(b, screen, queue) + Occurrences(b, <<co>>))
                        + Occurrences(b, cbuf) + 0
                        + Occurrences(b, replay.todo) + Occurrences(b, <<replay.batch>>)
      BY Summands, <1>1, <2>1, <3>1, <3>2
    <3> QED BY <3>3, <3>4
  <2>3. Data(co) \in Frames
    BY <1>c, Handed
  <2> QED BY <1>1, <2>1, <2>2, <2>3 DEF Moved
<1>5. CASE FlushCoalesce /\ co = <<>>
  <2>1. UNCHANGED <<co, queue, cbuf>>
    BY <1>5 DEF FlushCoalesce
  <2> QED BY <1>2, <2>1
<1> QED BY <1>1, <1>2, <1>3, <1>4, <1>5

\* So does a flush of the ring of unsent output.
LEMMA FlushMoves ==
    ASSUME TypeOK, TypeOK', FlushChunk
    PROVE  Moved /\ \A b \in Output : Totals'[b] <= Totals[b]
<1>1. screen' = screen /\ replay' = replay /\ co' = co /\ cbuf # <<>>
  BY DEF FlushChunk, clientVars
<1>2. CASE UNCHANGED <<queue, cbuf>>
  <2>1. Totals' = Totals /\ Moved
    BY <1>1, <1>2 DEF Totals, Moved
  <2> QED BY <2>1, Counted
<1>3. CASE queue' = Append(queue, Data(Head(cbuf))) /\ cbuf' = Tail(cbuf)
  <2>1. cbuf \in Seq(Seq(Bytes))
    BY Counted
  <2>2. Head(cbuf) \in Seq(Bytes)
    BY <1>1, <2>1
  <2>3. ASSUME NEW b \in Output PROVE Totals'[b] <= Totals[b]
    <3>1. Shown(b, screen', queue') = Shown(b, screen, queue) + Occurrences(b, <<Head(cbuf)>>)
      BY <1>1, <1>3, <2>2, Handed
    <3>2. Occurrences(b, cbuf) = Occurrences(b, <<Head(cbuf)>>) + Occurrences(b, cbuf')
      BY <1>1, <1>3, <2>1, OccursTail
    <3>3. Occurrences(b, <<Head(cbuf)>>) \in Nat
      BY <2>2, Handed
    <3> DEFINE rest == Occurrences(b, <<co>>) + Occurrences(b, replay.todo)
                         + Occurrences(b, <<replay.batch>>)
    <3>4. /\ rest \in Nat /\ Totals[b] = Shown(b, screen, queue) + Occurrences(b, cbuf) + rest
          /\ Shown(b, screen, queue) \in Nat /\ Occurrences(b, cbuf') \in Nat
      BY Summands
    <3>5. Totals'[b] = Shown(b, screen', queue') + Occurrences(b, cbuf') + rest
      <4>1. /\ Totals'[b] = Shown(b, screen', queue') + Occurrences(b, cbuf')
                              + Occurrences(b, <<co'>>) + Occurrences(b, replay'.todo)
                              + Occurrences(b, <<replay'.batch>>)
            /\ Shown(b, screen', queue') \in Nat /\ Occurrences(b, cbuf') \in Nat
            /\ Occurrences(b, <<co'>>) \in Nat /\ Occurrences(b, replay'.todo) \in Nat
            /\ Occurrences(b, <<replay'.batch>>) \in Nat
        BY Summands
      <4>2. /\ Occurrences(b, <<co'>>) = Occurrences(b, <<co>>)
            /\ Occurrences(b, replay'.todo) = Occurrences(b, replay.todo)
            /\ Occurrences(b, <<replay'.batch>>) = Occurrences(b, <<replay.batch>>)
        BY <1>1
      <4> QED BY <4>1, <4>2
    <3> HIDE DEF rest
    <3> QED BY <3>1, <3>2, <3>3, <3>4, <3>5
  <2>4. Data(Head(cbuf)) \in Frames
    BY <2>2, Handed
  <2> QED BY <1>1, <1>3, <2>3, <2>4 DEF Moved
<1> QED BY <1>2, <1>3 DEF FlushChunk

\* The batch of a replay is handed on, or held back and the rest given up.
LEMMA BatchMoves ==
    ASSUME TypeOK, TypeOK', ReplayChunk \/ ReplayEnds
    PROVE  Moved /\ \A b \in Output : Totals'[b] <= Totals[b]
<1>1. screen' = screen /\ co' = co /\ mu = "replay"
  BY DEF ReplayChunk, ReplayEnds, clientVars
<1>2. replay.todo \in Seq(Seq(Bytes)) /\ replay.batch \in Seq(Bytes)
  <2> DEFINE T == Seq(Seq(Bytes))
             B == Seq(Bytes)
  <2>1. replay \in [todo : T, batch : B]
    BY Counted
  <2> HIDE DEF T, B
  <2>2. replay.todo \in T /\ replay.batch \in B
    BY <2>1
  <2> QED BY <2>2 DEF T, B
<1>3. ASSUME NEW c \in Seq(Bytes), BatchHeld(c),
             \A b \in Output : Occurrences(b, <<c>>)
                <= Occurrences(b, replay.todo) + Occurrences(b, <<replay.batch>>)
      PROVE  Moved /\ \A b \in Output : Totals'[b] <= Totals[b]
  <2>1. cbuf' = Pushed(cbuf, c) /\ replay' = NoReplay /\ queue' = queue
    BY <1>3 DEF BatchHeld
  <2>2. replay'.todo = <<>> /\ replay'.batch = <<>>
    BY <2>1 DEF NoReplay
  <2>3. ASSUME NEW b \in Output PROVE Totals'[b] <= Totals[b]
    <3>1. Occurrences(b, cbuf') <= Occurrences(b, cbuf) + Occurrences(b, <<c>>)
          /\ Occurrences(b, <<c>>) \in Nat
      BY <2>1, Handed
    <3>2. /\ Occurrences(b, replay'.todo) = 0 /\ Occurrences(b, <<replay'.batch>>) = 0
          /\ Shown(b, screen', queue') = Shown(b, screen, queue)
      BY <1>1, <2>1, <2>2, EmptyOccurs
    <3>3. Occurrences(b, <<c>>)
            <= Occurrences(b, replay.todo) + Occurrences(b, <<replay.batch>>)
      BY <1>3
    <3>4. /\ Totals[b] = Shown(b, screen, queue) + Occurrences(b, cbuf) + Occurrences(b, <<co>>)
                          + Occurrences(b, replay.todo) + Occurrences(b, <<replay.batch>>)
          /\ Shown(b, screen, queue) \in Nat /\ Occurrences(b, cbuf) \in Nat
          /\ Occurrences(b, <<co>>) \in Nat
          /\ Occurrences(b, replay.todo) \in Nat /\ Occurrences(b, <<replay.batch>>) \in Nat
          /\ Occurrences(b, cbuf') \in Nat
      BY Summands
    <3>5. Totals'[b] = Shown(b, screen, queue) + Occurrences(b, cbuf') + Occurrences(b, <<co>>) + 0 + 0
      BY Summands, <1>1, <3>2
    <3> QED BY <3>1, <3>3, <3>4, <3>5, SMTT(30)
  <2> QED BY <1>1, <2>1, <2>3 DEF Moved
<1>4. CASE ReplayChunk
  <2> DEFINE h == Head(replay.todo)
             c == replay.batch \o h
  <2>1. h \in Seq(Bytes) /\ replay.todo # <<>>
    BY <1>2, <1>4 DEF ReplayChunk
  <2>2. c \in Seq(Bytes)
    BY <1>2, <2>1, ConcatProperties
  <2>3. \/ BatchFills(c) \/ BatchSent(c) \/ BatchHeld(c)
    BY <1>4 DEF ReplayChunk
  <2>4. ASSUME NEW b \in Output
        PROVE  /\ Occurrences(b, <<c>>) = Occurrences(b, <<replay.batch>>) + Occurrences(b, <<h>>)
               /\ Occurrences(b, replay.todo)
                    = Occurrences(b, <<h>>) + Occurrences(b, Tail(replay.todo))
               /\ Occurrences(b, <<h>>) \in Nat /\ Occurrences(b, Tail(replay.todo)) \in Nat
               /\ Occurrences(b, <<replay.batch>>) \in Nat
    <3>1. <<h>> \in Seq(Seq(Bytes)) /\ Tail(replay.todo) \in Seq(Seq(Bytes))
          /\ <<replay.batch>> \in Seq(Seq(Bytes))
      <4>1. Tail(replay.todo) \in Seq(Seq(Bytes))
        BY <1>2, <2>1
      <4> HIDE DEF h
      <4>2. <<h>> \in Seq(Seq(Bytes))
        BY <2>1
      <4>3. <<replay.batch>> \in Seq(Seq(Bytes))
        BY <1>2
      <4> QED BY <4>1, <4>2, <4>3
    <3>2. Occurrences(b, <<h>>) \in Nat /\ Occurrences(b, Tail(replay.todo)) \in Nat
          /\ Occurrences(b, <<replay.batch>>) \in Nat
      <4> HIDE DEF h
      <4> QED BY <3>1, OccursNat
    <3>3. Occurrences(b, <<c>>) = Occurrences(b, <<replay.batch>>) + Occurrences(b, <<h>>)
      <4> HIDE DEF h
      <4> QED BY <1>2, <2>1, OccursJoined
    <3>4. Occurrences(b, replay.todo) = Occurrences(b, <<h>>) + Occurrences(b, Tail(replay.todo))
      BY <1>2, <2>1, OccursTail
    <3> QED BY <3>2, <3>3, <3>4
  <2> HIDE DEF h, c
  <2>5. CASE BatchHeld(c)
    <3>1. ASSUME NEW b \in Output
          PROVE  Occurrences(b, <<c>>)
                   <= Occurrences(b, replay.todo) + Occurrences(b, <<replay.batch>>)
      BY <2>4
    <3> QED BY <1>3, <2>2, <2>5, <3>1
  <2>6. CASE BatchFills(c)
    <3>1. /\ replay'.todo = Tail(replay.todo) /\ replay'.batch = c
          /\ queue' = queue /\ cbuf' = cbuf
      BY <2>6 DEF BatchFills
    <3>2. ASSUME NEW b \in Output PROVE Totals'[b] <= Totals[b]
      <4>1. Shown(b, screen', queue') = Shown(b, screen, queue)
        BY <1>1, <3>1
      <4> QED BY <1>1, <2>4, <3>1, <4>1, Summands
    <3> QED BY <1>1, <3>1, <3>2 DEF Moved
  <2>7. CASE BatchSent(c)
    <3>1. /\ replay'.todo = Tail(replay.todo) /\ replay'.batch = <<>>
          /\ queue' = Append(queue, Data(c)) /\ cbuf' = cbuf
      BY <2>7 DEF BatchSent
    <3>2. ASSUME NEW b \in Output PROVE Totals'[b] <= Totals[b]
      <4>1. Shown(b, screen', queue') = Shown(b, screen, queue) + Occurrences(b, <<c>>)
        BY <1>1, <2>2, <3>1, Handed
      <4>2. Occurrences(b, <<replay'.batch>>) = 0
        BY <3>1, EmptyOccurs
      <4>3. /\ Totals[b] = Shown(b, screen, queue) + Occurrences(b, cbuf) + Occurrences(b, <<co>>)
                          + Occurrences(b, replay.todo) + Occurrences(b, <<replay.batch>>)
            /\ Shown(b, screen, queue) \in Nat /\ Occurrences(b, cbuf) \in Nat
            /\ Occurrences(b, <<co>>) \in Nat
            /\ Occurrences(b, replay.todo) \in Nat /\ Occurrences(b, <<replay.batch>>) \in Nat
            /\ Occurrences(b, cbuf') \in Nat
        BY Summands
      <4>4. Totals'[b] = (Shown(b, screen, queue) + Occurrences(b, <<c>>)) + Occurrences(b, cbuf)
                          + Occurrences(b, <<co>>) + Occurrences(b, Tail(replay.todo)) + 0
        BY Summands, <1>1, <3>1, <4>1, <4>2
      <4> QED BY <2>4, <4>3, <4>4
    <3>3. Data(c) \in Frames
      BY <2>2, Handed
    <3> QED BY <1>1, <3>1, <3>2, <3>3 DEF Moved
  <2> QED BY <2>3, <2>5, <2>6, <2>7
<1>5. CASE ReplayEnds
  <2>1. \/ BatchHeld(replay.batch)
        \/ /\ replay' = NoReplay /\ cbuf' = cbuf
           /\ queue' = IF replay.batch = <<>> THEN queue ELSE Append(queue, Data(replay.batch))
    BY <1>5 DEF ReplayEnds
  <2>2. CASE BatchHeld(replay.batch)
    <3>1. ASSUME NEW b \in Output
          PROVE  Occurrences(b, <<replay.batch>>)
                   <= Occurrences(b, replay.todo) + Occurrences(b, <<replay.batch>>)
      BY Summands
    <3> QED BY <1>2, <1>3, <2>2, <3>1
  <2>3. CASE /\ replay' = NoReplay /\ cbuf' = cbuf
             /\ queue' = IF replay.batch = <<>> THEN queue
                         ELSE Append(queue, Data(replay.batch))
    <3>1. replay'.todo = <<>> /\ replay'.batch = <<>>
      BY <2>3 DEF NoReplay
    <3>2. Data(replay.batch) \in Frames
      BY <1>2, Handed
    <3>3. ASSUME NEW b \in Output PROVE Totals'[b] <= Totals[b]
      <4>1. Shown(b, screen', queue')
              <= Shown(b, screen, queue) + Occurrences(b, <<replay.batch>>)
        <5>1. CASE replay.batch = <<>>
          <6>1. Shown(b, screen', queue') = Shown(b, screen, queue)
            BY <1>1, <2>3, <5>1
          <6> QED BY <6>1, Summands
        <5>2. CASE replay.batch # <<>>
          <6>1. Shown(b, screen', queue')
                  = Shown(b, screen, queue) + Occurrences(b, <<replay.batch>>)
            BY <1>1, <1>2, <2>3, <5>2, Handed
          <6> QED BY <6>1, Summands
        <5> QED BY <5>1, <5>2
      <4>2. Occurrences(b, replay'.todo) = 0 /\ Occurrences(b, <<replay'.batch>>) = 0
        BY <3>1, EmptyOccurs
      <4>3. /\ Totals[b] = Shown(b, screen, queue) + Occurrences(b, cbuf) + Occurrences(b, <<co>>)
                          + Occurrences(b, replay.todo) + Occurrences(b, <<replay.batch>>)
            /\ Shown(b, screen, queue) \in Nat /\ Occurrences(b, cbuf) \in Nat
            /\ Occurrences(b, <<co>>) \in Nat
            /\ Occurrences(b, replay.todo) \in Nat /\ Occurrences(b, <<replay.batch>>) \in Nat
            /\ Occurrences(b, cbuf') \in Nat
        BY Summands
      <4>4. Totals'[b] = Shown(b, screen', queue') + Occurrences(b, cbuf) + Occurrences(b, <<co>>) + 0 + 0
              /\ Shown(b, screen', queue') \in Nat
        BY Summands, <1>1, <2>3, <4>2
      <4> QED BY <4>1, <4>3, <4>4
    <3> QED BY <1>1, <2>3, <3>2, <3>3 DEF Moved
  <2> QED BY <2>1, <2>2, <2>3
<1> QED BY <1>4, <1>5

\* The reader takes the next chunk.
LEMMA OnceRead ==
    ASSUME TypeOK, TypeOK', Waiters, OnceInv, ReadChunk
    PROVE  OnceInv'
<1>1. /\ Totals' = Totals /\ Notes' = Notes /\ Known' = Known /\ Moved
      /\ reader' = "session" /\ mu' = mu /\ replay' = replay
  <2>1. /\ UNCHANGED <<queue, screen, cbuf, co, replay, ring, carry, mu>>
        /\ reader = "idle" /\ reader' = "session" /\ produced' = produced + 1
    BY DEF ReadChunk, bufferVars, attachVars, clientVars
  <2>2. produced \in Nat
    BY Counted
  <2>3. Known = produced /\ Known' = (produced + 1) - 1
    BY <2>1 DEF Known
  <2>4. Known' = Known
    BY <2>2, <2>3
  <2> QED BY <2>1, <2>4 DEF Totals, Notes, Moved
<1>2. Known <= Known'
  BY <1>1, Counted
<1>3. Mild(Totals', Known')
  BY <1>1 DEF OnceInv
<1>4. Arriving(screen', queue', Known')
  BY <1>1, <1>2, <1>3, ArrivingStep DEF OnceInv
<1> QED BY <1>1, <1>3, <1>4 DEF OnceInv

\* The session records it, and has not had it before.
LEMMA OnceRecorded ==
    ASSUME TypeOK, TypeOK', Waiters, OnceInv, SessionHears
    PROVE  OnceInv'
<1>1. /\ Totals' = Totals /\ Moved /\ produced' = produced
      /\ reader = "session" /\ reader' # "session" /\ mu' = mu /\ replay' = replay
      /\ heard' = heard
  BY DEF SessionHears, bufferVars, attachVars, clientVars, Totals, Moved
<1>2. /\ Totals \in [Output -> Nat] /\ Known \in Int /\ Notes \in [Output -> Nat]
      /\ Notes' \in [Output -> Nat] /\ produced \in Nat
      /\ ring \in Seq(Seq(Bytes)) /\ carry \in Seq(Bytes)
  BY Counted, CountedNext
<1>3. produced \in Output
  BY <1>1 DEF Waiters
<1>4. Known = produced - 1 /\ Known' = produced /\ Known <= Known' /\ produced > Known
  <2>1. Known = produced - 1 /\ Known' = produced
    BY <1>1 DEF Known
  <2> QED BY <1>2, <2>1
<1>5. Notes[produced] = 0 /\ Totals[produced] = 0
  BY <1>3, <1>4 DEF OnceInv, Mild
<1>6. Mild(Totals', Known')
  <2> DEFINE m == Known
             n == Known'
             f == Totals
  <2>1. m \in Int /\ n \in Int /\ m <= n /\ f \in [Output -> Nat] /\ Mild(f, m)
    BY <1>2, <1>4 DEF OnceInv
  <2> HIDE DEF m, n, f
  <2>2. \A b \in Output : f[b] <= f[b]
    BY <2>1
  <2>3. Mild(f, n)
    BY <2>1, <2>2, MilderStill
  <2> QED BY <1>1, <2>3 DEF f, n
<1>7. Arriving(screen', queue', Known')
  BY <1>1, <1>4, <1>6, ArrivingStep DEF OnceInv
<1>8. ASSUME NEW b \in Output
      PROVE  Notes'[b] <= Notes[b] + (IF b = produced THEN 1 ELSE 0)
  <2> DEFINE x == <<produced>>
             full == Append(carry, produced)
  <2>1. x \in Seq(Bytes) /\ full = carry \o x /\ full \in Seq(Bytes)
    BY <1>2, <1>3, ByteTypes, SMTT(30)
  <2>2. Occurrences(b, <<x>>) = IF b = produced THEN 1 ELSE 0
    BY OccursByte
  <2> HIDE DEF x
  <2>3. Occurrences(b, <<full>>) = Occurrences(b, <<carry>>) + Occurrences(b, <<x>>)
    BY <1>2, <2>1, OccursJoined
  <2> HIDE DEF full
  <2>4. /\ Notes[b] = Occurrences(b, ring) + Occurrences(b, <<carry>>)
        /\ Notes'[b] = Occurrences(b, ring') + Occurrences(b, <<carry'>>)
    BY DEF Notes
  <2>5. <<carry>> \in Seq(Seq(Bytes))
    BY <1>2
  <2>6. Occurrences(b, ring) \in Nat /\ Occurrences(b, <<carry>>) \in Nat
    BY <1>2, <2>5, OccursNat
  <2>7. Occurrences(b, <<<<>>>>) = 0
    BY EmptyOccurs
  <2>8. Occurrences(b, <<<<produced>>>>) = IF b = produced THEN 1 ELSE 0
    BY OccursByte
  <2>9. CASE UNCHANGED <<ring, carry>>
    BY <2>4, <2>6, <2>9
  <2>10. CASE ring' = Pushed(ring, full) /\ carry' = <<>>
    <3>1. Occurrences(b, ring') <= Occurrences(b, ring) + Occurrences(b, <<full>>)
      BY <1>2, <2>1, <2>10, OccursPushed
    <3>2. Occurrences(b, ring') \in Nat
      BY <2>10, <1>2, <2>1, OccursPushed, OccursNat
    <3>3. Notes'[b] = Occurrences(b, ring') + 0
      BY <2>4, <2>7, <2>10
    <3> QED BY <2>2, <2>3, <2>4, <2>6, <3>1, <3>2, <3>3
  <2>11. CASE carry' = full /\ ring' = ring
    BY <2>2, <2>3, <2>4, <2>6, <2>11
  <2>12. CASE carry' = <<produced>> /\ ring' = Pushed(ring, carry)
    <3>1. Occurrences(b, ring') <= Occurrences(b, ring) + Occurrences(b, <<carry>>)
      BY <1>2, <2>12, OccursPushed
    <3>2. Occurrences(b, ring') \in Nat
      BY <2>12, <1>2, OccursPushed, OccursNat
    <3>3. Notes'[b] = Occurrences(b, ring') + (IF b = produced THEN 1 ELSE 0)
      BY <2>4, <2>8, <2>12
    <3> QED BY <2>4, <2>6, <3>1, <3>2, <3>3
  <2>13. CASE Carried
    <3>1. Append(<<>>, produced) = <<produced>>
      OBVIOUS
    <3> QED BY <2>11, <2>12, <2>13, <3>1 DEF Carried, full
  <2>14. CASE Recorded
    BY <2>10, <2>14 DEF Recorded, full
  <2> QED BY <2>9, <2>13, <2>14 DEF SessionHears
<1>9. \A b \in Output : Notes'[b] <= 1 /\ (b > Known' => Notes'[b] = 0)
  <2> SUFFICES ASSUME NEW b \in Output
               PROVE  Notes'[b] <= 1 /\ (b > produced => Notes'[b] = 0)
    BY <1>4
  <2>1. /\ Notes[b] \in Nat /\ Notes'[b] \in Nat /\ b \in Nat
        /\ Notes[b] <= 1 /\ (b > Known => Notes[b] = 0)
    BY <1>2 DEF OnceInv, Output
  <2>2. CASE b = produced
    <3>1. Notes'[b] <= 0 + 1 /\ ~(b > produced)
      BY <1>2, <1>5, <1>8, <2>2
    <3> QED BY <2>1, <3>1
  <2>3. CASE b # produced
    <3>1. Notes'[b] <= Notes[b] + 0
      BY <1>8, <2>3
    <3>2. b > produced => b > Known
      BY <1>2, <1>4, <2>1
    <3> QED BY <2>1, <3>1, <3>2
  <2> QED BY <2>2, <2>3
<1>10. ASSUME mu' = "replay" \/ (reader' = "client" /\ heard' /\ Totals'[produced'] > 0)
       PROVE  \A b \in Output : Totals'[b] <= 1
  <2>1. ~(Totals'[produced'] > 0)
    BY <1>1, <1>5
  <2>2. mu = "replay"
    BY <1>1, <1>10, <2>1
  <2> QED BY <1>1, <2>2 DEF OnceInv
<1> QED BY <1>1, <1>6, <1>7, <1>9, <1>10 DEF OnceInv

\* The client's listener takes the chunk: the client has it once more.
LEMMA OnceHeard ==
    ASSUME TypeOK, TypeOK', Waiters, OnceInv, ClientHears
    PROVE  OnceInv'
<1>1. /\ UNCHANGED <<screen, replay, ring, carry, mu, produced>>
      /\ reader = "client" /\ reader' = "idle" /\ mu = "free" /\ heard' = heard
  BY DEF ClientHears, attachVars, clientVars
<1>2. /\ Totals \in [Output -> Nat] /\ Totals' \in [Output -> Nat] /\ Known \in Int
      /\ produced \in Nat /\ co \in Seq(Bytes) /\ cbuf \in Seq(Seq(Bytes))
  BY Counted, CountedNext
<1>3. produced \in Output
  BY <1>1 DEF Waiters
<1>4. Known = produced /\ Known' = produced /\ Notes' = Notes
  BY <1>1 DEF Known, Notes
<1>5. CASE ~(attached /\ heard)
  <2>1. UNCHANGED <<queue, cbuf, co>>
    BY <1>5 DEF ClientHears, bufferVars
  <2>2. Totals' = Totals /\ Moved
    BY <1>1, <2>1 DEF Totals, Moved
  <2>3. Known <= Known' /\ Mild(Totals', Known')
    BY <1>2, <1>4, <2>2 DEF OnceInv
  <2>4. Arriving(screen', queue', Known')
    BY <2>2, <2>3, ArrivingStep DEF OnceInv
  <2> QED BY <1>1, <1>4, <2>2, <2>3, <2>4 DEF OnceInv
<1>6. CASE attached /\ heard
  <2>o. OnPtyData
    BY <1>6 DEF ClientHears
  <2>x. produced \in Bytes /\ <<produced>> \in Seq(Bytes)
    BY <1>3, ByteTypes
  <2>1. ASSUME paused \/ throttled'
        PROVE  /\ Moved
               /\ \A b \in Output : Totals'[b] <= Totals[b] + (IF b = produced THEN 1 ELSE 0)
    <3>1. /\ cbuf' = Pushed(cbuf, <<produced>>) /\ co' = co
          /\ queue' = queue \/ queue' = Append(queue, Control)
      BY <2>o, <2>1 DEF OnPtyData, HoldBack, Heartbeat, badgeVars
    <3>2. Control \in Frames
      BY <2>x, Handed
    <3>3. ASSUME NEW b \in Output
          PROVE  Totals'[b] <= Totals[b] + (IF b = produced THEN 1 ELSE 0)
      <4>1. Shown(b, screen', queue') = Shown(b, screen, queue)
        BY <1>1, <2>x, <3>1, Handed
      <4>2. Occurrences(b, cbuf') <= Occurrences(b, cbuf) + (IF b = produced THEN 1 ELSE 0)
        <5>1. Occurrences(b, <<<<produced>>>>) = IF b = produced THEN 1 ELSE 0
          BY OccursByte
        <5>2. Occurrences(b, cbuf') <= Occurrences(b, cbuf) + Occurrences(b, <<<<produced>>>>)
          BY <2>x, <3>1, Handed
        <5> QED BY <5>1, <5>2
      <4>3. /\ Totals[b] = Shown(b, screen, queue) + Occurrences(b, cbuf) + Occurrences(b, <<co>>)
                            + Occurrences(b, replay.todo) + Occurrences(b, <<replay.batch>>)
            /\ Shown(b, screen, queue) \in Nat /\ Occurrences(b, cbuf) \in Nat
            /\ Occurrences(b, <<co>>) \in Nat
            /\ Occurrences(b, replay.todo) \in Nat /\ Occurrences(b, <<replay.batch>>) \in Nat
            /\ Occurrences(b, cbuf') \in Nat
        BY Summands
      <4>4. Totals'[b] = Shown(b, screen, queue) + Occurrences(b, cbuf') + Occurrences(b, <<co>>)
                          + Occurrences(b, replay.todo) + Occurrences(b, <<replay.batch>>)
        BY Summands, <1>1, <3>1, <4>1
      <4> QED BY <4>2, <4>3, <4>4
    <3> QED BY <1>1, <3>1, <3>2, <3>3 DEF Moved
  <2>2. ASSUME ~(paused \/ throttled')
        PROVE  /\ Moved
               /\ \A b \in Output : Totals'[b] <= Totals[b] + (IF b = produced THEN 1 ELSE 0)
    <3> DEFINE x == <<produced>>
               c == Append(co, produced)
    <3>1. /\ cbuf' = cbuf
          /\ \/ queue' = Append(queue, Data(c)) /\ co' = <<>>
             \/ queue' = queue /\ co' = c
      BY <2>o, <2>2 DEF OnPtyData, Coalesce
    <3>2. c \in Seq(Bytes) /\ c = co \o x /\ x \in Seq(Bytes)
      BY <1>2, <2>x
    <3>3. \A b : Occurrences(b, <<x>>) = IF b = produced THEN 1 ELSE 0
      BY OccursByte
    <3> HIDE DEF x
    <3>4. \A b : Occurrences(b, <<c>>) = Occurrences(b, <<co>>) + Occurrences(b, <<x>>)
      BY <1>2, <3>2, OccursJoined
    <3> HIDE DEF c
    <3>5. ASSUME NEW b \in Output
          PROVE  Totals'[b] <= Totals[b] + (IF b = produced THEN 1 ELSE 0)
      <4>1. /\ Totals[b] = Shown(b, screen, queue) + Occurrences(b, cbuf) + Occurrences(b, <<co>>)
                            + Occurrences(b, replay.todo) + Occurrences(b, <<replay.batch>>)
            /\ Shown(b, screen, queue) \in Nat /\ Occurrences(b, cbuf) \in Nat
            /\ Occurrences(b, <<co>>) \in Nat
            /\ Occurrences(b, replay.todo) \in Nat /\ Occurrences(b, <<replay.batch>>) \in Nat
        BY Summands
      <4>2. Totals'[b] = Shown(b, screen', queue') + Occurrences(b, cbuf) + Occurrences(b, <<co'>>)
                          + Occurrences(b, replay.todo) + Occurrences(b, <<replay.batch>>)
        BY Summands, <1>1, <3>1
      <4>3. Occurrences(b, <<c>>)
              = Occurrences(b, <<co>>) + (IF b = produced THEN 1 ELSE 0)
        BY <3>3, <3>4
      <4>4. CASE queue' = Append(queue, Data(c)) /\ co' = <<>>
        <5>1. Shown(b, screen', queue') = Shown(b, screen, queue) + Occurrences(b, <<c>>)
          BY <1>1, <3>2, <4>4, Handed
        <5>2. Occurrences(b, <<co'>>) = 0
          BY <4>4, EmptyOccurs
        <5> QED BY <4>1, <4>2, <4>3, <5>1, <5>2
      <4>5. CASE queue' = queue /\ co' = c
        <5>1. Shown(b, screen', queue') = Shown(b, screen, queue)
          BY <1>1, <4>5
        <5>2. Occurrences(b, <<co'>>) = Occurrences(b, <<c>>)
          BY <4>5
        <5> QED BY <4>1, <4>2, <4>3, <5>1, <5>2
      <4> QED BY <3>1, <4>4, <4>5
    <3>6. Data(c) \in Frames
      BY <3>2, Handed
    <3> QED BY <1>1, <3>1, <3>5, <3>6 DEF Moved
  <2>3. /\ Moved
        /\ \A b \in Output : Totals'[b] <= Totals[b] + (IF b = produced THEN 1 ELSE 0)
    BY <2>1, <2>2
  <2>4. ASSUME NEW b \in Output
        PROVE  /\ Totals[b] \in Nat /\ Totals'[b] \in Nat /\ b \in Nat
               /\ b # produced => Totals'[b] <= Totals[b]
               /\ b = produced => Totals'[b] <= Totals[b] + 1
               /\ b > produced => Totals[b] = 0
    <3>1. Totals[b] \in Nat /\ Totals'[b] \in Nat /\ b \in Nat
      <4>1. Totals[b] \in Nat /\ Totals'[b] \in Nat
        BY <1>2
      <4>2. b \in Nat
        BY RelayAssumption DEF Output
      <4> QED BY <4>1, <4>2
    <3>2. b > produced => Totals[b] = 0
      BY <1>4 DEF OnceInv, Mild
    <3>3. Totals'[b] <= Totals[b] + (IF b = produced THEN 1 ELSE 0)
      BY <2>3
    <3>4. b # produced => Totals'[b] <= Totals[b]
      BY <3>1, <3>3
    <3>5. b = produced => Totals'[b] <= Totals[b] + 1
      BY <3>3
    <3> QED BY <3>1, <3>2, <3>4, <3>5
  <2>5. ASSUME NEW a \in Output, NEW b \in Output, Totals'[a] > 1, Totals'[b] > 1
        PROVE  a = b /\ Totals'[a] = 2
    <3>1. CASE Totals[produced] > 0
      <4>1. \A k \in Output : Totals[k] <= 1
        BY <1>1, <1>6, <3>1 DEF OnceInv
      <4>2. Totals[a] <= 1 /\ Totals[b] <= 1
        BY <4>1
      <4>3. a = produced /\ b = produced
        BY <2>4, <2>5, <4>2
      <4> QED BY <2>4, <2>5, <4>2, <4>3
    <3>2. CASE ~(Totals[produced] > 0)
      <4>1. Totals[produced] = 0
        BY <1>2, <1>3, <3>2
      <4>2. a # produced /\ b # produced
        BY <2>4, <2>5, <4>1
      <4>3. Totals[a] > 1 /\ Totals[b] > 1
        BY <2>4, <2>5, <4>2
      <4>4. a = b /\ Totals[a] = 2
        BY <4>3 DEF OnceInv, Mild
      <4> QED BY <2>4, <2>5, <4>2, <4>4
    <3> QED BY <3>1, <3>2
  <2>6. ASSUME NEW b \in Output, b > produced PROVE Totals'[b] = 0
    <3>1. b # produced
      BY <1>2, <2>6
    <3> QED BY <2>4, <2>6, <3>1
  <2>7. Mild(Totals', Known')
    BY <1>4, <2>5, <2>6 DEF Mild
  <2>8. Known <= Known'
    BY <1>2, <1>4
  <2>9. Arriving(screen', queue', Known')
    BY <2>3, <2>7, <2>8, ArrivingStep DEF OnceInv
  <2> QED BY <1>1, <1>4, <2>7, <2>9 DEF OnceInv
<1> QED BY <1>5, <1>6

\* A replay begins: the reset wipes what the client had, and the snapshot has
\* every byte once.
LEMMA OnceSnapshot ==
    ASSUME TypeOK, TypeOK', Waiters, OnceInv, AttachReplay, ~resume
    PROVE  OnceInv'
<1>1. /\ UNCHANGED <<screen, ring, carry, produced, reader, heard, co, cbuf>>
      /\ co = <<>> /\ cbuf = <<>> /\ mu' = "replay"
      /\ queue' = Append(Append(queue, Control), Reset)
      /\ replay'.todo = ring /\ replay'.batch \in {<<>>, <<Title>>}
  <2>1. PICK title \in {<<>>, <<Title>>} : replay' = [todo |-> ring, batch |-> title]
    BY DEF AttachReplay
  <2>2. replay'.todo = ring /\ replay'.batch = title
    BY <2>1
  <2> QED BY <2>2 DEF AttachReplay, readerVars, bufferVars, clientVars, Waiters
<1>2. Known' = Known /\ Notes' = Notes /\ Known \in Int /\ Notes \in [Output -> Nat]
      /\ screen \in Seq(Bytes) /\ queue \in Seq(Frames)
      /\ ring \in Seq(Seq(Bytes)) /\ carry \in Seq(Bytes)
      /\ Totals' \in [Output -> Nat]
  BY <1>1, Counted, CountedNext DEF Known, Notes
<1>3. ASSUME NEW b \in Output PROVE Totals'[b] <= Notes[b]
  <2>1. Totals'[b] = Shown(b, screen', queue') + Occurrences(b, cbuf')
                       + Occurrences(b, <<co'>>)
                       + Occurrences(b, replay'.todo) + Occurrences(b, <<replay'.batch>>)
    BY Summands
  <2>2. Shown(b, screen', queue') = 0
    <3> DEFINE q == Append(queue, Control)
    <3>1. q \in Seq(Frames) /\ queue' = Append(q, Reset)
      BY <1>1, <1>2, ShownControl
    <3> HIDE DEF q
    <3> QED BY <1>1, <1>2, <3>1, ShownReset
  <2>3. Occurrences(b, cbuf') = 0 /\ Occurrences(b, <<co'>>) = 0
        /\ Occurrences(b, <<replay'.batch>>) = 0
    <3>1. Occurrences(b, <<<<Title>>>>) = 0
      <4>1. Title # b
        BY ByteTypes
      <4> QED BY <4>1, OccursByte
    <3> QED BY <1>1, <3>1, EmptyOccurs
  <2>4. <<carry>> \in Seq(Seq(Bytes))
    BY <1>2
  <2>5. Occurrences(b, ring) \in Nat /\ Occurrences(b, <<carry>>) \in Nat
    BY <1>2, <2>4, OccursNat
  <2>6. Totals'[b] = 0 + 0 + 0 + Occurrences(b, ring) + 0
    BY <1>1, <2>1, <2>2, <2>3
  <2>7. Notes[b] = Occurrences(b, ring) + Occurrences(b, <<carry>>)
    BY DEF Notes
  <2> QED BY <2>5, <2>6, <2>7
<1>4. ASSUME NEW b \in Output PROVE Totals'[b] <= 1 /\ (b > Known => Totals'[b] = 0)
  <2>1. Totals'[b] \in Nat /\ Notes[b] \in Nat /\ Totals'[b] <= Notes[b]
    BY <1>2, <1>3
  <2>2. Notes[b] <= 1 /\ (b > Known => Notes[b] = 0)
    BY DEF OnceInv
  <2> QED BY <2>1, <2>2
<1>5. Mild(Totals', Known')
  <2>1. ASSUME NEW a \in Output PROVE ~(Totals'[a] > 1)
    BY <1>2, <1>4
  <2> QED BY <1>2, <1>4, <2>1 DEF Mild
<1>6. Moved /\ Known <= Known'
  BY <1>1, <1>2, FrameTypes DEF Moved
<1>7. Arriving(screen', queue', Known')
  BY <1>5, <1>6, ArrivingStep DEF OnceInv
<1>8. (\A b \in Output : Notes'[b] <= 1 /\ (b > Known' => Notes'[b] = 0))
  BY <1>2 DEF OnceInv
<1> QED BY <1>1, <1>4, <1>5, <1>7, <1>8 DEF OnceInv

\* The connection is lost: the client keeps what its terminal shows.
LEMMA OnceDropped ==
    ASSUME TypeOK, TypeOK', Waiters, OnceInv, Drop
    PROVE  OnceInv'
<1>1. /\ UNCHANGED <<screen, ring, carry, produced, reader, mu, replay>>
      /\ co' = <<>> /\ cbuf' = <<>> /\ heard' = FALSE /\ queue' = <<>> /\ mu = "free"
  BY DEF Drop, Release
<1>2. Known' = Known /\ Notes' = Notes /\ replay = NoReplay /\ Known \in Int
  BY <1>1, Counted DEF Known, Notes, OnceInv
<1>3. /\ screen \in Seq(Bytes) /\ queue \in Seq(Frames) /\ Totals' \in [Output -> Nat]
      /\ replay'.todo = <<>> /\ replay'.batch = <<>>
  BY <1>1, <1>2, Counted, CountedNext DEF NoReplay
<1>4. ASSUME NEW b \in Output PROVE Totals'[b] = Shown(b, screen, <<>>)
  <2>1. /\ Totals'[b] = Shown(b, screen', queue') + Occurrences(b, cbuf')
                          + Occurrences(b, <<co'>>)
                          + Occurrences(b, replay'.todo) + Occurrences(b, <<replay'.batch>>)
        /\ Shown(b, screen', queue') \in Nat
    BY Summands
  <2>2. /\ Occurrences(b, cbuf') = 0 /\ Occurrences(b, <<co'>>) = 0
        /\ Occurrences(b, replay'.todo) = 0 /\ Occurrences(b, <<replay'.batch>>) = 0
    BY <1>1, <1>3, EmptyOccurs
  <2>3. Totals'[b] = Shown(b, screen', queue')
    BY <2>1, <2>2
  <2> QED BY <1>1, <2>3
<1>5. Totals' = ShownAll(screen, <<>>)
  <2>1. ShownAll(screen, <<>>) = [b \in Output |-> Shown(b, screen, <<>>)]
    BY DEF ShownAll
  <2> QED BY <1>3, <1>4, <2>1
<1>6. Mild(Totals', Known')
  <2>1. 0 \in 0..Len(queue) /\ SubSeq(queue, 1, 0) = <<>>
    BY <1>3
  <2>2. Mild(ShownAll(screen, SubSeq(queue, 1, 0)), Known)
    BY <2>1 DEF OnceInv, Arriving
  <2> QED BY <1>2, <1>5, <2>1, <2>2
<1>7. Moved /\ Known <= Known'
  BY <1>1, <1>2 DEF Moved
<1>8. Arriving(screen', queue', Known')
  BY <1>6, <1>7, ArrivingStep DEF OnceInv
<1>9. (\A b \in Output : Notes'[b] <= 1 /\ (b > Known' => Notes'[b] = 0))
  BY <1>2 DEF OnceInv
<1> QED BY <1>1, <1>2, <1>6, <1>8, <1>9 DEF OnceInv

\* Every step keeps the invariant.
LEMMA StepOnce == RelayInv /\ OnceInv /\ [Next]_vars => OnceInv'
<1> SUFFICES ASSUME RelayInv, OnceInv, [Next]_vars PROVE OnceInv'
  OBVIOUS
<1>t. TypeOK /\ TypeOK' /\ Waiters
  BY StepInv DEF RelayInv
<1>c. /\ Totals \in [Output -> Nat] /\ Totals' \in [Output -> Nat]
      /\ screen \in Seq(Bytes) /\ queue \in Seq(Frames)
  BY <1>t, Counted, CountedNext
<1> DEFINE Still == /\ UNCHANGED <<produced, reader, ring, carry>> /\ (heard' => heard)
                    /\ mu' = "replay" => mu = "replay"
                    /\ mu' # "replay" => replay' = NoReplay
           Less == Moved /\ \A b \in Output : Totals'[b] <= Totals[b]
<1>s. Still /\ Less => OnceInv'
  BY <1>t, OnceStays
<1>q. ASSUME UNCHANGED <<screen, queue, cbuf, co, replay>> PROVE Less
  <2>1. Totals' = Totals /\ Moved
    BY <1>q DEF Totals, Moved
  <2> QED BY <1>c, <2>1
<1>n. mu # "replay" => replay = NoReplay
  BY DEF OnceInv
<1> HIDE DEF Less
<1>1. CASE ReadChunk
  BY <1>1, <1>t, OnceRead
<1>2. CASE SessionHears
  BY <1>2, <1>t, OnceRecorded
<1>3. CASE ClientHears
  BY <1>3, <1>t, OnceHeard
<1>4. CASE Drop
  BY <1>4, <1>t, OnceDropped
<1>5. CASE AttachReplay /\ ~resume
  BY <1>5, <1>t, OnceSnapshot
<1>m. ASSUME UNCHANGED <<screen, cbuf, co, replay>>,
             queue' \in {queue, Append(queue, Control), Append(Append(queue, Control), Control)}
      PROVE  Less
  <2> DEFINE q == Append(queue, Control)
  <2>1. q \in Seq(Frames) /\ \A b : Shown(b, screen, q) = Shown(b, screen, queue)
    BY <1>c, ShownControl
  <2>2. queue' \in {queue, q, Append(q, Control)}
    BY <1>m
  <2>3. Moved
    BY <1>m, FrameTypes DEF Moved
  <2> HIDE DEF q
  <2>4. \A b : Shown(b, screen, Append(q, Control)) = Shown(b, screen, q)
    BY <1>c, <2>1, ShownControl
  <2>5. ASSUME NEW b \in Output PROVE Totals'[b] <= Totals[b]
    <3>1. Shown(b, screen', queue') = Shown(b, screen, queue)
      BY <1>m, <2>1, <2>2, <2>4
    <3>2. Totals'[b] = Totals[b]
      BY <1>t, <1>m, <3>1, Summands
    <3> QED BY <1>c, <3>2
  <2> QED BY <2>3, <2>5 DEF Less
<1>6. CASE AttachReplay /\ resume
  <2>1. /\ UNCHANGED <<screen, cbuf, co, replay>> /\ queue' = Append(queue, Control)
        /\ Still
    BY <1>6, <1>n DEF AttachReplay, readerVars, bufferVars, clientVars
  <2> QED BY <1>m, <1>s, <2>1
<1>14. CASE AttachEnds
  <2>1. /\ UNCHANGED <<screen, cbuf, co, replay>>
        /\ queue' \in {queue, Append(queue, Control),
                       Append(Append(queue, Control), Control)}
        /\ Still
    BY <1>14, <1>n DEF AttachEnds, readerVars, bufferVars, clientVars
  <2> QED BY <1>m, <1>s, <2>1
<1>7. CASE SessionGone \/ Pause \/ Resume \/ ResumeFlush \/ BackpressureTick \/ FlushEnds
           \/ UNCHANGED vars
  <2>1. UNCHANGED <<screen, queue, cbuf, co, replay>> /\ Still
    <3>1. CASE SessionGone
      BY <3>1, <1>n DEF SessionGone, bufferVars, attachVars, clientVars
    <3>2. CASE Pause
      BY <3>2, <1>n DEF Pause, readerVars, attachVars, clientVars
    <3>3. CASE Resume
      BY <3>3, <1>n DEF Resume, readerVars, clientVars
    <3>4. CASE ResumeFlush
      BY <3>4, <1>n DEF ResumeFlush, readerVars, bufferVars, clientVars
    <3>5. CASE BackpressureTick
      BY <3>5, <1>n DEF BackpressureTick, readerVars, bufferVars, clientVars
    <3>6. CASE FlushEnds
      BY <3>6, <1>n DEF FlushEnds, readerVars, clientVars
    <3>7. CASE UNCHANGED vars
      BY <3>7, <1>n DEF vars, readerVars, bufferVars, attachVars, clientVars
    <3> QED BY <1>7, <3>1, <3>2, <3>3, <3>4, <3>5, <3>6, <3>7
  <2> QED BY <1>q, <1>s, <2>1
<1>8. CASE AttachSubscribe
  <2>1. UNCHANGED <<screen, queue, cbuf, co, replay>>
    BY <1>8, <1>t DEF AttachSubscribe, Waiters, clientVars
  <2>2. Still
    BY <1>8, <1>n DEF AttachSubscribe, readerVars
  <2> QED BY <1>q, <1>s, <2>1, <2>2
<1>9. CASE Detach
  <2>1. /\ UNCHANGED <<screen, queue, replay>> /\ co' = <<>> /\ cbuf' = <<>>
    BY <1>9 DEF Detach, Release
  <2>2. Still
    BY <1>9, <1>n DEF Detach, readerVars
  <2>3. ASSUME NEW b \in Output PROVE Totals'[b] <= Totals[b]
    <3>1. /\ Totals[b] = Shown(b, screen, queue) + Occurrences(b, cbuf) + Occurrences(b, <<co>>)
                          + Occurrences(b, replay.todo) + Occurrences(b, <<replay.batch>>)
          /\ Shown(b, screen, queue) \in Nat /\ Occurrences(b, cbuf) \in Nat
          /\ Occurrences(b, <<co>>) \in Nat
          /\ Occurrences(b, replay.todo) \in Nat /\ Occurrences(b, <<replay.batch>>) \in Nat
      BY <1>t, Summands
    <3>2. Occurrences(b, cbuf') = 0 /\ Occurrences(b, <<co'>>) = 0
      BY <2>1, EmptyOccurs
    <3>3. Totals'[b] = Shown(b, screen, queue) + 0 + 0
                        + Occurrences(b, replay.todo) + Occurrences(b, <<replay.batch>>)
      BY <1>t, Summands, <2>1, <3>2
    <3> QED BY <3>1, <3>3
  <2> QED BY <1>s, <2>1, <2>2, <2>3 DEF Less, Moved
<1>10. CASE TimerFires
  <2>1. Less
    BY <1>10, <1>t, TimerMoves DEF Less
  <2>2. Still
    BY <1>10, <1>n DEF TimerFires, readerVars, attachVars
  <2> QED BY <1>s, <2>1, <2>2
<1>11. CASE FlushChunk
  <2>1. Less
    BY <1>11, <1>t, FlushMoves DEF Less
  <2>2. Still
    BY <1>11, <1>n DEF FlushChunk, readerVars
  <2> QED BY <1>s, <2>1, <2>2
<1>12. CASE ReplayChunk \/ ReplayEnds
  <2>1. Less
    BY <1>12, <1>t, BatchMoves DEF Less
  <2>2. Still
    <3>1. CASE ReplayChunk
      <4>1. mu = "replay" /\ UNCHANGED <<produced, reader, ring, carry, heard>>
        BY <3>1 DEF ReplayChunk, readerVars
      <4>2. mu' # "replay" => replay' = NoReplay
        BY <3>1 DEF ReplayChunk, BatchFills, BatchSent, BatchHeld
      <4> QED BY <4>1, <4>2
    <3>2. CASE ReplayEnds
      <4>1. mu = "replay" /\ UNCHANGED <<produced, reader, ring, carry, heard>>
        BY <3>2 DEF ReplayEnds, readerVars
      <4>2. mu' # "replay" => replay' = NoReplay
        BY <3>2 DEF ReplayEnds, BatchHeld
      <4> QED BY <4>1, <4>2
    <3> QED BY <1>12, <3>1, <3>2
  <2> QED BY <1>s, <2>1, <2>2
<1>13. CASE SocketDelivers
  <2>1. /\ UNCHANGED <<cbuf, co, replay>> /\ queue # <<>> /\ queue' = Tail(queue)
        /\ screen' = IF Head(queue) = Reset THEN <<>> ELSE screen \o Head(queue).bytes
    BY <1>13 DEF SocketDelivers, bufferVars, attachVars
  <2>2. Still
    BY <1>13, <1>n DEF SocketDelivers, readerVars, attachVars
  <2>3. ASSUME NEW b \in Output PROVE Totals'[b] <= Totals[b]
    <3>1. Shown(b, screen', queue') = Shown(b, screen, queue)
      BY <1>c, <2>1, ShownDelivered
    <3>2. Totals'[b] = Totals[b]
      BY <1>t, Summands, <2>1, <3>1
    <3> QED BY <1>c, <3>2
  <2> QED BY <1>13, <1>s, <2>2, <2>3 DEF Less, Moved
<1> QED BY <1>1, <1>2, <1>3, <1>4, <1>5, <1>6, <1>7, <1>8, <1>9, <1>10, <1>11, <1>12, <1>13,
           <1>14 DEF Next

\* It holds in the beginning, when there is nothing.
LEMMA InitOnce == Init => OnceInv
<1> SUFFICES ASSUME Init PROVE OnceInv
  OBVIOUS
<1>1. TypeOK
  BY InitInv DEF RelayInv
<1>2. /\ screen = <<>> /\ queue = <<>> /\ cbuf = <<>> /\ co = <<>> /\ replay = NoReplay
      /\ ring = <<>> /\ carry = <<>> /\ produced = 0 /\ reader = "idle" /\ mu = "free"
  BY DEF Init
<1>3. <<>> \in Seq(Bytes) /\ <<>> \in Seq(Frames)
  OBVIOUS
<1>4. ASSUME NEW b \in Output PROVE Shown(b, <<>>, <<>>) = 0
  <2>1. Live(<<>>) = <<>>
    BY DEF Live
  <2>2. Shown(b, <<>>, <<>>) = Occurrences(b, <<<<>>>>) + Occurrences(b, <<>>)
    BY <2>1 DEF Shown
  <2> QED BY <2>2, EmptyOccurs
<1>5. NoReplay.todo = <<>> /\ NoReplay.batch = <<>>
  BY DEF NoReplay
<1>6. ASSUME NEW b \in Output PROVE Totals[b] = 0 /\ Notes[b] = 0
  <2>1. Totals = [k \in Output |-> Shown(k, screen, queue) + Occurrences(k, cbuf)
                   + Occurrences(k, <<co>>)
                   + Occurrences(k, replay.todo) + Occurrences(k, <<replay.batch>>)]
    BY DEF Totals, Tally
  <2>2. Totals[b] = Shown(b, <<>>, <<>>) + Occurrences(b, <<>>) + Occurrences(b, <<<<>>>>)
                   + Occurrences(b, <<>>) + Occurrences(b, <<<<>>>>)
    BY <1>2, <1>5, <2>1
  <2>3. Totals[b] = 0
    BY <1>4, <2>2, EmptyOccurs
  <2>4. Notes[b] = Occurrences(b, <<>>) + Occurrences(b, <<<<>>>>)
    BY <1>2 DEF Notes
  <2> QED BY <2>3, <2>4, EmptyOccurs
<1>7. Mild(Totals, Known)
  BY <1>6 DEF Mild
<1>8. Arriving(screen, queue, Known)
  <2>1. \A k \in 0..Len(queue) : SubSeq(queue, 1, k) = <<>>
    BY <1>2
  <2>2. Mild(ShownAll(<<>>, <<>>), Known)
    <3>1. \A b \in Output : ShownAll(<<>>, <<>>)[b] = 0
      BY <1>4 DEF ShownAll
    <3> QED BY <3>1 DEF Mild
  <2> QED BY <1>2, <2>1, <2>2 DEF Arriving
<1> QED BY <1>2, <1>6, <1>7, <1>8 DEF OnceInv

\* The stream of the property counts the same as its parts.
LEMMA StreamCounts ==
    ASSUME TypeOK, NEW b \in Output
    PROVE  Occurrences(b, Stream) = Totals[b]
<1> DEFINE s == <<IF Wiped THEN <<>> ELSE screen>>
           l == Live(queue)
           g == <<replay.batch>>
           r == replay.todo
           c == <<co>>
<1>1. /\ screen \in Seq(Bytes) /\ queue \in Seq(Frames) /\ cbuf \in Seq(Seq(Bytes))
      /\ co \in Seq(Bytes) /\ replay \in [todo : Seq(Seq(Bytes)), batch : Seq(Bytes)]
  BY Counted
<1>2. Wiped <=> Erased(queue)
  BY DEF Wiped, Erased
<1>3. l = [i \in DOMAIN queue |-> IF i \in Standing THEN queue[i].bytes ELSE <<>>]
  <2>1. \A i \in DOMAIN queue : i \in Standing <=> \A j \in i..Len(queue) : queue[j] # Reset
    BY DEF Standing
  <2> QED BY <2>1 DEF Live
<1>r. r \in Seq(Seq(Bytes)) /\ g \in Seq(Seq(Bytes))
  <2> DEFINE T == Seq(Seq(Bytes))
             B == Seq(Bytes)
  <2>1. replay \in [todo : T, batch : B]
    BY <1>1
  <2> HIDE DEF T, B
  <2>2. replay.todo \in T /\ replay.batch \in B
    BY <2>1
  <2> QED BY <2>2 DEF T, B
<1>4. /\ s \in Seq(Seq(Bytes)) /\ l \in Seq(Seq(Bytes)) /\ c \in Seq(Seq(Bytes))
      /\ Occurrences(b, s) + Occurrences(b, l) = Shown(b, screen, queue)
  <2>1. s = <<IF Erased(queue) THEN <<>> ELSE screen>>
    BY <1>2
  <2>2. s \in Seq(Seq(Bytes))
    BY <1>1, <2>1, ShownNat
  <2>3. l \in Seq(Seq(Bytes))
    BY <1>1, LiveType
  <2>4. c \in Seq(Seq(Bytes))
    BY <1>1
  <2> QED BY <2>1, <2>2, <2>3, <2>4 DEF Shown
<1>t. /\ Totals[b] = Shown(b, screen, queue) + Occurrences(b, cbuf) + Occurrences(b, c)
                       + Occurrences(b, r) + Occurrences(b, g)
      /\ Shown(b, screen, queue) \in Nat /\ Occurrences(b, cbuf) \in Nat
      /\ Occurrences(b, c) \in Nat /\ Occurrences(b, r) \in Nat /\ Occurrences(b, g) \in Nat
  BY <1>1, TallyIs DEF Totals
<1> DEFINE u == s \o l
           v == u \o g
           w == v \o r
           x == w \o cbuf
<1>5. Stream = x \o c
  BY <1>3 DEF Stream
<1> HIDE DEF s, l, c, g, r
<1>6. u \in Seq(Seq(Bytes)) /\ Occurrences(b, u) = Occurrences(b, s) + Occurrences(b, l)
  BY <1>4, OccursConcat
<1> HIDE DEF u
<1>7. v \in Seq(Seq(Bytes)) /\ Occurrences(b, v) = Occurrences(b, u) + Occurrences(b, g)
  BY <1>r, <1>6, OccursConcat
<1> HIDE DEF v
<1>8. w \in Seq(Seq(Bytes)) /\ Occurrences(b, w) = Occurrences(b, v) + Occurrences(b, r)
  BY <1>r, <1>7, OccursConcat
<1> HIDE DEF w
<1>9. x \in Seq(Seq(Bytes)) /\ Occurrences(b, x) = Occurrences(b, w) + Occurrences(b, cbuf)
  BY <1>1, <1>8, OccursConcat
<1> HIDE DEF x
<1>10. Occurrences(b, x \o c) = Occurrences(b, x) + Occurrences(b, c)
  BY <1>4, <1>9, OccursConcat
<1> QED BY <1>4, <1>5, <1>6, <1>7, <1>8, <1>9, <1>10, <1>t, SMTT(30)

\* A byte may be repeated only while its dispatch runs into a replay.
LEMMA OnceIsOnce == RelayInv /\ OnceInv => AtMostOneRepeat
<1> SUFFICES ASSUME RelayInv, OnceInv,
                    NEW a \in Output, Occurrences(a, Stream) > 1,
                    NEW b \in Output, Occurrences(b, Stream) > 1
             PROVE  a = b /\ Occurrences(a, Stream) = 2
  BY DEF AtMostOneRepeat
<1>1. TypeOK
  BY DEF RelayInv
<1>2. ASSUME NEW x \in Output PROVE Occurrences(x, Stream) = Totals[x]
  BY <1>1, StreamCounts
<1>3. Totals[a] > 1 /\ Totals[b] > 1
  BY <1>2
<1>4. a = b /\ Totals[a] = 2
  BY <1>3 DEF OnceInv, Mild
<1> QED BY <1>2, <1>4

\* Both invariants hold of every behaviour.
LEMMA OnceAlways == Spec => [](RelayInv /\ OnceInv)
<1>1. Init => RelayInv /\ OnceInv
  BY InitInv, InitOnce
<1>2. RelayInv /\ OnceInv /\ [Next]_vars => (RelayInv /\ OnceInv)'
  BY StepInv, StepOnce
<1> QED BY <1>1, <1>2, PTL DEF Spec

\* A client is given every byte its listener was handed, and no byte twice but
\* one: the chunk whose dispatch ran into the attach that replayed it
\* (handleAttach registers the listener before it takes the snapshot).
THEOREM GivenOnce == Spec => NeitherLostNorRepeated
<1>1. RelayInv /\ OnceInv => AtMostOneRepeat
  BY OnceIsOnce
<1>2. Spec => []AtMostOneRepeat
  BY <1>1, OnceAlways, PTL
<1> QED BY <1>2, AcceptedIsKept, PTL DEF NeitherLostNorRepeated
=============================================================================

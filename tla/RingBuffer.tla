----------------------------- MODULE RingBuffer -----------------------------
(***************************************************************************)
(* internal/ringbuf: a circular array of chunks that doubles when it is    *)
(* full and evicts from its head.  It holds the recent output of a session *)
(* for replay, and the output a client could not take yet.                 *)
(***************************************************************************)
EXTENDS ChunkQueue

CONSTANTS Chunks,      \* the chunks pushed, sequences of bytes, never empty
          InitialCap,  \* 512
          Nil          \* a slot without a chunk

ASSUME RingAssumption ==
    /\ InitialCap \in Nat \ {0}
    /\ MaxBytes \in Nat \ {0}
    /\ MaxCount \in Nat \ {0}
    /\ Chunks \subseteq Seq(Nat) \ {<<>>}
    /\ Nil \notin Chunks

VARIABLES slots,      \* rb.chunks, and through their lengths rb.chunkSize
          cap, head, tail, size, byteTotal

vars == <<slots, cap, head, tail, size, byteTotal>>

TypeOK ==
    /\ cap \in Nat \ {0}
    /\ slots \in [0..(cap - 1) -> Chunks \cup {Nil}]
    /\ head \in 0..(cap - 1) /\ tail \in 0..(cap - 1)
    /\ size \in 0..cap
    /\ byteTotal \in Nat

Init ==
    /\ cap = InitialCap
    /\ slots = [i \in 0..(InitialCap - 1) |-> Nil]
    /\ head = 0 /\ tail = 0 /\ size = 0 /\ byteTotal = 0

\* Slip: growing copies the array without unrolling it from the head.
GrownUnrotated(r) ==
    IF r.cap > r.size THEN r
    ELSE [r EXCEPT !.cap = 2 * r.cap, !.head = 0, !.tail = r.size,
                   !.slots = [i \in 0..(2 * r.cap - 1) |->
                                IF i < r.size THEN r.slots[i] ELSE Nil]]

\* ensureCapacity(size + 1): the contents move to the front of a larger array.
\* One doubling is enough, as size never exceeds cap.
Grown(r) ==
    IF r.cap > r.size THEN r
    ELSE [r EXCEPT !.cap = 2 * r.cap, !.head = 0, !.tail = r.size,
                   !.slots = [i \in 0..(2 * r.cap - 1) |->
                                IF i < r.size
                                THEN r.slots[(r.head + i) % r.cap] ELSE Nil]]

Stored(r, chunk) ==
    [r EXCEPT !.slots[r.tail] = chunk, !.tail = (r.tail + 1) % r.cap,
              !.size = @ + 1, !.byteTotal = @ + Len(chunk)]

\* evictOne, and the bookkeeping of Shift.
EvictOne(r) ==
    [r EXCEPT !.slots[r.head] = Nil, !.head = (r.head + 1) % r.cap,
              !.size = @ - 1, !.byteTotal = @ - Len(r.slots[r.head])]

\* The n oldest chunks, from the head on.
Oldest(r, n) == [k \in 1..n |-> r.slots[(r.head + k - 1) % r.cap]]

\* What n calls of EvictOne leave (lemma OneMoreEvicted), without recursion.
WithoutOldest(r, n) ==
    [r EXCEPT !.slots = [i \in 0..(r.cap - 1) |->
                           IF \E k \in 0..(n - 1) : i = (r.head + k) % r.cap
                           THEN Nil ELSE r.slots[i]],
              !.head = (r.head + n) % r.cap, !.size = @ - n,
              !.byteTotal = @ - ByteCount(Oldest(r, n))]

OverBudget(r) ==
    (r.byteTotal >= MaxBytes \/ r.size > MaxCount) /\ r.size > 1

\* The eviction loop: as many rounds as it takes.
Evicted(r) ==
    LET rounds == CHOOSE n \in 0..r.size :
                      /\ ~OverBudget(WithoutOldest(r, n))
                      /\ \A k \in 0..(n - 1) : OverBudget(WithoutOldest(r, k))
    IN  WithoutOldest(r, rounds)

Ring == [slots |-> slots, cap |-> cap, head |-> head, tail |-> tail,
         size |-> size, byteTotal |-> byteTotal]

Becomes(r) ==
    /\ slots' = r.slots /\ cap' = r.cap /\ head' = r.head /\ tail' = r.tail
    /\ size' = r.size /\ byteTotal' = r.byteTotal

Push(chunk) == Becomes(Evicted(Stored(Grown(Ring), chunk)))

Shift ==
    /\ size > 0
    /\ Becomes(EvictOne(Ring))

Next == Shift \/ \E chunk \in Chunks : Push(chunk)

Spec == Init /\ [][Next]_vars

Snapshot == Oldest(Ring, size)
-----------------------------------------------------------------------------
(* Properties                                                               *)

\* Head, tail and size describe one window of the array, every slot of the
\* window holds a chunk and no slot outside it keeps one alive.
WindowConsistent ==
    /\ tail = (head + size) % cap
    /\ \A i \in 0..(cap - 1) :
         (slots[i] # Nil) <=> \E k \in 0..(size - 1) : i = (head + k) % cap

\* Refinement: whatever the growth and wrap-around, the snapshot that is
\* replayed to a client is the queue of the newest chunks that fit, in order.
Fifo == INSTANCE BoundedFifo WITH q <- Snapshot
ImplementsBoundedFifo == Fifo!Spec

\* byteTotal, which drives eviction, never drifts from the bytes stored.
BytesCounted == byteTotal = ByteCount(Snapshot)

\* Growth, wrap-around and both evictions keep the array and the count in step.
RingConsistent == WindowConsistent /\ BytesCounted

\* The ring is the queue it promises to be, and its own books agree.
RingIsFifo == ImplementsBoundedFifo /\ [](TypeOK /\ RingConsistent)
=============================================================================

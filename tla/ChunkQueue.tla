----------------------------- MODULE ChunkQueue -----------------------------
(***************************************************************************)
(* What internal/ringbuf keeps of a queue of chunks: it forgets the oldest *)
(* ones, and only as many as it must, to stay under a byte budget and a    *)
(* chunk count; the newest chunk always stays, however large.              *)
(* A chunk is a sequence of bytes; its size is its length.                 *)
(***************************************************************************)
EXTENDS Naturals, FiniteSets, Sequences

CONSTANTS MaxBytes,  \* the byte budget given to ringbuf.New
          MaxCount   \* ringbuf.MaxCount, the hard cap on the number of chunks

\* The bytes of all chunks, counted by their positions.
Positions(chunks) == UNION {{i} \X DOMAIN chunks[i] : i \in DOMAIN chunks}
ByteCount(chunks) == Cardinality(Positions(chunks))

Fits(chunks) == ByteCount(chunks) < MaxBytes /\ Len(chunks) <= MaxCount

\* The longest suffix that fits, or the newest chunk alone.
Trim(chunks) ==
    IF chunks = <<>> THEN chunks
    ELSE LET Ok(k) == k = Len(chunks) \/ Fits(SubSeq(chunks, k, Len(chunks)))
             first == CHOOSE k \in 1..Len(chunks) :
                          Ok(k) /\ \A j \in 1..(k - 1) : ~Ok(j)
         IN  SubSeq(chunks, first, Len(chunks))

Pushed(chunks, chunk) == Trim(Append(chunks, chunk))
=============================================================================

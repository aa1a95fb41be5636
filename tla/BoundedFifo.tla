---------------------------- MODULE BoundedFifo ----------------------------
(* The queue of ChunkQueue as a state machine, for RingBuffer to implement. *)
EXTENDS ChunkQueue

CONSTANT Chunks
VARIABLE q

Init == q = <<>>
Push(chunk) == q' = Pushed(q, chunk)
Shift == q # <<>> /\ q' = Tail(q)
Next == Shift \/ \E chunk \in Chunks : Push(chunk)
Spec == Init /\ [][Next]_q
=============================================================================

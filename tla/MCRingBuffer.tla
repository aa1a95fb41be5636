---------------------------- MODULE MCRingBuffer ----------------------------
(* TLC instance of RingBuffer: chunks of one to three bytes and one larger  *)
(* than the whole budget.                                                   *)
EXTENDS RingBuffer

MCChunks == {<<1>>, <<2>>, <<1, 2>>, <<2, 2, 1>>, <<1, 1, 1, 1, 1, 1, 1>>}
=============================================================================

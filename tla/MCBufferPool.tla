---------------------------- MODULE MCBufferPool ----------------------------
(* Small instance of BufferPool: segments of 2, 2 and a capped third of 1.  *)
EXTENDS BufferPool, TLC

Symmetry == Permutations(Segs) \cup Permutations(Views) \cup Permutations(Holders)
=============================================================================

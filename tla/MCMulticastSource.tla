-------------------------- MODULE MCMulticastSource --------------------------
(* Two viewers, a window of 3 slots, 2 packets to start with; the sequence   *)
(* numbers wrap in the middle of a stream of five packets.                   *)
EXTENDS MulticastSource, TLC

Symmetry == Permutations(Viewers)
=============================================================================

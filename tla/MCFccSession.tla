---------------------------- MODULE MCFccSession ----------------------------
(* A window of 4 slots, 3 packets to start with, sequence numbers of 5 bits  *)
(* that wrap inside the stream.  A unit of time is the signaling timeout;    *)
(* unicast and multicast tolerate the same longer silence.                   *)
EXTENDS FccSession

MCUniFirst == SeqMod - 4
MCLiveFirst == SeqMod - 1
=============================================================================

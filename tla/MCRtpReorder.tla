---------------------------- MODULE MCRtpReorder ----------------------------
(* A window of 8 slots, 3 packets to start with, and sequence numbers of 6   *)
(* bits, joined just before they wrap.                                       *)
EXTENDS RtpReorder

MCFirst == {58, 60}
=============================================================================

------------------------ MODULE MCTransmuxSession ---------------------------
EXTENDS TransmuxSession
=============================================================================

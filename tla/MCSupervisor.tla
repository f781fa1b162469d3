---------------------------- MODULE MCSupervisor ----------------------------
(* Two worker indexes, three process ids, two restarts in a window of one    *)
(* tick.                                                                     *)
EXTENDS Supervisor
=============================================================================

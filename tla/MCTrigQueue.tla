---------------------------- MODULE MCTrigQueue ----------------------------
(* Small instances of TrigQueue for TLC.                                   *)
EXTENDS TrigQueue
Triggers == 1 .. MaxRead
=============================================================================

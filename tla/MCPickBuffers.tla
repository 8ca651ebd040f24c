--------------------------- MODULE MCPickBuffers ----------------------------
(* Small instances of PickBuffers for TLC.                                 *)
EXTENDS PickBuffers
=============================================================================

--------------------------- MODULE MCEwController ---------------------------
(* Small instances of EwController for TLC.                                *)
EXTENDS EwController
=============================================================================

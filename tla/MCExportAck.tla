---------------------------- MODULE MCExportAck -----------------------------
(* A small instance of ExportAck for TLC.                                  *)
EXTENDS ExportAck
=============================================================================

----------------------------- MODULE MCScanCommands -----------------------------
(* A small instance of ScanCommands for TLC: its configurations give the constants. *)
EXTENDS ScanCommands

=============================================================================

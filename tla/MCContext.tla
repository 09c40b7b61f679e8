------------------------------- MODULE MCContext -------------------------------
(* Small instances of Context, and with it of Channel, for TLC. *)
EXTENDS Context

=============================================================================

------------------------------ MODULE MCPrintTest ------------------------------
(* An instance of PrintTest for TLC. *)
EXTENDS PrintTest

MCDelta == {-1, 2}

=============================================================================

------------------------------ MODULE MCNetpoller ------------------------------
(* A small instance of Netpoller for TLC. *)
EXTENDS Netpoller

=============================================================================

------------------------------- MODULE MCCoMutex -------------------------------
(* Small instances of CoMutex for TLC. *)
EXTENDS CoMutex

=============================================================================

------------------------------ MODULE MCWaitGroup ------------------------------
(* A small instance of WaitGroup for TLC. *)
EXTENDS WaitGroup

MCDelta == {-1, 1, 2}

=============================================================================

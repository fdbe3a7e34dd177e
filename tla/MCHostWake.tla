------------------------------ MODULE MCHostWake ------------------------------
(***************************************************************************)
(* Two threads that use the bus besides the poll thread, and an event      *)
(* semaphore that saturates at two instead of ten.                         *)
(***************************************************************************)
EXTENDS HostWake
=============================================================================

----------------------------- MODULE MCDriverLock -----------------------------
(***************************************************************************)
(* Three threads that nest up to three deep: a caller, the work queue and  *)
(* the poll thread, each inside a library call inside a driver section.    *)
(***************************************************************************)
EXTENDS DriverLock
=============================================================================

---------------------------- MODULE MCRequestWork ----------------------------
(***************************************************************************)
(* Two callers, up to three calls in a behaviour: a request with several   *)
(* parameter stores, one with a single one, one with none.                 *)
(***************************************************************************)
EXTENDS RequestWork

=============================================================================

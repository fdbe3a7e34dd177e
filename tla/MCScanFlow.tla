------------------------------ MODULE MCScanFlow ------------------------------
(***************************************************************************)
(* Up to four scan calls and three looks for the end instead of fifty.     *)
(***************************************************************************)
EXTENDS ScanFlow
=============================================================================

---------------------------- MODULE MCWifiControl ----------------------------
(***************************************************************************)
(* Two callers whose calls may overlap, two join attempts and two polls    *)
(* instead of five and eight.                                              *)
(***************************************************************************)
EXTENDS WifiControl
=============================================================================

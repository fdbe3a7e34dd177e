------------------------------ MODULE ScanRequest ------------------------------
(***************************************************************************)
(* What the request mechanism owes the scan service, and all that ScanFlow *)
(* knows of it: a scan that was stored is submitted, and is taken then     *)
(* unless a newer request replaces it; runs of the handler that earlier    *)
(* requests began can take it as well, and leave it there.                 *)
(***************************************************************************)

VARIABLES pending,    \* the newest request: "none" when it is not a scan or its own
                      \* run has taken it, "stored" until it is submitted, "queued"
          serving     \* the handler runs for a scan

vars == <<pending, serving>>

Init ==
  /\ pending = "none"
  /\ serving = FALSE

Put ==
  /\ pending # "stored"
  /\ pending' = "stored"
  /\ UNCHANGED serving

Submit ==
  /\ pending = "stored"
  /\ pending' = "queued"
  /\ UNCHANGED serving

Replace ==
  /\ pending = "queued"
  /\ pending' = "none"
  /\ UNCHANGED serving

Take ==
  /\ pending # "none"
  /\ ~serving
  /\ serving' = TRUE
  /\ pending' = pending \/ (pending = "queued" /\ pending' = "none")

Done ==
  /\ serving
  /\ serving' = FALSE
  /\ UNCHANGED pending

Next == Put \/ Submit \/ Replace \/ Take \/ Done

Spec == Init /\ [][Next]_vars
=============================================================================

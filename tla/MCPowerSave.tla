----------------------------- MODULE MCPowerSave -----------------------------
(***************************************************************************)
(* Two readers; builds with the defaults, with the values of app/prj.conf, *)
(* with every field at its largest, with every field zero, and with PM2    *)
(* and no DTIM interval.                                                   *)
(***************************************************************************)
EXTENDS PowerSave

\* What the Kconfig file and the application configure.
Shipped == {
  [mode |-> 0, sleep |-> 200, beacon |-> 1, dtim |-> 1, assoc |-> 10],
  [mode |-> 0, sleep |-> 20, beacon |-> 1, dtim |-> 1, assoc |-> 10]}

Builds == Shipped \cup {
  [mode |-> 2, sleep |-> 255, beacon |-> 15, dtim |-> 15, assoc |-> 15],
  [mode |-> 1, sleep |-> 0, beacon |-> 0, dtim |-> 0, assoc |-> 0],
  [mode |-> 2, sleep |-> 20, beacon |-> 1, dtim |-> 0, assoc |-> 10]}
=============================================================================

--------------------------- MODULE MCRadioTraffic ---------------------------
(***************************************************************************)
(* An application sender, the stack's own thread, the Bluetooth host's     *)
(* thread and the poll thread; pools small enough for either side to hold  *)
(* all of its buffers.                                                     *)
(***************************************************************************)
EXTENDS RadioTraffic

SmallPools == [p \in {"rx", "report"} |-> 1]
=============================================================================

--------------------------- MODULE MCPioTransfer ---------------------------
(***************************************************************************)
(* The transfers the bus makes: register writes and a block write longer   *)
(* than the FIFO, register reads with and without response delay, before   *)
(* and after the first block, and block reads with and without the delay.  *)
(***************************************************************************)
EXTENDS PioTransfer

Job(tx, rx, reorder) == [tx |-> tx, rx |-> rx, reorder |-> reorder]
Transfers ==
  {Job(8, 0, FALSE), Job(12, 0, FALSE),
   Job(4, 8, TRUE), Job(4, 24, TRUE),
   Job(4, 8, FALSE), Job(4, 24, FALSE), Job(4, 12, FALSE), Job(4, 28, FALSE)}
=============================================================================

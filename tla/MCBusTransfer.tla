--------------------------- MODULE MCBusTransfer ---------------------------
(***************************************************************************)
(* Blocks of up to two words behind a response delay of two; two error     *)
(* values of the SPI driver: -EIO, whose low byte has the bit the wait     *)
(* looks for, and -ETIMEDOUT, whose low byte has not.                      *)
(***************************************************************************)
EXTENDS BusTransfer

EIO == 5
ETIMEDOUT == 116
SpiErrors == {EIO, ETIMEDOUT}
NoErrors == {}
=============================================================================

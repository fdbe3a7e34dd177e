------------------------------ MODULE RadioBus ------------------------------
(***************************************************************************)
(* What the bus promises the library: a call moves the whole block or      *)
(* reports an error, a register read as if it were the value.  Calls are   *)
(* told apart by a tag that alternates, so that a word left over from the  *)
(* call before is not taken for a new one.                                 *)
(***************************************************************************)
EXTENDS Naturals, Sequences

CONSTANT Room         \* words of the largest block

VARIABLES tag,        \* tag of the next call
          moved       \* what the last call gave to the radio or to its caller

vars == <<tag, moved>>

Function == {"BACKPLANE", "WLAN"}

\* The words that cross the bus: a command names the function and the length,
\* any other word its place in the block.
Command == [write : BOOLEAN, fn : Function, tag : 0..1, n : 1..Room]
Item == [kind : {"payload", "data", "pad", "error"}, tag : 0..1, k : 0..Room]

Block(kind, t, n) == [i \in 1..n |-> [kind |-> kind, tag |-> t, k |-> i]]
Frame(fn, t, n) ==
  <<[write |-> TRUE, fn |-> fn, tag |-> t, n |-> n]>> \o Block("payload", t, n)

Init ==
  /\ tag = 0
  /\ moved = <<>>

Write(fn, n) == moved' = Frame(fn, tag, n)

Read(n) == moved' = Block("data", tag, n)

Fail == moved' = <<>>

\* A register read that fails hands its error over in place of the value.
Mislead == moved' = Block("error", tag, 1)

Next ==
  /\ tag' = 1 - tag
  /\ \/ \E fn \in Function, n \in 1..Room : Write(fn, n)
     \/ \E n \in 1..Room : Read(n)
     \/ Fail
     \/ Mislead

Spec == Init /\ [][Next]_vars
=============================================================================

-------------------------- MODULE ConflatingMailbox --------------------------
(***************************************************************************)
(* What the request mechanism of the driver promises: a mailbox with room  *)
(* for one request.  A newer request replaces an older one nobody has      *)
(* taken yet; whoever takes gets the newest; and what was put last is      *)
(* taken in the end.  Requests are numbered in the order they are put.     *)
(***************************************************************************)
EXTENDS Naturals

VARIABLES newest,   \* number of the request in the mailbox, 0 before the first
          taken     \* number of the request taken last

vars == <<newest, taken>>

Init ==
  /\ newest = 0
  /\ taken = 0

Put ==
  /\ newest' = newest + 1
  /\ UNCHANGED taken

Take ==
  /\ taken # newest
  /\ taken' = newest
  /\ UNCHANGED newest

Next == Put \/ Take

Spec == Init /\ [][Next]_vars
FairSpec == Spec /\ WF_vars(Take)
=============================================================================

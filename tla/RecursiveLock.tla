---------------------------- MODULE RecursiveLock ----------------------------
(***************************************************************************)
(* What the driver lock promises its callers: a lock that one thread at a  *)
(* time holds, as many times as it likes, and that is free again when that *)
(* thread has released it as often as it has taken it.                     *)
(***************************************************************************)
EXTENDS Naturals

CONSTANT Thread

VARIABLE level    \* how many times each thread holds the lock

Init == level = [t \in Thread |-> 0]

Enter(t) ==
  /\ \A u \in Thread \ {t} : level[u] = 0
  /\ level' = [level EXCEPT ![t] = @ + 1]

Leave(t) ==
  /\ level[t] > 0
  /\ level' = [level EXCEPT ![t] = @ - 1]

Next == \E t \in Thread : Enter(t) \/ Leave(t)

Spec == Init /\ [][Next]_level
=============================================================================

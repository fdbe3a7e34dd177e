------------------------------ MODULE DriverLock ------------------------------
(***************************************************************************)
(* zephyr_cyw43_lock and zephyr_cyw43_unlock (zephyr_cyw43_drv.h), the     *)
(* recursive lock the driver builds from a Zephyr mutex, an atomic word    *)
(* that names the owner and a nesting depth.  The owner word is read       *)
(* before the mutex is taken and written after it, so each access is a     *)
(* step of its own and the steps of all threads interleave.                *)
(***************************************************************************)
EXTENDS Naturals

CONSTANTS Thread,     \* threads that call into the driver
          Nobody,     \* owner word 0 (static storage) or -1 (released)
          MaxDepth    \* bound: how deep a thread nests its calls

ASSUME NobodyAssumption == Nobody \notin Thread
ASSUME DepthAssumption == MaxDepth \in Nat \ {0}

VARIABLES kowner,     \* k_mutex.owner
          kcount,     \* k_mutex.lock_count
          owner,      \* mutex_owner
          depth,      \* mutex_depth
          pc,         \* where each thread is inside lock() or unlock()
          held        \* lock() calls returned minus unlock() calls begun

vars == <<kowner, kcount, owner, depth, pc, held>>

Location == {"out", "nest", "pend", "own", "dep", "clear", "kun"}

TypeOK ==
  /\ kowner \in Thread \cup {Nobody}
  /\ kcount \in Nat
  /\ owner \in Thread \cup {Nobody}
  /\ depth \in Nat
  /\ pc \in [Thread -> Location]
  /\ held \in [Thread -> Nat]

Init ==
  /\ kowner = Nobody
  /\ kcount = 0
  /\ owner = Nobody
  /\ depth = 0
  /\ pc = [t \in Thread |-> "out"]
  /\ held = [t \in Thread |-> 0]

Goto(t, from, to) ==
  /\ pc[t] = from
  /\ pc' = [pc EXCEPT ![t] = to]

-----------------------------------------------------------------------------
(* zephyr_cyw43_lock *)

\* MUTANT: takes any recorded owner for itself.
LockTestAnyOwner(t) ==
  /\ held[t] < MaxDepth
  /\ Goto(t, "out", IF owner # Nobody THEN "nest" ELSE "pend")
  /\ UNCHANGED <<kowner, kcount, owner, depth, held>>

\* The unlocked read of mutex_owner decides between nesting and blocking.
LockTest(t) ==
  /\ held[t] < MaxDepth
  /\ Goto(t, "out", IF owner = t THEN "nest" ELSE "pend")
  /\ UNCHANGED <<kowner, kcount, owner, depth, held>>

LockNest(t) ==
  /\ Goto(t, "nest", "out")
  /\ depth' = depth + 1
  /\ held' = [held EXCEPT ![t] = @ + 1]
  /\ UNCHANGED <<kowner, kcount, owner>>

\* k_mutex_lock(K_FOREVER): recursive in the kernel as well.
KLock(t) ==
  /\ kowner \in {Nobody, t}
  /\ Goto(t, "pend", "own")
  /\ kowner' = t
  /\ kcount' = kcount + 1
  /\ UNCHANGED <<owner, depth, held>>

SetOwner(t) ==
  /\ Goto(t, "own", "dep")
  /\ owner' = t
  /\ UNCHANGED <<kowner, kcount, depth, held>>

SetDepth(t) ==
  /\ Goto(t, "dep", "out")
  /\ depth' = 1
  /\ held' = [held EXCEPT ![t] = @ + 1]
  /\ UNCHANGED <<kowner, kcount, owner>>

-----------------------------------------------------------------------------
(* zephyr_cyw43_unlock, called only by a thread whose lock() has returned *)

\* MUTANT: tests the depth before the decrement (mutex_depth-- for
\* --mutex_depth), so the outermost unlock keeps the mutex.
UnlockDecPostfix(t) ==
  /\ held[t] > 0
  /\ Goto(t, "out", IF depth = 0 THEN "clear" ELSE "out")
  /\ depth' = depth - 1
  /\ held' = [held EXCEPT ![t] = @ - 1]
  /\ UNCHANGED <<kowner, kcount, owner>>

UnlockDec(t) ==
  /\ held[t] > 0
  /\ Goto(t, "out", IF depth = 1 THEN "clear" ELSE "out")
  /\ depth' = depth - 1
  /\ held' = [held EXCEPT ![t] = @ - 1]
  /\ UNCHANGED <<kowner, kcount, owner>>

\* MUTANT: the owner word survives the unlock.
ClearOwnerSkipped(t) ==
  /\ Goto(t, "clear", "kun")
  /\ UNCHANGED <<kowner, kcount, owner, depth, held>>

ClearOwner(t) ==
  /\ Goto(t, "clear", "kun")
  /\ owner' = Nobody
  /\ UNCHANGED <<kowner, kcount, depth, held>>

\* k_mutex_unlock: -EPERM when another thread owns it, free at count zero.
KUnlock(t) ==
  /\ Goto(t, "kun", "out")
  /\ IF kowner = t
       THEN /\ kcount' = kcount - 1
            /\ kowner' = IF kcount = 1 THEN Nobody ELSE t
       ELSE UNCHANGED <<kowner, kcount>>
  /\ UNCHANGED <<owner, depth, held>>

-----------------------------------------------------------------------------

LockStep(t) == LockTest(t) \/ LockNest(t) \/ KLock(t) \/ SetOwner(t) \/ SetDepth(t)
UnlockStep(t) == UnlockDec(t) \/ ClearOwner(t) \/ KUnlock(t)

Next == \E t \in Thread : LockStep(t) \/ UnlockStep(t)

\* A thread inside lock() or unlock() is scheduled, and one that holds the
\* lock does not stay at or above one nesting level forever (every driver and
\* library section is finite); nobody has to ask for the lock.
Fairness ==
  \A t \in Thread :
    /\ WF_vars(LockNest(t) \/ KLock(t) \/ SetOwner(t) \/ SetDepth(t))
    /\ \A d \in 1..MaxDepth : SF_vars(held[t] = d /\ UnlockDec(t))
    /\ WF_vars(ClearOwner(t) \/ KUnlock(t))

Spec == Init /\ [][Next]_vars
FairSpec == Spec /\ Fairness

-----------------------------------------------------------------------------

\* A thread owns the kernel mutex from the moment it gets it until it has
\* given it back.
InsideKernelLock(t) == held[t] > 0 \/ pc[t] \in {"own", "dep", "clear", "kun"}

OwnerWordNames(t) == held[t] > 0 \/ pc[t] \in {"dep", "clear"}

\* The bookkeeping beside the mutex agrees with it at every step: the kernel
\* mutex is taken once however deep the driver nests, the owner word names the
\* holder and nobody else (a stale one would let a thread walk past the
\* mutex), and the depth counts the unlocks still to come.
LockInv ==
  /\ \A t \in Thread : kowner = t <=> InsideKernelLock(t)
  /\ \A t \in Thread : owner = t <=> OwnerWordNames(t)
  /\ \A t \in Thread : pc[t] \in {"pend", "own", "dep", "clear", "kun"} => held[t] = 0
  /\ \A t \in Thread : pc[t] = "nest" => held[t] > 0
  /\ kcount = IF kowner = Nobody THEN 0 ELSE 1
  /\ \A t \in Thread : held[t] > 0 => depth = held[t]

\* No two threads are between lock() and unlock(), nor inside the code that
\* writes mutex_owner and mutex_depth under the mutex.
MutualExclusion ==
  \A t, u \in Thread : InsideKernelLock(t) /\ InsideKernelLock(u) => t = u

\* zephyr_cyw43_lock and zephyr_cyw43_unlock implement the recursive lock:
\* a thread enters when lock() returns and leaves when unlock() begins.
Abstract == INSTANCE RecursiveLock WITH level <- held
ImplementsRecursiveLock == Abstract!Spec

\* When a thread blocks in k_mutex_lock, some blocked thread gets the mutex:
\* no sequence of nested calls leaves the mutex locked behind it.
SomeWaiterGetsLock ==
  (\E t \in Thread : pc[t] = "pend") ~> (\E t \in Thread : pc[t] = "own")

\* Types and bookkeeping together: mutex, owner word and depth never disagree,
\* whatever nesting the driver and the library make.
IndInv == TypeOK /\ LockInv
=============================================================================

--------------------------- MODULE DriverLockProofs ---------------------------
(***************************************************************************)
(* The driver lock for any set of threads and any nesting depth: its       *)
(* bookkeeping invariant, mutual exclusion, and that it implements the     *)
(* recursive lock its callers rely on.                                     *)
(***************************************************************************)
EXTENDS DriverLock, TLAPS

\* The variables of zephyr_cyw43_lock and zephyr_cyw43_unlock keep their types
\* for every number of threads; in particular the unsigned mutex_depth is
\* never decremented below zero.
THEOREM Inductive == Spec => []IndInv
<1> USE NobodyAssumption
<1>1. Init => TypeOK /\ LockInv
  BY DEF Init, TypeOK, LockInv, InsideKernelLock, OwnerWordNames, Location
<1>2. TypeOK /\ LockInv /\ [Next]_vars => (TypeOK /\ LockInv)'
  <2> SUFFICES ASSUME TypeOK, LockInv, [Next]_vars
               PROVE  (TypeOK /\ LockInv)'
    OBVIOUS
  <2> USE DEF TypeOK, LockInv, InsideKernelLock, OwnerWordNames, Location, Goto
  <2>1. ASSUME NEW t \in Thread, LockTest(t)
        PROVE  (TypeOK /\ LockInv)'
    BY <2>1 DEF LockTest
  <2>2. ASSUME NEW t \in Thread, LockNest(t)
        PROVE  (TypeOK /\ LockInv)'
    BY <2>2 DEF LockNest
  <2>3. ASSUME NEW t \in Thread, KLock(t)
        PROVE  (TypeOK /\ LockInv)'
    BY <2>3 DEF KLock
  <2>4. ASSUME NEW t \in Thread, SetOwner(t)
        PROVE  (TypeOK /\ LockInv)'
    BY <2>4 DEF SetOwner
  <2>5. ASSUME NEW t \in Thread, SetDepth(t)
        PROVE  (TypeOK /\ LockInv)'
    BY <2>5 DEF SetDepth
  <2>6. ASSUME NEW t \in Thread, UnlockDec(t)
        PROVE  (TypeOK /\ LockInv)'
    BY <2>6 DEF UnlockDec
  <2>7. ASSUME NEW t \in Thread, ClearOwner(t)
        PROVE  (TypeOK /\ LockInv)'
    BY <2>7 DEF ClearOwner
  <2>8. ASSUME NEW t \in Thread, KUnlock(t)
        PROVE  (TypeOK /\ LockInv)'
    BY <2>8 DEF KUnlock
  <2>9. CASE UNCHANGED vars
    BY <2>9 DEF vars
  <2> QED
    BY <2>1, <2>2, <2>3, <2>4, <2>5, <2>6, <2>7, <2>8, <2>9
       DEF Next, LockStep, UnlockStep
<1>3. TypeOK /\ LockInv => IndInv
  BY DEF IndInv
<1> QED
  BY <1>1, <1>2, <1>3, PTL DEF Spec

\* Two threads are never both inside the section zephyr_cyw43_lock opens.
THEOREM LockExcludes == Spec => []MutualExclusion
<1>1. IndInv => MutualExclusion
  BY DEF IndInv, LockInv, MutualExclusion
<1> QED
  BY <1>1, Inductive, PTL

\* zephyr_cyw43_lock and zephyr_cyw43_unlock implement the recursive lock:
\* the return of lock() is an Enter, the start of unlock() a Leave, and every
\* other step changes nothing the callers can see.
THEOREM Implements == Spec => ImplementsRecursiveLock
<1>1. Init => Abstract!Init
  BY DEF Init, Abstract!Init
<1>2. IndInv /\ [Next]_vars => [Abstract!Next]_held
  <2> SUFFICES ASSUME TypeOK, LockInv, Next
               PROVE  [Abstract!Next]_held
    BY DEF IndInv, vars
  <2>1. PICK t \in Thread : LockStep(t) \/ UnlockStep(t)
    BY DEF Next
  <2>2. CASE LockNest(t) \/ SetDepth(t)
    <3>1. InsideKernelLock(t)
      BY <2>2 DEF LockNest, SetDepth, Goto, LockInv, InsideKernelLock
    <3>2. \A u \in Thread \ {t} : held[u] = 0
      BY <3>1 DEF LockInv, InsideKernelLock, TypeOK
    <3> QED
      BY <2>2, <3>2 DEF LockNest, SetDepth, Abstract!Next, Abstract!Enter
  <2>3. CASE UnlockDec(t)
    BY <2>3 DEF UnlockDec, Abstract!Next, Abstract!Leave
  <2>4. CASE LockTest(t) \/ KLock(t) \/ SetOwner(t) \/ ClearOwner(t) \/ KUnlock(t)
    BY <2>4 DEF LockTest, KLock, SetOwner, ClearOwner, KUnlock
  <2> QED
    BY <2>1, <2>2, <2>3, <2>4 DEF LockStep, UnlockStep
<1> QED
  BY <1>1, <1>2, Inductive, PTL DEF Spec, ImplementsRecursiveLock, Abstract!Spec
=============================================================================

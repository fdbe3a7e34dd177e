---------------------------- MODULE HostWakeProofs ----------------------------
(***************************************************************************)
(* The shared pin for any set of bus users and any semaphore limit: no     *)
(* transfer is disturbed, and no wake-up is left to the timeout.           *)
(***************************************************************************)
EXTENDS HostWake, TLAPS

\* The shared variables keep their types; event_sem stays within its limit.
THEOREM TypeCorrect == Spec => []TypeOK
<1> USE ThreadAssumption, LimitAssumption DEF Thread, TypeOK, ThreadAssumption, LimitAssumption
<1>1. Init => TypeOK
  <2> SUFFICES ASSUME Init
               PROVE  TypeOK
    OBVIOUS
  <2>1. wake \in BOOLEAN /\ ready \in BOOLEAN
    BY Zenon DEF Init
  <2>2. sem \in 0..SemLimit
    BY DEF Init
  <2>3. pc \in [Thread -> Inside \cup PollStep \cup {"out"}]
    BY DEF Init, PollStep
  <2>4. holder = Nobody /\ pin = "wake" /\ irq = "level"
    BY DEF Init
  <2> QED
    BY <2>1, <2>2, <2>3, <2>4
<1>2. TypeOK /\ [Next]_vars => TypeOK'
  <2> SUFFICES ASSUME TypeOK, [Next]_vars
               PROVE  TypeOK'
    OBVIOUS
  <2> USE DEF Goto, Inside, TransferStep, HookStep, PollStep
  <2>1. CASE Raise \/ WakeInterrupt \/ SpuriousInterrupt
    <3>1. sem' \in 0..SemLimit /\ pin' \in {"spi", "wake"} /\ irq' \in {"off", "edge", "level"}
      BY <2>1 DEF Raise, WakeInterrupt, SpuriousInterrupt, Handler
    <3>2. wake' \in BOOLEAN /\ UNCHANGED <<holder, pc, ready>>
      BY <2>1, Zenon DEF Raise, WakeInterrupt, SpuriousInterrupt, Handler
    <3> QED
      BY <3>1, <3>2
  <2>2. ASSUME NEW t \in Thread, BusStep(t)
        PROVE  TypeOK'
    BY <2>2 DEF BusStep, MaskIrq, PinSpi, Transceive, EnablePin, EnableEdge,
                EnableLevel, ReadPin
  <2>3. ASSUME NEW u \in User, UserStep(u)
        PROVE  TypeOK'
    BY <2>3 DEF UserStep, UserLock, BringUp, UserUnlock
  <2>4. CASE PollThreadStep
    BY <2>4 DEF PollThreadStep, Take, PollMask, PollPin, CheckPoll, PollLock,
                PollReturn, PollUnlock
  <2>5. CASE Timeout
    BY <2>5 DEF Timeout
  <2>6. CASE UNCHANGED vars
    BY <2>6 DEF vars
  <2> QED
    BY <2>1, <2>2, <2>3, <2>4, <2>5, <2>6 DEF Next
<1> QED
  BY <1>1, <1>2, PTL DEF Spec

\* The inductive invariant of the shared pin.
THEOREM Inductive == Spec => []HostWakeInv
<1> USE ThreadAssumption, LimitAssumption DEF Thread, ThreadAssumption, LimitAssumption
<1>1. Init => HostWakeInv
  BY DEF Init, HostWakeInv, LockUse, Masked, Rearming, ArmedAtRest, Armed,
         Inside, TransferStep, HookStep
<1>2. TypeOK /\ HostWakeInv /\ [Next]_vars => HostWakeInv'
  <2> SUFFICES ASSUME TypeOK, HostWakeInv, [Next]_vars
               PROVE  HostWakeInv'
    OBVIOUS
  <2> USE DEF TypeOK, HostWakeInv, LockUse, Masked, Rearming, ArmedAtRest, Armed,
              Goto, Inside, TransferStep, HookStep, PollStep
  <2>1. CASE Raise
    BY <2>1 DEF Raise
  <2>2. CASE WakeInterrupt \/ SpuriousInterrupt
    <3>1. sem' > 0 /\ irq' = "off" /\ pin' = "spi"
      BY <2>2 DEF WakeInterrupt, SpuriousInterrupt, Handler
    <3>2. UNCHANGED <<holder, pc, ready>>
      BY <2>2 DEF WakeInterrupt, SpuriousInterrupt, Handler
    <3> QED
      BY <3>1, <3>2
  <2>3. ASSUME NEW t \in Thread, BusStep(t)
        PROVE  HostWakeInv'
    <3>1. CASE MaskIrq(t)
      BY <3>1 DEF MaskIrq
    <3>2. CASE PinSpi(t)
      BY <3>2 DEF PinSpi
    <3>3. CASE Transceive(t)
      BY <3>3 DEF Transceive
    <3>4. CASE EnablePin(t)
      BY <3>4 DEF EnablePin
    <3>5. CASE EnableEdge(t)
      BY <3>5 DEF EnableEdge
    <3>6. CASE EnableLevel(t)
      BY <3>6 DEF EnableLevel
    <3>7. CASE ReadPin(t)
      BY <3>7 DEF ReadPin
    <3> QED
      BY <2>3, <3>1, <3>2, <3>3, <3>4, <3>5, <3>6, <3>7 DEF BusStep
  <2>4. ASSUME NEW u \in User, UserStep(u)
        PROVE  HostWakeInv'
    <3>1. CASE UserLock(u)
      BY <3>1 DEF UserLock
    <3>2. CASE BringUp(u)
      BY <3>2 DEF BringUp
    <3>3. CASE UserUnlock(u)
      BY <3>3 DEF UserUnlock
    <3> QED
      BY <2>4, <3>1, <3>2, <3>3 DEF UserStep
  <2>5. CASE Take \/ Timeout
    BY <2>5 DEF Take, Timeout
  <2>6. CASE PollMask
    BY <2>6 DEF PollMask
  <2>7. CASE PollPin
    BY <2>7 DEF PollPin
  <2>8. CASE CheckPoll
    BY <2>8 DEF CheckPoll
  <2>9. CASE PollLock
    BY <2>9 DEF PollLock
  <2>10. CASE PollReturn
    BY <2>10 DEF PollReturn
  <2>11. CASE PollUnlock
    BY <2>11 DEF PollUnlock
  <2>12. CASE UNCHANGED vars
    BY <2>12 DEF vars
  <2> QED
    BY <2>1, <2>2, <2>3, <2>4, <2>5, <2>6, <2>7, <2>8, <2>9, <2>10, <2>11, <2>12
       DEF Next, PollThreadStep
<1> QED
  BY <1>1, <1>2, TypeCorrect, PTL DEF Spec

\* Both, for every value of the constants.
THEOREM TypesAndInvariant == Spec => []IndInv
<1>1. TypeOK /\ HostWakeInv => IndInv
  BY DEF IndInv
<1> QED
  BY <1>1, TypeCorrect, Inductive, PTL

\* No transfer is disturbed: while cyw43_spi_transfer clocks data the interrupt
\* is off, the pin is the bus's, and no other thread is inside a transfer.
THEOREM TransfersExclusive == Spec => []TransferUndisturbed
<1>1. HostWakeInv => TransferUndisturbed
  BY ThreadAssumption
     DEF HostWakeInv, LockUse, Masked, TransferUndisturbed, Inside, TransferStep, Thread
<1> QED
  BY <1>1, Inductive, PTL

\* A poll thread that sleeps with no wake-up pending leaves the interrupt
\* armed, or a transfer in progress that arms it.
THEOREM NoWakeUpLeftToTimeout == Spec => []ArmedAtRest
<1>1. HostWakeInv => ArmedAtRest
  BY DEF HostWakeInv
<1> QED
  BY <1>1, Inductive, PTL
=============================================================================

------------------------------- MODULE HostWake -------------------------------
(***************************************************************************)
(* The one pin that is both the SPI data line and the radio's host-wake    *)
(* interrupt.  Bus transfers, run by any thread that holds the driver      *)
(* lock, switch the pin to SPI and back; the interrupt handler and the     *)
(* poll thread switch it without the lock (the handler cannot take it, the *)
(* poll thread does so before it locks).  Each register write is a step,   *)
(* the handler is one step: the build is single core.                      *)
(***************************************************************************)
EXTENDS Naturals

CONSTANTS User,       \* threads that call the library: callers, work queue, init
          Poll,       \* zephyr_cyw43_event_poll_thread
          Nobody,     \* the lock is free
          SemLimit    \* limit of event_sem (10 in zephyr_cyw43_init)

ASSUME ThreadAssumption == Poll \notin User /\ Nobody \notin User \cup {Poll}
ASSUME LimitAssumption == SemLimit \in Nat \ {0}

Thread == User \cup {Poll}

VARIABLES holder,     \* who holds the driver lock (see DriverLock)
          pc,         \* next step of each thread
          pin,        \* pinctrl state of the shared pin
          irq,        \* what the pin's interrupt is configured for
          sem,        \* count of event_sem
          wake,       \* the radio asserts host-wake: it has something to read
          ready       \* cyw43_poll # NULL: the library has brought the chip up

vars == <<holder, pc, pin, irq, sem, wake, ready>>

\* Steps of cyw43_spi_transfer, of the post-poll hook, and of the poll loop.
TransferStep == {"pinspi", "busy", "pinwake", "edge", "level"}
HookStep == {"hookpin", "hookedge", "hooklevel"}
PollStep == {"wait", "pollmask", "pollpin", "check", "lock"}
Inside == TransferStep \cup HookStep \cup {"locked", "brought", "unlock"}

TypeOK ==
  /\ holder \in Thread \cup {Nobody}
  /\ pc \in [Thread -> Inside \cup PollStep \cup {"out"}]
  /\ pin \in {"spi", "wake"}
  /\ irq \in {"off", "edge", "level"}
  /\ sem \in 0..SemLimit
  /\ wake \in BOOLEAN
  /\ ready \in BOOLEAN

\* The state in which zephyr_cyw43_init creates the poll thread: the callback
\* is registered and enabled, the chip is not up yet.
Init ==
  /\ holder = Nobody
  /\ pc = [t \in Thread |-> IF t = Poll THEN "wait" ELSE "out"]
  /\ pin = "wake"
  /\ irq = "level"
  /\ sem = 0
  /\ wake = FALSE
  /\ ready = FALSE

Goto(t, from, to) ==
  /\ pc[t] = from
  /\ pc' = [pc EXCEPT ![t] = to]

-----------------------------------------------------------------------------
(* The radio and the interrupt handler *)

\* The radio has a packet or an event for the host.
Raise ==
  /\ ~wake
  /\ wake' = TRUE
  /\ UNCHANGED <<holder, pc, pin, irq, sem, ready>>

\* zephyr_cyw43_isr: give the semaphore, then cyw43_set_irq_enabled(false).
Handler ==
  /\ sem' = IF sem < SemLimit THEN sem + 1 ELSE sem
  /\ irq' = "off"
  /\ pin' = "spi"
  /\ UNCHANGED <<holder, pc, wake, ready>>

\* The level the radio drives, seen through the pin as GPIO input.
WakeInterrupt == irq = "level" /\ pin = "wake" /\ wake /\ Handler

\* An edge latched or seen while the pin is switched over, or bus data on a
\* pin that is no GPIO input: the interrupt may fire for no reason.
SpuriousInterrupt ==
  /\ \/ irq = "edge"
     \/ irq = "level" /\ pin = "spi"
  /\ Handler

-----------------------------------------------------------------------------
(* cyw43_spi_transfer, by the thread that holds the lock *)

\* MUTANT: the transfer starts with the interrupt still armed.
MaskIrqSkipped(t) ==
  /\ \/ Goto(t, "locked", "pinspi")
     \/ Goto(t, "brought", "pinspi")
  /\ UNCHANGED <<holder, pin, irq, sem, wake, ready>>

MaskIrq(t) ==
  /\ \/ Goto(t, "locked", "pinspi")
     \/ Goto(t, "brought", "pinspi")
  /\ irq' = "off"
  /\ UNCHANGED <<holder, pin, sem, wake, ready>>

PinSpi(t) ==
  /\ Goto(t, "pinspi", "busy")
  /\ pin' = "spi"
  /\ UNCHANGED <<holder, irq, sem, wake, ready>>

\* spi_transceive_dt: reading the radio's last packet drops host-wake.
Transceive(t) ==
  /\ Goto(t, "busy", "pinwake")
  /\ wake' \in {wake, FALSE}
  /\ UNCHANGED <<holder, pin, irq, sem, ready>>

\* cyw43_spi_irq_enable(true), at the end of a transfer and in the hook.
EnablePin(t) ==
  /\ \/ Goto(t, "pinwake", "edge")
     \/ Goto(t, "hookpin", "hookedge")
  /\ pin' = "wake"
  /\ UNCHANGED <<holder, irq, sem, wake, ready>>

EnableEdge(t) ==
  /\ \/ Goto(t, "edge", "level")
     \/ Goto(t, "hookedge", "hooklevel")
  /\ irq' = "edge"
  /\ UNCHANGED <<holder, pin, sem, wake, ready>>

\* MUTANT: the second configuration is dropped, the edge trigger stays.
EnableLevelDropped(t) ==
  /\ \/ Goto(t, "level", "locked")
     \/ Goto(t, "hooklevel", "unlock")
  /\ UNCHANGED <<holder, pin, irq, sem, wake, ready>>

EnableLevel(t) ==
  /\ \/ Goto(t, "level", "locked")
     \/ Goto(t, "hooklevel", "unlock")
  /\ irq' = "level"
  /\ UNCHANGED <<holder, pin, sem, wake, ready>>

\* cyw43_hal_pin_read reconfigures the pin as a GPIO input to sample it.
ReadPin(t) ==
  /\ pc[t] = "locked"
  /\ pin' = "wake"
  /\ UNCHANGED <<holder, pc, irq, sem, wake, ready>>

-----------------------------------------------------------------------------
(* Threads that call the library *)

UserLock(u) ==
  /\ holder = Nobody
  /\ Goto(u, "out", "locked")
  /\ holder' = u
  /\ UNCHANGED <<pin, irq, sem, wake, ready>>

\* Bring-up installs cyw43_poll under the lock and goes on to use the bus.
BringUp(u) ==
  /\ ~ready
  /\ Goto(u, "locked", "brought")
  /\ ready' = TRUE
  /\ UNCHANGED <<holder, pin, irq, sem, wake>>

UserUnlock(u) ==
  /\ Goto(u, "locked", "out")
  /\ holder' = Nobody
  /\ UNCHANGED <<pin, irq, sem, wake, ready>>

-----------------------------------------------------------------------------
(* zephyr_cyw43_event_poll_thread *)

Take ==
  /\ sem > 0
  /\ sem' = sem - 1
  /\ Goto(Poll, "wait", "pollmask")
  /\ UNCHANGED <<holder, pin, irq, wake, ready>>

\* k_sem_take returns -EAGAIN after five seconds; the loop goes on as if woken.
Timeout ==
  /\ sem = 0
  /\ Goto(Poll, "wait", "pollmask")
  /\ UNCHANGED <<holder, pin, irq, sem, wake, ready>>

\* cyw43_set_irq_enabled(false), without the lock.
PollMask ==
  /\ Goto(Poll, "pollmask", "pollpin")
  /\ irq' = "off"
  /\ UNCHANGED <<holder, pin, sem, wake, ready>>

PollPin ==
  /\ Goto(Poll, "pollpin", "check")
  /\ pin' = "spi"
  /\ UNCHANGED <<holder, irq, sem, wake, ready>>

\* if (cyw43_poll): before bring-up the thread leaves the interrupt off.
CheckPoll ==
  /\ Goto(Poll, "check", IF ready THEN "lock" ELSE "wait")
  /\ UNCHANGED <<holder, pin, irq, sem, wake, ready>>

PollLock ==
  /\ holder = Nobody
  /\ Goto(Poll, "lock", "locked")
  /\ holder' = Poll
  /\ UNCHANGED <<pin, irq, sem, wake, ready>>

\* MUTANT: cyw43_poll returns without its hook.
PollReturnUnhooked ==
  /\ Goto(Poll, "locked", "unlock")
  /\ UNCHANGED <<holder, pin, irq, sem, wake, ready>>

\* cyw43_poll ends with CYW43_POST_POLL_HOOK: cyw43_set_irq_enabled(true).
PollReturn ==
  /\ Goto(Poll, "locked", "hookpin")
  /\ UNCHANGED <<holder, pin, irq, sem, wake, ready>>

PollUnlock ==
  /\ Goto(Poll, "unlock", "wait")
  /\ holder' = Nobody
  /\ UNCHANGED <<pin, irq, sem, wake, ready>>

-----------------------------------------------------------------------------

BusStep(t) ==
  \/ MaskIrq(t) \/ PinSpi(t) \/ Transceive(t)
  \/ EnablePin(t) \/ EnableEdge(t) \/ EnableLevel(t) \/ ReadPin(t)

UserStep(u) == UserLock(u) \/ BringUp(u) \/ UserUnlock(u)

PollThreadStep ==
  \/ Take \/ PollMask \/ PollPin \/ CheckPoll
  \/ PollLock \/ PollReturn \/ PollUnlock

Next ==
  \/ Raise \/ WakeInterrupt \/ SpuriousInterrupt
  \/ \E t \in Thread : BusStep(t)
  \/ \E u \in User : UserStep(u)
  \/ PollThreadStep \/ Timeout

\* A thread inside a transfer runs on; a section under the lock ends, and the
\* poll thread, of highest priority, gets the lock when it is free again and
\* again; a level the radio holds fires once the interrupt is armed.  The
\* timeout, the spurious interrupts, the radio and the users owe nothing.
Fairness ==
  /\ \A t \in Thread : WF_vars(BusStep(t) /\ pc[t] # "locked")
  /\ \A u \in User : SF_vars(UserUnlock(u))
  /\ WF_vars(Take \/ PollMask \/ PollPin \/ CheckPoll \/ PollUnlock)
  /\ SF_vars(PollLock)
  /\ SF_vars(PollReturn)
  /\ SF_vars(WakeInterrupt)

Spec == Init /\ [][Next]_vars
FairSpec == Spec /\ Fairness

-----------------------------------------------------------------------------

\* While bytes move on the wire the interrupt is off and the pin belongs to
\* the bus: neither the handler, nor the unlocked writes of the poll thread,
\* nor another thread's transfer can turn it back under the transfer.
TransferUndisturbed ==
  \A t \in Thread : pc[t] = "busy" =>
    /\ irq = "off"
    /\ pin = "spi"
    /\ \A u \in Thread : pc[u] \in TransferStep => u = t

\* When the poll thread sleeps with no wake-up pending and the chip is up, the
\* interrupt is armed unless a transfer is on its way to arm it: a packet that
\* arrives now is not left to the five second timeout.
Armed == irq = "level" /\ pin = "wake"

ArmedAtRest ==
  ready /\ pc[Poll] = "wait" /\ sem = 0
    => \/ Armed
       \/ \E u \in User : pc[u] \in TransferStep \cup {"brought"}

\* Why both hold, as an inductive invariant.  The lock makes the thread inside
\* a transfer or inside the hook unique (LockUse); the first write of a
\* transfer lasts until its last three (Masked); and with no wake-up pending
\* each of those three finds what the one before it wrote, because only the
\* handler, which gives the semaphore, could have undone it (Rearming).
LockUse ==
  /\ \A t \in Thread : holder = t <=> pc[t] \in Inside
  /\ \A u \in User : pc[u] \in TransferStep \cup {"out", "locked", "brought"}
  /\ pc[Poll] \notin {"out", "brought"}
  /\ pc[Poll] \in Inside \cup {"lock"} => ready

Masked ==
  \A t \in Thread :
    /\ pc[t] \in {"pinspi", "busy"} => irq = "off"
    /\ pc[t] = "busy" => pin = "spi"

Rearming ==
  sem = 0 =>
    /\ ready /\ pc[Poll] = "wait" =>
         \A u \in User : pc[u] \in {"edge", "level"} => pin = "wake"
    /\ pc[Poll] \in {"hookedge", "hooklevel"} => pin = "wake"
    /\ pc[Poll] = "unlock" => Armed

HostWakeInv == LockUse /\ Masked /\ Rearming /\ ArmedAtRest

\* Once the chip is up, a radio that asserts host-wake is polled, or a thread
\* that used the bus has read what it had: without help from the timeout.
WakeServed == (wake /\ ready) ~> (~wake \/ pc[Poll] = "locked")

\* Types and switching together: wherever the threads and the handler stand,
\* someone who will arm the pin again is on the way.
IndInv == TypeOK /\ HostWakeInv
=============================================================================

------------------------------- MODULE BtHci -------------------------------
(***************************************************************************)
(* The Bluetooth HCI driver.  The library calls cyw43_bluetooth_hci_process *)
(* in the poll thread, with the driver lock held: it reads one packet from *)
(* the controller, takes a buffer for it - advertising reports from a pool *)
(* that may be empty, anything else with K_FOREVER - and passes the buffer *)
(* to the host through recv.  The host gives buffers back when its own     *)
(* thread gets to them; that thread also sends, which takes the lock.      *)
(***************************************************************************)
EXTENDS Naturals

CONSTANTS Host,       \* the host's thread
          Poll,       \* zephyr_cyw43_event_poll_thread
          Nobody,     \* the lock is free
          User,       \* every other thread that takes the driver lock
          BtPool      \* buffers in each pool: [{"rx", "report"} -> Nat]

Pools == {"rx", "report"}
BtThread == User \cup {Host, Poll}

\* What the modules that instantiate this one have to see to.
BtConstants ==
  /\ Host \notin User \cup {Poll, Nobody}
  /\ Poll \notin User
  /\ Nobody \notin BtThread
  /\ BtPool \in [Pools -> Nat \ {0}]

VARIABLES holder,     \* who holds the driver lock
          recv,       \* hci_data->recv # NULL
          rxbuf,      \* what is in cyw43_rxbuf
          bpc,        \* where the poll thread is in hci_process
          stale,      \* ghost: it processes what it did not read
          spare,      \* buffers in each pool
          lent,       \* buffers the host has
          outgoing,   \* what the host's thread is sending
          phase       \* the host's use of the controller

btVars == <<recv, rxbuf, bpc, stale, spare, lent, outgoing, phase>>

\* A packet stands for events and ISO data, and for ACL data that fit.
Packet == {"report", "packet", "long", "unknown"}

PoolOf(k) == IF k = "report" THEN "report" ELSE "rx"

BtTypeOK ==
  /\ holder \in BtThread \cup {Nobody}
  /\ recv \in BOOLEAN /\ stale \in BOOLEAN
  /\ rxbuf \in Packet
  /\ bpc \in {"idle", "alloc", "deliver", "fault"}
  /\ spare \in [Pools -> Nat]
  /\ lent \in [Pools -> Nat]
  /\ outgoing \in {"none", "data", "reset"}
  /\ phase \in {"closed", "open", "reset", "quiet", "done"}

\* cyw43_rxbuf is not initialised.
BtInit ==
  /\ recv = FALSE
  /\ rxbuf \in Packet
  /\ bpc = "idle"
  /\ stale = FALSE
  /\ spare = BtPool
  /\ lent = [p \in Pools |-> 0]
  /\ outgoing = "none"
  /\ phase = "closed"

-----------------------------------------------------------------------------
(* cyw43_bluetooth_hci_process *)

\* The type octet of what is in cyw43_rxbuf decides; unknown ones are dropped.
Dispatch(k) == bpc' = IF k = "unknown" THEN "idle" ELSE "alloc"

\* The controller sends while it is in use; its answer to the reset with which
\* the host shuts down is the last it sends.
Read ==
  /\ holder = Poll
  /\ bpc = "idle"
  /\ phase \in {"open", "reset"}
  /\ \E k \in Packet :
       /\ rxbuf' = k
       /\ phase' \in {phase} \cup
                   IF k = "packet" /\ phase = "reset" THEN {"quiet"} ELSE {}
       /\ Dispatch(k)
  /\ UNCHANGED <<holder, recv, stale, spare, lent, outgoing>>

\* cyw43_bluetooth_hci_read fails or finds nothing: neither its result nor the
\* length is looked at, and what is in cyw43_rxbuf is processed (again).  The
\* library does not call while the controller is out of use.
ReadNothing ==
  /\ holder = Poll
  /\ bpc = "idle"
  /\ phase # "closed"
  /\ rxbuf # "unknown"
  /\ stale' = TRUE
  /\ Dispatch(rxbuf)
  /\ UNCHANGED <<holder, recv, rxbuf, spare, lent, outgoing, phase>>

TakeBuffer ==
  /\ bpc = "alloc"
  /\ spare[PoolOf(rxbuf)] > 0
  /\ spare' = [spare EXCEPT ![PoolOf(rxbuf)] = @ - 1]
  /\ bpc' = "deliver"
  /\ UNCHANGED <<holder, recv, rxbuf, stale, lent, outgoing, phase>>

\* An advertising report does not wait: net_buf_add_mem gets NULL.
AddToNull ==
  /\ bpc = "alloc"
  /\ rxbuf = "report"
  /\ spare["report"] = 0
  /\ bpc' = "fault"
  /\ UNCHANGED <<holder, recv, rxbuf, stale, spare, lent, outgoing, phase>>

\* MUTANT: the early return keeps the buffer.
DropLongLeaking ==
  /\ bpc = "deliver"
  /\ rxbuf = "long"
  /\ bpc' = "idle"
  /\ stale' = FALSE
  /\ UNCHANGED <<holder, recv, rxbuf, spare, lent, outgoing, phase>>

\* "ACL too long": the buffer goes back.
DropLong ==
  /\ bpc = "deliver"
  /\ rxbuf = "long"
  /\ spare' = [spare EXCEPT !["rx"] = @ + 1]
  /\ bpc' = "idle"
  /\ stale' = FALSE
  /\ UNCHANGED <<holder, recv, rxbuf, lent, outgoing, phase>>

Deliver ==
  /\ bpc = "deliver"
  /\ rxbuf # "long"
  /\ recv
  /\ lent' = [lent EXCEPT ![PoolOf(rxbuf)] = @ + 1]
  /\ phase' = IF phase = "quiet" THEN "done" ELSE phase
  /\ bpc' = "idle"
  /\ stale' = FALSE
  /\ UNCHANGED <<holder, recv, rxbuf, spare, outgoing>>

\* recv is NULL.
CallNull ==
  /\ bpc = "deliver"
  /\ rxbuf # "long"
  /\ ~recv
  /\ bpc' = "fault"
  /\ UNCHANGED <<holder, recv, rxbuf, stale, spare, lent, outgoing, phase>>

-----------------------------------------------------------------------------
(* The host: open, close, send, and its use of the buffers *)

\* MUTANT: the callback is left for later.
OpenWithoutRecv ==
  /\ phase = "closed"
  /\ phase' = "open"
  /\ UNCHANGED <<holder, recv, rxbuf, bpc, stale, spare, lent, outgoing>>

Open ==
  /\ phase = "closed"
  /\ recv' = TRUE
  /\ phase' = "open"
  /\ UNCHANGED <<holder, rxbuf, bpc, stale, spare, lent, outgoing>>

\* The host closes the driver when it has seen the answer to its reset.
Close ==
  /\ phase = "done"
  /\ recv' = FALSE
  /\ phase' = "closed"
  /\ UNCHANGED <<holder, rxbuf, bpc, stale, spare, lent, outgoing>>

\* zephyr_cyw43_bt_hci_send copies the packet to cyw43_txbuf.
Send(what) ==
  /\ phase = "open"
  /\ outgoing = "none"
  /\ outgoing' = what
  /\ UNCHANGED <<holder, recv, rxbuf, bpc, stale, spare, lent, phase>>

\* cyw43_bluetooth_hci_write takes the driver lock ...
SendLock ==
  /\ outgoing # "none"
  /\ holder = Nobody
  /\ holder' = Host
  /\ UNCHANGED btVars

\* ... and gives it up, the packet written or not.
Sent ==
  /\ holder = Host
  /\ holder' = Nobody
  /\ outgoing' = "none"
  /\ phase' \in {phase, IF outgoing = "reset" THEN "reset" ELSE phase}
  /\ UNCHANGED <<recv, rxbuf, bpc, stale, spare, lent>>

\* The host's thread is done with a buffer.
GiveBack(p) ==
  /\ lent[p] > 0
  /\ outgoing = "none"
  /\ lent' = [lent EXCEPT ![p] = @ - 1]
  /\ spare' = [spare EXCEPT ![p] = @ + 1]
  /\ UNCHANGED <<holder, recv, rxbuf, bpc, stale, outgoing, phase>>

-----------------------------------------------------------------------------

Process == TakeBuffer \/ AddToNull \/ DropLong \/ Deliver \/ CallNull

HostStep ==
  \/ Open \/ Close
  \/ \E what \in {"data", "reset"} : Send(what)
  \/ SendLock \/ Sent
  \/ \E p \in Pools : GiveBack(p)

\* The lock among the others; the poll thread is out of hci_process when it
\* gives the lock up.
OthersLock ==
  /\ bpc = "idle" \/ holder # Poll
  /\ holder # Host
  /\ holder' \in User \cup {Poll, Nobody}
  /\ UNCHANGED btVars

BtStep == Read \/ ReadNothing \/ Process \/ HostStep

BtNext == BtStep \/ OthersLock

BtSpec == BtInit /\ holder = Nobody /\ [][BtNext]_<<holder, btVars>>

-----------------------------------------------------------------------------

\* Every buffer is in its pool, in the poll thread's hands or with the host:
\* a packet that is dropped takes none along.
Filling(p) == IF bpc = "deliver" /\ PoolOf(rxbuf) = p THEN 1 ELSE 0
BtBuffersConserved ==
  \A p \in Pools : bpc # "fault" => spare[p] + Filling(p) + lent[p] = BtPool[p]

\* Nothing that was read is passed to a callback the host has taken away: the
\* host waits for its last packet, and recv goes only then.  (What was not
\* read may meet any callback.)
RecvInstalled == bpc = "deliver" /\ ~recv => stale

\* The poll thread waits for a buffer with the lock in hand, and the host's
\* thread, which has all of them, waits for the lock.
HostBlocksRadio ==
  bpc = "alloc" /\ rxbuf # "report" /\ spare["rx"] = 0 /\ outgoing # "none"

\* The inductive invariant behind the two: the poll thread is in hci_process only
\* with the lock, and the callback is there while the host uses the controller.
BtInv ==
  /\ bpc # "idle" => holder = Poll
  /\ holder = Host => outgoing # "none"
  /\ outgoing # "none" => phase = "open"
  /\ recv <=> phase # "closed"
  /\ phase = "quiet" => bpc # "idle" /\ rxbuf = "packet" /\ ~stale
  /\ bpc # "idle" /\ ~stale => phase \in {"open", "reset", "quiet"}
  /\ bpc = "idle" => ~stale
  /\ BtBuffersConserved
=============================================================================

---------------------------- MODULE RadioTraffic ----------------------------
(***************************************************************************)
(* Ethernet frames and Bluetooth packets on one radio: EthernetPath and    *)
(* BtHci around the one driver lock.  The poll thread takes in what the    *)
(* radio has, a frame or a packet at a time, and it may wait for a buffer  *)
(* of either side with the lock that the other side needs.                 *)
(***************************************************************************)
EXTENDS EthernetPath

CONSTANT BtPool       \* buffers in each of the Bluetooth host's pools

VARIABLES recv, rxbuf, bpc, stale, spare, lent, outgoing, phase

Bt == INSTANCE BtHci WITH User <- Talker

ASSUME BtAssumption == Bt!BtConstants

ethernetVars == <<iface, sendVars, recvVars, stackVars>>
btVars == <<recv, rxbuf, bpc, stale, spare, lent, outgoing, phase>>
allVars == <<vars, btVars>>

TrafficInit == Init /\ Bt!BtInit

\* A step of the Ethernet side: while the poll thread is inside hci_process
\* it neither takes in a frame nor gives the lock up.
Ethernet(A) ==
  /\ A
  /\ bpc # "idle" => UNCHANGED <<holder, rpc>>
  /\ UNCHANGED btVars

\* A step of the Bluetooth side: while it is inside cyw43_cb_process_ethernet
\* it takes in no packet.
Bluetooth(A) ==
  /\ A
  /\ rpc # "none" => UNCHANGED bpc
  /\ UNCHANGED ethernetVars

TrafficNext == Ethernet(EthernetStep) \/ Bluetooth(Bt!BtStep)

TrafficSpec == TrafficInit /\ [][TrafficNext]_allVars

\* A thread inside a function runs on; whoever has the driver lock handles
\* finitely many frames and packets under it; the mutex goes to a waiter when
\* it is given up; the hundred milliseconds pass.  The network stack owes no
\* buffer back; the Bluetooth host's thread gets to every buffer it was given.
TrafficFairness ==
  /\ WF_allVars(Ethernet(Receive))
  /\ SF_allVars(Ethernet(PollUnlock))
  /\ \A t \in Talker :
       /\ WF_allVars(Ethernet(ReadPacket(t) \/ ReadFails(t) \/ TxUnlock(t)))
       /\ SF_allVars(Ethernet(SendLock(t)))
       /\ SF_allVars(Ethernet(Transmit(t)))
  /\ WF_allVars(Bluetooth(Bt!Process))
  /\ SF_allVars(Bluetooth(Bt!SendLock))
  /\ WF_allVars(Bluetooth(Bt!Sent))
  /\ \A p \in Bt!Pools : SF_allVars(Bluetooth(Bt!GiveBack(p)))

FairTrafficSpec == TrafficSpec /\ TrafficFairness

-----------------------------------------------------------------------------

\* Types, lock discipline and buffer accounts of both sides, and that the lock's
\* holder is on one side at a time.
TrafficInv ==
  /\ IndInv
  /\ Bt!BtTypeOK /\ Bt!BtInv
  /\ bpc # "idle" => rpc = "none"

\* Nothing that was read from the controller is passed to a callback the host
\* has taken away.
RecvInstalled == Bt!RecvInstalled

\* The two ways in which the poll thread never gives the lock up: it used a NULL
\* buffer or a NULL callback, or it waits for a Bluetooth buffer while the
\* host's thread, which has them all, waits for the lock.
Stuck == bpc = "fault" \/ Bt!HostBlocksRadio

\* The one who holds the lock while it waits for a network buffer comes back,
\* even if the stack has all buffers and itself waits for that lock.
ReceiveReturns == (rpc = "alloc") ~> (rpc = "none")

\* hci_process comes back, however long its wait for a buffer is.
ProcessReturns == (bpc = "alloc") ~> (bpc = "idle" \/ Stuck)

\* zephyr_cyw43_send comes back, whoever holds the lock and the buffers of
\* either side, and so does zephyr_cyw43_bt_hci_send: nothing but the two
\* cases of Stuck stops a sender.
SendReturns ==
  /\ \A t \in Talker : (tpc[t] = "read") ~> (tpc[t] = "out" \/ Stuck)
  /\ (outgoing # "none") ~> (outgoing = "none" \/ Stuck)
=============================================================================

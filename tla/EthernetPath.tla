---------------------------- MODULE EthernetPath ----------------------------
(***************************************************************************)
(* Ethernet frames through the driver.  zephyr_cyw43_send copies a frame   *)
(* into the one frame_buf and hands it to the library, which takes the     *)
(* driver lock.  cyw43_cb_process_ethernet runs in whatever thread has the *)
(* lock when the library finds a frame (the poll thread, or a sender that  *)
(* waits for the radio): it takes a receive buffer, waiting for one with   *)
(* the lock held, and passes it to the network stack, whose receive thread *)
(* gives it back - and may send a reply first.                             *)
(***************************************************************************)
EXTENDS Naturals

CONSTANTS Sender,     \* application threads that send
          Stack,      \* the receive thread of the network stack
          Poll,       \* zephyr_cyw43_event_poll_thread
          Host,       \* the Bluetooth host's thread (see BtHci)
          Nobody,     \* a lock is free, the buffer is unused
          Pool        \* receive buffers of the network stack

Talker == Sender \cup {Stack}

ASSUME ThreadAssumption ==
  /\ Stack \notin Sender
  /\ Poll \notin Talker
  /\ Host \notin Talker \cup {Poll}
  /\ Nobody \notin Talker \cup {Host, Poll}
ASSUME PoolAssumption == Pool \in Nat \ {0}

VARIABLES iface,      \* zephyr_cyw43_dev->iface # NULL
          holder,     \* who holds the driver lock (see DriverLock)
          txlock,     \* who holds the interface's transmit lock
          frame,      \* whose frame is in frame_buf
          tpc,        \* where each talker is in zephyr_cyw43_send
          rpc,        \* where the lock's holder is in cyw43_cb_process_ethernet
          free,       \* receive buffers in the pool
          queue,      \* receive buffers passed to the stack
          held        \* the stack's thread has one

sendVars == <<txlock, frame, tpc>>
recvVars == <<rpc, free>>
stackVars == <<queue, held>>
vars == <<iface, holder, sendVars, recvVars, stackVars>>

TypeOK ==
  /\ iface \in BOOLEAN /\ held \in BOOLEAN
  /\ holder \in Talker \cup {Host, Poll, Nobody}
  /\ txlock \in Talker \cup {Nobody}
  /\ frame \in Talker \cup {Nobody}
  /\ tpc \in [Talker -> {"out", "read", "lock", "send", "done"}]
  /\ rpc \in {"none", "alloc", "write", "failed"}
  /\ free \in 0..Pool
  /\ queue \in 0..Pool

\* After zephyr_cyw43_init: the poll thread may run before the interface is
\* attached.
Init ==
  /\ iface = FALSE
  /\ held = FALSE
  /\ holder = Nobody
  /\ txlock = Nobody
  /\ frame = Nobody
  /\ tpc = [t \in Talker |-> "out"]
  /\ rpc = "none"
  /\ free = Pool
  /\ queue = 0

-----------------------------------------------------------------------------
(* The rest of the driver *)

\* zephyr_cyw43_iface_init, a section under the lock.
IfaceInit ==
  /\ ~iface
  /\ holder = Nobody
  /\ iface' = TRUE
  /\ UNCHANGED <<holder, sendVars, recvVars, stackVars>>

PollLock ==
  /\ holder = Nobody
  /\ holder' = Poll
  /\ UNCHANGED <<iface, sendVars, recvVars, stackVars>>

PollUnlock ==
  /\ holder = Poll
  /\ rpc = "none"
  /\ holder' = Nobody
  /\ UNCHANGED <<iface, sendVars, recvVars, stackVars>>

\* A Bluetooth packet is written to the controller under the lock.
HostLock ==
  /\ holder = Nobody
  /\ holder' = Host
  /\ UNCHANGED <<iface, sendVars, recvVars, stackVars>>

HostUnlock ==
  /\ holder = Host
  /\ holder' = Nobody
  /\ UNCHANGED <<iface, sendVars, recvVars, stackVars>>

-----------------------------------------------------------------------------
(* zephyr_cyw43_send *)

Goto(t, from, to) ==
  /\ tpc[t] = from
  /\ tpc' = [tpc EXCEPT ![t] = to]

\* The network stack takes the transmit lock of the interface around the call;
\* its receive thread sends while it works on a packet.
TxLock(t) ==
  /\ iface
  /\ t = Stack => held
  /\ txlock = Nobody
  /\ Goto(t, "out", "read")
  /\ txlock' = t
  /\ UNCHANGED <<iface, holder, frame, recvVars, stackVars>>

\* net_pkt_read into frame_buf, and the choice of the interface.
ReadPacket(t) ==
  /\ Goto(t, "read", "lock")
  /\ frame' = t
  /\ UNCHANGED <<iface, holder, txlock, recvVars, stackVars>>

\* The read stops short: -EIO, with part of the frame in frame_buf.
ReadFails(t) ==
  /\ Goto(t, "read", "done")
  /\ frame' = t
  /\ UNCHANGED <<iface, holder, txlock, recvVars, stackVars>>

\* cyw43_send_ethernet takes the driver lock.
SendLock(t) ==
  /\ holder = Nobody
  /\ Goto(t, "lock", "send")
  /\ holder' = t
  /\ UNCHANGED <<iface, txlock, frame, recvVars, stackVars>>

\* The library has copied frame_buf to the bus, or given up.
Transmit(t) ==
  /\ rpc = "none"
  /\ Goto(t, "send", "done")
  /\ holder' = Nobody
  /\ UNCHANGED <<iface, txlock, frame, recvVars, stackVars>>

\* The call returns; what it leaves in frame_buf is not read again.
TxUnlock(t) ==
  /\ Goto(t, "done", "out")
  /\ txlock' = Nobody
  /\ frame' = Nobody
  /\ UNCHANGED <<iface, holder, recvVars, stackVars>>

-----------------------------------------------------------------------------
(* cyw43_cb_process_ethernet, in the thread that holds the driver lock *)

\* The library finds a frame; without an interface it is dropped.
Arrive ==
  /\ holder \in Talker \cup {Poll}
  /\ rpc = "none"
  /\ rpc' = IF iface THEN "alloc" ELSE "none"
  /\ UNCHANGED <<iface, holder, sendVars, free, stackVars>>

Alloc ==
  /\ rpc = "alloc"
  /\ free > 0
  /\ free' = free - 1
  /\ rpc' = "write"
  /\ UNCHANGED <<iface, holder, sendVars, stackVars>>

\* MUTANT: K_FOREVER instead of K_MSEC(100).
AllocForever ==
  /\ rpc = "alloc"
  /\ free = 0
  /\ UNCHANGED vars

\* No buffer in a hundred milliseconds: the frame is dropped.
AllocTimesOut ==
  /\ rpc = "alloc"
  /\ free = 0
  /\ rpc' = "none"
  /\ UNCHANGED <<iface, holder, sendVars, free, stackVars>>

\* MUTANT: the received frame passes through frame_buf.
PushThroughFrameBuf ==
  /\ rpc = "write"
  /\ rpc' = "none"
  /\ frame' = Nobody
  /\ queue' = queue + 1
  /\ UNCHANGED <<iface, holder, txlock, tpc, free, held>>

\* The packet is written, and net_recv_data takes the buffer over.
PushPacket ==
  /\ rpc = "write"
  /\ rpc' = "none"
  /\ queue' = queue + 1
  /\ UNCHANGED <<iface, holder, sendVars, free, held>>

\* net_pkt_write or net_recv_data reports an error.
Refuse ==
  /\ rpc = "write"
  /\ rpc' = "failed"
  /\ UNCHANGED <<iface, holder, sendVars, free, stackVars>>

Release ==
  /\ rpc = "failed"
  /\ rpc' = "none"
  /\ free' = free + 1
  /\ UNCHANGED <<iface, holder, sendVars, stackVars>>

-----------------------------------------------------------------------------
(* The receive thread of the network stack *)

StackTake ==
  /\ queue > 0
  /\ ~held
  /\ queue' = queue - 1
  /\ held' = TRUE
  /\ UNCHANGED <<iface, holder, sendVars, recvVars>>

StackDone ==
  /\ held
  /\ tpc[Stack] = "out"
  /\ held' = FALSE
  /\ free' = free + 1
  /\ UNCHANGED <<iface, holder, sendVars, rpc, queue>>

-----------------------------------------------------------------------------

SendStep(t) ==
  \/ TxLock(t) \/ ReadPacket(t) \/ ReadFails(t)
  \/ SendLock(t) \/ Transmit(t) \/ TxUnlock(t)

Receive ==
  Alloc \/ AllocTimesOut \/ PushPacket \/ Refuse \/ Release

EthernetStep ==
  \/ IfaceInit \/ PollLock \/ PollUnlock
  \/ \E t \in Talker : SendStep(t)
  \/ Arrive \/ Receive
  \/ StackTake \/ StackDone

Next == EthernetStep \/ HostLock \/ HostUnlock

Spec == Init /\ [][Next]_vars

-----------------------------------------------------------------------------

\* What a sender put into frame_buf is there until the library has sent it:
\* no other sender, and no frame received while it waits, gets in between.
OwnFrameSent ==
  \A t \in Talker : tpc[t] \in {"lock", "send"} => frame = t

\* Every receive buffer is in the pool, in the driver's hands, in the stack's
\* queue or in its hands: none is lost on an error path and none is given
\* back twice.
InHand == IF rpc \in {"write", "failed"} THEN 1 ELSE 0
BuffersConserved ==
  free + InHand + queue + (IF held THEN 1 ELSE 0) = Pool

\* The inductive invariant behind the safety properties: the transmit lock
\* covers the whole call, the driver lock its library part and every frame
\* that is taken in.
PathInv ==
  /\ \A t \in Talker : tpc[t] # "out" => txlock = t
  /\ \A t \in Talker : holder = t <=> tpc[t] = "send"
  /\ OwnFrameSent
  /\ BuffersConserved
  /\ rpc # "none" => iface /\ holder \in Talker \cup {Poll}

\* Types, lock discipline and buffer accounts together.
IndInv == TypeOK /\ PathInv
=============================================================================

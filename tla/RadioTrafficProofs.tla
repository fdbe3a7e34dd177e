------------------------- MODULE RadioTrafficProofs -------------------------
(***************************************************************************)
(* Proofs about the frame path, the Bluetooth driver and the two on one    *)
(* radio, for every number of senders and of buffers.                      *)
(***************************************************************************)
EXTENDS RadioTraffic, TLAPS

(* The frame path *)

\* Types, and the lock discipline that keeps frames and buffers whole.
THEOREM Inductive == Spec => []IndInv
<1> USE ThreadAssumption, PoolAssumption
    DEF ThreadAssumption, PoolAssumption, Talker, IndInv
<1>1. Init => IndInv
  <2> SUFFICES ASSUME Init
               PROVE  IndInv
    OBVIOUS
  <2>1. iface \in BOOLEAN /\ held \in BOOLEAN
    BY Zenon DEF Init
  <2> QED
    BY <2>1 DEF Init, TypeOK, PathInv, OwnFrameSent, BuffersConserved, InHand
<1>2. IndInv /\ [Next]_vars => IndInv'
  <2> SUFFICES ASSUME IndInv, [Next]_vars
               PROVE  IndInv'
    OBVIOUS
  <2> USE DEF TypeOK, PathInv, OwnFrameSent, BuffersConserved, InHand,
              sendVars, recvVars, stackVars
  <2>1. CASE IfaceInit
    <3>1. iface' = TRUE /\ iface' \in BOOLEAN
      BY <2>1, Zenon DEF IfaceInit
    <3> QED
      BY <2>1, <3>1 DEF IfaceInit
  <2>2. CASE PollLock \/ PollUnlock \/ HostLock \/ HostUnlock
    <3>1. CASE PollLock
      BY <3>1 DEF PollLock
    <3>2. CASE PollUnlock
      BY <3>2 DEF PollUnlock
    <3>3. CASE HostLock
      BY <3>3 DEF HostLock
    <3>4. CASE HostUnlock
      BY <3>4 DEF HostUnlock
    <3> QED
      BY <2>2, <3>1, <3>2, <3>3, <3>4
  <2>3. ASSUME NEW t \in Talker, SendStep(t)
        PROVE  IndInv'
    <3> USE DEF Goto
    <3>1. CASE TxLock(t)
      BY <3>1 DEF TxLock
    <3>2. CASE ReadPacket(t) \/ ReadFails(t)
      BY <3>2 DEF ReadPacket, ReadFails
    <3>3. CASE SendLock(t)
      BY <3>3 DEF SendLock
    <3>4. CASE Transmit(t)
      BY <3>4 DEF Transmit
    <3>5. CASE TxUnlock(t)
      BY <3>5 DEF TxUnlock
    <3> QED
      BY <2>3, <3>1, <3>2, <3>3, <3>4, <3>5 DEF SendStep
  <2>4. CASE Arrive
    BY <2>4 DEF Arrive
  <2>5. CASE Receive
    BY <2>5 DEF Receive, Alloc, AllocTimesOut, PushPacket, Refuse, Release
  <2>6. CASE StackTake
    <3>1. held' = TRUE /\ held' \in BOOLEAN
      BY <2>6, Zenon DEF StackTake
    <3> QED
      BY <2>6, <3>1 DEF StackTake
  <2>7. CASE StackDone
    <3>1. held' = FALSE /\ held' \in BOOLEAN
      BY <2>7, Zenon DEF StackDone
    <3> QED
      BY <2>7, <3>1 DEF StackDone
  <2>8. CASE UNCHANGED vars
    BY <2>8 DEF vars
  <2> QED
    BY <2>1, <2>2, <2>3, <2>4, <2>5, <2>6, <2>7, <2>8 DEF Next, EthernetStep
<1> QED
  BY <1>1, <1>2, PTL DEF Spec

\* The frame in frame_buf is the sender's own until it is sent.
THEOREM FramesIntact == Spec => []OwnFrameSent
<1>1. IndInv => OwnFrameSent
  BY DEF IndInv, PathInv
<1> QED
  BY <1>1, Inductive, PTL

\* No receive buffer is lost or released twice, on any path.
THEOREM NoBufferLost == Spec => []BuffersConserved
<1>1. IndInv => BuffersConserved
  BY DEF IndInv, PathInv
<1> QED
  BY <1>1, Inductive, PTL

-----------------------------------------------------------------------------
(* The Bluetooth driver *)

\* Types, buffer accounts and the callback of the Bluetooth driver, with any
\* number of other threads and of buffers.
THEOREM BtInductive == Bt!BtSpec => [](Bt!BtTypeOK /\ Bt!BtInv)
<1> USE BtAssumption
    DEF BtAssumption, Bt!BtConstants, Bt!BtThread, Bt!Pools, Bt!Packet, Bt!PoolOf
<1>1. Bt!BtInit /\ holder = Nobody => Bt!BtTypeOK /\ Bt!BtInv
  <2> SUFFICES ASSUME Bt!BtInit, holder = Nobody
               PROVE  Bt!BtTypeOK /\ Bt!BtInv
    OBVIOUS
  <2>1. recv \in BOOLEAN /\ stale \in BOOLEAN
    BY Zenon DEF Bt!BtInit
  <2>2. Bt!BtTypeOK
    BY <2>1 DEF Bt!BtInit, Bt!BtTypeOK
  <2>3. Bt!BtInv
    BY DEF Bt!BtInit, Bt!BtInv, Bt!BtBuffersConserved, Bt!Filling
  <2> QED
    BY <2>2, <2>3
<1>2. Bt!BtTypeOK /\ Bt!BtInv /\ [Bt!BtNext]_<<holder, Bt!btVars>>
        => (Bt!BtTypeOK /\ Bt!BtInv)'
  <2> SUFFICES ASSUME Bt!BtTypeOK, Bt!BtInv, [Bt!BtNext]_<<holder, Bt!btVars>>
               PROVE  Bt!BtTypeOK' /\ Bt!BtInv'
    OBVIOUS
  <2> USE DEF Bt!BtTypeOK, Bt!BtInv, Bt!BtBuffersConserved, Bt!Filling, Bt!btVars
  <2>1. CASE Bt!Read
    <3>1. recv' = recv /\ stale' = stale /\ recv' \in BOOLEAN /\ stale' \in BOOLEAN
      BY <2>1, Zenon DEF Bt!Read
    <3>2. PICK k \in Bt!Packet :
            /\ rxbuf' = k
            /\ \/ phase' = phase
               \/ k = "packet" /\ phase = "reset" /\ phase' = "quiet"
            /\ bpc' = IF k = "unknown" THEN "idle" ELSE "alloc"
      BY <2>1 DEF Bt!Read, Bt!Dispatch
    <3>3. holder = Poll /\ bpc = "idle" /\ phase \in {"open", "reset"}
      BY <2>1 DEF Bt!Read
    <3>4. UNCHANGED <<holder, spare, lent, outgoing>>
      BY <2>1 DEF Bt!Read
    <3>5. Bt!BtTypeOK'
      BY <3>1, <3>2, <3>3, <3>4
    <3>6. Bt!BtInv'
      BY <3>1, <3>2, <3>3, <3>4
    <3> QED
      BY <3>5, <3>6
  <2>2. CASE Bt!ReadNothing
    <3>1. recv' = recv /\ stale' = TRUE /\ recv' \in BOOLEAN /\ stale' \in BOOLEAN
      BY <2>2, Zenon DEF Bt!ReadNothing
    <3>2. holder = Poll /\ bpc = "idle" /\ phase # "closed"
      BY <2>2 DEF Bt!ReadNothing
    <3>3. bpc' = "alloc"
      BY <2>2 DEF Bt!ReadNothing, Bt!Dispatch
    <3>4. UNCHANGED <<holder, rxbuf, spare, lent, outgoing, phase>>
      BY <2>2 DEF Bt!ReadNothing
    <3>5. phase # "quiet"
      BY <3>2
    <3>6. Bt!BtTypeOK'
      BY <3>1, <3>2, <3>3, <3>4
    <3>7. recv' <=> phase' # "closed"
      BY <3>1, <3>4, Zenon
    <3>8. stale'
      BY <3>1, Zenon
    <3>9. Bt!BtInv'
      BY <3>2, <3>3, <3>4, <3>5, <3>7, <3>8
    <3> QED
      BY <3>6, <3>9
  <2>3. CASE Bt!TakeBuffer
    BY <2>3 DEF Bt!TakeBuffer
  <2>4. CASE Bt!AddToNull
    BY <2>4 DEF Bt!AddToNull
  <2>5. CASE Bt!DropLong
    <3>1. recv' = recv /\ recv' \in BOOLEAN /\ stale' = FALSE /\ stale' \in BOOLEAN
      BY <2>5, Zenon DEF Bt!DropLong
    <3>2. /\ bpc = "deliver" /\ bpc' = "idle" /\ rxbuf = "long"
          /\ spare' = [spare EXCEPT !["rx"] = @ + 1]
          /\ UNCHANGED <<holder, rxbuf, lent, outgoing, phase>>
      BY <2>5 DEF Bt!DropLong
    <3>3. phase # "quiet"
      BY <3>2
    <3> QED
      BY <3>1, <3>2, <3>3
  <2>6. CASE Bt!Deliver
    <3>1. recv' = recv /\ recv' \in BOOLEAN /\ stale' = FALSE /\ stale' \in BOOLEAN
      BY <2>6, Zenon DEF Bt!Deliver
    <3>2. /\ bpc = "deliver" /\ bpc' = "idle" /\ rxbuf # "long"
          /\ UNCHANGED <<holder, rxbuf, spare, outgoing>>
          /\ lent' = [lent EXCEPT ![Bt!PoolOf(rxbuf)] = @ + 1]
      BY <2>6 DEF Bt!Deliver
    <3>3. \/ phase = "quiet" /\ phase' = "done"
          \/ phase # "quiet" /\ phase' = phase
      BY <2>6 DEF Bt!Deliver
    <3>4. Bt!BtTypeOK'
      BY <3>1, <3>2, <3>3
    <3>5. recv' <=> phase' # "closed"
      BY <3>1, <3>3, Zenon
    <3>6. ~stale'
      BY <3>1, Zenon
    <3>7. Bt!BtBuffersConserved'
      BY <3>2
    <3> QED
      BY <3>2, <3>3, <3>4, <3>5, <3>6, <3>7
  <2>7. CASE Bt!CallNull
    BY <2>7 DEF Bt!CallNull
  <2>8. CASE Bt!Open
    BY <2>8 DEF Bt!Open
  <2>9. CASE Bt!Close
    <3>1. recv' = FALSE /\ recv' \in BOOLEAN
      BY <2>9, Zenon DEF Bt!Close
    <3> QED
      BY <2>9, <3>1 DEF Bt!Close
  <2>10. ASSUME NEW what \in {"data", "reset"}, Bt!Send(what)
         PROVE  Bt!BtTypeOK' /\ Bt!BtInv'
    BY <2>10 DEF Bt!Send
  <2>11. CASE Bt!SendLock
    BY <2>11 DEF Bt!SendLock
  <2>12. CASE Bt!Sent
    <3>1. recv' = recv /\ recv' \in BOOLEAN /\ stale' = stale /\ stale' \in BOOLEAN
      BY <2>12, Zenon DEF Bt!Sent
    <3>2. /\ holder = Host /\ holder' = Nobody /\ outgoing' = "none" /\ outgoing # "none"
          /\ UNCHANGED <<rxbuf, bpc, spare, lent>>
      BY <2>12 DEF Bt!Sent
    <3>3. phase' \in {phase, "reset"}
      BY <2>12 DEF Bt!Sent
    <3>4. bpc = "idle" /\ phase # "quiet" /\ ~stale
      BY <3>2
    <3>5. phase = "open"
      BY <3>2
    <3>6. Bt!BtTypeOK'
      BY <3>1, <3>2, <3>3
    <3> QED
      BY <3>1, <3>2, <3>3, <3>4, <3>5, <3>6
  <2>13. ASSUME NEW p \in Bt!Pools, Bt!GiveBack(p)
         PROVE  Bt!BtTypeOK' /\ Bt!BtInv'
    BY <2>13 DEF Bt!GiveBack
  <2>14. CASE Bt!OthersLock
    BY <2>14 DEF Bt!OthersLock
  <2>15. CASE UNCHANGED <<holder, Bt!btVars>>
    BY <2>15
  <2> QED
    BY <2>1, <2>2, <2>3, <2>4, <2>5, <2>6, <2>7, <2>8, <2>9, <2>10, <2>11, <2>12,
       <2>13, <2>14, <2>15 DEF Bt!BtNext, Bt!BtStep, Bt!Process, Bt!HostStep
<1> QED
  BY <1>1, <1>2, PTL DEF Bt!BtSpec

-----------------------------------------------------------------------------
(* The two on one radio *)

\* Beside the Bluetooth driver, the frame path behaves as EthernetPath says: the
\* host's thread is one more that takes the lock.
THEOREM EthernetKept == TrafficSpec => Spec
<1>1. TrafficInit => Init
  BY DEF TrafficInit
<1>2. [TrafficNext]_allVars => [Next]_vars
  <2> SUFFICES ASSUME [TrafficNext]_allVars
               PROVE  [Next]_vars
    OBVIOUS
  <2>1. CASE Ethernet(EthernetStep)
    BY <2>1 DEF Ethernet, Next
  <2>2. CASE Bluetooth(Bt!BtStep)
    <3>1. Bt!BtStep /\ UNCHANGED ethernetVars
      BY <2>2 DEF Bluetooth
    <3>2. UNCHANGED holder \/ Bt!SendLock \/ Bt!Sent
      BY <3>1 DEF Bt!BtStep, Bt!Process, Bt!HostStep, Bt!Read, Bt!ReadNothing,
                  Bt!TakeBuffer, Bt!AddToNull, Bt!DropLong, Bt!Deliver, Bt!CallNull,
                  Bt!Open, Bt!Close, Bt!Send, Bt!GiveBack
    <3>3. CASE UNCHANGED holder
      BY <3>1, <3>3 DEF ethernetVars, vars
    <3>4. CASE Bt!SendLock
      BY <3>1, <3>4 DEF Bt!SendLock, HostLock, ethernetVars, Next
    <3>5. CASE Bt!Sent
      BY <3>1, <3>5 DEF Bt!Sent, HostUnlock, ethernetVars, Next
    <3> QED
      BY <3>2, <3>3, <3>4, <3>5
  <2>3. CASE UNCHANGED allVars
    BY <2>3 DEF allVars
  <2> QED
    BY <2>1, <2>2, <2>3 DEF TrafficNext
<1> QED
  BY <1>1, <1>2, PTL DEF TrafficSpec, Spec

\* Beside the frame path, the Bluetooth driver behaves as BtHci says: nobody
\* takes the lock from the poll thread inside hci_process, or from the host.
THEOREM BluetoothKept == TrafficSpec => Bt!BtSpec
<1>1. TrafficInit => Bt!BtInit /\ holder = Nobody
  BY DEF TrafficInit, Init
<1>2. IndInv /\ [TrafficNext]_allVars => [Bt!BtNext]_<<holder, Bt!btVars>>
  <2> SUFFICES ASSUME IndInv, [TrafficNext]_allVars
               PROVE  [Bt!BtNext]_<<holder, Bt!btVars>>
    OBVIOUS
  <2>1. CASE Ethernet(EthernetStep)
    <3>1. UNCHANGED Bt!btVars
      BY <2>1 DEF Ethernet, btVars, Bt!btVars
    <3>2. bpc # "idle" => UNCHANGED holder
      BY <2>1 DEF Ethernet
    <3>3. holder # Host \/ UNCHANGED holder
      <4>1. \A t \in Talker : tpc[t] = "send" => holder = t
        BY DEF IndInv, PathInv
      <4> QED
        BY <2>1, <4>1, ThreadAssumption
           DEF Ethernet, EthernetStep, IfaceInit, PollLock, PollUnlock, SendStep, TxLock,
               ReadPacket, ReadFails, SendLock, Transmit, TxUnlock, Arrive, Receive, Alloc,
               AllocTimesOut, PushPacket, Refuse, Release, StackTake, StackDone,
               Goto, ThreadAssumption
    <3>4. holder' \in Talker \cup {Poll, Nobody} \/ UNCHANGED holder
      BY <2>1
         DEF Ethernet, EthernetStep, IfaceInit, PollLock, PollUnlock, SendStep, TxLock,
             ReadPacket, ReadFails, SendLock, Transmit, TxUnlock, Arrive, Receive, Alloc,
             AllocTimesOut, PushPacket, Refuse, Release, StackTake, StackDone
    <3> QED
      BY <3>1, <3>2, <3>3, <3>4 DEF Bt!BtNext, Bt!OthersLock
  <2>2. CASE Bluetooth(Bt!BtStep)
    BY <2>2 DEF Bluetooth, Bt!BtNext
  <2>3. CASE UNCHANGED allVars
    BY <2>3 DEF allVars, vars, btVars, Bt!btVars
  <2> QED
    BY <2>1, <2>2, <2>3 DEF TrafficNext
<1> QED
  BY <1>1, <1>2, EthernetKept, Inductive, PTL DEF TrafficSpec, Bt!BtSpec

\* Types, lock discipline and buffer accounts of both sides hold together, and
\* the lock's holder is inside one of the two callbacks at a time.
THEOREM TrafficSafe == TrafficSpec => []TrafficInv
<1> DEFINE Apart == bpc # "idle" => rpc = "none"
<1>1. TrafficInit => Apart
  BY DEF TrafficInit, Init
<1>2. Apart /\ [TrafficNext]_allVars => Apart'
  <2> SUFFICES ASSUME Apart, [TrafficNext]_allVars
               PROVE  Apart'
    OBVIOUS
  <2>1. CASE Ethernet(EthernetStep)
    BY <2>1 DEF Ethernet, btVars
  <2>2. CASE Bluetooth(Bt!BtStep)
    BY <2>2 DEF Bluetooth, ethernetVars, recvVars
  <2>3. CASE UNCHANGED allVars
    BY <2>3 DEF allVars, vars, recvVars, btVars
  <2> QED
    BY <2>1, <2>2, <2>3 DEF TrafficNext
<1>3. IndInv /\ Bt!BtTypeOK /\ Bt!BtInv /\ Apart => TrafficInv
  BY DEF TrafficInv
<1> QED
  BY <1>1, <1>2, <1>3, EthernetKept, Inductive, BluetoothKept, BtInductive, PTL
     DEF TrafficSpec

\* A packet that was read meets the host's callback, whatever the sides do.
THEOREM CallbackThere == TrafficSpec => []RecvInstalled
<1>1. Bt!BtInv => RecvInstalled
  <2> SUFFICES ASSUME Bt!BtInv, bpc = "deliver", ~recv
               PROVE  stale
    BY Zenon DEF RecvInstalled, Bt!RecvInstalled
  <2>1. phase = "closed"
    BY Zenon DEF Bt!BtInv
  <2>2. bpc # "idle"
    OBVIOUS
  <2>3. ~stale => phase \in {"open", "reset", "quiet"}
    BY <2>2, Zenon DEF Bt!BtInv
  <2> QED
    BY <2>1, <2>3
<1> QED
  BY <1>1, BluetoothKept, BtInductive, PTL

\* The frame in frame_buf and the receive buffers are safe beside Bluetooth too.
THEOREM TrafficFramesIntact == TrafficSpec => [](OwnFrameSent /\ BuffersConserved)
BY EthernetKept, FramesIntact, NoBufferLost, PTL
=============================================================================

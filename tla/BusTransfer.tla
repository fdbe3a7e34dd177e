----------------------------- MODULE BusTransfer -----------------------------
(***************************************************************************)
(* Blocks and registers on the SPI bus: cyw43_read_bytes,                  *)
(* cyw43_write_bytes with the wait for the radio's FIFO before a WLAN      *)
(* write, and the register calls.  Two files implement them, over Zephyr's *)
(* SPI driver or over the PicoWi state machine; one of them is compiled in.*)
(* Header and payload of a block share one piece of memory, spi_header     *)
(* followed by spid_buf; a transfer is sent from it and answered into it.  *)
(* The caller holds the driver lock, so one call is under way at a time.   *)
(* Memory is counted in words.                                             *)
(***************************************************************************)
EXTENDS Naturals, Sequences

CONSTANTS Pad,        \* words the radio delays a backplane answer by (4)
          Room,       \* words of spid_buf
          MaxLooks,   \* f2_ready_attempts (1000)
          Errors      \* errno values the SPI driver may report

\* The response delay is sixteen octets: an even number of words.
ASSUME SizeAssumption ==
  /\ Pad \in Nat \ {0} /\ Pad % 2 = 0
  /\ Room \in Nat \ {0}
  /\ MaxLooks \in Nat \ {0}
ASSUME ErrorAssumption == Errors \subseteq 1..255

VARIABLES picowi,     \* which of the two files is compiled in
          reorder,    \* do_ridiculous_byte_reordering
          mem,        \* spi_header and spid_buf
          call,       \* the write under way: function, length, src is spid_buf
          pc,         \* where it is
          looks,      \* f2_ready_attempts
          said,       \* ghost: what the radio has said of its FIFO in this call
          tag,        \* ghost: tag of the call under way or next
          moved       \* ghost: what the last call gave to the radio or its caller

locals == <<call, looks, said>>
vars == <<picowi, reorder, mem, pc, locals, tag, moved>>

Bus == INSTANCE RadioBus
Function == Bus!Function
Calls == [fn : Function, n : 1..Room, inplace : BOOLEAN]
NoCall == [fn |-> "BACKPLANE", n |-> 1, inplace |-> TRUE]
Zero == [kind |-> "pad", tag |-> 0, k |-> 0]

\* spi_header has one word more than the padding; spid_buf follows it, and has
\* a word more than the largest block.
Place == 0..(Pad + Room + 1)
Word == Bus!Command \cup Bus!Item

Build == picowi \in BOOLEAN /\ reorder \in BOOLEAN

TypeOK ==
  /\ Build
  /\ mem \in [Place -> Word]
  /\ call \in Calls
  /\ pc \in {"idle", "wait", "test", "put"}
  /\ looks \in 0..MaxLooks
  /\ said \in {"nothing", "not ready", "ready"}
  /\ tag \in 0..1
  /\ moved \in Seq(Word) /\ Len(moved) <= 1 + Room

Init ==
  /\ picowi \in BOOLEAN
  /\ reorder = picowi
  /\ mem = [p \in Place |-> Zero]
  /\ call = NoCall
  /\ pc = "idle"
  /\ looks = 0
  /\ said = "nothing"
  /\ Bus!Init

\* A call ends: what it moved is settled, its locals are gone.
Ends(what) ==
  /\ moved' = what
  /\ tag' = 1 - tag
  /\ pc' = "idle"
  /\ call' = NoCall
  /\ looks' = 0
  /\ said' = "nothing"

-----------------------------------------------------------------------------
(* Memory and the bus *)

\* m with the words of s from place p on.
Put(m, p, s) ==
  [q \in Place |-> IF q \in p..(p + Len(s) - 1) THEN s[q - p + 1] ELSE m[q]]

\* The n words of m from place p on.
Words(m, p, n) == [i \in 1..n |-> m[p + i - 1]]

Command(write, fn, n) == <<[write |-> write, fn |-> fn, tag |-> tag, n |-> n]>>

\* The word of spi_header the command of a read goes to.
Header(fn) == IF fn = "BACKPLANE" THEN 0 ELSE Pad

\* The radio's answer to a read, after its response delay.
Answer(fn, n) ==
  (IF fn = "BACKPLANE" THEN [i \in 1..Pad |-> Zero] ELSE <<>>)
    \o Bus!Block("data", tag, n)

\* What a transfer receives.  The length it is given counts the command;
\* PicoWi's takes all of it for the answer and clocks in one word too many.
Received(fn, n) == Answer(fn, n) \o (IF picowi THEN <<Zero>> ELSE <<>>)

-----------------------------------------------------------------------------
(* cyw43_read_bytes *)

\* The word of the command; PicoWi's transfer clears it before it receives.
Asked(fn, n) ==
  Put(mem, Header(fn), IF picowi THEN <<Zero>> ELSE Command(FALSE, fn, n))

\* The answer lands behind the command; the caller gets spid_buf.  From here on
\* PicoWi's transfers no longer reorder.
ReadBytes(fn, n) ==
  /\ pc = "idle"
  /\ mem' = Put(Asked(fn, n), Header(fn) + 1, Received(fn, n))
  /\ reorder' = FALSE
  /\ Ends(Words(mem', Pad + 1, n))
  /\ UNCHANGED picowi

\* The transfer reports an error when any number of words of the answer have
\* come: the caller's buffer is left alone.
ReadBytesFails(fn, n) ==
  /\ pc = "idle"
  /\ ~picowi
  /\ Errors # {}
  /\ \E k \in 0..Len(Answer(fn, n)) :
       mem' = Put(Asked(fn, n), Header(fn) + 1, SubSeq(Answer(fn, n), 1, k))
  /\ Ends(<<>>)
  /\ UNCHANGED <<picowi, reorder>>

-----------------------------------------------------------------------------
(* _cyw43_read_reg and _cyw43_write_reg, in a buffer of their own *)

\* The word of the buffer whose content is the register's value.
ValuePlace(fn) == IF fn = "BACKPLANE" THEN Pad + 1 ELSE 1

\* MUTANT: the second word of a pair goes to the wrong place.
LandsUnpaired(p) == IF reorder THEN p + 1 ELSE p

\* Which of the words received lands at place p: behind the command in their
\* order, or, while PicoWi reorders, the first of each pair behind the second.
Lands(p) == IF reorder /\ p % 2 = 0 THEN p + 2 ELSE p

ReadReg(fn) ==
  /\ pc = "idle"
  /\ Ends(<<Received(fn, 1)[Lands(ValuePlace(fn))]>>)
  /\ UNCHANGED <<picowi, reorder, mem>>

\* The negative error of the transfer is returned as if it were the value.
ReadRegFails ==
  /\ pc = "idle"
  /\ ~picowi
  /\ Errors # {}
  /\ Ends(Bus!Block("error", tag, 1))
  /\ UNCHANGED <<picowi, reorder, mem>>

\* Command and value.
WriteReg(fn) ==
  /\ pc = "idle"
  /\ Ends(Command(TRUE, fn, 1) \o Bus!Block("payload", tag, 1))
  /\ UNCHANGED <<picowi, reorder, mem>>

WriteRegFails ==
  /\ pc = "idle"
  /\ ~picowi
  /\ Errors # {}
  /\ Ends(<<>>)
  /\ UNCHANGED <<picowi, reorder, mem>>

-----------------------------------------------------------------------------
(* cyw43_write_bytes *)

\* A caller that builds its frame in spid_buf has the payload there already.
WriteBytes(c) ==
  /\ pc = "idle"
  /\ call' = c
  /\ mem' = IF c.inplace THEN Put(mem, Pad + 1, Bus!Block("payload", tag, c.n)) ELSE mem
  /\ pc' = IF c.fn = "WLAN" THEN "wait" ELSE "put"
  /\ looks' = IF c.fn = "WLAN" THEN MaxLooks ELSE 0
  /\ UNCHANGED <<picowi, reorder, said, tag, moved>>

\* bus_status & STATUS_F2_RX_READY, for the low byte of the status word.
RxReady(status) == (status \div 32) % 2 = 1

\* MUTANT: the loop goes on when no attempt is left.
LookOnceMore(status) ==
  /\ pc = "wait"
  /\ looks' = looks - 1
  /\ pc' = IF RxReady(status) THEN "test" ELSE "wait"

Look(status) ==
  /\ pc = "wait"
  /\ looks > 0
  /\ looks' = looks - 1
  /\ pc' = IF RxReady(status) THEN "test" ELSE "wait"

\* cyw43_read_reg_u32 returns the radio's status word ...
LookAtStatus ==
  /\ \E status \in {0, 32} :
       /\ Look(status)
       /\ said' = IF RxReady(status) THEN "ready" ELSE "not ready"
  /\ UNCHANGED <<picowi, reorder, mem, call, tag, moved>>

\* ... or the negative error of the transfer, as if it were one.
LookFails ==
  /\ ~picowi
  /\ \E e \in Errors : Look(256 - e)
  /\ UNCHANGED <<picowi, reorder, mem, call, said, tag, moved>>

\* After the loop: the frame goes out if attempts are left ...
TestLooks ==
  /\ pc = "test"
  /\ looks > 0
  /\ pc' = "put"
  /\ UNCHANGED <<picowi, reorder, mem, locals, tag, moved>>

\* ... and "F2 not ready" is reported if none are.
GiveUp ==
  /\ pc \in {"wait", "test"}
  /\ looks = 0
  /\ Ends(<<>>)
  /\ UNCHANGED <<picowi, reorder, mem>>

Commanded == Put(mem, Pad, Command(TRUE, call.fn, call.n))

\* The command in the last word of spi_header, the payload copied behind it
\* unless it is in place.
FrameInMemory ==
  IF call.inplace THEN Commanded
  ELSE Put(Commanded, Pad + 1, Bus!Block("payload", tag, call.n))

PutFrame ==
  /\ pc = "put"
  /\ mem' = FrameInMemory
  /\ Ends(Words(mem', Pad, call.n + 1))
  /\ UNCHANGED <<picowi, reorder>>

\* MUTANT: a failed transfer is repeated from the wait on.
PutFrameRetried ==
  /\ pc = "put"
  /\ ~picowi
  /\ Errors # {}
  /\ mem' = FrameInMemory
  /\ pc' = "wait"
  /\ looks' = MaxLooks
  /\ said' = "nothing"
  /\ UNCHANGED <<picowi, reorder, call, tag, moved>>

PutFrameFails ==
  /\ pc = "put"
  /\ ~picowi
  /\ Errors # {}
  /\ mem' = FrameInMemory
  /\ Ends(<<>>)
  /\ UNCHANGED <<picowi, reorder>>

-----------------------------------------------------------------------------

WriteStep == LookAtStatus \/ LookFails \/ TestLooks \/ GiveUp \/ PutFrame \/ PutFrameFails

Next ==
  \/ \E fn \in Function, n \in 1..Room : ReadBytes(fn, n) \/ ReadBytesFails(fn, n)
  \/ \E fn \in Function : ReadReg(fn) \/ WriteReg(fn)
  \/ ReadRegFails \/ WriteRegFails
  \/ \E c \in Calls : WriteBytes(c)
  \/ WriteStep

\* A call that is made runs on; the radio need never be ready.
Spec == Init /\ [][Next]_vars
FairSpec == Spec /\ WF_vars(WriteStep)

-----------------------------------------------------------------------------

\* Whatever was read or written before, and however long the radio kept the
\* call waiting, the radio is given exactly the command and payload of the
\* call, and a read hands over exactly the radio's words and none of the
\* padding, of the header, or of another call.
ImplementsRadioBus == Bus!Spec

\* Why, as an inductive invariant beside the types: nothing the wait does
\* touches a payload that its caller has built in spid_buf.
PayloadKept ==
  pc # "idle" /\ call.inplace =>
    \A i \in 1..call.n : mem[Pad + i] = [kind |-> "payload", tag |-> tag, k |-> i]

IndInv == TypeOK /\ PayloadKept

\* A write returns although the radio may never be ready.
WriteReturns == (pc = "wait") ~> (pc = "idle")

\* cyw43_bus_pio_spi.c: "Wait for FIFO to be ready to accept data" and "F2 not
\* ready".  The wait ends as the radio has said: no payload goes to the WLAN
\* function unless the radio has said that its FIFO is ready, and a write that
\* is about to report the opposite has not been told so.
WaitEndsAsSaid ==
  /\ pc = "put" /\ call.fn = "WLAN" => said = "ready"
  /\ pc \in {"wait", "test"} /\ looks = 0 => said # "ready"
=============================================================================

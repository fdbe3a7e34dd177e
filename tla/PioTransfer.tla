----------------------------- MODULE PioTransfer -----------------------------
(***************************************************************************)
(* One level below BusTransfer: cyw43_spi_transfer of the PicoWi bus and   *)
(* the state machine it drives.  The processor fills and empties two FIFOs *)
(* of a few octets and forces jumps; the state machine shifts octets to    *)
(* and from the one data pin at its own pace.  Nothing but the FIFOs, and  *)
(* the address the state machine is at, ties the two together.             *)
(***************************************************************************)
EXTENDS Naturals, Sequences

CONSTANTS Depth,      \* entries of a FIFO (4)
          Jobs        \* transfers: [tx, rx : octets, reorder : BOOLEAN]

\* A register read takes a word, or a word behind four of response delay; it is
\* reordered until the first block is read.
ASSUME DepthAssumption == Depth \in Nat \ {0}
ASSUME JobAssumption ==
  \A j \in Jobs : /\ j.tx \in Nat \ {0} /\ j.rx \in Nat /\ j.reorder \in BOOLEAN
                  /\ j.rx > 0 => j.tx = 4 /\ j.rx >= 8 /\ j.rx % 4 = 0
                  /\ j.reorder => j.rx % 8 = 0

VARIABLES cpu,        \* where the processor is
          job,        \* the transfer under way
          n,          \* octets put into or fetched from the FIFO
          pieces,     \* the calls of pio_spi_read that are left
          buf,        \* answer octet at each place of the caller's buffer
          sm,         \* where the state machine is
          osr,        \* the octet it shifts out, or has shifted in
          x,          \* its octet counter
          txf, rxf,   \* the FIFOs
          dir,        \* direction of the data pin
          cs,         \* chip select, high when nothing is selected
          heard,      \* the octets the radio has taken
          told        \* answer octets it has given

cpuVars == <<cpu, job, n, pieces, buf, cs>>
smVars == <<sm, osr, x>>
wireVars == <<heard, told>>
vars == <<cpuVars, smVars, txf, rxf, dir, wireVars>>

\* An octet that was driven by nobody, or taken while the radio did not answer.
Noise == 0
NoJob == [tx |-> 1, rx |-> 0, reorder |-> FALSE]

\* Where the octets received are put, a place and a number at a time: words in
\* pairs, each in reverse order, while PicoWi reorders; else behind the command.
Pieces(j) ==
  LET pairs == (j.rx + 7) \div 8
  IN  IF j.rx = 0 THEN <<>>
      ELSE IF j.reorder
           THEN [k \in 1..(2 * pairs) |->
                   [at |-> IF k % 2 = 1 THEN 4 * k ELSE 4 * (k - 2), len |-> 4]]
           ELSE <<[at |-> 4, len |-> j.rx]>>

Types ==
  /\ cpu \in {"idle", "clear", "writer", "drive", "fill", "settle", "release", "park",
              "read", "count", "fetch"}
  /\ job \in Jobs \cup {NoJob}
  /\ n \in 0..(job.tx + job.rx)
  /\ pieces \in Seq([at : Nat, len : Nat])
  /\ sm \in {"writer", "shift", "reader", "bits", "push", "loop"}
  /\ osr \in Nat /\ x \in Nat /\ told \in Nat /\ heard \in Seq(Nat)
  /\ txf \in Seq(Nat) /\ Len(txf) <= Depth
  /\ rxf \in Seq(Nat) /\ Len(rxf) <= Depth
  /\ dir \in {"in", "out"}

TypeOK == Types /\ cs \in BOOLEAN

Init ==
  /\ cpu = "idle" /\ job = NoJob /\ n = 0 /\ pieces = <<>> /\ buf = <<>> /\ cs = TRUE
  /\ sm = "writer" /\ osr = Noise /\ x = 0
  /\ txf = <<>> /\ rxf = <<>>
  /\ dir = "out"
  /\ heard = <<>> /\ told = 0

-----------------------------------------------------------------------------
(* The processor: cyw43_spi_transfer, pio_spi_write, pio_spi_read *)

Goto(from, to) == cpu = from /\ cpu' = to

\* io_out(CS_PIN, 0)
Select(j) ==
  /\ Goto("idle", "clear")
  /\ job' = j
  /\ pieces' = Pieces(j)
  /\ cs' = FALSE
  /\ UNCHANGED <<n, buf, smVars, txf, rxf, dir, wireVars>>

ClearFifos ==
  /\ Goto("clear", "writer")
  /\ txf' = <<>>
  /\ rxf' = <<>>
  /\ UNCHANGED <<job, n, pieces, buf, cs, smVars, dir, wireVars>>

\* pio_sm_exec: the state machine goes on at another address at once.
JumpTo(address) == sm' = address /\ UNCHANGED <<osr, x>>

JumpWriter ==
  /\ Goto("writer", "drive")
  /\ JumpTo("writer")
  /\ UNCHANGED <<job, n, pieces, buf, cs, txf, rxf, dir, wireVars>>

DrivePin ==
  /\ Goto("drive", "fill")
  /\ dir' = "out"
  /\ UNCHANGED <<job, n, pieces, buf, cs, smVars, txf, rxf, wireVars>>

\* MUTANT: the FIFO is taken to be one entry deeper, and drops the octet.
FillOverrun ==
  /\ cpu = "fill"
  /\ n < job.tx
  /\ Len(txf) <= Depth
  /\ txf' = IF Len(txf) < Depth THEN Append(txf, n + 1) ELSE txf
  /\ n' = n + 1
  /\ UNCHANGED <<cpu, job, pieces, buf, cs, smVars, rxf, dir, wireVars>>

Fill ==
  /\ cpu = "fill"
  /\ n < job.tx
  /\ Len(txf) < Depth
  /\ txf' = Append(txf, n + 1)
  /\ n' = n + 1
  /\ UNCHANGED <<cpu, job, pieces, buf, cs, smVars, rxf, dir, wireVars>>

\* The state machine has taken the last octet ...
Drained ==
  /\ Goto("fill", "settle")
  /\ n = job.tx
  /\ txf = <<>>
  /\ n' = 0
  /\ UNCHANGED <<job, pieces, buf, cs, smVars, txf, rxf, dir, wireVars>>

\* MUTANT: an empty FIFO is taken for the end of the last octet.
SettledAtOnce ==
  /\ Goto("settle", "release")
  /\ UNCHANGED <<job, n, pieces, buf, cs, smVars, txf, rxf, dir, wireVars>>

\* ... and is back at its first instruction.
Settled ==
  /\ sm = "writer"
  /\ Goto("settle", "release")
  /\ UNCHANGED <<job, n, pieces, buf, cs, smVars, txf, rxf, dir, wireVars>>

ReleasePin ==
  /\ Goto("release", "park")
  /\ dir' = "in"
  /\ UNCHANGED <<job, n, pieces, buf, cs, smVars, txf, rxf, wireVars>>

\* The address of stall is that of writer.  The answer's buffer is cleared.
Park ==
  /\ Goto("park", "read")
  /\ JumpTo("writer")
  /\ buf' = [p \in 0..(job.rx + 3) |-> Noise]
  /\ UNCHANGED <<job, n, pieces, cs, txf, rxf, dir, wireVars>>

JumpReader ==
  /\ pieces # <<>>
  /\ Goto("read", "count")
  /\ JumpTo("reader")
  /\ UNCHANGED <<job, n, pieces, buf, cs, txf, rxf, dir, wireVars>>

PutCount ==
  /\ Goto("count", "fetch")
  /\ txf' = Append(txf, Head(pieces).len - 1)
  /\ UNCHANGED <<job, n, pieces, buf, cs, smVars, rxf, dir, wireVars>>

Fetch ==
  /\ cpu = "fetch"
  /\ n < Head(pieces).len
  /\ rxf # <<>>
  /\ buf' = [buf EXCEPT ![Head(pieces).at + n] = Head(rxf)]
  /\ rxf' = Tail(rxf)
  /\ n' = n + 1
  /\ UNCHANGED <<cpu, job, pieces, cs, smVars, txf, dir, wireVars>>

Fetched ==
  /\ Goto("fetch", "read")
  /\ n = Head(pieces).len
  /\ n' = 0
  /\ pieces' = Tail(pieces)
  /\ UNCHANGED <<job, buf, cs, smVars, txf, rxf, dir, wireVars>>

\* MUTANT: a transfer without an answer is taken for a failed one and repeated.
DeselectRetrying ==
  /\ cpu = "read"
  /\ pieces = <<>>
  /\ IF job.rx = 0 THEN cpu' = "clear" /\ job' = job ELSE cpu' = "idle" /\ job' = NoJob
  /\ cs' = (job.rx > 0)
  /\ buf' = <<>>
  /\ heard' = <<>>
  /\ told' = 0
  /\ UNCHANGED <<n, pieces, smVars, txf, rxf, dir>>

\* io_out(SD_CS_PIN, 1), and the call returns.
Deselect ==
  /\ Goto("read", "idle")
  /\ pieces = <<>>
  /\ cs' = TRUE
  /\ job' = NoJob
  /\ buf' = <<>>
  /\ heard' = <<>>
  /\ told' = 0
  /\ UNCHANGED <<n, pieces, smVars, txf, rxf, dir>>

-----------------------------------------------------------------------------
(* The state machine: picowi_pio.pio *)

\* pull: the next octet, or the count of a read.
WriterPull ==
  /\ sm = "writer"
  /\ txf # <<>>
  /\ sm' = "shift"
  /\ osr' = Head(txf)
  /\ txf' = Tail(txf)
  /\ UNCHANGED <<cpuVars, x, rxf, dir, wireVars>>

\* wrloop: eight bits; the radio takes what is on the pin.
ShiftOut ==
  /\ sm = "shift"
  /\ sm' = "writer"
  /\ osr' = Noise
  /\ heard' = Append(heard, IF dir = "out" THEN osr ELSE Noise)
  /\ UNCHANGED <<cpuVars, x, txf, rxf, dir, told>>

ReaderPull ==
  /\ sm = "reader"
  /\ txf # <<>>
  /\ sm' = "bits"
  /\ x' = Head(txf)
  /\ txf' = Tail(txf)
  /\ UNCHANGED <<cpuVars, osr, rxf, dir, wireVars>>

\* bitloop: eight bits of the radio's answer, if it has its command and the pin.
ShiftIn ==
  /\ sm = "bits"
  /\ sm' = "push"
  /\ told' = told + 1
  /\ osr' = IF dir = "in" /\ Len(heard) = job.tx THEN told' ELSE Noise
  /\ UNCHANGED <<cpuVars, x, txf, rxf, dir, heard>>

Push ==
  /\ sm = "push"
  /\ Len(rxf) < Depth
  /\ sm' = "loop"
  /\ rxf' = Append(rxf, osr)
  /\ osr' = Noise
  /\ UNCHANGED <<cpuVars, x, txf, dir, wireVars>>

\* jmp x--, byteloop
Loop ==
  /\ sm = "loop"
  /\ IF x = 0 THEN sm' = "reader" /\ x' = x ELSE sm' = "bits" /\ x' = x - 1
  /\ UNCHANGED <<cpuVars, osr, txf, rxf, dir, wireVars>>

-----------------------------------------------------------------------------

CpuStep ==
  \/ ClearFifos \/ JumpWriter \/ DrivePin \/ Fill \/ Drained \/ Settled \/ ReleasePin \/ Park
  \/ JumpReader \/ PutCount \/ Fetch \/ Fetched \/ Deselect
SmStep == WriterPull \/ ShiftOut \/ ReaderPull \/ ShiftIn \/ Push \/ Loop

Next ==
  \/ \E j \in Jobs : Select(j)
  \/ CpuStep
  \/ SmStep

\* The processor runs on inside a transfer, the state machine on its clock.
Spec == Init /\ [][Next]_vars /\ WF_vars(CpuStep) /\ WF_vars(SmStep)

-----------------------------------------------------------------------------

\* The pin has one driver: no octet is being shifted out while it is an input or
\* in while it is an output, and none at all while the radio is not selected;
\* a transfer leaves the next one nothing in the FIFOs.
PinOwned ==
  /\ TypeOK
  /\ sm = "shift" => dir = "out" /\ ~cs
  /\ sm \in {"bits", "push"} => dir = "in" /\ ~cs
  /\ cs => txf = <<>> /\ rxf = <<>>

\* Where a caller looks for the answer: a register's value in the last word, a
\* block in all words behind the command.
Looked(j) == IF j.reorder THEN (j.rx - 4)..(j.rx - 1) ELSE 4..(j.rx - 1)

\* At the end of a transfer the radio has taken exactly the octets of the
\* command in their order, however the FIFO filled and drained, and the answer's
\* octets are, in their order, where the caller looks.
ExchangeWhole ==
  cpu = "read" /\ pieces = <<>> =>
    /\ heard = [i \in 1..job.tx |-> i]
    /\ told = job.rx
    /\ job.rx > 0 => \A p \in Looked(job) : buf[p] = p - 3

-----------------------------------------------------------------------------
(* Why: where every octet is, at every step of either side *)

Reading == {"read", "count", "fetch"}
Preparing == {"clear", "writer", "drive"}

\* The state machine has nothing under way.
AtRest == sm \in {"writer", "reader"} \/ (sm = "loop" /\ x = 0)

\* The one octet that is inside the state machine, if it is at that place.
Held(place) == IF sm = place THEN 1 ELSE 0

\* These calls of pio_spi_read are the last ones of transfer j.
Remain(j, left) ==
  /\ Len(left) <= Len(Pieces(j))
  /\ \A k \in 1..Len(left) : left[k] = Pieces(j)[Len(Pieces(j)) - Len(left) + k]

\* The octets fetched by the calls of pio_spi_read before those that are left.
Got(j, left) ==
  IF j.reorder THEN 4 * (Len(Pieces(j)) - Len(left))
  ELSE IF left = <<>> THEN j.rx ELSE 0

\* The number of the octet that lands at place p of the caller's buffer, and
\* the buffer when the first k octets have landed.
Lands(j, p) == IF j.reorder /\ (p \div 4) % 2 = 0 THEN p + 5 ELSE p - 3
Filled(j, k) ==
  [p \in 0..(j.rx + 3) |-> IF Lands(j, p) \in 1..k THEN Lands(j, p) ELSE Noise]

\* The octets of s are those that follow octet b.
Follow(s, b) == \A i \in 1..Len(s) : s[i] = b + i

\* The radio is selected while a transfer is under way.
Selected == cs \in BOOLEAN /\ (cs <=> cpu = "idle")

\* What the place of the processor says of the state machine and the pin, and
\* which calls of pio_spi_read are left.
Phases ==
  /\ cpu \in {"idle", "clear", "writer", "read"} => AtRest
  /\ cpu \in {"drive", "release", "park"} => sm = "writer"
  /\ cpu \in {"fill", "settle"} => sm \in {"writer", "shift"}
  /\ cpu = "count" => sm = "reader"
  /\ cpu = "fetch" => sm \in {"reader", "bits", "push", "loop"}
  /\ cpu \in {"fill", "settle", "release"} => dir = "out"
  /\ cpu \in {"park"} \cup Reading => dir = "in"
  /\ cpu \notin {"fill", "fetch"} => n = 0
  /\ cpu \notin Reading => pieces = Pieces(job)
  /\ cpu \in {"count", "fetch"} => pieces # <<>>
  /\ Remain(job, pieces)

\* On the way out: what the radio has heard, what is being shifted and what is
\* in the FIFO are the octets put so far, in this order.
Outgoing ==
  /\ Follow(heard, 0)
  /\ cpu \in {"idle"} \cup Preparing => heard = <<>>
  /\ cpu = "fill" =>
       /\ n = Len(heard) + Held("shift") + Len(txf) /\ n <= job.tx
       /\ Follow(txf, Len(heard) + Held("shift"))
  /\ cpu = "settle" => Len(heard) + Held("shift") = job.tx
  /\ cpu \in {"release", "park"} \cup Reading => Len(heard) = job.tx
  /\ sm = "shift" => osr = Len(heard) + 1
  /\ cpu \notin {"fill", "fetch"} => txf = <<>>

\* On the way in: what is in the buffer, in the FIFO and in the state machine
\* are the octets the radio has given so far, in this order, and the counter
\* says how many it has still to give for the call under way.
Incoming ==
  /\ cpu # "fetch" => rxf = <<>>
  /\ cpu \notin Reading => told = 0
  /\ cpu \in {"read", "count"} => told = Got(job, pieces)
  /\ cpu = "fetch" =>
       /\ n <= Head(pieces).len
       /\ told = Got(job, pieces) + n + Len(rxf) + Held("push")
       /\ Follow(rxf, Got(job, pieces) + n)
       /\ sm = "reader" =>
            \/ txf = <<>> /\ told = Got(job, pieces) + Head(pieces).len
            \/ txf = <<Head(pieces).len - 1>> /\ told = Got(job, pieces)
       /\ sm # "reader" => txf = <<>>
       /\ sm = "bits" => told + x + 1 = Got(job, pieces) + Head(pieces).len
       /\ sm \in {"push", "loop"} => told + x = Got(job, pieces) + Head(pieces).len
  /\ sm = "push" => osr = told
  /\ cpu \in Reading => buf = Filled(job, Got(job, pieces) + n)

IndInv == Types /\ Selected /\ Phases /\ Outgoing /\ Incoming

\* What each side waits for: the processor for room, for the end of the last
\* octet or for an answer, the state machine for an octet or for room.
CpuWaits ==
  \/ cpu = "fill" /\ (n < job.tx => Len(txf) = Depth) /\ (n = job.tx => txf # <<>>)
  \/ cpu = "settle" /\ sm # "writer"
  \/ cpu = "fetch" /\ n < Head(pieces).len /\ rxf = <<>>
SmWaits ==
  \/ sm \in {"writer", "reader"} /\ txf = <<>>
  \/ sm = "push" /\ Len(rxf) = Depth

\* The two sides never wait for each other: no loop of cyw43_spi_transfer spins
\* on a FIFO that the state machine cannot move.
NoMutualWait == ~(CpuWaits /\ SmWaits)

\* How many steps are left in a transfer: of the processor between its loops, of
\* both sides for each octet out and for each octet in.
PhasesLeft ==
  CASE cpu = "clear" -> 8 [] cpu = "writer" -> 7 [] cpu = "drive" -> 6 [] cpu = "fill" -> 5
    [] cpu = "settle" -> 4 [] cpu = "release" -> 3 [] cpu = "park" -> 2
    [] OTHER -> 1
CallsLeft ==
  CASE cpu = "count" -> 4 * Len(pieces) - 1
    [] cpu = "fetch" -> 4 * Len(pieces) - 3 + Len(txf)
    [] OTHER -> 4 * Len(pieces)
PutsLeft ==
  CASE cpu \in Preparing -> 3 * job.tx
    [] cpu = "fill" -> 3 * (job.tx - n) + 2 * Len(txf) + Held("shift")
    [] OTHER -> Held("shift")
OctetsLeft == 4 * (job.rx - told) + 3 * Held("push") + Len(rxf)
StepsLeft ==
  (IF cpu = "idle" THEN 0 ELSE PhasesLeft + CallsLeft + PutsLeft + OctetsLeft) + Held("loop")

\* Every step of either side brings the end of the transfer nearer: none of the
\* waits can go round for ever, however long the answer and deep the FIFOs.
EveryStepCounts ==
  [][CpuStep \/ SmStep => StepsLeft' \in Nat /\ StepsLeft' < StepsLeft]_vars

\* A transfer returns: neither side waits for the other forever.
TransferReturns == (cpu = "clear") ~> (cpu = "idle")
=============================================================================

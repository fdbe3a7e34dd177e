--------------------------- MODULE PioTransferProofs ---------------------------
(***************************************************************************)
(* Proofs about one PicoWi transfer, for FIFOs of every depth and for all  *)
(* transfers the bus can ask for.                                          *)
(***************************************************************************)
EXTENDS PioTransfer, SequenceTheorems, TLAPS

(* The calls of pio_spi_read *)

\* A transfer, or none, has a length each way; an answer is reordered in pairs
\* of words.
LEMMA Lengths ==
  ASSUME NEW j \in Jobs \cup {NoJob}
  PROVE  /\ j.tx \in Nat /\ j.tx > 0 /\ j.rx \in Nat
         /\ j.rx > 0 => j.rx >= 8
         /\ j.reorder => j.rx % 8 = 0
<1>1. CASE j \in Jobs
  BY <1>1, JobAssumption DEF JobAssumption
<1>2. CASE j = NoJob
  <2>1. NoJob.tx = 1 /\ NoJob.rx = 0 /\ ~NoJob.reorder
    BY DEF NoJob
  <2> QED
    BY <1>2, <2>1
<1> QED
  BY <1>1, <1>2

\* An answer is fetched a word at a time while PicoWi reorders, else at once.
LEMMA Calls ==
  ASSUME NEW j \in Jobs \cup {NoJob}
  PROVE  /\ Pieces(j) \in Seq([at : Nat, len : Nat])
         /\ j.rx = 0 => Pieces(j) = <<>>
         /\ j.rx > 0 /\ ~j.reorder => /\ Len(Pieces(j)) = 1
                                      /\ Pieces(j)[1] = [at |-> 4, len |-> j.rx]
         /\ j.reorder =>
              /\ 4 * Len(Pieces(j)) = j.rx
              /\ \A k \in 1..Len(Pieces(j)) :
                   Pieces(j)[k] = [at |-> IF k % 2 = 1 THEN 4 * k ELSE 4 * (k - 2), len |-> 4]
<1>1. j.rx \in Nat /\ (j.rx > 0 => j.rx >= 8) /\ (j.reorder => j.rx % 8 = 0)
  BY Lengths
<1>2. CASE j.rx = 0
  <2>1. Pieces(j) = <<>>
    BY <1>2 DEF Pieces
  <2> QED
    BY <1>2, <2>1
<1>3. CASE j.rx > 0 /\ ~j.reorder
  <2>1. Pieces(j) = <<[at |-> 4, len |-> j.rx]>>
    BY <1>1, <1>3 DEF Pieces
  <2> QED
    BY <1>1, <1>3, <2>1
<1>4. CASE j.rx > 0 /\ j.reorder
  <2> DEFINE m == 2 * ((j.rx + 7) \div 8)
             piece(k) == [at |-> IF k % 2 = 1 THEN 4 * k ELSE 4 * (k - 2), len |-> 4]
  <2>1. m \in Nat /\ 4 * m = j.rx
    <3>1. j.rx % 8 = 0
      BY <1>1, <1>4
    <3> QED
      BY <1>1, <3>1
  <2>2. Pieces(j) = [k \in 1..m |-> piece(k)]
    BY <1>4 DEF Pieces
  <2>3. \A k \in 1..m : piece(k) \in [at : Nat, len : Nat]
    <3> SUFFICES ASSUME NEW k \in 1..m
                 PROVE  (IF k % 2 = 1 THEN 4 * k ELSE 4 * (k - 2)) \in Nat
      OBVIOUS
    <3>1. CASE k % 2 = 1
      BY <2>1, <3>1
    <3>2. CASE k % 2 # 1
      <4>1. k >= 2
        BY <2>1, <3>2
      <4> QED
        BY <2>1, <3>2, <4>1
    <3> QED
      BY <3>1, <3>2
  <2> HIDE DEF m, piece
  <2>4. Pieces(j) \in Seq([at : Nat, len : Nat]) /\ Len(Pieces(j)) = m
    BY <2>1, <2>2, <2>3
  <2>5. \A k \in 1..Len(Pieces(j)) : Pieces(j)[k] = piece(k)
    BY <2>2, <2>4
  <2> QED
    BY <1>4, <2>1, <2>4, <2>5 DEF piece
<1>5. j.rx = 0 \/ j.rx > 0
  BY <1>1
<1> QED
  BY <1>2, <1>3, <1>4, <1>5, Zenon

\* A place is an octet of the first or the second word of a pair.
LEMMA Halves ==
  ASSUME NEW p \in Nat
  PROVE  \E h \in Nat, o \in 0..1, r \in 0..3 :
           p = 4 * (2 * h + o) + r /\ (p \div 4) % 2 = o
<1> DEFINE q == p \div 4
           r == p % 4
           h == q \div 2
           o == q % 2
<1>1. p = 4 * (p \div 4) + (p % 4)
  OBVIOUS
<1>2. q \in Nat /\ r \in 0..3
  OBVIOUS
<1>3. p = 4 * q + r
  BY <1>1
<1> HIDE DEF q, r
<1>4. q = 2 * (q \div 2) + (q % 2)
  BY <1>2
<1>5. h \in Nat /\ o \in 0..1
  BY <1>2
<1>6. q = 2 * h + o /\ q % 2 = o
  BY <1>4
<1> HIDE DEF h, o
<1>7. p = 4 * (2 * h + o) + r
  BY <1>3, <1>6
<1> QED
  BY <1>2, <1>5, <1>6, <1>7 DEF q

\* The number of octet i of word o of pair m, and the same place of the other word.
OctetOf(m, o, i) == 8 * m + 4 * o + i + 1
PlaceOf(m, o, i) == 8 * m + 4 * (1 - o) + i

\* While PicoWi reorders, the octets of word o of pair m land in its other word.
LEMMA Pairs ==
  \A j : j.reorder =>
    \A m \in Nat, o \in 0..1, i \in 0..3, p \in Nat :
      Lands(j, p) = OctetOf(m, o, i) <=> p = PlaceOf(m, o, i)
<1> USE DEF OctetOf, PlaceOf
<1> TAKE j
<1> HAVE j.reorder
<1> TAKE m \in Nat, o \in 0..1, i \in 0..3, p \in Nat
<1>1. PICK h \in Nat, w \in 0..1, r \in 0..3 :
        p = 4 * (2 * h + w) + r /\ (p \div 4) % 2 = w
  BY Halves
<1>2. Lands(j, p) = IF w = 0 THEN p + 5 ELSE p - 3
  BY <1>1 DEF Lands
<1>3. Lands(j, p) = 8 * h + 4 * (1 - w) + r + 1
  <2>1. CASE w = 0
    BY <1>1, <1>2, <2>1
  <2>2. CASE w = 1
    BY <1>1, <1>2, <2>2
  <2> QED
    BY <2>1, <2>2
<1>4. p = 8 * h + 4 * w + r
  BY <1>1
<1>5. CASE h = m
  BY <1>3, <1>4, <1>5
<1>6. CASE h < m
  <2>1. 8 * h + 8 <= 8 * m
    BY <1>6
  <2> QED
    BY <1>3, <1>4, <2>1
<1>7. CASE h > m
  <2>1. 8 * m + 8 <= 8 * h
    BY <1>7
  <2> QED
    BY <1>3, <1>4, <2>1
<1> QED
  BY <1>5, <1>6, <1>7

\* The next call continues where the ones before it ended, and puts each octet
\* at the place that is its own.
LEMMA NextCall ==
  ASSUME NEW j \in Jobs \cup {NoJob}, NEW left \in Seq([at : Nat, len : Nat]),
         Remain(j, left), left # <<>>
  PROVE  /\ Head(left).at \in Nat /\ Head(left).len \in Nat /\ Head(left).len > 0
         /\ Got(j, left) \in Nat
         /\ Got(j, left) + Head(left).len <= j.rx
         /\ Got(j, Tail(left)) = Got(j, left) + Head(left).len
         /\ \A i \in 0..(Head(left).len - 1), p \in 0..(j.rx + 3) :
              Lands(j, p) = Got(j, left) + i + 1 <=> p = Head(left).at + i
         /\ \A i \in 0..(Head(left).len - 1) : Head(left).at + i \in 0..(j.rx + 3)
<1>1. j.rx \in Nat /\ (j.rx > 0 => j.rx >= 8) /\ (j.reorder => j.rx % 8 = 0)
  BY Lengths
<1> DEFINE k == Len(Pieces(j)) - Len(left) + 1
<1>2. Pieces(j) \in Seq([at : Nat, len : Nat])
  BY Calls
<1>3. /\ Head(left) = left[1] /\ Len(left) \in Nat /\ Len(left) > 0
      /\ Tail(left) \in Seq([at : Nat, len : Nat]) /\ Len(Tail(left)) = Len(left) - 1
  OBVIOUS
<1>4. k \in 1..Len(Pieces(j)) /\ Head(left) = Pieces(j)[k]
  BY <1>2, <1>3 DEF Remain
<1>5. j.rx > 0
  <2>1. j.rx = 0 => Pieces(j) = <<>>
    BY Calls
  <2>2. Pieces(j) # <<>>
    BY <1>4
  <2> QED
    BY <1>1, <2>1, <2>2
<1> DEFINE at == Head(left).at
           len == Head(left).len
           g == Got(j, left)
           next == Got(j, Tail(left))
<1>6. CASE ~j.reorder
  <2>1. Len(Pieces(j)) = 1 /\ Pieces(j)[1] = [at |-> 4, len |-> j.rx]
    BY <1>5, <1>6, Calls
  <2>2. at = 4 /\ len = j.rx /\ Len(left) = 1
    BY <1>3, <1>4, <2>1
  <2>3. Tail(left) = <<>>
    <3>1. Len(Tail(left)) = 0
      BY <1>3, <2>2
    <3> QED
      BY <1>3, <3>1, EmptySeq
  <2>4. g = 0 /\ next = j.rx
    BY <1>6, <2>3 DEF Got
  <2>5. \A p \in 0..(j.rx + 3) : Lands(j, p) = p - 3
    BY <1>6 DEF Lands
  <2> HIDE DEF at, len, g, next
  <2>6. at \in Nat /\ len \in Nat /\ len > 0 /\ g \in Nat /\ g + len <= j.rx /\ next = g + len
    BY <1>1, <1>5, <2>2, <2>4
  <2>7. ASSUME NEW i \in 0..(len - 1)
        PROVE  /\ at + i \in 0..(j.rx + 3)
               /\ \A p \in 0..(j.rx + 3) : Lands(j, p) = g + i + 1 <=> p = at + i
    <3>1. i \in Nat /\ i < j.rx /\ at + i = 4 + i /\ g + i + 1 = i + 1
      BY <1>1, <2>2, <2>4
    <3>2. at + i \in 0..(j.rx + 3)
      BY <1>1, <3>1
    <3>3. \A p \in 0..(j.rx + 3) : p - 3 = i + 1 <=> p = 4 + i
      BY <1>1, <3>1
    <3> QED
      BY <2>5, <3>1, <3>2, <3>3, Zenon
  <2> QED
    BY <2>6, <2>7 DEF at, len, g, next
<1>7. CASE j.reorder
  <2>1. \A m \in Nat, o \in 0..1, i \in 0..3, p \in Nat :
          Lands(j, p) = OctetOf(m, o, i) <=> p = PlaceOf(m, o, i)
    BY <1>7, Pairs, Zenon
  <2>2. /\ 4 * Len(Pieces(j)) = j.rx
        /\ Pieces(j)[k] = [at |-> IF k % 2 = 1 THEN 4 * k ELSE 4 * (k - 2), len |-> 4]
    BY <1>4, <1>7, Calls
  <2>3. len = 4 /\ at = IF k % 2 = 1 THEN 4 * k ELSE 4 * (k - 2)
    BY <1>4, <2>2
  <2>4. g = 4 * (k - 1) /\ next = 4 * k
    <3>1. g = 4 * (Len(Pieces(j)) - Len(left))
      BY <1>7 DEF Got
    <3>2. next = 4 * (Len(Pieces(j)) - Len(Tail(left)))
      BY <1>7 DEF Got
    <3> QED
      BY <1>2, <1>3, <3>1, <3>2
  <2>5. k \in Nat /\ k >= 1 /\ 4 * k <= j.rx
    <3>1. Len(Pieces(j)) \in Nat /\ 4 * Len(Pieces(j)) = j.rx
      BY <1>2, <2>2
    <3>2. k \in 1..Len(Pieces(j))
      BY <1>4
    <3> HIDE DEF k
    <3> QED
      BY <3>1, <3>2
  <2> HIDE DEF k, at, len, g, next
  <2>6. PICK m \in Nat, o \in 0..1 : k = 2 * m + o + 1
    <3>1. k - 1 = 2 * ((k - 1) \div 2) + ((k - 1) % 2)
      BY <2>5
    <3>2. (k - 1) \div 2 \in Nat /\ (k - 1) % 2 \in 0..1
      BY <2>5
    <3>3. k = 2 * ((k - 1) \div 2) + ((k - 1) % 2) + 1
      BY <2>5, <3>1, <3>2
    <3> QED
      BY <3>2, <3>3
  <2>7. j.rx \in Nat /\ \E e \in Nat : j.rx = 8 * e
    <3>1. j.rx = 8 * (j.rx \div 8) + (j.rx % 8)
      BY <1>1
    <3>2. j.rx \div 8 \in Nat /\ j.rx % 8 = 0
      BY <1>1, <1>7
    <3>3. j.rx = 8 * (j.rx \div 8)
      BY <3>1, <3>2
    <3> QED
      BY <1>1, <3>2, <3>3
  <2>8. g = 8 * m + 4 * o /\ at = 8 * m + 4 * (1 - o) /\ 8 * m + 8 <= j.rx
    <3>1. CASE o = 0
      <4>1. k % 2 = 1
        BY <2>6, <3>1
      <4> QED
        BY <2>3, <2>4, <2>5, <2>6, <2>7, <3>1, <4>1
    <3>2. CASE o = 1
      <4>1. k % 2 = 0
        BY <2>6, <3>2
      <4> QED
        BY <2>3, <2>4, <2>5, <2>6, <3>2, <4>1
    <3> QED
      BY <3>1, <3>2
  <2>9. at \in Nat /\ len \in Nat /\ len > 0 /\ g \in Nat /\ g + len <= j.rx /\ next = g + len
    BY <2>3, <2>4, <2>5, <2>7, <2>8
  <2>10. ASSUME NEW i \in 0..(len - 1)
        PROVE  at + i \in 0..(j.rx + 3)
    BY <2>3, <2>6, <2>7, <2>8
  <2>11. ASSUME NEW i \in 0..(len - 1), NEW p \in 0..(j.rx + 3)
         PROVE  Lands(j, p) = g + i + 1 <=> p = at + i
    <3>1. i \in 0..3 /\ p \in Nat
      BY <2>3, <2>7
    <3>2. Lands(j, p) = OctetOf(m, o, i) <=> p = PlaceOf(m, o, i)
      BY <2>1, <2>6, <3>1, Zenon
    <3>3. OctetOf(m, o, i) = g + i + 1 /\ PlaceOf(m, o, i) = at + i
      BY <2>8 DEF OctetOf, PlaceOf
    <3> QED
      BY <3>2, <3>3
  <2> QED
    BY <2>9, <2>10, <2>11 DEF at, len, g, next
<1> QED
  BY <1>6, <1>7

-----------------------------------------------------------------------------
(* The inductive invariant *)

\* The radio is selected exactly while a transfer is under way.
LEMMA SelectedInTransfer == Spec => []Selected
<1>1. Init => Selected
  BY Zenon DEF Init, Selected
<1>2. Selected /\ [Next]_vars => Selected'
  <2> SUFFICES ASSUME Selected, [Next]_vars
               PROVE  Selected'
    OBVIOUS
  <2>1. ASSUME NEW j \in Jobs, Select(j)
        PROVE  Selected'
    <3>1. cs' = FALSE
      BY <2>1 DEF Select
    <3>2. cpu' # "idle"
      BY <2>1 DEF Select, Goto
    <3> QED
      BY <3>1, <3>2, Zenon DEF Selected
  <2>2. CASE Deselect
    <3>1. cs' = TRUE
      BY <2>2 DEF Deselect
    <3>2. cpu' = "idle"
      BY <2>2 DEF Deselect, Goto
    <3> QED
      BY <3>1, <3>2, Zenon DEF Selected
  <2>3. CASE cs' = cs /\ (cpu' = "idle" <=> cpu = "idle")
    BY <2>3, Zenon DEF Selected
  <2>4. CASE CpuStep /\ ~Deselect
    <3>1. cs' = cs
      BY <2>4 DEF CpuStep, ClearFifos, JumpWriter, DrivePin, Fill, Drained, Settled,
                  ReleasePin, Park, JumpReader, PutCount, Fetch, Fetched, cpuVars
    <3>2. cpu' # "idle" /\ cpu # "idle"
      BY <2>4 DEF CpuStep, ClearFifos, JumpWriter, DrivePin, Fill, Drained, Settled,
                  ReleasePin, Park, JumpReader, PutCount, Fetch, Fetched, Goto
    <3> QED
      BY <2>3, <3>1, <3>2
  <2>5. CASE SmStep \/ UNCHANGED vars
    BY <2>3, <2>5 DEF SmStep, WriterPull, ShiftOut, ReaderPull, ShiftIn, Push, Loop,
                      cpuVars, vars
  <2> QED
    BY <2>1, <2>2, <2>4, <2>5 DEF Next
<1> QED
  BY <1>1, <1>2, PTL DEF Spec

\* Every octet is where the place of the two sides says.
Octets == Types /\ Phases /\ Outgoing /\ Incoming

\* The constants of a transfer and of the FIFOs are counts.
LEMMA Transfer ==
  Types => /\ job.tx \in Nat /\ job.rx \in Nat /\ job.tx > 0 /\ Depth \in Nat /\ Depth > 0
           /\ Pieces(job) \in Seq([at : Nat, len : Nat])
<1> SUFFICES ASSUME Types
             PROVE  /\ job.tx \in Nat /\ job.rx \in Nat /\ job.tx > 0
                    /\ Pieces(job) \in Seq([at : Nat, len : Nat])
  BY DepthAssumption DEF DepthAssumption
<1>1. job \in Jobs \cup {NoJob}
  BY DEF Types
<1>2. job.tx \in Nat /\ job.rx \in Nat /\ job.tx > 0
  BY <1>1, Lengths
<1>3. Pieces(job) \in Seq([at : Nat, len : Nat])
  BY <1>1, Calls
<1> QED
  BY <1>2, <1>3

\* Before the first call nothing has been fetched.
LEMMA NothingGot ==
  ASSUME NEW j \in Jobs \cup {NoJob}
  PROVE  Got(j, Pieces(j)) = 0
<1>1. Pieces(j) \in Seq([at : Nat, len : Nat]) /\ (j.rx = 0 => Pieces(j) = <<>>)
  BY Calls
<1>2. j.rx \in Nat
  BY Lengths
<1>3. CASE j.reorder
  BY <1>1, <1>3 DEF Got
<1>4. CASE ~j.reorder /\ Pieces(j) = <<>>
  <2>1. j.rx > 0 /\ ~j.reorder => Len(Pieces(j)) = 1
    BY Calls
  <2>2. j.rx = 0
    BY <1>2, <1>4, <2>1
  <2> QED
    BY <1>4, <2>2 DEF Got
<1>5. CASE ~j.reorder /\ Pieces(j) # <<>>
  BY <1>5 DEF Got
<1> QED
  BY <1>3, <1>4, <1>5

\* The call under way, in terms of the state.
LEMMA Under ==
  ASSUME Types, Remain(job, pieces), pieces # <<>>
  PROVE  /\ Head(pieces).at \in Nat /\ Head(pieces).len \in Nat /\ Head(pieces).len > 0
         /\ Got(job, pieces) \in Nat
         /\ Got(job, pieces) + Head(pieces).len <= job.rx
         /\ Got(job, Tail(pieces)) = Got(job, pieces) + Head(pieces).len
         /\ \A i \in 0..(Head(pieces).len - 1), p \in 0..(job.rx + 3) :
              Lands(job, p) = Got(job, pieces) + i + 1 <=> p = Head(pieces).at + i
         /\ \A i \in 0..(Head(pieces).len - 1) : Head(pieces).at + i \in 0..(job.rx + 3)
<1>1. job \in Jobs \cup {NoJob} /\ pieces \in Seq([at : Nat, len : Nat])
  BY DEF Types
<1> QED
  BY <1>1, NextCall

\* When a call returns those after it are left.
LEMMA Fewer ==
  ASSUME NEW j, Pieces(j) \in Seq([at : Nat, len : Nat]),
         NEW left \in Seq([at : Nat, len : Nat]), Remain(j, left), left # <<>>
  PROVE  Tail(left) \in Seq([at : Nat, len : Nat]) /\ Remain(j, Tail(left))
<1> DEFINE t == Tail(left)
<1>1. /\ t \in Seq([at : Nat, len : Nat]) /\ Len(t) = Len(left) - 1 /\ Len(left) \in Nat
      /\ \A k \in 1..Len(t) : t[k] = left[k + 1]
  OBVIOUS
<1> HIDE DEF t
<1>2. ASSUME NEW k \in 1..Len(t)
      PROVE  t[k] = Pieces(j)[Len(Pieces(j)) - Len(t) + k]
  <2>1. k + 1 \in 1..Len(left) /\ t[k] = left[k + 1]
    BY <1>1
  <2>2. left[k + 1] = Pieces(j)[Len(Pieces(j)) - Len(left) + (k + 1)]
    BY <2>1 DEF Remain
  <2>3. Len(Pieces(j)) - Len(left) + (k + 1) = Len(Pieces(j)) - Len(t) + k
    BY <1>1
  <2> QED
    BY <2>1, <2>2, <2>3
<1>3. Len(t) <= Len(Pieces(j))
  BY <1>1 DEF Remain
<1> QED
  BY <1>1, <1>2, <1>3 DEF Remain, t

\* The octet that is fetched next lands at its own place and nowhere else.
LEMMA Landed ==
  ASSUME Types, Remain(job, pieces), pieces # <<>>, n < Head(pieces).len
  PROVE  [Filled(job, Got(job, pieces) + n) EXCEPT
             ![Head(pieces).at + n] = Got(job, pieces) + n + 1]
           = Filled(job, Got(job, pieces) + n + 1)
<1> DEFINE g == Got(job, pieces)
           q == Head(pieces).at + n
           D == 0..(job.rx + 3)
<1>1. n \in Nat /\ job.rx \in Nat
  BY Transfer DEF Types
<1>2. n \in 0..(Head(pieces).len - 1) /\ g \in Nat
  BY <1>1, Under
<1>3. /\ q \in D
      /\ \A p \in D : Lands(job, p) = g + n + 1 <=> p = q
  BY <1>2, Under
<1>4. \A p \in D : Lands(job, p) \in Int
  BY <1>1 DEF Lands
<1> HIDE DEF g, q
<1>5. ASSUME NEW p \in D, p # q
      PROVE  Lands(job, p) \in 1..(g + n + 1) <=> Lands(job, p) \in 1..(g + n)
  BY <1>1, <1>2, <1>3, <1>4, <1>5
<1>6. Lands(job, q) = g + n + 1 /\ g + n + 1 \in 1..(g + n + 1)
  BY <1>1, <1>2, <1>3
<1> DEFINE f(k) == [p \in D |-> IF Lands(job, p) \in 1..k THEN Lands(job, p) ELSE Noise]
<1>7. [f(g + n) EXCEPT ![q] = g + n + 1] = f(g + n + 1)
  BY <1>3, <1>5, <1>6
<1> QED
  BY <1>7 DEF Filled, g, q

\* Putting the next octet into a FIFO keeps the octets in their order ...
LEMMA PutLast ==
  ASSUME NEW s \in Seq(Nat), NEW b \in Nat, Follow(s, b)
  PROVE  /\ Append(s, b + Len(s) + 1) \in Seq(Nat)
         /\ Len(Append(s, b + Len(s) + 1)) = Len(s) + 1
         /\ Follow(Append(s, b + Len(s) + 1), b)
<1> DEFINE e == b + Len(s) + 1
<1>1. e \in Nat
  OBVIOUS
<1> HIDE DEF e
<1>2. /\ Append(s, e) \in Seq(Nat) /\ Len(Append(s, e)) = Len(s) + 1
      /\ \A i \in 1..Len(s) : Append(s, e)[i] = s[i]
      /\ Append(s, e)[Len(s) + 1] = e
  BY <1>1
<1>3. \A i \in 1..(Len(s) + 1) : i \in 1..Len(s) \/ i = Len(s) + 1
  OBVIOUS
<1>4. \A i \in 1..Len(Append(s, e)) : Append(s, e)[i] = b + i
  BY <1>2, <1>3 DEF Follow, e
<1> QED
  BY <1>2, <1>4 DEF Follow, e

\* ... and taking the first one out of it gives the next one.
LEMMA TakeFirst ==
  ASSUME NEW s \in Seq(Nat), NEW b \in Nat, Follow(s, b), s # <<>>
  PROVE  /\ Head(s) = b + 1
         /\ Tail(s) \in Seq(Nat) /\ Len(Tail(s)) = Len(s) - 1
         /\ Follow(Tail(s), b + 1)
<1>1. /\ Head(s) = s[1] /\ 1 \in 1..Len(s) /\ Len(s) \in Nat
      /\ Tail(s) \in Seq(Nat) /\ Len(Tail(s)) = Len(s) - 1
      /\ \A i \in 1..Len(Tail(s)) : Tail(s)[i] = s[i + 1]
  OBVIOUS
<1>2. \A i \in 1..Len(Tail(s)) : i + 1 \in 1..Len(s)
  BY <1>1
<1>3. \A i \in 1..Len(Tail(s)) : Tail(s)[i] = (b + 1) + i
  BY <1>1, <1>2 DEF Follow
<1> QED
  BY <1>1, <1>3 DEF Follow

\* Each step of cyw43_spi_transfer leaves every octet where it says ...
LEMMA CpuKeepsOctets == Octets /\ CpuStep => Octets'
<1> SUFFICES ASSUME Octets, CpuStep
             PROVE  Octets'
  OBVIOUS
<1> USE DEF Octets, Goto, AtRest, Held, Reading, Preparing, Noise, cpuVars, smVars, wireVars
<1> DEFINE g == Got(job, pieces)
           at == Head(pieces).at
           len == Head(pieces).len
<1>1. /\ job.tx \in Nat /\ job.rx \in Nat /\ job.tx > 0 /\ Depth \in Nat /\ Depth > 0
      /\ Pieces(job) \in Seq([at : Nat, len : Nat])
  BY Transfer
<1>2. CASE ClearFifos
  BY <1>1, <1>2 DEF ClearFifos, Types, Phases, Outgoing, Incoming
<1>3. CASE JumpWriter
  BY <1>1, <1>3 DEF JumpWriter, JumpTo, Types, Phases, Outgoing, Incoming
<1>4. CASE DrivePin
  BY <1>1, <1>4 DEF DrivePin, Types, Phases, Outgoing, Incoming
<1>5. CASE Fill
  <2>1. /\ cpu = "fill" /\ n < job.tx /\ n' = n + 1
        /\ txf' = Append(txf, n + 1) /\ Len(txf) < Depth
        /\ UNCHANGED <<cpu, job, pieces, sm, osr, x, rxf, dir, heard, told>>
    BY <1>5 DEF Fill
  <2>2. txf \in Seq(Nat) /\ n \in Nat /\ heard \in Seq(Nat) /\ txf' \in Seq(Nat)
        /\ Len(txf') = Len(txf) + 1
    BY <1>1, <2>1 DEF Types
  <2>3. Types'
    BY <1>1, <2>1, <2>2 DEF Types
  <2>4. Phases'
    BY <2>1 DEF Phases
  <2>5. Outgoing'
    <3> DEFINE h == Len(heard) + Held("shift")
    <3>1. h \in Nat /\ n = h + Len(txf) /\ h' = h
      BY <2>1, <2>2 DEF Outgoing
    <3>2. Follow(txf, h)
      BY <2>1 DEF Outgoing
    <3> HIDE DEF h
    <3>3. Follow(txf', h)
      BY <2>1, <2>2, <3>1, <3>2, PutLast
    <3>4. n' = h + Len(txf') /\ n' <= job.tx
      BY <1>1, <2>1, <2>2, <3>1
    <3> QED
      BY <2>1, <3>1, <3>3, <3>4 DEF Outgoing, h
  <2>6. Incoming'
    BY <2>1 DEF Phases, Incoming
  <2> QED
    BY <2>3, <2>4, <2>5, <2>6
<1>6. CASE Drained
  BY <1>1, <1>6 DEF Drained, Types, Phases, Outgoing, Incoming
<1>7. CASE Settled
  BY <1>1, <1>7 DEF Settled, Types, Phases, Outgoing, Incoming
<1>8. CASE ReleasePin
  BY <1>1, <1>8 DEF ReleasePin, Types, Phases, Outgoing, Incoming
<1>9. CASE Park
  <2>1. /\ cpu = "park" /\ cpu' = "read" /\ sm' = "writer"
        /\ buf' = [p \in 0..(job.rx + 3) |-> Noise]
        /\ UNCHANGED <<job, n, pieces, osr, x, txf, rxf, dir, heard, told>>
    BY <1>9 DEF Park, JumpTo
  <2>2. Types'
    BY <2>1 DEF Types
  <2>3. Phases'
    BY <2>1 DEF Phases
  <2>4. Outgoing'
    BY <2>1 DEF Phases, Outgoing
  <2>5. Incoming'
    <3>1. n = 0 /\ told = 0 /\ rxf = <<>> /\ pieces = Pieces(job)
      BY <2>1 DEF Phases, Incoming
    <3>2. Got(job, pieces) = 0
      BY <1>1, <3>1, NothingGot DEF Types
    <3>3. buf' = Filled(job, 0)
      BY <2>1 DEF Filled
    <3> QED
      BY <2>1, <3>1, <3>2, <3>3 DEF Incoming
  <2> QED
    BY <2>2, <2>3, <2>4, <2>5
<1>10. CASE JumpReader
  BY <1>1, <1>10 DEF JumpReader, JumpTo, Types, Phases, Outgoing, Incoming
<1>11. CASE PutCount
  <2>1. /\ cpu = "count" /\ cpu' = "fetch" /\ txf' = Append(txf, Head(pieces).len - 1)
        /\ UNCHANGED <<job, n, pieces, buf, sm, osr, x, rxf, dir, heard, told>>
    BY <1>11 DEF PutCount
  <2>2. txf = <<>> /\ rxf = <<>> /\ n = 0 /\ sm = "reader" /\ told = g
        /\ pieces # <<>> /\ Remain(job, pieces)
        /\ buf = Filled(job, g + n)
    BY <2>1 DEF Phases, Outgoing, Incoming
  <2>3. len \in Nat /\ len > 0 /\ g \in Nat
    BY <2>2, Under
  <2>4. txf' = <<len - 1>> /\ len - 1 \in Nat
    BY <2>1, <2>2, <2>3
  <2> HIDE DEF len, g
  <2>5. Types'
    <3>1. txf' \in Seq(Nat) /\ Len(txf') = 1
      BY <2>4
    <3> QED
      BY <1>1, <2>1, <3>1 DEF Types
  <2>6. Phases'
    BY <2>1, <2>2 DEF Phases
  <2>7. Outgoing'
    BY <2>1 DEF Phases, Outgoing
  <2>8. Incoming'
    <3>1. n' <= len' /\ told' = g' + n' + Len(rxf') + Held("push")'
      BY <2>1, <2>2, <2>3 DEF g, len
    <3>2. Follow(rxf', g' + n')
      BY <2>1, <2>2 DEF Follow
    <3>3. txf' = <<len' - 1>> /\ told' = g'
      BY <2>1, <2>2, <2>4 DEF g, len
    <3>4. buf' = Filled(job', g' + n')
      BY <2>1, <2>2 DEF g
    <3> QED
      BY <2>1, <2>2, <3>1, <3>2, <3>3, <3>4 DEF Incoming, g, len
  <2> QED
    BY <2>5, <2>6, <2>7, <2>8
<1>12. CASE Fetch
  <2>1. /\ cpu = "fetch" /\ n < len /\ rxf # <<>> /\ n' = n + 1
        /\ buf' = [buf EXCEPT ![at + n] = Head(rxf)] /\ rxf' = Tail(rxf)
        /\ UNCHANGED <<cpu, job, pieces, sm, osr, x, txf, dir, heard, told>>
    BY <1>12 DEF Fetch
  <2>2. /\ pieces # <<>> /\ Remain(job, pieces) /\ buf = Filled(job, g + n)
        /\ told = g + n + Len(rxf) + Held("push") /\ Follow(rxf, g + n)
    BY <2>1 DEF Phases, Incoming
  <2>3. len \in Nat /\ g \in Nat /\ g + len <= job.rx /\ n \in Nat /\ rxf \in Seq(Nat)
    BY <1>1, <2>2, Under DEF Types
  <2>4. Head(rxf) = g + n + 1 /\ Follow(Tail(rxf), g + n + 1)
        /\ Tail(rxf) \in Seq(Nat) /\ Len(Tail(rxf)) = Len(rxf) - 1
    BY <2>1, <2>2, <2>3, TakeFirst
  <2>5. buf' = Filled(job, g + n + 1)
    BY <2>1, <2>2, <2>3, <2>4, Landed
  <2> HIDE DEF len, g, at
  <2>6. Types'
    <3>1. n' \in Nat /\ n' <= job.rx
      BY <1>1, <2>1, <2>3
    <3>2. n' \in 0..(job.tx + job.rx)
      BY <1>1, <3>1
    <3>3. Len(rxf) \in Nat /\ Len(rxf) <= Depth
      BY <2>3 DEF Types
    <3>4. Len(rxf') <= Depth
      BY <1>1, <2>1, <2>4, <3>3
    <3> QED
      BY <2>1, <2>4, <3>2, <3>4 DEF Types
  <2>7. Phases'
    BY <2>1 DEF Phases
  <2>8. Outgoing'
    BY <2>1 DEF Phases, Outgoing
  <2>9. Incoming'
    <3>1. g + n' = g + n + 1
      BY <2>1, <2>3
    <3>2. n' <= len /\ told' = g + n' + Len(rxf') + Held("push")
      BY <2>1, <2>2, <2>3, <2>4
    <3>3. Follow(rxf', g + n') /\ buf' = Filled(job, g + n')
      BY <2>1, <2>4, <2>5, <3>1
    <3> QED
      BY <2>1, <3>2, <3>3 DEF Incoming, g, len
  <2> QED
    BY <2>6, <2>7, <2>8, <2>9
<1>13. CASE Fetched
  <2>1. /\ cpu = "fetch" /\ cpu' = "read" /\ n = len /\ n' = 0 /\ pieces' = Tail(pieces)
        /\ UNCHANGED <<job, buf, sm, osr, x, txf, rxf, dir, heard, told>>
    BY <1>13 DEF Fetched
  <2>2. /\ pieces # <<>> /\ Remain(job, pieces) /\ buf = Filled(job, g + n)
        /\ told = g + n + Len(rxf) + Held("push")
        /\ sm \in {"reader", "bits", "push", "loop"}
        /\ sm = "reader" => (txf = <<>> /\ told = g + len) \/ told = g
        /\ sm # "reader" => txf = <<>>
        /\ sm = "bits" => told + x + 1 = g + len
        /\ sm \in {"push", "loop"} => told + x = g + len
        /\ dir = "in" /\ Len(heard) = job.tx
    BY <2>1 DEF Phases, Outgoing, Incoming
  <2>3. len \in Nat /\ len > 0 /\ g \in Nat /\ rxf \in Seq(Nat) /\ x \in Nat /\ told \in Nat
    BY <2>2, Under DEF Types
  <2>4. Got(job, Tail(pieces)) = g + len
    BY <2>2, Under
  <2> HIDE DEF len, g, at
  <2>5. Len(rxf) = 0 /\ told = g + len /\ txf = <<>>
        /\ (sm = "reader" \/ (sm = "loop" /\ x = 0))
    BY <2>1, <2>2, <2>3
  <2>6. rxf = <<>>
    BY <2>3, <2>5, EmptySeq
  <2>7. Tail(pieces) \in Seq([at : Nat, len : Nat]) /\ Remain(job, Tail(pieces))
    BY <1>1, <2>2, Fewer DEF Types
  <2>8. Types'
    <3>1. job.tx \in Nat /\ job.rx \in Nat
      BY Transfer
    <3>2. n' \in 0..(job.tx + job.rx)
      BY <2>1, <3>1
    <3>3. pieces' \in Seq([at : Nat, len : Nat])
      BY <2>1, <2>7, Zenon
    <3> QED
      BY <2>1, <3>2, <3>3, Zenon DEF Types
  <2>9. Phases'
    BY <2>1, <2>2, <2>5, <2>7 DEF Phases
  <2>10. Outgoing'
    BY <2>1, <2>2, <2>5 DEF Outgoing
  <2>11. Incoming'
    <3>1. told' = Got(job', pieces') /\ buf' = Filled(job', Got(job', pieces') + n')
      BY <2>1, <2>2, <2>3, <2>4, <2>5
    <3> QED
      BY <2>1, <2>5, <2>6, <3>1 DEF Incoming
  <2> QED
    BY <2>8, <2>9, <2>10, <2>11
<1>14. CASE Deselect
  <2>1. /\ cpu = "read" /\ cpu' = "idle" /\ pieces = <<>> /\ job' = NoJob
        /\ heard' = <<>> /\ told' = 0
        /\ UNCHANGED <<n, pieces, sm, osr, x, txf, rxf, dir>>
    BY <1>14 DEF Deselect
  <2>2. n = 0 /\ txf = <<>> /\ rxf = <<>> /\ AtRest
    BY <2>1 DEF Phases, Outgoing, Incoming
  <2>3. NoJob.rx = 0 /\ NoJob.tx = 1
    BY DEF NoJob
  <2>4. Pieces(NoJob) = <<>>
    BY <2>3, Calls
  <2>5. Types'
    <3>1. heard' \in Seq(Nat) /\ told' \in Nat
      BY <2>1
    <3>2. job' \in Jobs \cup {NoJob} /\ n' \in 0..(job'.tx + job'.rx)
      BY <2>1, <2>2, <2>3
    <3> QED
      BY <2>1, <3>1, <3>2 DEF Types
  <2>6. Remain(NoJob, <<>>)
    BY <2>4 DEF Remain
  <2>7. Phases'
    BY <2>1, <2>2, <2>4, <2>6 DEF Phases
  <2>8. Outgoing'
    BY <2>1, <2>2 DEF Outgoing, Follow
  <2>9. Incoming'
    BY <2>1, <2>2 DEF Incoming
  <2> QED
    BY <2>5, <2>7, <2>8, <2>9
<1> QED
  BY <1>2, <1>3, <1>4, <1>5, <1>6, <1>7, <1>8, <1>9, <1>10, <1>11, <1>12, <1>13, <1>14 DEF CpuStep

\* ... and so does each step of the state machine.
LEMMA SmKeepsOctets == Octets /\ SmStep => Octets'
<1> SUFFICES ASSUME Octets, SmStep
             PROVE  Octets'
  OBVIOUS
<1> USE DEF Octets, Goto, AtRest, Held, Reading, Preparing, Noise, cpuVars, smVars, wireVars
<1> DEFINE g == Got(job, pieces)
           at == Head(pieces).at
           len == Head(pieces).len
<1>1. /\ job.tx \in Nat /\ job.rx \in Nat /\ job.tx > 0 /\ Depth \in Nat /\ Depth > 0
      /\ Pieces(job) \in Seq([at : Nat, len : Nat])
  BY Transfer
<1>2. CASE WriterPull
  <2>1. /\ sm = "writer" /\ txf # <<>> /\ sm' = "shift" /\ osr' = Head(txf) /\ txf' = Tail(txf)
        /\ UNCHANGED <<cpu, job, n, pieces, buf, x, rxf, dir, heard, told>>
    BY <1>2 DEF WriterPull
  <2>2. cpu = "fill"
    BY <2>1 DEF Phases, Outgoing
  <2>3. txf \in Seq(Nat) /\ heard \in Seq(Nat) /\ n = Len(heard) + Len(txf)
        /\ Follow(txf, Len(heard))
    BY <2>1, <2>2 DEF Types, Outgoing
  <2>4. Head(txf) = Len(heard) + 1 /\ Follow(Tail(txf), Len(heard) + 1)
        /\ Tail(txf) \in Seq(Nat) /\ Len(Tail(txf)) = Len(txf) - 1
    BY <2>1, <2>3, TakeFirst
  <2>5. Types'
    BY <1>1, <2>1, <2>3, <2>4 DEF Types
  <2>6. Phases'
    BY <2>1, <2>2 DEF Phases
  <2>7. Outgoing'
    BY <2>1, <2>2, <2>3, <2>4 DEF Outgoing
  <2>8. Incoming'
    BY <2>1, <2>2 DEF Phases, Incoming
  <2> QED
    BY <2>5, <2>6, <2>7, <2>8
<1>3. CASE ShiftOut
  <2>1. /\ sm = "shift" /\ sm' = "writer" /\ osr' = Noise
        /\ heard' = Append(heard, IF dir = "out" THEN osr ELSE Noise)
        /\ UNCHANGED <<cpu, job, n, pieces, buf, x, txf, rxf, dir, told>>
    BY <1>3 DEF ShiftOut
  <2>2. cpu \in {"fill", "settle"} /\ dir = "out" /\ osr = Len(heard) + 1
    BY <2>1 DEF Types, Phases, Outgoing
  <2>3. heard \in Seq(Nat) /\ txf \in Seq(Nat)
    BY DEF Types
  <2>4. heard' \in Seq(Nat) /\ Len(heard') = Len(heard) + 1 /\ Follow(heard', 0)
    <3>1. heard' = Append(heard, 0 + Len(heard) + 1)
      BY <2>1, <2>2, <2>3
    <3>2. Follow(heard, 0)
      BY DEF Outgoing
    <3> QED
      BY <2>3, <3>1, <3>2, PutLast
  <2>5. Types'
    BY <2>1, <2>4 DEF Types
  <2>6. Phases'
    BY <2>1, <2>2 DEF Phases
  <2>7. Outgoing'
    <3>1. Len(heard') = Len(heard) + Held("shift") /\ Held("shift")' = 0
      BY <2>1, <2>4
    <3> QED
      BY <2>1, <2>2, <2>3, <2>4, <3>1 DEF Outgoing
  <2>8. Incoming'
    BY <2>1, <2>2 DEF Incoming
  <2> QED
    BY <2>5, <2>6, <2>7, <2>8
<1>4. CASE ReaderPull
  <2>1. /\ sm = "reader" /\ txf # <<>> /\ sm' = "bits" /\ x' = Head(txf) /\ txf' = Tail(txf)
        /\ UNCHANGED <<cpu, job, n, pieces, buf, osr, rxf, dir, heard, told>>
    BY <1>4 DEF ReaderPull
  <2>2. cpu = "fetch"
    BY <2>1 DEF Phases, Outgoing
  <2>3. /\ pieces # <<>> /\ Remain(job, pieces) /\ txf = <<len - 1>> /\ told = g
        /\ n <= len /\ told = g + n + Len(rxf) + Held("push") /\ Follow(rxf, g + n)
        /\ buf = Filled(job, g + n)
    BY <2>1, <2>2 DEF Phases, Incoming
  <2>4. len \in Nat /\ len > 0 /\ g \in Nat
    BY <2>3, Under
  <2> HIDE DEF len, g
  <2>5. x' = len - 1 /\ txf' = <<>> /\ x' \in Nat
    BY <2>1, <2>3, <2>4
  <2>6. Types'
    BY <1>1, <2>1, <2>5 DEF Types
  <2>7. Phases'
    BY <2>1, <2>2 DEF Phases
  <2>8. Outgoing'
    BY <2>1, <2>2 DEF Phases, Outgoing
  <2>9. Incoming'
    <3>1. told' + x' + 1 = g + len
      BY <2>1, <2>3, <2>4, <2>5
    <3> QED
      BY <2>1, <2>2, <2>3, <2>5, <3>1 DEF Incoming, g, len
  <2> QED
    BY <2>6, <2>7, <2>8, <2>9
<1>5. CASE ShiftIn
  <2>1. /\ sm = "bits" /\ sm' = "push" /\ told' = told + 1
        /\ osr' = IF dir = "in" /\ Len(heard) = job.tx THEN told' ELSE Noise
        /\ UNCHANGED <<cpu, job, n, pieces, buf, x, txf, rxf, dir, heard>>
    BY <1>5 DEF ShiftIn
  <2>2. cpu = "fetch"
    BY <2>1 DEF Types, Phases
  <2>3. pieces # <<>> /\ Remain(job, pieces) /\ dir = "in" /\ Len(heard) = job.tx
    BY <2>2 DEF Phases, Outgoing
  <2>4. len \in Nat /\ g \in Nat /\ told \in Nat /\ x \in Nat /\ n \in Nat /\ rxf \in Seq(Nat)
    BY <2>3, <1>1, Under DEF Types
  <2>5. /\ n <= len /\ told = g + n + Len(rxf) + Held("push") /\ Follow(rxf, g + n)
        /\ txf = <<>> /\ told + x + 1 = g + len /\ buf = Filled(job, g + n)
    BY <2>1, <2>2 DEF Incoming
  <2> HIDE DEF len, g
  <2>6. told = g + n + Len(rxf)
    BY <2>1, <2>4, <2>5
  <2>7. Types'
    BY <2>1, <2>4 DEF Types
  <2>8. Phases'
    BY <2>1, <2>2 DEF Phases
  <2>9. Outgoing'
    BY <2>1, <2>2 DEF Phases, Outgoing
  <2>10. Incoming'
    <3>1. told' = g + n + Len(rxf) + 1 /\ told' + x = g + len
      BY <2>1, <2>4, <2>5, <2>6
    <3>2. osr' = told'
      BY <2>1, <2>3
    <3> QED
      BY <2>1, <2>2, <2>5, <3>1, <3>2 DEF Incoming, g, len
  <2> QED
    BY <2>7, <2>8, <2>9, <2>10
<1>6. CASE Push
  <2>1. /\ sm = "push" /\ Len(rxf) < Depth /\ sm' = "loop" /\ rxf' = Append(rxf, osr)
        /\ osr' = Noise
        /\ UNCHANGED <<cpu, job, n, pieces, buf, x, txf, dir, heard, told>>
    BY <1>6 DEF Push
  <2>2. cpu = "fetch"
    BY <2>1 DEF Types, Phases
  <2>3. /\ pieces # <<>> /\ Remain(job, pieces) /\ osr = told
        /\ n <= len /\ told = g + n + Len(rxf) + 1 /\ Follow(rxf, g + n)
        /\ txf = <<>> /\ told + x = g + len /\ buf = Filled(job, g + n)
    BY <2>1, <2>2 DEF Phases, Incoming
  <2>4. len \in Nat /\ g \in Nat /\ told \in Nat /\ x \in Nat /\ n \in Nat /\ rxf \in Seq(Nat)
    BY <2>3, <1>1, Under DEF Types
  <2> HIDE DEF len, g
  <2>5. rxf' \in Seq(Nat) /\ Len(rxf') = Len(rxf) + 1 /\ Follow(rxf', g + n)
    <3>1. g + n \in Nat /\ rxf' = Append(rxf, (g + n) + Len(rxf) + 1)
      BY <2>1, <2>3, <2>4
    <3> QED
      BY <2>3, <2>4, <3>1, PutLast
  <2>6. Types'
    BY <1>1, <2>1, <2>4, <2>5 DEF Types
  <2>7. Phases'
    BY <2>1, <2>2 DEF Phases
  <2>8. Outgoing'
    BY <2>1, <2>2 DEF Phases, Outgoing
  <2>9. Incoming'
    <3>1. told' = g + n + Len(rxf')
      BY <2>1, <2>3, <2>4, <2>5
    <3> QED
      BY <2>1, <2>2, <2>3, <2>5, <3>1 DEF Incoming, g, len
  <2> QED
    BY <2>6, <2>7, <2>8, <2>9
<1>7. CASE Loop
  <2>1. /\ sm = "loop"
        /\ IF x = 0 THEN sm' = "reader" /\ x' = x ELSE sm' = "bits" /\ x' = x - 1
        /\ UNCHANGED <<cpu, job, n, pieces, buf, osr, txf, rxf, dir, heard, told>>
    BY <1>7 DEF Loop
  <2>2. x \in Nat /\ x' \in Nat
    BY <2>1 DEF Types
  <2>3. Types'
    BY <2>1, <2>2 DEF Types
  <2>4. Phases'
    BY <2>1 DEF Phases
  <2>5. Outgoing'
    BY <2>1 DEF Phases, Outgoing
  <2>6. CASE cpu # "fetch"
    BY <2>1, <2>3, <2>4, <2>5, <2>6 DEF Phases, Incoming
  <2>7. CASE cpu = "fetch"
    <3>1. pieces # <<>> /\ Remain(job, pieces)
      BY <2>7 DEF Phases
    <3>2. /\ told + x = g + len /\ n <= len /\ told = g + n + Len(rxf) + Held("push")
          /\ Follow(rxf, g + n) /\ txf = <<>> /\ buf = Filled(job, g + n)
      BY <2>1, <2>7 DEF Incoming
    <3>3. len \in Nat /\ g \in Nat /\ told \in Nat /\ n \in Nat
      BY <1>1, <3>1, Under DEF Types
    <3> HIDE DEF len, g
    <3>4. sm' = "reader" => told' = g + len
      BY <2>1, <2>2, <3>2, <3>3
    <3>5. sm' = "bits" => told' + x' + 1 = g + len
      BY <2>1, <2>2, <3>2, <3>3
    <3>6. Incoming'
      BY <2>1, <2>7, <3>2, <3>4, <3>5 DEF Incoming, g, len
    <3> QED
      BY <2>3, <2>4, <2>5, <3>6
  <2> QED
    BY <2>6, <2>7
<1> QED
  BY <1>2, <1>3, <1>4, <1>5, <1>6, <1>7 DEF SmStep

\* Selecting the radio finds both FIFOs empty and the state machine at rest.
LEMMA SelectKeepsOctets ==
  ASSUME Octets, NEW j \in Jobs, Select(j)
  PROVE  Octets'
<1> USE DEF Octets, Goto, AtRest, Held, Reading, Preparing
<1>1. /\ cpu = "idle" /\ cpu' = "clear" /\ job' = j /\ pieces' = Pieces(j)
      /\ UNCHANGED <<n, buf, sm, osr, x, txf, rxf, dir, heard, told>>
  BY DEF Select, smVars, wireVars
<1>2. n = 0 /\ txf = <<>> /\ rxf = <<>> /\ AtRest /\ told = 0 /\ heard = <<>>
  BY <1>1 DEF Phases, Outgoing, Incoming
<1>3. j.tx \in Nat /\ j.rx \in Nat /\ Pieces(j) \in Seq([at : Nat, len : Nat])
  BY Lengths, Calls
<1>4. Types'
  <2>1. n' \in 0..(job'.tx + job'.rx)
    BY <1>1, <1>2, <1>3
  <2> QED
    BY <1>1, <1>3, <2>1 DEF Types
<1>5. Remain(j, Pieces(j))
  <2> DEFINE s == Pieces(j)
  <2>1. s \in Seq([at : Nat, len : Nat])
    BY <1>3
  <2>2. Len(s) \in Nat /\ \A k \in 1..Len(s) : Len(s) - Len(s) + k = k
    BY <2>1
  <2> QED
    BY <2>2 DEF Remain
<1>6. Phases'
  BY <1>1, <1>2, <1>5 DEF Phases
<1>7. Outgoing'
  BY <1>1, <1>2 DEF Outgoing, Follow
<1>8. Incoming'
  BY <1>1, <1>2 DEF Incoming
<1> QED
  BY <1>4, <1>6, <1>7, <1>8

\* At every step of either side each octet is where the place of the two sides
\* says: the conjuncts of the inductive invariant without chip select.
LEMMA OctetsAlways == Spec => []Octets
<1>1. Init => Octets
  <2> SUFFICES ASSUME Init
               PROVE  Octets
    OBVIOUS
  <2> USE DEF Init, AtRest, Held, Reading, Preparing, Noise
  <2>1. NoJob.rx = 0 /\ NoJob.tx = 1 /\ NoJob \in Jobs \cup {NoJob}
    BY DEF NoJob
  <2>2. Pieces(NoJob) = <<>>
    BY <2>1, Calls
  <2>3. Types
    BY <2>1, DepthAssumption DEF DepthAssumption, Types
  <2>4. Phases
    BY <2>2 DEF Phases, Remain
  <2>5. Outgoing
    BY DEF Outgoing, Follow
  <2>6. Incoming
    BY DEF Incoming
  <2> QED
    BY <2>3, <2>4, <2>5, <2>6 DEF Octets
<1>2. Octets /\ [Next]_vars => Octets'
  <2> SUFFICES ASSUME Octets, [Next]_vars
               PROVE  Octets'
    OBVIOUS
  <2>1. ASSUME NEW j \in Jobs, Select(j)
        PROVE  Octets'
    BY <2>1, SelectKeepsOctets
  <2>2. CASE CpuStep
    BY <2>2, CpuKeepsOctets
  <2>3. CASE SmStep
    BY <2>3, SmKeepsOctets
  <2>4. CASE UNCHANGED vars
    BY <2>4 DEF vars, cpuVars, smVars, wireVars, Octets, Types, Phases, Outgoing, Incoming,
                AtRest, Held
  <2> QED
    BY <2>1, <2>2, <2>3, <2>4 DEF Next
<1> QED
  BY <1>1, <1>2, PTL DEF Spec

\* The inductive invariant of a transfer (cyw43_spi_transfer and the state
\* machine of picowi_pio.pio): types, chip select, the place of the state machine
\* for each place of the processor, and where every octet out and in is.
THEOREM Inductive == Spec => []IndInv
<1>1. Selected /\ Octets => IndInv
  BY Zenon DEF IndInv, Octets
<1> QED
  BY <1>1, SelectedInTransfer, OctetsAlways, PTL

\* The pin has one driver: an octet is shifted out only while the pin is an
\* output and shifted in only while it is an input, the radio being selected,
\* and a transfer leaves nothing in the FIFOs.
THEOREM OneDriver == Spec => []PinOwned
<1>1. Selected /\ Octets => PinOwned
  <2> SUFFICES ASSUME Selected, Octets
               PROVE  PinOwned
    OBVIOUS
  <2>1. TypeOK
    BY Zenon DEF TypeOK, Selected, Octets
  <2>2. sm = "shift" => cpu \in {"fill", "settle"}
    BY DEF Octets, Types, Phases, AtRest
  <2>3. sm \in {"bits", "push"} => cpu = "fetch"
    BY DEF Octets, Types, Phases, AtRest
  <2>4. cpu # "idle" => ~cs
    BY Zenon DEF Selected
  <2>5. sm = "shift" => dir = "out" /\ ~cs
    <3>1. sm = "shift" => dir = "out" /\ cpu # "idle"
      BY <2>2 DEF Octets, Phases
    <3> QED
      BY <2>4, <3>1, Zenon
  <2>6. sm \in {"bits", "push"} => dir = "in" /\ ~cs
    <3>1. sm \in {"bits", "push"} => dir = "in" /\ cpu # "idle"
      BY <2>3 DEF Octets, Phases, Reading
    <3> QED
      BY <2>4, <3>1, Zenon
  <2>7. cs => txf = <<>> /\ rxf = <<>>
    <3>1. cpu = "idle" => txf = <<>> /\ rxf = <<>>
      BY DEF Octets, Outgoing, Incoming
    <3> QED
      BY <3>1, Zenon DEF Selected
  <2> QED
    BY <2>1, <2>5, <2>6, <2>7, Zenon DEF PinOwned
<1> QED
  BY <1>1, SelectedInTransfer, OctetsAlways, PTL

\* After the last call the whole answer has been fetched.
LEMMA AllGot ==
  ASSUME NEW j \in Jobs \cup {NoJob}
  PROVE  Got(j, <<>>) = j.rx
<1>1. Pieces(j) \in Seq([at : Nat, len : Nat]) /\ (j.reorder => 4 * Len(Pieces(j)) = j.rx)
  BY Calls
<1>2. CASE j.reorder
  <2>1. 4 * Len(Pieces(j)) = j.rx /\ Len(Pieces(j)) \in Nat
    BY <1>1, <1>2
  <2>2. Got(j, <<>>) = 4 * (Len(Pieces(j)) - 0)
    BY <1>2 DEF Got
  <2> QED
    BY <2>1, <2>2
<1>3. CASE ~j.reorder
  BY <1>3 DEF Got
<1> QED
  BY <1>2, <1>3

\* Where a caller looks an octet of the answer lands, three places behind its
\* number.
LEMMA LookedLands ==
  ASSUME NEW j \in Jobs \cup {NoJob}, j.rx > 0, NEW p \in Looked(j)
  PROVE  /\ p \in 0..(j.rx + 3)
         /\ Lands(j, p) = p - 3
         /\ p - 3 \in 1..j.rx
<1>1. j.rx \in Nat /\ j.rx >= 8
  BY Lengths
<1>2. CASE j.reorder
  <2>1. p \in (j.rx - 4)..(j.rx - 1)
    BY <1>2 DEF Looked
  <2>2. PICK e \in Nat : j.rx = 8 * e
    <3>1. j.rx = 8 * (j.rx \div 8) + (j.rx % 8)
      BY <1>1
    <3>2. j.rx \div 8 \in Nat /\ j.rx % 8 = 0
      BY <1>1, <1>2, Lengths
    <3>3. j.rx = 8 * (j.rx \div 8)
      BY <3>1, <3>2
    <3> QED
      BY <3>2, <3>3
  <2>3. PICK i \in 0..3 : p = j.rx - 4 + i
    <3>1. p - (j.rx - 4) \in 0..3 /\ p = j.rx - 4 + (p - (j.rx - 4))
      BY <1>1, <2>1
    <3> QED
      BY <3>1
  <2>4. PICK m \in Nat : e = m + 1
    <3>1. e - 1 \in Nat /\ e = (e - 1) + 1
      BY <1>1, <2>2
    <3> QED
      BY <3>1
  <2>5. PICK o \in 0..1 : o = 0
    OBVIOUS
  <2>6. p = 8 * m + 4 * (1 - o) + i /\ p \in Nat
    <3>1. j.rx = 8 * m + 8
      BY <2>2, <2>4
    <3>2. p = 8 * m + 4 + i
      BY <2>3, <3>1
    <3> QED
      BY <2>5, <3>2
  <2>7. Lands(j, p) = 8 * m + 4 * o + i + 1
    <3>1. Lands(j, p) = OctetOf(m, o, i) <=> p = PlaceOf(m, o, i)
      <4>1. \A m1 \in Nat, o1 \in 0..1, i1 \in 0..3, p1 \in Nat :
              Lands(j, p1) = OctetOf(m1, o1, i1) <=> p1 = PlaceOf(m1, o1, i1)
        BY <1>2, Pairs, Zenon
      <4>2. m \in Nat /\ o \in 0..1 /\ i \in 0..3 /\ p \in Nat
        BY <2>6
      <4> QED
        BY <4>1, <4>2, Zenon
    <3> QED
      BY <2>6, <3>1 DEF OctetOf, PlaceOf
  <2> QED
    BY <1>1, <2>2, <2>3, <2>4, <2>5, <2>7
<1>3. CASE ~j.reorder
  <2>1. p \in 4..(j.rx - 1)
    BY <1>3 DEF Looked
  <2>2. Lands(j, p) = p - 3
    BY <1>3 DEF Lands
  <2> QED
    BY <1>1, <2>1, <2>2
<1> QED
  BY <1>2, <1>3

\* When cyw43_spi_transfer is about to return, the radio has taken the octets of
\* the command, each once and in their order, and the answer is, octet for
\* octet, where the caller looks: for FIFOs of every depth, answers of every
\* length, and with the words swapped in pairs or not.
THEOREM Exchange == Spec => []ExchangeWhole
<1>1. Octets => ExchangeWhole
  <2> SUFFICES ASSUME Octets, cpu = "read", pieces = <<>>
               PROVE  /\ heard = [i \in 1..job.tx |-> i]
                      /\ told = job.rx
                      /\ job.rx > 0 => \A p \in Looked(job) : buf[p] = p - 3
    BY DEF ExchangeWhole
  <2>1. job \in Jobs \cup {NoJob} /\ heard \in Seq(Nat) /\ job.rx \in Nat
    BY Transfer DEF Octets, Types
  <2>2. Got(job, pieces) = job.rx
    BY <2>1, AllGot
  <2>3. told = job.rx /\ n = 0 /\ buf = Filled(job, Got(job, pieces) + n)
    BY <2>2 DEF Octets, Phases, Incoming, Reading
  <2>4. buf = Filled(job, job.rx)
    BY <2>1, <2>2, <2>3
  <2>5. Len(heard) = job.tx /\ Follow(heard, 0)
    BY DEF Octets, Outgoing, Reading
  <2>6. heard = [i \in 1..job.tx |-> i]
    <3>1. heard = [i \in 1..Len(heard) |-> heard[i]]
      BY <2>1
    <3>2. \A i \in 1..Len(heard) : heard[i] = i
      BY <2>1, <2>5 DEF Follow
    <3> QED
      BY <2>5, <3>1, <3>2
  <2>7. ASSUME job.rx > 0, NEW p \in Looked(job)
        PROVE  buf[p] = p - 3
    <3>1. p \in 0..(job.rx + 3) /\ Lands(job, p) = p - 3 /\ p - 3 \in 1..job.rx
      BY <2>1, <2>7, LookedLands
    <3> QED
      BY <2>4, <3>1 DEF Filled
  <2> QED
    BY <2>3, <2>6, <2>7
<1> QED
  BY <1>1, OctetsAlways, PTL

-----------------------------------------------------------------------------
(* The transfer as BusTransfer takes it *)

\* BusTransfer in the PicoWi build, while the words of a pair are put the way
\* this transfer puts them.
Bus == INSTANCE BusTransfer WITH
         picowi <- TRUE, reorder <- job.reorder, mem <- <<>>, call <- <<>>, pc <- "idle",
         looks <- 0, said <- 0, tag <- 0, moved <- <<>>,
         Pad <- 4, Room <- 1, MaxLooks <- 1, Errors <- {}

\* Word w of the caller's buffer is the word of the answer that BusTransfer says
\* lands there, its octets in their order; what the answer does not reach is as
\* it was cleared.
WordsAsTaken ==
  cpu = "read" /\ pieces = <<>> /\ job.rx > 0 =>
    \A w \in 0..(job.rx \div 4), o \in 0..3 :
      buf[4 * w + o] = IF Bus!Lands(w) \in 1..(job.rx \div 4)
                         THEN 4 * (Bus!Lands(w) - 1) + o + 1
                         ELSE Noise

\* Octet o of word w is an octet of the word that lands at w.
LEMMA OctetOfWord ==
  ASSUME NEW w \in Nat, NEW o \in 0..3
  PROVE  Lands(job, 4 * w + o) = IF Bus!Lands(w) = 0 THEN o - 3
                                 ELSE 4 * (Bus!Lands(w) - 1) + o + 1
<1>1. (4 * w + o) \div 4 = w
  OBVIOUS
<1>2. CASE job.reorder /\ w % 2 = 0
  BY <1>1, <1>2 DEF Lands, Bus!Lands
<1>3. CASE ~(job.reorder /\ w % 2 = 0)
  BY <1>1, <1>3 DEF Lands, Bus!Lands
<1> QED
  BY <1>2, <1>3

\* The words of one PicoWi transfer (cyw43_spi_transfer over pio_spi_read) land
\* where BusTransfer, which takes the transfer for one step, puts them: before
\* the first block read and after it, for answers of every length.
THEOREM TransferAsTaken == Spec => []WordsAsTaken
<1>1. Octets => WordsAsTaken
  <2> SUFFICES ASSUME Octets, cpu = "read", pieces = <<>>, job.rx > 0,
                      NEW w \in 0..(job.rx \div 4), NEW o \in 0..3
               PROVE  buf[4 * w + o] = IF Bus!Lands(w) \in 1..(job.rx \div 4)
                                         THEN 4 * (Bus!Lands(w) - 1) + o + 1
                                         ELSE Noise
    BY DEF WordsAsTaken
  <2>1. job \in Jobs \cup {NoJob} /\ job.rx \in Nat
    BY Transfer DEF Octets, Types
  <2>2. Got(job, pieces) = job.rx
    BY <2>1, AllGot
  <2>3. n = 0 /\ buf = Filled(job, Got(job, pieces) + n)
    BY <2>2 DEF Octets, Phases, Incoming, Reading
  <2>4. buf = Filled(job, job.rx)
    BY <2>1, <2>2, <2>3
  <2>5. PICK k \in Nat : job.rx = 4 * k /\ job.rx \div 4 = k
    <3>1. job.rx % 4 = 0
      <4>1. CASE job \in Jobs
        BY <4>1, JobAssumption DEF JobAssumption
      <4>2. CASE job = NoJob
        BY <4>2 DEF NoJob
      <4> QED
        BY <2>1, <4>1, <4>2
    <3>2. job.rx \div 4 \in Nat /\ job.rx = 4 * (job.rx \div 4) + (job.rx % 4)
      BY <2>1
    <3>3. job.rx = 4 * (job.rx \div 4)
      BY <2>1, <3>1, <3>2
    <3> QED
      BY <3>2, <3>3
  <2>6. w \in Nat /\ 4 * w + o \in 0..(job.rx + 3)
    BY <2>5
  <2>7. Bus!Lands(w) \in Nat
    BY <2>6 DEF Bus!Lands
  <2>8. buf[4 * w + o] = IF Lands(job, 4 * w + o) \in 1..job.rx
                           THEN Lands(job, 4 * w + o) ELSE Noise
    BY <2>4, <2>6 DEF Filled
  <2>9. Lands(job, 4 * w + o) = IF Bus!Lands(w) = 0 THEN o - 3
                                ELSE 4 * (Bus!Lands(w) - 1) + o + 1
    BY <2>6, OctetOfWord
  <2>10. Lands(job, 4 * w + o) \in 1..job.rx <=> Bus!Lands(w) \in 1..k
    BY <2>5, <2>6, <2>7, <2>9
  <2>11. CASE Bus!Lands(w) \in 1..k
    BY <2>5, <2>7, <2>8, <2>9, <2>10, <2>11
  <2>12. CASE Bus!Lands(w) \notin 1..k
    BY <2>5, <2>8, <2>10, <2>12
  <2> QED
    BY <2>11, <2>12
<1> QED
  BY <1>1, OctetsAlways, PTL

-----------------------------------------------------------------------------
(* Neither side can hold up the other *)

\* Whatever loop the processor is in and wherever the state machine is, one of
\* the two can go on: a processor that finds the transmit FIFO full or the
\* receive FIFO empty does not wait for a state machine that waits for it.
THEOREM NoDeadlyWait == Spec => []NoMutualWait
<1>1. Octets => NoMutualWait
  <2> SUFFICES ASSUME Octets, CpuWaits, SmWaits
               PROVE  FALSE
    BY DEF NoMutualWait
  <2>1. /\ Depth \in Nat /\ Depth > 0 /\ n \in Nat /\ txf \in Seq(Nat) /\ rxf \in Seq(Nat)
        /\ job.tx \in Nat /\ told \in Nat
    BY Transfer DEF Octets, Types
  <2>2. CASE cpu = "fill"
    <3>1. sm = "writer" /\ txf = <<>>
      BY <2>2 DEF SmWaits, Octets, Phases
    <3>2. n <= job.tx
      BY <2>2 DEF Octets, Outgoing
    <3>3. Len(txf) # Depth
      BY <2>1, <3>1
    <3> QED
      BY <2>1, <2>2, <3>1, <3>2, <3>3 DEF CpuWaits
  <2>3. CASE cpu = "settle" /\ sm # "writer"
    BY <2>3 DEF SmWaits, Octets, Phases
  <2>4. CASE cpu = "fetch" /\ n < Head(pieces).len /\ rxf = <<>>
    <3>1. pieces # <<>> /\ Remain(job, pieces)
      BY <2>4 DEF Octets, Phases
    <3>2. Head(pieces).len \in Nat /\ Got(job, pieces) \in Nat
      BY <3>1, Under DEF Octets
    <3>3. Len(rxf) # Depth
      BY <2>1, <2>4
    <3>4. sm = "reader" /\ txf = <<>>
      BY <2>4, <3>3 DEF SmWaits, Octets, Phases
    <3>5. told = Got(job, pieces) + Head(pieces).len
      BY <2>4, <3>4 DEF Octets, Incoming
    <3>6. told = Got(job, pieces) + n + Len(rxf) + 0
      BY <2>4, <3>4 DEF Octets, Incoming, Held
    <3> QED
      BY <2>1, <2>4, <3>2, <3>5, <3>6
  <2> QED
    BY <2>2, <2>3, <2>4 DEF CpuWaits
<1> QED
  BY <1>1, OctetsAlways, PTL

\* What is left in a transfer is counted: nothing is put or fetched beyond what
\* was asked for.
Counted ==
  /\ PhasesLeft \in Nat /\ CallsLeft \in Nat /\ PutsLeft \in Nat /\ OctetsLeft \in Nat
  /\ StepsLeft \in Nat

LEMMA StepsCounted == Octets => Counted
<1> SUFFICES ASSUME Octets
             PROVE  Counted
  OBVIOUS
<1>1. /\ job.tx \in Nat /\ job.rx \in Nat /\ n \in Nat /\ told \in Nat /\ x \in Nat
      /\ Len(txf) \in Nat /\ Len(rxf) \in Nat /\ Len(pieces) \in Nat
      /\ job \in Jobs \cup {NoJob}
  BY Transfer DEF Octets, Types
<1>2. PhasesLeft \in Nat
  BY DEF PhasesLeft
<1>3. CallsLeft \in Nat
  <2>1. cpu \in {"count", "fetch"} => Len(pieces) > 0
    <3>1. cpu \in {"count", "fetch"} => pieces # <<>>
      BY DEF Octets, Phases
    <3>2. pieces \in Seq([at : Nat, len : Nat])
      BY DEF Octets, Types
    <3> QED
      BY <3>1, <3>2, EmptySeq
  <2> QED
    BY <1>1, <2>1 DEF CallsLeft
<1>4. PutsLeft \in Nat
  <2>1. cpu = "fill" => n <= job.tx
    BY DEF Octets, Outgoing
  <2>2. Held("shift") \in Nat
    BY DEF Held
  <2>3. CASE cpu \in Preparing
    BY <1>1, <2>3 DEF PutsLeft, Preparing
  <2>4. CASE cpu = "fill"
    <3>1. PutsLeft = 3 * (job.tx - n) + 2 * Len(txf) + Held("shift")
      BY <2>4 DEF PutsLeft, Preparing
    <3>2. PICK a \in Nat : a = job.tx - n
      BY <1>1, <2>1, <2>4
    <3>3. PICK b \in Nat : b = Len(txf)
      BY <1>1
    <3>4. PICK h \in Nat : h = Held("shift")
      BY <2>2
    <3>5. PutsLeft = 3 * a + 2 * b + h
      BY <3>1, <3>2, <3>3, <3>4
    <3> QED
      BY <3>5
  <2>5. CASE cpu \notin Preparing \cup {"fill"}
    <3>1. PutsLeft = Held("shift")
      BY <2>5 DEF PutsLeft
    <3> QED
      BY <2>2, <3>1
  <2> QED
    BY <2>3, <2>4, <2>5
<1>5. OctetsLeft \in Nat
  <2>1. told <= job.rx
    <3>1. CASE cpu \notin Reading
      BY <1>1, <3>1 DEF Octets, Incoming
    <3>2. CASE cpu \in Reading /\ pieces = <<>>
      <4>1. cpu = "read"
        BY <3>2 DEF Octets, Phases, Reading
      <4>2. told = Got(job, pieces) /\ Got(job, pieces) = job.rx
        BY <1>1, <3>2, <4>1, AllGot DEF Octets, Incoming
      <4> QED
        BY <1>1, <4>2
    <3>3. CASE cpu \in Reading /\ pieces # <<>>
      <4>1. Remain(job, pieces)
        BY DEF Octets, Phases
      <4>2. /\ Head(pieces).len \in Nat /\ Got(job, pieces) \in Nat
            /\ Got(job, pieces) + Head(pieces).len <= job.rx
        BY <3>3, <4>1, Under DEF Octets
      <4>3. cpu # "fetch" => told = Got(job, pieces)
        BY <3>3 DEF Octets, Incoming, Reading
      <4>4. cpu = "fetch" => \/ told = Got(job, pieces) + Head(pieces).len
                             \/ told = Got(job, pieces)
                             \/ told + x + 1 = Got(job, pieces) + Head(pieces).len
                             \/ told + x = Got(job, pieces) + Head(pieces).len
        BY DEF Octets, Phases, Incoming
      <4> QED
        BY <1>1, <4>2, <4>3, <4>4
    <3> QED
      BY <3>1, <3>2, <3>3
  <2>2. PICK a \in Nat : a = job.rx - told
    BY <1>1, <2>1
  <2>3. PICK h \in Nat : h = Held("push")
    BY DEF Held
  <2>4. PICK b \in Nat : b = Len(rxf)
    BY <1>1
  <2>5. OctetsLeft = 4 * a + 3 * h + b
    BY <2>2, <2>3, <2>4 DEF OctetsLeft
  <2> QED
    BY <2>5
<1> QED
  BY <1>2, <1>3, <1>4, <1>5 DEF Counted, StepsLeft, Held

LEMMA StepsStayCounted == Octets' => Counted'
BY StepsCounted, PTL

\* Each step of the processor inside a transfer leaves fewer steps: it ends a
\* phase or a call, or it puts or fetches an octet.
LEMMA CpuCounts == Octets /\ Octets' /\ CpuStep => StepsLeft' < StepsLeft
<1> SUFFICES ASSUME Octets, Octets', CpuStep
             PROVE  StepsLeft' < StepsLeft
  OBVIOUS
<1>1. /\ job.tx \in Nat /\ job.rx \in Nat /\ n \in Nat /\ told \in Nat /\ x \in Nat
      /\ txf \in Seq(Nat) /\ rxf \in Seq(Nat) /\ pieces \in Seq([at : Nat, len : Nat])
  BY Transfer DEF Octets, Types
<1>2. /\ PhasesLeft \in Nat /\ CallsLeft \in Nat /\ PutsLeft \in Nat /\ OctetsLeft \in Nat
      /\ PhasesLeft' \in Nat /\ CallsLeft' \in Nat /\ PutsLeft' \in Nat /\ OctetsLeft' \in Nat
  BY StepsCounted, StepsStayCounted DEF Counted
<1>3. Held("loop") \in Nat /\ Held("loop")' \in Nat
  BY DEF Held
<1>4. cpu # "idle"
  BY DEF CpuStep, ClearFifos, JumpWriter, DrivePin, Fill, Drained, Settled,
         ReleasePin, Park, JumpReader, PutCount, Fetch, Fetched, Deselect, Goto
<1>5. /\ StepsLeft = PhasesLeft + CallsLeft + PutsLeft + OctetsLeft + Held("loop")
      /\ cpu' # "idle" =>
           StepsLeft' = PhasesLeft' + CallsLeft' + PutsLeft' + OctetsLeft' + Held("loop")'
  BY <1>4 DEF StepsLeft
\* A step that ends a phase: nothing grows.
<1>6. ASSUME cpu' # "idle", PhasesLeft' < PhasesLeft,
             CallsLeft' <= CallsLeft, PutsLeft' <= PutsLeft, OctetsLeft' <= OctetsLeft,
             Held("loop")' <= Held("loop")
      PROVE  StepsLeft' < StepsLeft
  BY <1>2, <1>3, <1>5, <1>6
<1>7. CASE ClearFifos
  <2>1. /\ cpu = "clear" /\ cpu' = "writer" /\ txf' = <<>> /\ rxf' = <<>>
        /\ UNCHANGED <<job, n, pieces, sm, told>>
    BY <1>7 DEF ClearFifos, Goto, smVars, wireVars
  <2>2. txf = <<>> /\ rxf = <<>>
    BY <2>1 DEF Octets, Outgoing, Incoming
  <2>3. PhasesLeft = 8 /\ PhasesLeft' = 7
    BY <2>1 DEF PhasesLeft
  <2>4. CallsLeft' = CallsLeft /\ PutsLeft' = PutsLeft /\ OctetsLeft' = OctetsLeft
        /\ Held("loop")' = Held("loop")
    BY <2>1, <2>2 DEF CallsLeft, PutsLeft, Preparing, OctetsLeft, Held
  <2> QED
    BY <1>2, <1>3, <1>6, <2>1, <2>3, <2>4
<1>8. CASE JumpWriter
  <2>1. /\ cpu = "writer" /\ cpu' = "drive" /\ sm' = "writer"
        /\ UNCHANGED <<job, n, pieces, told, txf, rxf>>
    BY <1>8 DEF JumpWriter, JumpTo, Goto, wireVars
  <2>2. PhasesLeft = 7 /\ PhasesLeft' = 6
    BY <2>1 DEF PhasesLeft
  <2>3. CallsLeft' = CallsLeft /\ PutsLeft' = PutsLeft
    BY <2>1 DEF CallsLeft, PutsLeft, Preparing
  <2>4. OctetsLeft' <= OctetsLeft /\ Held("loop")' <= Held("loop")
    BY <1>1, <2>1 DEF OctetsLeft, Held
  <2> QED
    BY <1>2, <1>6, <2>1, <2>2, <2>3, <2>4
<1>9. CASE DrivePin
  <2>1. /\ cpu = "drive" /\ cpu' = "fill"
        /\ UNCHANGED <<job, n, pieces, sm, told, txf, rxf>>
    BY <1>9 DEF DrivePin, Goto, smVars, wireVars
  <2>2. sm = "writer" /\ n = 0 /\ txf = <<>>
    BY <2>1 DEF Octets, Phases, Outgoing
  <2>3. PhasesLeft = 6 /\ PhasesLeft' = 5
    BY <2>1 DEF PhasesLeft
  <2>4. CallsLeft' = CallsLeft /\ OctetsLeft' = OctetsLeft /\ Held("loop")' = Held("loop")
    BY <2>1 DEF CallsLeft, OctetsLeft, Held
  <2>5. PutsLeft = 3 * job.tx
    BY <2>1 DEF PutsLeft, Preparing
  <2>6. PutsLeft' = 3 * (job.tx - 0) + 2 * 0 + 0
    BY <2>1, <2>2 DEF PutsLeft, Preparing, Held
  <2> QED
    BY <1>1, <1>2, <1>3, <1>6, <2>1, <2>3, <2>4, <2>5, <2>6
<1>10. CASE Fill
  <2>1. /\ cpu = "fill" /\ cpu' = "fill" /\ n' = n + 1 /\ txf' = Append(txf, n + 1)
        /\ UNCHANGED <<job, pieces, sm, told, rxf>>
    BY <1>10 DEF Fill, smVars, wireVars
  <2>2. Len(txf') = Len(txf) + 1 /\ Len(txf) \in Nat
    BY <1>1, <2>1
  <2>3. PhasesLeft' = PhasesLeft /\ CallsLeft' = CallsLeft /\ OctetsLeft' = OctetsLeft
        /\ Held("loop")' = Held("loop")
    BY <2>1 DEF PhasesLeft, CallsLeft, OctetsLeft, Held
  <2>4. PutsLeft = 3 * (job.tx - n) + 2 * Len(txf) + Held("shift")
    BY <2>1 DEF PutsLeft, Preparing
  <2>5. PutsLeft' = 3 * (job.tx - n') + 2 * Len(txf') + Held("shift")
    BY <2>1 DEF PutsLeft, Preparing, Held
  <2>6. Held("shift") \in Nat
    BY DEF Held
  <2>7. PutsLeft' = PutsLeft - 1
    <3>1. job.tx \in Nat /\ n \in Nat /\ n' = n + 1
      BY <1>1, <2>1
    <3>2. PICK a \in Int : job.tx - n = a /\ job.tx - n' = a - 1
      BY <3>1
    <3>3. PICK b \in Nat : Len(txf) = b
      BY <1>1
    <3>4. PICK h \in Nat : Held("shift") = h
      BY <2>6
    <3>5. Len(txf') = b + 1
      BY <2>2, <3>3
    <3>6. PutsLeft = 3 * a + 2 * b + h
      BY <2>4, <3>2, <3>3, <3>4
    <3>7. PutsLeft' = 3 * (a - 1) + 2 * (b + 1) + h
      BY <2>5, <3>2, <3>4, <3>5
    <3> QED
      BY <3>6, <3>7
  <2> QED
    BY <1>2, <1>3, <1>5, <2>1, <2>3, <2>7
<1>11. CASE Drained
  <2>1. /\ cpu = "fill" /\ cpu' = "settle" /\ n = job.tx /\ txf = <<>>
        /\ UNCHANGED <<job, pieces, sm, told, txf, rxf>>
    BY <1>11 DEF Drained, Goto, smVars, wireVars
  <2>2. PhasesLeft = 5 /\ PhasesLeft' = 4
    BY <2>1 DEF PhasesLeft
  <2>3. CallsLeft' = CallsLeft /\ OctetsLeft' = OctetsLeft /\ Held("loop")' = Held("loop")
    BY <2>1 DEF CallsLeft, OctetsLeft, Held
  <2>4. PutsLeft = 3 * (job.tx - job.tx) + 2 * 0 + Held("shift")
    BY <2>1 DEF PutsLeft, Preparing
  <2>5. PutsLeft' = Held("shift")
    BY <2>1 DEF PutsLeft, Preparing, Held
  <2>6. Held("shift") \in Nat
    BY DEF Held
  <2>7. PutsLeft' = PutsLeft
    BY <1>1, <2>4, <2>5, <2>6
  <2> QED
    BY <1>2, <1>3, <1>6, <2>1, <2>2, <2>3, <2>7
\* Between the loops.
<1>12. CASE Settled \/ ReleasePin \/ Park
  <2>1. /\ \/ cpu = "settle" /\ cpu' = "release"
           \/ cpu = "release" /\ cpu' = "park"
           \/ cpu = "park" /\ cpu' = "read"
        /\ sm' = sm \/ sm' = "writer"
        /\ UNCHANGED <<job, n, pieces, told, txf, rxf>>
    BY <1>12 DEF Settled, ReleasePin, Park, JumpTo, Goto, smVars, wireVars
  <2>2. PhasesLeft' < PhasesLeft
    BY <2>1 DEF PhasesLeft
  <2>3. CallsLeft' = CallsLeft
    BY <2>1 DEF CallsLeft
  <2>4. PutsLeft' <= PutsLeft
    BY <1>1, <2>1 DEF PutsLeft, Preparing, Held
  <2>5. OctetsLeft' <= OctetsLeft /\ Held("loop")' <= Held("loop")
    BY <1>1, <2>1 DEF OctetsLeft, Held
  <2> QED
    BY <1>2, <1>6, <2>1, <2>2, <2>3, <2>4, <2>5
<1>13. CASE JumpReader
  <2>1. /\ cpu = "read" /\ cpu' = "count" /\ sm' = "reader"
        /\ UNCHANGED <<job, n, pieces, told, txf, rxf>>
    BY <1>13 DEF JumpReader, JumpTo, Goto, wireVars
  <2>2. PhasesLeft = 1 /\ PhasesLeft' = 1
    BY <2>1 DEF PhasesLeft
  <2>3. CallsLeft = 4 * Len(pieces) /\ CallsLeft' = 4 * Len(pieces) - 1
    BY <2>1 DEF CallsLeft
  <2>4. PutsLeft' <= PutsLeft
    BY <2>1 DEF PutsLeft, Preparing, Held
  <2>5. OctetsLeft' <= OctetsLeft /\ Held("loop")' <= Held("loop")
    BY <1>1, <2>1 DEF OctetsLeft, Held
  <2>6. CallsLeft' = CallsLeft - 1
    BY <1>1, <2>3
  <2> QED
    BY <1>2, <1>3, <1>5, <2>1, <2>2, <2>4, <2>5, <2>6
<1>14. CASE PutCount
  <2>1. /\ cpu = "count" /\ cpu' = "fetch" /\ txf' = Append(txf, Head(pieces).len - 1)
        /\ UNCHANGED <<job, n, pieces, sm, told, rxf>>
    BY <1>14 DEF PutCount, Goto, smVars, wireVars
  <2>2. txf = <<>>
    BY <2>1 DEF Octets, Outgoing
  <2>3. txf' = <<Head(pieces).len - 1>>
    BY <2>1, <2>2
  <2>4. Len(txf') = 1
    BY <2>3
  <2>5. PhasesLeft = 1 /\ PhasesLeft' = 1
    BY <2>1 DEF PhasesLeft
  <2>6. CallsLeft = 4 * Len(pieces) - 1 /\ CallsLeft' = 4 * Len(pieces) - 3 + 1
    BY <2>1, <2>4 DEF CallsLeft
  <2>7. PutsLeft' = PutsLeft
    BY <2>1 DEF PutsLeft, Preparing, Held
  <2>8. OctetsLeft' = OctetsLeft /\ Held("loop")' = Held("loop")
    BY <2>1 DEF OctetsLeft, Held
  <2> QED
    BY <1>1, <1>2, <1>3, <1>5, <2>1, <2>5, <2>6, <2>7, <2>8
<1>15. CASE Fetch
  <2>1. /\ cpu = "fetch" /\ cpu' = "fetch" /\ rxf # <<>> /\ rxf' = Tail(rxf)
        /\ UNCHANGED <<job, pieces, sm, told, txf>>
    BY <1>15 DEF Fetch, smVars, wireVars
  <2>2. Len(rxf') = Len(rxf) - 1
    BY <1>1, <2>1
  <2>3. PhasesLeft' = PhasesLeft /\ CallsLeft' = CallsLeft /\ PutsLeft' = PutsLeft
        /\ Held("loop")' = Held("loop")
    BY <2>1 DEF PhasesLeft, CallsLeft, PutsLeft, Preparing, Held
  <2>4. OctetsLeft' = OctetsLeft - 1
    <3> DEFINE a == 4 * (job.rx - told) + 3 * Held("push")
    <3>1. a \in Int
      BY <1>1 DEF Held
    <3>2. OctetsLeft = a + Len(rxf) /\ OctetsLeft' = a + Len(rxf')
      <4>1. job' = job /\ told' = told /\ Held("push")' = Held("push")
        BY <2>1 DEF Held
      <4> QED
        BY <4>1, Zenon DEF OctetsLeft
    <3> HIDE DEF a
    <3> QED
      BY <1>1, <2>2, <3>1, <3>2
  <2> QED
    BY <1>2, <1>3, <1>5, <2>1, <2>3, <2>4
<1>16. CASE Fetched
  <2>1. /\ cpu = "fetch" /\ cpu' = "read" /\ pieces' = Tail(pieces)
        /\ UNCHANGED <<job, sm, told, txf, rxf>>
    BY <1>16 DEF Fetched, Goto, smVars, wireVars
  <2>2. pieces # <<>>
    BY <2>1 DEF Octets, Phases
  <2>3. Len(pieces') = Len(pieces) - 1
    BY <1>1, <2>1, <2>2
  <2>4. PhasesLeft = 1 /\ PhasesLeft' = 1
    BY <2>1 DEF PhasesLeft
  <2>5. CallsLeft = 4 * Len(pieces) - 3 + Len(txf) /\ CallsLeft' = 4 * Len(pieces')
    BY <2>1 DEF CallsLeft
  <2>6. PutsLeft' = PutsLeft
    BY <2>1 DEF PutsLeft, Preparing, Held
  <2>7. OctetsLeft' = OctetsLeft /\ Held("loop")' = Held("loop")
    BY <2>1 DEF OctetsLeft, Held
  <2>8. CallsLeft' < CallsLeft
    BY <1>1, <2>3, <2>5
  <2> QED
    BY <1>2, <1>3, <1>5, <2>1, <2>4, <2>6, <2>7, <2>8
<1>17. CASE Deselect
  <2>1. cpu = "read" /\ cpu' = "idle" /\ sm' = sm
    BY <1>17 DEF Deselect, Goto, smVars
  <2>2. PhasesLeft = 1
    BY <2>1 DEF PhasesLeft
  <2>3. StepsLeft' = 0 + Held("loop")
    BY <2>1 DEF StepsLeft, Held
  <2> QED
    BY <1>2, <1>3, <1>5, <2>2, <2>3
<1> QED
  BY <1>7, <1>8, <1>9, <1>10, <1>11, <1>12, <1>13, <1>14, <1>15, <1>16, <1>17 DEF CpuStep

\* Each step of the state machine leaves fewer steps: of an octet it has pulled
\* or is to push, or of the round it is in.
LEMMA SmCounts == Octets /\ Octets' /\ SmStep => StepsLeft' < StepsLeft
<1> SUFFICES ASSUME Octets, Octets', SmStep
             PROVE  StepsLeft' < StepsLeft
  OBVIOUS
<1>1. /\ job.tx \in Nat /\ job.rx \in Nat /\ n \in Nat /\ told \in Nat /\ x \in Nat
      /\ txf \in Seq(Nat) /\ rxf \in Seq(Nat) /\ Len(pieces) \in Nat
  BY Transfer DEF Octets, Types
<1>2. /\ PhasesLeft \in Nat /\ CallsLeft \in Nat /\ PutsLeft \in Nat /\ OctetsLeft \in Nat
      /\ PhasesLeft' \in Nat /\ CallsLeft' \in Nat /\ PutsLeft' \in Nat /\ OctetsLeft' \in Nat
  BY StepsCounted, StepsStayCounted DEF Counted
<1>3. cpu' = cpu /\ job' = job /\ n' = n /\ pieces' = pieces
  BY DEF SmStep, WriterPull, ShiftOut, ReaderPull, ShiftIn, Push, Loop, cpuVars
<1>4. PhasesLeft' = PhasesLeft
  BY <1>3 DEF PhasesLeft
<1>5. /\ StepsLeft =
           (IF cpu = "idle" THEN 0 ELSE PhasesLeft + CallsLeft + PutsLeft + OctetsLeft)
             + Held("loop")
      /\ StepsLeft' =
           (IF cpu = "idle" THEN 0 ELSE PhasesLeft' + CallsLeft' + PutsLeft' + OctetsLeft')
             + Held("loop")'
  BY <1>3 DEF StepsLeft
<1>6. CASE WriterPull
  <2>1. /\ sm = "writer" /\ sm' = "shift" /\ txf # <<>> /\ txf' = Tail(txf)
        /\ UNCHANGED <<told, rxf>>
    BY <1>6 DEF WriterPull, wireVars
  <2>2. cpu = "fill"
    BY <2>1 DEF Octets, Phases, Outgoing
  <2>3. Len(txf') = Len(txf) - 1
    BY <1>1, <2>1
  <2>4. PutsLeft = 3 * (job.tx - n) + 2 * Len(txf) + 0
    BY <2>1, <2>2 DEF PutsLeft, Preparing, Held
  <2>5. PutsLeft' = 3 * (job.tx - n) + 2 * Len(txf') + 1
    BY <1>3, <2>1, <2>2 DEF PutsLeft, Preparing, Held
  <2>6. PutsLeft' < PutsLeft
    <3>1. PICK a \in Int : a = 3 * (job.tx - n)
      BY <1>1
    <3>2. PICK b \in Nat : b = Len(txf)
      BY <1>1
    <3>3. PutsLeft = a + 2 * b + 0
      BY <2>4, <3>1, <3>2
    <3>4. PutsLeft' = a + 2 * (b - 1) + 1
      BY <2>3, <2>5, <3>1, <3>2
    <3> QED
      BY <3>3, <3>4
  <2>7. CallsLeft' = CallsLeft /\ OctetsLeft' = OctetsLeft
    BY <1>3, <2>1, <2>2 DEF CallsLeft, OctetsLeft, Held
  <2>8. Held("loop") = 0 /\ Held("loop")' = 0
    BY <2>1 DEF Held
  <2> QED
    BY <1>2, <1>4, <1>5, <2>2, <2>6, <2>7, <2>8
<1>7. CASE ShiftOut
  <2>1. sm = "shift" /\ sm' = "writer" /\ UNCHANGED <<told, txf, rxf>>
    BY <1>7 DEF ShiftOut
  <2>2. cpu \in {"fill", "settle"}
    BY <2>1 DEF Octets, Types, Phases, AtRest
  <2>3. PutsLeft' < PutsLeft
    <3>1. CASE cpu = "fill"
      <4>1. PICK a \in Int : a = 3 * (job.tx - n) + 2 * Len(txf)
        BY <1>1
      <4>2. PutsLeft = a + 1 /\ PutsLeft' = a + 0
        BY <1>3, <2>1, <3>1, <4>1 DEF PutsLeft, Preparing, Held
      <4> QED
        BY <4>2
    <3>2. CASE cpu = "settle"
      <4>1. PutsLeft = 1 /\ PutsLeft' = 0
        BY <1>3, <2>1, <3>2 DEF PutsLeft, Preparing, Held
      <4> QED
        BY <4>1
    <3> QED
      BY <2>2, <3>1, <3>2
  <2>4. CallsLeft' = CallsLeft /\ OctetsLeft' = OctetsLeft
    BY <1>3, <2>1, <2>2 DEF CallsLeft, OctetsLeft, Held
  <2>5. Held("loop") = 0 /\ Held("loop")' = 0
    BY <2>1 DEF Held
  <2> QED
    BY <1>2, <1>4, <1>5, <2>2, <2>3, <2>4, <2>5
<1>8. CASE ReaderPull
  <2>1. /\ sm = "reader" /\ sm' = "bits" /\ txf # <<>> /\ txf' = Tail(txf)
        /\ UNCHANGED <<told, rxf>>
    BY <1>8 DEF ReaderPull, wireVars
  <2>2. cpu = "fetch"
    BY <2>1 DEF Octets, Phases, Outgoing
  <2>3. Len(txf') = Len(txf) - 1
    BY <1>1, <2>1
  <2>4. CallsLeft' < CallsLeft
    BY <1>1, <1>3, <2>2, <2>3 DEF CallsLeft
  <2>5. PutsLeft' = PutsLeft /\ OctetsLeft' = OctetsLeft
    BY <1>3, <2>1, <2>2 DEF PutsLeft, Preparing, OctetsLeft, Held
  <2>6. Held("loop") = 0 /\ Held("loop")' = 0
    BY <2>1 DEF Held
  <2> QED
    BY <1>2, <1>4, <1>5, <2>2, <2>4, <2>5, <2>6
<1>9. CASE ShiftIn
  <2>1. sm = "bits" /\ sm' = "push" /\ told' = told + 1 /\ UNCHANGED <<txf, rxf>>
    BY <1>9 DEF ShiftIn
  <2>2. cpu = "fetch"
    BY <2>1 DEF Octets, Types, Phases, AtRest
  <2>3. OctetsLeft' < OctetsLeft
    BY <1>1, <1>3, <2>1 DEF OctetsLeft, Held
  <2>4. CallsLeft' = CallsLeft /\ PutsLeft' = PutsLeft
    BY <1>3, <2>1, <2>2 DEF CallsLeft, PutsLeft, Preparing, Held
  <2>5. Held("loop") = 0 /\ Held("loop")' = 0
    BY <2>1 DEF Held
  <2> QED
    BY <1>2, <1>4, <1>5, <2>2, <2>3, <2>4, <2>5
<1>10. CASE Push
  <2>1. sm = "push" /\ sm' = "loop" /\ rxf' = Append(rxf, osr) /\ UNCHANGED <<told, txf>>
    BY <1>10 DEF Push, wireVars
  <2>2. cpu = "fetch"
    BY <2>1 DEF Octets, Types, Phases, AtRest
  <2>3. Len(rxf') = Len(rxf) + 1
    BY <1>1, <2>1 DEF Octets, Types
  <2>4. OctetsLeft' = OctetsLeft - 2
    <3>1. PICK a \in Int : a = 4 * (job.rx - told)
      BY <1>1
    <3>2. PICK b \in Nat : b = Len(rxf)
      BY <1>1
    <3>3. OctetsLeft = a + 3 * 1 + b
      BY <2>1, <3>1, <3>2 DEF OctetsLeft, Held
    <3>4. OctetsLeft' = a + 3 * 0 + (b + 1)
      BY <1>3, <2>1, <2>3, <3>1, <3>2 DEF OctetsLeft, Held
    <3> QED
      BY <3>3, <3>4
  <2>5. CallsLeft' = CallsLeft /\ PutsLeft' = PutsLeft
    BY <1>3, <2>1, <2>2 DEF CallsLeft, PutsLeft, Preparing, Held
  <2>6. Held("loop") = 0 /\ Held("loop")' = 1
    BY <2>1 DEF Held
  <2> QED
    BY <1>2, <1>4, <1>5, <2>2, <2>4, <2>5, <2>6
<1>11. CASE Loop
  <2>1. sm = "loop" /\ sm' \in {"reader", "bits"} /\ UNCHANGED <<told, txf, rxf>>
    BY <1>11 DEF Loop, wireVars
  <2>2. CallsLeft' = CallsLeft /\ PutsLeft' = PutsLeft /\ OctetsLeft' = OctetsLeft
    BY <1>3, <2>1 DEF CallsLeft, PutsLeft, Preparing, OctetsLeft, Held
  <2>3. Held("loop") = 1 /\ Held("loop")' = 0
    BY <2>1 DEF Held
  <2> QED
    BY <1>2, <1>4, <1>5, <2>2, <2>3
<1> QED
  BY <1>6, <1>7, <1>8, <1>9, <1>10, <1>11 DEF SmStep

\* The variant of a transfer: every step of cyw43_spi_transfer and of the state
\* machine, between the select and the return, lessens a count that has an end,
\* so that no loop of either goes round for ever.
THEOREM Variant == Spec => EveryStepCounts
<1>1. Octets /\ [Next]_vars =>
        [CpuStep \/ SmStep => StepsLeft' \in Nat /\ StepsLeft' < StepsLeft]_vars
  <2> SUFFICES ASSUME Octets, CpuStep \/ SmStep
               PROVE  StepsLeft' \in Nat /\ StepsLeft' < StepsLeft
    OBVIOUS
  <2>1. Octets'
    BY CpuKeepsOctets, SmKeepsOctets
  <2>2. StepsLeft' \in Nat
    BY <2>1, StepsStayCounted DEF Counted
  <2> QED
    BY <2>1, <2>2, CpuCounts, SmCounts
<1> QED
  BY <1>1, OctetsAlways, PTL DEF Spec, EveryStepCounts

=============================================================================

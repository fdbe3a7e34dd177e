------------------------- MODULE BusTransferProofs -------------------------
(***************************************************************************)
(* Proofs about transfers on either bus, for every padding, buffer size,   *)
(* number of looks and set of errors.                                      *)
(***************************************************************************)
EXTENDS BusTransfer, SequenceTheorems, TLAPS

\* A block is a sequence of words, each naming its place.
LEMMA Blocks ==
  ASSUME NEW kind \in {"payload", "data", "pad", "error"}, NEW t \in 0..1, NEW n \in 1..Room
  PROVE  /\ Bus!Block(kind, t, n) \in Seq(Word)
         /\ Len(Bus!Block(kind, t, n)) = n
         /\ \A i \in 1..n : Bus!Block(kind, t, n)[i] = [kind |-> kind, tag |-> t, k |-> i]
<1>1. n \in Nat /\ n <= Room
  BY SizeAssumption DEF SizeAssumption
<1>2. \A i \in 1..n : [kind |-> kind, tag |-> t, k |-> i] \in Word
  BY <1>1, SizeAssumption DEF SizeAssumption, Word, Bus!Item
<1> QED
  BY <1>1, <1>2 DEF Bus!Block

\* What Put leaves in memory.
LEMMA Puts ==
  ASSUME NEW m \in [Place -> Word], NEW p \in Place, NEW s \in Seq(Word),
         p + Len(s) - 1 <= Pad + Room + 1
  PROVE  /\ Put(m, p, s) \in [Place -> Word]
         /\ \A i \in 1..Len(s) : Put(m, p, s)[p + i - 1] = s[i]
         /\ \A q \in Place : q < p => Put(m, p, s)[q] = m[q]
         /\ \A q \in Place : q >= p + Len(s) => Put(m, p, s)[q] = m[q]
<1>1. p \in Nat /\ Len(s) \in Nat /\ Pad \in Nat /\ Room \in Nat
  BY SizeAssumption DEF SizeAssumption, Place
<1>2. ASSUME NEW q \in Place
      PROVE  (IF q \in p..(p + Len(s) - 1) THEN s[q - p + 1] ELSE m[q]) \in Word
  <2>1. CASE q \in p..(p + Len(s) - 1)
    <3>1. q - p + 1 \in 1..Len(s)
      BY <1>1, <2>1 DEF Place
    <3> QED
      BY <2>1, <3>1
  <2> QED
    BY <2>1
<1>3. Put(m, p, s) \in [Place -> Word]
  BY <1>2 DEF Put
<1>4. ASSUME NEW i \in 1..Len(s)
      PROVE  Put(m, p, s)[p + i - 1] = s[i]
  <2>1. p + i - 1 \in Place /\ p + i - 1 \in p..(p + Len(s) - 1) /\ (p + i - 1) - p + 1 = i
    BY <1>1 DEF Place
  <2> QED
    BY <2>1 DEF Put
<1>5. ASSUME NEW q \in Place, q < p \/ q >= p + Len(s)
      PROVE  Put(m, p, s)[q] = m[q]
  <2>1. q \notin p..(p + Len(s) - 1)
    BY <1>1, <1>5 DEF Place
  <2> QED
    BY <2>1 DEF Put
<1> QED
  BY <1>3, <1>4, <1>5

\* Words taken from memory are a sequence of its words.
LEMMA Taken ==
  ASSUME NEW m \in [Place -> Word], NEW p \in Place, NEW n \in Nat,
         p + n - 1 <= Pad + Room
  PROVE  /\ Words(m, p, n) \in Seq(Word)
         /\ Len(Words(m, p, n)) = n
         /\ \A i \in 1..n : Words(m, p, n)[i] = m[p + i - 1]
<1>1. \A i \in 1..n : p + i - 1 \in Place
  BY SizeAssumption DEF SizeAssumption, Place
<1> QED
  BY <1>1 DEF Words

\* The radio's answer: the data words come behind the response delay, which
\* the place of the command makes up for.
Delay(fn) == IF fn = "BACKPLANE" THEN Pad ELSE 0

LEMMA Answers ==
  ASSUME tag \in 0..1, NEW fn \in Function, NEW n \in 1..Room
  PROVE  /\ Answer(fn, n) \in Seq(Word)
         /\ Len(Answer(fn, n)) = Delay(fn) + n
         /\ \A i \in 1..n : Answer(fn, n)[Delay(fn) + i] = [kind |-> "data", tag |-> tag, k |-> i]
         /\ Header(fn) + Delay(fn) = Pad
<1> DEFINE data == Bus!Block("data", tag, n)
           delay == IF fn = "BACKPLANE" THEN [i \in 1..Pad |-> Zero] ELSE <<>>
<1>1. /\ data \in Seq(Word) /\ Len(data) = n
      /\ \A i \in 1..n : data[i] = [kind |-> "data", tag |-> tag, k |-> i]
  BY Blocks
<1>2. Zero \in Word
  BY SizeAssumption DEF SizeAssumption, Zero, Word, Bus!Item
<1>3. delay \in Seq(Word) /\ Len(delay) = Delay(fn)
  <2>1. CASE fn = "BACKPLANE"
    BY <1>2, <2>1, SizeAssumption DEF SizeAssumption, Delay
  <2>2. CASE fn # "BACKPLANE"
    BY <2>2 DEF Delay
  <2> QED
    BY <2>1, <2>2
<1>4. Answer(fn, n) = delay \o data
  BY DEF Answer
<1>5. Header(fn) + Delay(fn) = Pad /\ Delay(fn) \in Nat
  BY SizeAssumption DEF SizeAssumption, Header, Delay
<1>6. n \in Nat
  BY SizeAssumption DEF SizeAssumption
<1> HIDE DEF data, delay
<1>7. /\ Answer(fn, n) \in Seq(Word)
      /\ Len(Answer(fn, n)) = Len(delay) + Len(data)
      /\ \A i \in 1..(Len(delay) + Len(data)) :
           Answer(fn, n)[i] = IF i <= Len(delay) THEN delay[i] ELSE data[i - Len(delay)]
  <2>1. data \in Seq(Word) /\ delay \in Seq(Word)
    BY <1>1, <1>3
  <2>2. /\ delay \o data \in Seq(Word)
        /\ Len(delay \o data) = Len(delay) + Len(data)
        /\ \A i \in 1..(Len(delay) + Len(data)) :
             (delay \o data)[i] = IF i <= Len(delay) THEN delay[i] ELSE data[i - Len(delay)]
    BY <2>1, ConcatProperties
  <2> QED
    BY <1>4, <2>2, Zenon
<1>8. ASSUME NEW i \in 1..n
      PROVE  Answer(fn, n)[Delay(fn) + i] = [kind |-> "data", tag |-> tag, k |-> i]
  <2>1. PICK j : j = Delay(fn) + i
    OBVIOUS
  <2>2. j \in 1..(Len(delay) + Len(data)) /\ ~(j <= Len(delay)) /\ j - Len(delay) = i
    BY <1>1, <1>3, <1>5, <1>6, <2>1
  <2>3. Answer(fn, n)[j] = IF j <= Len(delay) THEN delay[j] ELSE data[j - Len(delay)]
    BY <1>7, <2>2
  <2>4. Answer(fn, n)[j] = data[i]
    BY <2>2, <2>3
  <2> QED
    BY <1>1, <2>1, <2>4
<1>9. Len(Answer(fn, n)) = Delay(fn) + n
  BY <1>1, <1>3, <1>7
<1>10. Answer(fn, n) \in Seq(Word)
  BY <1>7
<1>11. Header(fn) + Delay(fn) = Pad
  BY <1>5
<1> QED
  BY <1>8, <1>9, <1>10, <1>11

\* What a transfer receives: the answer, and on PicoWi's bus one word more.
LEMMA Receipts ==
  ASSUME tag \in 0..1, NEW fn \in Function, NEW n \in 1..Room
  PROVE  /\ Received(fn, n) \in Seq(Word)
         /\ Len(Received(fn, n)) \in {Delay(fn) + n, Delay(fn) + n + 1}
         /\ \A i \in 1..n : Received(fn, n)[Delay(fn) + i] = [kind |-> "data", tag |-> tag, k |-> i]
<1> DEFINE answer == Answer(fn, n)
           surplus == IF picowi THEN <<Zero>> ELSE <<>>
<1>1. /\ answer \in Seq(Word) /\ Len(answer) = Delay(fn) + n
      /\ \A i \in 1..n : answer[Delay(fn) + i] = [kind |-> "data", tag |-> tag, k |-> i]
  BY Answers
<1>2. Zero \in Word
  BY SizeAssumption DEF SizeAssumption, Zero, Word, Bus!Item
<1>3. surplus \in Seq(Word) /\ Len(surplus) \in {0, 1}
  BY <1>2
<1>4. Delay(fn) \in Nat /\ n \in Nat
  BY SizeAssumption DEF SizeAssumption, Delay
<1>5. Received(fn, n) = answer \o surplus
  BY DEF Received
<1> HIDE DEF answer, surplus
<1>6. /\ answer \o surplus \in Seq(Word)
      /\ Len(answer \o surplus) = Len(answer) + Len(surplus)
      /\ \A i \in 1..(Len(answer) + Len(surplus)) :
           (answer \o surplus)[i] = IF i <= Len(answer) THEN answer[i] ELSE surplus[i - Len(answer)]
  BY <1>1, <1>3, ConcatProperties
<1>7. ASSUME NEW i \in 1..n
      PROVE  (answer \o surplus)[Delay(fn) + i] = [kind |-> "data", tag |-> tag, k |-> i]
  <2>1. Delay(fn) + i \in 1..(Len(answer) + Len(surplus)) /\ Delay(fn) + i <= Len(answer)
    BY <1>1, <1>3, <1>4
  <2> QED
    BY <1>1, <1>6, <2>1
<1>8. Len(answer \o surplus) \in {Delay(fn) + n, Delay(fn) + n + 1}
  <2>1. Len(answer) = Delay(fn) + n
    BY <1>1
  <2>2. Len(surplus) = 0 \/ Len(surplus) = 1
    BY <1>3
  <2>3. Len(answer \o surplus) = Len(answer) + Len(surplus)
    BY <1>6
  <2>4. CASE Len(surplus) = 0
    BY <1>4, <2>1, <2>3, <2>4
  <2>5. CASE Len(surplus) = 1
    BY <1>4, <2>1, <2>3, <2>5
  <2> QED
    BY <2>2, <2>4, <2>5
<1> QED
  BY <1>5, <1>6, <1>7, <1>8

LEMMA Commands ==
  ASSUME tag \in 0..1, NEW write \in BOOLEAN, NEW fn \in Function, NEW n \in 1..Room
  PROVE  /\ Command(write, fn, n) \in Seq(Word)
         /\ Len(Command(write, fn, n)) = 1
         /\ Command(write, fn, n)[1] = [write |-> write, fn |-> fn, tag |-> tag, n |-> n]
<1>1. [write |-> write, fn |-> fn, tag |-> tag, n |-> n] \in Word
  BY DEF Word, Bus!Command, Function
<1> QED
  BY <1>1 DEF Command

\* Memory with the command of a read in it, or with the word cleared.
LEMMA AskedStands ==
  ASSUME TypeOK, NEW fn \in Function, NEW n \in 1..Room
  PROVE  Asked(fn, n) \in [Place -> Word]
<1> DEFINE head == IF picowi THEN <<Zero>> ELSE Command(FALSE, fn, n)
           h == Header(fn)
<1>1. tag \in 0..1 /\ mem \in [Place -> Word]
  BY DEF TypeOK
<1>2. Zero \in Word
  BY SizeAssumption DEF SizeAssumption, Zero, Word, Bus!Item
<1>3. Command(FALSE, fn, n) \in Seq(Word) /\ Len(Command(FALSE, fn, n)) = 1
  BY <1>1, Commands
<1>4. head \in Seq(Word) /\ Len(head) = 1
  <2>1. <<Zero>> \in Seq(Word) /\ Len(<<Zero>>) = 1
    BY <1>2
  <2> QED
    BY <1>3, <2>1
<1>5. h \in Place /\ h + 1 - 1 <= Pad + Room + 1
  BY SizeAssumption DEF SizeAssumption, Header, Place
<1>6. Asked(fn, n) = Put(mem, h, head)
  BY DEF Asked
<1> HIDE DEF head, h
<1>7. Put(mem, h, head) \in [Place -> Word]
  BY <1>1, <1>4, <1>5, Puts
<1> QED
  BY <1>6, <1>7

\* The value of a register is the word behind the response delay, whether or
\* not PicoWi's transfer reorders.
LEMMA RegisterValue ==
  ASSUME TypeOK, NEW fn \in Function
  PROVE  <<Received(fn, 1)[Lands(ValuePlace(fn))]>> = Bus!Block("data", tag, 1)
<1>1. tag \in 0..1
  BY DEF TypeOK
<1>2. 1 \in 1..Room
  BY SizeAssumption DEF SizeAssumption
<1>3. ValuePlace(fn) = Delay(fn) + 1
  BY SizeAssumption DEF SizeAssumption, ValuePlace, Delay
<1>4. ValuePlace(fn) % 2 = 1
  BY SizeAssumption DEF SizeAssumption, ValuePlace
<1>5. Lands(ValuePlace(fn)) = Delay(fn) + 1
  BY <1>3, <1>4 DEF Lands
<1>6. Received(fn, 1)[Delay(fn) + 1] = [kind |-> "data", tag |-> tag, k |-> 1]
  BY <1>1, <1>2, Receipts
<1>7. Bus!Block("data", tag, 1) = <<[kind |-> "data", tag |-> tag, k |-> 1]>>
  BY DEF Bus!Block
<1> QED
  BY <1>5, <1>6, <1>7

\* A read that succeeds hands over the radio's words.
LEMMA ReadMoves ==
  ASSUME TypeOK, NEW fn \in Function, NEW n \in 1..Room, ReadBytes(fn, n)
  PROVE  /\ moved' = Bus!Block("data", tag, n)
         /\ mem' \in [Place -> Word]
         /\ moved' \in Seq(Word) /\ Len(moved') = n
<1> DEFINE h == Header(fn)
           d == Delay(fn)
           answer == Received(fn, n)
<1>0. tag \in 0..1 /\ mem \in [Place -> Word]
  BY DEF TypeOK
<1>1. n \in Nat /\ n <= Room /\ Pad \in Nat /\ Room \in Nat
  BY SizeAssumption DEF SizeAssumption
<1>2. h \in Place /\ h + 1 \in Place /\ h \in Nat /\ Pad + 1 \in Place
  BY <1>1, SizeAssumption DEF SizeAssumption, Header, Place
<1>3. Asked(fn, n) \in [Place -> Word]
  BY AskedStands
<1>4. /\ answer \in Seq(Word) /\ Len(answer) \in {d + n, d + n + 1}
      /\ h + d = Pad /\ d \in Nat
      /\ \A i \in 1..n : answer[d + i] = [kind |-> "data", tag |-> tag, k |-> i]
  BY <1>0, <1>1, Answers, Receipts DEF Delay
<1>5. mem' = Put(Asked(fn, n), h + 1, answer) /\ moved' = Words(mem', Pad + 1, n)
  BY DEF ReadBytes, Ends
<1> HIDE DEF h, d, answer
<1>6. (h + 1) + Len(answer) - 1 <= Pad + Room + 1
  BY <1>1, <1>2, <1>4
<1>7. /\ mem' \in [Place -> Word]
      /\ \A i \in 1..Len(answer) : mem'[(h + 1) + i - 1] = answer[i]
  <2> DEFINE m == Asked(fn, n)
             p == h + 1
  <2>1. m \in [Place -> Word] /\ p \in Place /\ answer \in Seq(Word)
        /\ p + Len(answer) - 1 <= Pad + Room + 1
    BY <1>2, <1>3, <1>4, <1>6
  <2> HIDE DEF m, p
  <2>2. /\ Put(m, p, answer) \in [Place -> Word]
        /\ \A i \in 1..Len(answer) : Put(m, p, answer)[p + i - 1] = answer[i]
    BY <2>1, Puts
  <2> QED
    BY <1>5, <2>2, Zenon DEF m, p
<1>8. /\ moved' \in Seq(Word) /\ Len(moved') = n
      /\ \A i \in 1..n : moved'[i] = mem'[(Pad + 1) + i - 1]
  <2>1. (Pad + 1) + n - 1 <= Pad + Room
    BY <1>1
  <2> QED
    BY <1>1, <1>2, <1>5, <1>7, <2>1, Taken
<1>9. ASSUME NEW i \in 1..n
      PROVE  moved'[i] = [kind |-> "data", tag |-> tag, k |-> i]
  <2>1. d + i \in 1..Len(answer)
    BY <1>1, <1>4
  <2>2. (h + 1) + (d + i) - 1 = (Pad + 1) + i - 1
    BY <1>1, <1>2, <1>4
  <2>3. mem'[(Pad + 1) + i - 1] = answer[d + i]
    BY <1>7, <2>1, <2>2
  <2> QED
    BY <1>4, <1>8, <2>3
<1>10. moved' = [i \in 1..n |-> moved'[i]]
  BY <1>1, <1>5 DEF Words
<1>11. moved' = [i \in 1..n |-> [kind |-> "data", tag |-> tag, k |-> i]]
  BY <1>9, <1>10, Zenon
<1> QED
  BY <1>7, <1>8, <1>11 DEF Bus!Block

\* The frame in memory is the call's own, in place or copied.
LEMMA FrameStands ==
  ASSUME TypeOK, PayloadKept, pc = "put"
  PROVE  /\ FrameInMemory \in [Place -> Word]
         /\ Words(FrameInMemory, Pad, call.n + 1) = Bus!Frame(call.fn, tag, call.n)
         /\ Words(FrameInMemory, Pad, call.n + 1) \in Seq(Word)
         /\ Len(Words(FrameInMemory, Pad, call.n + 1)) <= 1 + Room
<1> DEFINE n == call.n
           command == Command(TRUE, call.fn, n)
           payload == Bus!Block("payload", tag, n)
           first == [write |-> TRUE, fn |-> call.fn, tag |-> tag, n |-> n]
           item(i) == [kind |-> "payload", tag |-> tag, k |-> i]
           f == FrameInMemory
<1>1. /\ mem \in [Place -> Word] /\ tag \in 0..1 /\ call.fn \in Function /\ n \in 1..Room
      /\ call.inplace \in BOOLEAN
  BY DEF TypeOK, Calls
<1>2. n \in Nat /\ n <= Room /\ n >= 1 /\ Pad \in Nat /\ Room \in Nat
  BY <1>1, SizeAssumption DEF SizeAssumption
<1>3. Pad \in Place /\ Pad + 1 \in Place /\ \A i \in 1..n : Pad + i \in Place /\ Pad + i >= Pad + 1
  BY <1>2 DEF Place
<1>4. command \in Seq(Word) /\ Len(command) = 1 /\ command[1] = first
  BY <1>1, Commands
<1>5. payload \in Seq(Word) /\ Len(payload) = n /\ \A i \in 1..n : payload[i] = item(i)
  BY <1>1, Blocks
<1>6. Commanded = Put(mem, Pad, command)
  BY DEF Commanded
<1>7. call.inplace => \A i \in 1..n : mem[Pad + i] = item(i)
  BY DEF PayloadKept
<1>8. f = IF call.inplace THEN Commanded ELSE Put(Commanded, Pad + 1, payload)
  BY DEF FrameInMemory
<1> HIDE DEF n, command, payload, first, f
<1>9. /\ Commanded \in [Place -> Word]
      /\ Commanded[Pad] = first
      /\ \A i \in 1..n : Commanded[Pad + i] = mem[Pad + i]
  <2>1. Pad + Len(command) - 1 <= Pad + Room + 1
    BY <1>2, <1>4
  <2>2. /\ Commanded \in [Place -> Word]
        /\ \A i \in 1..Len(command) : Commanded[Pad + i - 1] = command[i]
        /\ \A q \in Place : q >= Pad + Len(command) => Commanded[q] = mem[q]
    BY <1>1, <1>3, <1>4, <1>6, <2>1, Puts, ZenonT(30)
  <2>3. 1 \in 1..Len(command) /\ Pad + 1 - 1 = Pad
    BY <1>2, <1>4
  <2>4. Commanded[Pad] = first
    BY <1>4, <2>2, <2>3
  <2>5. \A i \in 1..n : Commanded[Pad + i] = mem[Pad + i]
    BY <1>3, <1>4, <2>2
  <2> QED
    BY <2>2, <2>4, <2>5
<1>10. /\ f \in [Place -> Word]
       /\ f[Pad] = first
       /\ \A i \in 1..n : f[Pad + i] = item(i)
  <2>1. CASE call.inplace
    BY <1>7, <1>8, <1>9, <2>1
  <2>2. CASE ~call.inplace
    <3>1. f = Put(Commanded, Pad + 1, payload)
      BY <1>8, <2>2
    <3>2. (Pad + 1) + Len(payload) - 1 <= Pad + Room + 1
      BY <1>2, <1>5
    <3>3. /\ f \in [Place -> Word]
          /\ \A i \in 1..Len(payload) : f[(Pad + 1) + i - 1] = payload[i]
          /\ \A q \in Place : q < Pad + 1 => f[q] = Commanded[q]
      BY <1>3, <1>5, <1>9, <3>1, <3>2, Puts
    <3>4. \A i \in 1..n : (Pad + 1) + i - 1 = Pad + i
      BY <1>2
    <3>5. \A i \in 1..n : f[Pad + i] = payload[i]
      BY <1>5, <3>3, <3>4
    <3>6. f[Pad] = first
      BY <1>2, <1>3, <1>9, <3>3
    <3> QED
      BY <1>5, <3>3, <3>5, <3>6
  <2> QED
    BY <2>1, <2>2
<1>11. /\ Words(f, Pad, n + 1) \in Seq(Word)
       /\ Len(Words(f, Pad, n + 1)) = n + 1
       /\ \A i \in 1..(n + 1) : Words(f, Pad, n + 1)[i] = f[Pad + i - 1]
  <2>1. Pad + (n + 1) - 1 <= Pad + Room /\ n + 1 \in Nat
    BY <1>2
  <2> QED
    BY <1>3, <1>10, <2>1, Taken
<1>12. Words(f, Pad, n + 1) = <<first>> \o payload
  <2>1. first \in Word
    BY <1>1 DEF first, Word, Bus!Command, Function
  <2>2. <<first>> \in Seq(Word) /\ Len(<<first>>) = 1 /\ <<first>>[1] = first
    BY <2>1
  <2>3. /\ <<first>> \o payload \in Seq(Word)
        /\ Len(<<first>> \o payload) = n + 1
        /\ \A i \in 1..(1 + n) : (<<first>> \o payload)[i] =
             IF i <= 1 THEN <<first>>[i] ELSE payload[i - 1]
    BY <1>2, <1>5, <2>2, ConcatProperties
  <2>4. ASSUME NEW i \in 1..(n + 1)
        PROVE  Words(f, Pad, n + 1)[i] = (<<first>> \o payload)[i]
    <3>1. CASE i = 1
      <4>1. Words(f, Pad, n + 1)[1] = f[Pad]
        BY <1>2, <1>11
      <4>2. (<<first>> \o payload)[1] = first
        BY <1>2, <2>2, <2>3
      <4> QED
        BY <1>10, <3>1, <4>1, <4>2
    <3>2. CASE i # 1
      <4>1. i - 1 \in 1..n /\ Pad + i - 1 = Pad + (i - 1) /\ ~(i <= 1) /\ i \in 1..(1 + n)
        BY <1>2, <3>2
      <4>2. Words(f, Pad, n + 1)[i] = item(i - 1)
        BY <1>10, <1>11, <4>1
      <4>3. (<<first>> \o payload)[i] = payload[i - 1]
        BY <2>3, <4>1
      <4> QED
        BY <1>5, <4>1, <4>2, <4>3
    <3> QED
      BY <3>1, <3>2
  <2> HIDE DEF item
  <2> QED
    BY <1>2, <1>11, <2>3, <2>4, SeqEqual
<1>13. Len(Words(f, Pad, n + 1)) <= 1 + Room
  BY <1>2, <1>11
<1>14. <<first>> \o payload = Bus!Frame(call.fn, tag, n)
  BY DEF Bus!Frame, first, payload
<1> QED
  BY <1>10, <1>11, <1>12, <1>13, <1>14 DEF f, n

\* Memory after a read that fails half way.
LEMMA BrokenOffStands ==
  ASSUME TypeOK, NEW fn \in Function, NEW n \in 1..Room, NEW k \in 0..Len(Answer(fn, n))
  PROVE  Put(Asked(fn, n), Header(fn) + 1, SubSeq(Answer(fn, n), 1, k)) \in [Place -> Word]
<1> DEFINE h == Header(fn)
           answer == Answer(fn, n)
           part == SubSeq(answer, 1, k)
           m == Asked(fn, n)
<1>1. tag \in 0..1 /\ mem \in [Place -> Word]
  BY DEF TypeOK
<1>2. n \in Nat /\ n <= Room /\ Pad \in Nat /\ Room \in Nat /\ Pad >= 1 /\ Room >= 1
  BY SizeAssumption DEF SizeAssumption
<1>3. h \in Place /\ h + 1 \in Place /\ h \in Nat /\ h <= Pad
  BY <1>2 DEF Header, Place
<1>4. answer \in Seq(Word) /\ Len(answer) = Delay(fn) + n /\ h + Delay(fn) = Pad /\ Delay(fn) \in Nat
  BY <1>1, <1>2, Answers DEF Delay
<1>5. m \in [Place -> Word]
  BY AskedStands
<1> HIDE DEF h, answer
<1>6. k \in Nat /\ k <= Len(answer) /\ 1 \in Int /\ k \in Int
  BY <1>2, <1>4 DEF answer
<1>7. \A i \in 1..k : answer[i] \in Word
  BY <1>2, <1>4, <1>6, ElementOfSeq
<1>8. part \in Seq(Word) /\ Len(part) = IF 1 <= k THEN k - 1 + 1 ELSE 0
  BY <1>6, <1>7, SubSeqProperties
<1> HIDE DEF part, m
<1>9. Len(part) = k
  BY <1>6, <1>8
<1>10. (h + 1) + Len(part) - 1 <= Pad + Room + 1
  BY <1>2, <1>3, <1>4, <1>6, <1>9
<1>11. Put(m, h + 1, part) \in [Place -> Word]
  BY <1>3, <1>5, <1>8, <1>10, Puts
<1> QED
  BY <1>11 DEF m, h, part, answer

\* The caller's payload, when it is built in spid_buf.
LEMMA PayloadStands ==
  ASSUME TypeOK, NEW n \in 1..Room
  PROVE  LET m == Put(mem, Pad + 1, Bus!Block("payload", tag, n))
         IN  /\ m \in [Place -> Word]
             /\ \A i \in 1..n : m[Pad + i] = [kind |-> "payload", tag |-> tag, k |-> i]
<1> DEFINE payload == Bus!Block("payload", tag, n)
           m == Put(mem, Pad + 1, payload)
<1>1. n \in Nat /\ n <= Room /\ Pad \in Nat /\ Room \in Nat /\ Pad + 1 \in Place
  BY SizeAssumption DEF SizeAssumption, Place
<1>2. mem \in [Place -> Word] /\ tag \in 0..1
  BY DEF TypeOK
<1>3. /\ payload \in Seq(Word) /\ Len(payload) = n
      /\ \A i \in 1..n : payload[i] = [kind |-> "payload", tag |-> tag, k |-> i]
  BY <1>2, Blocks
<1> HIDE DEF payload
<1>4. (Pad + 1) + Len(payload) - 1 <= Pad + Room + 1
  BY <1>1, <1>3
<1>5. m \in [Place -> Word] /\ \A i \in 1..Len(payload) : m[(Pad + 1) + i - 1] = payload[i]
  BY <1>1, <1>2, <1>3, <1>4, Puts, ZenonT(30)
<1> HIDE DEF m
<1>6. \A i \in 1..n : (Pad + 1) + i - 1 = Pad + i
  BY <1>1
<1>7. m \in [Place -> Word] /\ \A i \in 1..n : m[Pad + i] = [kind |-> "payload", tag |-> tag, k |-> i]
  BY <1>3, <1>5, <1>6
<1> QED
  BY <1>7 DEF m, payload

\* Every state is well typed, and a payload that a caller has built in the
\* shared buffer stays there through the wait for the radio.
THEOREM Inductive == Spec => []IndInv
<1>1. Init => TypeOK /\ PayloadKept
  <2> SUFFICES ASSUME Init PROVE TypeOK /\ PayloadKept
    OBVIOUS
  <2>1. Zero \in Word /\ NoCall \in Calls
    BY SizeAssumption DEF SizeAssumption, Zero, Word, NoCall, Calls, Bus!Item, Function, Bus!Function
  <2>2. mem \in [Place -> Word]
    BY <2>1 DEF Init
  <2>3. moved \in Seq(Word) /\ Len(moved) <= 1 + Room
    BY SizeAssumption DEF SizeAssumption, Init, Bus!Init
  <2>4. Build
    BY Zenon DEF Init, Build
  <2> QED
    BY <2>1, <2>2, <2>3, <2>4, SizeAssumption DEF SizeAssumption, Init, Bus!Init, TypeOK, PayloadKept
<1>2. TypeOK /\ PayloadKept /\ [Next]_vars => TypeOK' /\ PayloadKept'
  <2> SUFFICES ASSUME TypeOK, PayloadKept, [Next]_vars PROVE TypeOK' /\ PayloadKept'
    OBVIOUS
  <2> DEFINE moves(s) == s \in Seq(Word) /\ Len(s) <= 1 + Room
  <2>0. Build'
    <3>1. picowi' = picowi /\ (reorder' = reorder \/ reorder' = FALSE)
      BY Zenon DEF Next, ReadBytes, ReadBytesFails, ReadReg, ReadRegFails, WriteReg,
                   WriteRegFails, WriteBytes, WriteStep, LookAtStatus, LookFails,
                   TestLooks, GiveUp, PutFrame, PutFrameFails, vars
    <3>2. Build
      BY DEF TypeOK
    <3> QED
      BY <3>1, <3>2, Zenon DEF Build
  <2>1. ASSUME NEW what, Ends(what), moves(what), mem' \in [Place -> Word]
        PROVE  TypeOK' /\ PayloadKept'
    <3>1. NoCall \in Calls
      BY SizeAssumption DEF SizeAssumption, NoCall, Calls, Function, Bus!Function
    <3>2. tag' \in 0..1 /\ looks' \in 0..MaxLooks
      <4>1. tag \in 0..1
        BY DEF TypeOK
      <4>2. tag' = 1 - tag /\ looks' = 0
        BY <2>1 DEF Ends
      <4> QED
        BY <4>1, <4>2, SizeAssumption DEF SizeAssumption
    <3> QED
      BY <2>0, <2>1, <3>1, <3>2 DEF Ends, TypeOK, PayloadKept
  <2>2. moves(<<>>)
    BY SizeAssumption DEF SizeAssumption
  <2>3. ASSUME NEW fn \in Function, NEW n \in 1..Room, ReadBytes(fn, n)
        PROVE  TypeOK' /\ PayloadKept'
    <3>1. moves(moved') /\ mem' \in [Place -> Word]
      BY <2>3, ReadMoves, SizeAssumption DEF SizeAssumption
    <3>2. Ends(moved')
      BY <2>3 DEF ReadBytes, Ends
    <3> QED
      BY <2>1, <3>1, <3>2
  <2>4. ASSUME NEW fn \in Function, NEW n \in 1..Room, ReadBytesFails(fn, n)
        PROVE  TypeOK' /\ PayloadKept'
    BY <2>1, <2>2, <2>4, BrokenOffStands DEF ReadBytesFails
  <2>5. ASSUME NEW c \in Calls, WriteBytes(c)
        PROVE  TypeOK' /\ PayloadKept'
    <3>1. c.n \in 1..Room
      BY DEF Calls
    <3>2. mem' \in [Place -> Word]
      BY <2>5, <3>1, PayloadStands DEF WriteBytes, TypeOK
    <3>3. c.inplace => \A i \in 1..c.n : mem'[Pad + i] = [kind |-> "payload", tag |-> tag, k |-> i]
      BY <2>5, <3>1, PayloadStands DEF WriteBytes
    <3>4. looks' \in 0..MaxLooks /\ pc' \in {"wait", "put"} /\ call' = c
      BY <2>5, SizeAssumption DEF SizeAssumption, WriteBytes
    <3>5. TypeOK'
      BY <2>0, <2>5, <3>2, <3>4 DEF WriteBytes, TypeOK
    <3>6. PayloadKept'
      BY <2>5, <3>3, <3>4 DEF WriteBytes, PayloadKept
    <3> QED
      BY <3>5, <3>6
  <2>6. ASSUME NEW status, Look(status), UNCHANGED <<mem, call, tag, moved>>,
               said' \in {"nothing", "not ready", "ready"}
        PROVE  TypeOK' /\ PayloadKept'
    <3>1. looks' \in 0..MaxLooks
      <4>1. looks \in 0..MaxLooks /\ MaxLooks \in Nat
        BY SizeAssumption DEF SizeAssumption, TypeOK
      <4>2. looks > 0 /\ looks' = looks - 1
        BY <2>6 DEF Look
      <4> QED
        BY <4>1, <4>2
    <3> QED
      BY <2>0, <2>6, <3>1 DEF Look, TypeOK, PayloadKept
  <2>7. CASE LookAtStatus
    BY <2>6, <2>7 DEF LookAtStatus
  <2>8. CASE LookFails
    BY <2>6, <2>8 DEF LookFails, TypeOK
  <2>9. CASE TestLooks
    BY <2>0, <2>9 DEF TestLooks, locals, TypeOK, PayloadKept
  <2>10. CASE GiveUp
    BY <2>1, <2>2, <2>10 DEF GiveUp, TypeOK
  <2>11. CASE PutFrame
    BY <2>1, <2>11, FrameStands DEF PutFrame
  <2>12. CASE PutFrameFails
    BY <2>1, <2>2, <2>12, FrameStands DEF PutFrameFails
  <2>13. CASE UNCHANGED vars
    BY <2>0, <2>13 DEF vars, locals, TypeOK, PayloadKept
  <2>18. ASSUME NEW kind \in {"payload", "data", "error"}
          PROVE  /\ Bus!Block(kind, tag, 1) \in Seq(Word)
                 /\ Len(Bus!Block(kind, tag, 1)) = 1
    <3>1. tag \in 0..1
      BY DEF TypeOK
    <3>2. 1 \in 1..Room /\ kind \in {"payload", "data", "pad", "error"}
      BY SizeAssumption DEF SizeAssumption
    <3>3. \A k \in {"payload", "data", "pad", "error"} : \A t \in 0..1 : \A m \in 1..Room :
            Bus!Block(k, t, m) \in Seq(Word) /\ Len(Bus!Block(k, t, m)) = m
      BY Blocks
    <3> QED
      BY <3>1, <3>2, <3>3
  <2>19. ASSUME NEW s \in Seq(Word), Len(s) = 1
         PROVE  moves(s)
    BY <2>19, SizeAssumption DEF SizeAssumption
  <2>14. ASSUME NEW fn \in Function, ReadReg(fn)
         PROVE  TypeOK' /\ PayloadKept'
    <3>1. Ends(Bus!Block("data", tag, 1)) /\ mem' = mem
      BY <2>14, RegisterValue DEF ReadReg
    <3>2. moves(Bus!Block("data", tag, 1))
      BY <2>18, <2>19
    <3> QED
      BY <2>1, <3>1, <3>2 DEF TypeOK
  <2>15. CASE ReadRegFails
    <3>1. moves(Bus!Block("error", tag, 1))
      BY <2>18, <2>19
    <3> QED
      BY <2>1, <2>15, <3>1 DEF ReadRegFails, TypeOK
  <2>16. ASSUME NEW fn \in Function, WriteReg(fn)
         PROVE  TypeOK' /\ PayloadKept'
    <3> DEFINE command == Command(TRUE, fn, 1)
               value == Bus!Block("payload", tag, 1)
    <3>2. command \in Seq(Word) /\ Len(command) = 1
      <4>1. tag \in 0..1
        BY DEF TypeOK
      <4>2. 1 \in 1..Room /\ TRUE \in BOOLEAN
        BY SizeAssumption DEF SizeAssumption
      <4> QED
        BY <4>1, <4>2, Commands, Zenon
    <3>3. value \in Seq(Word) /\ Len(value) = 1
      BY <2>18
    <3> HIDE DEF command, value
    <3>4. command \o value \in Seq(Word) /\ Len(command \o value) = 1 + 1
      <4>1. command \in Seq(Word) /\ value \in Seq(Word)
        BY <3>2, <3>3
      <4>2. /\ command \o value \in Seq(Word)
            /\ Len(command \o value) = Len(command) + Len(value)
        BY <4>1, ConcatProperties
      <4> QED
        BY <3>2, <3>3, <4>2
    <3>5. 1 + 1 <= 1 + Room
      BY SizeAssumption DEF SizeAssumption
    <3>1. moves(command \o value)
      BY <3>4, <3>5, Zenon
    <3> QED
      BY <2>1, <2>16, <3>1 DEF command, value, WriteReg, TypeOK
  <2>17. CASE WriteRegFails
    BY <2>1, <2>2, <2>17 DEF WriteRegFails, TypeOK
  <2> QED
    BY <2>3, <2>4, <2>5, <2>7, <2>8, <2>9, <2>10, <2>11, <2>12, <2>13, <2>14, <2>15, <2>16,
       <2>17 DEF Next, WriteStep
<1>3. TypeOK /\ PayloadKept <=> IndInv
  BY DEF IndInv
<1> QED
  BY <1>1, <1>2, <1>3, PTL DEF Spec

\* Whatever crossed the bus before, and whatever the radio answers to the
\* looks, a call gives the radio exactly its frame, hands its caller exactly
\* the radio's words, or moves nothing.
THEOREM Implements == Spec => ImplementsRadioBus
<1>1. Init => Bus!Init
  BY DEF Init
<1>2. IndInv /\ [Next]_vars => [Bus!Next]_(Bus!vars)
  <2> SUFFICES ASSUME TypeOK, PayloadKept, [Next]_vars PROVE [Bus!Next]_(Bus!vars)
    BY DEF IndInv
  <2>1. ASSUME Ends(<<>>) PROVE Bus!Next
    BY <2>1 DEF Ends, Bus!Next, Bus!Fail
  <2>2. ASSUME NEW fn \in Function, NEW n \in 1..Room, ReadBytes(fn, n)
        PROVE  Bus!Next
    BY <2>2, ReadMoves DEF ReadBytes, Ends, Bus!Next, Bus!Read
  <2>3. ASSUME NEW fn \in Function, NEW n \in 1..Room, ReadBytesFails(fn, n)
        PROVE  Bus!Next
    BY <2>1, <2>3 DEF ReadBytesFails
  <2>4. ASSUME NEW c \in Calls, WriteBytes(c)
        PROVE  UNCHANGED Bus!vars
    BY <2>4 DEF WriteBytes, Bus!vars
  <2>5. CASE LookAtStatus \/ LookFails \/ TestLooks
    BY <2>5 DEF LookAtStatus, LookFails, TestLooks, Bus!vars
  <2>6. CASE GiveUp
    BY <2>1, <2>6 DEF GiveUp
  <2>7. CASE PutFrame
    <3>1. moved' = Bus!Frame(call.fn, tag, call.n) /\ tag' = 1 - tag
      BY <2>7, FrameStands DEF PutFrame, Ends
    <3>2. call.fn \in Bus!Function /\ call.n \in 1..Room
      BY DEF TypeOK, Calls, Function
    <3> QED
      BY <3>1, <3>2 DEF Bus!Next, Bus!Write
  <2>8. CASE PutFrameFails
    BY <2>1, <2>8 DEF PutFrameFails
  <2>9. CASE UNCHANGED vars
    BY <2>9 DEF vars, locals, Bus!vars
  <2>10. ASSUME NEW fn \in Function, ReadReg(fn)
         PROVE  Bus!Next
    BY <2>10, RegisterValue, SizeAssumption
       DEF SizeAssumption, ReadReg, Ends, Bus!Next, Bus!Read
  <2>11. CASE ReadRegFails
    BY <2>11 DEF ReadRegFails, Ends, Bus!Next, Bus!Mislead
  <2>12. ASSUME NEW fn \in Function, WriteReg(fn)
         PROVE  Bus!Next
    <3>1. moved' = Bus!Frame(fn, tag, 1) /\ tag' = 1 - tag
      BY <2>12 DEF WriteReg, Ends, Command, Bus!Frame
    <3> QED
      BY <3>1, SizeAssumption DEF SizeAssumption, Bus!Next, Bus!Write, Function
  <2>13. CASE WriteRegFails
    BY <2>1, <2>13 DEF WriteRegFails
  <2> QED
    BY <2>2, <2>3, <2>4, <2>5, <2>6, <2>7, <2>8, <2>9, <2>10, <2>11, <2>12, <2>13
       DEF Next, WriteStep
<1> QED
  BY <1>1, <1>2, Inductive, PTL DEF Spec, ImplementsRadioBus, Bus!Spec
=============================================================================

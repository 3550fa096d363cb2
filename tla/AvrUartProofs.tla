---------------------------- MODULE AvrUartProofs ----------------------------
(***************************************************************************)
(* For every capacity, USART depth and peer that fit under the deassert    *)
(* threshold: the ring never refuses a byte, CTS follows the ring between  *)
(* its two thresholds, and no wake-up of the reader is lost; the bytes     *)
(* that the calls of read_to and read hand out, one call after the other,  *)
(* are the bytes the USART took, and read_to stops at terminators and      *)
(* nowhere else.                                                           *)
(***************************************************************************)
EXTENDS AvrUart, SequenceTheorems, TLAPS

Statuses == {"None", "Ok", "Complete", "DestinationEmpty"}

\* While CTS is deasserted, everything that can still come fits into the ring;
\* while it is asserted, a quarter of the ring is free.
RoomLeft ==
    /\ cts_high => Len(rx) + Len(hw) + lag <= Capacity
    /\ ~cts_high => DEASSERT_THRESHOLD <= free_space

Inv ==
    /\ TypeOK
    /\ CtsHysteresis
    /\ NothingDropped
    /\ ReaderArmed
    /\ RoomLeft

LEMMA Thresholds ==
    /\ DEASSERT_THRESHOLD \in Nat
    /\ REASSERT_THRESHOLD \in Nat
    /\ DEASSERT_THRESHOLD <= REASSERT_THRESHOLD
    /\ REASSERT_THRESHOLD < Capacity
    /\ HwDepth + PeerLag <= DEASSERT_THRESHOLD
    /\ Capacity \in Nat /\ Capacity > 0
    /\ DestLen \in Nat /\ DestLen > 0
    /\ HwDepth \in Nat /\ HwDepth > 0
    /\ MaxLine \in Nat /\ MaxLine > 0
    /\ MaxWrite \in Nat /\ MaxWrite > 0
    /\ PeerLag \in Nat
BY UartAssumption DEF DEASSERT_THRESHOLD, REASSERT_THRESHOLD

LEMMA AfterIsPlace ==
    ASSUME NEW byte \in Byte
    PROVE  After(byte) \in Place
BY Thresholds DEF After, Byte, Place

LEMMA Lengths ==
    ASSUME TypeOK
    PROVE  Len(rx) \in Nat /\ Len(hw) \in Nat /\ Len(dest) \in Nat
BY LenProperties DEF TypeOK

LEMMA InitFacts ==
    ASSUME Init
    PROVE  Inv
<1>0. /\ <<>> \in Seq(Byte) /\ Len(<<>>) = 0
      /\ 0 \in 0..(MaxLine - 1) /\ 1 \in Place /\ 0 \in 0..MaxWrite /\ PeerLag \in 0..PeerLag
      /\ 0 <= HwDepth /\ 0 <= Capacity /\ 0 <= DestLen
  BY Thresholds, EmptySeq DEF Place
<1>1. TypeOK
  BY <1>0 DEF Init, TypeOK, NoAnswer
<1>2. CtsHysteresis /\ RoomLeft
  BY Thresholds, EmptySeq DEF Init, CtsHysteresis, RoomLeft, free_space
<1>3. NothingDropped /\ ReaderArmed
  BY DEF Init, NothingDropped, ReaderArmed
<1>4. QED
  BY <1>1, <1>2, <1>3 DEF Inv

\* A byte on the line keeps all but the lengths of what is on its way.
LEMMA LineFacts ==
    ASSUME Inv, LineStep,
           hw' \in Seq(Byte), Len(hw') <= HwDepth, taken' \in 0..(MaxLine - 1),
           cts_high => Len(hw') <= Len(hw) + 1
    PROVE  Inv'
<1> USE DEF Inv
<1>1. /\ UNCHANGED <<rx, cts_high, waker, woken, reader, op, dest, answer,
                     handed, sending, length, dropped>>
      /\ slot' = FALSE
      /\ cts_high => lag > 0 /\ lag' = lag - 1
      /\ ~cts_high => lag' = lag
  BY DEF LineStep, readVars
<1>2. lag' \in 0..PeerLag
  BY <1>1, Thresholds DEF TypeOK
<1>3. TypeOK'
  BY <1>1, <1>2 DEF TypeOK
<1>4. RoomLeft'
  <2>1. Len(hw') \in Nat /\ lag \in Nat
    BY LenProperties, Thresholds DEF TypeOK
  <2>2. QED
    BY <1>1, <2>1, Lengths, Thresholds DEF RoomLeft, free_space
<1>5. CtsHysteresis' /\ NothingDropped' /\ ReaderArmed'
  BY <1>1 DEF CtsHysteresis, NothingDropped, ReaderArmed, free_space
<1>6. QED
  BY <1>3, <1>4, <1>5

\* The steps that touch neither the ring nor flow control.
LEMMA QuietFacts ==
    ASSUME Inv, UNCHANGED <<taken, lag, hw, rx, cts_high, dropped>>,
           reader' \in {"idle", "reading", "waiting"},
           op' \in {"read_to", "read"},
           reader' = "waiting" => waker' /\ rx = <<>>,
           waker' \in BOOLEAN, woken' \in BOOLEAN, slot' \in BOOLEAN,
           dest' \in Seq(Byte), Len(dest') <= DestLen,
           answer' \in [status : Statuses,
                        data : Seq(Byte)],
           Len(answer'.data) <= DestLen,
           handed' \in Place,
           sending' \in 0..MaxWrite,
           length' \in 0..MaxWrite
    PROVE  Inv'
<1>1. TypeOK'
  BY DEF Inv, TypeOK, Statuses
<1>2. QED
  BY <1>1 DEF Inv, CtsHysteresis, NothingDropped, ReaderArmed, RoomLeft,
              free_space

\* The receive interrupt always finds room.
LEMMA InterruptFacts ==
    ASSUME Inv, USART1_RX
    PROVE  Inv'
<1> USE DEF Inv
<1>1. /\ Len(hw) > 0 /\ Head(hw) \in Byte
      /\ hw' = Tail(hw) /\ hw' \in Seq(Byte) /\ Len(hw') = Len(hw) - 1
  BY HeadTailProperties, EmptySeq DEF USART1_RX, TypeOK
<1>2. Len(rx) < Capacity
  BY <1>1, Lengths, Thresholds DEF RoomLeft, free_space, TypeOK
<1>3. /\ rx' = Append(rx, Head(hw)) /\ dropped' = dropped
      /\ rx' \in Seq(Byte) /\ Len(rx') = Len(rx) + 1
      /\ Len(rx') <= Capacity /\ Len(hw') <= HwDepth
  <2>1. rx' = Append(rx, Head(hw)) /\ dropped' = dropped
    BY <1>2 DEF USART1_RX
  <2>2. rx' \in Seq(Byte) /\ Len(rx') = Len(rx) + 1
    BY <1>1, <2>1, AppendProperties DEF TypeOK
  <2>3. Len(rx') <= Capacity /\ Len(hw') <= HwDepth
    BY <1>1, <1>2, <2>2, Lengths, Thresholds DEF TypeOK
  <2>4. QED
    BY <2>1, <2>2, <2>3
<1>4. /\ DeassertCts(Capacity - Len(rx'))
      /\ waker' = FALSE /\ woken' = (woken \/ waker)
      /\ UNCHANGED <<taken, reader, op, dest, answer, handed, sending, slot, length>>
  BY DEF USART1_RX, WakeReader, readVars, sendVars
<1>5. CASE Capacity - Len(rx') < DEASSERT_THRESHOLD
  <2>1. cts_high' = TRUE /\ lag' = IF cts_high THEN lag ELSE PeerLag
    BY <1>4, <1>5 DEF DeassertCts
  <2>2. Len(rx') + Len(hw') + lag' <= Capacity
    <3>1. CASE cts_high
      BY <1>1, <1>3, <2>1, <3>1, Lengths, Thresholds DEF RoomLeft, TypeOK
    <3>2. CASE ~cts_high
      BY <1>1, <1>3, <2>1, <3>2, Lengths, Thresholds
         DEF RoomLeft, TypeOK, free_space
    <3>3. QED
      BY <3>1, <3>2
  <2>3. RoomLeft' /\ CtsHysteresis'
    BY <1>3, <1>5, <2>1, <2>2, Lengths, Thresholds
       DEF RoomLeft, CtsHysteresis, free_space
  <2>4. TypeOK'
    <3>1. lag' \in 0..PeerLag
      BY <2>1, Thresholds DEF TypeOK
    <3>2. QED
      BY <1>1, <1>3, <1>4, <2>1, <3>1 DEF TypeOK
  <2>5. QED
    BY <1>3, <1>4, <2>3, <2>4 DEF NothingDropped, ReaderArmed, TypeOK
<1>6. CASE ~(Capacity - Len(rx') < DEASSERT_THRESHOLD)
  <2>1. cts_high' = cts_high /\ lag' = lag
    BY <1>4, <1>6 DEF DeassertCts
  <2>2. RoomLeft' /\ CtsHysteresis'
    BY <1>1, <1>3, <1>6, <2>1, Lengths, Thresholds
       DEF RoomLeft, CtsHysteresis, free_space, TypeOK
  <2>3. TypeOK'
    BY <1>1, <1>3, <1>4, <2>1 DEF TypeOK
  <2>4. QED
    BY <1>3, <1>4, <2>2, <2>3 DEF NothingDropped, ReaderArmed, TypeOK
<1>7. QED
  BY <1>5, <1>6

\* What is left of the ring when n bytes are taken.
LEMMA Rest ==
    ASSUME NEW seq \in Seq(Byte), NEW n \in Nat, n <= Len(seq)
    PROVE  /\ SubSeq(seq, n + 1, Len(seq)) \in Seq(Byte)
           /\ Len(SubSeq(seq, n + 1, Len(seq))) = Len(seq) - n
<1> DEFINE m == n + 1
           l == Len(seq)
<1>1. l \in Nat /\ m \in Int /\ l \in Int
  BY LenProperties
<1>2. \A i \in 1..l : seq[i] \in Byte
  BY ElementOfSeq
<1>3. \A i \in m..l : seq[i] \in Byte
  BY <1>1, <1>2
<1>4. (IF m <= l THEN l - m + 1 ELSE 0) = l - n
  BY <1>1
<1> HIDE DEF m, l
<1>5. /\ SubSeq(seq, m, l) \in Seq(Byte)
      /\ Len(SubSeq(seq, m, l)) = IF m <= l THEN l - m + 1 ELSE 0
  BY <1>1, <1>3, SubSeqProperties
<1>6. QED
  BY <1>4, <1>5 DEF m, l

\* A read of n bytes; CTS comes back once more than half is free.
LEMMA ReadFacts ==
    ASSUME Inv, ReadBytes
    PROVE  Inv'
<1> USE DEF Inv
<1>1. PICK n \in 1..Len(rx) :
        /\ Take(n)
        /\ \/ Cut(n, DestLen - Len(dest)) /\ Collect(n)
           \/ n = Lesser(DestLen, Len(rx)) /\ Return("Ok", SubSeq(rx, 1, n))
  BY DEF ReadBytes, try_read_to, read
<1>2. /\ UNCHANGED <<taken, lag, hw, waker, woken, sending, slot, length,
                     dropped>>
      /\ rx' = SubSeq(rx, n + 1, Len(rx))
      /\ ReassertCts(Capacity - Len(rx'))
      /\ reader = "reading"
      /\ op' = op /\ handed' = handed
  BY <1>1 DEF Take, Collect, Return, peerVars, sendVars
<1>3. n \in Nat /\ n <= Len(rx)
  BY <1>1, Lengths, Thresholds
<1>4. rx' \in Seq(Byte) /\ Len(rx') = Len(rx) - n
  <2>1. rx \in Seq(Byte)
    BY DEF TypeOK
  <2>2. QED
    BY <1>2, <1>3, <2>1, Rest
<1>5. /\ SubSeq(rx, 1, n) \in Seq(Byte)
      /\ Len(SubSeq(rx, 1, n)) = n
  <2>1. \A i \in 1..n : rx[i] \in Byte
    BY <1>3, ElementOfSeq, Lengths DEF TypeOK
  <2>2. 1 <= n
    BY <1>1, Lengths
  <2>3. QED
    BY <1>3, <2>1, <2>2, SubSeqProperties
<1>6. /\ dest \o SubSeq(rx, 1, n) \in Seq(Byte)
      /\ Len(dest \o SubSeq(rx, 1, n)) = Len(dest) + n
  BY <1>5, ConcatProperties DEF TypeOK
<1>7. /\ reader' \in {"idle", "reading"}
      /\ dest' \in Seq(Byte) /\ Len(dest') <= DestLen
      /\ answer' \in [status : Statuses,
                      data : Seq(Byte)]
      /\ Len(answer'.data) <= DestLen
  <2>1. <<>> \in Seq(Byte) /\ Len(<<>>) <= DestLen
    BY EmptySeq, Thresholds
  <2>2. CASE n = Lesser(DestLen, Len(rx)) /\ Return("Ok", SubSeq(rx, 1, n))
    <3> DEFINE data == SubSeq(rx, 1, n)
    <3>1. data \in Seq(Byte) /\ Len(data) <= DestLen
      BY <1>5, <2>2, Lengths, Thresholds DEF Lesser
    <3>2. /\ reader' = "idle" /\ dest' = <<>>
          /\ answer' = [status |-> "Ok", data |-> data]
      BY <2>2 DEF Return
    <3> HIDE DEF data
    <3>3. QED
      BY <2>1, <3>1, <3>2 DEF Statuses
  <2>3. CASE Cut(n, DestLen - Len(dest)) /\ Collect(n)
    <3> DEFINE line == dest \o SubSeq(rx, 1, n)
    <3>1. line \in Seq(Byte) /\ Len(line) <= DestLen
      BY <1>3, <1>6, <2>3, Lengths, Thresholds DEF Cut, Lesser
    <3>2. CASE rx[n].term
      <4>1. /\ reader' = "idle" /\ dest' = <<>>
            /\ answer' = [status |-> "Complete", data |-> line]
        BY <2>3, <3>2 DEF Collect, Return
      <4> HIDE DEF line
      <4>2. QED
        BY <2>1, <3>1, <4>1 DEF Statuses
    <3>3. CASE ~rx[n].term
      <4>1. dest' = line /\ UNCHANGED <<reader, answer>>
        BY <2>3, <3>3 DEF Collect
      <4> HIDE DEF line
      <4>2. QED
        BY <1>2, <3>1, <4>1 DEF TypeOK, Statuses
    <3>4. QED
      BY <3>2, <3>3
  <2>4. QED
    BY <1>1, <2>2, <2>3
<1>8. cts_high' \in BOOLEAN
  BY <1>2 DEF ReassertCts, TypeOK
<1>9. TypeOK'
  <2>1. Len(rx') <= Capacity
    BY <1>1, <1>3, <1>4, Lengths, Thresholds DEF TypeOK
  <2>2. QED
    BY <1>2, <1>4, <1>7, <1>8, <2>1 DEF TypeOK, Statuses
<1>10. RoomLeft' /\ CtsHysteresis'
  <2>1. CASE REASSERT_THRESHOLD < Capacity - Len(rx')
    <3>1. cts_high' = FALSE
      BY <1>2, <2>1 DEF ReassertCts
    <3>2. QED
      BY <1>4, <2>1, <3>1, Lengths, Thresholds, <1>3
         DEF RoomLeft, CtsHysteresis, free_space
  <2>2. CASE ~(REASSERT_THRESHOLD < Capacity - Len(rx'))
    <3>1. cts_high' = cts_high
      BY <1>2, <2>2 DEF ReassertCts
    <3>2. lag \in Nat
      BY Thresholds DEF TypeOK
    <3>3. QED
      BY <1>2, <1>3, <1>4, <2>2, <3>1, <3>2, Lengths, Thresholds
         DEF RoomLeft, CtsHysteresis, free_space
  <2>3. QED
    BY <2>1, <2>2
<1>11. QED
  BY <1>2, <1>7, <1>9, <1>10 DEF NothingDropped, ReaderArmed

LEMMA StepFacts ==
    ASSUME Inv, [Next]_vars
    PROVE  Inv'
<1> USE DEF Inv
<1>0. /\ TypeOK /\ <<>> \in Seq(Byte) /\ Len(<<>>) = 0
      /\ NoAnswer \in [status : Statuses,
                       data : Seq(Byte)]
      /\ Len(NoAnswer.data) <= DestLen
  BY EmptySeq, Thresholds DEF NoAnswer, Statuses
<1>1. ASSUME NEW byte \in Byte, Arrive(byte)
      PROVE  Inv'
  <2>1. /\ hw' \in Seq(Byte) /\ Len(hw') = Len(hw) + 1
    BY <1>1, AppendProperties DEF Arrive, TypeOK
  <2>2. taken' \in 0..(MaxLine - 1)
    <3>1. /\ byte.place \in 1..MaxLine
          /\ byte.place = MaxLine => byte.term
      BY DEF Byte, Place
    <3>2. QED
      BY <1>1, <3>1, Thresholds DEF Arrive, TypeOK
  <2>3. QED
    BY <1>1, <2>1, <2>2, LineFacts, Lengths, Thresholds DEF Arrive
<1>2. CASE Overrun
  BY <1>2, LineFacts, Lengths, Thresholds DEF Overrun, TypeOK
<1>3. CASE USART1_RX
  BY <1>3, InterruptFacts
<1>4. CASE StartRead
  <2>1. /\ UNCHANGED <<taken, lag, hw, rx, cts_high, dropped, waker, woken, dest,
                       sending, slot, length>>
        /\ reader' = "reading" /\ answer' = NoAnswer
        /\ op' \in {"read_to", "read"}
        /\ handed' = IF answer.data = <<>> THEN handed
                     ELSE After(answer.data[Len(answer.data)])
    BY <1>4 DEF StartRead, Start, peerVars, sendVars
  <2>2. handed' \in Place
    <3>1. CASE answer.data = <<>>
      BY <2>1, <3>1 DEF TypeOK
    <3>2. CASE answer.data # <<>>
      <4>1. answer.data \in Seq(Byte)
        BY DEF TypeOK
      <4>2. Len(answer.data) \in Nat \ {0}
        BY <3>2, <4>1, EmptySeq
      <4>3. answer.data[Len(answer.data)] \in Byte
        BY <4>1, <4>2, ElementOfSeq
      <4>4. QED
        BY <2>1, <3>2, <4>3, AfterIsPlace
    <3>3. QED
      BY <3>1, <3>2
  <2>3. QED
    BY <1>0, <2>1, <2>2, QuietFacts DEF TypeOK, Statuses
<1>5. CASE ReadNoRoom
  <2>1. /\ UNCHANGED <<taken, lag, hw, rx, cts_high, dropped, waker, woken,
                       op, handed, sending, slot, length>>
        /\ reader' = "idle" /\ dest' = <<>>
        /\ answer' = [status |-> "DestinationEmpty", data |-> dest]
    BY <1>5 DEF ReadNoRoom, Return, peerVars, sendVars
  <2>2. QED
    BY <1>0, <2>1, QuietFacts, Thresholds DEF TypeOK, Statuses
<1>6. CASE ReadPending
  <2>1. /\ UNCHANGED <<taken, lag, hw, rx, cts_high, dropped, woken, op, dest,
                       answer, handed, sending, slot, length>>
        /\ reader' = "waiting" /\ waker' = TRUE /\ rx = <<>>
    BY <1>6 DEF ReadPending, peerVars, sendVars
  <2>2. QED
    BY <1>0, <2>1, QuietFacts DEF TypeOK, Statuses
<1>7. CASE ReadBytes
  BY <1>7, ReadFacts
<1>8. CASE Repoll
  <2>1. /\ UNCHANGED <<taken, lag, hw, rx, cts_high, dropped, waker, op, dest,
                       answer, handed, sending, slot, length>>
        /\ reader' = "reading" /\ woken' = FALSE
    BY <1>8 DEF Repoll, peerVars, sendVars
  <2>2. QED
    BY <1>0, <2>1, QuietFacts DEF TypeOK, Statuses
<1>9. CASE (\E n \in 1..MaxWrite : StartWrite(n)) \/ SendByte \/ UNCHANGED vars
  <2>1. /\ UNCHANGED <<taken, lag, hw, rx, cts_high, dropped, waker, woken, reader,
                       op, dest, answer, handed>>
        /\ slot' \in BOOLEAN
        /\ sending' \in 0..MaxWrite
        /\ length' \in 0..MaxWrite
    <3>1. CASE \E n \in 1..MaxWrite : StartWrite(n)
      BY <3>1, Thresholds DEF StartWrite, peerVars, readVars
    <3>2. CASE SendByte
      BY <3>2, Thresholds DEF SendByte, peerVars, readVars, TypeOK
    <3>3. CASE UNCHANGED vars
      BY <3>3 DEF vars, peerVars, readVars, sendVars, TypeOK
    <3>4. QED
      BY <1>9, <3>1, <3>2, <3>3
  <2>2. TypeOK'
    BY <2>1 DEF TypeOK
  <2>3. QED
    BY <2>1, <2>2
       DEF CtsHysteresis, NothingDropped, ReaderArmed, RoomLeft, free_space
<1>10. QED
  BY <1>1, <1>2, <1>3, <1>4, <1>5, <1>6, <1>7, <1>8, <1>9 DEF Next, ReadStep

LEMMA Invariance == Spec => []Inv
<1>1. Init => Inv
  BY InitFacts
<1>2. Inv /\ [Next]_vars => Inv'
  BY StepFacts
<1>3. QED
  BY <1>1, <1>2, PTL DEF Spec

\* The ignored result of write_byte in the receive interrupt is always Ok, as
\* long as the USART and the peer's lag fit under the deassert threshold.
THEOREM RingNeverRefuses == Spec => []NothingDropped
BY Invariance, PTL DEF Inv

\* Type correctness: what a read copies fits the caller's slice, and the ring
\* never holds more than its capacity.
THEOREM UartTyped == Spec => []TypeOK
BY Invariance, PTL DEF Inv

\* CTS is deasserted below a quarter and asserted above a half.
THEOREM CtsFollowsRing == Spec => []CtsHysteresis
BY Invariance, PTL DEF Inv

\* A reader that waits is signalled, or waits on an empty ring with its waker.
THEOREM ReaderNotForgotten == Spec => []ReaderArmed
BY Invariance, PTL DEF Inv

-----------------------------------------------------------------------------
(* Writes and the USART.                                                   *)

\* While interrupts are on, at most one byte waits as a write begins.  Then one
\* comes in with each byte sent, the first of them before anything was sent.
Incoming ==
    sending > 0 =>
        /\ sending <= length
        /\ Len(hw) <= (length - sending) + (IF slot THEN 1 ELSE 2)

Quiet == slot => sending > 0

LEMMA IncomingStep ==
    ASSUME Inv, Incoming, Quiet, [Next]_vars
    PROVE  Incoming' /\ Quiet'
<1> USE DEF Inv
<1>1. /\ Len(hw) \in Nat /\ sending \in Nat /\ length \in Nat
      /\ slot \in BOOLEAN
  BY LenProperties, Thresholds DEF TypeOK
<1>2. CASE (\E byte \in Byte : Arrive(byte)) \/ Overrun
  <2>1. Len(hw') \in Nat /\ Len(hw') <= Len(hw) + 1
    BY <1>1, <1>2 DEF Arrive, Overrun, TypeOK
  <2>2. /\ UNCHANGED <<sending, length>> /\ slot' = FALSE
        /\ sending > 0 => slot
    BY <1>2 DEF Arrive, Overrun, LineStep, InterruptsOn
  <2>3. QED
    BY <1>1, <2>1, <2>2 DEF Incoming, Quiet
<1>3. CASE USART1_RX
  BY <1>1, <1>3 DEF USART1_RX, InterruptsOn, sendVars, Incoming, Quiet
<1>4. CASE ReadStep \/ Repoll \/ UNCHANGED vars
  <2>1. UNCHANGED <<hw, sending, slot, length>>
    BY <1>4 DEF ReadStep, StartRead, Start, ReadNoRoom, ReadPending, ReadBytes,
                try_read_to, read, Take, Repoll, vars, sendVars
  <2>2. QED
    BY <2>1 DEF Incoming, Quiet
<1>5. CASE \E n \in 1..MaxWrite : StartWrite(n)
  BY <1>1, <1>5, Thresholds DEF StartWrite, Incoming, Quiet
<1>6. CASE SendByte
  <2>1. /\ sending > 0 /\ sending' = sending - 1
        /\ length' = IF sending > 1 THEN length ELSE 0
        /\ hw' = hw
    BY <1>6 DEF SendByte
  <2>2. slot' <=> sending > 1
    BY <1>6, Zenon DEF SendByte
  <2>3. CASE sending > 1
    <3>1. /\ sending' > 0 /\ length' = length
          /\ Len(hw) <= (length - sending) + 2 /\ sending <= length
      BY <1>1, <2>1, <2>3 DEF Incoming
    <3>2. QED
      BY <1>1, <2>2, <2>1, <2>3, <3>1 DEF Incoming, Quiet
  <2>4. CASE ~(sending > 1)
    <3>1. sending' = 0
      BY <1>1, <2>1, <2>4
    <3>2. QED
      BY <2>2, <2>4, <3>1 DEF Incoming, Quiet
  <2>5. QED
    BY <2>3, <2>4
<1>7. QED
  BY <1>2, <1>3, <1>4, <1>5, <1>6 DEF Next

\* A write shorter than what the USART holds costs no byte, whenever it comes.
THEOREM ShortWritesKeepAll == Spec => OnlyLongWritesOverrun
<1>1. Init => Incoming /\ Quiet
  BY DEF Init, Incoming, Quiet
<1>2. Inv /\ Incoming /\ Quiet /\ [Next]_vars => Incoming' /\ Quiet'
  BY IncomingStep
<1>3. Inv /\ Incoming /\ [Next]_vars => [Overrun => length >= HwDepth]_vars
  <2> SUFFICES ASSUME Inv, Incoming, Overrun
               PROVE  length >= HwDepth
    OBVIOUS
  <2>1. /\ Len(hw) = HwDepth /\ sending \in Nat /\ length \in Nat
        /\ slot \in BOOLEAN
    BY Thresholds DEF Overrun, Inv, TypeOK
  <2>2. hw # <<>>
    BY <2>1, Thresholds, EmptySeq
  <2>3. sending > 0 /\ slot
    BY <2>1, <2>2 DEF Overrun, LineStep, InterruptsOn
  <2>4. QED
    BY <2>1, <2>3, Thresholds DEF Incoming
<1>4. QED
  BY <1>1, <1>2, <1>3, Invariance, PTL DEF Spec, OnlyLongWritesOverrun

-----------------------------------------------------------------------------
(* The stream of bytes.                                                    *)

\* Nothing is kept between calls: a slice that is being filled belongs to a
\* read_to under way, which has not answered yet.
SliceOfCall ==
    /\ reader = "idle" \/ op = "read" => dest = <<>>
    /\ reader # "idle" => answer = NoAnswer

StreamInv == Inv /\ SliceOfCall /\ StreamIntact /\ LinesEndAtTerm

-----------------------------------------------------------------------------
(* Chains.                                                                 *)

LEMMA Regroup ==
    ASSUME NEW a \in Seq(Byte), NEW b \in Seq(Byte), NEW c \in Seq(Byte)
    PROVE  (a \o b) \o c = a \o (b \o c)
BY ConcatAssociative

\* A byte at the end of a chain makes it one byte longer.
LEMMA ChainAppend ==
    ASSUME NEW seq \in Seq(Byte), NEW byte \in Byte,
           NEW first, NEW next,
           Chain(seq, first, next), byte.place = next
    PROVE  Chain(Append(seq, byte), first, After(byte))
<1> DEFINE long == Append(seq, byte)
<1>1. /\ long # <<>> /\ Len(long) = Len(seq) + 1
      /\ \A i \in 1..Len(seq) : long[i] = seq[i]
      /\ long[Len(seq) + 1] = byte
      /\ Len(seq) \in Nat
  BY AppendProperties, LenProperties
<1>2. Len(seq) = 0 <=> seq = <<>>
  BY EmptySeq
<1> HIDE DEF long
<1>3. ASSUME NEW i \in 1..(Len(long) - 1)
      PROVE  long[i + 1].place = After(long[i])
  <2>1. i \in 1..Len(seq) /\ seq # <<>>
    BY <1>1, <1>2
  <2>2. CASE i = Len(seq)
    BY <1>1, <2>1, <2>2 DEF Chain
  <2>3. CASE i # Len(seq)
    <3>1. i \in 1..(Len(seq) - 1) /\ i + 1 \in 1..Len(seq)
      BY <1>1, <2>1, <2>3
    <3>2. QED
      BY <1>1, <2>1, <3>1 DEF Chain
  <2>4. QED
    BY <2>2, <2>3
<1>4. long[1].place = first
  BY <1>1, <1>2 DEF Chain
<1>5. After(long[Len(long)]) = After(byte)
  BY <1>1
<1>6. Chain(long, first, After(byte))
  BY <1>1, <1>3, <1>4, <1>5 DEF Chain
<1>7. QED
  BY <1>6 DEF long

\* The rest of a chain is a chain that starts where the first part ends.
LEMMA ChainRest ==
    ASSUME NEW s \in Seq(Byte), NEW t \in Seq(Byte), NEW first, NEW next,
           s # <<>>, Chain(s \o t, first, next)
    PROVE  Chain(t, After(s[Len(s)]), next)
<1> DEFINE whole == s \o t
<1>1. /\ whole \in Seq(Byte) /\ Len(whole) = Len(s) + Len(t)
      /\ Len(s) \in Nat /\ Len(t) \in Nat
      /\ \A i \in 1..Len(s) : whole[i] = s[i]
      /\ \A i \in 1..Len(t) : whole[Len(s) + i] = t[i]
  BY ConcatProperties, LenProperties
<1>2. /\ Len(s) > 0
      /\ Len(t) = 0 <=> t = <<>>
      /\ whole # <<>>
  BY <1>1, EmptySeq
<1> HIDE DEF whole
<1>3. Chain(whole, first, next)
  BY DEF whole
<1>4. ASSUME NEW i \in 1..(Len(t) - 1)
      PROVE  t[i + 1].place = After(t[i])
  <2>1. /\ Len(s) + i \in 1..(Len(whole) - 1)
        /\ i \in 1..Len(t) /\ i + 1 \in 1..Len(t)
        /\ (Len(s) + i) + 1 = Len(s) + (i + 1)
    BY <1>1, <1>2
  <2>2. whole[Len(s) + i] = t[i] /\ whole[Len(s) + (i + 1)] = t[i + 1]
    BY <1>1, <2>1
  <2>3. whole[(Len(s) + i) + 1].place = After(whole[Len(s) + i])
    BY <1>3, <2>1 DEF Chain
  <2>4. QED
    BY <2>1, <2>2, <2>3
<1>5. CASE t = <<>>
  <2>1. Len(whole) = Len(s) /\ whole[Len(s)] = s[Len(s)]
    BY <1>1, <1>2, <1>5
  <2>2. QED
    BY <1>2, <1>3, <1>4, <1>5, <2>1 DEF Chain
<1>6. CASE t # <<>>
  <2>1. /\ Len(s) \in 1..(Len(whole) - 1)
        /\ whole[Len(s)] = s[Len(s)]
        /\ whole[Len(s) + 1] = t[1]
        /\ whole[Len(whole)] = t[Len(t)]
    BY <1>1, <1>2, <1>6
  <2>2. QED
    BY <1>2, <1>3, <1>4, <1>6, <2>1 DEF Chain
<1>7. QED
  BY <1>5, <1>6

-----------------------------------------------------------------------------
(* Where a byte goes from and to.                                          *)

LEMMA InterruptMoves ==
    ASSUME NEW s \in Seq(Byte), NEW t \in Seq(Byte), NEW u \in Seq(Byte),
           u # <<>>
    PROVE  (s \o Append(t, Head(u))) \o Tail(u) = (s \o t) \o u
<1>1. Head(u) \in Byte /\ Tail(u) \in Seq(Byte) /\ <<Head(u)>> \in Seq(Byte)
  BY HeadTailProperties
<1>2. Append(t, Head(u)) = t \o <<Head(u)>>
  BY <1>1, AppendIsConcat
<1>3. u = <<Head(u)>> \o Tail(u)
  <2>1. Len(u) \in Nat \ {0}
    BY EmptySeq
  <2>2. SubSeq(u, 1, Len(u)) = <<u[1]>> \o SubSeq(u, 2, Len(u))
    BY <2>1, SubSeqRecursiveFirst
  <2>3. SubSeq(u, 1, Len(u)) = u /\ Tail(u) = SubSeq(u, 2, Len(u))
    BY SubSeqFull, TailIsSubSeq
  <2>4. Head(u) = u[1]
    OBVIOUS
  <2>5. QED
    BY <2>2, <2>3, <2>4
<1>4. s \o t \in Seq(Byte)
  BY ConcatProperties
<1> DEFINE e == <<Head(u)>>
           r == Tail(u)
<1>5. e \in Seq(Byte) /\ r \in Seq(Byte)
  BY <1>1
<1>6. Append(t, Head(u)) = t \o e /\ u = e \o r
  BY <1>2, <1>3
<1> HIDE DEF e, r
<1>7. (s \o (t \o e)) \o r = ((s \o t) \o e) \o r
  <2>1. (s \o t) \o e = s \o (t \o e)
    BY <1>5, Regroup, Zenon
  <2>2. QED
    BY <2>1
<1>8. ((s \o t) \o e) \o r = (s \o t) \o (e \o r)
  <2> DEFINE st == s \o t
  <2>1. st \in Seq(Byte)
    BY <1>4
  <2> HIDE DEF st
  <2>2. (st \o e) \o r = st \o (e \o r)
    BY <1>5, <2>1, Regroup, Zenon
  <2>3. QED
    BY <2>2 DEF st
<1>9. (s \o Append(t, Head(u))) \o r = (s \o t) \o u
  BY <1>6, <1>7, <1>8
<1>10. QED
  BY <1>9 DEF r

\* A read cuts the ring in two; nothing is between the two parts.
LEMMA RingCut ==
    ASSUME NEW seq \in Seq(Byte), NEW n \in 1..Len(seq)
    PROVE  /\ SubSeq(seq, 1, n) \in Seq(Byte)
           /\ SubSeq(seq, n + 1, Len(seq)) \in Seq(Byte)
           /\ SubSeq(seq, 1, n) \o SubSeq(seq, n + 1, Len(seq)) = seq
           /\ Len(SubSeq(seq, 1, n)) = n
           /\ \A i \in 1..n : SubSeq(seq, 1, n)[i] = seq[i]
<1>1. Len(seq) \in Nat /\ n \in Nat
  BY LenProperties
<1>2. \A i \in 1..Len(seq) : seq[i] \in Byte
  BY ElementOfSeq
<1>3. /\ SubSeq(seq, 1, n) \in Seq(Byte)
      /\ Len(SubSeq(seq, 1, n)) = n
      /\ \A i \in 1..n : SubSeq(seq, 1, n)[i] = seq[i]
  <2>1. \A i \in 1..n : seq[i] \in Byte
    BY <1>1, <1>2
  <2>2. QED
    BY <1>1, <2>1, SubSeqProperties
<1>4. SubSeq(seq, n + 1, Len(seq)) \in Seq(Byte)
  <2>1. \A i \in (n + 1)..Len(seq) : seq[i] \in Byte
    BY <1>1, <1>2
  <2>2. QED
    BY <1>1, <2>1, SubSeqProperties
<1>5. SubSeq(seq, 1, n) \o SubSeq(seq, n + 1, Len(seq)) = seq
  <2>1. /\ 1 \in 1..(Len(seq) + 1) /\ n \in (1 - 1)..Len(seq)
        /\ Len(seq) \in n..Len(seq)
    BY <1>1
  <2>2. SubSeq(seq, 1, n) \o SubSeq(seq, n + 1, Len(seq))
          = SubSeq(seq, 1, Len(seq))
    BY <2>1, ConcatAdjacentSubSeq
  <2>3. QED
    BY <2>2, SubSeqFull
<1>6. QED
  BY <1>3, <1>4, <1>5

-----------------------------------------------------------------------------
(* The steps.                                                              *)

LEMMA InitStream ==
    ASSUME Init
    PROVE  StreamInv
<1>1. Inv
  BY InitFacts
<1>2. SliceOfCall
  BY DEF Init, SliceOfCall
<1>3. StreamIntact
  <2>1. ((<<>> \o <<>>) \o <<>>) \o <<>> = <<>>
    OBVIOUS
  <2>2. answer.data \o dest \o rx \o hw = <<>>
    BY <2>1 DEF Init, NoAnswer
  <2>3. Chain(<<>>, 1, 1)
    <3>1. Len(<<>>) = 0
      BY EmptySeq
    <3>2. QED
      BY <3>1 DEF Chain
  <2>4. handed = 1 /\ taken + 1 = 1
    BY DEF Init
  <2>5. QED
    BY <2>2, <2>3, <2>4 DEF StreamIntact
<1>4. LinesEndAtTerm
  BY EmptySeq DEF Init, LinesEndAtTerm, NoAnswer
<1>5. QED
  BY <1>1, <1>2, <1>3, <1>4 DEF StreamInv

\* Every byte on its way is typed.
LEMMA Parts ==
    ASSUME TypeOK
    PROVE  /\ answer.data \in Seq(Byte) /\ dest \in Seq(Byte)
           /\ rx \in Seq(Byte) /\ hw \in Seq(Byte)
           /\ answer.data \o dest \in Seq(Byte)
           /\ answer.data \o dest \o rx \in Seq(Byte)
           /\ answer.data \o dest \o rx \o hw \in Seq(Byte)
<1>1. /\ answer.data \in Seq(Byte) /\ dest \in Seq(Byte)
      /\ rx \in Seq(Byte) /\ hw \in Seq(Byte)
  BY DEF TypeOK
<1>2. answer.data \o dest \in Seq(Byte)
  BY <1>1, ConcatProperties
<1>3. answer.data \o dest \o rx \in Seq(Byte)
  BY <1>1, <1>2, ConcatProperties
<1>4. QED
  BY <1>1, <1>2, <1>3, ConcatProperties

LEMMA StreamOfArrive ==
    ASSUME StreamInv, NEW byte \in Byte, Arrive(byte)
    PROVE  StreamIntact'
<1> DEFINE before == answer.data \o dest \o rx
<1>1. /\ UNCHANGED <<answer, dest, rx, handed>>
      /\ byte.place = taken + 1
      /\ taken' = IF byte.term THEN 0 ELSE byte.place
      /\ hw' = Append(hw, byte)
  BY DEF Arrive, LineStep, readVars
<1>2. before \in Seq(Byte) /\ hw \in Seq(Byte) /\ before \o hw \in Seq(Byte)
  BY Parts DEF StreamInv, Inv
<1>3. Chain(before \o hw, handed, taken + 1)
  BY DEF StreamInv, StreamIntact
<1> HIDE DEF before
<1>4. before \o Append(hw, byte) = Append(before \o hw, byte)
  <2>1. <<byte>> \in Seq(Byte)
    OBVIOUS
  <2>2. /\ Append(hw, byte) = hw \o <<byte>>
        /\ Append(before \o hw, byte) = (before \o hw) \o <<byte>>
    BY <1>2, AppendIsConcat
  <2> DEFINE e == <<byte>>
  <2> HIDE DEF e
  <2>3. (before \o hw) \o e = before \o (hw \o e)
    BY <1>2, <2>1, Regroup DEF e
  <2>4. QED
    BY <2>2, <2>3 DEF e
<1>5. Chain(before \o Append(hw, byte), handed, After(byte))
  BY <1>1, <1>2, <1>3, <1>4, ChainAppend
<1>6. After(byte) = taken' + 1
  BY <1>1 DEF After, Byte, Place
<1>7. QED
  BY <1>1, <1>5, <1>6 DEF StreamIntact, before

LEMMA StreamOfInterrupt ==
    ASSUME StreamInv, USART1_RX
    PROVE  StreamIntact'
<1>1. /\ hw # <<>> /\ hw' = Tail(hw)
      /\ UNCHANGED <<answer, dest, handed, taken>>
  BY DEF USART1_RX, readVars
<1>2. rx' = Append(rx, Head(hw))
  <2>1. ~dropped'
    BY InterruptFacts DEF StreamInv, Inv, NothingDropped
  <2>2. QED
    BY <2>1 DEF USART1_RX
<1>3. answer.data \o dest \in Seq(Byte) /\ rx \in Seq(Byte) /\ hw \in Seq(Byte)
  BY Parts DEF StreamInv, Inv
<1>4. (answer.data \o dest \o Append(rx, Head(hw))) \o Tail(hw)
        = answer.data \o dest \o rx \o hw
  BY <1>1, <1>3, InterruptMoves
<1>5. QED
  BY <1>1, <1>2, <1>4 DEF StreamInv, StreamIntact

\* A read in progress: nothing has been answered, what read takes goes to an
\* empty slice.
LEMMA ReadBegins ==
    ASSUME StreamInv, reader = "reading"
    PROVE  /\ answer.status = "None" /\ answer.data = <<>>
           /\ op = "read" => dest = <<>>
           /\ answer.data \o dest \o rx = dest \o rx
<1>1. answer = NoAnswer /\ (op = "read" => dest = <<>>)
  BY DEF StreamInv, SliceOfCall
<1>2. answer.data = <<>> /\ answer.status = "None"
  BY <1>1 DEF NoAnswer
<1>3. <<>> \o dest = dest
  BY ConcatEmptySeq, Parts DEF StreamInv, Inv
<1>4. QED
  BY <1>1, <1>2, <1>3

LEMMA StreamOfStart ==
    ASSUME StreamInv, StartRead
    PROVE  StreamIntact'
<1> DEFINE a == answer.data
           d == dest
           r == rx
           h == hw
<1>1. /\ answer' = NoAnswer /\ UNCHANGED <<dest, rx, hw, taken>>
      /\ handed' = IF a = <<>> THEN handed ELSE After(a[Len(a)])
  BY DEF StartRead, Start, peerVars
<1>2. /\ a \in Seq(Byte) /\ d \in Seq(Byte) /\ r \in Seq(Byte) /\ h \in Seq(Byte)
      /\ d \o r \in Seq(Byte)
  BY Parts, ConcatProperties DEF StreamInv, Inv
<1>3. Chain(a \o d \o r \o h, handed, taken + 1)
  BY DEF StreamInv, StreamIntact
<1> HIDE DEF a, d, r, h
<1>4. /\ a \o d \o r \o h = a \o ((d \o r) \o h)
      /\ <<>> \o d \o r \o h = (d \o r) \o h
      /\ (d \o r) \o h \in Seq(Byte)
  <2>1. (a \o d) \o r = a \o (d \o r)
    BY <1>2, Regroup, Zenon
  <2>2. (a \o (d \o r)) \o h = a \o ((d \o r) \o h)
    <3> DEFINE dr == d \o r
    <3>1. dr \in Seq(Byte)
      BY <1>2
    <3> HIDE DEF dr
    <3>2. (a \o dr) \o h = a \o (dr \o h)
      <4>1. a \in Seq(Byte) /\ h \in Seq(Byte)
        BY <1>2
      <4>2. QED
        BY <3>1, <4>1, Regroup, Zenon
    <3>3. QED
      BY <3>2 DEF dr
  <2>3. <<>> \o d = d
    BY <1>2, ConcatEmptySeq
  <2>4. QED
    BY <1>2, <2>1, <2>2, <2>3, ConcatProperties
<1>5. Chain((d \o r) \o h, handed', taken + 1)
  <2>1. CASE a = <<>>
    BY <1>1, <1>3, <1>4, <2>1
  <2>2. CASE a # <<>>
    BY <1>1, <1>2, <1>3, <1>4, <2>2, ChainRest
  <2>3. QED
    BY <2>1, <2>2
<1>6. Chain(<<>> \o d \o r \o h, handed', taken' + 1)
  BY <1>1, <1>4, <1>5
<1>7. answer'.data = <<>>
  BY <1>1 DEF NoAnswer
<1>8. QED
  BY <1>1, <1>6, <1>7 DEF StreamIntact, d, r, h

LEMMA StreamOfNoRoom ==
    ASSUME StreamInv, ReadNoRoom
    PROVE  StreamIntact'
<1>1. /\ answer'.data = dest /\ dest' = <<>>
      /\ UNCHANGED <<rx, hw, taken, handed>>
      /\ reader = "reading"
  BY DEF ReadNoRoom, Return, peerVars
<1>2. dest \in Seq(Byte)
  BY Parts DEF StreamInv, Inv
<1>3. dest \o <<>> = dest
  BY <1>2, ConcatEmptySeq
<1>4. answer'.data \o dest' \o rx' \o hw' = answer.data \o dest \o rx \o hw
  BY <1>1, <1>3, ReadBegins
<1>5. QED
  BY <1>1, <1>4 DEF StreamInv, StreamIntact

\* The bytes a read takes go to the end of the slice, or of the answer.
LEMMA StreamOfRead ==
    ASSUME StreamInv, ReadBytes
    PROVE  StreamIntact'
<1>1. PICK n \in 1..Len(rx) :
        /\ Take(n)
        /\ \/ op = "read_to" /\ Collect(n)
           \/ op = "read" /\ Return("Ok", SubSeq(rx, 1, n))
  BY DEF ReadBytes, try_read_to, read
<1> DEFINE d == dest
           p == SubSeq(rx, 1, n)
           q == SubSeq(rx, n + 1, Len(rx))
<1>2. /\ reader = "reading" /\ rx' = q
      /\ UNCHANGED <<hw, taken, handed>>
  BY <1>1 DEF Take, Collect, Return, peerVars
<1>3. d \in Seq(Byte) /\ rx \in Seq(Byte)
  BY Parts DEF StreamInv, Inv
<1>4. p \in Seq(Byte) /\ q \in Seq(Byte) /\ p \o q = rx
  BY <1>3, RingCut
<1>5. \/ answer'.data = d \o p /\ dest' = <<>>
      \/ answer'.data = <<>> /\ dest' = d \o p
      \/ answer'.data = p /\ dest' = <<>> /\ d = <<>>
  BY <1>1, <1>2, ReadBegins DEF Collect, Return
<1> HIDE DEF d, p, q
<1>6. (d \o p) \o q = d \o rx
  <2>1. (d \o p) \o q = d \o (p \o q)
    <3>1. d \in Seq(Byte) /\ p \in Seq(Byte) /\ q \in Seq(Byte)
      BY <1>3, <1>4
    <3>2. QED
      BY <3>1, Regroup, Zenon
  <2>2. QED
    BY <1>4, <2>1
<1>7. answer'.data \o dest' = d \o p
  <2>1. d \o p \in Seq(Byte)
    BY <1>3, <1>4, ConcatProperties
  <2>2. /\ (d \o p) \o <<>> = d \o p
        /\ <<>> \o (d \o p) = d \o p
        /\ p \o <<>> = p /\ <<>> \o p = p
    BY <1>4, <2>1, ConcatEmptySeq
  <2>3. QED
    BY <1>5, <2>2
<1>8. answer'.data \o dest' \o rx' \o hw' = answer.data \o dest \o rx \o hw
  BY <1>2, <1>6, <1>7, ReadBegins DEF d
<1>9. QED
  BY <1>2, <1>8 DEF StreamInv, StreamIntact

-----------------------------------------------------------------------------
(* Terminators.                                                            *)

LEMMA LineOfRead ==
    ASSUME StreamInv, ReadBytes
    PROVE  LinesEndAtTerm'
<1>1. PICK n \in 1..Len(rx) :
        /\ reader = "reading"
        /\ \/ Cut(n, DestLen - Len(dest)) /\ Collect(n)
           \/ Return("Ok", SubSeq(rx, 1, n))
  BY DEF ReadBytes, try_read_to, read, Take
<1>2. CASE Return("Ok", SubSeq(rx, 1, n))
  BY <1>2, EmptySeq DEF Return, LinesEndAtTerm
<1>3. CASE Cut(n, DestLen - Len(dest)) /\ Collect(n)
  <2> DEFINE p == SubSeq(rx, 1, n)
             line == dest \o p
  <2>1. dest \in Seq(Byte) /\ rx \in Seq(Byte)
    BY Parts DEF StreamInv, Inv
  <2>2. p \in Seq(Byte) /\ Len(p) = n /\ \A i \in 1..n : p[i] = rx[i]
    BY <2>1, RingCut
  <2>3. Len(dest) \in Nat /\ Len(rx) \in Nat /\ n \in Nat \ {0}
    BY <2>1, LenProperties
  <2> HIDE DEF p
  <2>4. /\ Len(line) = Len(dest) + n
        /\ \A i \in 1..(Len(dest) + n) :
              line[i] = IF i <= Len(dest) THEN dest[i] ELSE p[i - Len(dest)]
    BY <2>1, <2>2, ConcatProperties
  <2>5. \A i \in 1..Len(dest) : ~dest[i].term
    BY DEF StreamInv, LinesEndAtTerm
  <2>6. \A i \in 1..(n - 1) : ~rx[i].term
    BY <1>3 DEF Cut
  <2>7. ASSUME NEW i \in 1..(Len(line) - 1)
        PROVE  ~line[i].term
    <3>1. CASE i <= Len(dest)
      BY <2>3, <2>4, <2>5, <3>1
    <3>2. CASE ~(i <= Len(dest))
      <4>1. i - Len(dest) \in 1..(n - 1) /\ i \in 1..(Len(dest) + n)
        BY <2>3, <2>4, <3>2
      <4>2. line[i] = rx[i - Len(dest)]
        BY <2>2, <2>3, <2>4, <3>2, <4>1
      <4>3. QED
        BY <2>6, <4>1, <4>2
    <3>3. QED
      BY <3>1, <3>2
  <2>8. line[Len(line)] = rx[n]
    <3>1. Len(line) \in 1..(Len(dest) + n) /\ ~(Len(line) <= Len(dest))
          /\ Len(line) - Len(dest) = n
      BY <2>3, <2>4
    <3>2. QED
      BY <2>2, <2>3, <2>4, <3>1
  <2>9. Len(line) \in Nat \ {0}
    BY <2>3, <2>4
  <2>10. CASE rx[n].term
    <3>1. dest' = <<>> /\ answer' = [status |-> "Complete", data |-> line]
      BY <1>3, <2>10 DEF Collect, Return, p
    <3>2. line # <<>>
      <4>1. Len(<<>>) = 0
        BY EmptySeq
      <4>2. QED
        BY <2>9, <4>1
    <3> HIDE DEF line
    <3>3. \A i \in 1..Len(dest') : ~dest'[i].term
      <4>1. Len(dest') = 0
        BY <3>1, EmptySeq
      <4>2. QED
        BY <4>1
    <3>4. answer'.status = "Complete" /\ answer'.data = line
      BY <3>1
    <3>5. line[Len(line)].term
      BY <2>8, <2>10
    <3>6. QED
      BY <2>7, <3>2, <3>3, <3>4, <3>5 DEF LinesEndAtTerm
  <2>11. CASE ~rx[n].term
    <3>1. dest' = line /\ answer' = answer
      BY <1>3, <2>11 DEF Collect, p
    <3> HIDE DEF line
    <3>2. answer.status = "None"
      <4>1. reader = "reading"
        BY <1>1
      <4>2. answer = NoAnswer
        BY <4>1 DEF StreamInv, SliceOfCall
      <4>3. QED
        BY <4>2 DEF NoAnswer
    <3>3. ASSUME NEW i \in 1..Len(line)
          PROVE  ~line[i].term
      <4>1. CASE i = Len(line)
        BY <2>8, <2>11, <4>1
      <4>2. CASE i # Len(line)
        <5>1. i \in 1..(Len(line) - 1)
          BY <2>9, <4>2
        <5>2. QED
          BY <2>7, <5>1
      <4>3. QED
        BY <4>1, <4>2
    <3>4. QED
      BY <3>1, <3>2, <3>3 DEF LinesEndAtTerm
  <2>12. QED
    BY <2>10, <2>11
<1>4. QED
  BY <1>1, <1>2, <1>3

LEMMA LineOfNoRoom ==
    ASSUME StreamInv, ReadNoRoom
    PROVE  LinesEndAtTerm'
<1>1. /\ dest' = <<>> /\ Len(dest) = DestLen
      /\ answer' = [status |-> "DestinationEmpty", data |-> dest]
  BY DEF ReadNoRoom, Return
<1>2. Len(<<>>) = 0 /\ DestLen \in Nat \ {0}
  BY EmptySeq, Thresholds
<1>3. dest # <<>> /\ \A i \in 1..Len(dest) : ~dest[i].term
  BY <1>1, <1>2 DEF StreamInv, LinesEndAtTerm
<1>4. \A i \in 1..(Len(dest) - 1) : ~dest[i].term
  BY <1>1, <1>2, <1>3
<1>5. ~dest[Len(dest)].term
  BY <1>1, <1>2, <1>3
<1>6. QED
  BY <1>1, <1>2, <1>3, <1>4, <1>5 DEF LinesEndAtTerm

LEMMA LineOfOthers ==
    ASSUME LinesEndAtTerm, UNCHANGED dest, answer' \in {answer, NoAnswer}
    PROVE  LinesEndAtTerm'
BY DEF LinesEndAtTerm, NoAnswer

-----------------------------------------------------------------------------

LEMMA StreamStep ==
    ASSUME StreamInv, [Next]_vars
    PROVE  StreamInv'
<1>1. Inv'
  BY StepFacts DEF StreamInv
<1>2. ASSUME NEW byte \in Byte, Arrive(byte)
      PROVE  StreamInv'
  <2>1. UNCHANGED <<reader, op, dest, answer>>
    BY <1>2 DEF Arrive, LineStep, readVars
  <2>2. QED
    BY <1>1, <1>2, <2>1, StreamOfArrive, LineOfOthers
       DEF StreamInv, SliceOfCall
<1>3. CASE USART1_RX
  <2>1. UNCHANGED <<reader, op, dest, answer>>
    BY <1>3 DEF USART1_RX, readVars
  <2>2. QED
    BY <1>1, <1>3, <2>1, StreamOfInterrupt, LineOfOthers
       DEF StreamInv, SliceOfCall
<1>4. CASE StartRead
  <2>1. /\ reader = "idle" /\ reader' = "reading"
        /\ UNCHANGED dest /\ answer' = NoAnswer
    BY <1>4 DEF StartRead, Start
  <2>2. QED
    BY <1>1, <1>4, <2>1, StreamOfStart, LineOfOthers
       DEF StreamInv, SliceOfCall
<1>5. CASE ReadNoRoom
  <2>1. reader' = "idle" /\ dest' = <<>>
    BY <1>5 DEF ReadNoRoom, Return
  <2>2. QED
    BY <1>1, <1>5, <2>1, StreamOfNoRoom, LineOfNoRoom
       DEF StreamInv, SliceOfCall
<1>6. CASE ReadBytes
  <2>1. SliceOfCall'
    BY <1>6
       DEF ReadBytes, try_read_to, read, Take, Collect, Return, StreamInv,
           SliceOfCall
  <2>2. QED
    BY <1>1, <1>6, <2>1, StreamOfRead, LineOfRead DEF StreamInv
<1>7. CASE \/ Overrun \/ ReadPending \/ Repoll \/ SendByte
           \/ \E n \in 1..MaxWrite : StartWrite(n)
           \/ UNCHANGED vars
  <2>1. /\ UNCHANGED <<taken, hw, rx, op, dest, answer, handed>>
        /\ reader' # reader => reader # "idle" /\ reader' # "idle"
    BY <1>7
       DEF Overrun, LineStep, ReadPending, Repoll, SendByte, StartWrite, vars,
           peerVars, readVars
  <2>2. StreamIntact' /\ SliceOfCall'
    BY <2>1 DEF StreamInv, StreamIntact, SliceOfCall
  <2>3. QED
    BY <1>1, <2>1, <2>2, LineOfOthers DEF StreamInv
<1>8. QED
  BY <1>2, <1>3, <1>4, <1>5, <1>6, <1>7 DEF Next, ReadStep

LEMMA StreamInvariance == Spec => []StreamInv
<1>1. Init => StreamInv
  BY InitStream
<1>2. StreamInv /\ [Next]_vars => StreamInv'
  BY StreamStep
<1>3. QED
  BY <1>1, <1>2, PTL DEF Spec

\* No byte that the USART took is lost, repeated or reordered on its way
\* through the ring, the partial reads of read_to and the calls of read.
THEOREM NothingLostInBetween == Spec => []StreamIntact
BY StreamInvariance, PTL DEF StreamInv

\* A Complete answer ends with its only terminator; a slice that was filled
\* without one is what DestinationEmpty stands for.
THEOREM CompleteIsOneLine == Spec => []LinesEndAtTerm
BY StreamInvariance, PTL DEF StreamInv
-----------------------------------------------------------------------------
(* The slice of a call.                                                    *)

\* What stands at the front of a slice stays when bytes are put behind it.
LEMMA FrontKept ==
    ASSUME NEW d \in Seq(Byte), NEW p \in Seq(Byte)
    PROVE  /\ d \o p \in Seq(Byte)
           /\ Len(d \o p) = Len(d) + Len(p)
           /\ SubSeq(d \o p, 1, Len(d)) = d
<1>1. /\ d \o p \in Seq(Byte) /\ Len(d \o p) = Len(d) + Len(p)
      /\ \A i \in 1..Len(d) : (d \o p)[i] = d[i]
  BY ConcatProperties
<1>2. Len(d) \in Nat /\ Len(p) \in Nat
  BY LenProperties
<1>3. /\ SubSeq(d \o p, 1, Len(d)) \in Seq(Byte)
      /\ Len(SubSeq(d \o p, 1, Len(d))) = Len(d)
      /\ \A i \in 1..Len(d) : SubSeq(d \o p, 1, Len(d))[i] = (d \o p)[i]
  <2>1. \A i \in 1..Len(d) : (d \o p)[i] \in Byte
    BY <1>1, ElementOfSeq
  <2>2. QED
    BY <1>2, <2>1, SubSeqProperties
<1>4. QED
  BY <1>1, <1>3, SeqEqual

\* A call begins with an empty slice.
LEMMA SliceOfStart ==
    ASSUME StreamInv, StartRead
    PROVE  Reads!Begin
<1>1. /\ reader = "idle" /\ reader' = "reading"
      /\ UNCHANGED dest /\ dest = <<>>
  BY DEF StartRead, Start, StreamInv, SliceOfCall
<1>2. DestLen \in Nat
  BY Thresholds
<1>3. QED
  BY <1>1, <1>2 DEF Reads!Begin

\* A full slice is answered as it is.
LEMMA SliceOfNoRoom ==
    ASSUME StreamInv, ReadNoRoom
    PROVE  Reads!Fail
<1>1. /\ reader = "reading" /\ reader' = "idle" /\ Len(dest) = DestLen
      /\ answer'.data = dest /\ answer'.status = "DestinationEmpty"
  BY DEF ReadNoRoom, Return
<1>2. dest \in Seq(Byte) /\ DestLen \in Nat /\ DestLen > 0
  BY Thresholds, Parts DEF StreamInv, Inv
<1>3. SubSeq(dest, 1, Len(dest)) = dest
  BY <1>2, SubSeqFull
<1>4. QED
  BY <1>1, <1>2, <1>3 DEF Reads!Fail, Reads!Grows

\* Bytes out of the ring are put behind the ones in the slice.
LEMMA SliceOfRead ==
    ASSUME StreamInv, StreamInv', ReadBytes
    PROVE  Reads!Fill \/ Reads!Succeed
<1>1. PICK n \in 1..Len(rx) :
        /\ Take(n)
        /\ \/ op = "read_to" /\ Collect(n)
           \/ op = "read" /\ Return("Ok", SubSeq(rx, 1, n))
  BY DEF ReadBytes, try_read_to, read
<1> DEFINE p == SubSeq(rx, 1, n)
<1>2. p \in Seq(Byte) /\ Len(p) = n /\ dest \in Seq(Byte) /\ n \in Nat /\ n > 0
  BY RingCut, Parts DEF StreamInv, Inv
<1> HIDE DEF p
<1>3. /\ Len(dest \o p) = Len(dest) + n
      /\ SubSeq(dest \o p, 1, Len(dest)) = dest
  BY <1>2, FrontKept
<1>4. Len(dest) \in Nat /\ DestLen \in Nat /\ DestLen > 0
  BY <1>2, Thresholds, LenProperties
<1>5. reader = "reading" /\ (op = "read" => dest = <<>>)
  BY <1>1, ReadBegins DEF Take
<1>6. CASE reader' = "idle"
  <2>1. answer'.data = dest \o p /\ answer'.status \in {"Ok", "Complete"}
    <3>1. CASE op = "read_to" /\ Collect(n)
      BY <1>5, <1>6, <3>1 DEF Collect, Return, p
    <3>2. CASE op = "read" /\ Return("Ok", SubSeq(rx, 1, n))
      BY <1>2, <1>5, <3>2, ConcatEmptySeq DEF Return, p
    <3>3. QED
      BY <1>1, <3>1, <3>2
  <2>2. Len(answer'.data) <= DestLen
    BY DEF StreamInv, Inv, TypeOK
  <2>3. dest \o p # <<>>
    BY <1>2, <1>3, <1>4, EmptySeq
  <2>4. QED
    BY <1>2, <1>3, <1>4, <1>5, <1>6, <2>1, <2>2, <2>3
       DEF Reads!Succeed, Reads!Grows
<1>7. CASE reader' # "idle"
  <2>1. dest' = dest \o p /\ reader' = reader
    BY <1>1, <1>5, <1>7 DEF Collect, Return, p
  <2>2. Len(dest') <= DestLen
    BY DEF StreamInv, Inv, TypeOK
  <2>3. QED
    BY <1>2, <1>3, <1>4, <1>5, <2>1, <2>2 DEF Reads!Fill, Reads!Grows
<1>8. QED
  BY <1>6, <1>7

\* Everything else leaves slice and answer alone.
LEMMA SliceOfOthers ==
    ASSUME \/ \E byte \in Byte : Arrive(byte)
           \/ Overrun \/ USART1_RX \/ ReadPending \/ Repoll \/ SendByte
           \/ \E n \in 1..MaxWrite : StartWrite(n)
           \/ UNCHANGED vars
    PROVE  UNCHANGED Reads!vars
<1>1. /\ UNCHANGED <<dest, answer>>
      /\ reader' # reader => reader # "idle" /\ reader' # "idle"
  BY DEF Arrive, Overrun, LineStep, USART1_RX, ReadPending, Repoll, SendByte,
         StartWrite, vars, readVars
<1>2. QED
  BY <1>1 DEF Reads!vars

\* Both calls keep what module SliceRead promises their callers, for every
\* slice and ring: bytes are put behind one another and stay, Ok comes with at
\* least one of them, and a call fails only with a full slice.
THEOREM CallsFillSlice == Spec => FillsSlice
<1>1. Init => Reads!Init
  BY DEF Init, NoAnswer, Reads!Init
<1>2. StreamInv /\ StreamInv' /\ [Next]_vars => [Reads!Next]_(Reads!vars)
  BY SliceOfStart, SliceOfNoRoom, SliceOfRead, SliceOfOthers
     DEF Next, ReadStep, Reads!Next
<1>3. QED
  BY <1>1, <1>2, StreamInvariance, PTL DEF Spec, FillsSlice, Reads!Spec
=============================================================================

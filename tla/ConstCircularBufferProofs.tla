--------------------- MODULE ConstCircularBufferProofs ---------------------
(***************************************************************************)
(* For every capacity, byte alphabet, set of source slices and set of      *)
(* destination sizes: the ring keeps its type invariant, its positions     *)
(* agree with its length, and it implements ByteFifo.                      *)
(***************************************************************************)
EXTENDS ConstCircularBuffer, SequenceTheorems, TLAPS

Inv == TypeOK /\ PositionsAgree

USE DEF Slots

\* A table indexed from 1 to n is a sequence of length n.
LEMMA TableIsSeq ==
    ASSUME NEW S, NEW n \in Nat, NEW table \in [1..n -> S]
    PROVE  /\ table \in Seq(S)
           /\ Len(table) = n
<1>1. table \in Seq(S)
  BY SeqDef
<1>2. Len(table) \in Nat /\ 1..Len(table) = 1..n
  BY <1>1, LenProperties
<1>3. Len(table) = n
  <2>1. CASE Len(table) > n
    BY <1>2, <2>1
  <2>2. CASE Len(table) < n
    BY <1>2, <2>2
  <2>3. QED
    BY <1>2, <2>1, <2>2
<1>4. QED
  BY <1>1, <1>3

\* The view of the ring as a queue is a sequence of len bytes.
LEMMA ContentsFacts ==
    ASSUME Inv
    PROVE  /\ Contents \in Seq(Byte)
           /\ Len(Contents) = len
           /\ \A i \in 1..len : Contents[i] = buf[Slot(r_pos + i - 1)]
<1> USE RingAssumption DEF Inv, TypeOK, PositionsAgree
<1>1. \A i \in 1..len : Slot(r_pos + i - 1) \in Slots
  BY DEF Slot
<1>2. Contents \in [1..len -> Byte]
  BY <1>1 DEF Contents
<1>3. Contents \in Seq(Byte) /\ Len(Contents) = len
  BY <1>2, TableIsSeq
<1>4. QED
  BY <1>3 DEF Contents

\* Bringing a position forward is the same as looking up the slot that many
\* bytes on, and it stays inside the storage.
LEMMA AdvanceFacts ==
    ASSUME NEW p \in Slots, NEW n \in 0..Capacity
    PROVE  /\ Advance(p, n) \in Slots
           /\ Advance(p, n) = Slot(p + n)
BY RingAssumption DEF Advance, Slot

\* The two block copies of a read deliver the oldest unread bytes in order.
LEMMA CopyOutFacts ==
    ASSUME Inv, NEW n \in 1..len
    PROVE  /\ CopyOut(n) = SubSeq(Contents, 1, n)
           /\ CopyOut(n) \in Seq(Byte)
<1> USE RingAssumption DEF Inv, TypeOK, PositionsAgree
<1>1. CopyOut(n) = [i \in 1..n |-> Contents[i]]
  <2>1. \A i \in 1..n : (IF i <= FirstCopy(r_pos, n) THEN buf[r_pos + i - 1]
                            ELSE buf[i - FirstCopy(r_pos, n) - 1])
                         = buf[Slot(r_pos + i - 1)]
    BY DEF FirstCopy, Lesser, Slot
  <2>2. QED
    BY <2>1, ContentsFacts DEF CopyOut
<1>2. SubSeq(Contents, 1, n) = [i \in 1..n |-> Contents[i]]
  BY ContentsFacts, SubSeqProperties
<1>3. SubSeq(Contents, 1, n) \in Seq(Byte)
  BY ContentsFacts, SubSeqProperties
<1>4. QED
  BY <1>1, <1>2, <1>3

\* Taking bytes out keeps the invariant and takes the same bytes out of the
\* queue.
LEMMA DeliverStep ==
    ASSUME Inv, NEW status \in Fifo!Status, NEW n \in 1..len,
           Deliver(status, n)
    PROVE  Inv' /\ Fifo!Deliver(status, n)
<1> USE RingAssumption DEF Inv
<1>0. n \in 0..Capacity /\ n \in Nat /\ n <= len
  BY DEF TypeOK
<1>1. /\ r_pos' = Slot(r_pos + n)
      /\ r_pos' \in Slots
      /\ len' = len - n
      /\ len' \in 0..Capacity
  BY <1>0, AdvanceFacts DEF Deliver, TypeOK
<1>2. TypeOK'
  BY <1>1, CopyOutFacts DEF Deliver, TypeOK, Answer
<1>3. PositionsAgree'
  BY <1>1 DEF Deliver, TypeOK, PositionsAgree, Slot
<1>4. Contents' = SubSeq(Contents, n + 1, Len(Contents))
  <2>1. Contents' = [i \in 1..(len - n) |-> buf[Slot(r_pos' + i - 1)]]
    BY <1>1 DEF Contents, Deliver
  <2>2. \A i \in 1..(len - n) : buf[Slot(r_pos' + i - 1)] = Contents[n + i]
    <3> SUFFICES ASSUME NEW i \in 1..(len - n)
                 PROVE  buf[Slot(r_pos' + i - 1)] = Contents[n + i]
      OBVIOUS
    <3>1. n + i \in 1..len
      BY <1>0 DEF TypeOK
    <3>2. Slot(Slot(r_pos + n) + i - 1) = Slot(r_pos + (n + i) - 1)
      BY <1>0, <3>1 DEF Slot, TypeOK
    <3>3. QED
      BY <1>1, <3>1, <3>2, ContentsFacts
  <2>3. SubSeq(Contents, n + 1, len) = [i \in 1..(len - n) |-> Contents[n + i]]
    <3>1. /\ n + 1 \in 1..(len + 1)
          /\ len \in n..len
          /\ len - (n + 1) + 1 = len - n
      BY DEF TypeOK
    <3>2. QED
      BY <3>1, ContentsFacts, SubSeqProperties DEF TypeOK
  <2>4. QED
    BY <2>1, <2>2, <2>3, ContentsFacts
<1>5. result' = Fifo!Answer(status, n, SubSeq(Contents, 1, n))
  BY CopyOutFacts DEF Deliver, Answer, Fifo!Answer
<1>6. QED
  BY <1>2, <1>3, <1>4, <1>5 DEF Fifo!Deliver

\* Putting bytes in keeps the invariant and appends the same bytes to the
\* queue; no unread byte is overwritten.
LEMMA AcceptStep ==
    ASSUME Inv, NEW src \in Seq(Byte), NEW n \in 1..Len(src),
           n <= free_space, Accept(src, n)
    PROVE  Inv' /\ Fifo!Accept(src, n)
<1> USE RingAssumption DEF Inv
<1>0. /\ n \in 1..(Capacity - len)
      /\ n \in 0..Capacity
      /\ len + n \in 0..Capacity
  <2>1. Len(src) \in Nat
    BY LenProperties
  <2>2. QED
    BY <2>1 DEF free_space, TypeOK
<1>1. /\ w_pos' = Slot(w_pos + n)
      /\ w_pos' \in Slots
      /\ len' = len + n
  BY <1>0, AdvanceFacts DEF Accept, TypeOK
<1>2. FirstCopy(w_pos, n) \in 1..n
  BY <1>0 DEF FirstCopy, Lesser, TypeOK
<1>3. CopyIn(src, n) \in [Slots -> Byte]
  <2>1. \A s \in Slots : (s < n - FirstCopy(w_pos, n))
                            => src[FirstCopy(w_pos, n) + s + 1] \in Byte
    BY <1>2
  <2>2. \A s \in w_pos..(w_pos + FirstCopy(w_pos, n) - 1) :
            src[s - w_pos + 1] \in Byte
    BY <1>2 DEF TypeOK
  <2>3. QED
    BY <2>1, <2>2 DEF CopyIn, TypeOK
<1>4. TypeOK'
  BY <1>0, <1>1, <1>3 DEF Accept, TypeOK, Answer, Fifo!Status
<1>5. PositionsAgree'
  BY <1>0, <1>1 DEF Accept, TypeOK, PositionsAgree, Slot
<1>6. \A i \in 1..len : CopyIn(src, n)[Slot(r_pos + i - 1)] = Contents[i]
  <2> SUFFICES ASSUME NEW i \in 1..len
               PROVE  CopyIn(src, n)[Slot(r_pos + i - 1)] = Contents[i]
    OBVIOUS
  <2> DEFINE s == Slot(r_pos + i - 1)
  <2>1. /\ s \in Slots
        /\ ~(s < n - FirstCopy(w_pos, n))
        /\ s \notin w_pos..(w_pos + FirstCopy(w_pos, n) - 1)
    BY <1>0 DEF Slot, FirstCopy, Lesser, TypeOK, PositionsAgree
  <2>2. QED
    BY <2>1, ContentsFacts DEF CopyIn
<1>7. \A i \in 1..n : CopyIn(src, n)[Slot(r_pos + len + i - 1)] = src[i]
  <2> SUFFICES ASSUME NEW i \in 1..n
               PROVE  CopyIn(src, n)[Slot(r_pos + len + i - 1)] = src[i]
    OBVIOUS
  <2> DEFINE s == Slot(r_pos + len + i - 1)
             f == FirstCopy(w_pos, n)
  <2>1. s \in Slots
    BY <1>0 DEF Slot, TypeOK
  <2>2. CASE i <= f
    <3>1. /\ ~(s < n - f)
          /\ s \in w_pos..(w_pos + f - 1)
          /\ s - w_pos + 1 = i
      BY <1>0, <2>2 DEF Slot, FirstCopy, Lesser, TypeOK, PositionsAgree
    <3>2. QED
      BY <2>1, <3>1 DEF CopyIn
  <2>3. CASE i > f
    <3>1. s < n - f /\ f + s + 1 = i
      BY <1>0, <1>2, <2>3 DEF Slot, FirstCopy, Lesser, TypeOK, PositionsAgree
    <3>2. QED
      BY <2>1, <3>1 DEF CopyIn
  <2>4. QED
    BY <1>2, <2>2, <2>3
<1>8. Contents' = Contents \o SubSeq(src, 1, n)
  <2> DEFINE tail == SubSeq(src, 1, n)
  <2>1. tail \in Seq(Byte) /\ Len(tail) = n /\ \A i \in 1..n : tail[i] = src[i]
    BY SubSeqProperties
  <2>2. Contents' = [i \in 1..(len + n) |-> CopyIn(src, n)[Slot(r_pos + i - 1)]]
    BY <1>1 DEF Contents, Accept
  <2>3. \A i \in 1..(len + n) :
            CopyIn(src, n)[Slot(r_pos + i - 1)]
              = IF i <= len THEN Contents[i] ELSE tail[i - len]
    <3> SUFFICES ASSUME NEW i \in 1..(len + n)
                 PROVE  CopyIn(src, n)[Slot(r_pos + i - 1)]
                          = IF i <= len THEN Contents[i] ELSE tail[i - len]
      OBVIOUS
    <3>1. CASE i <= len
      BY <1>6, <3>1 DEF TypeOK
    <3>2. CASE i > len
      <4>1. i - len \in 1..n /\ r_pos + len + (i - len) - 1 = r_pos + i - 1
        BY <1>0, <3>2 DEF TypeOK
      <4>2. QED
        BY <1>7, <2>1, <3>2, <4>1 DEF TypeOK
    <3>3. QED
      BY <3>1, <3>2 DEF TypeOK
  <2>4. /\ Contents \o tail \in Seq(Byte)
        /\ Len(Contents \o tail) = len + n
        /\ \A i \in 1..(len + n) :
              (Contents \o tail)[i] = IF i <= len THEN Contents[i]
                                                ELSE tail[i - len]
    BY <2>1, ContentsFacts, ConcatProperties
  <2>5. (Contents \o tail) = [i \in 1..(len + n) |-> (Contents \o tail)[i]]
    BY <2>4, LenProperties
  <2>6. QED
    BY <2>2, <2>3, <2>4, <2>5
<1>9. QED
  BY <1>4, <1>5, <1>8 DEF Accept, Fifo!Accept, Answer, Fifo!Answer

\* A refused call changes nothing but the answer.
LEMMA RefuseStep ==
    ASSUME Inv, NEW status \in Fifo!Status, Refuse(status)
    PROVE  Inv' /\ Fifo!Refuse(status)
<1>1. Contents' = Contents
  BY DEF Refuse, Contents, Slot
<1>2. Inv'
  BY DEF Refuse, Inv, TypeOK, PositionsAgree, Slot, Answer
<1>3. QED
  BY <1>1, <1>2 DEF Refuse, Fifo!Refuse, Answer, Fifo!Answer

LEMMA RefuseReadStep ==
    ASSUME Inv, NEW k \in Nat, RefuseRead(k)
    PROVE  Inv' /\ Fifo!RefuseRead(k)
BY RefuseStep, ContentsFacts
   DEF RefuseRead, Fifo!RefuseRead, is_empty, Fifo!Status, Inv, TypeOK

\* The two slices read_to searches are one window of the queue, cut in two.
LEMMA HalvesFacts ==
    ASSUME Inv, NEW m \in 1..len
    PROVE  /\ Len(FirstHalf(m)) \in 1..m
           /\ Len(SecondHalf(m)) = m - Len(FirstHalf(m))
           /\ \A i \in 1..Len(FirstHalf(m)) : FirstHalf(m)[i] = Contents[i]
           /\ \A i \in 1..Len(SecondHalf(m)) :
                 SecondHalf(m)[i] = Contents[Len(FirstHalf(m)) + i]
<1> USE RingAssumption DEF Inv
<1> DEFINE f == FirstCopy(r_pos, m)
<1>1. f \in 1..m /\ f \in Nat /\ m - f \in Nat /\ m \in Nat
  BY DEF FirstCopy, Lesser, TypeOK
<1>2. FirstHalf(m) \in [1..f -> Byte] /\ SecondHalf(m) \in [1..(m - f) -> Byte]
  BY <1>1 DEF FirstHalf, SecondHalf, FirstCopy, Lesser, TypeOK
<1>3. Len(FirstHalf(m)) = f /\ Len(SecondHalf(m)) = m - f
  BY <1>1, <1>2, TableIsSeq
<1>4. \A i \in 1..f : i \in 1..len /\ Slot(r_pos + i - 1) = r_pos + i - 1
  BY <1>1 DEF FirstCopy, Lesser, Slot, TypeOK
<1>5. \A i \in 1..f : FirstHalf(m)[i] = Contents[i]
  BY <1>4, ContentsFacts DEF FirstHalf
<1>6. \A i \in 1..(m - f) : f + i \in 1..len /\ Slot(r_pos + (f + i) - 1) = i - 1
  BY <1>1 DEF FirstCopy, Lesser, Slot, TypeOK
<1>7. \A i \in 1..(m - f) : SecondHalf(m)[i] = Contents[f + i]
  BY <1>6, ContentsFacts DEF SecondHalf
<1>8. QED
  BY <1>1, <1>3, <1>5, <1>7

\* Searching the two slices in turn finds the first terminator of the queue.
LEMMA ReadToStep ==
    ASSUME Inv, NEW k \in Nat, read_to(k)
    PROVE  Inv' /\ Fifo!ReadTo(k)
<1> DEFINE m == Lesser(k, len)
           first == FirstHalf(m)
           second == SecondHalf(m)
<1>1. CASE RefuseRead(k)
  BY <1>1, RefuseReadStep DEF Fifo!ReadTo
<1>2. CASE Readable(k)
  <2>1. /\ m \in 1..len /\ m = Fifo!Lesser(k, Len(Contents))
        /\ Fifo!Readable(k)
        /\ Len(Contents) = len
    BY <1>2, ContentsFacts
       DEF Readable, Fifo!Readable, is_empty, Lesser, Fifo!Lesser, Inv, TypeOK
  <2>2. /\ Len(first) \in 1..m
        /\ Len(second) = m - Len(first)
        /\ \A i \in 1..Len(first) : first[i] = Contents[i]
        /\ \A i \in 1..Len(second) : second[i] = Contents[Len(first) + i]
    BY <2>1, HalvesFacts
  <2>3. {"Complete", "Partial"} \subseteq Fifo!Status
    BY DEF Fifo!Status
  <2> HIDE DEF m, first, second
  <2>4. ASSUME NEW n \in 1..m, \A i \in 1..(n - 1) : Contents[i] # Term,
               NEW status \in {"Complete", "Partial"}, Deliver(status, n),
               \/ status = "Complete" /\ Contents[n] = Term
               \/ status = "Partial" /\ Contents[n] # Term /\ n = m
        PROVE  Inv' /\ Fifo!ReadTo(k)
    <3>1. n \in 1..len
      BY <2>1
    <3>2. Inv' /\ Fifo!Deliver(status, n)
      BY <2>3, <2>4, <3>1, DeliverStep
    <3>3. QED
      BY <2>1, <2>4, <3>2 DEF Fifo!ReadTo
  <2>5. CASE \E p \in 1..Len(first) : Position(first, p) /\ Deliver("Complete", p)
    <3>1. PICK p \in 1..Len(first) : Position(first, p) /\ Deliver("Complete", p)
      BY <2>5
    <3>2. /\ p \in 1..m
          /\ \A i \in 1..(p - 1) : i \in 1..Len(first)
      BY <2>1, <2>2
    <3>3. /\ Contents[p] = Term
          /\ \A i \in 1..(p - 1) : Contents[i] # Term
      BY <2>2, <3>1, <3>2 DEF Position
    <3>4. QED
      BY <2>4, <3>1, <3>2, <3>3
  <2>6. CASE /\ Missing(first)
             /\ \E p \in 1..Len(second) :
                   Position(second, p) /\ Deliver("Complete", Len(first) + p)
    <3>1. PICK p \in 1..Len(second) :
                   Position(second, p) /\ Deliver("Complete", Len(first) + p)
      BY <2>6
    <3>2. Len(first) + p \in 1..m
      BY <2>1, <2>2
    <3>3. Contents[Len(first) + p] = Term
      BY <2>2, <3>1 DEF Position
    <3>4. ASSUME NEW i \in 1..(Len(first) + p - 1)
          PROVE  Contents[i] # Term
      <4>1. CASE i <= Len(first)
        BY <2>2, <2>6, <4>1 DEF Missing
      <4>2. CASE i > Len(first)
        <5>1. /\ i - Len(first) \in 1..(p - 1)
              /\ i - Len(first) \in 1..Len(second)
              /\ Len(first) + (i - Len(first)) = i
          BY <2>2, <4>2
        <5>2. QED
          BY <2>2, <3>1, <5>1 DEF Position
      <4>3. QED
        BY <2>2, <4>1, <4>2
    <3>5. QED
      BY <2>4, <3>1, <3>2, <3>3, <3>4
  <2>7. CASE Missing(first) /\ Missing(second) /\ Deliver("Partial", m)
    <3>1. ASSUME NEW i \in 1..m
          PROVE  Contents[i] # Term
      <4>1. CASE i <= Len(first)
        BY <2>2, <2>7, <4>1 DEF Missing
      <4>2. CASE i > Len(first)
        <5>1. /\ i - Len(first) \in 1..Len(second)
              /\ Len(first) + (i - Len(first)) = i
          BY <2>1, <2>2, <4>2
        <5>2. QED
          BY <2>2, <2>7, <5>1 DEF Missing
      <4>3. QED
        BY <2>2, <4>1, <4>2
    <3>2. m \in 1..m /\ \A i \in 1..(m - 1) : i \in 1..m
      BY <2>1
    <3>3. QED
      BY <2>4, <2>7, <3>1, <3>2
  <2>8. QED
    BY <1>2, <2>5, <2>6, <2>7
       DEF read_to, RefuseRead, Readable, m, first, second
<1>3. QED
  BY <1>1, <1>2 DEF read_to

-----------------------------------------------------------------------------

LEMMA InitFacts ==
    ASSUME Init
    PROVE  Inv /\ Fifo!Init
<1>1. Inv
  BY RingAssumption, EmptySeq
     DEF Init, Inv, TypeOK, PositionsAgree, Slot, Answer, Fifo!Status
<1>2. Contents = <<>>
  BY <1>1, ContentsFacts, EmptySeq DEF Init
<1>3. QED
  BY <1>1, <1>2 DEF Init, Fifo!Init, Answer, Fifo!Answer

\* Every operation keeps the invariant and is the operation of the same name
\* on the queue.
LEMMA StepFacts ==
    ASSUME Inv, [Next]_vars
    PROVE  Inv' /\ [Fifo!Next]_(Fifo!vars)
<1> USE RingAssumption
<1>0. /\ len \in 0..Capacity
      /\ Len(Contents) = len
      /\ {"Ok", "SourceEmpty", "DestinationFull", "InsufficientSpace"}
             \subseteq Fifo!Status
  BY ContentsFacts DEF Inv, TypeOK, Fifo!Status
<1>1. ASSUME reset
      PROVE  Inv' /\ Fifo!Reset
  <2>1. Inv'
    BY <1>0, <1>1, EmptySeq DEF reset, Inv, TypeOK, PositionsAgree, Slot, Answer
  <2>2. Contents' = [i \in 1..0 |-> buf'[Slot(r_pos' + i - 1)]]
    BY <1>1 DEF reset, Contents
  <2>3. Contents' = <<>>
    BY <2>2
  <2>4. Fifo!Reset
    BY <1>1, <2>3 DEF reset, Fifo!Reset, Answer, Fifo!Answer
  <2>5. QED
    BY <2>1, <2>4
<1>2. ASSUME read_byte
      PROVE  Inv' /\ Fifo!ReadByte
  <2>1. CASE is_empty
    BY <1>0, <1>2, <2>1, RefuseStep
       DEF read_byte, is_empty, Fifo!ReadByte
  <2>2. CASE ~is_empty
    <3>1. 1 \in 1..len
      BY <1>0, <2>2 DEF is_empty
    <3>2. Inv' /\ Fifo!Deliver("Ok", 1)
      BY <1>0, <1>2, <2>2, <3>1, DeliverStep DEF read_byte
    <3>3. QED
      BY <1>0, <2>2, <3>2 DEF is_empty, Fifo!ReadByte
  <2>3. QED
    BY <2>1, <2>2
<1>3. ASSUME NEW k \in DestSizes, read(k)
      PROVE  Inv' /\ Fifo!Read(k)
  <2>1. k \in Nat
    OBVIOUS
  <2>2. CASE RefuseRead(k)
    BY <2>1, <2>2, RefuseReadStep DEF Fifo!Read
  <2>3. CASE Readable(k) /\ Deliver("Ok", Lesser(k, len))
    <3>1. /\ Lesser(k, len) \in 1..len
          /\ Lesser(k, len) = Fifo!Lesser(k, Len(Contents))
          /\ Fifo!Readable(k)
      BY <1>0, <2>1, <2>3
         DEF Readable, Fifo!Readable, is_empty, Lesser, Fifo!Lesser
    <3>2. Inv' /\ Fifo!Deliver("Ok", Lesser(k, len))
      BY <1>0, <2>3, <3>1, DeliverStep
    <3>3. QED
      BY <3>1, <3>2 DEF Fifo!Read
  <2>4. QED
    BY <1>3, <2>2, <2>3 DEF read
<1>4. ASSUME NEW k \in DestSizes, read_to(k)
      PROVE  Inv' /\ Fifo!ReadTo(k)
  BY <1>4, ReadToStep
<1>5. ASSUME NEW b \in Byte, write_byte(b)
      PROVE  Inv' /\ Fifo!WriteByte(b)
  <2>1. CASE is_full
    BY <1>0, <1>5, <2>1, RefuseStep
       DEF write_byte, is_full, Fifo!WriteByte
  <2>2. CASE ~is_full
    <3>1. /\ <<b>> \in Seq(Byte)
          /\ 1 \in 1..Len(<<b>>)
          /\ 1 <= free_space
      BY <1>0, <2>2 DEF is_full, free_space
    <3>2. Inv' /\ Fifo!Accept(<<b>>, 1)
      BY <1>5, <2>2, <3>1, AcceptStep DEF write_byte
    <3>3. QED
      BY <1>0, <2>2, <3>2 DEF is_full, Fifo!WriteByte
  <2>3. QED
    BY <2>1, <2>2
<1>6. ASSUME NEW src \in Inputs, write_all(src)
      PROVE  Inv' /\ Fifo!WriteAll(src)
  <2>1. src \in Seq(Byte) /\ Len(src) \in Nat
    BY LenProperties
  <2>2. CASE Len(src) = 0 /\ Refuse("SourceEmpty")
    BY <1>0, <2>2, RefuseStep DEF Fifo!WriteAll
  <2>3. CASE Len(src) > 0 /\ free_space < Len(src) /\ Refuse("InsufficientSpace")
    BY <1>0, <2>1, <2>3, RefuseStep DEF Fifo!WriteAll, free_space
  <2>4. CASE Len(src) > 0 /\ free_space >= Len(src) /\ Accept(src, Len(src))
    <3>1. Len(src) \in 1..Len(src) /\ Len(src) <= free_space
      BY <1>0, <2>1, <2>4 DEF free_space
    <3>2. Inv' /\ Fifo!Accept(src, Len(src))
      BY <2>1, <2>4, <3>1, AcceptStep
    <3>3. QED
      BY <1>0, <2>1, <3>1, <3>2 DEF Fifo!WriteAll, free_space
  <2>5. QED
    BY <1>6, <2>2, <2>3, <2>4 DEF write_all
<1>7. ASSUME NEW src \in Inputs, write(src)
      PROVE  Inv' /\ Fifo!Write(src)
  <2>1. src \in Seq(Byte) /\ Len(src) \in Nat
    BY LenProperties
  <2>2. CASE Len(src) = 0 /\ Refuse("SourceEmpty")
    BY <1>0, <2>2, RefuseStep DEF Fifo!Write
  <2>3. CASE Len(src) > 0 /\ is_full /\ Refuse("DestinationFull")
    BY <1>0, <2>1, <2>3, RefuseStep DEF Fifo!Write, is_full
  <2>4. CASE Len(src) > 0 /\ ~is_full /\ Accept(src, Lesser(Len(src), free_space))
    <3> DEFINE n == Lesser(Len(src), free_space)
    <3>1. /\ n \in 1..Len(src) /\ n <= free_space
          /\ n = Fifo!Lesser(Len(src), Capacity - Len(Contents))
      BY <1>0, <2>1, <2>4 DEF free_space, is_full, Lesser, Fifo!Lesser
    <3>2. Inv' /\ Fifo!Accept(src, n)
      BY <2>1, <2>4, <3>1, AcceptStep
    <3>3. QED
      BY <1>0, <2>1, <2>4, <3>1, <3>2 DEF Fifo!Write, is_full
  <2>5. QED
    BY <1>7, <2>2, <2>3, <2>4 DEF write
<1>8. CASE UNCHANGED vars
  <2>1. Contents' = Contents
    BY <1>8 DEF vars, Contents, Slot
  <2>2. Inv'
    BY <1>8 DEF vars, Inv, TypeOK, PositionsAgree, Slot
  <2>3. QED
    BY <1>8, <2>1, <2>2 DEF vars, Fifo!vars
<1>9. ASSUME NEW op, NEW room, NEW src, Asked(op, room, src)
      PROVE  Fifo!Asked(op, room, src)
  BY <1>9 DEF Asked, Fifo!Asked
<1>10. ASSUME Next
       PROVE  Inv' /\ Fifo!Next
  <2>1. CASE Asked("reset", 0, <<>>) /\ reset
    BY <1>1, <1>9, <2>1 DEF Fifo!Next
  <2>2. CASE Asked("read_byte", 1, <<>>) /\ read_byte
    BY <1>2, <1>9, <2>2 DEF Fifo!Next
  <2>3. CASE \E k \in DestSizes : Asked("read", k, <<>>) /\ read(k)
    BY <1>3, <1>9, <2>3 DEF Fifo!Next
  <2>4. CASE \E k \in DestSizes : Asked("read_to", k, <<>>) /\ read_to(k)
    BY <1>4, <1>9, <2>4 DEF Fifo!Next
  <2>5. CASE \E b \in Byte : Asked("write_byte", 0, <<b>>) /\ write_byte(b)
    BY <1>5, <1>9, <2>5 DEF Fifo!Next
  <2>6. CASE \E src \in Inputs : Asked("write_all", 0, src) /\ write_all(src)
    BY <1>6, <1>9, <2>6 DEF Fifo!Next
  <2>7. CASE \E src \in Inputs : Asked("write", 0, src) /\ write(src)
    BY <1>7, <1>9, <2>7 DEF Fifo!Next
  <2>8. QED
    BY <1>10, <2>1, <2>2, <2>3, <2>4, <2>5, <2>6, <2>7 DEF Next
<1>11. QED
  BY <1>8, <1>10

\* Both parts of the invariant hold after any sequence of calls.
LEMMA Invariance == Spec => []Inv
<1>1. Init => Inv
  BY InitFacts
<1>2. Inv /\ [Next]_vars => Inv'
  BY StepFacts
<1>3. QED
  BY <1>1, <1>2, PTL DEF Spec

\* Whatever sequence of calls is made, both positions stay inside the storage
\* and the length never exceeds the capacity.
THEOREM RingTyped == Spec => []TypeOK
BY Invariance, PTL DEF Inv

\* The write position is where the unread bytes end.
THEOREM RingInvariant == Spec => []PositionsAgree
BY Invariance, PTL DEF Inv

\* Every behaviour of the ring is a behaviour of a bounded queue of bytes: no
\* call reorders, loses, repeats or invents a byte, or answers wrongly.
THEOREM RingImplementsFifo == Spec => ImplementsFifo
<1>1. Init => Inv /\ Fifo!Init
  BY InitFacts
<1>2. Inv /\ [Next]_vars => Inv' /\ [Fifo!Next]_(Fifo!vars)
  BY StepFacts
<1>3. QED
  BY <1>1, <1>2, PTL DEF Spec, ImplementsFifo, Fifo!Spec
=============================================================================

---------------------------- MODULE Ft240xProofs ----------------------------
(***************************************************************************)
(* For every depth of the bridge's FIFOs, every slice and every numbering  *)
(* of the bytes: the port is turned the way each strobe needs it, a read   *)
(* returns what the host sent, in order and from where the last call       *)
(* stopped, and a write counts what the bridge took.                       *)
(***************************************************************************)
EXTENDS Ft240x, SequenceTheorems, TLAPS

ReadLooks == {"read_poll", "read_enter", "read_byte", "read_sense", "read_more"}
WriteLooks == {"write_poll", "write_byte", "write_more", "write_sense"}

\* Number of the byte that a read finds next, now or when the host sends it.
Front == IF fifo = <<>> THEN next ELSE fifo[1].number

\* The bytes of a sequence follow one another, and end is what follows them.
Run(seq, first, end) ==
    /\ seq = <<>> => end = first
    /\ seq # <<>> =>
          /\ seq[1].number = first
          /\ \A i \in 1..(Len(seq) - 1) :
                seq[i + 1].number = Following(seq[i].number)
          /\ end = Following(seq[Len(seq)].number)

\* The cache of the direction tells what the port is set to.
BusAgrees ==
    /\ state = "Input" => ddr = "in"
    /\ state = "Output" => ddr = "out"

\* The FIFO holds the end of what the host sent, and nothing without a host.
FifoOrdered ==
    /\ Run(fifo, Front, next)
    /\ \A i \in 1..Len(fifo) : fifo[i].genuine
    /\ ~connected => fifo = <<>>

\* A poll starts with the cable in, so that it is out after the one movement
\* that a poll may see, and the reader's call knows of it.
OneMove ==
    /\ cpu = "none" => ~moved
    /\ cpu # "none" => moved = ~connected
    /\ moved /\ cpu \in ReadLooks => replugged

\* Where a read may stand with how much in its slice.
ReadPlace ==
    /\ cpu \in ReadLooks => reader # NoCall
    /\ cpu \in {"read_sense", "read_more"} => got # <<>>
    /\ reader # NoCall =>
          /\ reader.op = "read" /\ cpu \notin {"read_byte", "read_sense", "read_more"}
                => got = <<>>
          /\ reader.op = "read_to" \/ cpu \notin {"read_sense", "read_more"}
                => Len(got) < reader.len

\* While the cable stays in, what a look has promised is there for the strobe.
StrobeServed ==
    /\ cpu \in {"read_enter", "read_byte"} /\ connected => fifo # <<>>
    /\ cpu \in {"write_byte", "write_sense"} /\ connected => room > 0

\* Only the byte just read may be noise, until the look at SENSE that follows.
OnlyLastIsNoise ==
    reader # NoCall =>
        \A i \in 1..Len(got) :
            got[i].genuine \/ (cpu = "read_sense" /\ ~connected /\ i = Len(got))

\* What is owed, what the slice holds and what the FIFO holds continue one
\* another.
Continuous ==
    /\ reader = NoCall /\ connected => owed = Front
    /\ reader # NoCall /\ ~replugged =>
          IF connected THEN Run(got, owed, Front) ELSE got = <<>>
    /\ cpu \in {"read_sense", "read_more"} /\ connected
          => Following(got[Len(got)].number) = Front

\* What is counted is what the bridge took, but for a byte strobed after the
\* cable was pulled.
CountAgrees ==
    /\ cpu \in WriteLooks => writer > 0
    /\ cpu \in {"write_byte", "write_sense"} => sent < writer
    /\ cpu = "write_byte" => sent = accepted
    /\ cpu \in {"write_more", "write_sense"} =>
          sent = accepted \/ (~connected /\ sent = accepted + 1)
    /\ writer > 0 /\ cpu \notin {"write_byte", "write_more", "write_sense"} => sent = 0

ReadInv == FifoOrdered /\ ReadPlace /\ OnlyLastIsNoise /\ Continuous

Inv == TypeOK /\ BusAgrees /\ OneMove /\ StrobeServed /\ CountAgrees /\ ReadInv

-----------------------------------------------------------------------------
(* Bytes, and the runs they form.                                          *)

LEMMA Constants ==
    /\ RxDepth \in Nat /\ RxDepth > 0 /\ TxDepth \in Nat /\ TxDepth > 0
    /\ MaxLen \in Nat /\ MaxLen > 0 /\ Numbers \in Nat /\ Numbers > 1
BY Ft240xAssumption

LEMMA FollowingTyped ==
    ASSUME NEW n \in 0..(Numbers - 1)
    PROVE  Following(n) \in 0..(Numbers - 1)
BY Constants DEF Following

LEMMA NumberTyped ==
    ASSUME NEW byte \in Byte
    PROVE  /\ byte.number \in 0..(Numbers - 1)
           /\ Following(byte.number) \in 0..(Numbers - 1)
BY FollowingTyped DEF Byte

LEMMA LengthTyped ==
    ASSUME NEW seq \in Seq(Byte)
    PROVE  /\ Len(seq) \in Nat
           /\ seq = <<>> <=> Len(seq) = 0
           /\ \A i \in 1..Len(seq) : seq[i] \in Byte
BY LenProperties, EmptySeq, ElementOfSeq

\* The byte that comes next makes a run one longer.
LEMMA RunAppend ==
    ASSUME NEW seq \in Seq(Byte), NEW byte \in Byte, NEW first,
           Run(seq, first, byte.number)
    PROVE  Run(Append(seq, byte), first, Following(byte.number))
<1> DEFINE long == Append(seq, byte)
<1>1. /\ Len(long) = Len(seq) + 1 /\ long # <<>>
      /\ \A i \in 1..Len(seq) : long[i] = seq[i]
      /\ long[Len(seq) + 1] = byte
  BY AppendProperties
<1>2. Len(seq) \in Nat /\ (seq = <<>> <=> Len(seq) = 0)
  BY LengthTyped
<1> HIDE DEF long
<1>3. long[1].number = first
  BY <1>1, <1>2 DEF Run
<1>4. ASSUME NEW i \in 1..(Len(long) - 1)
      PROVE  long[i + 1].number = Following(long[i].number)
  <2>1. seq # <<>> /\ i \in 1..Len(seq)
    BY <1>1, <1>2
  <2>2. CASE i = Len(seq)
    BY <1>1, <2>1, <2>2 DEF Run
  <2>3. CASE i # Len(seq)
    <3>1. i \in 1..(Len(seq) - 1) /\ i + 1 \in 1..Len(seq)
      BY <1>2, <2>1, <2>3
    <3>2. QED
      BY <1>1, <2>1, <3>1 DEF Run
  <2>4. QED
    BY <2>2, <2>3
<1>5. Following(byte.number) = Following(long[Len(long)].number)
  BY <1>1
<1>6. Run(long, first, Following(byte.number))
  BY <1>1, <1>3, <1>4, <1>5 DEF Run
<1>7. QED
  BY <1>6 DEF long

\* What is left of a run without its first byte starts with the byte after it.
LEMMA RunTail ==
    ASSUME NEW seq \in Seq(Byte), seq # <<>>, NEW first, NEW end,
           Run(seq, first, end)
    PROVE  LET rest == Tail(seq)
           IN  /\ rest \in Seq(Byte) /\ Len(rest) = Len(seq) - 1
               /\ \A i \in 1..Len(rest) : rest[i] = seq[i + 1]
               /\ Run(rest, Following(seq[1].number), end)
<1> DEFINE rest == Tail(seq)
<1>1. /\ rest \in Seq(Byte) /\ Len(rest) = Len(seq) - 1
      /\ \A i \in 1..Len(rest) : rest[i] = seq[i + 1]
  BY HeadTailProperties
<1> HIDE DEF rest
<1>2. Len(seq) \in Nat /\ Len(seq) > 0 /\ (rest = <<>> <=> Len(rest) = 0)
  <2>1. rest = <<>> <=> Len(rest) = 0
    BY <1>1, LengthTyped
  <2>2. Len(seq) \in Nat /\ Len(seq) # 0
    BY LengthTyped
  <2>3. QED
    BY <2>1, <2>2
<1>3. \A i \in 1..(Len(seq) - 1) : seq[i + 1].number = Following(seq[i].number)
  BY DEF Run
<1>4. end = Following(seq[Len(seq)].number)
  BY DEF Run
<1>5. rest = <<>> => end = Following(seq[1].number)
  <2>1. rest = <<>> => Len(seq) = 1
    BY <1>1, <1>2
  <2>2. QED
    BY <1>4, <2>1
<1>6. ASSUME rest # <<>>
      PROVE  /\ rest[1].number = Following(seq[1].number)
             /\ \A i \in 1..(Len(rest) - 1) :
                   rest[i + 1].number = Following(rest[i].number)
             /\ end = Following(rest[Len(rest)].number)
  <2>1. 1 \in 1..Len(rest) /\ 1 \in 1..(Len(seq) - 1) /\ Len(rest) \in 1..Len(rest)
    BY <1>1, <1>2, <1>6
  <2>2. rest[1].number = Following(seq[1].number)
    BY <1>1, <1>3, <2>1
  <2>3. ASSUME NEW i \in 1..(Len(rest) - 1)
        PROVE  rest[i + 1].number = Following(rest[i].number)
    <3>1. i + 1 \in 1..(Len(seq) - 1) /\ i + 1 \in 1..Len(rest) /\ i \in 1..Len(rest)
      BY <1>1, <1>2
    <3>2. QED
      BY <1>1, <1>3, <3>1
  <2>4. rest[Len(rest)] = seq[Len(seq)]
    BY <1>1, <1>2, <2>1
  <2>5. QED
    BY <1>4, <2>2, <2>3, <2>4
<1>7. Run(rest, Following(seq[1].number), end)
  BY <1>5, <1>6 DEF Run
<1>8. QED
  BY <1>1, <1>7 DEF rest

-----------------------------------------------------------------------------
(* Types.                                                                  *)

LEMMA InitInv ==
    ASSUME Init
    PROVE  Inv
<1> USE DEF Init
<1>1. <<>> \in Seq(Byte) /\ Len(<<>>) = 0
  BY EmptySeq
<1>2. TypeOK
  <2>1. /\ 0 \in 0..(Numbers - 1) /\ TxDepth \in 0..TxDepth /\ 0 \in 0..MaxLen
        /\ 0 <= RxDepth
    BY Constants
  <2>2. /\ fifo \in Seq(Byte) /\ Len(fifo) <= RxDepth /\ got \in Seq(Byte)
        /\ reader = NoCall
    BY <1>1, <2>1
  <2>3. /\ connected \in BOOLEAN /\ moved \in BOOLEAN /\ replugged \in BOOLEAN
        /\ next = 0 /\ owed = 0 /\ room = TxDepth
        /\ writer = 0 /\ sent = 0 /\ accepted = 0
        /\ state = "Unknown" /\ ddr = "in" /\ cpu = "none"
    OBVIOUS
  <2> HIDE DEF Init
  <2>4. QED
    BY <2>1, <2>2, <2>3 DEF TypeOK
<1>3. BusAgrees /\ OneMove /\ StrobeServed /\ CountAgrees
  BY DEF BusAgrees, OneMove, StrobeServed, CountAgrees, WriteLooks, ReadLooks
<1>4. FifoOrdered
  BY <1>1 DEF FifoOrdered, Run, Front
<1>5. ReadPlace /\ OnlyLastIsNoise /\ Continuous
  BY DEF ReadPlace, OnlyLastIsNoise, Continuous, ReadLooks, Front
<1>6. QED
  BY <1>2, <1>3, <1>4, <1>5 DEF Inv, ReadInv

\* What a read leaves when it returns.
LEMMA ReturnTyped ==
    ASSUME NEW result, ReadReturns(result), owed \in 0..(Numbers - 1),
           got' \in Seq(Byte)
    PROVE  owed' \in 0..(Numbers - 1)
<1>1. CASE got' = <<>>
  BY <1>1 DEF ReadReturns
<1>2. CASE got' # <<>>
  <2>1. Len(got') \in 1..Len(got')
    BY <1>2, LengthTyped
  <2>2. got'[Len(got')] \in Byte
    BY <2>1, LengthTyped
  <2>3. QED
    BY <2>2, NumberTyped DEF ReadReturns
<1>3. QED
  BY <1>1, <1>2

\* Typing of the variables of the bridge, the bus and the writer.
DeviceTyped ==
    /\ connected \in BOOLEAN
    /\ fifo \in Seq(Byte) /\ Len(fifo) <= RxDepth
    /\ next \in 0..(Numbers - 1)
    /\ room \in 0..TxDepth
    /\ state \in {"Unknown", "Input", "Output"}
    /\ ddr \in {"in", "out"}
    /\ writer \in 0..MaxLen
    /\ sent \in 0..MaxLen
    /\ writer > 0 => sent <= writer
    /\ accepted \in 0..sent

\* Typing of the variables of the reader and of the poll.
PollTyped ==
    /\ cpu \in {"none"} \cup ReadLooks \cup WriteLooks
    /\ moved \in BOOLEAN
    /\ reader \in Calls \cup {NoCall}
    /\ got \in Seq(Byte)
    /\ reader # NoCall => Len(got) <= reader.len
    /\ replugged \in BOOLEAN
    /\ owed \in 0..(Numbers - 1)

LEMMA TypedInHalves ==
    /\ TypeOK <=> DeviceTyped /\ PollTyped
    /\ TypeOK' <=> DeviceTyped' /\ PollTyped'
BY DEF TypeOK, DeviceTyped, PollTyped, ReadLooks, WriteLooks

LEMMA EnvironmentTyped ==
    ASSUME Inv, (\E term \in BOOLEAN : HostSends(term)) \/ HostReceives \/ MoveCable
    PROVE  TypeOK'
<1>0. TypeOK
  BY DEF Inv
<1>1. ASSUME NEW term \in BOOLEAN, HostSends(term)
      PROVE  TypeOK'
  <2>1. PICK byte \in Byte : fifo' = Append(fifo, byte)
    BY <1>0, <1>1 DEF HostSends, TypeOK, Byte
  <2>2. fifo' \in Seq(Byte) /\ Len(fifo') = Len(fifo) + 1 /\ Len(fifo) \in Nat
    BY <1>0, <2>1, AppendProperties, LengthTyped DEF TypeOK
  <2>3. next' \in 0..(Numbers - 1)
    BY <1>0, <1>1, FollowingTyped DEF HostSends, TypeOK
  <2>4. QED
    BY <1>0, <1>1, <2>2, <2>3, Constants
       DEF HostSends, TypeOK, busVars, readVars, writeVars
<1>2. CASE HostReceives
  BY <1>0, <1>2, Constants DEF HostReceives, TypeOK, busVars, readVars, writeVars
<1>3. CASE MoveCable
  <2>1. <<>> \in Seq(Byte) /\ Len(<<>>) = 0
    BY EmptySeq
  <2>2. QED
    BY <1>0, <1>3, <2>1, Constants DEF MoveCable, TypeOK, busVars, writeVars
<1>4. QED
  BY <1>1, <1>2, <1>3

LEMMA StartTyped ==
    ASSUME Inv, NEW call \in Calls, StartRead(call)
    PROVE  TypeOK'
<1>1. <<>> \in Seq(Byte) /\ Len(<<>>) = 0 /\ call.len \in 0..MaxLen /\ call # NoCall
  BY EmptySeq DEF Calls, NoCall
<1>2. DeviceTyped'
  BY DEF StartRead, Inv, TypeOK, DeviceTyped, usbVars, busVars, writeVars
<1>3. PollTyped'
  <2>1. TypeOK
    BY DEF Inv
  <2>2. PollTyped /\ cpu = "none"
    BY <2>1, TypedInHalves DEF StartRead
  <2>3. UNCHANGED <<cpu, moved, owed>> /\ got' = <<>>
    BY DEF StartRead
  <2>4. /\ replugged' \in BOOLEAN /\ reader' \in Calls \cup {NoCall}
        /\ reader' # NoCall => reader' = call
    BY <2>2 DEF StartRead, PollTyped
  <2>5. QED
    BY <1>1, <2>2, <2>3, <2>4 DEF PollTyped
<1>4. QED
  BY <1>2, <1>3, TypedInHalves

\* The looks of a read between its bytes.
LookOfRead == PollReadSense \/ PollReadReady \/ EnterRead \/ ReadSense \/ ReadMore

LEMMA LookTyped ==
    ASSUME Inv, LookOfRead
    PROVE  TypeOK' /\ got' = got
<1>1. DeviceTyped /\ PollTyped
  BY TypedInHalves DEF Inv
<1>2. UNCHANGED <<usbVars, busVars, writeVars, got, replugged>>
  BY DEF LookOfRead, PollReadSense, PollReadReady, EnterRead, ReadSense, ReadMore, readVars
<1>3. DeviceTyped'
  BY <1>1, <1>2 DEF DeviceTyped, usbVars, busVars, writeVars
<1>4. \/ \E result : ReadReturns(result)
      \/ /\ cpu' \in {"none"} \cup ReadLooks
         /\ moved' \in {moved, FALSE}
         /\ UNCHANGED <<reader, owed>>
  <2>1. CASE PollReadSense
    BY <2>1 DEF PollReadSense, ReadGoesOn, ReadLooks
  <2>2. CASE PollReadReady
    BY <1>1, <2>2 DEF PollReadReady, PollTyped, ReadLooks, readVars
  <2>3. CASE EnterRead
    BY <2>3 DEF EnterRead, ReadGoesOn, ReadLooks
  <2>4. CASE ReadSense
    BY <2>4 DEF ReadSense, ReadGoesOn, ReadLooks
  <2>5. CASE ReadMore
    BY <2>5 DEF ReadMore, ReadGoesOn, ReadLooks
  <2>6. QED
    BY <2>1, <2>2, <2>3, <2>4, <2>5 DEF LookOfRead
<1>5. PollTyped'
  <2>1. CASE \E result : ReadReturns(result)
    <3>1. PICK result : ReadReturns(result)
      BY <2>1
    <3>2. owed' \in 0..(Numbers - 1)
      BY <1>1, <1>2, <3>1, ReturnTyped DEF PollTyped
    <3>3. cpu' = "none" /\ moved' = FALSE /\ reader' = NoCall
      BY <3>1 DEF ReadReturns
    <3>4. QED
      BY <1>1, <1>2, <3>2, <3>3 DEF PollTyped
  <2>2. CASE /\ cpu' \in {"none"} \cup ReadLooks
             /\ moved' \in {moved, FALSE}
             /\ UNCHANGED <<reader, owed>>
    BY <1>1, <1>2, <2>2 DEF PollTyped
  <2>3. QED
    BY <1>4, <2>1, <2>2
<1>6. QED
  BY <1>2, <1>3, <1>5, TypedInHalves

\* The byte a strobe reads: the FIFO's first one while the cable is in, noise
\* otherwise.
LEMMA ByteRead ==
    ASSUME Inv, read_byte
    PROVE  /\ reader # NoCall /\ reader \in Calls /\ Len(got) < reader.len
           /\ Len(got) \in Nat
           /\ got' \in Seq(Byte) /\ Len(got') = Len(got) + 1 /\ got' # <<>>
           /\ \E byte \in Byte :
                 /\ got' = Append(got, byte)
                 /\ \A i \in 1..Len(got) : got'[i] = got[i]
                 /\ got'[Len(got')] = byte
                 /\ AfterByte(byte)
                 /\ IF connected
                    THEN fifo # <<>> /\ byte = fifo[1] /\ fifo' = Tail(fifo)
                    ELSE byte.genuine = FALSE /\ fifo' = fifo
<1>1. /\ fifo \in Seq(Byte) /\ got \in Seq(Byte) /\ connected \in BOOLEAN
      /\ reader \in Calls \cup {NoCall}
  BY DEF Inv, TypeOK
<1>2. cpu = "read_byte"
  BY DEF read_byte
<1>3. reader # NoCall /\ Len(got) < reader.len
  BY <1>2 DEF Inv, ReadInv, ReadPlace, ReadLooks
<1>4. PICK byte \in Byte : OnBus(byte) /\ got' = Append(got, byte) /\ AfterByte(byte)
  BY DEF read_byte
<1>5. /\ got' \in Seq(Byte) /\ Len(got') = Len(got) + 1 /\ got' # <<>>
      /\ \A i \in 1..Len(got) : got'[i] = got[i]
      /\ got'[Len(got')] = byte
  BY <1>1, <1>4, AppendProperties
<1>6. CASE connected
  <2>1. fifo # <<>>
    BY <1>2, <1>6 DEF Inv, StrobeServed
  <2>2. byte = Head(fifo) /\ fifo' = Tail(fifo)
    BY <1>4, <1>6, <2>1 DEF OnBus
  <2>3. Head(fifo) = fifo[1]
    BY <1>1, <2>1
  <2>4. QED
    BY <1>1, <1>3, <1>4, <1>5, <1>6, <2>1, <2>2, <2>3, LengthTyped
<1>7. CASE ~connected
  <2>1. byte.genuine = FALSE /\ fifo' = fifo
    BY <1>4, <1>7 DEF OnBus
  <2>2. QED
    BY <1>1, <1>3, <1>4, <1>5, <1>7, <2>1, LengthTyped
<1>8. QED
  BY <1>6, <1>7

LEMMA ByteTyped ==
    ASSUME Inv, read_byte
    PROVE  TypeOK'
<1>0. DeviceTyped /\ PollTyped
  BY TypedInHalves DEF Inv
<1>1. UNCHANGED <<connected, next, room, replugged, writer, sent, accepted>>
  BY DEF read_byte, writeVars
<1>2. state' \in {"Unknown", "Input", "Output"} /\ ddr' \in {"in", "out"}
  BY <1>0 DEF read_byte, TurnBus, busVars, DeviceTyped
<1>3. fifo' \in Seq(Byte) /\ Len(fifo') <= RxDepth
  <2>1. CASE connected
    <3>1. fifo # <<>> /\ fifo' = Tail(fifo)
      BY <2>1, ByteRead
    <3>2. fifo' \in Seq(Byte) /\ Len(fifo') = Len(fifo) - 1 /\ Len(fifo) \in Nat
      BY <1>0, <3>1, HeadTailProperties, LengthTyped DEF DeviceTyped
    <3>3. QED
      BY <1>0, <3>2, Constants DEF DeviceTyped
  <2>2. CASE ~connected
    BY <1>0, <2>2, ByteRead DEF DeviceTyped
  <2>3. QED
    BY <2>1, <2>2
<1>4. DeviceTyped'
  BY <1>0, <1>1, <1>2, <1>3 DEF DeviceTyped
<1>5. PollTyped'
  <2>1. /\ got' \in Seq(Byte) /\ Len(got') <= reader.len
        /\ reader \in Calls
    <3>1. /\ Len(got) < reader.len /\ Len(got') = Len(got) + 1 /\ Len(got) \in Nat
          /\ got' \in Seq(Byte) /\ reader \in Calls
      BY ByteRead
    <3>2. reader.len \in Nat
      BY <3>1, Constants DEF Calls
    <3>3. QED
      BY <3>1, <3>2
  <2>2. PICK byte \in Byte : AfterByte(byte)
    BY ByteRead
  <2>3. CASE \E result : ReadReturns(result)
    <3>1. PICK result : ReadReturns(result)
      BY <2>3
    <3>2. owed' \in 0..(Numbers - 1)
      BY <1>0, <2>1, <3>1, ReturnTyped DEF PollTyped
    <3>3. cpu' = "none" /\ moved' = FALSE /\ reader' = NoCall
      BY <3>1 DEF ReadReturns
    <3>4. QED
      BY <1>0, <1>1, <2>1, <3>2, <3>3 DEF PollTyped
  <2>4. CASE ReadGoesOn("read_sense")
    BY <1>0, <1>1, <2>1, <2>4 DEF PollTyped, ReadGoesOn, ReadLooks
  <2>5. QED
    BY <2>2, <2>3, <2>4 DEF AfterByte
<1>6. QED
  BY <1>4, <1>5, TypedInHalves

\* The steps of the writer.
StepOfWrite ==
    \/ \E len \in 0..MaxLen : StartWrite(len)
    \/ PollWriteSense \/ PollWriteReady
    \/ write_byte \/ WriteMore \/ WriteSense

LEMMA WriteTyped ==
    ASSUME Inv, StepOfWrite
    PROVE  TypeOK'
<1>0. DeviceTyped /\ PollTyped /\ CountAgrees
  BY TypedInHalves DEF Inv
<1>1. UNCHANGED <<connected, fifo, next, readVars>>
  BY DEF StepOfWrite, StartWrite, PollWriteSense, PollWriteReady, write_byte, WriteMore,
         WriteSense, usbVars
<1>2. PollTyped'
  <2>1. cpu' \in {"none"} \cup WriteLooks \cup {cpu} /\ moved' \in {moved, FALSE}
    <3>1. ASSUME NEW len \in 0..MaxLen, StartWrite(len)
          PROVE  UNCHANGED <<cpu, moved>>
      BY <3>1 DEF StartWrite
    <3>2. CASE PollWriteSense
      BY <3>2 DEF PollWriteSense, WriteReturns, WriteLooks
    <3>3. CASE PollWriteReady
      BY <1>0, <3>3 DEF PollWriteReady, PollTyped, WriteLooks
    <3>4. CASE write_byte
      BY <3>4 DEF write_byte, WriteLooks
    <3>5. CASE WriteMore
      BY <3>5 DEF WriteMore, WriteReturns, WriteLooks
    <3>6. CASE WriteSense
      BY <3>6 DEF WriteSense, WriteReturns, WriteLooks
    <3>7. QED
      BY <3>1, <3>2, <3>3, <3>4, <3>5, <3>6 DEF StepOfWrite
  <2>2. QED
    BY <1>0, <1>1, <2>1 DEF PollTyped, readVars
<1>3. DeviceTyped'
  <2>1. ASSUME NEW len \in 0..MaxLen, StartWrite(len)
        PROVE  DeviceTyped'
    BY <1>0, <2>1, Constants DEF StartWrite, DeviceTyped, usbVars, busVars
  <2>2. CASE PollWriteSense \/ WriteMore \/ WriteSense
    <3>1. writer' \in {writer, 0} /\ UNCHANGED <<usbVars, busVars, sent, accepted>>
      BY <2>2 DEF PollWriteSense, WriteMore, WriteSense, WriteReturns
    <3>2. QED
      BY <1>0, <3>1, Constants DEF DeviceTyped, usbVars, busVars
  <2>3. CASE PollWriteReady
    BY <1>0, <2>3 DEF PollWriteReady, DeviceTyped, usbVars, busVars, writeVars
  <2>4. CASE write_byte
    <3>1. writer > 0 /\ sent < writer /\ writer' = writer /\ sent' = sent + 1
      BY <1>0, <2>4 DEF write_byte, CountAgrees, WriteLooks
    <3>2. room' \in 0..TxDepth /\ accepted' \in {accepted, accepted + 1}
      BY <1>0, <2>4, Constants DEF write_byte, Strobe, DeviceTyped
    <3>3. state' \in {"Unknown", "Input", "Output"} /\ ddr' \in {"in", "out"}
      BY <1>0, <2>4 DEF write_byte, TurnBus, busVars, DeviceTyped
    <3>4. sent' \in 0..MaxLen /\ sent' <= writer' /\ accepted' \in 0..sent'
      BY <1>0, <3>1, <3>2, Constants DEF DeviceTyped
    <3>5. QED
      BY <1>0, <1>1, <3>1, <3>2, <3>3, <3>4 DEF DeviceTyped
  <2>5. QED
    BY <2>1, <2>2, <2>3, <2>4 DEF StepOfWrite
<1>4. QED
  BY <1>2, <1>3, TypedInHalves

\* A step in the kinds that the lemmas below tell apart.
LEMMA Kinds ==
    ASSUME [Next]_vars
    PROVE  \/ \E term \in BOOLEAN : HostSends(term)
           \/ HostReceives \/ MoveCable
           \/ \E call \in Calls : StartRead(call)
           \/ LookOfRead \/ read_byte \/ StepOfWrite
           \/ UNCHANGED vars
BY DEF Next, LookOfRead, StepOfWrite

LEMMA TypeStep ==
    ASSUME Inv, [Next]_vars
    PROVE  TypeOK'
<1>1. CASE UNCHANGED vars
  BY <1>1 DEF vars, usbVars, busVars, readVars, writeVars, Inv, TypeOK
<1>2. QED
  BY <1>1, Kinds, EnvironmentTyped, StartTyped, LookTyped, ByteTyped, WriteTyped

-----------------------------------------------------------------------------
(* The bus, the cable and the writer.                                      *)

LEMMA BusStep ==
    ASSUME Inv, [Next]_vars
    PROVE  /\ BusAgrees'
           /\ read_byte => ddr' = "in"
           /\ write_byte => ddr' = "out"
<1>0. BusAgrees
  BY DEF Inv
<1>1. CASE read_byte
  <2>1. cpu = "read_byte"
    BY <1>1 DEF read_byte
  <2>2. ~write_byte
    BY <2>1 DEF write_byte
  <2>3. QED
    BY <1>0, <1>1, <2>2 DEF read_byte, TurnBus, busVars, BusAgrees
<1>2. CASE write_byte
  <2>1. cpu = "write_byte"
    BY <1>2 DEF write_byte
  <2>2. ~read_byte
    BY <2>1 DEF read_byte
  <2>3. QED
    BY <1>0, <1>2, <2>2 DEF write_byte, TurnBus, busVars, BusAgrees
<1>3. CASE ~read_byte /\ ~write_byte
  <2>1. UNCHANGED busVars
    <3>1. ASSUME NEW term \in BOOLEAN, HostSends(term)
          PROVE  UNCHANGED busVars
      BY <3>1 DEF HostSends
    <3>2. ASSUME NEW call \in Calls, StartRead(call)
          PROVE  UNCHANGED busVars
      BY <3>2 DEF StartRead
    <3>3. ASSUME NEW len \in 0..MaxLen, StartWrite(len)
          PROVE  UNCHANGED busVars
      BY <3>3 DEF StartWrite
    <3>4. CASE HostReceives \/ MoveCable \/ UNCHANGED vars
      BY <3>4 DEF HostReceives, MoveCable, vars
    <3>5. CASE PollReadSense \/ PollReadReady \/ EnterRead \/ ReadSense \/ ReadMore
      BY <3>5 DEF PollReadSense, PollReadReady, EnterRead, ReadSense, ReadMore
    <3>6. CASE PollWriteSense \/ PollWriteReady \/ WriteMore \/ WriteSense
      BY <3>6 DEF PollWriteSense, PollWriteReady, WriteMore, WriteSense
    <3>7. QED
      BY <1>3, <3>1, <3>2, <3>3, <3>4, <3>5, <3>6 DEF Next
  <2>2. QED
    BY <1>0, <1>3, <2>1 DEF busVars, BusAgrees
<1>4. QED
  BY <1>1, <1>2, <1>3

\* What a look of a read or its return does to the poll.
LEMMA LookMoves ==
    ASSUME LookOfRead, moved \in BOOLEAN
    PROVE  /\ UNCHANGED <<connected, fifo, next, room, state, ddr, got, replugged,
                          writer, sent, accepted>>
           /\ reader # NoCall /\ reader' # NoCall => reader' = reader /\ owed' = owed
           /\ cpu' = "none" => moved' = FALSE
           /\ cpu' # "none" => moved' = moved
           /\ cpu \notin WriteLooks /\ cpu # "read_byte" /\ cpu' # "read_sense"
           /\ cpu' \in {"none"} \cup ReadLooks
           /\ cpu = "none" /\ cpu' # "none" => connected
           /\ cpu' \in ReadLooks => UNCHANGED <<reader, owed>>
<1> USE DEF ReadLooks, WriteLooks, usbVars, busVars, readVars, writeVars,
            ReadGoesOn, ReadReturns
<1>1. CASE PollReadSense
  BY <1>1 DEF PollReadSense
<1>2. CASE PollReadReady
  <2>1. PICK low \in BOOLEAN : /\ cpu' = IF low THEN "read_enter" ELSE "none"
                               /\ moved' = (low /\ moved)
    BY <1>2 DEF PollReadReady
  <2>2. IF low THEN cpu' = "read_enter" /\ moved' = moved
               ELSE cpu' = "none" /\ moved' = FALSE
    BY <2>1
  <2>3. QED
    BY <1>2, <2>2 DEF PollReadReady
<1>3. CASE EnterRead
  BY <1>3 DEF EnterRead
<1>4. CASE ReadSense
  BY <1>4 DEF ReadSense
<1>5. CASE ReadMore
  BY <1>5 DEF ReadMore
<1>6. QED
  BY <1>1, <1>2, <1>3, <1>4, <1>5 DEF LookOfRead

LEMMA MoveStep ==
    ASSUME Inv, [Next]_vars
    PROVE  OneMove'
<1>0. /\ OneMove /\ ReadPlace /\ cpu \in {"none"} \cup ReadLooks \cup WriteLooks
      /\ connected \in BOOLEAN /\ moved \in BOOLEAN
  BY TypedInHalves DEF Inv, ReadInv, DeviceTyped, PollTyped
<1> USE DEF OneMove, ReadLooks, WriteLooks, usbVars, readVars
<1>1. ASSUME NEW term \in BOOLEAN, HostSends(term)
      PROVE  OneMove'
  BY <1>0, <1>1 DEF HostSends
<1>2. CASE HostReceives \/ UNCHANGED vars
  BY <1>0, <1>2 DEF HostReceives, vars
<1>3. CASE MoveCable
  BY <1>0, <1>3 DEF MoveCable, ReadPlace
<1>4. ASSUME NEW call \in Calls, StartRead(call)
      PROVE  OneMove'
  BY <1>0, <1>4 DEF StartRead
<1>5. CASE LookOfRead
  <2> HIDE DEF OneMove
  <2>1. /\ cpu' = "none" => moved' = FALSE
        /\ cpu' # "none" => moved' = moved /\ cpu' \in ReadLooks
        /\ UNCHANGED <<connected, replugged>>
        /\ cpu = "none" /\ cpu' # "none" => connected
        /\ cpu \notin WriteLooks
    BY <1>0, <1>5, LookMoves
  <2>2. QED
    BY <1>0, <2>1 DEF OneMove
<1>6. CASE read_byte
  <2>1. PICK byte \in Byte : AfterByte(byte)
    BY <1>6, ByteRead
  <2>2. QED
    BY <1>0, <1>6, <2>1 DEF read_byte, AfterByte, ReadReturns, ReadGoesOn
<1>7. CASE StepOfWrite
  <2>1. ASSUME NEW len \in 0..MaxLen, StartWrite(len)
        PROVE  OneMove'
    BY <1>0, <2>1 DEF StartWrite
  <2>2. CASE PollWriteSense
    BY <1>0, <2>2 DEF PollWriteSense, WriteReturns
  <2>3. CASE PollWriteReady
    BY <1>0, <2>3 DEF PollWriteReady
  <2>4. CASE write_byte
    BY <1>0, <2>4 DEF write_byte
  <2>5. CASE WriteMore
    BY <1>0, <2>5 DEF WriteMore, WriteReturns
  <2>6. CASE WriteSense
    BY <1>0, <2>6 DEF WriteSense, WriteReturns
  <2>7. QED
    BY <1>7, <2>1, <2>2, <2>3, <2>4, <2>5, <2>6 DEF StepOfWrite
<1>8. QED
  BY <1>1, <1>2, <1>3, <1>4, <1>5, <1>6, <1>7, Kinds

LEMMA ServedStep ==
    ASSUME Inv, [Next]_vars
    PROVE  StrobeServed'
<1>0. /\ StrobeServed /\ cpu \in {"none"} \cup ReadLooks \cup WriteLooks
      /\ fifo \in Seq(Byte) /\ room \in 0..TxDepth /\ connected \in BOOLEAN
      /\ moved \in BOOLEAN /\ OneMove
  BY TypedInHalves DEF Inv, DeviceTyped, PollTyped
<1> USE DEF StrobeServed
<1>1. ASSUME NEW term \in BOOLEAN, HostSends(term)
      PROVE  StrobeServed'
  <2>1. PICK byte : fifo' = Append(fifo, byte)
    BY <1>1 DEF HostSends
  <2>2. fifo' # <<>>
    BY <1>0, <2>1
  <2>3. QED
    BY <1>0, <1>1, <2>2 DEF HostSends
<1>2. CASE HostReceives \/ UNCHANGED vars
  BY <1>0, <1>2, Constants DEF HostReceives, vars, usbVars
<1>3. CASE MoveCable
  BY <1>0, <1>3, Constants DEF MoveCable, OneMove
<1>4. ASSUME NEW call \in Calls, StartRead(call)
      PROVE  StrobeServed'
  BY <1>0, <1>4 DEF StartRead, usbVars
<1>5. CASE LookOfRead
  <2>1. UNCHANGED <<connected, fifo, room>> /\ cpu' \in {"none"} \cup ReadLooks
    BY <1>0, <1>5, LookMoves
  <2>2. ASSUME cpu' \in {"read_enter", "read_byte"}, connected
        PROVE  fifo # <<>>
    <3>1. CASE PollReadReady
      BY <2>2, <3>1 DEF PollReadReady, CanRead
    <3>2. CASE EnterRead
      BY <1>0, <2>2, <3>2 DEF EnterRead
    <3>3. CASE ReadMore
      BY <2>2, <3>3 DEF ReadMore, CanRead, ReadGoesOn, ReadReturns
    <3>4. CASE PollReadSense \/ ReadSense
      BY <2>2, <3>4 DEF PollReadSense, ReadSense, ReadGoesOn, ReadReturns
    <3>5. QED
      BY <1>5, <3>1, <3>2, <3>3, <3>4 DEF LookOfRead
  <2>3. QED
    BY <2>1, <2>2 DEF ReadLooks
<1>6. CASE read_byte
  <2>1. PICK byte \in Byte : AfterByte(byte)
    BY <1>6, ByteRead
  <2>2. cpu' \in {"none", "read_sense"}
    BY <2>1 DEF AfterByte, ReadReturns, ReadGoesOn
  <2>3. QED
    BY <2>2
<1>7. CASE StepOfWrite
  <2>1. ASSUME NEW len \in 0..MaxLen, StartWrite(len)
        PROVE  StrobeServed'
    BY <1>0, <2>1 DEF StartWrite, usbVars
  <2>2. CASE PollWriteSense
    BY <2>2 DEF PollWriteSense, WriteReturns
  <2>3. CASE PollWriteReady
    BY <1>0, <2>3, Constants DEF PollWriteReady, CanWrite, usbVars
  <2>4. CASE write_byte
    BY <2>4 DEF write_byte
  <2>5. CASE WriteMore
    BY <1>0, <2>5, Constants DEF WriteMore, CanWrite, WriteReturns, usbVars
  <2>6. CASE WriteSense
    BY <1>0, <2>6 DEF WriteSense, WriteReturns, usbVars
  <2>7. QED
    BY <1>7, <2>1, <2>2, <2>3, <2>4, <2>5, <2>6 DEF StepOfWrite
<1>8. QED
  BY <1>1, <1>2, <1>3, <1>4, <1>5, <1>6, <1>7, Kinds

\* What the strobe of a read or its return does to the poll and the writer.
LEMMA ByteMoves ==
    ASSUME Inv, read_byte
    PROVE  /\ UNCHANGED <<connected, next, room, replugged, writer, sent, accepted>>
           /\ cpu = "read_byte" /\ cpu' \in {"none", "read_sense"}
           /\ cpu' = "read_sense" => UNCHANGED <<moved, reader, owed>>
           /\ cpu' = "none" => reader' = NoCall
<1>1. PICK byte \in Byte : AfterByte(byte)
  BY ByteRead
<1>2. QED
  BY <1>1 DEF AfterByte, ReadReturns, ReadGoesOn, read_byte, writeVars

LEMMA CountStep ==
    ASSUME Inv, [Next]_vars
    PROVE  CountAgrees'
<1>0. /\ CountAgrees /\ OneMove /\ cpu \in {"none"} \cup ReadLooks \cup WriteLooks
      /\ connected \in BOOLEAN /\ moved \in BOOLEAN
      /\ writer \in 0..MaxLen /\ sent \in 0..MaxLen /\ accepted \in 0..sent
      /\ writer > 0 => sent <= writer
  BY TypedInHalves DEF Inv, DeviceTyped, PollTyped
<1> USE DEF CountAgrees, WriteLooks
<1>1. ASSUME NEW term \in BOOLEAN, HostSends(term)
      PROVE  CountAgrees'
  BY <1>0, <1>1 DEF HostSends, writeVars
<1>2. CASE HostReceives \/ UNCHANGED vars
  BY <1>0, <1>2 DEF HostReceives, vars, writeVars, usbVars
<1>3. CASE MoveCable
  BY <1>0, <1>3 DEF MoveCable, OneMove, writeVars
<1>4. ASSUME NEW call \in Calls, StartRead(call)
      PROVE  CountAgrees'
  BY <1>0, <1>4 DEF StartRead, usbVars, writeVars
<1>5. CASE LookOfRead \/ read_byte
  <2>1. /\ UNCHANGED <<connected, writer, sent, accepted>>
        /\ cpu \notin WriteLooks /\ cpu' \notin WriteLooks
    BY <1>0, <1>5, LookMoves, ByteMoves DEF ReadLooks
  <2>2. QED
    BY <1>0, <2>1
<1>7. CASE StepOfWrite
  <2>1. ASSUME NEW len \in 0..MaxLen, StartWrite(len)
        PROVE  CountAgrees'
    BY <1>0, <2>1 DEF StartWrite
  <2>2. CASE PollWriteSense
    BY <1>0, <2>2 DEF PollWriteSense, WriteReturns
  <2>3. CASE PollWriteReady
    <3>1. UNCHANGED <<writer, sent, accepted, connected>> /\ cpu = "write_poll"
          /\ cpu' \in {"none", "write_byte"}
      BY <2>3 DEF PollWriteReady, writeVars, usbVars
    <3>2. writer > 0 /\ sent = 0 /\ accepted = 0
      BY <1>0, <3>1
    <3>3. QED
      BY <3>1, <3>2
  <2>4. CASE write_byte
    <3>1. /\ writer > 0 /\ sent < writer /\ sent = accepted /\ writer' = writer
          /\ sent' = sent + 1 /\ cpu' = "write_more" /\ connected' = connected
          /\ connected => room > 0
      BY <1>0, <2>4 DEF write_byte, Inv, StrobeServed
    <3>2. IF connected THEN accepted' = accepted + 1 ELSE accepted' = accepted
      BY <2>4, <3>1 DEF write_byte, Strobe
    <3>3. QED
      BY <1>0, <3>1, <3>2
  <2>5. CASE WriteMore
    <3>1. /\ UNCHANGED <<connected, sent, accepted>> /\ cpu = "write_more"
          /\ \/ cpu' = "write_sense" /\ writer' = writer /\ sent < writer
             \/ cpu' = "none" /\ writer' = 0
      BY <2>5 DEF WriteMore, WriteReturns, usbVars
    <3>2. QED
      BY <1>0, <3>1
  <2>6. CASE WriteSense
    <3>1. /\ UNCHANGED <<connected, sent, accepted>> /\ cpu = "write_sense"
          /\ \/ cpu' = "write_byte" /\ writer' = writer /\ connected
             \/ cpu' = "none" /\ writer' = 0
      BY <2>6 DEF WriteSense, WriteReturns, usbVars
    <3>2. QED
      BY <1>0, <3>1
  <2>7. QED
    BY <1>7, <2>1, <2>2, <2>3, <2>4, <2>5, <2>6 DEF StepOfWrite
<1>8. QED
  BY <1>1, <1>2, <1>3, <1>4, <1>5, <1>7, Kinds

\* What a write returns, step by step.
LEMMA CountOfWrite ==
    ASSUME Inv, [Next]_vars, WriteDone
    PROVE  /\ answer'.count \in accepted..(accepted + 1)
           /\ ~moved => answer'.count = accepted
<1>0. /\ CountAgrees /\ OneMove /\ connected \in BOOLEAN /\ moved \in BOOLEAN
      /\ accepted \in Nat /\ sent \in Nat
  BY TypedInHalves, Constants DEF Inv, DeviceTyped, PollTyped
<1>1. writer > 0 /\ writer' = 0 /\ answer'.result = "Ok" /\ writer' # writer
  <2>1. writer > 0 /\ writer' = 0 /\ answer'.result = "Ok"
    BY DEF WriteDone
  <2>2. QED
    BY <2>1
<1>2. StepOfWrite
  <2>1. ~(\E term \in BOOLEAN : HostSends(term)) /\ ~(\E call \in Calls : StartRead(call))
    BY <1>1 DEF HostSends, StartRead, writeVars
  <2>2. ~HostReceives /\ ~MoveCable /\ ~UNCHANGED vars
    BY <1>1 DEF HostReceives, MoveCable, vars, writeVars
  <2>3. ~LookOfRead /\ ~read_byte
    BY <1>0, <1>1, LookMoves, ByteMoves
  <2>4. QED
    BY <2>1, <2>2, <2>3, Kinds
<1>3. WriteMore \/ WriteSense
  <2>1. ~(\E len \in 0..MaxLen : StartWrite(len))
    BY <1>1 DEF StartWrite
  <2>2. ~PollWriteSense
    BY <1>1 DEF PollWriteSense, WriteReturns, Answer
  <2>3. ~PollWriteReady /\ ~write_byte
    BY <1>1 DEF PollWriteReady, write_byte, writeVars
  <2>4. QED
    BY <1>2, <2>1, <2>2, <2>3 DEF StepOfWrite
<1>4. answer'.count = sent /\ cpu \in {"write_more", "write_sense"}
  BY <1>1, <1>3 DEF WriteMore, WriteSense, WriteReturns, Answer
<1>5. QED
  BY <1>0, <1>4 DEF CountAgrees, OneMove

-----------------------------------------------------------------------------
(* The reader's slice and the FIFO.                                        *)

\* How a look of a read goes on, or returns.
LEMMA LookGoesOn ==
    ASSUME LookOfRead, Inv
    PROVE  /\ reader # NoCall
           /\ \/ reader' = NoCall /\ cpu' = "none"
              \/ /\ UNCHANGED <<reader, owed>>
                 /\ cpu = "read_sense" => connected
                 /\ cpu' = "read_more" => cpu = "read_sense"
                 /\ cpu' = "read_byte" => Len(got) < reader.len
                 /\ cpu = "read_more" /\ cpu' = "none" => reader.op = "read_to"
                 /\ cpu' = "none" => cpu \in {"read_poll", "read_more"}
           /\ reader' = NoCall /\ connected
                 => cpu = "read_more" /\ ReadReturns("Ok") /\ reader.op = "read"
           /\ reader' = NoCall /\ answer'.result = "Ok"
                 => cpu = "read_more" /\ ReadReturns("Ok") /\ reader.op = "read"
<1>0. ReadPlace
  BY DEF Inv, ReadInv
<1>1. reader # NoCall
  BY <1>0 DEF LookOfRead, PollReadSense, PollReadReady, EnterRead, ReadSense, ReadMore,
              ReadPlace, ReadLooks
<1>2. ASSUME ReadReturns("NotConnected")
      PROVE  reader' = NoCall /\ cpu' = "none" /\ answer'.result # "Ok"
  BY <1>2 DEF ReadReturns, Answer
<1>3. CASE PollReadSense
  BY <1>1, <1>2, <1>3 DEF PollReadSense, ReadGoesOn
<1>4. CASE PollReadReady
  <2>1. cpu = "read_poll" /\ cpu' \in {"none", "read_enter"} /\ UNCHANGED <<reader, owed>>
    BY <1>4 DEF PollReadReady, readVars
  <2>2. QED
    BY <1>1, <2>1
<1>5. CASE EnterRead
  <2>1. cpu = "read_enter" /\ Len(got) < reader.len
    BY <1>0, <1>1, <1>5 DEF EnterRead, ReadPlace
  <2>2. \/ connected /\ cpu' = "read_byte" /\ UNCHANGED <<reader, owed>>
        \/ ~connected /\ ReadReturns("NotConnected")
    BY <1>5 DEF EnterRead, ReadGoesOn
  <2>3. QED
    BY <1>1, <1>2, <2>1, <2>2
<1>6. CASE ReadSense
  BY <1>1, <1>2, <1>6 DEF ReadSense, ReadGoesOn
<1>7. CASE ReadMore
  <2>1. cpu = "read_more" /\ reader \in Calls /\ UNCHANGED got
    BY <1>1, <1>7 DEF ReadMore, Inv, TypeOK
  <2>2. reader.op \in {"read", "read_to"}
    BY <2>1 DEF Calls
  <2>3. \/ /\ reader.op = "read" => Len(got) < reader.len
           /\ ReadGoesOn("read_byte")
        \/ reader.op = "read" /\ ReadReturns("Ok")
        \/ reader.op = "read_to" /\ cpu' = "none" /\ UNCHANGED <<reader, owed>>
    BY <1>7 DEF ReadMore
  <2>4. reader.op = "read_to" => Len(got) < reader.len
    BY <1>0, <1>1 DEF ReadPlace
  <2>5. ReadReturns("Ok") => reader' = NoCall /\ cpu' = "none"
    BY DEF ReadReturns
  <2>6. ReadGoesOn("read_byte") => UNCHANGED <<reader, owed>> /\ cpu' = "read_byte"
    BY DEF ReadGoesOn
  <2>7. QED
    BY <1>1, <2>1, <2>2, <2>3, <2>4, <2>5, <2>6
<1>8. QED
  BY <1>3, <1>4, <1>5, <1>6, <1>7 DEF LookOfRead

\* The writer and the host leave the reader alone.
LEMMA WriterLeavesReader ==
    ASSUME Inv, StepOfWrite
    PROVE  /\ UNCHANGED <<connected, fifo, next, reader, got, replugged, owed>>
           /\ cpu \notin ReadLooks /\ cpu' \notin ReadLooks
<1>1. UNCHANGED <<connected, fifo, next, readVars>>
  BY DEF StepOfWrite, StartWrite, PollWriteSense, PollWriteReady, write_byte, WriteMore,
         WriteSense, usbVars
<1> USE DEF ReadLooks
<1>2. ASSUME NEW len \in 0..MaxLen, StartWrite(len)
      PROVE  cpu \notin ReadLooks /\ cpu' \notin ReadLooks
  BY <1>2 DEF StartWrite
<1>3. CASE PollWriteSense
  BY <1>1, <1>3 DEF PollWriteSense, WriteReturns, readVars
<1>4. CASE PollWriteReady
  BY <1>1, <1>4 DEF PollWriteReady, readVars
<1>5. CASE write_byte
  BY <1>1, <1>5 DEF write_byte, readVars
<1>6. CASE WriteMore
  BY <1>1, <1>6 DEF WriteMore, WriteReturns, readVars
<1>7. CASE WriteSense
  BY <1>1, <1>7 DEF WriteSense, WriteReturns, readVars
<1>8. QED
  BY <1>1, <1>2, <1>3, <1>4, <1>5, <1>6, <1>7 DEF StepOfWrite, readVars

LEMMA PlaceStep ==
    ASSUME Inv, [Next]_vars
    PROVE  ReadPlace'
<1>0. /\ ReadPlace /\ cpu \in {"none"} \cup ReadLooks \cup WriteLooks
      /\ moved \in BOOLEAN
  BY TypedInHalves DEF Inv, ReadInv, PollTyped
<1> USE DEF ReadPlace
<1>1. ASSUME NEW term \in BOOLEAN, HostSends(term)
      PROVE  ReadPlace'
  BY <1>0, <1>1 DEF HostSends, readVars
<1>2. CASE HostReceives \/ MoveCable \/ UNCHANGED vars
  BY <1>0, <1>2 DEF HostReceives, MoveCable, vars, readVars
<1>3. ASSUME NEW call \in Calls, StartRead(call)
      PROVE  ReadPlace'
  <2>1. Len(<<>>) = 0 /\ call.len \in Nat
    BY Constants DEF Calls
  <2>2. cpu' = "none" /\ got' = <<>>
    BY <1>3 DEF StartRead
  <2>3. reader' # NoCall => reader' = call /\ call.len # 0
    BY <1>3 DEF StartRead
  <2>4. QED
    BY <2>1, <2>2, <2>3 DEF ReadLooks
<1>4. CASE LookOfRead
  <2>1. /\ got' = got
        /\ cpu' \in {"none"} \cup ReadLooks
        /\ cpu \notin WriteLooks /\ cpu # "read_byte" /\ cpu' # "read_sense"
    BY <1>0, <1>4, LookMoves
  <2>2. CASE reader' = NoCall /\ cpu' = "none"
    BY <2>2 DEF ReadLooks
  <2>3. CASE /\ UNCHANGED <<reader, owed>>
             /\ cpu = "read_sense" => connected
             /\ cpu' = "read_more" => cpu = "read_sense"
             /\ cpu' = "read_byte" => Len(got) < reader.len
             /\ cpu = "read_more" /\ cpu' = "none" => reader.op = "read_to"
             /\ cpu' = "none" => cpu \in {"read_poll", "read_more"}
    <3>1. reader # NoCall
      BY <1>4, LookGoesOn
    <3>2. ASSUME reader.op = "read", cpu' \in {"none", "read_poll", "read_enter"}
          PROVE  got = <<>>
      <4>1. cpu \notin {"read_byte", "read_sense", "read_more"}
        <5>1. cpu \in {"read_sense", "read_more"} => cpu' \notin {"read_poll", "read_enter"}
          BY <1>4 DEF LookOfRead, PollReadSense, PollReadReady, EnterRead, ReadSense,
                      ReadMore, ReadGoesOn, ReadReturns
        <5>2. QED
          BY <2>1, <2>3, <3>2, <5>1
      <4>2. QED
        BY <1>0, <3>1, <3>2, <4>1
    <3>3. ASSUME reader.op = "read_to" \/ cpu' \notin {"read_sense", "read_more"}
          PROVE  Len(got) < reader.len
      <4>1. CASE reader.op = "read_to"
        BY <1>0, <3>1, <4>1
      <4>2. CASE reader.op # "read_to" /\ cpu' = "read_byte"
        BY <2>3, <4>2
      <4>3. CASE reader.op # "read_to" /\ cpu' \in {"none", "read_poll", "read_enter"}
        <5>1. cpu \notin {"read_sense", "read_more"}
          BY <1>4, <2>3, <4>3
             DEF LookOfRead, PollReadSense, PollReadReady, EnterRead, ReadSense,
                 ReadMore, ReadGoesOn, ReadReturns
        <5>2. QED
          BY <1>0, <3>1, <5>1
      <4>4. QED
        BY <2>1, <3>3, <4>1, <4>2, <4>3 DEF ReadLooks
    <3>4. QED
      BY <1>0, <2>1, <2>3, <3>1, <3>2, <3>3 DEF ReadLooks
  <2>4. QED
    BY <1>4, <2>2, <2>3, LookGoesOn
<1>5. CASE read_byte
  <2>1. /\ reader # NoCall /\ reader \in Calls /\ Len(got) < reader.len
        /\ got' # <<>> /\ Len(got') = Len(got) + 1 /\ Len(got) \in Nat
    BY <1>5, ByteRead
  <2>2. CASE cpu' = "none"
    BY <1>5, <2>2, ByteMoves DEF ReadLooks
  <2>3. CASE cpu' = "read_sense"
    <3>1. reader' = reader
      BY <1>5, <2>3, ByteMoves
    <3>2. PICK byte \in Byte : AfterByte(byte)
      BY <1>5, ByteRead
    <3>3. reader.op = "read_to" => Len(got') # reader.len
      BY <2>3, <3>2 DEF AfterByte, ReadReturns
    <3>4. reader.len \in Nat
      BY <2>1, Constants DEF Calls
    <3>5. QED
      BY <2>1, <2>3, <3>1, <3>3, <3>4 DEF ReadLooks
  <2>4. QED
    BY <1>5, <2>2, <2>3, ByteMoves
<1>6. CASE StepOfWrite
  <2>1. /\ UNCHANGED <<reader, got>>
        /\ cpu \notin ReadLooks /\ cpu' \notin ReadLooks
    BY <1>6, WriterLeavesReader
  <2>2. QED
    BY <1>0, <2>1 DEF ReadLooks
<1>7. QED
  BY <1>1, <1>2, <1>3, <1>4, <1>5, <1>6, Kinds

\* What another byte of the host does to the FIFO.
LEMMA HostAppends ==
    ASSUME Inv, NEW term \in BOOLEAN, HostSends(term)
    PROVE  /\ FifoOrdered' /\ Front' = Front /\ connected
           /\ UNCHANGED <<connected, cpu, moved, reader, got, replugged, owed>>
<1>0. /\ fifo \in Seq(Byte) /\ next \in 0..(Numbers - 1) /\ connected \in BOOLEAN
      /\ Run(fifo, Front, next)
      /\ \A i \in 1..Len(fifo) : fifo[i].genuine
  BY DEF Inv, TypeOK, ReadInv, FifoOrdered
<1>1. PICK byte \in Byte : /\ fifo' = Append(fifo, byte)
                           /\ byte.number = next /\ byte.genuine
  <2> DEFINE sentByte == [number |-> next, term |-> term, genuine |-> TRUE]
  <2>1. sentByte \in Byte /\ sentByte.number = next /\ sentByte.genuine
    BY <1>0 DEF Byte
  <2>2. fifo' = Append(fifo, sentByte)
    BY DEF HostSends
  <2> HIDE DEF sentByte
  <2>3. QED
    BY <2>1, <2>2
<1>2. connected /\ next' = Following(next)
      /\ UNCHANGED <<connected, cpu, moved, reader, got, replugged, owed>>
  BY <1>0 DEF HostSends, readVars
<1>3. /\ Len(fifo') = Len(fifo) + 1 /\ Len(fifo) \in Nat /\ fifo' # <<>>
      /\ \A i \in 1..Len(fifo) : fifo'[i] = fifo[i]
      /\ fifo'[Len(fifo) + 1] = byte
      /\ fifo = <<>> <=> Len(fifo) = 0
  BY <1>0, <1>1, AppendProperties, LengthTyped
<1>4. Front' = Front
  <2>1. CASE fifo = <<>>
    BY <1>1, <1>3, <2>1 DEF Front
  <2>2. CASE fifo # <<>>
    <3>1. 1 \in 1..Len(fifo)
      BY <1>3, <2>2
    <3>2. QED
      BY <1>3, <2>2, <3>1 DEF Front
  <2>3. QED
    BY <2>1, <2>2
<1>5. Run(fifo', Front', next')
  BY <1>0, <1>1, <1>2, <1>4, RunAppend
<1>6. \A i \in 1..Len(fifo') : fifo'[i].genuine
  <2> SUFFICES ASSUME NEW i \in 1..Len(fifo')
               PROVE  fifo'[i].genuine
    OBVIOUS
  <2>1. i \in 1..Len(fifo) \/ i = Len(fifo) + 1
    BY <1>3
  <2>2. QED
    BY <1>0, <1>1, <1>3, <2>1
<1>7. Run(fifo, Front, next)' /\ (\A i \in 1..Len(fifo) : fifo[i].genuine)'
  BY <1>5, <1>6 DEF Run, Following
<1>8. QED
  BY <1>2, <1>4, <1>7 DEF FifoOrdered

\* What a read with the cable in does to the FIFO.
LEMMA StrobeTakes ==
    ASSUME Inv, read_byte
    PROVE  /\ FifoOrdered'
           /\ connected => /\ fifo # <<>> /\ fifo[1].genuine
                           /\ Front = fifo[1].number
                           /\ Front' = Following(fifo[1].number)
<1>0. /\ fifo \in Seq(Byte) /\ connected \in BOOLEAN
      /\ Run(fifo, Front, next)
      /\ \A i \in 1..Len(fifo) : fifo[i].genuine
      /\ ~connected => fifo = <<>>
  BY DEF Inv, TypeOK, ReadInv, FifoOrdered
<1>1. next' = next /\ connected' = connected
  BY ByteMoves
<1>2. CASE ~connected
  <2>1. fifo' = fifo
    BY <1>2, ByteRead
  <2>2. FifoOrdered /\ Front' = Front
    BY <1>1, <2>1 DEF Inv, ReadInv, Front
  <2>3. QED
    BY <1>1, <1>2, <2>1, <2>2 DEF FifoOrdered, Run, Following
<1>3. CASE connected
  <2>1. fifo # <<>> /\ fifo' = Tail(fifo)
    BY <1>3, ByteRead
  <2>2. /\ fifo' \in Seq(Byte) /\ Len(fifo') = Len(fifo) - 1
        /\ \A i \in 1..Len(fifo') : fifo'[i] = fifo[i + 1]
        /\ Run(fifo', Following(fifo[1].number), next)
    BY <1>0, <2>1, RunTail
  <2>3. Len(fifo) \in Nat /\ 1 \in 1..Len(fifo) /\ Len(fifo') \in Nat
        /\ (fifo' = <<>> <=> Len(fifo') = 0)
    BY <1>0, <2>1, <2>2, LengthTyped
  <2>4. fifo[1].genuine /\ Front = fifo[1].number
    BY <1>0, <2>1, <2>3 DEF Front
  <2>5. Front' = Following(fifo[1].number)
    BY <1>1, <2>2 DEF Front, Run
  <2>6. \A i \in 1..Len(fifo') : fifo'[i].genuine
    <3> SUFFICES ASSUME NEW i \in 1..Len(fifo')
                 PROVE  fifo'[i].genuine
      OBVIOUS
    <3>1. i + 1 \in 1..Len(fifo)
      BY <2>2, <2>3
    <3>2. QED
      BY <1>0, <2>2, <3>1
  <2>7. Run(fifo', Front', next')
    BY <1>1, <2>2, <2>5
  <2>8. Run(fifo, Front, next)' /\ (\A i \in 1..Len(fifo) : fifo[i].genuine)'
    BY <2>6, <2>7 DEF Run, Following
  <2>9. QED
    BY <1>1, <1>3, <2>1, <2>4, <2>5, <2>8 DEF FifoOrdered
<1>4. QED
  BY <1>2, <1>3

LEMMA OrderStep ==
    ASSUME Inv, [Next]_vars
    PROVE  FifoOrdered'
<1>1. ASSUME NEW term \in BOOLEAN, HostSends(term)
      PROVE  FifoOrdered'
  BY <1>1, HostAppends
<1>2. CASE MoveCable
  <2>1. fifo' = <<>> /\ Len(<<>>) = 0
    BY <1>2 DEF MoveCable
  <2>2. QED
    BY <2>1 DEF FifoOrdered, Run, Front
<1>3. CASE read_byte
  BY <1>3, StrobeTakes
<1>4. CASE UNCHANGED <<connected, fifo, next>>
  <2>1. FifoOrdered /\ Front' = Front
    BY <1>4 DEF Inv, ReadInv, Front
  <2>2. QED
    BY <1>4, <2>1 DEF FifoOrdered, Run, Following
<1>5. HostReceives \/ UNCHANGED vars => UNCHANGED <<connected, fifo, next>>
  BY DEF HostReceives, vars, usbVars
<1>6. (\E call \in Calls : StartRead(call)) => UNCHANGED <<connected, fifo, next>>
  BY DEF StartRead, usbVars
<1>7. LookOfRead => UNCHANGED <<connected, fifo, next>>
  BY LookMoves DEF Inv, TypeOK
<1>8. StepOfWrite => UNCHANGED <<connected, fifo, next>>
  BY WriterLeavesReader
<1>9. QED
  BY <1>1, <1>2, <1>3, <1>4, <1>5, <1>6, <1>7, <1>8, Kinds

LEMMA NoiseStep ==
    ASSUME Inv, [Next]_vars
    PROVE  OnlyLastIsNoise'
<1>0. /\ OnlyLastIsNoise /\ OneMove /\ ReadPlace /\ got \in Seq(Byte)
      /\ connected \in BOOLEAN /\ moved \in BOOLEAN
  BY DEF Inv, ReadInv, TypeOK
<1>1. CASE UNCHANGED <<connected, cpu, reader, got>>
  BY <1>0, <1>1 DEF OnlyLastIsNoise
<1>2. (\E term \in BOOLEAN : HostSends(term)) => UNCHANGED <<connected, cpu, reader, got>>
  BY HostAppends
<1>3. HostReceives \/ UNCHANGED vars => UNCHANGED <<connected, cpu, reader, got>>
  BY DEF HostReceives, vars, usbVars, readVars
<1>4. CASE MoveCable
  <2>1. UNCHANGED <<cpu, reader, got>> /\ connected' = ~connected /\ ~moved
    BY <1>4 DEF MoveCable
  <2>2. cpu = "read_sense" => connected
    BY <1>0, <2>1 DEF OneMove
  <2>3. QED
    BY <1>0, <2>1, <2>2 DEF OnlyLastIsNoise
<1>5. ASSUME NEW call \in Calls, StartRead(call)
      PROVE  OnlyLastIsNoise'
  <2>1. got' = <<>> /\ Len(<<>>) = 0
    BY <1>5 DEF StartRead
  <2>2. QED
    BY <2>1 DEF OnlyLastIsNoise
<1>6. CASE LookOfRead
  <2>1. UNCHANGED <<connected, got>> /\ cpu' # "read_sense"
    BY <1>0, <1>6, LookMoves
  <2>2. reader' # NoCall => reader # NoCall /\ (cpu = "read_sense" => connected)
    BY <1>6, LookGoesOn
  <2>3. QED
    BY <1>0, <2>1, <2>2 DEF OnlyLastIsNoise
<1>7. CASE read_byte
  <2> SUFFICES ASSUME reader' # NoCall, NEW i \in 1..Len(got')
               PROVE  got'[i].genuine \/ (cpu' = "read_sense" /\ ~connected /\ i = Len(got'))
    BY <1>7, ByteMoves DEF OnlyLastIsNoise
  <2>1. cpu = "read_byte" /\ cpu' = "read_sense" /\ reader # NoCall
    BY <1>7, ByteMoves, ByteRead
  <2>2. PICK byte \in Byte :
           /\ Len(got') = Len(got) + 1 /\ Len(got) \in Nat
           /\ \A j \in 1..Len(got) : got'[j] = got[j]
           /\ got'[Len(got')] = byte
           /\ connected => fifo # <<>> /\ byte = fifo[1]
    BY <1>7, ByteRead
  <2>3. CASE i \in 1..Len(got)
    BY <1>0, <2>1, <2>2, <2>3 DEF OnlyLastIsNoise
  <2>4. CASE i = Len(got')
    BY <1>7, <2>1, <2>2, <2>4, StrobeTakes
  <2>5. QED
    BY <2>2, <2>3, <2>4
<1>8. CASE StepOfWrite
  <2>1. UNCHANGED <<connected, reader, got>> /\ cpu \notin ReadLooks /\ cpu' \notin ReadLooks
    BY <1>8, WriterLeavesReader
  <2>2. QED
    BY <1>0, <2>1 DEF OnlyLastIsNoise, ReadLooks
<1>9. QED
  BY <1>1, <1>2, <1>3, <1>4, <1>5, <1>6, <1>7, <1>8, Kinds

LEMMA ContinuousStep ==
    ASSUME Inv, [Next]_vars
    PROVE  Continuous'
<1>0. /\ Continuous /\ OneMove /\ ReadPlace /\ OnlyLastIsNoise /\ got \in Seq(Byte)
      /\ connected \in BOOLEAN /\ moved \in BOOLEAN
  BY DEF Inv, ReadInv, TypeOK
<1>1. CASE UNCHANGED <<connected, Front, cpu, reader, got, replugged, owed>>
  BY <1>0, <1>1 DEF Continuous, Run, Following
<1>2. (\E term \in BOOLEAN : HostSends(term))
         => UNCHANGED <<connected, Front, cpu, reader, got, replugged, owed>>
  BY HostAppends
<1>3. HostReceives \/ UNCHANGED vars
         => UNCHANGED <<connected, Front, cpu, reader, got, replugged, owed>>
  BY DEF HostReceives, vars, usbVars, readVars, Front
<1>4. CASE MoveCable
  <2>1. /\ UNCHANGED <<cpu, reader, got>> /\ ~moved /\ owed' = next
        /\ connected' = ~connected /\ replugged' = (reader # NoCall)
        /\ fifo' = <<>> /\ next' = next
    BY <1>4 DEF MoveCable
  <2>2. Front' = next
    BY <2>1 DEF Front
  <2>3. cpu' \in {"read_sense", "read_more"} => ~connected'
    BY <1>0, <2>1 DEF OneMove
  <2>4. QED
    BY <2>1, <2>2, <2>3 DEF Continuous
<1>5. ASSUME NEW call \in Calls, StartRead(call)
      PROVE  Continuous'
  <2>1. /\ UNCHANGED <<connected, fifo, next, owed>> /\ cpu' = "none" /\ got' = <<>>
        /\ reader = NoCall
    BY <1>5 DEF StartRead, usbVars
  <2>2. Front' = Front
    BY <2>1 DEF Front
  <2>3. connected => owed = Front
    BY <1>0, <2>1 DEF Continuous
  <2>4. QED
    BY <2>1, <2>2, <2>3 DEF Continuous, Run
<1>6. CASE LookOfRead
  <2>1. UNCHANGED <<connected, fifo, next, got, replugged>> /\ cpu' # "read_sense"
    BY <1>0, <1>6, LookMoves
  <2>2. Front' = Front
    BY <2>1 DEF Front
  <2>3. CASE reader' = NoCall
    <3>1. cpu' = "none"
      BY <1>6, <2>3, LookGoesOn DEF LookOfRead, PollReadSense, PollReadReady, EnterRead,
            ReadSense, ReadMore, ReadGoesOn, ReadReturns, readVars
    <3>2. ASSUME connected
          PROVE  owed' = Front
      <4>1. cpu = "read_more" /\ ReadReturns("Ok") /\ reader # NoCall
        BY <1>6, <2>3, <3>2, LookGoesOn
      <4>2. got # <<>> /\ Following(got[Len(got)].number) = Front
        BY <1>0, <3>2, <4>1 DEF ReadPlace, Continuous
      <4>3. Len(got) \in 1..Len(got)
        BY <1>0, <4>2, LengthTyped
      <4>4. got[Len(got)].genuine
        BY <1>0, <4>1, <4>3 DEF OnlyLastIsNoise
      <4>5. QED
        BY <2>1, <4>1, <4>2, <4>4 DEF ReadReturns
    <3>3. QED
      BY <2>1, <2>2, <2>3, <3>1, <3>2 DEF Continuous
  <2>4. CASE reader' # NoCall
    <3>1. UNCHANGED <<reader, owed>> /\ (cpu' = "read_more" => cpu = "read_sense")
      BY <1>6, <2>4, LookGoesOn
    <3>2. UNCHANGED <<Run(got, owed, Front), Following(got[Len(got)].number)>>
      BY <2>1, <2>2, <3>1 DEF Run, Following
    <3>3. QED
      BY <1>0, <2>1, <2>2, <2>4, <3>1, <3>2 DEF Continuous
  <2>5. QED
    BY <2>3, <2>4
<1>7. CASE read_byte
  <2>1. /\ cpu = "read_byte" /\ cpu' \in {"none", "read_sense"} /\ reader # NoCall
        /\ UNCHANGED <<connected, replugged>> /\ got' # <<>>
        /\ cpu' = "read_sense" => UNCHANGED <<reader, owed>>
        /\ cpu' = "none" => reader' = NoCall
    BY <1>7, ByteMoves, ByteRead
  <2>2. PICK byte \in Byte : /\ got' = Append(got, byte) /\ got'[Len(got')] = byte
                             /\ AfterByte(byte)
                             /\ connected => byte = fifo[1]
    BY <1>7, ByteRead
  <2>3. connected => /\ byte.genuine /\ Front = byte.number
                     /\ Front' = Following(byte.number)
    BY <1>7, <2>2, StrobeTakes
  <2>4. CASE cpu' = "none"
    <3>1. PICK result : ReadReturns(result)
      BY <2>2, <2>4 DEF AfterByte, ReadGoesOn
    <3>2. connected => owed' = Front'
      BY <2>1, <2>2, <2>3, <3>1 DEF ReadReturns
    <3>3. QED
      BY <2>1, <2>4, <3>2 DEF Continuous
  <2>5. CASE cpu' = "read_sense"
    <3>1. UNCHANGED <<reader, owed>>
      BY <2>1, <2>5
    <3>2. ASSUME ~replugged
          PROVE  connected /\ Run(got', owed', Front')
      <4>1. connected
        BY <1>0, <2>1, <3>2 DEF OneMove, ReadLooks
      <4>2. Run(got, owed, byte.number)
        BY <1>0, <2>1, <2>3, <3>2, <4>1 DEF Continuous
      <4>3. QED
        BY <1>0, <2>2, <2>3, <3>1, <4>1, <4>2, RunAppend
    <3>3. connected => Following(got'[Len(got')].number) = Front'
      BY <2>2, <2>3
    <3>4. /\ Run(got', owed', Front') => Run(got, owed, Front)'
          /\ Following(got'[Len(got')].number) = Following(got[Len(got)].number)'
      BY DEF Run, Following
    <3>5. QED
      BY <2>1, <2>5, <3>1, <3>2, <3>3, <3>4 DEF Continuous
  <2>6. QED
    BY <2>1, <2>4, <2>5
<1>8. CASE StepOfWrite
  <2>1. /\ UNCHANGED <<connected, fifo, next, reader, got, replugged, owed>>
        /\ cpu \notin ReadLooks /\ cpu' \notin ReadLooks
    BY <1>8, WriterLeavesReader
  <2>2. Front' = Front
    BY <2>1 DEF Front
  <2>3. UNCHANGED Run(got, owed, Front)
    BY <2>1, <2>2 DEF Run, Following
  <2>4. QED
    BY <1>0, <2>1, <2>2, <2>3 DEF Continuous, ReadLooks
<1>9. QED
  BY <1>1, <1>2, <1>3, <1>4, <1>5, <1>6, <1>7, <1>8, Kinds

\* What a read returns, step by step.
LEMMA StreamOfRead ==
    ASSUME Inv, [Next]_vars, ReadDone
    PROVE  LET data == answer'.data
               trusted == IF reader.op = "read" THEN Len(data) ELSE Len(data) - 1
           IN  /\ data # <<>>
               /\ \A i \in 1..trusted : data[i].genuine
               /\ ~replugged =>
                     /\ data[1].number = owed
                     /\ \A i \in 1..(Len(data) - 1) :
                           data[i + 1].number = Following(data[i].number)
<1>0. /\ Continuous /\ OneMove /\ ReadPlace /\ OnlyLastIsNoise /\ got \in Seq(Byte)
      /\ connected \in BOOLEAN /\ moved \in BOOLEAN
  BY DEF Inv, ReadInv, TypeOK
<1>1. reader # NoCall /\ reader' = NoCall /\ answer'.result = "Ok"
  BY DEF ReadDone
<1>2. LookOfRead \/ read_byte
  <2>1. ~(\E term \in BOOLEAN : HostSends(term)) /\ ~(\E call \in Calls : StartRead(call))
    BY <1>1, HostAppends DEF StartRead
  <2>2. ~HostReceives /\ ~MoveCable /\ ~UNCHANGED vars
    BY <1>1 DEF HostReceives, MoveCable, vars, readVars
  <2>3. ~StepOfWrite
    BY <1>1, WriterLeavesReader
  <2>4. QED
    BY <2>1, <2>2, <2>3, Kinds
<1>3. CASE LookOfRead
  <2>1. cpu = "read_more" /\ ReadReturns("Ok") /\ reader.op = "read"
    BY <1>1, <1>3, LookGoesOn
  <2>2. answer'.data = got
    BY <1>0, <1>3, <2>1, LookMoves DEF ReadReturns, Answer
  <2>3. got # <<>> /\ \A i \in 1..Len(got) : got[i].genuine
    BY <1>0, <1>1, <2>1 DEF ReadPlace, OnlyLastIsNoise
  <2>4. ~replugged => Run(got, owed, Front)
    BY <1>0, <1>1, <2>1, <2>3 DEF Continuous
  <2>5. QED
    BY <2>1, <2>2, <2>3, <2>4 DEF Run
<1>4. CASE read_byte
  <2>1. /\ got' \in Seq(Byte) /\ got' # <<>> /\ cpu = "read_byte" /\ reader \in Calls
        /\ Len(got') = Len(got) + 1 /\ Len(got) \in Nat
    BY <1>4, ByteRead, ByteMoves
  <2>2. PICK byte \in Byte : /\ got' = Append(got, byte) /\ AfterByte(byte)
                             /\ \A i \in 1..Len(got) : got'[i] = got[i]
                             /\ connected => byte = fifo[1]
    BY <1>4, ByteRead
  <2>3. ReadReturns("Ok") /\ reader.op = "read_to"
    BY <1>1, <2>2 DEF AfterByte, ReadReturns, ReadGoesOn, Answer
  <2>4. answer'.data = got'
    BY <2>3 DEF ReadReturns, Answer
  <2>5. \A i \in 1..(Len(got') - 1) : got'[i].genuine
    <3>1. \A i \in 1..Len(got) : got[i].genuine
      BY <1>0, <1>1, <2>1 DEF OnlyLastIsNoise
    <3>2. QED
      BY <2>1, <2>2, <3>1
  <2>6. ASSUME ~replugged
        PROVE  Run(got', owed, Following(byte.number))
    <3>1. connected
      BY <1>0, <2>1, <2>6 DEF OneMove, ReadLooks
    <3>2. Front = byte.number
      BY <1>4, <2>2, <3>1, StrobeTakes
    <3>3. Run(got, owed, byte.number)
      BY <1>0, <1>1, <2>6, <3>1, <3>2 DEF Continuous
    <3>4. QED
      BY <1>0, <2>2, <3>3, RunAppend
  <2>7. QED
    BY <2>1, <2>3, <2>4, <2>5, <2>6 DEF Run
<1>5. QED
  BY <1>2, <1>3, <1>4

\* What a read that fails forgets, step by step.
LEMMA LossOfRead ==
    ASSUME Inv, [Next]_vars, ReadFailed, answer'.data # <<>>
    PROVE  \/ replugged
           \/ reader.op = "read_to" /\ Len(answer'.data) = reader.len
<1>0. Continuous /\ OneMove /\ ReadPlace
  BY DEF Inv, ReadInv
<1>1. reader # NoCall /\ reader' = NoCall /\ answer'.result = "NotConnected"
  BY DEF ReadFailed
<1>2. LookOfRead \/ read_byte
  <2>1. ~(\E term \in BOOLEAN : HostSends(term)) /\ ~(\E call \in Calls : StartRead(call))
    BY <1>1, HostAppends DEF StartRead
  <2>2. ~HostReceives /\ ~MoveCable /\ ~UNCHANGED vars
    BY <1>1 DEF HostReceives, MoveCable, vars, readVars
  <2>3. ~StepOfWrite
    BY <1>1, WriterLeavesReader
  <2>4. QED
    BY <2>1, <2>2, <2>3, Kinds
<1>3. CASE LookOfRead
  <2>1. ~connected /\ answer'.data = got
    <3>1. CASE PollReadSense
      BY <1>1, <3>1 DEF PollReadSense, ReadGoesOn, ReadReturns, Answer
    <3>2. CASE PollReadReady
      BY <1>1, <3>2 DEF PollReadReady, readVars
    <3>3. CASE EnterRead
      BY <1>1, <3>3 DEF EnterRead, ReadGoesOn, ReadReturns, Answer
    <3>4. CASE ReadSense
      BY <1>1, <3>4 DEF ReadSense, ReadGoesOn, ReadReturns, Answer
    <3>5. CASE ReadMore
      BY <1>1, <3>5 DEF ReadMore, ReadGoesOn, ReadReturns, Answer
    <3>6. QED
      BY <1>3, <3>1, <3>2, <3>3, <3>4, <3>5 DEF LookOfRead
  <2>2. ~replugged => got = <<>>
    BY <1>0, <1>1, <2>1 DEF Continuous
  <2>3. QED
    BY <2>1, <2>2
<1>4. CASE read_byte
  <2>1. PICK byte \in Byte : got' = Append(got, byte) /\ AfterByte(byte)
    BY <1>4, ByteRead
  <2>2. /\ reader.op = "read_to" /\ Len(got') = reader.len
        /\ ReadReturns("NotConnected")
    BY <1>1, <2>1 DEF AfterByte, ReadReturns, ReadGoesOn, Answer
  <2>3. answer'.data = got'
    BY <2>2 DEF ReadReturns, Answer
  <2>4. QED
    BY <2>2, <2>3
<1>5. QED
  BY <1>2, <1>3, <1>4

-----------------------------------------------------------------------------
(* The theorems.                                                           *)

LEMMA Invariance == Spec => []Inv
<1>1. Init => Inv
  BY InitInv
<1>2. Inv /\ [Next]_vars => Inv'
  BY TypeStep, BusStep, MoveStep, ServedStep, CountStep, PlaceStep, OrderStep, NoiseStep,
     ContinuousStep DEF Inv, ReadInv
<1>3. QED
  BY <1>1, <1>2, PTL DEF Spec

\* No call stores or counts more bytes than its slice has, although each loop
\* only looks after a byte was moved; every other variable keeps its type.
THEOREM BridgeTyped == Spec => []TypeOK
BY Invariance, PTL DEF Inv

\* The cached direction is the port's: each strobe finds the port turned its
\* way, whatever the other call did before.
THEOREM PortTurned == Spec => BusTurned
<1>1. Inv /\ [Next]_vars => [/\ read_byte => ddr' = "in"
                             /\ write_byte => ddr' = "out"]_vars
  BY BusStep
<1>2. QED
  BY <1>1, Invariance, PTL DEF Spec, BusTurned

\* A successful read returns bytes of the host, and as long as the cable stays
\* in nothing is missing and nothing comes twice, from one call to the next.
THEOREM HostStreamKept == Spec => StreamKept
<1>1. ASSUME Inv, [Next]_vars
      PROVE  [ReadDone =>
                LET data == answer'.data
                    trusted == IF reader.op = "read" THEN Len(data) ELSE Len(data) - 1
                IN  /\ data # <<>>
                    /\ \A i \in 1..trusted : data[i].genuine
                    /\ ~replugged =>
                          /\ data[1].number = owed
                          /\ \A i \in 1..(Len(data) - 1) :
                                data[i + 1].number = Following(data[i].number)]_vars
  BY <1>1, StreamOfRead
<1>2. QED
  BY <1>1, Invariance, PTL DEF Spec, StreamKept

\* A read loses bytes it has taken off the FIFO only if the cable moved while
\* it ran, or as a read_to whose buffer filled up.
THEOREM LossNeedsUnplug == Spec => LostOnlyUnplugged
<1>1. ASSUME Inv, [Next]_vars
      PROVE  [ReadFailed /\ answer'.data # <<>> =>
                \/ replugged
                \/ reader.op = "read_to" /\ Len(answer'.data) = reader.len]_vars
  BY <1>1, LossOfRead
<1>2. QED
  BY <1>1, Invariance, PTL DEF Spec, LostOnlyUnplugged

\* The count of a write is what the bridge took, but for one byte if the cable
\* was pulled during the write.
THEOREM CountIsTaken == Spec => WriteCounted
<1>1. ASSUME Inv, [Next]_vars
      PROVE  [WriteDone => /\ answer'.count \in accepted..(accepted + 1)
                           /\ ~moved => answer'.count = accepted]_vars
  BY <1>1, CountOfWrite
<1>2. QED
  BY <1>1, Invariance, PTL DEF Spec, WriteCounted
-----------------------------------------------------------------------------
(* The reader's buffer.                                                    *)

Answered == answer.call \in {"read", "read_to"} /\ answer.result = "Ok"

\* A call under way has room, and none is a call without any.
LEMMA CallHasRoom ==
    ASSUME Inv
    PROVE  /\ reader.len \in Nat
           /\ reader # NoCall <=> reader.len > 0
           /\ reader # NoCall => reader.op \in {"read", "read_to"}
           /\ got \in Seq(Byte) /\ Len(got) \in Nat
           /\ reader # NoCall => Len(got) <= reader.len
           /\ SubSeq(got, 1, Len(got)) = got
<1>1. /\ reader \in Calls \cup {NoCall} /\ got \in Seq(Byte)
      /\ reader # NoCall => Len(got) <= reader.len
  BY DEF Inv, TypeOK
<1>2. Len(got) \in Nat /\ (got # <<>> => Len(got) > 0) /\ SubSeq(got, 1, Len(got)) = got
  BY <1>1, LengthTyped, SubSeqFull
<1>3. CASE reader = NoCall
  BY <1>1, <1>2, <1>3 DEF NoCall
<1>4. CASE reader # NoCall
  <2>1. reader.len \in Nat /\ reader.op \in {"read", "read_to"}
    BY <1>1, <1>4, Constants DEF Calls
  <2>2. Len(got) < reader.len \/ got # <<>>
    BY <1>4, <2>1 DEF Inv, ReadInv, ReadPlace
  <2>3. QED
    BY <1>1, <1>2, <1>4, <2>1, <2>2
<1>5. QED
  BY <1>3, <1>4

\* A byte out of the bridge is put behind the ones in the buffer.
LEMMA FrontKept ==
    ASSUME NEW seq \in Seq(Byte), NEW byte \in Byte
    PROVE  SubSeq(Append(seq, byte), 1, Len(seq)) = seq
<1>1. /\ Append(seq, byte) \in Seq(Byte) /\ Len(Append(seq, byte)) = Len(seq) + 1
      /\ \A i \in 1..Len(seq) : Append(seq, byte)[i] = seq[i]
  BY AppendProperties
<1>2. Len(seq) \in Nat
  BY LengthTyped
<1>3. /\ SubSeq(Append(seq, byte), 1, Len(seq)) \in Seq(Byte)
      /\ Len(SubSeq(Append(seq, byte), 1, Len(seq))) = Len(seq)
      /\ \A i \in 1..Len(seq) :
            SubSeq(Append(seq, byte), 1, Len(seq))[i] = Append(seq, byte)[i]
  <2>1. \A i \in 1..Len(seq) : Append(seq, byte)[i] \in Byte
    BY <1>1, <1>2, ElementOfSeq
  <2>2. QED
    BY <1>2, <2>1, SubSeqProperties
<1>4. QED
  BY <1>1, <1>3, SeqEqual

\* A call begins with nothing in its buffer, or is refused.
LEMMA BufferOfStart ==
    ASSUME Inv, NEW call \in Calls, StartRead(call)
    PROVE  Reads!Begin
<1>1. reader = NoCall /\ got' = <<>>
  BY DEF StartRead
<1>2. CASE call.len = 0
  <2>1. reader' = NoCall /\ answer'.result = "refused"
    BY <1>1, <1>2 DEF StartRead, Answer
  <2>2. QED
    BY <1>1, <2>1 DEF Reads!Begin, NoCall
<1>3. CASE call.len # 0
  <2>1. reader' = call /\ call.len \in Nat /\ call # NoCall
    BY <1>3, Constants DEF StartRead, Calls, NoCall
  <2>2. QED
    BY <1>1, <2>1 DEF Reads!Begin, NoCall
<1>4. QED
  BY <1>2, <1>3

\* A look at a pin leaves the buffer as it is; with a byte in it, it may be
\* the end of a read.
LEMMA BufferOfLook ==
    ASSUME Inv, LookOfRead
    PROVE  Reads!Succeed \/ Reads!Fail \/ UNCHANGED Reads!vars
<1>0. moved \in BOOLEAN
  BY DEF Inv, TypeOK
<1>1. reader # NoCall /\ got' = got
  BY <1>0, LookGoesOn, LookMoves
<1>2. CASE UNCHANGED reader
  BY <1>1, <1>2 DEF Reads!vars
<1>3. CASE reader' = NoCall /\ answer'.result = "Ok"
  <2>1. cpu = "read_more" /\ ReadReturns("Ok")
    BY <1>3, LookGoesOn
  <2>2. Answered'
    BY <1>1, <2>1, CallHasRoom DEF ReadReturns, Answer, Answered
  <2>3. got # <<>>
    BY <2>1 DEF Inv, ReadInv, ReadPlace
  <2>4. QED
    BY <1>1, <1>3, <2>2, <2>3, CallHasRoom
       DEF Reads!Succeed, Reads!Grows, NoCall, Answered
<1>4. CASE reader' = NoCall /\ answer'.result # "Ok"
  BY <1>1, <1>4, CallHasRoom DEF Reads!Fail, Reads!Grows, NoCall
<1>5. QED
  BY <1>2, <1>3, <1>4, LookGoesOn

LEMMA BufferOfByte ==
    ASSUME Inv, Inv', read_byte
    PROVE  Reads!Fill \/ Reads!Succeed \/ Reads!Fail
<1>1. /\ reader # NoCall /\ Len(got) < reader.len /\ Len(got) \in Nat
      /\ Len(got') = Len(got) + 1 /\ got' # <<>>
  BY ByteRead
<1>2. PICK byte \in Byte : got' = Append(got, byte) /\ AfterByte(byte)
  BY ByteRead
<1>3. Reads!Grows
  <2>1. SubSeq(got', 1, Len(got)) = got
    BY <1>2, FrontKept, CallHasRoom
  <2>2. QED
    BY <1>1, <2>1, CallHasRoom DEF Reads!Grows
<1>4. CASE ReadGoesOn("read_sense")
  <2>1. UNCHANGED reader
    BY <1>4 DEF ReadGoesOn
  <2>2. QED
    BY <1>1, <1>3, <2>1 DEF Reads!Fill
<1>5. CASE ReadReturns("Ok")
  <2>1. reader' = NoCall /\ Answered'
    BY <1>1, <1>5, CallHasRoom DEF ReadReturns, Answer, Answered
  <2>2. QED
    BY <1>1, <1>3, <2>1 DEF Reads!Succeed, NoCall, Answered
<1>6. CASE ReadReturns("NotConnected")
  <2>1. reader' = NoCall /\ answer'.result = "NotConnected"
    BY <1>6 DEF ReadReturns, Answer
  <2>2. QED
    BY <1>1, <1>3, <2>1 DEF Reads!Fail, NoCall
<1>7. QED
  BY <1>2, <1>4, <1>5, <1>6 DEF AfterByte

\* A write answers, but never to the reader.
LEMMA BufferOfWrite ==
    ASSUME Inv, StepOfWrite
    PROVE  Reads!Leave \/ UNCHANGED Reads!vars
<1>1. UNCHANGED <<reader, got>>
  BY WriterLeavesReader
<1>2. answer' = answer \/ answer'.call \in {"none", "write"}
  BY DEF StepOfWrite, StartWrite, PollWriteSense, PollWriteReady, write_byte, WriteMore,
         WriteSense, WriteReturns, Answer, NoAnswer
<1>3. CASE reader # NoCall \/ answer' = answer
  BY <1>1, <1>3 DEF Reads!vars
<1>4. CASE reader = NoCall /\ answer'.call \in {"none", "write"}
  BY <1>1, <1>4 DEF Reads!Leave, NoCall
<1>5. QED
  BY <1>2, <1>3, <1>4

\* The calls of the reader keep what module SliceRead promises, for every
\* depth of the FIFOs and every buffer, whenever the cable moves and whatever
\* is written between two polls.
THEOREM CallsFillSlice == Spec => FillsSlice
<1>1. Init => Reads!Init
  BY DEF Init, NoCall, NoAnswer, Reads!Init
<1>2. ASSUME Inv, Inv', [Next]_vars
      PROVE  [Reads!Next]_(Reads!vars)
  <2>1. CASE \/ \E term \in BOOLEAN : HostSends(term)
             \/ HostReceives \/ MoveCable \/ UNCHANGED vars
    <3>1. UNCHANGED <<reader, got, answer>>
      BY <2>1 DEF HostSends, HostReceives, MoveCable, vars, readVars
    <3>2. QED
      BY <3>1 DEF Reads!vars
  <2>2. QED
    BY <1>2, <2>1, Kinds, BufferOfStart, BufferOfLook, BufferOfByte, BufferOfWrite
       DEF Reads!Next
<1>3. QED
  BY <1>1, <1>2, Invariance, PTL DEF Spec, FillsSlice, Reads!Spec
=============================================================================

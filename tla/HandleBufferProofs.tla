------------------------- MODULE HandleBufferProofs -------------------------
(***************************************************************************)
(* For every capacity, byte alphabet and set of slices: both buffers stay  *)
(* inside the pool memory they were given, a FlatBuffer panics only after  *)
(* a read, and both implement BoundedBuffer.                               *)
(***************************************************************************)
EXTENDS HandleBuffer, SequenceTheorems, TLAPS

FlatInv ==
    /\ kind = "flat"
    /\ Flat!TypeOK
    /\ Flat!WindowKept
    /\ Flat!PanicsOnlyAfterRead

CircularInv ==
    /\ kind = "circular"
    /\ Circular!TypeOK
    /\ panicked = FALSE

Inv == FlatInv \/ CircularInv

\* What a panic is to the queue.
Stops ==
    /\ panicked' = TRUE
    /\ UNCHANGED <<Contents, result>>

USE HandleAssumption DEF Flat!Slots, Circular!Slots

\* A table indexed from 1 to n is a sequence of length n.
LEMMA TableIsSeq ==
    ASSUME NEW S, NEW n \in Nat, NEW table \in [1..n -> S]
    PROVE  table \in Seq(S) /\ Len(table) = n
<1>1. table \in Seq(S)
  BY SeqDef
<1>2. Len(table) \in Nat /\ 1..Len(table) = 1..n
  BY <1>1, LenProperties
<1>3. Len(table) = n
  <2>1. CASE Len(table) > n
    BY <1>2, <2>1
  <2>2. CASE Len(table) < n
    BY <1>2, <2>2
  <2>3. QED
    BY <1>2, <2>1, <2>2
<1>4. QED
  BY <1>1, <1>3

\* Two sequences are one if they are equally long and agree everywhere.
LEMMA Extended ==
    ASSUME NEW s \in Seq(Byte), NEW t \in Seq(Byte), NEW u \in Seq(Byte),
           Len(u) = Len(s) + Len(t),
           \A i \in 1..Len(s) : u[i] = s[i],
           \A i \in 1..Len(t) : u[Len(s) + i] = t[i]
    PROVE  u = s \o t
<1> DEFINE whole == s \o t
<1>1. /\ whole \in Seq(Byte) /\ Len(whole) = Len(s) + Len(t)
      /\ \A i \in 1..(Len(s) + Len(t)) :
            whole[i] = IF i <= Len(s) THEN s[i] ELSE t[i - Len(s)]
      /\ Len(s) \in Nat /\ Len(t) \in Nat
  BY ConcatProperties, LenProperties
<1> HIDE DEF whole
<1>2. ASSUME NEW i \in 1..Len(u)
      PROVE  u[i] = whole[i]
  <2>1. CASE i <= Len(s)
    BY <1>1, <2>1
  <2>2. CASE ~(i <= Len(s))
    <3>1. i - Len(s) \in 1..Len(t) /\ Len(s) + (i - Len(s)) = i
      BY <1>1, <2>2
    <3>2. u[Len(s) + (i - Len(s))] = t[i - Len(s)]
      BY <3>1
    <3>3. QED
      BY <1>1, <2>2, <3>1, <3>2
  <2>3. QED
    BY <2>1, <2>2
<1>3. u = whole
  BY <1>1, <1>2, SeqEqual
<1>4. QED
  BY <1>3 DEF whole

LEMMA Prefix ==
    ASSUME NEW src \in Seq(Byte), NEW n \in 0..Len(src)
    PROVE  /\ SubSeq(src, 1, n) \in Seq(Byte)
           /\ Len(SubSeq(src, 1, n)) = n
           /\ \A i \in 1..n : SubSeq(src, 1, n)[i] = src[i] /\ src[i] \in Byte
<1>1. Len(src) \in Nat /\ \A i \in 1..n : src[i] \in Byte
  BY LenProperties, ElementOfSeq
<1>2. QED
  BY <1>1, SubSeqProperties

\* Tail, told by its elements.
LEMMA Shortened ==
    ASSUME NEW s \in Seq(Byte), NEW u \in Seq(Byte), s # <<>>,
           Len(u) = Len(s) - 1,
           \A i \in 1..Len(u) : u[i] = s[i + 1]
    PROVE  u = Tail(s)
BY HeadTailProperties, SeqEqual

-----------------------------------------------------------------------------
(* The flat buffer.                                                        *)

LEMMA FlatContents ==
    ASSUME FlatInv
    PROVE  /\ Contents \in Seq(Byte) /\ Len(Contents) = len
           /\ \A i \in 1..len : Contents[i] = buf[r_pos + i - 1]
           /\ room = Capacity
           /\ Contents = <<>> <=> len = 0
<1> USE DEF FlatInv, Flat!TypeOK, Flat!WindowKept
<1>1. \A i \in 1..len : r_pos + i - 1 \in 0..(Capacity - 1)
  OBVIOUS
<1>2. Flat!Contents \in [1..len -> Byte]
  BY <1>1 DEF Flat!Contents
<1>3. Contents = Flat!Contents /\ room = Capacity
  BY DEF Contents, room
<1>4. Contents \in Seq(Byte) /\ Len(Contents) = len
  BY <1>2, <1>3, TableIsSeq
<1>5. Contents = <<>> <=> len = 0
  BY <1>4, EmptySeq
<1>6. QED
  BY <1>3, <1>4, <1>5 DEF Flat!Contents

LEMMA FlatRefuse ==
    ASSUME FlatInv, kind' = kind, NEW status, Flat!Refuse(status)
    PROVE  FlatInv' /\ Buffer!Refuse(status) /\ UNCHANGED <<room, panicked>>
<1>1. UNCHANGED <<kind, r_pos, w_pos, len, buf, panicked>>
      /\ result' = [status |-> status, n |-> 0, data |-> <<>>]
  BY DEF Flat!Refuse, Flat!Return, Flat!Answer
<1>2. FlatInv'
  BY <1>1, EmptySeq
     DEF FlatInv, Flat!TypeOK, Flat!WindowKept, Flat!PanicsOnlyAfterRead
<1>3. Contents' = Contents /\ room' = room
  BY <1>1 DEF Contents, room, Flat!Contents, FlatInv
<1>4. QED
  BY <1>1, <1>2, <1>3 DEF Buffer!Refuse, Buffer!Answer

\* What the free space admits is appended, or the slice index panics, and then
\* the buffer was read from.
LEMMA FlatAccept ==
    ASSUME FlatInv, kind' = kind, NEW src \in Seq(Byte), NEW n \in 0..Len(src),
           n <= Capacity - len, Flat!Accept(src, n)
    PROVE  /\ FlatInv' /\ UNCHANGED room
           /\ \/ Buffer!Accept(src, n) /\ UNCHANGED panicked
              \/ Stops
<1> USE DEF FlatInv, Flat!TypeOK, Flat!WindowKept, Flat!PanicsOnlyAfterRead
<1>0. Len(src) \in Nat /\ n \in Nat
  BY LenProperties
<1>1. room' = room
  BY DEF room
<1>2. CASE ~(w_pos + n <= Capacity)
  <2>1. /\ panicked' = TRUE
        /\ UNCHANGED <<r_pos, w_pos, len, buf, result>>
    BY <1>2 DEF Flat!Accept, Flat!panic
  <2>2. r_pos > 0
    BY <1>0, <1>2
  <2>3. Contents' = Contents
    BY <2>1 DEF Contents, Flat!Contents
  <2>4. QED
    BY <1>1, <2>1, <2>2, <2>3 DEF Stops
<1>3. CASE w_pos + n <= Capacity
  <2>1. /\ buf' = [s \in 0..(Capacity - 1) |->
                     IF s \in w_pos..(w_pos + n - 1)
                     THEN src[s - w_pos + 1] ELSE buf[s]]
        /\ w_pos' = w_pos + n /\ len' = len + n
        /\ UNCHANGED <<r_pos, panicked>>
        /\ result' = [status |-> "Ok", n |-> n, data |-> <<>>]
    BY <1>3
       DEF Flat!Accept, Flat!CopyIn, Flat!Return, Flat!Answer
  <2>2. \A s \in w_pos..(w_pos + n - 1) : src[s - w_pos + 1] \in Byte
    <3> SUFFICES ASSUME NEW s \in w_pos..(w_pos + n - 1)
                 PROVE  src[s - w_pos + 1] \in Byte
      OBVIOUS
    <3>1. s - w_pos + 1 \in 1..Len(src)
      BY <1>0
    <3>2. QED
      BY <3>1, ElementOfSeq
  <2>3. buf' \in [0..(Capacity - 1) -> Byte]
    BY <2>1, <2>2
  <2>4. FlatInv'
    BY <1>0, <1>3, <2>1, <2>3, EmptySeq
  <2>5. Contents' = Contents \o SubSeq(src, 1, n)
    <3> DEFINE new == SubSeq(src, 1, n)
               long == [i \in 1..len' |-> buf'[r_pos' + i - 1]]
    <3>1. /\ new \in Seq(Byte) /\ Len(new) = n
          /\ \A i \in 1..n : new[i] = src[i]
      BY Prefix
    <3>2. Contents' = long
      <4>1. kind' = "flat"
        BY <2>4
      <4>2. QED
        BY <4>1 DEF Contents, Flat!Contents
    <3>3. \A i \in 1..len' : r_pos' + i - 1 \in 0..(Capacity - 1)
      BY <1>0, <1>3, <2>1
    <3>4. len' \in Nat /\ len' = len + n
      BY <1>0, <2>1
    <3>5. long \in [1..len' -> Byte]
      BY <2>3, <3>3
    <3>6. long \in Seq(Byte) /\ Len(long) = len'
      BY <3>4, <3>5, TableIsSeq
    <3>7. \A i \in 1..len : long[i] = Contents[i]
      BY <1>0, <1>3, <2>1, <3>3, <3>4, FlatContents
    <3>8. \A i \in 1..n : long[len + i] = new[i]
      <4> SUFFICES ASSUME NEW i \in 1..n
                   PROVE  long[len + i] = new[i]
        OBVIOUS
      <4>1. /\ len + i \in 1..len'
            /\ r_pos' + (len + i) - 1 = w_pos + i - 1
            /\ w_pos + i - 1 \in w_pos..(w_pos + n - 1)
            /\ w_pos + i - 1 \in 0..(Capacity - 1)
            /\ (w_pos + i - 1) - w_pos + 1 = i
        BY <1>0, <1>3, <2>1, <3>4
      <4>2. QED
        BY <2>1, <3>1, <4>1
    <3> HIDE DEF new, long
    <3>9. long = Contents \o new
      <4>1. Contents \in Seq(Byte) /\ Len(Contents) = len
        BY FlatContents
      <4>2. Len(long) = Len(Contents) + Len(new)
        BY <3>1, <3>4, <3>6, <4>1
      <4>3. QED
        BY <3>1, <3>6, <3>7, <3>8, <4>1, <4>2, Extended
    <3>10. QED
      BY <3>2, <3>9 DEF new
  <2>6. QED
    BY <1>1, <2>1, <2>4, <2>5 DEF Buffer!Accept, Buffer!Answer
<1>4. QED
  BY <1>2, <1>3

\* What a call on the queue may do: to be the operation it asked for, or to stop.
LEMMA QueueStep ==
    ASSUME panicked = FALSE, room' = room,
           \/ Buffer!Operation /\ UNCHANGED panicked
           \/ Stops
    PROVE  Buffer!Next
BY DEF Buffer!Next, Stops

\* An operation of the flat buffer is that of the queue, or stops.
LEMMA FlatOperation ==
    ASSUME FlatInv, kind' = kind, Flat!Next
    PROVE  FlatInv' /\ Buffer!Next
<1>0. panicked = FALSE /\ room' = room
  BY DEF Flat!Next, room
<1>1. /\ len \in 0..Capacity /\ Len(Contents) = len /\ room = Capacity
      /\ Contents = <<>> <=> len = 0
      /\ Contents \in Seq(Byte)
      /\ Buffer!left = Capacity - len
  BY FlatContents DEF FlatInv, Flat!TypeOK, Buffer!left
<1>2. ASSUME NEW op, NEW src, Flat!Asked(op, src)
      PROVE  Buffer!Asked(op, src)
  BY <1>2 DEF Flat!Asked, Buffer!Asked
<1>3. ASSUME Flat!reset
      PROVE  FlatInv' /\ Buffer!Reset /\ UNCHANGED panicked
  <2>1. /\ r_pos' = 0 /\ w_pos' = 0 /\ len' = 0
        /\ UNCHANGED <<buf, panicked>>
        /\ result' = [status |-> "Ok", n |-> Capacity, data |-> <<>>]
    BY <1>3 DEF Flat!reset, Flat!Return, Flat!Answer
  <2>2. FlatInv'
    BY <1>0, <2>1, EmptySeq
       DEF FlatInv, Flat!TypeOK, Flat!WindowKept, Flat!PanicsOnlyAfterRead
  <2>3. Contents' = <<>>
    <3>1. Contents' = [i \in 1..0 |-> buf'[r_pos' + i - 1]]
      BY <2>1 DEF Contents, Flat!Contents, FlatInv
    <3>2. QED
      BY <3>1
  <2>4. QED
    BY <1>1, <2>1, <2>2, <2>3 DEF Buffer!Reset, Buffer!Answer
<1>4. ASSUME Flat!read_byte
      PROVE  FlatInv' /\ Buffer!ReadByte /\ UNCHANGED panicked
  <2>1. CASE Flat!is_empty /\ Flat!Refuse("BufferEmpty")
    BY <1>1, <2>1, FlatRefuse DEF Buffer!ReadByte, Flat!is_empty
  <2>2. CASE ~(Flat!is_empty /\ Flat!Refuse("BufferEmpty"))
    <3>1. /\ len \in 1..Capacity
          /\ r_pos' = r_pos + 1 /\ len' = len - 1
          /\ UNCHANGED <<w_pos, buf, panicked>>
          /\ result' = [status |-> "Ok", n |-> 1, data |-> <<buf[r_pos]>>]
      BY <1>1, <1>4, <2>2
         DEF Flat!read_byte, Flat!is_empty, Flat!Return, Flat!Answer
    <3>2. /\ r_pos \in 0..(Capacity - 1) /\ buf[r_pos] \in Byte
          /\ <<buf[r_pos]>> \in Seq(Byte)
      BY <3>1 DEF FlatInv, Flat!TypeOK, Flat!WindowKept
    <3>3. FlatInv'
      BY <1>0, <3>1, <3>2
         DEF FlatInv, Flat!TypeOK, Flat!WindowKept, Flat!PanicsOnlyAfterRead
    <3>4. Contents[1] = buf[r_pos]
      <4>1. 1 \in 1..len /\ r_pos + 1 - 1 = r_pos
        BY <3>1, <3>2
      <4>2. QED
        BY <4>1, FlatContents
    <3>5. Contents' = Tail(Contents)
      <4> DEFINE rest == [i \in 1..(len - 1) |-> buf[r_pos + 1 + i - 1]]
      <4>1. Contents' = rest
        BY <3>1 DEF Contents, Flat!Contents, FlatInv
      <4>2. rest \in [1..(len - 1) -> Byte]
        BY <3>1 DEF FlatInv, Flat!TypeOK, Flat!WindowKept
      <4>3. rest \in Seq(Byte) /\ Len(rest) = len - 1
        BY <3>1, <4>2, TableIsSeq
      <4>4. \A i \in 1..(len - 1) : rest[i] = Contents[i + 1]
        <5>1. \A i \in 1..(len - 1) :
                  i + 1 \in 1..len /\ r_pos + 1 + i - 1 = r_pos + (i + 1) - 1
          BY <3>1, <3>2
        <5>2. QED
          BY <5>1, FlatContents
      <4> HIDE DEF rest
      <4>5. Contents # <<>>
        BY <1>1, <3>1
      <4>6. rest = Tail(Contents)
        BY <1>1, <4>3, <4>4, <4>5, Shortened
      <4>7. QED
        BY <4>1, <4>6
    <3>6. Contents # <<>> /\ Head(Contents) = Contents[1]
      BY <1>1, <3>1
    <3>7. QED
      BY <3>1, <3>3, <3>4, <3>5, <3>6 DEF Buffer!ReadByte, Buffer!Answer
  <2>3. QED
    BY <2>1, <2>2
<1>5. ASSUME NEW b \in Byte, Flat!write_byte(b)
      PROVE  FlatInv' /\ ((Buffer!WriteByte(b) /\ UNCHANGED panicked) \/ Stops)
  <2>1. CASE Flat!is_full /\ Flat!Refuse("InsufficientSpace")
    BY <1>1, <2>1, FlatRefuse DEF Buffer!WriteByte, Flat!is_full
  <2>2. CASE ~Flat!is_full /\ Flat!Accept(<<b>>, 1)
    <3>1. /\ <<b>> \in Seq(Byte) /\ 1 \in 0..Len(<<b>>)
          /\ 1 <= Capacity - len /\ Capacity - len > 0
      BY <1>1, <2>2 DEF Flat!is_full
    <3>2. FlatInv' /\ ((Buffer!Accept(<<b>>, 1) /\ UNCHANGED panicked) \/ Stops)
      BY <2>2, <3>1, FlatAccept
    <3>3. QED
      BY <1>1, <3>1, <3>2 DEF Buffer!WriteByte
  <2>3. QED
    BY <1>5, <2>1, <2>2 DEF Flat!write_byte
<1>6. ASSUME NEW src \in Inputs, Flat!write_all(src)
      PROVE  FlatInv' /\ ((Buffer!WriteAll(src) /\ UNCHANGED panicked) \/ Stops)
  <2>1. CASE Flat!free_space < Len(src) /\ Flat!Refuse("InsufficientSpace")
    BY <1>1, <2>1, FlatRefuse DEF Buffer!WriteAll, Flat!free_space
  <2>2. CASE Flat!free_space >= Len(src) /\ Flat!Accept(src, Len(src))
    <3>1. src \in Seq(Byte) /\ Len(src) \in 0..Len(src) /\ Len(src) \in Nat
      BY LenProperties
    <3>2. Len(src) <= Capacity - len /\ Buffer!left >= Len(src)
      BY <1>1, <2>2, <3>1 DEF Flat!free_space
    <3>3. FlatInv' /\ ((Buffer!Accept(src, Len(src)) /\ UNCHANGED panicked) \/ Stops)
      BY <2>2, <3>1, <3>2, FlatAccept
    <3>4. QED
      BY <3>2, <3>3 DEF Buffer!WriteAll
  <2>3. QED
    BY <1>6, <2>1, <2>2 DEF Flat!write_all
<1>7. ASSUME NEW src \in Inputs, Flat!write(src)
      PROVE  FlatInv' /\ ((Buffer!WriteSome(src) /\ UNCHANGED panicked) \/ Stops)
  <2> DEFINE n == Flat!Lesser(Len(src), Flat!free_space)
  <2>1. CASE Flat!is_full /\ Flat!Refuse("InsufficientSpace")
    BY <1>1, <2>1, FlatRefuse DEF Buffer!WriteSome, Flat!is_full
  <2>2. CASE ~Flat!is_full /\ Flat!Accept(src, n)
    <3>1. src \in Seq(Byte) /\ Len(src) \in Nat
      BY LenProperties
    <3>2. /\ n \in 0..Len(src) /\ n <= Capacity - len
          /\ n = Buffer!Lesser(Len(src), Buffer!left) /\ Buffer!left > 0
      BY <1>1, <2>2, <3>1
         DEF Flat!free_space, Flat!is_full, Flat!Lesser, Buffer!Lesser
    <3> HIDE DEF n
    <3>3. FlatInv' /\ ((Buffer!Accept(src, n) /\ UNCHANGED panicked) \/ Stops)
      BY <2>2, <3>1, <3>2, FlatAccept
    <3>4. QED
      BY <3>2, <3>3 DEF Buffer!WriteSome
  <2>3. QED
    BY <1>7, <2>1, <2>2 DEF Flat!write
<1>8. ASSUME Flat!as_ref
      PROVE  FlatInv' /\ Buffer!View /\ UNCHANGED panicked
  <2>1. /\ UNCHANGED <<r_pos, w_pos, len, buf, panicked>>
        /\ result' = [status |-> "Ok", n |-> len, data |-> Contents]
    BY <1>8 DEF Flat!as_ref, Flat!Return, Flat!Answer, FlatInv, Contents
  <2>2. Contents' = Contents
    BY <2>1 DEF Contents, Flat!Contents, FlatInv
  <2>3. FlatInv'
    BY <1>1, <2>1
       DEF FlatInv, Flat!TypeOK, Flat!WindowKept, Flat!PanicsOnlyAfterRead
  <2>4. QED
    BY <1>1, <2>1, <2>2, <2>3 DEF Buffer!View, Buffer!Answer
<1>9. ASSUME Flat!as_mut
      PROVE  FlatInv' /\ Buffer!Spare /\ UNCHANGED panicked
  <2>1. PICK b \in Byte :
          buf' = [s \in 0..(Capacity - 1) |-> IF s < w_pos THEN buf[s] ELSE b]
    BY <1>9 DEF Flat!as_mut
  <2>2. /\ UNCHANGED <<r_pos, w_pos, len, panicked>>
        /\ result' = [status |-> "Ok", n |-> 0, data |-> <<>>]
    BY <1>9 DEF Flat!as_mut, Flat!Return, Flat!Answer
  <2>3. FlatInv'
    BY <2>1, <2>2, EmptySeq
       DEF FlatInv, Flat!TypeOK, Flat!WindowKept, Flat!PanicsOnlyAfterRead
  <2>4. Contents' = Contents
    <3>1. \A i \in 1..len : /\ r_pos + i - 1 \in 0..(Capacity - 1)
                            /\ r_pos + i - 1 < w_pos
      BY DEF FlatInv, Flat!TypeOK, Flat!WindowKept
    <3>2. \A i \in 1..len : buf'[r_pos + i - 1] = buf[r_pos + i - 1]
      BY <2>1, <3>1
    <3>3. QED
      BY <2>2, <3>2 DEF Contents, Flat!Contents, FlatInv
  <2>5. QED
    BY <2>2, <2>3, <2>4 DEF Buffer!Spare, Buffer!Answer
<1>10. FlatInv' /\ ((Buffer!Operation /\ UNCHANGED panicked) \/ Stops)
  <2>1. CASE Flat!Asked("reset", <<>>) /\ Flat!reset
    BY <1>2, <1>3, <2>1 DEF Buffer!Operation
  <2>2. CASE Flat!Asked("read_byte", <<>>) /\ Flat!read_byte
    BY <1>2, <1>4, <2>2 DEF Buffer!Operation
  <2>3. CASE \E b \in Byte : Flat!Asked("write_byte", <<b>>) /\ Flat!write_byte(b)
    BY <1>2, <1>5, <2>3 DEF Buffer!Operation
  <2>4. CASE \E src \in Inputs : Flat!Asked("write_all", src) /\ Flat!write_all(src)
    BY <1>2, <1>6, <2>4 DEF Buffer!Operation
  <2>5. CASE \E src \in Inputs : Flat!Asked("write", src) /\ Flat!write(src)
    BY <1>2, <1>7, <2>5 DEF Buffer!Operation
  <2>6. CASE Flat!Asked("as_ref", <<>>) /\ Flat!as_ref
    BY <1>2, <1>8, <2>6 DEF Buffer!Operation
  <2>7. CASE Flat!Asked("as_mut", <<>>) /\ Flat!as_mut
    BY <1>2, <1>9, <2>7 DEF Buffer!Operation
  <2>8. QED
    BY <2>1, <2>2, <2>3, <2>4, <2>5, <2>6, <2>7 DEF Flat!Next
<1>11. QED
  BY <1>0, <1>10, QueueStep

-----------------------------------------------------------------------------
(* The circular buffer.                                                    *)

LEMMA CircularContents ==
    ASSUME CircularInv
    PROVE  /\ Circular!len \in 0..(Capacity - 1)
           /\ Contents = Circular!Contents
           /\ Contents \in Seq(Byte) /\ Len(Contents) = Circular!len
           /\ \A i \in 1..Circular!len :
                 Contents[i] = buf[Circular!Slot(r_pos + i - 1)]
           /\ room = Capacity - 1
           /\ Contents = <<>> <=> r_pos = w_pos
<1>1. /\ r_pos \in 0..(Capacity - 1) /\ w_pos \in 0..(Capacity - 1)
      /\ buf \in [0..(Capacity - 1) -> Byte]
  BY DEF CircularInv, Circular!TypeOK
<1>2. Contents = Circular!Contents /\ room = Capacity - 1
  BY DEF Contents, room, CircularInv
<1> DEFINE n == Circular!len
<1>3. /\ n \in 0..(Capacity - 1)
      /\ n = 0 <=> r_pos = w_pos
  BY <1>1 DEF Circular!len
<1>4. \A i \in 1..n : Circular!Slot(r_pos + i - 1) \in 0..(Capacity - 1)
  BY <1>1, <1>3 DEF Circular!Slot
<1>5. Circular!Contents = [i \in 1..n |-> buf[Circular!Slot(r_pos + i - 1)]]
  BY DEF Circular!Contents
<1> HIDE DEF n
<1>6. Circular!Contents \in [1..n -> Byte]
  BY <1>1, <1>4, <1>5
<1>7. Contents \in Seq(Byte) /\ Len(Contents) = n
  BY <1>2, <1>3, <1>6, TableIsSeq
<1>8. Contents = <<>> <=> n = 0
  BY <1>7, EmptySeq
<1>9. QED
  BY <1>2, <1>3, <1>5, <1>7, <1>8 DEF n

LEMMA CircularRefuse ==
    ASSUME CircularInv, UNCHANGED <<kind, panicked>>, NEW status,
           Circular!Refuse(status)
    PROVE  CircularInv' /\ Buffer!Refuse(status)
<1>1. /\ UNCHANGED <<kind, r_pos, w_pos, buf, panicked>>
      /\ result' = [status |-> status, n |-> 0, data |-> <<>>]
  BY DEF Circular!Refuse, Circular!Answer
<1>2. CircularInv'
  BY <1>1, EmptySeq DEF CircularInv, Circular!TypeOK
<1>3. Contents' = Contents
  BY <1>1 DEF Contents, Circular!Contents, Circular!len, Circular!Slot, CircularInv
<1>4. QED
  BY <1>1, <1>2, <1>3 DEF Buffer!Refuse, Buffer!Answer

\* Bytes put into the slots behind the write pointer, as far as they are free,
\* go to the end of the queue; no unread byte is overwritten.
LEMMA CircularGrows ==
    ASSUME CircularInv, UNCHANGED <<kind, r_pos>>,
           NEW new \in Seq(Byte), NEW n \in Nat, n = Len(new),
           n <= Capacity - Circular!len - 1,
           buf' \in [0..(Capacity - 1) -> Byte],
           w_pos' = Circular!Slot(w_pos + n),
           \A i \in 1..n : buf'[Circular!Slot(w_pos + i - 1)] = new[i],
           \A s \in 0..(Capacity - 1) :
              (\A i \in 1..n : s # Circular!Slot(w_pos + i - 1)) => buf'[s] = buf[s]
    PROVE  w_pos' \in 0..(Capacity - 1) /\ Contents' = Contents \o new
<1> DEFINE l == Circular!len
<1>1. r_pos \in 0..(Capacity - 1) /\ w_pos \in 0..(Capacity - 1) /\ l \in 0..(Capacity - 1)
  BY CircularContents DEF CircularInv, Circular!TypeOK
<1>2. w_pos' \in 0..(Capacity - 1)
  BY <1>1 DEF Circular!Slot
<1>3. Circular!len' = l + n
  BY <1>1, <1>2 DEF Circular!len, Circular!Slot
<1>4. ASSUME NEW i \in 1..l
      PROVE  /\ Circular!Slot(r_pos + i - 1) \in 0..(Capacity - 1)
             /\ \A j \in 1..n : Circular!Slot(r_pos + i - 1)
                                 # Circular!Slot(w_pos + j - 1)
  BY <1>1 DEF Circular!len, Circular!Slot
<1>5. ASSUME NEW i \in 1..n
      PROVE  Circular!Slot(r_pos + (l + i) - 1) = Circular!Slot(w_pos + i - 1)
  BY <1>1 DEF Circular!len, Circular!Slot
<1> DEFINE long == [i \in 1..(l + n) |-> buf'[Circular!Slot(r_pos + i - 1)]]
<1>6. Contents' = long
  BY <1>3 DEF Contents, Circular!Contents, CircularInv, Circular!Slot
<1> HIDE DEF l
<1>7. \A i \in 1..(l + n) : Circular!Slot(r_pos + i - 1) \in 0..(Capacity - 1)
  BY <1>1 DEF Circular!Slot, l
<1>8. long \in Seq(Byte) /\ Len(long) = l + n
  <2>1. long \in [1..(l + n) -> Byte] /\ l + n \in Nat
    BY <1>1, <1>7
  <2> HIDE DEF long
  <2>2. QED
    BY <2>1, TableIsSeq
<1>9. \A i \in 1..l : long[i] = Contents[i]
  <2> SUFFICES ASSUME NEW i \in 1..l
               PROVE  long[i] = Contents[i]
    OBVIOUS
  <2>1. i \in 1..(l + n)
    BY <1>1
  <2>2. buf'[Circular!Slot(r_pos + i - 1)] = buf[Circular!Slot(r_pos + i - 1)]
    BY <1>4
  <2>3. Contents[i] = buf[Circular!Slot(r_pos + i - 1)]
    BY CircularContents DEF l
  <2>4. QED
    BY <2>1, <2>2, <2>3
<1>10. \A i \in 1..n : long[l + i] = new[i]
  <2> SUFFICES ASSUME NEW i \in 1..n
               PROVE  long[l + i] = new[i]
    OBVIOUS
  <2>1. l + i \in 1..(l + n)
    BY <1>1
  <2>2. QED
    BY <1>5, <2>1
<1> HIDE DEF long
<1>11. Contents \in Seq(Byte) /\ Len(Contents) = l
  BY CircularContents DEF l
<1>12. long = Contents \o new
  BY <1>8, <1>9, <1>10, <1>11, Extended
<1>13. QED
  BY <1>2, <1>6, <1>12

\* A byte read leaves the front of the queue.
LEMMA CircularShrinks ==
    ASSUME CircularInv, UNCHANGED <<kind, w_pos, buf>>,
           r_pos # w_pos, r_pos' = Circular!Wrapped(r_pos + 1)
    PROVE  /\ r_pos' \in 0..(Capacity - 1)
           /\ buf[r_pos] \in Byte
           /\ Contents # <<>> /\ Head(Contents) = buf[r_pos]
           /\ Contents' = Tail(Contents)
<1> DEFINE l == Circular!len
<1>1. /\ r_pos \in 0..(Capacity - 1) /\ w_pos \in 0..(Capacity - 1)
      /\ l \in 1..(Capacity - 1)
      /\ buf \in [0..(Capacity - 1) -> Byte]
  BY DEF CircularInv, Circular!TypeOK, Circular!len
<1>2. r_pos' \in 0..(Capacity - 1)
  BY <1>1 DEF Circular!Wrapped, Circular!end_ptr
<1>3. Circular!len' = l - 1
  BY <1>1, <1>2 DEF Circular!len, Circular!Wrapped, Circular!end_ptr
<1>4. \A i \in 1..(l - 1) : /\ i + 1 \in 1..l
                            /\ Circular!Slot(r_pos' + i - 1)
                                = Circular!Slot(r_pos + (i + 1) - 1)
                            /\ Circular!Slot(r_pos' + i - 1) \in 0..(Capacity - 1)
  BY <1>1 DEF Circular!len, Circular!Slot, Circular!Wrapped, Circular!end_ptr
<1>5. 1 \in 1..l /\ Circular!Slot(r_pos + 1 - 1) = r_pos
  BY <1>1 DEF Circular!Slot
<1> DEFINE rest == [i \in 1..(l - 1) |-> buf[Circular!Slot(r_pos' + i - 1)]]
<1>6. Contents' = rest
  BY <1>3 DEF Contents, Circular!Contents, CircularInv, Circular!Slot
<1> HIDE DEF l
<1>7. rest \in [1..(l - 1) -> Byte] /\ l - 1 \in Nat
  BY <1>1, <1>4
<1>8. \A i \in 1..(l - 1) : rest[i] = Contents[i + 1]
  BY <1>4, CircularContents DEF l
<1> HIDE DEF rest
<1>9. rest \in Seq(Byte) /\ Len(rest) = l - 1
  BY <1>7, TableIsSeq
<1>10. Contents \in Seq(Byte) /\ Len(Contents) = l /\ Contents # <<>>
  BY CircularContents DEF l
<1>11. rest = Tail(Contents)
  BY <1>8, <1>9, <1>10, Shortened
<1>12. Head(Contents) = buf[r_pos]
  <2>1. Contents[1] = buf[r_pos]
    BY <1>5, CircularContents DEF l
  <2>2. QED
    BY <1>10, <2>1
<1>13. QED
  BY <1>1, <1>2, <1>6, <1>10, <1>11, <1>12

\* The two copies of write put the slice into the slots behind the write
\* pointer and touch no other.
LEMMA CircularCopies ==
    ASSUME CircularInv, UNCHANGED <<kind, panicked>>, NEW src \in Inputs,
           Circular!free_space >= Len(src), Circular!write(src),
           ~Circular!Refuse("InsufficientSpace")
    PROVE  CircularInv' /\ Buffer!Accept(src, Len(src))
<1> DEFINE first == Circular!Lesser(Len(src), Circular!end_ptr - w_pos)
           second == Len(src) - first
<1>1. /\ src \in Seq(Byte) /\ Len(src) \in Nat
      /\ \A i \in 1..Len(src) : src[i] \in Byte
  BY LenProperties, ElementOfSeq
<1>2. /\ r_pos \in 0..(Capacity - 1) /\ w_pos \in 0..(Capacity - 1)
      /\ buf \in [0..(Capacity - 1) -> Byte]
  BY DEF CircularInv, Circular!TypeOK
<1>3. /\ Circular!len \in 0..(Capacity - 1)
      /\ Len(src) <= Capacity - Circular!len - 1
  BY <1>1, CircularContents DEF Circular!free_space
<1>4. /\ buf' = [s \in 0..(Capacity - 1) |->
                   IF s < second THEN src[first + s + 1]
                   ELSE IF s \in w_pos..(w_pos + first - 1)
                        THEN src[s - w_pos + 1]
                   ELSE buf[s]]
      /\ w_pos' = Circular!Landed(first, second)
      /\ result' = [status |-> "Ok", n |-> Len(src), data |-> <<>>]
      /\ UNCHANGED <<kind, panicked, r_pos>>
  BY DEF Circular!write, Circular!Answer
<1>5. /\ first \in Nat /\ second \in Nat /\ first + second = Len(src)
      /\ second > 0 => first = Capacity - w_pos /\ second <= w_pos
      /\ w_pos + first <= Capacity
  <2>1. w_pos - r_pos <= Circular!len
    BY <1>2 DEF Circular!len
  <2>2. QED
    BY <1>1, <1>2, <1>3, <2>1 DEF Circular!Lesser, Circular!end_ptr
<1> HIDE DEF first, second
<1>6. w_pos' = Circular!Slot(w_pos + Len(src))
  <2>1. w_pos' = Circular!Landed(first, second)
    BY <1>4
  <2>2. CASE second > 0
    BY <1>2, <1>5, <2>1, <2>2 DEF Circular!Landed, Circular!Slot
  <2>3. CASE second = 0
    BY <1>1, <1>2, <1>5, <2>1, <2>3
       DEF Circular!Landed, Circular!Slot, Circular!Wrapped, Circular!end_ptr
  <2>4. QED
    BY <1>5, <2>2, <2>3
<1>7. buf' \in [0..(Capacity - 1) -> Byte]
  <2>1. \A s \in 0..(Capacity - 1) : s < second => first + s + 1 \in 1..Len(src)
    BY <1>5
  <2>2. \A s \in w_pos..(w_pos + first - 1) : s - w_pos + 1 \in 1..Len(src)
    BY <1>2, <1>5
  <2>3. QED
    BY <1>1, <1>2, <1>4, <2>1, <2>2
<1>8. ASSUME NEW i \in 1..Len(src)
      PROVE  buf'[Circular!Slot(w_pos + i - 1)] = src[i]
  <2>1. CASE i <= first
    <3>1. /\ Circular!Slot(w_pos + i - 1) = w_pos + i - 1
          /\ w_pos + i - 1 \in 0..(Capacity - 1)
          /\ ~(w_pos + i - 1 < second)
          /\ w_pos + i - 1 \in w_pos..(w_pos + first - 1)
          /\ (w_pos + i - 1) - w_pos + 1 = i
      BY <1>1, <1>2, <1>5, <2>1 DEF Circular!Slot
    <3>2. QED
      BY <1>4, <3>1
  <2>2. CASE ~(i <= first)
    <3>1. /\ Circular!Slot(w_pos + i - 1) = w_pos + i - 1 - Capacity
          /\ w_pos + i - 1 - Capacity \in 0..(Capacity - 1)
          /\ w_pos + i - 1 - Capacity < second
          /\ first + (w_pos + i - 1 - Capacity) + 1 = i
      BY <1>1, <1>2, <1>5, <2>2 DEF Circular!Slot
    <3>2. QED
      BY <1>4, <3>1
  <2>3. QED
    BY <2>1, <2>2
<1>9. ASSUME NEW s \in 0..(Capacity - 1),
             \A i \in 1..Len(src) : s # Circular!Slot(w_pos + i - 1)
      PROVE  buf'[s] = buf[s]
  <2>1. CASE s < second
    <3>1. /\ first + s + 1 \in 1..Len(src)
          /\ Circular!Slot(w_pos + (first + s + 1) - 1) = s
      BY <1>2, <1>5, <2>1 DEF Circular!Slot
    <3>2. QED
      BY <1>9, <3>1
  <2>2. CASE s \in w_pos..(w_pos + first - 1)
    <3>1. /\ s - w_pos + 1 \in 1..Len(src)
          /\ Circular!Slot(w_pos + (s - w_pos + 1) - 1) = s
      BY <1>2, <1>5, <2>2 DEF Circular!Slot
    <3>2. QED
      BY <1>9, <3>1
  <2>3. QED
    BY <1>4, <2>1, <2>2
<1>10. w_pos' \in 0..(Capacity - 1) /\ Contents' = Contents \o src
  BY <1>1, <1>3, <1>4, <1>6, <1>7, <1>8, <1>9, CircularGrows
<1>11. CircularInv'
  BY <1>1, <1>2, <1>4, <1>7, <1>10, EmptySeq DEF CircularInv, Circular!TypeOK
<1>12. SubSeq(src, 1, Len(src)) = src
  <2>1. /\ SubSeq(src, 1, Len(src)) \in Seq(Byte)
        /\ Len(SubSeq(src, 1, Len(src))) = Len(src)
        /\ \A i \in 1..Len(src) : SubSeq(src, 1, Len(src))[i] = src[i]
    BY <1>1, Prefix
  <2>2. QED
    BY <1>1, <2>1, SeqEqual
<1>13. QED
  BY <1>4, <1>10, <1>11, <1>12 DEF Buffer!Accept, Buffer!Answer

LEMMA CircularOperation ==
    ASSUME CircularInv, UNCHANGED <<kind, panicked>>, Circular!Next
    PROVE  CircularInv' /\ Buffer!Operation
<1>1. /\ r_pos \in 0..(Capacity - 1) /\ w_pos \in 0..(Capacity - 1)
      /\ buf \in [0..(Capacity - 1) -> Byte]
  BY DEF CircularInv, Circular!TypeOK
<1>2. /\ Circular!len \in 0..(Capacity - 1)
      /\ Circular!free_space = Capacity - Circular!len - 1
      /\ Buffer!left = Capacity - Circular!len - 1
      /\ Contents = <<>> <=> r_pos = w_pos
  BY CircularContents DEF Buffer!left, Circular!free_space
<1>3. ASSUME NEW o, NEW src, Circular!Asked(o, src)
      PROVE  Buffer!Asked(o, src)
  BY <1>3 DEF Circular!Asked, Buffer!Asked
<1>4. ASSUME Circular!reset
      PROVE  CircularInv' /\ Buffer!Reset
  <2>1. /\ r_pos' = 0 /\ w_pos' = 0 /\ UNCHANGED buf
        /\ result' = [status |-> "Ok", n |-> Capacity - 1, data |-> <<>>]
    BY <1>4 DEF Circular!reset, Circular!Answer
  <2>2. CircularInv'
    BY <2>1, EmptySeq DEF CircularInv, Circular!TypeOK
  <2>3. Contents' = <<>>
    <3>1. Circular!len' = 0
      BY <2>1 DEF Circular!len
    <3>2. Contents' = [i \in 1..0 |-> buf'[Circular!Slot(r_pos' + i - 1)]]
      BY <3>1 DEF Contents, Circular!Contents, CircularInv, Circular!Slot
    <3>3. QED
      BY <3>2
  <2>4. QED
    BY <2>1, <2>2, <2>3, CircularContents DEF Buffer!Reset, Buffer!Answer
<1>5. ASSUME Circular!read_byte
      PROVE  CircularInv' /\ Buffer!ReadByte
  <2>1. CASE r_pos = w_pos /\ Circular!Refuse("BufferEmpty")
    BY <1>2, <2>1, CircularRefuse DEF Buffer!ReadByte
  <2>2. CASE ~(r_pos = w_pos /\ Circular!Refuse("BufferEmpty"))
    <3>1. /\ r_pos # w_pos
          /\ result' = [status |-> "Ok", n |-> 1, data |-> <<buf[r_pos]>>]
          /\ r_pos' = Circular!Wrapped(r_pos + 1)
          /\ UNCHANGED <<w_pos, buf>>
      BY <1>5, <2>2 DEF Circular!read_byte, Circular!Answer
    <3>2. /\ r_pos' \in 0..(Capacity - 1)
          /\ buf[r_pos] \in Byte
          /\ Contents # <<>> /\ Head(Contents) = buf[r_pos]
          /\ Contents' = Tail(Contents)
      BY <3>1, CircularShrinks
    <3>3. CircularInv'
      BY <1>1, <3>1, <3>2 DEF CircularInv, Circular!TypeOK
    <3>4. QED
      BY <3>1, <3>2, <3>3 DEF Buffer!ReadByte, Buffer!Answer
  <2>3. QED
    BY <2>1, <2>2
<1>6. ASSUME NEW b \in Byte, Circular!write_byte(b)
      PROVE  CircularInv' /\ Buffer!WriteByte(b)
  <2>1. Circular!Wrapped(w_pos + 1) = r_pos <=> Circular!len = Capacity - 1
    BY <1>1 DEF Circular!Wrapped, Circular!end_ptr, Circular!len
  <2>2. CASE /\ Circular!Wrapped(w_pos + 1) = r_pos
             /\ Circular!Refuse("InsufficientSpace")
    BY <1>2, <2>1, <2>2, CircularRefuse DEF Buffer!WriteByte
  <2>3. CASE ~(/\ Circular!Wrapped(w_pos + 1) = r_pos
               /\ Circular!Refuse("InsufficientSpace"))
    <3>1. /\ Circular!Wrapped(w_pos + 1) # r_pos
          /\ buf' = [buf EXCEPT ![w_pos] = b]
          /\ w_pos' = Circular!Wrapped(w_pos + 1)
          /\ result' = [status |-> "Ok", n |-> 1, data |-> <<>>]
          /\ UNCHANGED r_pos
      BY <1>6, <2>3 DEF Circular!write_byte, Circular!Answer
    <3>2. 1 <= Capacity - Circular!len - 1
      BY <1>2, <2>1, <3>1
    <3> DEFINE new == <<b>>
    <3>3. new \in Seq(Byte) /\ 1 = Len(new) /\ new[1] = b
      OBVIOUS
    <3>4. buf' \in [0..(Capacity - 1) -> Byte]
      BY <1>1, <3>1
    <3>5. w_pos' = Circular!Slot(w_pos + 1) /\ Circular!Slot(w_pos + 1 - 1) = w_pos
      BY <1>1, <3>1 DEF Circular!Wrapped, Circular!end_ptr, Circular!Slot
    <3> HIDE DEF new
    <3>6. \A i \in 1..1 : buf'[Circular!Slot(w_pos + i - 1)] = new[i]
      BY <1>1, <3>1, <3>3, <3>5
    <3>7. \A s \in 0..(Capacity - 1) :
             (\A i \in 1..1 : s # Circular!Slot(w_pos + i - 1)) => buf'[s] = buf[s]
      BY <1>1, <3>1, <3>5
    <3>8. w_pos' \in 0..(Capacity - 1) /\ Contents' = Contents \o new
      <4>1. 1 \in Nat /\ UNCHANGED <<kind, r_pos>>
        BY <3>1
      <4>2. QED
        BY <3>2, <3>3, <3>4, <3>5, <3>6, <3>7, <4>1, CircularGrows
    <3>9. CircularInv'
      BY <1>1, <3>1, <3>4, <3>8, EmptySeq DEF CircularInv, Circular!TypeOK
    <3>10. SubSeq(new, 1, 1) = new
      <4>1. /\ SubSeq(new, 1, 1) \in Seq(Byte) /\ Len(SubSeq(new, 1, 1)) = 1
            /\ \A i \in 1..1 : SubSeq(new, 1, 1)[i] = new[i]
        BY <3>3, Prefix
      <4>2. QED
        BY <3>3, <4>1, SeqEqual
    <3>11. Buffer!Accept(new, 1)
      BY <3>1, <3>8, <3>10 DEF Buffer!Accept, Buffer!Answer
    <3>12. Buffer!left > 0
      BY <1>2, <3>2
    <3>13. QED
      BY <3>9, <3>11, <3>12 DEF Buffer!WriteByte, new
  <2>4. QED
    BY <2>2, <2>3
<1>7. ASSUME NEW src \in Inputs, Circular!write(src)
      PROVE  CircularInv' /\ Buffer!WriteAll(src)
  <2>1. Len(src) \in Nat
    BY LenProperties
  <2>2. CASE Circular!free_space < Len(src) /\ Circular!Refuse("InsufficientSpace")
    BY <1>2, <2>2, CircularRefuse DEF Buffer!WriteAll
  <2>3. CASE /\ Circular!free_space >= Len(src)
             /\ ~Circular!Refuse("InsufficientSpace")
    BY <1>2, <1>7, <2>3, CircularCopies DEF Buffer!WriteAll
  <2>4. CASE /\ Circular!free_space >= Len(src)
             /\ Circular!Refuse("InsufficientSpace")
    \* An accepted slice answers Ok, a refusal does not.
    <3>1. result'.status = "Ok"
      BY <1>2, <1>7, <2>1, <2>4 DEF Circular!write, Circular!Answer
    <3>2. result'.status = "InsufficientSpace"
      BY <2>4 DEF Circular!Refuse, Circular!Answer
    <3>3. QED
      BY <3>1, <3>2
  <2>5. QED
    BY <1>2, <1>7, <2>1, <2>2, <2>3, <2>4 DEF Circular!write
<1>8. CASE Circular!Asked("reset", <<>>) /\ Circular!reset
  BY <1>3, <1>4, <1>8 DEF Buffer!Operation
<1>9. CASE Circular!Asked("read_byte", <<>>) /\ Circular!read_byte
  BY <1>3, <1>5, <1>9 DEF Buffer!Operation
<1>10. CASE \E b \in Byte :
              Circular!Asked("write_byte", <<b>>) /\ Circular!write_byte(b)
  BY <1>3, <1>6, <1>10 DEF Buffer!Operation
<1>11. CASE \E src \in Inputs :
              Circular!Asked("write_all", src) /\ Circular!write(src)
  BY <1>3, <1>7, <1>11 DEF Buffer!Operation
<1>12. QED
  BY <1>8, <1>9, <1>10, <1>11 DEF Circular!Next

-----------------------------------------------------------------------------
(* Either buffer.                                                          *)

LEMMA InitFacts ==
    ASSUME Init
    PROVE  Inv /\ Buffer!Init
<1>1. CASE kind = "flat" /\ Flat!Init
  <2>1. /\ r_pos = 0 /\ w_pos = 0 /\ len = 0 /\ panicked = FALSE
        /\ buf \in [0..(Capacity - 1) -> Byte]
        /\ call = [op |-> "new", src |-> <<>>]
        /\ result = [status |-> "Ok", n |-> 0, data |-> <<>>]
    BY <1>1 DEF Flat!Init, Flat!Answer
  <2>2. FlatInv
    BY <1>1, <2>1, EmptySeq
       DEF FlatInv, Flat!TypeOK, Flat!WindowKept, Flat!PanicsOnlyAfterRead
  <2>3. Contents = <<>> /\ room \in Nat
    BY <2>1, <2>2, FlatContents
  <2>4. QED
    BY <2>1, <2>2, <2>3 DEF Inv, Buffer!Init, Buffer!Answer
<1>2. CASE kind = "circular" /\ Circular!Init /\ len = 0 /\ panicked = FALSE
  <2>1. /\ r_pos = 0 /\ w_pos = 0
        /\ buf \in [0..(Capacity - 1) -> Byte]
        /\ call = [op |-> "new", src |-> <<>>]
        /\ result = [status |-> "Ok", n |-> 0, data |-> <<>>]
    BY <1>2 DEF Circular!Init, Circular!Answer
  <2>2. CircularInv
    BY <1>2, <2>1, EmptySeq DEF CircularInv, Circular!TypeOK
  <2>3. Contents = <<>> /\ room \in Nat
    BY <2>1, <2>2, CircularContents
  <2>4. QED
    BY <1>2, <2>1, <2>2, <2>3 DEF Inv, Buffer!Init, Buffer!Answer
<1>3. QED
  BY <1>1, <1>2 DEF Init

LEMMA StepFacts ==
    ASSUME Inv, [Next]_vars
    PROVE  Inv' /\ [Buffer!Next]_(Buffer!vars)
<1>1. CASE FlatStep
  <2>1. FlatInv
    BY <1>1 DEF FlatStep, Inv, CircularInv
  <2>2. QED
    BY <1>1, <2>1, FlatOperation DEF FlatStep, Inv
<1>2. CASE CircularStep
  <2>1. CircularInv /\ UNCHANGED <<kind, panicked>> /\ Circular!Next
    BY <1>2 DEF CircularStep, Inv, FlatInv
  <2>2. CircularInv' /\ Buffer!Operation
    BY <2>1, CircularOperation
  <2>3. panicked = FALSE /\ room' = room
    BY <2>1 DEF CircularInv, room
  <2>4. QED
    BY <2>1, <2>2, <2>3 DEF Inv, Buffer!Next
<1>3. CASE UNCHANGED vars
  <2>1. FlatInv' <=> FlatInv
    BY <1>3 DEF vars, FlatInv, Flat!TypeOK, Flat!WindowKept,
                Flat!PanicsOnlyAfterRead
  <2>2. CircularInv' <=> CircularInv
    BY <1>3 DEF vars, CircularInv, Circular!TypeOK
  <2>3. Contents' = Contents /\ room' = room
    BY <1>3 DEF vars, Contents, room, Flat!Contents, Circular!Contents,
                Circular!len, Circular!Slot
  <2>4. QED
    BY <1>3, <2>1, <2>2, <2>3 DEF vars, Inv, Buffer!vars
<1>4. QED
  BY <1>1, <1>2, <1>3 DEF Next

LEMMA Invariance == Spec => []Inv
<1>1. Init => Inv
  BY InitFacts
<1>2. Inv /\ [Next]_vars => Inv'
  BY StepFacts
<1>3. QED
  BY <1>1, <1>2, PTL DEF Spec

\* Whatever is called on the buffer a handle became, in any order: the indices
\* its unsafe accesses use stay inside the pool memory.
THEOREM BuffersStayInMemory == Spec => []TypeOK
<1>1. Inv => TypeOK
  BY DEF Inv, FlatInv, CircularInv, TypeOK
<1>2. QED
  BY <1>1, Invariance, PTL

\* FlatBuffer's write_byte, write_all and write run out of their slice only in
\* a buffer read byte by byte since its reset.
THEOREM PanicOnlyAfterRead == Spec => []PanicsOnlyAfterRead
<1>1. Inv => PanicsOnlyAfterRead
  BY DEF Inv, FlatInv, CircularInv, PanicsOnlyAfterRead
<1>2. QED
  BY <1>1, Invariance, PTL

\* Both buffers are the bounded queue, for every capacity and any mixture of
\* calls: the flat one with all its room, the circular one with a slot less.
THEOREM BuffersImplementQueue == Spec => ImplementsBuffer
<1>1. Init => Inv /\ Buffer!Init
  BY InitFacts
<1>2. Inv /\ [Next]_vars => Inv' /\ [Buffer!Next]_(Buffer!vars)
  BY StepFacts
<1>3. QED
  BY <1>1, <1>2, PTL DEF Spec, ImplementsBuffer, Buffer!Spec
=============================================================================

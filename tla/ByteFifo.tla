------------------------------ MODULE ByteFifo ------------------------------
(***************************************************************************)
(* What a byte buffer of this firmware promises to its callers: a bounded  *)
(* first-in first-out queue.  One action per operation of the buffers in   *)
(* src/src/const_circular_buffer.rs; the storage, its two positions and    *)
(* the block copies are left to the modules that implement this one.       *)
(* `call` is what the last caller asked for; `result` is what it got: the  *)
(* variant, the count that goes with it and the bytes handed out.          *)
(***************************************************************************)
EXTENDS Naturals, Sequences

CONSTANTS
    Byte,       \* the byte values
    Term,       \* the terminator read_to looks for
    Capacity,   \* how many bytes the buffer holds
    Inputs,     \* the source slices callers write
    DestSizes   \* the lengths of the destination slices callers read into

VARIABLES queue, call, result

vars == <<queue, call, result>>

Status == {"Ok", "Complete", "Partial", "SourceEmpty", "DestinationEmpty",
           "DestinationFull", "InsufficientSpace"}

Answer(status, n, data) == [status |-> status, n |-> n, data |-> data]

Lesser(a, b) == IF a <= b THEN a ELSE b

Asked(op, room, src) == call' = [op |-> op, room |-> room, src |-> src]

-----------------------------------------------------------------------------

Refuse(status) ==
    /\ result' = Answer(status, 0, <<>>)
    /\ UNCHANGED queue

\* The n oldest bytes leave the queue for the caller.
Deliver(status, n) ==
    /\ result' = Answer(status, n, SubSeq(queue, 1, n))
    /\ queue' = SubSeq(queue, n + 1, Len(queue))

\* The first n bytes of the slice join the queue.
Accept(src, n) ==
    /\ result' = Answer("Ok", n, <<>>)
    /\ queue' = queue \o SubSeq(src, 1, n)

Readable(k) == k > 0 /\ Len(queue) > 0

RefuseRead(k) ==
    \/ k = 0 /\ Refuse("DestinationEmpty")
    \/ k > 0 /\ Len(queue) = 0 /\ Refuse("SourceEmpty")

Reset ==
    /\ queue' = <<>>
    /\ result' = Answer("Ok", Capacity, <<>>)

ReadByte == IF Len(queue) = 0 THEN Refuse("SourceEmpty") ELSE Deliver("Ok", 1)

Read(k) ==
    \/ RefuseRead(k)
    \/ Readable(k) /\ Deliver("Ok", Lesser(k, Len(queue)))

\* Up to and including the first terminator; as much as fits if there is none.
ReadTo(k) ==
    \/ RefuseRead(k)
    \/ /\ Readable(k)
       /\ \E n \in 1..Lesser(k, Len(queue)) :
             /\ \A i \in 1..(n - 1) : queue[i] # Term
             /\ \/ queue[n] = Term /\ Deliver("Complete", n)
                \/ /\ queue[n] # Term
                   /\ n = Lesser(k, Len(queue))
                   /\ Deliver("Partial", n)

WriteByte(b) ==
    IF Len(queue) = Capacity THEN Refuse("InsufficientSpace")
                             ELSE Accept(<<b>>, 1)

\* All of the slice or nothing.
WriteAll(src) ==
    \/ Len(src) = 0 /\ Refuse("SourceEmpty")
    \/ Len(src) > Capacity - Len(queue) /\ Refuse("InsufficientSpace")
    \/ /\ Len(src) \in 1..(Capacity - Len(queue))
       /\ Accept(src, Len(src))

\* As much of the slice as fits.
Write(src) ==
    \/ Len(src) = 0 /\ Refuse("SourceEmpty")
    \/ Len(src) > 0 /\ Len(queue) = Capacity /\ Refuse("DestinationFull")
    \/ /\ Len(src) > 0
       /\ Len(queue) < Capacity
       /\ Accept(src, Lesser(Len(src), Capacity - Len(queue)))

Init ==
    /\ queue = <<>>
    /\ call = [op |-> "new", room |-> 0, src |-> <<>>]
    /\ result = Answer("Ok", 0, <<>>)

Next ==
    \/ Asked("reset", 0, <<>>) /\ Reset
    \/ Asked("read_byte", 1, <<>>) /\ ReadByte
    \/ \E k \in DestSizes : Asked("read", k, <<>>) /\ Read(k)
    \/ \E k \in DestSizes : Asked("read_to", k, <<>>) /\ ReadTo(k)
    \/ \E b \in Byte : Asked("write_byte", 0, <<b>>) /\ WriteByte(b)
    \/ \E src \in Inputs : Asked("write_all", 0, src) /\ WriteAll(src)
    \/ \E src \in Inputs : Asked("write", 0, src) /\ Write(src)

Spec == Init /\ [][Next]_vars
=============================================================================

--------------------------- MODULE BoundedBuffer ---------------------------
(***************************************************************************)
(* What the two buffers over pool memory promise (the BufferError          *)
(* interface of src/src/flat_buffer.rs and src/src/circular_buffer.rs): a  *)
(* queue of at most `room` bytes.  A call may also stop the firmware, by a *)
(* slice index out of bounds; when it may is left to the implementations.  *)
(***************************************************************************)
EXTENDS Naturals, Sequences

CONSTANTS
    Byte,     \* the byte values
    Inputs    \* the slices callers write

VARIABLES
    queue,
    room,      \* how many bytes it holds
    stopped,
    call,      \* history: what the last caller asked for
    result     \* the variant, the count and the bytes the call returned

vars == <<queue, room, stopped, call, result>>

Status == {"Ok", "BufferEmpty", "InsufficientSpace"}

Answer(status, n, data) == [status |-> status, n |-> n, data |-> data]

Lesser(a, b) == IF a <= b THEN a ELSE b

Asked(op, src) == call' = [op |-> op, src |-> src]

left == room - Len(queue)

-----------------------------------------------------------------------------

Refuse(status) ==
    /\ result' = Answer(status, 0, <<>>)
    /\ UNCHANGED queue

Accept(src, n) ==
    /\ queue' = queue \o SubSeq(src, 1, n)
    /\ result' = Answer("Ok", n, <<>>)

Reset ==
    /\ queue' = <<>>
    /\ result' = Answer("Ok", room, <<>>)

ReadByte ==
    \/ queue = <<>> /\ Refuse("BufferEmpty")
    \/ /\ queue # <<>>
       /\ queue' = Tail(queue)
       /\ result' = Answer("Ok", 1, <<Head(queue)>>)

WriteByte(b) ==
    \/ left = 0 /\ Refuse("InsufficientSpace")
    \/ left > 0 /\ Accept(<<b>>, 1)

\* All of the slice or nothing; an empty slice always fits.
WriteAll(src) ==
    \/ left < Len(src) /\ Refuse("InsufficientSpace")
    \/ left >= Len(src) /\ Accept(src, Len(src))

\* As much of the slice as fits.
WriteSome(src) ==
    \/ left = 0 /\ Refuse("InsufficientSpace")
    \/ left > 0 /\ Accept(src, Lesser(Len(src), left))

\* The unread bytes as one slice.
View ==
    /\ result' = Answer("Ok", Len(queue), queue)
    /\ UNCHANGED queue

\* A mutable look at the storage behind the unread bytes.
Spare ==
    /\ result' = Answer("Ok", 0, <<>>)
    /\ UNCHANGED queue

Init ==
    /\ queue = <<>>
    /\ room \in Nat
    /\ stopped = FALSE
    /\ call = [op |-> "new", src |-> <<>>]
    /\ result = Answer("Ok", 0, <<>>)

Operation ==
    \/ Asked("reset", <<>>) /\ Reset
    \/ Asked("read_byte", <<>>) /\ ReadByte
    \/ \E b \in Byte : Asked("write_byte", <<b>>) /\ WriteByte(b)
    \/ \E src \in Inputs : Asked("write_all", src) /\ WriteAll(src)
    \/ \E src \in Inputs : Asked("write", src) /\ WriteSome(src)
    \/ Asked("as_ref", <<>>) /\ View
    \/ Asked("as_mut", <<>>) /\ Spare

Next ==
    \/ ~stopped /\ Operation /\ UNCHANGED <<room, stopped>>
    \/ ~stopped /\ stopped' = TRUE /\ UNCHANGED <<queue, room, result>>

Spec == Init /\ [][Next]_vars
=============================================================================

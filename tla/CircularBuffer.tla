--------------------------- MODULE CircularBuffer ---------------------------
(***************************************************************************)
(* CircularBuffer of src/src/circular_buffer.rs: a ring over pool memory   *)
(* kept as two pointers and no length, so that one slot always stays free  *)
(* to tell full from empty.  Pointers are offsets from start_ptr.          *)
(***************************************************************************)
EXTENDS Naturals, Sequences

CONSTANTS Byte, Zero, Capacity, Inputs

VARIABLES read_ptr, write_ptr, buf, call, result

vars == <<read_ptr, write_ptr, buf, call, result>>

Slots == 0..(Capacity - 1)

end_ptr == Capacity

\* The offset between the pointers, which is negative once the write pointer
\* has wrapped.
len == IF write_ptr < read_ptr THEN Capacity + write_ptr - read_ptr
                               ELSE write_ptr - read_ptr

free_space == Capacity - len - 1

\* The place of a byte that many bytes on.
Slot(p) == IF p < Capacity THEN p ELSE p - Capacity

\* The unread bytes, oldest first.
Contents == [i \in 1..len |-> buf[Slot(read_ptr + i - 1)]]

Answer(status, n, data) == [status |-> status, n |-> n, data |-> data]

Asked(op, src) == call' = [op |-> op, src |-> src]

Lesser(a, b) == IF a <= b THEN a ELSE b

-----------------------------------------------------------------------------

Wrapped(p) == IF p = end_ptr THEN 0 ELSE p

Refuse(status) ==
    /\ result' = Answer(status, 0, <<>>)
    /\ UNCHANGED <<read_ptr, write_ptr, buf>>

reset ==
    /\ read_ptr' = 0
    /\ write_ptr' = 0
    /\ result' = Answer("Ok", Capacity - 1, <<>>)
    /\ UNCHANGED buf

read_byte ==
    \/ read_ptr = write_ptr /\ Refuse("BufferEmpty")
    \/ /\ read_ptr # write_ptr
       /\ result' = Answer("Ok", 1, <<buf[read_ptr]>>)
       /\ read_ptr' = Wrapped(read_ptr + 1)
       /\ UNCHANGED <<write_ptr, buf>>

\* Mutant: the last slot is used too.
write_byteToTheBrim(b) ==
    /\ buf' = [buf EXCEPT ![write_ptr] = b]
    /\ write_ptr' = Wrapped(write_ptr + 1)
    /\ result' = Answer("Ok", 1, <<>>)
    /\ UNCHANGED read_ptr

write_byte(b) ==
    \/ Wrapped(write_ptr + 1) = read_ptr /\ Refuse("InsufficientSpace")
    \/ /\ Wrapped(write_ptr + 1) # read_ptr
       /\ buf' = [buf EXCEPT ![write_ptr] = b]
       /\ write_ptr' = Wrapped(write_ptr + 1)
       /\ result' = Answer("Ok", 1, <<>>)
       /\ UNCHANGED read_ptr

\* Mutant: a first copy that reaches the end does not wrap.
LandedPastEnd(first, second) == IF second > 0 THEN second ELSE write_ptr + first

\* Where the write pointer is after the two copies.
Landed(first, second) ==
    IF second > 0 THEN second ELSE Wrapped(write_ptr + first)

write(src) ==
    LET first == Lesser(Len(src), end_ptr - write_ptr)
        second == Len(src) - first
    IN  \/ free_space < Len(src) /\ Refuse("InsufficientSpace")
        \/ /\ free_space >= Len(src)
           /\ buf' = [s \in Slots |->
                        IF s < second THEN src[first + s + 1]
                        ELSE IF s \in write_ptr..(write_ptr + first - 1)
                             THEN src[s - write_ptr + 1]
                        ELSE buf[s]]
           /\ write_ptr' = Landed(first, second)
           /\ result' = Answer("Ok", Len(src), <<>>)
           /\ UNCHANGED read_ptr

Init ==
    /\ read_ptr = 0
    /\ write_ptr = 0
    /\ buf = [s \in Slots |-> Zero]
    /\ call = [op |-> "new", src |-> <<>>]
    /\ result = Answer("Ok", 0, <<>>)

Next ==
    \/ Asked("reset", <<>>) /\ reset
    \/ Asked("read_byte", <<>>) /\ read_byte
    \/ \E b \in Byte : Asked("write_byte", <<b>>) /\ write_byte(b)
    \/ \E src \in Inputs : Asked("write_all", src) /\ write(src)

Spec == Init /\ [][Next]_vars

-----------------------------------------------------------------------------

\* Type invariant: neither pointer ever rests at or beyond the end, where the
\* next unsafe access would leave the pool buffer.
TypeOK ==
    /\ read_ptr \in Slots
    /\ write_ptr \in Slots
    /\ buf \in [Slots -> Byte]
    /\ result.n \in Nat
    /\ result.data \in Seq(Byte)
=============================================================================

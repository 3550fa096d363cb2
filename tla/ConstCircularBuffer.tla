------------------------ MODULE ConstCircularBuffer ------------------------
(***************************************************************************)
(* ConstCircularBuffer<CAPACITY> of src/src/const_circular_buffer.rs: the  *)
(* ring under both directions of the UART.  Positions wrap by compare and  *)
(* subtract, and the slice operations copy in two blocks, up to the end    *)
(* of the storage and then from its start.  Every method runs inside a     *)
(* critical section or an interrupt handler, so one call is one step.      *)
(* The module shows that the ring implements ByteFifo.                     *)
(***************************************************************************)
EXTENDS Naturals, Sequences

CONSTANTS Byte, Zero, Term, Capacity, Inputs, DestSizes

ASSUME RingAssumption ==
    /\ {Zero, Term} \subseteq Byte
    /\ Capacity \in Nat \ {0}
    /\ Inputs \subseteq Seq(Byte)
    /\ DestSizes \subseteq Nat

VARIABLES
    r_pos, w_pos, len,
    buf,     \* the storage
    call,    \* history: what the last caller asked for
    result   \* what the last call returned, and the bytes it copied out

vars == <<r_pos, w_pos, len, buf, call, result>>

Slots == 0..(Capacity - 1)

\* The ring seen as a queue: the unread bytes, oldest first.
Slot(p) == IF p >= Capacity THEN p - Capacity ELSE p
Contents == [i \in 1..len |-> buf[Slot(r_pos + i - 1)]]

Fifo == INSTANCE ByteFifo WITH queue <- Contents

Answer(status, n, data) == [status |-> status, n |-> n, data |-> data]

Asked(op, room, src) == call' = [op |-> op, room |-> room, src |-> src]

Lesser(a, b) == IF a <= b THEN a ELSE b

free_space == Capacity - len

is_full == len = Capacity

is_empty == len = 0

-----------------------------------------------------------------------------
(* Moving bytes.  A position is advanced and then brought back into the    *)
(* storage by at most one subtraction.                                     *)

\* Mutant: the wrap test misses the position that lands on the end.
AdvanceLate(p, n) == IF p + n > Capacity THEN p + n - Capacity ELSE p + n

Advance(p, n) == IF p + n >= Capacity THEN p + n - Capacity ELSE p + n

\* The block from the position to the end of the storage.
FirstCopy(p, n) == Lesser(n, Capacity - p)

\* What the two block copies of read leave in a destination.
CopyOut(n) ==
    LET first == FirstCopy(r_pos, n)
    IN  [i \in 1..n |-> IF i <= first THEN buf[r_pos + i - 1]
                                      ELSE buf[i - first - 1]]

\* Mutant: the second block is taken from the start of the source again.
CopyInRestarts(src, n) ==
    LET first == FirstCopy(w_pos, n)
    IN  [s \in Slots |->
            IF s < n - first THEN src[s + 1]
            ELSE IF s \in w_pos..(w_pos + first - 1) THEN src[s - w_pos + 1]
            ELSE buf[s]]

\* What the two block copies of write leave in the storage.
CopyIn(src, n) ==
    LET first == FirstCopy(w_pos, n)
    IN  [s \in Slots |->
            IF s < n - first THEN src[first + s + 1]
            ELSE IF s \in w_pos..(w_pos + first - 1) THEN src[s - w_pos + 1]
            ELSE buf[s]]

Refuse(status) ==
    /\ result' = Answer(status, 0, <<>>)
    /\ UNCHANGED <<r_pos, w_pos, len, buf>>

Deliver(status, n) ==
    /\ result' = Answer(status, n, CopyOut(n))
    /\ r_pos' = Advance(r_pos, n)
    /\ len' = len - n
    /\ UNCHANGED <<w_pos, buf>>

Accept(src, n) ==
    /\ buf' = CopyIn(src, n)
    /\ w_pos' = Advance(w_pos, n)
    /\ len' = len + n
    /\ result' = Answer("Ok", n, <<>>)
    /\ UNCHANGED r_pos

RefuseRead(k) ==
    \/ k = 0 /\ Refuse("DestinationEmpty")
    \/ k > 0 /\ is_empty /\ Refuse("SourceEmpty")

Readable(k) == k > 0 /\ ~is_empty

-----------------------------------------------------------------------------
(* The operations.                                                         *)

\* Mutant: the write position survives the reset.
resetKeepsW ==
    /\ r_pos' = 0
    /\ len' = 0
    /\ result' = Answer("Ok", Capacity, <<>>)
    /\ UNCHANGED <<w_pos, buf>>

reset ==
    /\ r_pos' = 0
    /\ w_pos' = 0
    /\ len' = 0
    /\ result' = Answer("Ok", Capacity, <<>>)
    /\ UNCHANGED buf

read_byte == IF is_empty THEN Refuse("SourceEmpty") ELSE Deliver("Ok", 1)

read(k) ==
    \/ RefuseRead(k)
    \/ Readable(k) /\ Deliver("Ok", Lesser(k, len))

\* The two slices read_to searches, for a destination that takes m bytes.
FirstHalf(m) == [i \in 1..FirstCopy(r_pos, m) |-> buf[r_pos + i - 1]]
SecondHalf(m) == [i \in 1..(m - FirstCopy(r_pos, m)) |-> buf[i - 1]]

\* position(): p is the first place of the terminator in the slice.
Position(half, p) ==
    /\ half[p] = Term
    /\ \A i \in 1..(p - 1) : half[i] # Term

Missing(half) == \A i \in 1..Len(half) : half[i] # Term

read_to(k) ==
    LET allowed == Lesser(k, len)
        first == FirstHalf(allowed)
        second == SecondHalf(allowed)
    IN  \/ RefuseRead(k)
        \/ /\ Readable(k)
           /\ \E p \in 1..Len(first) :
                 Position(first, p) /\ Deliver("Complete", p)
        \/ /\ Readable(k)
           /\ Missing(first)
           /\ \E p \in 1..Len(second) :
                 Position(second, p) /\ Deliver("Complete", Len(first) + p)
        \/ /\ Readable(k)
           /\ Missing(first)
           /\ Missing(second)
           /\ Deliver("Partial", allowed)

write_byte(b) ==
    IF is_full THEN Refuse("InsufficientSpace") ELSE Accept(<<b>>, 1)

write_all(src) ==
    \/ Len(src) = 0 /\ Refuse("SourceEmpty")
    \/ Len(src) > 0 /\ free_space < Len(src) /\ Refuse("InsufficientSpace")
    \/ Len(src) > 0 /\ free_space >= Len(src) /\ Accept(src, Len(src))

write(src) ==
    \/ Len(src) = 0 /\ Refuse("SourceEmpty")
    \/ Len(src) > 0 /\ is_full /\ Refuse("DestinationFull")
    \/ /\ Len(src) > 0
       /\ ~is_full
       /\ Accept(src, Lesser(Len(src), free_space))

Init ==
    /\ r_pos = 0
    /\ w_pos = 0
    /\ len = 0
    /\ buf = [s \in Slots |-> Zero]
    /\ call = [op |-> "new", room |-> 0, src |-> <<>>]
    /\ result = Answer("Ok", 0, <<>>)

Next ==
    \/ Asked("reset", 0, <<>>) /\ reset
    \/ Asked("read_byte", 1, <<>>) /\ read_byte
    \/ \E k \in DestSizes : Asked("read", k, <<>>) /\ read(k)
    \/ \E k \in DestSizes : Asked("read_to", k, <<>>) /\ read_to(k)
    \/ \E b \in Byte : Asked("write_byte", 0, <<b>>) /\ write_byte(b)
    \/ \E src \in Inputs : Asked("write_all", 0, src) /\ write_all(src)
    \/ \E src \in Inputs : Asked("write", 0, src) /\ write(src)

Spec == Init /\ [][Next]_vars

-----------------------------------------------------------------------------
(* Properties.                                                             *)

\* Type invariant: both positions stay inside the storage, so that no index
\* and no block copy (which is unsafe code) starts outside it.
TypeOK ==
    /\ r_pos \in Slots
    /\ w_pos \in Slots
    /\ len \in 0..Capacity
    /\ buf \in [Slots -> Byte]
    /\ result \in [status : Fifo!Status, n : Nat, data : Seq(Byte)]

\* The write position is where the unread bytes end: three separately
\* maintained fields never drift apart, whatever mixture of byte, slice and
\* reset operations ran.
PositionsAgree == w_pos = Slot(r_pos + len)

\* Every call answers, delivers and keeps exactly what a bounded queue of
\* bytes would: wrapping, the two block copies and the split search for the
\* terminator are invisible to the callers.
ImplementsFifo == Fifo!Spec
=============================================================================

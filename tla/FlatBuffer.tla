----------------------------- MODULE FlatBuffer -----------------------------
(***************************************************************************)
(* FlatBuffer of src/src/flat_buffer.rs: bytes are written one behind the  *)
(* other and read from the front, and nothing wraps or moves up.  The free *)
(* space is counted from the length, the place to write is a position; the *)
(* two part as soon as a byte is read.  A slice index out of bounds runs   *)
(* into the panic handler, which never returns.                            *)
(***************************************************************************)
EXTENDS Naturals, Sequences

CONSTANTS Byte, Zero, Capacity, Inputs

VARIABLES
    r_pos, w_pos, len,
    buf,        \* the storage
    panicked,
    call,       \* history: what the last caller asked for
    result      \* what the last call returned, and the bytes it handed out

vars == <<r_pos, w_pos, len, buf, panicked, call, result>>

Slots == 0..(Capacity - 1)

Contents == [i \in 1..len |-> buf[r_pos + i - 1]]

Answer(status, n, data) == [status |-> status, n |-> n, data |-> data]

Asked(op, src) == call' = [op |-> op, src |-> src]

Lesser(a, b) == IF a <= b THEN a ELSE b

free_space == Capacity - len

is_full == len = Capacity

is_empty == len = 0

-----------------------------------------------------------------------------

Return(status, n, data) ==
    /\ result' = Answer(status, n, data)
    /\ UNCHANGED panicked

Refuse(status) ==
    /\ Return(status, 0, <<>>)
    /\ UNCHANGED <<r_pos, w_pos, len, buf>>

\* panic_handler.
panic ==
    /\ panicked' = TRUE
    /\ UNCHANGED <<r_pos, w_pos, len, buf, result>>

\* The slice from the write position on, n bytes long, is taken from src.
CopyIn(src, n) ==
    /\ buf' = [s \in Slots |-> IF s \in w_pos..(w_pos + n - 1)
                               THEN src[s - w_pos + 1] ELSE buf[s]]
    /\ w_pos' = w_pos + n
    /\ len' = len + n
    /\ Return("Ok", n, <<>>)
    /\ UNCHANGED r_pos

Accept(src, n) == IF w_pos + n <= Capacity THEN CopyIn(src, n) ELSE panic

reset ==
    /\ r_pos' = 0
    /\ w_pos' = 0
    /\ len' = 0
    /\ Return("Ok", Capacity, <<>>)
    /\ UNCHANGED buf

read_byte ==
    \/ is_empty /\ Refuse("BufferEmpty")
    \/ /\ ~is_empty
       /\ Return("Ok", 1, <<buf[r_pos]>>)
       /\ r_pos' = r_pos + 1
       /\ len' = len - 1
       /\ UNCHANGED <<w_pos, buf>>

write_byte(b) ==
    \/ is_full /\ Refuse("InsufficientSpace")
    \/ ~is_full /\ Accept(<<b>>, 1)

\* Mutant: only a full buffer refuses.
write_allUnchecked(src) ==
    \/ is_full /\ Refuse("InsufficientSpace")
    \/ ~is_full /\ Accept(src, Len(src))

write_all(src) ==
    \/ free_space < Len(src) /\ Refuse("InsufficientSpace")
    \/ free_space >= Len(src) /\ Accept(src, Len(src))

write(src) ==
    \/ is_full /\ Refuse("InsufficientSpace")
    \/ ~is_full /\ Accept(src, Lesser(Len(src), free_space))

as_ref ==
    /\ Return("Ok", len, Contents)
    /\ UNCHANGED <<r_pos, w_pos, len, buf>>

\* The caller may put anything behind the write position; the length does not
\* follow.
as_mut ==
    /\ \E b \in Byte : buf' = [s \in Slots |-> IF s < w_pos THEN buf[s] ELSE b]
    /\ Return("Ok", 0, <<>>)
    /\ UNCHANGED <<r_pos, w_pos, len>>

Init ==
    /\ r_pos = 0
    /\ w_pos = 0
    /\ len = 0
    /\ buf = [s \in Slots |-> Zero]
    /\ panicked = FALSE
    /\ call = [op |-> "new", src |-> <<>>]
    /\ result = Answer("Ok", 0, <<>>)

Next ==
    /\ ~panicked
    /\ \/ Asked("reset", <<>>) /\ reset
       \/ Asked("read_byte", <<>>) /\ read_byte
       \/ \E b \in Byte : Asked("write_byte", <<b>>) /\ write_byte(b)
       \/ \E src \in Inputs : Asked("write_all", src) /\ write_all(src)
       \/ \E src \in Inputs : Asked("write", src) /\ write(src)
       \/ Asked("as_ref", <<>>) /\ as_ref
       \/ Asked("as_mut", <<>>) /\ as_mut

Spec == Init /\ [][Next]_vars

-----------------------------------------------------------------------------
(* Properties.                                                             *)

\* Type invariant: what reads and as_ref index stays inside the storage.
TypeOK ==
    /\ r_pos \in 0..Capacity
    /\ w_pos \in 0..Capacity
    /\ len \in 0..Capacity
    /\ buf \in [Slots -> Byte]
    /\ panicked \in BOOLEAN
    /\ result.n \in Nat
    /\ result.data \in Seq(Byte)

\* The unread bytes are exactly the window between the two positions, which
\* as_ref slices out unchecked by any test of its own; part of the inductive
\* invariant of HandleBufferProofs.
WindowKept == r_pos + len = w_pos

\* A write the free space admits panics only in a buffer that was read from
\* since its reset: until then the place to write and the free space agree.
PanicsOnlyAfterRead == panicked => r_pos > 0
=============================================================================

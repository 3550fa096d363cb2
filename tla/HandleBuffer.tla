---------------------------- MODULE HandleBuffer ----------------------------
(***************************************************************************)
(* What a BufferHandle becomes by the conversions of                       *)
(* src/src/buffer_handle.rs: a FlatBuffer or a CircularBuffer over the     *)
(* same pool memory.  Both implement BoundedBuffer, the circular one with  *)
(* one byte less of room.                                                  *)
(***************************************************************************)
EXTENDS Naturals, Sequences

CONSTANTS
    Byte,       \* the byte values
    Zero,       \* what the pool memory holds at the start
    Capacity,   \* BUFFER_SIZE
    Inputs      \* the slices callers write

ASSUME HandleAssumption ==
    /\ Zero \in Byte
    /\ Capacity \in Nat \ {0}
    /\ Inputs \subseteq Seq(Byte)

VARIABLES
    kind,     \* "flat" or "circular"
    r_pos, w_pos, len, buf, panicked, call, result

Flat == INSTANCE FlatBuffer

Circular == INSTANCE CircularBuffer WITH read_ptr <- r_pos, write_ptr <- w_pos

vars == <<kind, r_pos, w_pos, len, buf, panicked, call, result>>

Contents == IF kind = "flat" THEN Flat!Contents ELSE Circular!Contents

room == IF kind = "flat" THEN Capacity ELSE Capacity - 1

Buffer == INSTANCE BoundedBuffer WITH queue <- Contents, stopped <- panicked

Init ==
    \/ kind = "flat" /\ Flat!Init
    \/ kind = "circular" /\ Circular!Init /\ len = 0 /\ panicked = FALSE

FlatStep == kind = "flat" /\ Flat!Next /\ UNCHANGED kind

CircularStep ==
    kind = "circular" /\ Circular!Next /\ UNCHANGED <<kind, len, panicked>>

Next == FlatStep \/ CircularStep

Spec == Init /\ [][Next]_vars

-----------------------------------------------------------------------------
(* Properties.                                                             *)

\* Type invariant of whichever buffer the handle became.
TypeOK ==
    /\ kind \in {"flat", "circular"}
    /\ kind = "flat" => Flat!TypeOK
    /\ kind = "circular" => Circular!TypeOK

\* FlatBuffer's writes index out of bounds only after a read since the reset,
\* and the firmware never reads its FlatBuffers byte by byte.
PanicsOnlyAfterRead == kind = "flat" => Flat!PanicsOnlyAfterRead

\* Over any mixture of calls both buffers answer, keep and hand out what a
\* bounded queue would, as long as they do not panic.
ImplementsBuffer == Buffer!Spec
=============================================================================

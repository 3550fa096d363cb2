----------------------------- MODULE SliceRead -----------------------------
(***************************************************************************)
(* What a read into a slice promises its task, whichever driver serves it: *)
(* the slice fills from its front, a byte put there stays until the next   *)
(* read begins, Ok comes with at least one byte, and of the UART an error  *)
(* comes only with a full slice.  main.rs relies on it when it reports     *)
(* rx_buffer[..len] after the await; modules AvrUart and Ft240x show that  *)
(* the drivers keep the promise, module Firmware that the tasks, which     *)
(* have given both buffers back to the pool, do not break it.              *)
(***************************************************************************)
EXTENDS Naturals, Sequences

CONSTANT
    OnlyFull   \* TRUE or FALSE: a read fails only with a full slice

VARIABLES
    space,   \* length of the slice of the read under way, 0 if there is none
    held,    \* the bytes at its front
    ok       \* the last read returned bytes

vars == <<space, held, ok>>

Init ==
    /\ space = 0
    /\ held = <<>>
    /\ ok = FALSE

\* A slice without room is refused at once.
Begin ==
    /\ space = 0
    /\ space' \in Nat
    /\ held' = <<>>
    /\ ok' = FALSE

\* More bytes may have come, behind the ones that are there.
Grows ==
    /\ space > 0
    /\ Len(held') \in Len(held)..space
    /\ SubSeq(held', 1, Len(held)) = held

Fill ==
    /\ Grows
    /\ UNCHANGED <<space, ok>>

Succeed ==
    /\ Grows
    /\ held' # <<>>
    /\ space' = 0
    /\ ok' = TRUE

Fail ==
    /\ Grows
    /\ OnlyFull => held' = held /\ Len(held) = space
    /\ space' = 0
    /\ ok' = FALSE

\* The task looks at the answer of another call.
Leave ==
    /\ space = 0
    /\ ok' = FALSE
    /\ UNCHANGED <<space, held>>

Next == Begin \/ Fill \/ Succeed \/ Fail \/ Leave

Spec == Init /\ [][Next]_vars
=============================================================================

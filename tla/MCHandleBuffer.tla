--------------------------- MODULE MCHandleBuffer ---------------------------
(* TLC instance of HandleBuffer: every slice of up to one byte more than   *)
(* the storage.                                                            *)
EXTENDS HandleBuffer, SequencesExt

CONSTANTS x, y

MCByte == {x, y}
MCInputs == BoundedSeq(MCByte, Capacity + 1)
=============================================================================

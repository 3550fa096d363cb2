----------------------- MODULE MCConstCircularBuffer -----------------------
(* TLC instance of ConstCircularBuffer: every slice of up to one byte more *)
(* than the ring holds.                                                    *)
EXTENDS ConstCircularBuffer, SequencesExt

CONSTANTS lf, x

MCByte == {lf, x}
MCInputs == BoundedSeq(MCByte, Capacity + 1)
MCDestSizes == 0..(Capacity + 1)
=============================================================================

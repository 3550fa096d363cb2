------------------------------- MODULE AvrUart -------------------------------
(***************************************************************************)
(* The UART of src/src/avr_uart.rs as usart1_reader_task and the blocking  *)
(* writes of ft240_reader_task use it: the receive interrupt fills a ring, *)
(* CTS throttles the peer between two thresholds, read_to collects a line  *)
(* over several partial reads, read takes what there is, and a write keeps *)
(* interrupts off while it sends.  The ring is a sequence here (module     *)
(* ConstCircularBuffer shows that it is one).  A byte is its place in the  *)
(* line and whether it is the terminator.  Of the serial line only its     *)
(* speed matters: while interrupts are on, a byte is served before the     *)
(* next one is complete, so that a write finds at most one waiting, and    *)
(* while a write is busy at most one byte comes in per byte sent.          *)
(***************************************************************************)
EXTENDS Naturals, Sequences

CONSTANTS
    Capacity,   \* BUFFER_CAPACITY
    DestLen,    \* length of the slice read_to is given
    HwDepth,    \* bytes the USART holds by itself
    PeerLag,    \* bytes the peer still sends after CTS was deasserted
    MaxLine,    \* the longest line the peer sends
    LineLengths,    \* how long its lines may be
    MaxWrite    \* the longest slice written

DEASSERT_THRESHOLD == Capacity \div 4
REASSERT_THRESHOLD == Capacity \div 2

ASSUME UartAssumption ==
    /\ {Capacity, DestLen, HwDepth, MaxLine, MaxWrite} \subseteq Nat \ {0}
    /\ PeerLag \in Nat
    /\ LineLengths \subseteq 1..MaxLine
    /\ MaxLine \in LineLengths
    /\ HwDepth + PeerLag <= DEASSERT_THRESHOLD

VARIABLES
    taken,     \* bytes of the present line that the USART took
    lag,       \* bytes the peer may still send while CTS is deasserted
    hw,        \* the bytes in the USART
    rx,        \* the ring of the reader
    cts_high,  \* the CTS pin: high tells the peer to stop
    waker,     \* the reader's waker is set
    woken,     \* the executor was signalled for the reader's task
    reader,    \* "idle", "reading" (being polled in a call) or "waiting"
    op,        \* the call: "read_to" or "read"
    dest,      \* what the call has put into its slice
    answer,    \* what the last call returned
    handed,    \* history: the place after the bytes earlier calls returned
    sending,   \* bytes a write still has to send; interrupts are off meanwhile
    slot,      \* a byte may come in before the next one is sent
    length,    \* length of the slice being written, 0 between writes
    dropped    \* history: the ring refused a byte

peerVars == <<taken, lag>>
readVars == <<reader, op, dest, answer, handed>>
sendVars == <<sending, slot, length>>
vars == <<peerVars, hw, rx, cts_high, waker, woken, readVars, sendVars,
          dropped>>

Place == 1..MaxLine

\* The peer ends a line at one of the lengths, at MaxLine at the latest.
Byte == {byte \in [place : Place, term : BOOLEAN] :
            /\ byte.place = MaxLine => byte.term
            /\ byte.term => byte.place \in LineLengths}

\* The place of the byte that follows a byte.
After(byte) == IF byte.term THEN 1 ELSE byte.place + 1

Lesser(a, b) == IF a <= b THEN a ELSE b

NoAnswer == [status |-> "None", data |-> <<>>]

InterruptsOn == sending = 0

free_space == Capacity - Len(rx)

Init ==
    /\ taken = 0
    /\ lag = PeerLag
    /\ hw = <<>>
    /\ rx = <<>>
    /\ cts_high = FALSE
    /\ waker = FALSE
    /\ woken = FALSE
    /\ reader = "idle"
    /\ op = "read_to"
    /\ dest = <<>>
    /\ answer = NoAnswer
    /\ handed = 1
    /\ sending = 0
    /\ slot = FALSE
    /\ length = 0
    /\ dropped = FALSE

-----------------------------------------------------------------------------
(* The peer and the serial line.                                           *)

\* The line brings a byte: as fast as the peer sends, which heeds CTS after
\* PeerLag more bytes.
LineStep ==
    /\ IF cts_high THEN lag > 0 /\ lag' = lag - 1 ELSE UNCHANGED lag
    /\ IF InterruptsOn THEN hw = <<>> ELSE slot
    /\ slot' = FALSE
    /\ UNCHANGED <<rx, cts_high, waker, woken, readVars, sending, length,
                   dropped>>

\* The USART takes it.
Arrive(byte) ==
    /\ Len(hw) < HwDepth
    /\ byte.place = taken + 1
    /\ taken' = IF byte.term THEN 0 ELSE byte.place
    /\ hw' = Append(hw, byte)
    /\ LineStep

\* The USART is full: the byte is lost.
Overrun ==
    /\ Len(hw) = HwDepth
    /\ LineStep
    /\ UNCHANGED <<taken, hw>>

-----------------------------------------------------------------------------
(* Flow control.  Both sides look at the ring after they changed it.       *)

\* Mutant: the interrupt never deasserts.
DeassertNever(left) == UNCHANGED <<cts_high, lag>>

\* The interrupt raises CTS when less than a quarter is left; the peer's
\* grace starts with the edge.
DeassertCts(left) ==
    IF left < DEASSERT_THRESHOLD
    THEN /\ cts_high' = TRUE
         /\ lag' = IF cts_high THEN lag ELSE PeerLag
    ELSE UNCHANGED <<cts_high, lag>>

\* Mutant: CTS comes back only when more is free than there is.
ReassertNever(left) ==
    IF Capacity < left THEN cts_high' = FALSE ELSE UNCHANGED cts_high

\* A read lowers CTS when more than half is free.
ReassertCts(left) ==
    IF REASSERT_THRESHOLD < left THEN cts_high' = FALSE ELSE UNCHANGED cts_high

\* Mutant: the waker is taken and dropped.
WakeReaderNot ==
    /\ waker' = FALSE
    /\ UNCHANGED woken

WakeReader ==
    /\ waker' = FALSE
    /\ woken' = (woken \/ waker)

\* The receive interrupt; a byte the ring refuses is gone.
USART1_RX ==
    /\ InterruptsOn
    /\ hw # <<>>
    /\ hw' = Tail(hw)
    /\ IF Len(rx) < Capacity
       THEN rx' = Append(rx, Head(hw)) /\ UNCHANGED dropped
       ELSE dropped' = TRUE /\ UNCHANGED rx
    /\ DeassertCts(Capacity - Len(rx'))
    /\ WakeReader
    /\ UNCHANGED <<taken, readVars, sendVars>>

-----------------------------------------------------------------------------
(* The reader's task, polled with interrupts on.                           *)

Start(call) ==
    /\ InterruptsOn
    /\ reader = "idle"
    /\ reader' = "reading"
    /\ op' = call
    /\ answer' = NoAnswer
    /\ handed' = IF answer.data = <<>> THEN handed
                 ELSE After(answer.data[Len(answer.data)])
    /\ UNCHANGED <<peerVars, hw, rx, cts_high, waker, woken, dest, sendVars,
                   dropped>>

Return(status, data) ==
    /\ reader' = "idle"
    /\ answer' = [status |-> status, data |-> data]
    /\ dest' = <<>>
    /\ UNCHANGED <<op, handed>>

\* try_read_to on what is left of the slice: nothing is left.
ReadNoRoom ==
    /\ InterruptsOn
    /\ reader = "reading"
    /\ Len(dest) = DestLen
    /\ Return("DestinationEmpty", dest)
    /\ UNCHANGED <<peerVars, hw, rx, cts_high, waker, woken, sendVars,
                   dropped>>

\* Usart1CanRead finds the ring empty, registers and is pending.
ReadPending ==
    /\ InterruptsOn
    /\ reader = "reading"
    /\ Len(dest) < DestLen
    /\ rx = <<>>
    /\ waker' = TRUE
    /\ reader' = "waiting"
    /\ UNCHANGED <<peerVars, hw, rx, cts_high, woken, op, dest, answer, handed,
                   sendVars, dropped>>

\* Mutant: the slice is taken for long enough.
CutUnbounded(n, room) ==
    /\ n \in 1..Len(rx)
    /\ \A i \in 1..(n - 1) : ~rx[i].term
    /\ rx[n].term \/ n = Len(rx)

\* Mutant: the search for the terminator is left out.
CutAtRoom(n, room) == n = Lesser(room, Len(rx))

\* Where read_to of the ring stops: after the first terminator, or where the
\* slice or the ring ends.
Cut(n, room) ==
    /\ n \in 1..Lesser(room, Len(rx))
    /\ \A i \in 1..(n - 1) : ~rx[i].term
    /\ rx[n].term \/ n = Lesser(room, Len(rx))

\* Mutant: a partial read does not move total_len on.
CollectAgain(n) ==
    IF rx[n].term
    THEN Return("Complete", dest \o SubSeq(rx, 1, n))
    ELSE dest' = SubSeq(rx, 1, n) /\ UNCHANGED <<reader, op, answer, handed>>

\* A complete line is returned; a partial one is kept and the loop goes on.
Collect(n) ==
    IF rx[n].term
    THEN Return("Complete", dest \o SubSeq(rx, 1, n))
    ELSE dest' = dest \o SubSeq(rx, 1, n) /\ UNCHANGED <<reader, op, answer, handed>>

\* What the critical section of a read of n bytes does besides.
Take(n) ==
    /\ InterruptsOn
    /\ reader = "reading"
    /\ rx' = SubSeq(rx, n + 1, Len(rx))
    /\ ReassertCts(Capacity - Len(rx'))
    /\ UNCHANGED <<peerVars, hw, waker, woken, sendVars, dropped>>

try_read_to ==
    \E n \in 1..Len(rx) :
        /\ op = "read_to"
        /\ Cut(n, DestLen - Len(dest))
        /\ Collect(n)
        /\ Take(n)

\* Read::read returns whatever there is, as far as it fits.
read ==
    \E n \in 1..Len(rx) :
        /\ op = "read"
        /\ n = Lesser(DestLen, Len(rx))
        /\ Return("Ok", SubSeq(rx, 1, n))
        /\ Take(n)

ReadBytes == try_read_to \/ read

\* The executor polls the task again: because it was signalled, or because
\* another task was.
Repoll ==
    /\ InterruptsOn
    /\ reader = "waiting"
    /\ reader' = "reading"
    /\ woken' = FALSE
    /\ UNCHANGED <<peerVars, hw, rx, cts_high, waker, op, dest, answer, handed,
                   sendVars, dropped>>

\* Mutant: a write begins within the critical section of another.
StartWriteNested(n) ==
    /\ sending' = n
    /\ slot' = TRUE
    /\ length' = n
    /\ UNCHANGED <<peerVars, hw, rx, cts_high, waker, woken, readVars,
                   dropped>>

\* The other task is polled, and writes a slice in one critical section.
StartWrite(n) ==
    /\ InterruptsOn
    /\ reader # "reading"
    /\ Len(hw) <= 1
    /\ sending' = n
    /\ slot' = TRUE
    /\ length' = n
    /\ UNCHANGED <<peerVars, hw, rx, cts_high, waker, woken, readVars,
                   dropped>>

SendByte ==
    /\ sending > 0
    /\ sending' = sending - 1
    /\ slot' = (sending > 1)
    /\ length' = IF sending > 1 THEN length ELSE 0
    /\ UNCHANGED <<peerVars, hw, rx, cts_high, waker, woken, readVars,
                   dropped>>

StartRead == \E call \in {"read_to", "read"} : Start(call)

ReadStep == StartRead \/ ReadNoRoom \/ ReadPending \/ ReadBytes

Next ==
    \/ \E byte \in Byte : Arrive(byte)
    \/ Overrun
    \/ USART1_RX
    \/ ReadStep
    \/ Repoll
    \/ \E n \in 1..MaxWrite : StartWrite(n)
    \/ SendByte

\* The CPU runs: a write into the USART ends, and so does a poll of the reader.
\* A pending interrupt is served when a write has ended.  That the executor
\* comes to poll the reader's task, and that the task reads again, is not
\* assumed.
Fairness ==
    /\ WF_vars(SendByte)
    /\ WF_vars(reader = "reading" /\ ReadStep)
    /\ SF_vars(USART1_RX)

Spec == Init /\ [][Next]_vars

FairSpec == Spec /\ Fairness

-----------------------------------------------------------------------------
(* Properties.                                                             *)

\* Every variable keeps its type; the ring never holds more than its capacity
\* and a call never puts more than its slice holds into it, over all
\* its partial reads.
TypeOK ==
    /\ taken \in 0..(MaxLine - 1)
    /\ lag \in 0..PeerLag
    /\ hw \in Seq(Byte)
    /\ Len(hw) <= HwDepth
    /\ rx \in Seq(Byte)
    /\ Len(rx) <= Capacity
    /\ reader \in {"idle", "reading", "waiting"}
    /\ op \in {"read_to", "read"}
    /\ dest \in Seq(Byte)
    /\ Len(dest) <= DestLen
    /\ answer \in [status : {"None", "Ok", "Complete", "DestinationEmpty"},
                   data : Seq(Byte)]
    /\ Len(answer.data) <= DestLen
    /\ handed \in Place
    /\ sending \in 0..MaxWrite
    /\ cts_high \in BOOLEAN
    /\ waker \in BOOLEAN
    /\ woken \in BOOLEAN
    /\ slot \in BOOLEAN
    /\ length \in 0..MaxWrite
    /\ dropped \in BOOLEAN

\* The two thresholds make a hysteresis: CTS is high whenever less than a
\* quarter is free, and never once more than half is, so there is always
\* something left to read while the peer is stopped.
CtsHysteresis ==
    /\ free_space < DEASSERT_THRESHOLD => cts_high
    /\ cts_high => free_space <= REASSERT_THRESHOLD

\* What the interrupt's ignored write_byte result relies on: the ring never
\* refuses a byte, because a quarter of it takes all that the USART holds and
\* all that the peer sends before it stops.
NothingDropped == ~dropped

\* A task that waits for bytes is signalled or has its waker registered on an
\* empty ring.
ReaderArmed ==
    reader = "waiting" => woken \/ (waker /\ rx = <<>>)

\* The bytes of seq stand one behind the other in the line, from place first to
\* the one before place next.
Chain(seq, first, next) ==
    /\ \A i \in 1..(Len(seq) - 1) : seq[i + 1].place = After(seq[i])
    /\ seq = <<>> => first = next
    /\ seq # <<>> => /\ seq[1].place = first
                     /\ After(seq[Len(seq)]) = next

\* From the last answer over the half-filled slice and the ring to the USART,
\* the bytes are one run of the line as the USART took it: it starts where the
\* earlier answers ended and ends where the USART stands.  Whatever mixture of
\* calls collects them over any number of partial reads, no byte is lost,
\* repeated or reordered between two calls or within one.
StreamIntact == Chain(answer.data \o dest \o rx \o hw, handed, taken + 1)

\* read_to looks no further than a terminator and stops at none: an answer and
\* a slice it is still filling hold a terminator nowhere but at the end of a
\* Complete answer, and there always.
LinesEndAtTerm ==
    /\ \A i \in 1..Len(dest) : ~dest[i].term
    /\ answer.status \in {"Complete", "DestinationEmpty"} =>
          LET data == answer.data
          IN  /\ data # <<>>
              /\ \A i \in 1..(Len(data) - 1) : ~data[i].term
              /\ answer.status = "Complete" <=> data[Len(data)].term

\* Both calls as their caller sees the slice.
Reads == INSTANCE SliceRead WITH
    OnlyFull <- TRUE,
    space <- IF reader = "idle" THEN 0 ELSE DestLen,
    held <- IF reader = "idle" THEN answer.data ELSE dest,
    ok <- reader = "idle" /\ answer.status \in {"Ok", "Complete"}

\* Over all its partial reads and whatever comes in between, a call fills its
\* slice from the front, in place, and fails only once it is full.
FillsSlice == Reads!Spec

\* The polls of the tasks end, so that a signalled reader is polled again.
\* Join does not see to it (EveryTaskRuns of module Executor).
RoundsEnd == []<>~(reader = "waiting" /\ woken)

\* The task comes back to reading after each call.  The USB write of its report
\* may keep it for ever.
ReadsGoOn == []<>(reader # "idle")

\* As long as the task that reads is polled and comes back to reading, the peer
\* is not stopped for good: a stopped peer's ring always holds enough for the
\* reader not to wait, and the reads bring it below the threshold.
CtsReopens == RoundsEnd /\ ReadsGoOn => (cts_high ~> ~cts_high)

\* Only a write as long as what the USART holds costs bytes on the line: one
\* may be waiting when interrupts go off, and then one comes in per byte sent.
\* Shorter writes can come at any time.
OnlyLongWritesOverrun == [][Overrun => length >= HwDepth]_vars

\* ReadError::DestinationEmpty says "read called and destination buffer is
\* empty", and a slice filled by a read is ReadStatus::BufferFull.  The slice
\* here is not empty when read_to is called.
FilledIsBufferFull == answer.status # "DestinationEmpty"
=============================================================================

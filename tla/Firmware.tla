------------------------------ MODULE Firmware ------------------------------
(***************************************************************************)
(* The two tasks of src/src/main.rs over the buffer pool and one memory:   *)
(* "usb" is ft240_reader_task, which echoes what the USB host sends to the *)
(* UART, "uart" is usart1_reader_task, which reports UART lines to the USB *)
(* host.  Each turns one pool buffer into a slice to read into and one     *)
(* into a FlatBuffer to compose in, and both handles are given back to the *)
(* pool while slice and FlatBuffer live on.  The drivers are reduced to    *)
(* what modules AvrUart and Ft240x show of them, the FlatBuffer, which is  *)
(* only written, looked at and reset here, to its length (module           *)
(* HandleBuffer).  A task gives up the CPU only where an await is pending. *)
(***************************************************************************)
EXTENDS Naturals, Sequences

CONSTANTS
    BUFFER_COUNT,
    Size,         \* BUFFER_SIZE
    PrefixLen,    \* "Complete: "
    ErrorLen,     \* "Error: "
    BytesLen,     \* " bytes: "
    EolLen,       \* carriage return and line feed
    None

ASSUME FirmwareAssumption ==
    /\ BUFFER_COUNT \in 4..8     \* the tasks make four requests
    /\ {Size, PrefixLen, ErrorLen, BytesLen, EolLen} \subseteq Nat \ {0}
    /\ None \notin 0..(BUFFER_COUNT - 1)

Task == {"usb", "uart"}

VARIABLES
    running,     \* the task Join is polling
    stage,       \* where each task stands
    mem,         \* the memory of the pool's buffers
    alloc_idx, dealloc_idx, allocations, count, in_use_mask,
    handle, slices, requests, refused,
    rx,          \* the buffer of rx_buffer
    tx,          \* the buffer of tx_buffer
    len,         \* length of tx_buffer
    round,       \* parity of the present read
    filled,      \* bytes the present read has put into rx_buffer
    ok,          \* the read returned bytes
    written,     \* pieces of the report that were written or refused
    sent         \* the bytes the last write gave to its device

poolVars == <<alloc_idx, dealloc_idx, allocations, count, in_use_mask,
              handle, slices, requests, refused>>
bufferVars == <<rx, tx>>
readVars == <<round, filled, ok>>
reportVars == <<len, written, sent>>
vars == <<running, stage, mem, poolVars, bufferVars, readVars, reportVars>>

Pool == INSTANCE BufferPool WITH Holder <- Task

Place == 1..Size

\* A byte is where it comes from, the parity of its round and its place there;
\* a count byte has the number it shows instead.
Byte(from, parity, n) == <<from, parity, n>>

Untouched == Byte("untouched", 0, 0)

Text(n) == [i \in 1..n |-> Byte("text", 0, 0)]

Number(n) == <<Byte("count", 0, n)>>

Other(t) == IF t = "usb" THEN "uart" ELSE "usb"

Stages(t) ==
    IF t = "usb"
    THEN <<"ask rx", "own rx", "ask tx", "own tx", "greet", "delay", "loop">>
    ELSE <<"greet", "ask rx", "own rx", "ask tx", "own tx", "loop">>

Following(t, here) ==
    LET i == CHOOSE i \in 1..Len(Stages(t)) : Stages(t)[i] = here
    IN  Stages(t)[i + 1]

Init ==
    /\ running = "usb"
    /\ stage = [t \in Task |-> Stages(t)[1]]
    /\ mem = [b \in Pool!Index |-> [p \in Place |-> Untouched]]
    /\ Pool!Init
    /\ rx = [t \in Task |-> None]
    /\ tx = [t \in Task |-> None]
    /\ len = [t \in Task |-> 0]
    /\ round = [t \in Task |-> 0]
    /\ filled = [t \in Task |-> 0]
    /\ ok = [t \in Task |-> FALSE]
    /\ written = [t \in Task |-> 0]
    /\ sent = [t \in Task |-> <<>>]

-----------------------------------------------------------------------------
(* Awaits.                                                                 *)

At(t, s) == running = t /\ stage[t] = s

Goto(t, s) == stage' = [stage EXCEPT ![t] = s] /\ UNCHANGED running

\* Where an await may find nothing to do.  A UART write never does: the ring
\* it waits for is empty.
MayPend(t) ==
    IF t = "usb" THEN {"delay", "read"} ELSE {"greet", "read", "write"}

Pending(t) ==
    /\ running = t
    /\ stage[t] \in MayPend(t)
    /\ running' = Other(t)
    /\ UNCHANGED <<stage, mem, poolVars, bufferVars, readVars, reportVars>>

\* The greeting is written, whatever comes of it; the delay is over.
Resume(t) ==
    /\ running = t
    /\ stage[t] \in {"greet", "delay"}
    /\ Goto(t, Following(t, stage[t]))
    /\ UNCHANGED <<mem, poolVars, bufferVars, readVars, reportVars>>

\* BufferRequest.await
AskBuffer(t) ==
    /\ running = t
    /\ stage[t] \in {"ask rx", "ask tx"}
    /\ Pool!poll(t)
    /\ Goto(t, Following(t, stage[t]))
    /\ UNCHANGED <<mem, bufferVars, readVars, reportVars>>

\* .into(): the buffer is back in the pool when it is done.
IntoSlice(t) ==
    /\ At(t, "own rx")
    /\ rx' = [rx EXCEPT ![t] = handle[t]]
    /\ Pool!from(t)
    /\ Goto(t, Following(t, "own rx"))
    /\ UNCHANGED <<mem, tx, readVars, reportVars>>

IntoFlatBuffer(t) ==
    /\ At(t, "own tx")
    /\ tx' = [tx EXCEPT ![t] = handle[t]]
    /\ Pool!from(t)
    /\ Goto(t, Following(t, "own tx"))
    /\ UNCHANGED <<mem, rx, readVars, reportVars>>

-----------------------------------------------------------------------------
(* The loop: reset, read, compose, write.                                  *)

\* tx_buffer.reset(), which moves positions and leaves the bytes of the last
\* report where they are, and the call of the read.
StartRound(t) ==
    /\ At(t, "loop")
    /\ len' = [len EXCEPT ![t] = 0]
    /\ written' = [written EXCEPT ![t] = 0]
    /\ sent' = [sent EXCEPT ![t] = <<>>]
    /\ round' = [round EXCEPT ![t] = 1 - @]
    /\ filled' = [filled EXCEPT ![t] = 0]
    /\ ok' = [ok EXCEPT ![t] = FALSE]
    /\ Goto(t, "read")
    /\ UNCHANGED <<mem, poolVars, bufferVars>>

\* Mutant: a partial read goes to the front of the slice.
ReceiveInFront(t, n) ==
    /\ filled' = [filled EXCEPT ![t] = @ + n]
    /\ mem' = [mem EXCEPT ![rx[t]] = [p \in Place |->
                 IF p \in 1..n THEN Byte(t, round[t], p) ELSE @[p]]]

\* The driver puts n more bytes into rx_buffer.
Receive(t, n) ==
    /\ filled' = [filled EXCEPT ![t] = @ + n]
    /\ mem' = [mem EXCEPT ![rx[t]] = [p \in Place |->
                 IF p \in (filled[t] + 1)..(filled[t] + n)
                 THEN Byte(t, round[t], p) ELSE @[p]]]

\* try_read_to was Partial: read_to goes on into the rest of the slice.
ReadOn(n) ==
    /\ At("uart", "read")
    /\ Receive("uart", n)
    /\ UNCHANGED <<running, stage, poolVars, bufferVars, round, ok, reportVars>>

\* The read ends with n more bytes, as Ok or as an error: DestinationEmpty of
\* read_to comes with a full slice and no more bytes, NotConnected of the USB
\* read after any number of them.
ReadEnds(t, n, success) ==
    /\ At(t, "read")
    /\ success => n > 0
    /\ t = "uart" /\ ~success => n = 0 /\ filled[t] = Size
    /\ Receive(t, n)
    /\ ok' = [ok EXCEPT ![t] = success]
    /\ Goto(t, "compose")
    /\ UNCHANGED <<poolVars, bufferVars, round, reportVars>>

\* rx_buffer[..n]
Slice(t, n) == SubSeq(mem[rx[t]], 1, n)

\* A line is reported without its terminator.
PayloadLen(t) == IF t = "uart" THEN filled[t] - 1 ELSE filled[t]

\* What a task writes into tx_buffer, call by call.  read_to returns neither
\* Partial nor BufferFull (module AvrUart), so their arms are dead.
Report(t) ==
    LET lines == <<Slice(t, PayloadLen(t)), Text(BytesLen),
                   Number(filled[t]), Text(EolLen)>>
    IN  IF t = "usb" THEN IF ok[t] THEN lines ELSE <<>>
                     ELSE IF ok[t] THEN <<Text(PrefixLen)>> \o lines
                                   ELSE <<Text(ErrorLen)>>

Put(t, src) ==
    /\ mem' = [mem EXCEPT ![tx[t]] = [p \in Place |->
                 IF p \in (len[t] + 1)..(len[t] + Len(src))
                 THEN src[p - len[t]] ELSE @[p]]]
    /\ len' = [len EXCEPT ![t] = @ + Len(src)]

\* Mutant: the test is against the capacity, not the free space.
write_allOverfills(t, src) ==
    IF Size < Len(src) THEN UNCHANGED <<mem, len>> ELSE Put(t, src)

\* Mutant: a piece that fits exactly is refused.
write_allStrict(t, src) ==
    IF Size - len[t] <= Len(src) THEN UNCHANGED <<mem, len>> ELSE Put(t, src)

\* write_all, write_str and write_byte of FlatBuffer: all or nothing, and the
\* result is ignored.
write_all(t, src) ==
    IF Size - len[t] < Len(src) THEN UNCHANGED <<mem, len>> ELSE Put(t, src)

Compose(t) ==
    /\ At(t, "compose")
    /\ written[t] < Len(Report(t))
    /\ write_all(t, Report(t)[written[t] + 1])
    /\ written' = [written EXCEPT ![t] = @ + 1]
    /\ UNCHANGED <<running, stage, poolVars, bufferVars, readVars, sent>>

Composed(t) ==
    /\ At(t, "compose")
    /\ written[t] = Len(Report(t))
    /\ Goto(t, "write")
    /\ UNCHANGED <<mem, poolVars, bufferVars, readVars, reportVars>>

\* The write takes n bytes of tx_buffer: the UART all of them, the USB bridge
\* none if it is not connected and any number otherwise.  An empty slice is
\* refused.  The result is ignored.
Write(t, n) ==
    /\ At(t, "write")
    /\ n \in 0..len[t]
    /\ t = "usb" => n = len[t]
    /\ sent' = [sent EXCEPT ![t] = SubSeq(mem[tx[t]], 1, n)]
    /\ Goto(t, "loop")
    /\ UNCHANGED <<mem, poolVars, bufferVars, readVars, len, written>>

Begin(t) == Resume(t) \/ AskBuffer(t) \/ IntoSlice(t) \/ IntoFlatBuffer(t)

Next ==
    \/ \E t \in Task :
          \/ Pending(t)
          \/ Begin(t)
          \/ StartRound(t)
          \/ \E n \in 0..(Size - filled[t]), success \in BOOLEAN :
                ReadEnds(t, n, success)
          \/ Compose(t)
          \/ Composed(t)
          \/ \E n \in 0..Size : Write(t, n)
    \/ \E n \in 1..(Size - filled["uart"]) : ReadOn(n)

Spec == Init /\ [][Next]_vars

-----------------------------------------------------------------------------
(* Properties.                                                             *)

\* Type invariant.
TypeOK ==
    /\ running \in Task
    /\ \A t \in Task :
          /\ rx[t] \in Pool!Index \cup {None}
          /\ tx[t] \in Pool!Index \cup {None}
          /\ len[t] \in 0..Size
          /\ round[t] \in {0, 1}
          /\ filled[t] \in 0..Size
          /\ ok[t] \in BOOLEAN
          /\ written[t] \in 0..5
          /\ Len(sent[t]) <= len[t]
    /\ Pool!TypeOK

\* How many bytes of the present read its report ought to carry.
Expected(t) == IF ok[t] THEN PayloadLen(t) ELSE 0

IsPayload(byte) == byte[1] \notin {"text", "count"}

\* What left the task holds the first n bytes of the present read, in one piece
\* and in order, and otherwise text.
Carries(t, n) ==
    \E from \in 0..Len(sent[t]) :
        /\ {p \in 1..Len(sent[t]) : IsPayload(sent[t][p])} = (from + 1)..(from + n)
        /\ \A i \in 1..n : sent[t][from + i] = Byte(t, round[t], i)

\* What leaves a task is its own and of this round: no byte of the other task,
\* of an earlier round or of untouched memory, though the pool holds both of
\* its buffers as free.  The payload is there from its beginning and in order;
\* if the device took the whole report, it is there entirely or not at all.
ReportsOwnBytes ==
    \A t \in Task :
        \E n \in 0..Expected(t) :
            /\ Carries(t, n)
            /\ Len(sent[t]) = len[t] => n \in {0, Expected(t)}

\* What a read returned with Ok is left out of the report only if the text put
\* before it and the payload together exceed the buffer: a line can be left out
\* of its report, the echo of a USB read never is.  The bytes of a read that
\* returned an error are reported by neither task.
OmittedOnlyIfTooLong ==
    \A t \in Task :
        LET ahead == IF t = "uart" THEN PrefixLen ELSE 0
        IN  (stage[t] = "loop" /\ Len(sent[t]) = len[t])
                => Carries(t, Expected(t)) \/ ahead + Expected(t) > Size

\* The slice of a task and its read, as module SliceRead has them.
Space(t) == IF stage[t] = "read" THEN Size ELSE 0

Held(t) == IF rx[t] = None THEN <<>> ELSE Slice(t, filled[t])

UsbRead == INSTANCE SliceRead WITH
    OnlyFull <- FALSE, space <- Space("usb"), held <- Held("usb"), ok <- ok["usb"]

UartRead == INSTANCE SliceRead WITH
    OnlyFull <- TRUE, space <- Space("uart"), held <- Held("uart"), ok <- ok["uart"]

\* What a driver put into a task's slice stays there until the task's next
\* read begins, whatever is composed and read into the other buffers, though
\* the pool may hand the slice's memory out.
SlicesKept == UsbRead!Spec /\ UartRead!Spec
=============================================================================

------------------------------- MODULE Ft240x -------------------------------
(***************************************************************************)
(* Ft240x, its reader and its writer, of src/src/ft240x.rs: an 8 bit bus   *)
(* to the USB bridge shared by reads and writes, whose direction the       *)
(* firmware caches.  The bridge and the cable move between any two looks   *)
(* at a pin, also in a critical section, so every look is a step.  When a  *)
(* future is pending the call stays where it is; module Executor has what  *)
(* that registers.                                                         *)
(*                                                                         *)
(* Of the bridge the code uses this much: RXF# low says that a byte can be *)
(* read, TXE# low that one can be written, either may be high for a moment *)
(* after a strobe, both float while there is no host, and a bridge that    *)
(* lost its host has empty FIFOs.                                          *)
(***************************************************************************)
EXTENDS Naturals, Sequences

CONSTANTS
    RxDepth, TxDepth,   \* FIFOs of the bridge
    MaxLen,             \* longest slice of a call
    Numbers             \* bytes are numbered modulo this

ASSUME Ft240xAssumption ==
    /\ {RxDepth, TxDepth, MaxLen} \subseteq Nat \ {0}
    /\ Numbers \in Nat \ {0, 1}

VARIABLES
    connected,   \* SENSE is high
    fifo,        \* bytes the host sent
    next,        \* number of the host's next byte
    room,        \* bytes the transmit FIFO still takes
    state,       \* BusState as cached
    ddr,         \* what PORTC is set to: "in" or "out"
    cpu,         \* the look or strobe that comes next, "none" outside polls
    moved,       \* the cable moved since cpu was "none"
    reader,      \* the reader's call
    got,         \* its buffer
    writer,      \* length of the writer's slice, 0 if there is no call
    sent,        \* bytes_written
    accepted,    \* history: how many of them the bridge took
    answer,      \* what the last call returned
    replugged,   \* history: the cable moved since the reader's call began
    owed         \* history: number of the byte the next call has to start with

usbVars == <<connected, fifo, next, room>>
busVars == <<state, ddr>>
readVars == <<reader, got, replugged, owed>>
writeVars == <<writer, sent, accepted>>
vars == <<usbVars, busVars, cpu, moved, readVars, writeVars, answer>>

Byte == [number : 0..(Numbers - 1), term : BOOLEAN, genuine : BOOLEAN]

Following(n) == (n + 1) % Numbers

NoCall == [op |-> "none", len |-> 0]
Calls == [op : {"read", "read_to"}, len : 0..MaxLen]

NoAnswer == [call |-> "none", result |-> "none", data |-> <<>>, count |-> 0]

Answer(call, result, data, count) ==
    answer' = [call |-> call, result |-> result, data |-> data, count |-> count]

Init ==
    /\ connected \in BOOLEAN
    /\ fifo = <<>>
    /\ next = 0
    /\ room = TxDepth
    /\ state = "Unknown"
    /\ ddr = "in"
    /\ cpu = "none"
    /\ moved = FALSE
    /\ reader = NoCall
    /\ got = <<>>
    /\ writer = 0
    /\ sent = 0
    /\ accepted = 0
    /\ answer = NoAnswer
    /\ replugged = FALSE
    /\ owed = 0

-----------------------------------------------------------------------------
(* The host, the bridge and the cable.                                     *)

HostSends(term) ==
    /\ connected
    /\ Len(fifo) < RxDepth
    /\ fifo' = Append(fifo, [number |-> next, term |-> term, genuine |-> TRUE])
    /\ next' = Following(next)
    /\ UNCHANGED <<connected, room, busVars, cpu, moved, readVars, writeVars,
                   answer>>

HostReceives ==
    /\ connected
    /\ room < TxDepth
    /\ room' = room + 1
    /\ UNCHANGED <<connected, fifo, next, busVars, cpu, moved, readVars,
                   writeVars, answer>>

\* A hand moves the cable at most once in the microseconds of a poll.
MoveCable ==
    /\ ~moved
    /\ connected' = ~connected
    /\ moved' = (cpu # "none")
    /\ fifo' = <<>>
    /\ room' = TxDepth
    /\ replugged' = (reader # NoCall)
    /\ owed' = next
    /\ UNCHANGED <<next, busVars, cpu, reader, got, writeVars, answer>>

\* What can_read and can_write may find.
CanRead(low) == connected /\ low => fifo # <<>>
CanWrite(low) == connected /\ low => room > 0

-----------------------------------------------------------------------------
(* The strobes.                                                            *)

\* Mutant: the direction is only set the first time.
TurnBusOnce(direction, pins) ==
    IF state = "Unknown" THEN state' = direction /\ ddr' = pins
                         ELSE UNCHANGED busVars

\* The direction is changed only if the cache says it has to be.
TurnBus(direction, pins) ==
    IF state # direction THEN state' = direction /\ ddr' = pins
                         ELSE UNCHANGED busVars

\* What read_byte finds on the bus: the FIFO's first byte, or noise if there
\* is none or no bridge.
OnBus(byte) ==
    IF connected /\ fifo # <<>>
    THEN byte = Head(fifo) /\ fifo' = Tail(fifo)
    ELSE /\ \E term \in BOOLEAN :
               byte = [number |-> 0, term |-> term, genuine |-> FALSE]
         /\ UNCHANGED fifo

\* The bridge takes a byte only if it has room for it.
Strobe ==
    IF connected /\ room > 0
    THEN room' = room - 1 /\ accepted' = accepted + 1
    ELSE UNCHANGED <<room, accepted>>

-----------------------------------------------------------------------------
(* The reader: read, and read_to with the try_read_to it repeats.          *)

\* The call ends with got' in its buffer.
ReadReturns(result) ==
    /\ cpu' = "none"
    /\ moved' = FALSE
    /\ Answer(reader.op, result, got', Len(got'))
    /\ reader' = NoCall
    /\ owed' = IF got' # <<>> /\ got'[Len(got')].genuine
               THEN Following(got'[Len(got')].number) ELSE owed

ReadGoesOn(look) ==
    /\ cpu' = look
    /\ UNCHANGED <<moved, reader, answer, owed>>

\* A slice without room is refused at once.
StartRead(call) ==
    /\ cpu = "none"
    /\ reader = NoCall
    /\ got' = <<>>
    /\ IF call.len = 0
       THEN /\ Answer(call.op, "refused", <<>>, 0)
            /\ UNCHANGED <<reader, replugged>>
       ELSE /\ reader' = call
            /\ replugged' = FALSE
            /\ answer' = NoAnswer
    /\ UNCHANGED <<usbVars, busVars, cpu, moved, owed, writeVars>>

\* Ft240xCanRead::poll, first look.
PollReadSense ==
    /\ cpu = "none"
    /\ reader # NoCall
    /\ UNCHANGED got
    /\ IF connected THEN ReadGoesOn("read_poll") ELSE ReadReturns("NotConnected")
    /\ UNCHANGED <<usbVars, busVars, replugged, writeVars>>

\* Second look: go on, or be pending.
PollReadReady ==
    /\ cpu = "read_poll"
    /\ \E low \in BOOLEAN :
          /\ CanRead(low)
          /\ cpu' = IF low THEN "read_enter" ELSE "none"
          /\ moved' = (low /\ moved)
    /\ UNCHANGED <<usbVars, busVars, readVars, writeVars, answer>>

\* The critical section that reads starts by looking at SENSE again.
EnterRead ==
    /\ cpu = "read_enter"
    /\ UNCHANGED got
    /\ IF connected THEN ReadGoesOn("read_byte") ELSE ReadReturns("NotConnected")
    /\ UNCHANGED <<usbVars, busVars, replugged, writeVars>>

\* Mutant: the buffer is not looked at.
AfterByteUnbounded(byte) ==
    IF reader.op = "read_to" /\ byte.term
    THEN ReadReturns("Ok")
    ELSE ReadGoesOn("read_sense")

\* Mutant: read too fails with a full buffer.
AfterByteFull(byte) ==
    IF reader.op = "read_to" /\ byte.term
    THEN ReadReturns("Ok")
    ELSE IF Len(got') = reader.len
    THEN ReadReturns("NotConnected")
    ELSE ReadGoesOn("read_sense")

\* read_to looks at the byte and at its buffer first; a full buffer is
\* reported as NotConnected.
AfterByte(byte) ==
    IF reader.op = "read_to" /\ byte.term
    THEN ReadReturns("Ok")
    ELSE IF reader.op = "read_to" /\ Len(got') = reader.len
    THEN ReadReturns("NotConnected")
    ELSE ReadGoesOn("read_sense")

read_byte ==
    /\ cpu = "read_byte"
    /\ TurnBus("Input", "in")
    /\ \E byte \in Byte :
          /\ OnBus(byte)
          /\ got' = Append(got, byte)
          /\ AfterByte(byte)
    /\ UNCHANGED <<connected, next, room, replugged, writeVars>>

\* Mutant: SENSE is not looked at after a byte.
ReadSenseNot ==
    /\ cpu = "read_sense"
    /\ cpu' = "read_more"
    /\ UNCHANGED <<usbVars, busVars, moved, readVars, writeVars, answer>>

ReadSense ==
    /\ cpu = "read_sense"
    /\ UNCHANGED got
    /\ IF connected THEN ReadGoesOn("read_more") ELSE ReadReturns("NotConnected")
    /\ UNCHANGED <<usbVars, busVars, replugged, writeVars>>

\* Mutant: read_to starts its buffer anew when it goes back to awaiting.
ReadMoreAnew ==
    /\ cpu = "read_more"
    /\ \E low \in BOOLEAN :
          /\ CanRead(low)
          /\ \/ /\ low /\ (reader.op = "read" => Len(got) < reader.len)
                /\ UNCHANGED got
                /\ ReadGoesOn("read_byte")
             \/ /\ reader.op = "read" /\ (low => Len(got) = reader.len)
                /\ UNCHANGED got
                /\ ReadReturns("Ok")
             \/ /\ reader.op = "read_to" /\ ~low
                /\ cpu' = "none"
                /\ moved' = FALSE
                /\ got' = <<>>
                /\ UNCHANGED <<reader, answer, owed>>
    /\ UNCHANGED <<usbVars, busVars, replugged, writeVars>>

\* A read ends when its slice is full or there is no more; read_to then goes
\* back to awaiting.
ReadMore ==
    /\ cpu = "read_more"
    /\ UNCHANGED got
    /\ \E low \in BOOLEAN :
          /\ CanRead(low)
          /\ \/ /\ low /\ (reader.op = "read" => Len(got) < reader.len)
                /\ ReadGoesOn("read_byte")
             \/ /\ reader.op = "read" /\ (low => Len(got) = reader.len)
                /\ ReadReturns("Ok")
             \/ /\ reader.op = "read_to" /\ ~low
                /\ cpu' = "none"
                /\ moved' = FALSE
                /\ UNCHANGED <<reader, answer, owed>>
    /\ UNCHANGED <<usbVars, busVars, replugged, writeVars>>

-----------------------------------------------------------------------------
(* The writer.                                                             *)

WriteReturns(result, count) ==
    /\ cpu' = "none"
    /\ moved' = FALSE
    /\ Answer("write", result, <<>>, count)
    /\ writer' = 0

StartWrite(len) ==
    /\ cpu = "none"
    /\ writer = 0
    /\ sent' = 0
    /\ accepted' = 0
    /\ IF len = 0
       THEN /\ Answer("write", "refused", <<>>, 0)
            /\ UNCHANGED writer
       ELSE writer' = len /\ answer' = NoAnswer
    /\ UNCHANGED <<usbVars, busVars, cpu, moved, readVars>>

\* Ft240xCanWrite::poll.
PollWriteSense ==
    /\ cpu = "none"
    /\ writer > 0
    /\ IF connected
       THEN cpu' = "write_poll" /\ UNCHANGED <<moved, writer, answer>>
       ELSE WriteReturns("NotConnected", 0)
    /\ UNCHANGED <<usbVars, busVars, readVars, sent, accepted>>

PollWriteReady ==
    /\ cpu = "write_poll"
    /\ \E low \in BOOLEAN :
          /\ CanWrite(low)
          /\ cpu' = IF low THEN "write_byte" ELSE "none"
          /\ moved' = (low /\ moved)
    /\ UNCHANGED <<usbVars, busVars, readVars, writeVars, answer>>

write_byte ==
    /\ cpu = "write_byte"
    /\ TurnBus("Output", "out")
    /\ Strobe
    /\ sent' = sent + 1
    /\ cpu' = "write_more"
    /\ UNCHANGED <<connected, fifo, next, moved, readVars, writer, answer>>

\* Mutant: TXE is not looked at before the next byte.
WriteMoreBlind ==
    /\ cpu = "write_more"
    /\ IF sent < writer
       THEN cpu' = "write_sense" /\ UNCHANGED <<moved, writer, answer>>
       ELSE WriteReturns("Ok", sent)
    /\ UNCHANGED <<usbVars, busVars, readVars, sent, accepted>>

\* The done condition is evaluated from left to right.
WriteMore ==
    /\ cpu = "write_more"
    /\ \E low \in BOOLEAN :
          /\ CanWrite(low)
          /\ IF sent < writer /\ low
             THEN cpu' = "write_sense" /\ UNCHANGED <<moved, writer, answer>>
             ELSE WriteReturns("Ok", sent)
    /\ UNCHANGED <<usbVars, busVars, readVars, sent, accepted>>

WriteSense ==
    /\ cpu = "write_sense"
    /\ IF connected
       THEN cpu' = "write_byte" /\ UNCHANGED <<moved, writer, answer>>
       ELSE WriteReturns("Ok", sent)
    /\ UNCHANGED <<usbVars, busVars, readVars, sent, accepted>>

-----------------------------------------------------------------------------

Next ==
    \/ \E term \in BOOLEAN : HostSends(term)
    \/ HostReceives
    \/ MoveCable
    \/ \E call \in Calls : StartRead(call)
    \/ PollReadSense \/ PollReadReady \/ EnterRead
    \/ read_byte \/ ReadSense \/ ReadMore
    \/ \E len \in 0..MaxLen : StartWrite(len)
    \/ PollWriteSense \/ PollWriteReady
    \/ write_byte \/ WriteMore \/ WriteSense

Spec == Init /\ [][Next]_vars

-----------------------------------------------------------------------------
(* Properties.                                                             *)

\* Every variable keeps its type; no call stores or counts more bytes than its
\* slice has, although each of its loops only looks after a byte was moved.
TypeOK ==
    /\ connected \in BOOLEAN
    /\ fifo \in Seq(Byte) /\ Len(fifo) <= RxDepth
    /\ next \in 0..(Numbers - 1)
    /\ room \in 0..TxDepth
    /\ state \in {"Unknown", "Input", "Output"}
    /\ ddr \in {"in", "out"}
    /\ cpu \in {"none", "read_poll", "read_enter", "read_byte", "read_sense",
                "read_more", "write_poll", "write_byte", "write_more",
                "write_sense"}
    /\ moved \in BOOLEAN
    /\ reader \in Calls \cup {NoCall}
    /\ got \in Seq(Byte)
    /\ reader # NoCall => Len(got) <= reader.len
    /\ writer \in 0..MaxLen
    /\ sent \in 0..MaxLen
    /\ writer > 0 => sent <= writer
    /\ accepted \in 0..sent
    /\ replugged \in BOOLEAN
    /\ owed \in 0..(Numbers - 1)

\* Reads and writes share the bus: whoever used it last, the port is an input
\* when the bridge drives it and an output when the bridge samples it.
BusTurned ==
    [][/\ read_byte => ddr' = "in"
       /\ write_byte => ddr' = "out"]_vars

ReadDone == reader # NoCall /\ reader' = NoCall /\ answer'.result = "Ok"

\* What a successful read returns came from the host, but for the last byte of
\* a read_to, which is not followed by a look at SENSE; and while the cable
\* stays in, calls return the host's stream: nothing missing, nothing twice,
\* from the byte where the last call stopped, however it ended.
StreamKept ==
    [][ReadDone =>
         LET data == answer'.data
             trusted == IF reader.op = "read" THEN Len(data) ELSE Len(data) - 1
         IN  /\ data # <<>>
             /\ \A i \in 1..trusted : data[i].genuine
             /\ ~replugged =>
                   /\ data[1].number = owed
                   /\ \A i \in 1..(Len(data) - 1) :
                         data[i + 1].number = Following(data[i].number)]_vars

ReadFailed ==
    reader # NoCall /\ reader' = NoCall /\ answer'.result = "NotConnected"

\* A read that fails forgets what it took off the FIFO.  That happens to it
\* only if the cable moved while it ran, or if it is a read_to whose buffer
\* filled up without a terminator: without a hand at the cable a read never
\* loses a byte, whatever the bridge's lines do between its looks.
LostOnlyUnplugged ==
    [][ReadFailed /\ answer'.data # <<>> =>
         \/ replugged
         \/ reader.op = "read_to" /\ Len(answer'.data) = reader.len]_vars

WriteDone == writer > 0 /\ writer' = 0 /\ answer'.result = "Ok"

\* The count a write returns is what the bridge took, and at most one too many
\* when the cable was pulled meanwhile: TXE and SENSE are looked at before
\* every byte after the first, by the write itself, not by its await.
WriteCounted ==
    [][WriteDone =>
         /\ answer'.count \in accepted..(accepted + 1)
         /\ ~moved => answer'.count = accepted]_vars

\* The reader's call as its caller sees the buffer.
Reads == INSTANCE SliceRead WITH
    OnlyFull <- FALSE,
    space <- reader.len,
    held <- got,
    ok <- reader = NoCall /\ answer.call \in {"read", "read_to"} /\ answer.result = "Ok"

\* However often a call is pending and wherever the cable moves, it fills its
\* buffer from the front, in place, and succeeds only with a byte; a write
\* meanwhile leaves the buffer alone.
FillsSlice == Reads!Spec
=============================================================================

# Verification of the avr-test firmware

TLA+ models, TLC checks and TLAPS proofs for the firmware under `src/`: an
AT90CAN128 that runs two cooperative tasks between an FT240X USB bridge and a
UART (an XPico/MatchPort network module). The concurrency is that of one CPU:
two `async` tasks polled by a loop, interrupt handlers, and hardware lines that
move at any time.

## 1. Inventory

| Part (under `src/src/`) | State | Operations | Who interacts with it | What makes it correct |
|---|---|---|---|---|
| `const_circular_buffer.rs` | `r_pos`, `w_pos`, `len`, storage | reset, read_byte, read, read_to, write_byte, write_all, write | UART interrupt and UART reader, always with interrupts off | behaves as a bounded queue; the positions never drift |
| `executor.rs` | `SIGNAL` | run, `Join::poll`, wake | every waker of every driver sets the one flag | no wake-up is lost; every task gets its turn |
| `timer.rs` | `TICK_COUNT`, `TIMER_WAKER`, the target of a delay | delay, poll, `TIMER1_COMPA` | task a awaits it once, before its loop | a delay is not early, ends, and survives the wrap of the counter |
| `avr_uart.rs`, reader | receive ring, CTS, waker | `USART1_RX`, try_read_to, read_to, read | interrupt fills, task b reads, the peer heeds CTS | no byte refused, CTS with hysteresis, answers are runs of the line |
| `avr_uart.rs`, writer | UDR; ring, `tx_idle`, waker of the buffered path | write, flush, `USART1_UDRE` | task a writes; nothing puts a byte into the ring | the write ends; meanwhile nothing else runs |
| `buffer_pool.rs`, `buffer_handle.rs` | ring of free indices, count, mask; handles | try_alloc, try_dealloc, poll, drop, conversions | both tasks ask for two buffers each | a buffer has one holder; the four bookkeeping fields agree |
| `ft240x.rs` | bus direction cache, two wakers, EIMSK and EIFR bits | polls of CanRead and CanWrite, read, read_to, write, flush, INT5, INT6 | task a reads, task b writes, over one bus | direction right, bytes genuine and in order, counts right, no lost edge |
| `main.rs` | the two tasks and their buffers | usart1_reader_task (b), ft240_reader_task (a) | all of the above | what leaves is what was read, of this round and this task, whole or not at all |
| `flat_buffer.rs` | positions and length of a linear buffer | as the ring, without wrap; as_ref, as_mut | tx buffers of both tasks | a bounded queue; never leaves its memory; panics only where it must |
| `circular_buffer.rs` | two pointers over a pool buffer, no length | reset, read_byte, write_byte, write | nobody | a bounded queue of one byte less; never leaves its memory |
| `async_queue.rs` | ring of items, one waker | push, pop, try_push, try_pop | nobody | bounded queue with waiting |
| `wait_pin_state.rs` | none | poll | nobody | would have to register a waker |
| `led.rs`, `hal.rs` | pins | | tasks | |
| `allocator.rs`, `driver.rs`, `usb_ft240.rs` | | | not part of the crate: no `mod` line, or commented out | |

What is hard to test here, with the line where it bites, is the list "hazards"
of `PROJECT.json`. In short: a check of a hardware line and its arming with the
line moving in between; the gap between the end of a poll and the sleep; an
interrupt between two critical sections; a cable pulled in the middle of a
transfer; wrap-around of the ring, the tick counter and the pool's positions;
flow control that has to stop the peer in time and start it again; writes so
long that the receiver overruns meanwhile; arithmetic that wraps in one build
profile and panics in another;
slices that outlive the handle of their buffer; positions and lengths that part
after long sequences of calls; results that callers ignore.

## 2. Modules

| Module | Models | Extends or instantiates |
|---|---|---|
| `ByteFifo` | abstract: what a byte buffer promises | |
| `ConstCircularBuffer` | `const_circular_buffer.rs` | `Fifo == INSTANCE ByteFifo WITH queue <- Contents` |
| `Executor` | `executor.rs`, the futures the tasks await, all interrupts as wake-up sources | |
| `SliceRead` | abstract: what a read into a slice promises its task | |
| `AvrUart` | `avr_uart.rs` with its peer, the ring as a sequence | `Reads == INSTANCE SliceRead` |
| `BufferPool` | `buffer_pool.rs`, `Drop` and conversions of `buffer_handle.rs` | |
| `BoundedBuffer` | abstract: what a buffer over pool memory promises, a panic included | |
| `FlatBuffer` | `flat_buffer.rs` | |
| `CircularBuffer` | `circular_buffer.rs` | |
| `HandleBuffer` | the two conversions of a handle into a buffer | `FlatBuffer`, `CircularBuffer`; `Buffer == INSTANCE BoundedBuffer WITH queue <- Contents, stopped <- panicked` |
| `Firmware` | the bodies of both tasks in `main.rs` | `Pool == INSTANCE BufferPool WITH Holder <- Task`; `UsbRead`, `UartRead == INSTANCE SliceRead` |
| `Timer` | `timer.rs` | |
| `Ft240x` | `ft240x.rs` at the level of single looks and strobes | `Reads == INSTANCE SliceRead` |
| `MC...` and `*.cfg` | instances for TLC | |
| `...Proofs` | theorems about `ConstCircularBuffer`, `Executor`, `AvrUart`, `BufferPool`, `HandleBuffer`, `Timer`, `Ft240x`, `Firmware` | `FirmwareProofs`: `Ring == INSTANCE BufferPoolProofs WITH Holder <- Task` |

The abstract modules `ByteFifo`, `BoundedBuffer` and `SliceRead` are
specifications and translate no lines; what ties them to the code is that the
modules of the code implement them.

How state and actions correspond to the code:

* **ConstCircularBuffer.** One action per method with the method's name. All
  methods run in critical sections or handlers, so a call is one step.
  `FirstCopy` is the length of the first of the two block copies, `CopyOut` and
  `CopyIn` say what both leave in the destination or the storage, `FirstHalf`
  and `SecondHalf` are the two slices `read_to` searches. `result` is the value
  the call returned together with the bytes it copied out; `call` is what it was
  asked for, in the ring and in `ByteFifo` alike, so that the abstract queue has
  to answer the same call with the same bytes. `reset` leaves the storage alone,
  as the code does.
* **Executor.** `signal` is `SIGNAL`; `mode` and `turn` say where `run` and
  `Join::poll` are; `step[t]` is the await at which task t's state machine
  stands. A poll of the task runs on from one ready future to the next
  (`PollReady`) and stops at a pending one (`PollPending`, or `PollCheck` and
  `PollArm`, since a pin can fall and a tick can come between these two).
  Interrupts cannot run inside a critical section (`InterruptsOn`), the lines of
  the FT240X can move there. `due` is the state of the source: line low, buffer
  not empty, delay over. `Sleep` halts or falls through: the code never sets the
  sleep enable bit, so whether the instruction halts depends on what ran before
  reset, and the model allows both.
* **AvrUart.** `hw` is what the USART holds, `rx` the ring. `Arrive` and
  `Overrun` are the receiver, `USART1_RX` the handler as a whole: the store, CTS
  and the waker. `op` is the call under way. `Start`, `ReadNoRoom`,
  `ReadPending` and `try_read_to` are `read_to` with the calls it repeats;
  `read` is the `Read` trait's method, which takes what there is. `Take` is what
  the critical section of either does besides. `StartWrite` and `SendByte` are
  the blocking write, during which no interrupt is served. `length` is the
  length of the slice being written. A write starts only between two polls of
  the reader (the other task cannot interrupt one), and with at most one byte
  waiting in the USART: the receive interrupt was enabled until then, and it is
  faster than the line. A byte is its place
  in its line and whether it is the terminator; `handed` is the place after the
  bytes that calls before the last one returned, so that `StreamIntact` can say
  that answers, slice, ring and USART continue one another.
* **SliceRead.** `space` is the length of the slice of the read under way, `held`
  the bytes at its front, `ok` whether the last read returned bytes. It is what a
  task counts on when it takes `rx_buffer[..len]` after the await: bytes come
  behind those already there, and none of them changes before the next read. For
  the UART (`OnlyFull`) an error comes only with a full slice; the USB read may
  fail with a part of it filled, when the cable is pulled. `AvrUart` and `Ft240x`
  implement it with the slice of their read, `Firmware` with the bytes that
  stand in the shared memory, once for each task.
* **BufferPool.** The fields of the allocator by their names. `count` is modelled
  as in a release build, where `count -= 1` on an empty pool wraps to 255; with
  overflow checks it would panic there. `TypeOK` (count between 0 and the number
  of buffers) shows that neither happens with enough buffers. `from` is the
  conversion of a handle: it drops the handle at its end, while the slice,
  listed in `slices`, lives on for ever, as the tasks' slices do.
* **FlatBuffer, CircularBuffer, HandleBuffer.** One action per method with the
  method's name, over storage that both keep in `buf`. A `FlatBuffer` counts
  its room from `len` but writes at `w_pos`, and the two part with the first
  `read_byte`: `Accept` is then a slice index out of bounds, `panic` the handler
  that never returns. `as_mut` lends the storage behind `w_pos`, which a caller
  may fill, but the length does not follow. Pointers of a `CircularBuffer` are
  offsets from `start_ptr`; `Landed` is where the write pointer stands after one
  or two copies. `kind` says which of the two the handle became. In
  `BoundedBuffer` a call either is the operation on the queue or stops the
  firmware; when it may stop is said by `PanicsOnlyAfterRead`.
* **Firmware.** `stage[t]` is where a task stands, `running` whom `Join` polls:
  it changes only where an await is pending (`Pending`). `mem` is the memory of
  the pool, shared by all; `AskBuffer`, `IntoSlice` and `IntoFlatBuffer` are the
  actions of `BufferPool` as the tasks use them, so that both buffers of a task
  are free in the pool while it works with them. `Receive` is what the drivers
  put into `rx_buffer`, `Report` the sequence of calls on `tx_buffer` with its
  pieces, `write_all` accepts or refuses each, `Write` gives any part of it to
  the USB bridge or all to the UART. A byte is its source, the parity of its
  round and its place, or text. `read_to` never returns `Partial` or
  `BufferFull` (shown by `AvrUart`), so those arms of the report are dead.
  `StartRound` resets the positions of `tx_buffer` and leaves the bytes of the
  last report in the memory, as `reset` does.
* **Timer.** `state` is where the future is; `Check` and `Register` are the two
  critical sections of `poll`. `TIMER1_COMPA`
  counts with `counter + 1`, modelled as in a build without overflow checks (the
  release profile of `Cargo.toml`), where it wraps. A build with them, such as a
  dev build, panics at the first rollover, about a minute after the start.
* **Ft240x.** `cpu` is the look at a pin or the strobe that comes next. Each is
  a step, since the cable may move between any two. `TurnBus` is the first half of
  `read_byte` and `write_byte`. `reader` and `writer` are the calls in progress;
  a `read_to` that goes back to awaiting lets the writer have the bus meanwhile.

## 3. Runs

| Run | Bounds | Distinct states | Shows |
|---|---|---|---|
| `ring` | capacity 3, two byte values, slices up to 4 | 5 265 | the ring implements `ByteFifo`; positions agree |
| `executor` | the two tasks of `main`, all their sources | 32 710 | queues and pins stay armed, a wake-up before the sleep is served, bytes reach their task |
| `lost_edge` | the same | | violated: an edge in the arming window is lost |
| `join_starves` | the same | | violated: the second task need not run |
| `uart` | capacity 12, slice 2, USART 2 bytes, peer lag 1, lines of 1 and 3, writes of up to 3 | 686 064 | flow control, no refusal, reader wake-up, the stream in one piece over any calls, lines cut at terminators only; the receiver overruns only during a write of 2 bytes or more; reads implement `SliceRead`; a stopped peer starts again while the reader is polled and goes on reading |
| `long_line` | capacity 8, slice 2, USART 1 byte, peer lag 1, lines of up to 3, writes of up to 2 | | violated: a filled slice is an error, not `BufferFull` |
| `pool` | 4 buffers, 4 holders | 962 227 | bookkeeping agrees, handles exclusive, first round distinct |
| `pool_exhausted` | 2 buffers, 3 holders | | violated: an empty pool hands out a buffer in use |
| `timer` | counter modulo 16, delays up to 8 | 20 384 | delays are exact and end |
| `handle_buffer` | capacity 3, two byte values, slices up to 4 | 13 028 | both buffers implement `BoundedBuffer`; when a panic is possible |
| `firmware` | 4 buffers of 4 bytes, texts of 1 and 2 | 1 695 535 | reports hold the task's own bytes of this round, whole or not at all; of what reads return only too long a line is left out; the tasks' slices keep what `SliceRead` promises |
| `ft240x` | FIFOs of 2, slices up to 3, byte numbers modulo 3 | 976 833 | bus direction, stream, counts; bytes are lost only to the cable; reads implement `SliceRead` |

Why these bounds are enough to meet the cases: the ring of 3 with slices of 4
has every split point of the two copies and of the search, full and empty, and
requests larger than the ring. The UART's ring of 12 has thresholds 3 and 6,
so both are crossed many times. A line of 3 over a slice of 2 is longer than the
slice, one of 1 is empty, and a rest of 2, left when a call took one byte of a
line, fills the slice exactly. Writes are shorter than, as long as and longer
than what the USART holds. Four holders of four buffers reach the empty pool
and every order of releases. The buffers of 3 with slices of 4 have every split
of the two copies, full and empty, and reads that leave a `FlatBuffer` with room
but no place to write; a buffer that panicked stops, so this run does not check
for deadlock. In `firmware` the four buffers are all the pool has, so that a
fifth request, or an order of the free ring other than the code's, would meet a
buffer in use; 4 bytes hold a line of 3 with its terminator, which with a prefix
of 2 is too long for the report, one of 2 that fits exactly with the rest of the
text refused, and shorter ones. Parity is enough for rounds, since any report may
follow any other. The timer starts at every value of the counter and
has room for delays that cross the wrap and for the longest the comparison can
tell. The FT240X's FIFOs become empty and full within one call, and numbers
modulo 3 tell a missing byte or two, or a doubled one, from the right one.

The named bounds on what the environment does: `PeerLag` and `HwDepth` (what the
peer still sends after CTS, what the USART holds; the assumption is that both fit
into a quarter of the ring, 16 bytes in the firmware); `MaxLate` (ticks while a
poll is under way or called for; it must stay below half the counter's range,
32 s in the firmware); one movement of the cable per poll (`MoveCable`; a poll
takes microseconds). `requests` in `BufferPool`, `elapsed` in `Timer` are
histories and are capped where the properties stop looking.

### Fairness

* `Executor`: the CPU runs (`MainLoop`), an interrupt whose flag and mask are set
  is served, ticks come for ever and one of them ends the delay. Nothing is
  assumed about bytes, lines or the cable. The liveness properties are stated
  under `RoundsEnd`, every poll of the tasks ends, because the code does not
  guarantee it: `join_starves` shows that.
* `AvrUart`: a write ends (each byte needs one UDR cycle), a poll of the reader
  that has begun goes on (nothing of it waits), and the receive interrupt is
  served if it is enabled again and again (strong fairness: writes disable it
  for a while each time, and the USART remembers). Nothing is assumed about when
  the executor polls the reader or when its task reads again: `Join` may never
  get to it (`join_starves`), and after each line the task awaits a USB write
  that may pend for good (`main.rs:142`). `CtsReopens` is therefore stated under
  `RoundsEnd` (a signalled reader is polled) and `ReadsGoOn` (an idle one reads
  again), as the executor's properties are under theirs: with a reader that
  stays away the peer stays stopped, which is what flow control is for.
* `Timer`: ticks come, the future is polled when signalled.

### Where the code and its comments part

* `lost_edge`: `ft240x.rs:318-322` says that checking and registering free of
  interrupts keeps the task from never being woken. The line does not wait for
  the critical section: if it falls after the check, `rxf_int_enable` clears the
  latched edge, and no further edge comes while the line stays low.
  `MissedOnlyWhileArming` shows that this is the only way to lose one.
* `join_starves`: `executor.rs:21-22` wants both tasks to run without task a
  blocking. With no USB host, `read` fails at once, the UART refuses the empty
  slice at once, and task a's poll never ends.
* `long_line`: a filled slice should be `ReadStatus::BufferFull`
  (`buffer_handle.rs:13`); it is `ReadError::DestinationEmpty`.
* `pool_exhausted`: an empty pool should make the request wait
  (`notes.txt:30`, the pending branch of `poll`); the test is commented out.

One more disagreement has no run of its own: after a `read_byte` of a full
`FlatBuffer` its free space is one byte, but the write position stands at the
end of the storage, and the write that this room admits panics
(`flat_buffer.rs:79`, `:117`). The run `handle_buffer` reaches that panic;
`PanicsOnlyAfterRead` says when it can happen at all, and the tasks never read
their `FlatBuffer`s byte by byte.

## 4. Proofs

All by TLAPS, for every value of the constants that meets the modules'
assumptions.

* **ConstCircularBufferProofs.** `Inv == TypeOK /\ PositionsAgree` is inductive:
  each is needed for the other, since a position is only known to stay inside
  the storage when the length is, and the length only when reads deliver at most
  what is there. `RingTyped` and
  `RingInvariant` state it. `RingImplementsFifo` proves the
  refinement: the lemmas show that `CopyOut` returns the first bytes of
  `Contents`, that `CopyIn` appends to it, that the split search finds the first
  terminator of the whole; then every step maps to a step of `ByteFifo`.
* **ExecutorProofs.** `ExecutorTyped`, then `NoLostWakeup`, `PinsArmed` and
  `OnlyArmingMisses` for
  any number of tasks with any scripts. The invariant says for each task that
  waits on a source: it is going to be polled (`signal`, or its turn is still to
  come in this round), or the source holds the waker (and, for a pin, the mask
  is set). What makes it inductive is that an interrupt that takes a waker sets
  `signal` in the same step, and that a task leaves "to be polled" only by
  registering.
* **AvrUartProofs.** The strengthening: what the USART holds, and what the peer
  may still send, fit into the ring as long as CTS is high, and CTS is high when
  less than a quarter is free. From `HwDepth + PeerLag <= DEASSERT_THRESHOLD`
  follow `UartTyped`, `RingNeverRefuses`, `CtsFollowsRing` and
  `ReaderNotForgotten`.
  For the stream of bytes, `NothingLostInBetween` and `CompleteIsOneLine`, two
  more facts come on top: nothing is kept in the slice between calls, and a
  call under way has not answered. The lemmas about chains (a chain grows at its
  end, loses its front, is cut in two) then carry `StreamIntact` through every
  arrival, interrupt and read; that the interrupt's byte is never refused is
  taken from the invariant, so the two properties depend on flow control.
  `ShortWritesKeepAll` adds `Incoming` (a write begins with at most one byte
  waiting, and at most one more comes in the time of each byte it sends) and
  `Quiet` (the time slots of the line are those of a write): the USART is full
  before a write ends only if the write is as long as what it holds.
  `CallsFillSlice` is the refinement of `SliceRead`: an idle handle keeps nothing
  in a slice, every piece a call takes fits into what is left of it, and the one
  error a call with a slice can end in is the one for a full slice.
* **BufferPoolProofs.** For every pool of up to eight buffers (the width of the
  mask) and, as an assumption of the theorems, no more holders than buffers.
  `RingIsFreeList` and `HandlesExclusive` support each other: the next index of
  the ring is nobody's only if the ring lists the free ones, and the free ones
  are known only if the mask marks just the handles. The strengthening
  `CountIsFree` (the count is the number of unmarked indices) gives both bounds:
  a holder without a buffer means a free one, a marked buffer means that the
  pool is not full; with it `PoolTyped` says that the count never goes below zero.
  For `FirstRoundDistinct`, `FirstRound` says that until every
  buffer was handed out once the ring still holds the higher numbers untouched.
* **HandleBufferProofs.** `BuffersStayInMemory`, `PanicOnlyAfterRead` and the
  refinement `BuffersImplementQueue`, for every capacity and any slices. For the
  flat buffer the invariant `r_pos + len = w_pos` (`WindowKept`) is what makes
  the free space and the slice index agree before the first read. For the circular one
  `CircularGrows` is the heart: bytes put into the slots behind the write
  pointer, as far as they are free, append to the queue and overwrite nothing;
  `CircularCopies` shows that the two block copies do just that.
* **TimerProofs.** `TickLaw`: counter plus delay equals target plus elapsed
  ticks, up to one modulus. `Lateness`: the tick that finds nobody polling is the
  one that signals. With `MaxLate + 2 <= Half` this bounds the distance between
  counter and target by half the range, so the wrapping comparison is exact
  (`TimerExact`) and the wake-up in place (`TimerTyped`, `TimerInvariant`).
* **Ft240xProofs.** `BridgeTyped`, `PortTurned`, `HostStreamKept`,
  `LossNeedsUnplug` and `CountIsTaken`, for FIFOs, slices and byte numbers of any size. The invariant:
  the cached direction is the port's (`BusAgrees`); a poll starts with the cable
  in and sees it move once, and a reader's call knows of it (`OneMove`); with
  the cable in, what a look at a pin has promised is there for the strobe that
  follows, because only this CPU takes from the FIFO (`StrobeServed`); the count
  of a write is what the bridge took unless the cable was pulled
  (`CountAgrees`). For the stream (`ReadInv`): the FIFO is a run that ends at
  the host's next number, what the slice holds ends where the FIFO begins
  (`Continuous`), and only its last byte, and only before the look at SENSE that
  follows it, may come from no host (`OnlyLastIsNoise`). `Continuous` also gives
  `LossNeedsUnplug`: unless the cable moved, a call with bytes in its slice finds
  the host connected. `CallsFillSlice` is the
  refinement of `SliceRead`: a call under way always has room for the byte it
  fetches next, and the writer, which has the bus in between, leaves the slice
  alone.
* **FirmwareProofs.** `TasksUsePool`: every step of the tasks is one of
  `BufferPool` or leaves the pool alone, so that its theorems hold here.
  `Stations` ties the number of requests to where the two tasks stand: four at
  most, never more than there are buffers, so `FirstRoundApart` says that a
  handle never holds a buffer that lives on in a slice. That gives
  `BuffersStayApart`, and with it that a step of one task leaves the bytes of
  the other alone (`Frame`). What is left is one task: `Read` (the bytes of the
  present read stand in `rx_buffer`), `Composing` (the report is text until the
  payload is due, then holds all of it or none, and none only if prefix and
  payload exceed the buffer) and `Sent`. `FirmwareTyped`, `OwnBytesReported` and
  `OnlyTooLongOmitted` follow, for pools of four to eight buffers and any length
  of buffers and texts. `ReportsOwnBytes` and `OmittedOnlyIfTooLong` speak of
  places and counts and not of a filtered sequence, since a filter is defined
  by recursion and nothing could be proved of it. `SlicesUndisturbed` says that
  each task's slice goes on as `SliceRead` has it whatever the other task does:
  bytes come behind the front (`FrontStays`), and by `Frame` the other task's
  report never touches them (`OthersKept`).

Only model-checked: all liveness (`WokenIsPolled`, `BytesAreServed`,
`CtsReopens`, `DelayEnds`), since TLAPS has neither fairness proofs of this size
nor `ENABLED`. Every safety property of a passing run has its theorem.
No module that is proved about uses `RECURSIVE` operators, and nothing rests on
induction over data: what other specifications define by recursion (searching a
half, copying a block) is stated here by quantifiers and functions.

## 5. Not modelled

* Register set-up in the `init` functions, LEDs (`led.rs`), pin types
  (`hal.rs`), display texts, `flush` of the FT240X (a pulse without state).
* The buffered transmit path of the UART: the call that would put bytes into its
  ring is commented out and `flush_char_opt` stays `None`, so the ring is always
  empty, `start_tx_if_needed` never enables `USART1_UDRE`, and `flush` and
  `Usart1CanWrite` find nothing to wait for. `Firmware` takes a UART write as
  one that never pends, accordingly.
* `AsyncQueue`: nothing uses it, and `try_push` tests the free space the wrong
  way round, so nothing would ever enter it. There is no behaviour to state
  properties of.
* `WaitPinState`: nothing awaits it, and it registers no waker.
* `allocator.rs`, `driver.rs`, `usb_ft240.rs`: not part of the crate.
* `BufferAllocator::try_pop` and `free_buffers`: called by nothing.

## 6. Plan

Done, in this order: ring and its abstract queue; executor; UART; pool; timer;
FT240X; the buffers over pool memory and their abstract queue; the tasks'
bodies; proofs of all of these; the reads of `Firmware` tied to the drivers by
`SliceRead`.

Left:

1. The writes as a `SliceRead` of their own: an abstract write that takes a
   prefix of its slice, implemented by `Ft240x` (any prefix) and `AvrUart` (all
   of it), so that `Write` in `Firmware` rests on the drivers as the reads do.
2. `UartTx` and `AsyncQueue`, should the firmware come to use them.

------------------------------ MODULE Executor ------------------------------
(***************************************************************************)
(* The cooperative executor of src/src/executor.rs, the futures its tasks  *)
(* wait on, and the interrupts that wake it.  There is one SIGNAL flag     *)
(* and every waker sets it; Join polls its tasks in order.  A task is the  *)
(* sequence of futures it awaits (Script), which starts over at LoopAt.    *)
(* Futures come in four kinds:                                             *)
(*   Pins      ready when a line of the FT240X is low; a falling edge      *)
(*             latches a flag, and the interrupt needs flag and mask       *)
(*             (Ft240xCanRead, Ft240xCanWrite)                             *)
(*   Queues    ready when a buffer that an interrupt fills is not empty    *)
(*             (Usart1CanRead)                                             *)
(*   Timers    ready once enough ticks have come (Timer)                   *)
(*   Instants  ready at every poll of this firmware (BufferRequest, whose  *)
(*             allocation never fails, and Usart1CanWrite, whose buffer    *)
(*             nothing fills)                                              *)
(* A critical section is one step, unless a hardware line can move inside  *)
(* it: the check of a pin and its arming are two steps.                    *)
(***************************************************************************)
EXTENDS Naturals, Sequences

CONSTANTS Pins, Queues, Timers, Instants, N, Script, LoopAt

Future == Pins \cup Queues \cup Timers \cup Instants
Task == 1..N
Source == Pins \cup Queues \cup Timers   \* what keeps a waker

ASSUME ExecutorAssumption ==
    /\ N \in Nat \ {0}
    /\ Pins \cap (Queues \cup Timers \cup Instants) = {}
    /\ Queues \cap (Timers \cup Instants) = {}
    /\ Timers \cap Instants = {}
    /\ Script \in [Task -> Seq(Future)]
    /\ \A t \in Task : LoopAt[t] \in 1..Len(Script[t])

VARIABLES
    signal,     \* SIGNAL
    mode,       \* where run() is: top of the loop, polling, about to sleep, asleep
    turn,       \* the task Join is polling
    arming,     \* that poll has found its future not ready and will register
    step,       \* which future of its script each task awaits
    due,        \* Pins: the line is low.  Queues: not empty.  Timers: expired
    waker,      \* the source holds a waker
    flag,       \* EIFR: an edge was latched
    mask,       \* EIMSK: the pin's interrupt is enabled
    connected,  \* the USB host is there (the sense pin)
    missed      \* history: an edge came between the check and the arming

vars == <<signal, mode, turn, arming, step, due, waker, flag, mask,
          connected, missed>>
pinVars == <<flag, mask, missed>>

Awaited(t) == Script[t][step[t]]

Polling(t) == mode = "poll" /\ turn = t

\* Interrupts are off from the check of a pin to its arming.  The timer is
\* checked and registered in two critical sections.
InterruptsOn == ~(arming /\ Awaited(turn) \in Pins)

Init ==
    /\ signal = TRUE
    /\ mode = "top"
    /\ turn = 1
    /\ arming = FALSE
    /\ step = [t \in Task |-> 1]
    /\ due \in [Source -> BOOLEAN]
    /\ \A s \in Queues \cup Timers : ~due[s]
    /\ waker = [s \in Source |-> FALSE]
    /\ flag = [p \in Pins |-> FALSE]
    /\ mask = [p \in Pins |-> FALSE]
    /\ connected \in BOOLEAN
    /\ missed = [p \in Pins |-> FALSE]

-----------------------------------------------------------------------------
(* The main loop: Executor::run, Join::poll and the polls of the futures.  *)

\* run() swaps SIGNAL with false and polls only if it was set.
Swap ==
    /\ mode = "top"
    /\ signal
    /\ signal' = FALSE
    /\ mode' = "poll"
    /\ turn' = 1
    /\ UNCHANGED <<arming, step, due, waker, pinVars, connected>>

\* Mutant: Join goes on to a task it does not have.
YieldTooFar ==
    IF turn > N THEN mode' = "sleep" /\ UNCHANGED turn
                ELSE turn' = turn + 1 /\ UNCHANGED mode

\* A pending task gives way to the next one; after the last, run() sleeps.
Yield ==
    IF turn = N THEN mode' = "sleep" /\ UNCHANGED turn
                ELSE turn' = turn + 1 /\ UNCHANGED mode

Ready(f) ==
    \/ f \in Instants
    \/ f \in Pins /\ (~connected \/ due[f])
    \/ f \in Queues \cup Timers /\ due[f]

Following(t) == IF step[t] = Len(Script[t]) THEN LoopAt[t] ELSE step[t] + 1

\* What the operation behind a ready future leaves: data or room may remain
\* or not, and a pin may have bounced while bytes were moved.
Consume(f) ==
    IF f \in Instants THEN UNCHANGED <<due, flag, missed>>
    ELSE /\ \E left \in BOOLEAN : due' = [due EXCEPT ![f] = @ /\ left]
         /\ IF f \in Pins
            THEN /\ \E bounced \in BOOLEAN :
                       flag' = [flag EXCEPT ![f] = @ \/ bounced]
                 /\ missed' = [missed EXCEPT ![f] = @ /\ due'[f]]
            ELSE UNCHANGED <<flag, missed>>

\* The future is ready: the task runs on to its next await within the same
\* poll.  A reader that got a partial line awaits the same queue again.
PollReady(t) ==
    LET f == Awaited(t)
    IN  /\ Polling(t)
        /\ ~arming
        /\ Ready(f)
        /\ Consume(f)
        /\ \/ step' = [step EXCEPT ![t] = Following(t)]
           \/ f \in Queues /\ UNCHANGED step
        /\ UNCHANGED <<signal, mode, turn, arming, waker, mask, connected>>

\* Mutant: the future is pending but leaves no waker behind.
PollPendingForgets(t) ==
    /\ Polling(t)
    /\ Awaited(t) \in Queues
    /\ ~Ready(Awaited(t))
    /\ Yield
    /\ UNCHANGED <<signal, waker, arming, step, due, pinVars, connected>>

\* Check and registration in one critical section.
PollPending(t) ==
    /\ Polling(t)
    /\ Awaited(t) \in Queues
    /\ ~Ready(Awaited(t))
    /\ waker' = [waker EXCEPT ![Awaited(t)] = TRUE]
    /\ Yield
    /\ UNCHANGED <<signal, arming, step, due, pinVars, connected>>

\* Mutant: the pin is not looked at before arming.
PollCheckBlind(t) ==
    /\ Polling(t)
    /\ ~arming
    /\ Awaited(t) \in Pins \cup Timers
    /\ arming' = TRUE
    /\ UNCHANGED <<signal, mode, turn, step, due, waker, pinVars, connected>>

\* The check of a pin or of the tick counter says not yet.
PollCheck(t) ==
    /\ Polling(t)
    /\ ~arming
    /\ Awaited(t) \in Pins \cup Timers
    /\ ~Ready(Awaited(t))
    /\ arming' = TRUE
    /\ UNCHANGED <<signal, mode, turn, step, due, waker, pinVars, connected>>

\* Mutant: the latched flag is cleared but the interrupt stays masked.
IntEnableUnmasked(p) ==
    /\ flag' = [flag EXCEPT ![p] = FALSE]
    /\ UNCHANGED <<mask, missed>>

\* rxf_int_enable, txe_int_enable: clear the latched edge, then unmask.
IntEnable(p) ==
    /\ flag' = [flag EXCEPT ![p] = FALSE]
    /\ mask' = [mask EXCEPT ![p] = TRUE]
    /\ UNCHANGED missed

PollArm(t) ==
    LET f == Awaited(t)
    IN  /\ Polling(t)
        /\ arming
        /\ arming' = FALSE
        /\ waker' = [waker EXCEPT ![f] = TRUE]
        /\ IF f \in Pins THEN IntEnable(f) ELSE UNCHANGED pinVars
        /\ Yield
        /\ UNCHANGED <<signal, step, due, connected>>

\* asm::sleep: halts the CPU if sleep is enabled, else falls through.  SIGNAL
\* is not looked at again before it.
Sleep ==
    /\ mode = "sleep"
    /\ mode' \in {"asleep", "top"}
    /\ UNCHANGED <<signal, turn, arming, step, due, waker, pinVars, connected>>

MainLoop ==
    \/ Swap
    \/ \E t \in Task :
          PollReady(t) \/ PollPending(t) \/ PollCheck(t) \/ PollArm(t)
    \/ Sleep

-----------------------------------------------------------------------------
(* Interrupt handlers.  Each takes the waker of its source, if there is    *)
(* one, and wakes it; any of them ends a sleep.                            *)

\* Mutant: the interrupt ends, and the CPU stays halted.
WakeButSleep(s) ==
    /\ signal' = (signal \/ waker[s])
    /\ waker' = [waker EXCEPT ![s] = FALSE]
    /\ UNCHANGED mode

Wake(s) ==
    /\ signal' = (signal \/ waker[s])
    /\ waker' = [waker EXCEPT ![s] = FALSE]
    /\ mode' = IF mode = "asleep" THEN "top" ELSE mode

\* Mutant: the byte is stored and the waker left alone.
UsartRxSilent(q) ==
    /\ InterruptsOn
    /\ due' = [due EXCEPT ![q] = TRUE]
    /\ mode' = IF mode = "asleep" THEN "top" ELSE mode
    /\ UNCHANGED <<signal, waker, turn, arming, step, pinVars, connected>>

\* USART1_RX: a byte joins the queue.
UsartRx(q) ==
    /\ InterruptsOn
    /\ due' = [due EXCEPT ![q] = TRUE]
    /\ Wake(q)
    /\ UNCHANGED <<turn, arming, step, pinVars, connected>>

\* TIMER1_COMPA: one more tick, which may be the one that is waited for.
Tick(c) ==
    /\ InterruptsOn
    /\ \E expires \in BOOLEAN : due' = [due EXCEPT ![c] = @ \/ expires]
    /\ Wake(c)
    /\ UNCHANGED <<turn, arming, step, pinVars, connected>>

\* INT5, INT6: wake, mask the interrupt and clear its flag.
PinInterrupt(p) ==
    /\ InterruptsOn
    /\ flag[p]
    /\ mask[p]
    /\ flag' = [flag EXCEPT ![p] = FALSE]
    /\ mask' = [mask EXCEPT ![p] = FALSE]
    /\ Wake(p)
    /\ UNCHANGED <<turn, arming, step, due, connected, missed>>

-----------------------------------------------------------------------------
(* The hardware outside.                                                   *)

\* A line of the FT240X falls; the edge is latched whatever the mask says.
Fall(p) ==
    /\ ~due[p]
    /\ due' = [due EXCEPT ![p] = TRUE]
    /\ flag' = [flag EXCEPT ![p] = TRUE]
    /\ missed' = [missed EXCEPT
                     ![p] = @ \/ (mode = "poll" /\ arming /\ Awaited(turn) = p)]
    /\ UNCHANGED <<signal, mode, turn, arming, step, waker, mask, connected>>

\* The USB cable comes or goes.  The sense pin raises no interrupt.
Replug ==
    /\ connected' = ~connected
    /\ UNCHANGED <<signal, mode, turn, arming, step, due, waker, pinVars>>

Next ==
    \/ MainLoop
    \/ \E q \in Queues : UsartRx(q)
    \/ \E c \in Timers : Tick(c)
    \/ \E p \in Pins : PinInterrupt(p) \/ Fall(p)
    \/ Replug

\* The CPU runs; a pending interrupt is served; ticks come for ever, and one
\* of them is the one a delay waits for.
Fairness ==
    /\ WF_vars(MainLoop)
    /\ \A p \in Pins : WF_vars(PinInterrupt(p))
    /\ \A c \in Timers : WF_vars(Tick(c)) /\ WF_vars(Tick(c) /\ due'[c])

Spec == Init /\ [][Next]_vars

FairSpec == Spec /\ Fairness

-----------------------------------------------------------------------------
(* Properties.                                                             *)

\* Every variable keeps its type: Join stays at one of its tasks, and every task
\* at one of its awaits.
TypeOK ==
    /\ signal \in BOOLEAN
    /\ mode \in {"top", "poll", "sleep", "asleep"}
    /\ turn \in Task
    /\ arming \in BOOLEAN
    /\ step \in [Task -> Nat]
    /\ \A t \in Task : step[t] \in 1..Len(Script[t])
    /\ due \in [Source -> BOOLEAN]
    /\ waker \in [Source -> BOOLEAN]
    /\ flag \in [Pins -> BOOLEAN]
    /\ mask \in [Pins -> BOOLEAN]
    /\ connected \in BOOLEAN
    /\ missed \in [Pins -> BOOLEAN]

\* The executor is still going to poll the task.
ToBePolled(t) == signal \/ (mode = "poll" /\ turn <= t)

\* No lost wake-up on a queue: a task that waits for bytes and is not going
\* to be polled waits on an empty queue, with its waker where USART1_RX will
\* find it.
QueueArmed ==
    \A t \in Task : Awaited(t) \in Queues =>
        \/ ToBePolled(t)
        \/ waker[Awaited(t)] /\ ~due[Awaited(t)]

\* A task that waits for the FT240X and is not going to be polled has its
\* waker and its interrupt in place, whichever wake-ups came in between.
PinArmed ==
    \A t \in Task : Awaited(t) \in Pins =>
        \/ ToBePolled(t)
        \/ waker[Awaited(t)] /\ mask[Awaited(t)]

\* The one way to be left waiting on a line that is already low, with no
\* interrupt pending, is an edge between the check of that line and the
\* clearing of its flag.
MissedOnlyWhileArming ==
    \A t \in Task : Awaited(t) \in Pins /\ due[Awaited(t)] =>
        \/ ToBePolled(t)
        \/ flag[Awaited(t)] /\ mask[Awaited(t)]
        \/ missed[Awaited(t)]

\* Every poll of the tasks comes to an end.  Continuous USB input, or no USB
\* host at all, keeps the first task running and breaks this.
RoundsEnd == []<>(mode # "poll")

\* A wake-up leads to a round of polls, which begins with the first task, also
\* when it comes between the end of a round and the sleep instruction: the tick
\* ends the sleep.
WokenIsPolled == RoundsEnd => (signal ~> Polling(1))

\* Bytes from the UART reach the task that waits for them.
BytesAreServed ==
    RoundsEnd =>
        \A t \in Task, q \in Queues :
            (Awaited(t) = q /\ due[q]) ~> (Polling(t) /\ due[q])

\* The remark at Ft240xCanRead::poll: checking and registering free of
\* interrupts keeps the task from never being woken again.
EdgeIsServed ==
    RoundsEnd =>
        \A t \in Task, p \in Pins :
            (Awaited(t) = p /\ due[p]) ~> (Polling(t) \/ ~connected)

\* The remark in Join::poll: the second task runs without being blocked by
\* the first.
EveryTaskRuns == \A t \in Task : signal ~> Polling(t)
=============================================================================

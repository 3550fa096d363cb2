--------------------------- MODULE ExecutorProofs ---------------------------
(***************************************************************************)
(* For any number of tasks, any scripts and any sets of futures: no wake-  *)
(* up on a queue is lost, the tasks that wait for a pin are armed, and     *)
(* only an edge between check and arming can leave one waiting for ever.   *)
(***************************************************************************)
EXTENDS Executor, SequenceTheorems, TLAPS

\* While the polled task is between check and registration, its future is a
\* pin or a timer, and the pin was high when it was looked at.
ArmingChecked ==
    arming =>
        /\ mode = "poll"
        /\ Awaited(turn) \in Pins \cup Timers
        /\ Awaited(turn) \in Pins => ~due[Awaited(turn)] \/ missed[Awaited(turn)]

Inv ==
    /\ TypeOK
    /\ ArmingChecked
    /\ QueueArmed
    /\ PinArmed
    /\ MissedOnlyWhileArming

\* Every task awaits a future, also after its script moved on or started over.
LEMMA AwaitedFacts ==
    ASSUME TypeOK, NEW t \in Task
    PROVE  /\ Awaited(t) \in Future
           /\ Following(t) \in 1..Len(Script[t])
           /\ Following(t) \in Nat
<1>1. /\ Script[t] \in Seq(Future)
      /\ step[t] \in 1..Len(Script[t])
      /\ LoopAt[t] \in 1..Len(Script[t])
      /\ Len(Script[t]) \in Nat
  BY ExecutorAssumption, LenProperties DEF TypeOK
<1>2. Awaited(t) \in Future
  BY <1>1, ElementOfSeq DEF Awaited
<1>3. QED
  BY <1>1, <1>2 DEF Following

LEMMA InitFacts ==
    ASSUME Init
    PROVE  Inv
<1>0. /\ 1 \in Task
      /\ \A t \in Task : 1 \in 1..Len(Script[t])
  <2>1. \A t \in Task : Len(Script[t]) \in Nat /\ LoopAt[t] \in 1..Len(Script[t])
    BY ExecutorAssumption, LenProperties
  <2>2. N \in Nat \ {0}
    BY ExecutorAssumption
  <2>3. 1 \in Task
    BY <2>2 DEF Task
  <2>4. \A t \in Task : 1 \in 1..Len(Script[t])
    BY <2>1
  <2>5. QED
    BY <2>3, <2>4
<1>1. TypeOK
  BY <1>0 DEF Init, TypeOK
<1>2. arming = FALSE /\ \A t \in Task : ToBePolled(t)
  BY DEF Init, ToBePolled
<1>3. QED
  BY <1>1, <1>2
     DEF Inv, ArmingChecked, QueueArmed, PinArmed, MissedOnlyWhileArming

\* Yielding ends the task's poll and nobody else's.
LEMMA YieldFacts ==
    ASSUME TypeOK, NEW t \in Task, Polling(t), Yield, signal' = signal
    PROVE  /\ mode' \in {"poll", "sleep"}
           /\ turn' \in Task
           /\ \A u \in Task : u # t /\ ToBePolled(u) => ToBePolled(u)'
<1>1. /\ N \in Nat \ {0} /\ t \in 1..N /\ turn = t /\ mode = "poll"
  BY ExecutorAssumption DEF Task, Polling
<1>2. CASE turn = N
  BY <1>1, <1>2 DEF Yield, Task, ToBePolled
<1>3. CASE turn # N
  BY <1>1, <1>3 DEF Yield, Task, ToBePolled
<1>4. QED
  BY <1>2, <1>3

LEMMA StepFacts ==
    ASSUME Inv, [Next]_vars
    PROVE  Inv'
<1> USE ExecutorAssumption DEF Inv
<1>1. CASE Swap
  <2>0. 1 \in Task
    BY DEF Task
  <2>1. TypeOK'
    BY <1>1, <2>0 DEF Swap, TypeOK, pinVars
  <2>2. \A t \in Task : ToBePolled(t)'
    BY <1>1 DEF Swap, ToBePolled, Task
  <2>3. arming' = FALSE
    BY <1>1 DEF Swap, ArmingChecked, TypeOK
  <2>4. ArmingChecked'
    BY <2>3 DEF ArmingChecked
  <2>5. QueueArmed' /\ PinArmed' /\ MissedOnlyWhileArming'
    BY <2>2 DEF QueueArmed, PinArmed, MissedOnlyWhileArming
  <2>6. QED
    BY <2>1, <2>4, <2>5
<1>2. ASSUME NEW t \in Task, PollReady(t)
      PROVE  Inv'
  <2> DEFINE f == Awaited(t)
  <2>1. /\ f \in Future
        /\ Following(t) \in 1..Len(Script[t])
        /\ Following(t) \in Nat
    BY AwaitedFacts
  <2>2. /\ turn = t /\ turn' = t /\ mode = "poll" /\ mode' = "poll"
        /\ arming' = FALSE /\ signal' = signal /\ waker' = waker
        /\ mask' = mask /\ connected' = connected
        /\ step' \in {step, [step EXCEPT ![t] = Following(t)]}
        /\ Consume(f)
    BY <1>2 DEF PollReady, Polling, TypeOK
  <2>3. /\ due' \in [Source -> BOOLEAN]
        /\ \A s \in Source : due'[s] => due[s]
    BY <2>1, <2>2 DEF Consume, TypeOK, Source, Future
  <2>4. /\ flag' \in [Pins -> BOOLEAN]
        /\ missed' \in [Pins -> BOOLEAN]
        /\ \A p \in Pins : flag[p] => flag'[p]
        /\ \A p \in Pins : missed[p] /\ due'[p] => missed'[p]
    <3>1. CASE f \in Pins
      <4>1. f \notin Instants
        BY <3>1
      <4>2. PICK bounced \in BOOLEAN : flag' = [flag EXCEPT ![f] = @ \/ bounced]
        BY <2>2, <3>1, <4>1 DEF Consume
      <4>3. missed' = [missed EXCEPT ![f] = @ /\ due'[f]]
        BY <2>2, <3>1, <4>1 DEF Consume
      <4>4. flag \in [Pins -> BOOLEAN] /\ missed \in [Pins -> BOOLEAN]
            /\ due'[f] \in BOOLEAN
        BY <2>3, <3>1 DEF TypeOK, Source
      <4>5. QED
        BY <4>2, <4>3, <4>4, <3>1
    <3>2. CASE f \notin Pins
      BY <2>2, <3>2 DEF Consume, TypeOK
    <3>3. QED
      BY <3>1, <3>2
  <2>5. step' \in [Task -> Nat] /\ \A u \in Task : step'[u] \in 1..Len(Script[u])
    BY <2>1, <2>2 DEF TypeOK
  <2>6. TypeOK'
    BY <2>2, <2>3, <2>4, <2>5 DEF TypeOK
  <2>7. ToBePolled(t)'
    BY <2>2 DEF ToBePolled, Task
  <2>8. \A u \in Task : u # t => /\ Awaited(u)' = Awaited(u)
                                 /\ ToBePolled(u)' <=> ToBePolled(u)
    BY <2>2 DEF Awaited, ToBePolled, TypeOK
  <2>9. QED
    BY <2>2, <2>3, <2>4, <2>6, <2>7, <2>8
       DEF ArmingChecked, QueueArmed, PinArmed, MissedOnlyWhileArming, Source
<1>3. ASSUME NEW t \in Task, PollPending(t)
      PROVE  Inv'
  <2>1. /\ turn = t /\ mode = "poll" /\ Awaited(t) \in Queues /\ ~due[Awaited(t)]
        /\ waker' = [waker EXCEPT ![Awaited(t)] = TRUE]
        /\ Yield
        /\ signal' = signal /\ step' = step /\ due' = due /\ flag' = flag
        /\ mask' = mask /\ missed' = missed /\ connected' = connected
        /\ arming' = arming
    BY <1>3 DEF PollPending, Polling, pinVars, Ready
  <2>2. arming = FALSE
    BY <2>1 DEF ArmingChecked, TypeOK
  <2>3. /\ mode' \in {"poll", "sleep"} /\ turn' \in Task
        /\ \A u \in Task : u # t /\ ToBePolled(u) => ToBePolled(u)'
    BY <1>3, <2>1, YieldFacts DEF PollPending
  <2>4. TypeOK'
    BY <2>1, <2>3 DEF TypeOK, Source
  <2>5. \A u \in Task : Awaited(u)' = Awaited(u)
    BY <2>1 DEF Awaited
  <2>6. waker'[Awaited(t)] /\ \A s \in Source : waker[s] => waker'[s]
    BY <2>1 DEF TypeOK, Source
  <2>7. QED
    BY <2>1, <2>2, <2>3, <2>4, <2>5, <2>6
       DEF ArmingChecked, QueueArmed, PinArmed, MissedOnlyWhileArming, Source
<1>4. ASSUME NEW t \in Task, PollCheck(t)
      PROVE  Inv'
  <2>1. /\ turn = t /\ mode = "poll" /\ Awaited(t) \in Pins \cup Timers
        /\ Awaited(t) \in Pins => ~due[Awaited(t)]
        /\ arming' = TRUE
        /\ UNCHANGED <<signal, mode, turn, step, due, waker, flag, mask,
                       missed, connected>>
    BY <1>4 DEF PollCheck, Polling, pinVars, Ready
  <2>2. TypeOK'
    BY <2>1 DEF TypeOK
  <2>3. \A u \in Task : Awaited(u)' = Awaited(u) /\ (ToBePolled(u)' <=> ToBePolled(u))
    BY <2>1 DEF Awaited, ToBePolled
  <2>4. QED
    BY <2>1, <2>2, <2>3
       DEF ArmingChecked, QueueArmed, PinArmed, MissedOnlyWhileArming
<1>5. ASSUME NEW t \in Task, PollArm(t)
      PROVE  Inv'
  <2> DEFINE f == Awaited(t)
  <2>1. /\ turn = t /\ mode = "poll" /\ arming /\ arming' = FALSE
        /\ waker' = [waker EXCEPT ![f] = TRUE]
        /\ Yield
        /\ UNCHANGED <<signal, step, due, connected>>
    BY <1>5 DEF PollArm, Polling
  <2>2. f \in Pins \cup Timers /\ (f \in Pins => ~due[f] \/ missed[f])
    BY <2>1 DEF ArmingChecked
  <2>3. /\ mode' \in {"poll", "sleep"} /\ turn' \in Task
        /\ \A u \in Task : u # t /\ ToBePolled(u) => ToBePolled(u)'
    BY <1>5, <2>1, YieldFacts DEF PollArm
  <2>4. /\ missed' = missed
        /\ flag' \in [Pins -> BOOLEAN]
        /\ mask' \in [Pins -> BOOLEAN]
        /\ \A p \in Pins : mask[p] => mask'[p]
        /\ f \in Pins => mask'[f]
        /\ \A p \in Pins : p # f => flag'[p] = flag[p]
    <3>1. CASE f \in Pins
      BY <1>5, <3>1 DEF PollArm, IntEnable, TypeOK
    <3>2. CASE f \notin Pins
      BY <1>5, <3>2 DEF PollArm, pinVars, TypeOK
    <3>3. QED
      BY <3>1, <3>2
  <2>5. TypeOK'
    BY <2>1, <2>2, <2>3, <2>4 DEF TypeOK, Source
  <2>6. \A u \in Task : Awaited(u)' = Awaited(u)
    BY <2>1 DEF Awaited
  <2>7. waker'[f] /\ \A s \in Source : waker[s] => waker'[s]
    BY <2>1, <2>2 DEF TypeOK, Source
  <2>8. QED
    BY <2>1, <2>2, <2>3, <2>4, <2>5, <2>6, <2>7
       DEF ArmingChecked, QueueArmed, PinArmed, MissedOnlyWhileArming, Source
<1>6. CASE Sleep
  <2>1. /\ mode = "sleep" /\ mode' \in {"asleep", "top"}
        /\ UNCHANGED <<signal, turn, arming, step, due, waker, flag, mask,
                       missed, connected>>
    BY <1>6 DEF Sleep, pinVars
  <2>2. \A u \in Task : Awaited(u)' = Awaited(u) /\ (ToBePolled(u)' <=> ToBePolled(u))
    BY <2>1 DEF Awaited, ToBePolled
  <2>3. QED
    BY <2>1, <2>2
       DEF TypeOK, ArmingChecked, QueueArmed, PinArmed, MissedOnlyWhileArming
<1>7. ASSUME NEW q \in Queues, UsartRx(q)
      PROVE  Inv'
  <2>1. /\ due' = [due EXCEPT ![q] = TRUE]
        /\ waker' = [waker EXCEPT ![q] = FALSE]
        /\ signal' = (signal \/ waker[q])
        /\ mode' = IF mode = "asleep" THEN "top" ELSE mode
        /\ UNCHANGED <<turn, arming, step, flag, mask, missed, connected>>
    BY <1>7 DEF UsartRx, Wake, pinVars
  <2>2. TypeOK'
    BY <2>1 DEF TypeOK, Source
  <2>3. \A u \in Task : Awaited(u)' = Awaited(u) /\ (ToBePolled(u) => ToBePolled(u)')
    BY <2>1 DEF Awaited, ToBePolled
  <2>4. waker[q] => \A u \in Task : ToBePolled(u)'
    BY <2>1 DEF ToBePolled
  <2>5. \A s \in Source : s # q => waker'[s] = waker[s] /\ due'[s] = due[s]
    BY <2>1 DEF TypeOK
  <2>6. q \notin Pins \cup Timers
    OBVIOUS
  <2>7. QED
    BY <2>1, <2>2, <2>3, <2>4, <2>5, <2>6
       DEF ArmingChecked, QueueArmed, PinArmed, MissedOnlyWhileArming, Source, TypeOK
<1>8. ASSUME NEW c \in Timers, Tick(c)
      PROVE  Inv'
  <2>1. /\ due' \in [Source -> BOOLEAN]
        /\ \A s \in Source : s # c => due'[s] = due[s]
        /\ waker' = [waker EXCEPT ![c] = FALSE]
        /\ signal' = (signal \/ waker[c])
        /\ mode' = IF mode = "asleep" THEN "top" ELSE mode
        /\ UNCHANGED <<turn, arming, step, flag, mask, missed, connected>>
    BY <1>8 DEF Tick, Wake, pinVars, TypeOK, Source
  <2>2. TypeOK'
    BY <2>1 DEF TypeOK, Source
  <2>3. \A u \in Task : Awaited(u)' = Awaited(u) /\ (ToBePolled(u) => ToBePolled(u)')
    BY <2>1 DEF Awaited, ToBePolled
  <2>4. \A s \in Source : s # c => waker'[s] = waker[s]
    BY <2>1 DEF TypeOK
  <2>5. c \notin Pins \cup Queues
    OBVIOUS
  <2>6. QED
    BY <2>1, <2>2, <2>3, <2>4, <2>5
       DEF ArmingChecked, QueueArmed, PinArmed, MissedOnlyWhileArming, Source, TypeOK
<1>9. ASSUME NEW p \in Pins, PinInterrupt(p)
      PROVE  Inv'
  <2>1. /\ flag' = [flag EXCEPT ![p] = FALSE]
        /\ mask' = [mask EXCEPT ![p] = FALSE]
        /\ waker' = [waker EXCEPT ![p] = FALSE]
        /\ signal' = (signal \/ waker[p])
        /\ mode' = IF mode = "asleep" THEN "top" ELSE mode
        /\ UNCHANGED <<turn, arming, step, due, missed, connected>>
    BY <1>9 DEF PinInterrupt, Wake
  <2>2. TypeOK'
    BY <2>1 DEF TypeOK, Source
  <2>3. \A u \in Task : Awaited(u)' = Awaited(u) /\ (ToBePolled(u) => ToBePolled(u)')
    BY <2>1 DEF Awaited, ToBePolled
  <2>4. waker[p] => \A u \in Task : ToBePolled(u)'
    BY <2>1 DEF ToBePolled
  <2>5. /\ \A s \in Source : s # p => waker'[s] = waker[s]
        /\ \A r \in Pins : r # p => flag'[r] = flag[r] /\ mask'[r] = mask[r]
    BY <2>1 DEF TypeOK
  <2>6. \A u \in Task : Awaited(u) = p => ToBePolled(u)'
    BY <2>3, <2>4 DEF PinArmed
  <2>7. QED
    BY <2>1, <2>2, <2>3, <2>5, <2>6
       DEF ArmingChecked, QueueArmed, PinArmed, MissedOnlyWhileArming, Source, TypeOK
<1>10. ASSUME NEW p \in Pins, Fall(p)
       PROVE  Inv'
  <2>1. /\ due' = [due EXCEPT ![p] = TRUE]
        /\ flag' = [flag EXCEPT ![p] = TRUE]
        /\ missed' = [missed EXCEPT
              ![p] = @ \/ (mode = "poll" /\ arming /\ Awaited(turn) = p)]
        /\ UNCHANGED <<signal, mode, turn, arming, step, waker, mask, connected>>
    BY <1>10 DEF Fall
  <2>2. TypeOK'
    BY <2>1 DEF TypeOK, Source
  <2>3. \A u \in Task : Awaited(u)' = Awaited(u) /\ (ToBePolled(u)' <=> ToBePolled(u))
    BY <2>1 DEF Awaited, ToBePolled
  <2>4. /\ \A s \in Source : s # p => due'[s] = due[s]
        /\ \A r \in Pins : /\ flag[r] => flag'[r]
                           /\ missed[r] => missed'[r]
        /\ flag'[p]
    BY <2>1 DEF TypeOK
  <2>5. ArmingChecked'
    <3>1. SUFFICES ASSUME arming
                   PROVE  /\ mode = "poll"
                          /\ Awaited(turn) \in Pins \cup Timers
                          /\ Awaited(turn) \in Pins =>
                                ~due'[Awaited(turn)] \/ missed'[Awaited(turn)]
      BY <2>1, <2>3 DEF ArmingChecked, Awaited
    <3>2. CASE Awaited(turn) = p
      BY <2>1, <3>1, <3>2 DEF ArmingChecked, TypeOK
    <3>3. CASE Awaited(turn) # p
      BY <2>4, <3>1, <3>3 DEF ArmingChecked, Source
    <3>4. QED
      BY <3>2, <3>3
  <2>6. QED
    BY <2>1, <2>2, <2>3, <2>4, <2>5
       DEF QueueArmed, PinArmed, MissedOnlyWhileArming, Source
<1>11. CASE Replug
  BY <1>11 DEF Replug, pinVars, TypeOK, ArmingChecked, QueueArmed, PinArmed,
               MissedOnlyWhileArming, ToBePolled, Awaited
<1>12. CASE UNCHANGED vars
  BY <1>12 DEF vars, TypeOK, ArmingChecked, QueueArmed, PinArmed,
               MissedOnlyWhileArming, ToBePolled, Awaited
<1>13. QED
  BY <1>1, <1>2, <1>3, <1>4, <1>5, <1>6, <1>7, <1>8, <1>9, <1>10, <1>11, <1>12
     DEF Next, MainLoop

LEMMA Invariance == Spec => []Inv
<1>1. Init => Inv
  BY InitFacts
<1>2. Inv /\ [Next]_vars => Inv'
  BY StepFacts
<1>3. QED
  BY <1>1, <1>2, PTL DEF Spec

\* Type correctness, for any tasks and futures.
THEOREM ExecutorTyped == Spec => []TypeOK
BY Invariance, PTL DEF Inv

\* A task waiting for bytes of the UART is about to be polled, or its queue is
\* empty and its waker is in place.
THEOREM NoLostWakeup == Spec => []QueueArmed
BY Invariance, PTL DEF Inv

\* A task waiting for the FT240X is about to be polled, or armed.
THEOREM PinsArmed == Spec => []PinArmed
BY Invariance, PTL DEF Inv

\* If the line a task waits for is low and no interrupt is pending, the edge
\* fell in the arming window of Ft240xCanRead::poll or Ft240xCanWrite::poll.
THEOREM OnlyArmingMisses == Spec => []MissedOnlyWhileArming
BY Invariance, PTL DEF Inv
=============================================================================

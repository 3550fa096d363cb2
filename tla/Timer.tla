-------------------------------- MODULE Timer --------------------------------
(***************************************************************************)
(* The delay of src/src/timer.rs: a tick counter that wraps, a target tick *)
(* taken once, and a poll that compares them with a wrapping subtraction.  *)
(* The poll reads the counter in one critical section and registers the    *)
(* waker in another, so ticks may come in between.  The tick interrupt     *)
(* adds with +, which is modelled as in a build without overflow checks,   *)
(* the release profile, where it wraps.  A build with them panics there.   *)
(***************************************************************************)
EXTENDS Naturals

CONSTANTS
    Half,       \* 2^15: half the range of the u16 counter
    MaxDelay,   \* the longest delay asked for
    MaxLate     \* ticks that may pass beyond a delay while its poll is under
                \* way or called for

ASSUME TimerAssumption ==
    /\ Half \in Nat
    /\ MaxDelay \in 0..Half
    /\ MaxLate \in Nat
    /\ MaxLate + 2 <= Half

Modulus == 2 * Half

VARIABLES
    tick,      \* TICK_COUNT
    target,    \* target_tick of the future
    state,     \* "idle", "polled", "registering", "waiting" or "done"
    waker,     \* TIMER_WAKER is set
    woken,     \* the executor was signalled
    delay,     \* history: the delay asked for
    elapsed    \* history: ticks since then, up to MostElapsed

vars == <<tick, target, state, waker, woken, delay, elapsed>>

MostElapsed == delay + MaxLate + 1

\* Mutant: an addition that does not wrap.
adding(a, b) == a + b

wrapping_add(a, b) == IF a + b >= Modulus THEN a + b - Modulus ELSE a + b

\* Mutant: a subtraction that stops at zero.
saturating_sub(a, b) == IF a >= b THEN a - b ELSE 0

wrapping_sub(a, b) == IF a >= b THEN a - b ELSE a + Modulus - b

Init ==
    /\ tick \in 0..(Modulus - 1)
    /\ target = 0
    /\ state = "idle"
    /\ waker = FALSE
    /\ woken = FALSE
    /\ delay = 0
    /\ elapsed = 0

-----------------------------------------------------------------------------

\* Timer::delay, and the first poll of the future.
Delay(d) ==
    /\ state \in {"idle", "done"}
    /\ target' = wrapping_add(tick, d)
    /\ state' = "polled"
    /\ delay' = d
    /\ elapsed' = 0
    /\ UNCHANGED <<tick, waker, woken>>

expired == wrapping_sub(tick, target) < Half

Check ==
    /\ state = "polled"
    /\ state' = IF expired THEN "done" ELSE "registering"
    /\ UNCHANGED <<tick, target, waker, woken, delay, elapsed>>

\* Mutant: the future is pending without a waker.
RegisterNothing ==
    /\ state = "registering"
    /\ state' = "waiting"
    /\ UNCHANGED <<tick, target, waker, woken, delay, elapsed>>

Register ==
    /\ state = "registering"
    /\ waker' = TRUE
    /\ state' = "waiting"
    /\ UNCHANGED <<tick, target, woken, delay, elapsed>>

\* The executor polls again, signalled for this future or for another.
Repoll ==
    /\ state = "waiting"
    /\ state' = "polled"
    /\ woken' = FALSE
    /\ UNCHANGED <<tick, target, waker, delay, elapsed>>

\* The future is being polled, or the executor was signalled to poll it.
UnderWay == state \in {"polled", "registering"} \/ (state = "waiting" /\ woken)

\* The tick interrupt.
TIMER1_COMPA ==
    /\ UnderWay => elapsed < delay + MaxLate
    /\ tick' = wrapping_add(tick, 1)
    /\ elapsed' = IF elapsed < MostElapsed THEN elapsed + 1 ELSE elapsed
    /\ waker' = FALSE
    /\ woken' = (woken \/ waker)
    /\ UNCHANGED <<target, state, delay>>

Next ==
    \/ \E d \in 0..MaxDelay : Delay(d)
    \/ Check
    \/ Register
    \/ Repoll
    \/ TIMER1_COMPA

\* Ticks come; the executor runs, and polls again when it was signalled.
Fairness ==
    /\ WF_vars(TIMER1_COMPA)
    /\ WF_vars(Check)
    /\ WF_vars(Register)
    /\ WF_vars(Repoll /\ woken)

Spec == Init /\ [][Next]_vars

FairSpec == Spec /\ Fairness

-----------------------------------------------------------------------------
(* Properties.                                                             *)

\* The counter and the target stay u16, and the history stays bounded: no
\* delay is left behind by more than MaxLate ticks and the one that wakes it.
TypeOK ==
    /\ tick \in 0..(Modulus - 1)
    /\ target \in 0..(Modulus - 1)
    /\ state \in {"idle", "polled", "registering", "waiting", "done"}
    /\ waker \in BOOLEAN
    /\ woken \in BOOLEAN
    /\ delay \in 0..MaxDelay
    /\ elapsed \in 0..MostElapsed

\* A check finds the delay expired exactly when as many ticks have come as were
\* asked for, wherever the counter stood and however often it wrapped.
ExpiryExact == [][Check => (state' = "done" <=> elapsed >= delay)]_vars

\* A pending delay is signalled or has its waker registered: the next tick
\* makes the executor look at the counter again.
DelayArmed == state = "waiting" => woken \/ waker

\* A delay ends, also when its last tick comes between check and registration.
DelayEnds == (state = "polled") ~> (state = "done")
=============================================================================

----------------------------- MODULE TimerProofs -----------------------------
(* Proofs about Timer, for every width of the counter.                     *)
EXTENDS Timer, TLAPS

Pending == state \in {"polled", "registering", "waiting"}

\* How the counter and the target measure the ticks since the delay began.
TickLaw ==
    Pending => \/ tick + delay = target + elapsed
               \/ tick + delay + Modulus = target + elapsed
               \/ tick + delay = target + elapsed + Modulus

\* A tick that comes while no poll is under way is the one that calls for it.
Lateness ==
    state = "registering" \/ (state = "waiting" /\ ~woken) =>
        elapsed <= delay + MaxLate

IInv == TypeOK /\ DelayArmed /\ TickLaw /\ Lateness

-----------------------------------------------------------------------------

\* The range of the counter.
LEMMA Range == /\ Modulus \in Nat
               /\ Modulus = Half + Half
               /\ MaxDelay <= Half
               /\ MaxDelay \in Nat
               /\ Half >= 2
BY TimerAssumption DEF Modulus

\* The wrapping operations stay in the counter's range and are exact up to one
\* modulus.
LEMMA Wrapping ==
    ASSUME NEW a \in 0..(Modulus - 1), NEW b \in 0..(Modulus - 1)
    PROVE  /\ wrapping_add(a, b) \in 0..(Modulus - 1)
           /\ wrapping_add(a, b) = a + b \/ wrapping_add(a, b) + Modulus = a + b
           /\ wrapping_sub(a, b) \in 0..(Modulus - 1)
           /\ wrapping_sub(a, b) + b = a \/ wrapping_sub(a, b) + b = a + Modulus
BY TimerAssumption DEF Modulus, wrapping_add, wrapping_sub

\* The comparison of Timer::poll, at any point the counters may be in.
LEMMA Expiry ==
    ASSUME TypeOK, TickLaw, Pending
    PROVE  expired <=> elapsed >= delay
<1> DEFINE gone == wrapping_sub(tick, target)
<1>1. /\ gone \in 0..(Modulus - 1)
      /\ gone + target = tick \/ gone + target = tick + Modulus
  BY Wrapping DEF TypeOK
<1>2. /\ elapsed \in Nat
      /\ delay \in 0..MaxDelay
      /\ elapsed <= delay + MaxLate + 1
      /\ tick \in 0..(Modulus - 1)
      /\ target \in 0..(Modulus - 1)
  BY TimerAssumption DEF TypeOK, MostElapsed
<1>3. (gone < Half) <=> elapsed >= delay
  <2> HIDE DEF gone
  <2> QED  BY <1>1, <1>2, TimerAssumption DEF TickLaw, Modulus
<1> QED  BY <1>3 DEF expired

LEMMA InitInv == Init => IInv
<1> SUFFICES ASSUME Init
             PROVE  IInv
  OBVIOUS
<1>1. TypeOK
  <2>1. /\ tick \in 0..(Modulus - 1)
        /\ target \in 0..(Modulus - 1)
        /\ delay \in 0..MaxDelay
        /\ elapsed \in 0..MostElapsed
    BY Range, TimerAssumption DEF Init, MostElapsed
  <2> QED  BY <2>1 DEF Init, TypeOK
<1>2. DelayArmed /\ TickLaw /\ Lateness
  BY DEF Init, DelayArmed, TickLaw, Lateness, Pending
<1> QED  BY <1>1, <1>2 DEF IInv

\* Every step keeps the invariant.
LEMMA StepInv == IInv /\ [Next]_vars => IInv'
<1> SUFFICES ASSUME IInv, [Next]_vars
             PROVE  IInv'
  OBVIOUS
<1> USE TimerAssumption
<1>1. ASSUME NEW d \in 0..MaxDelay, Delay(d)
      PROVE  IInv'
  <2>1. /\ wrapping_add(tick, d) \in 0..(Modulus - 1)
        /\ \/ wrapping_add(tick, d) = tick + d
           \/ wrapping_add(tick, d) + Modulus = tick + d
    <3>1. d \in 0..(Modulus - 1) /\ tick \in 0..(Modulus - 1)
      BY DEF IInv, TypeOK, Modulus
    <3> QED  BY <3>1, Wrapping
  <2>2. /\ state' = "polled"
        /\ target' \in 0..(Modulus - 1)
        /\ target' = tick + d \/ target' + Modulus = tick + d
        /\ tick' = tick /\ delay' = d /\ elapsed' = 0
        /\ waker' = waker /\ woken' = woken
    BY <1>1, <2>1 DEF Delay
  <2>3. TypeOK'
    BY <2>2 DEF IInv, TypeOK, MostElapsed
  <2>4. TickLaw'
    <3>1. /\ tick' \in Nat /\ target' \in Nat /\ delay' \in Nat
          /\ elapsed' \in Nat /\ elapsed' = 0
      BY <2>2, Range DEF IInv, TypeOK
    <3>2. \/ tick' + delay' = target'
          \/ tick' + delay' = target' + Modulus
      BY <2>2
    <3>3. target' + elapsed' = target'
      <4>1. \A n \in Nat : n + 0 = n  OBVIOUS
      <4> QED  BY <3>1, <4>1, Zenon
    <3> QED  BY <3>2, <3>3 DEF TickLaw
  <2> QED  BY <2>2, <2>3, <2>4 DEF IInv, DelayArmed, Lateness
<1>2. CASE Check
  <2>1. expired <=> elapsed >= delay
    BY <1>2, Expiry DEF Check, IInv, Pending
  <2>2. TypeOK' /\ DelayArmed'
    BY <1>2 DEF Check, IInv, TypeOK, DelayArmed, MostElapsed
  <2>3. TickLaw'
    BY <1>2 DEF Check, IInv, TickLaw, Pending, Modulus
  <2>4. Lateness'
    BY <1>2, <2>1 DEF Check, IInv, TypeOK, Lateness, MostElapsed
  <2> QED  BY <2>2, <2>3, <2>4 DEF IInv
<1>3. CASE Register
  BY <1>3 DEF Register, IInv, TypeOK, DelayArmed, TickLaw, Lateness, Pending,
              Modulus, MostElapsed
<1>4. CASE Repoll
  BY <1>4 DEF Repoll, IInv, TypeOK, DelayArmed, TickLaw, Lateness, Pending,
              Modulus, MostElapsed
<1>5. CASE TIMER1_COMPA
  <2>1. /\ UnderWay => elapsed < delay + MaxLate
        /\ tick' = wrapping_add(tick, 1)
        /\ elapsed' = IF elapsed < MostElapsed THEN elapsed + 1 ELSE elapsed
        /\ waker' = FALSE
        /\ woken' = (woken \/ waker)
        /\ UNCHANGED <<target, state, delay>>
    BY <1>5 DEF TIMER1_COMPA
  <2>2. /\ wrapping_add(tick, 1) \in 0..(Modulus - 1)
        /\ \/ wrapping_add(tick, 1) = tick + 1
           \/ wrapping_add(tick, 1) + Modulus = tick + 1
    <3>1. 1 \in 0..(Modulus - 1) /\ tick \in 0..(Modulus - 1)
      BY DEF IInv, TypeOK, Modulus
    <3> QED  BY <3>1, Wrapping
  <2>3. Pending => elapsed < MostElapsed
    BY <2>1 DEF UnderWay, IInv, TypeOK, Lateness, Pending,
                MostElapsed
  <2>4. TypeOK'
    <3>1. tick' \in 0..(Modulus - 1) /\ target' \in 0..(Modulus - 1)
      BY <2>1, <2>2 DEF IInv, TypeOK
    <3>2. elapsed' \in 0..MostElapsed /\ MostElapsed' = MostElapsed
      BY <2>1, Range DEF IInv, TypeOK, MostElapsed
    <3> QED  BY <2>1, <3>1, <3>2 DEF IInv, TypeOK
  <2>5. DelayArmed'
    BY <2>1 DEF IInv, DelayArmed
  <2>6. TickLaw'
    <3>1. /\ Pending' <=> Pending
          /\ Pending => elapsed' = elapsed + 1
          /\ tick' = wrapping_add(tick, 1)
          /\ target' = target /\ delay' = delay
      BY <2>1, <2>3 DEF Pending
    <3>2. /\ tick \in Nat /\ target \in Nat /\ delay \in Nat /\ elapsed \in Nat
          /\ tick' \in Nat
      BY <2>2, <3>1, Range DEF IInv, TypeOK, MostElapsed
    <3>3. tick' = tick + 1 \/ tick' + Modulus = tick + 1
      BY <2>2, <3>1
    <3>4. SUFFICES ASSUME Pending
                   PROVE  \/ tick' + delay = target + (elapsed + 1)
                          \/ tick' + delay + Modulus = target + (elapsed + 1)
                          \/ tick' + delay = target + (elapsed + 1) + Modulus
      BY <3>1 DEF TickLaw
    <3>5. CASE tick' = tick + 1
      BY <3>2, <3>4, <3>5, Range DEF IInv, TickLaw
    <3>6. CASE tick' + Modulus = tick + 1
      <4>1. tick' = 0 /\ tick + 1 = Modulus
        BY <2>2, <3>1, <3>2, <3>6, Range DEF IInv, TypeOK
      <4>2. /\ delay <= Half
            /\ elapsed <= delay + Half
        BY <3>4, Range, TimerAssumption DEF IInv, TypeOK, MostElapsed
      <4> QED  BY <3>2, <3>4, <4>1, <4>2, Range DEF IInv, TypeOK, TickLaw
    <3> QED  BY <3>3, <3>5, <3>6
  <2>7. Lateness'
    BY <2>1, <2>3 DEF UnderWay, IInv, TypeOK, DelayArmed, Lateness,
                      MostElapsed
  <2> QED  BY <2>4, <2>5, <2>6, <2>7 DEF IInv
<1>6. CASE UNCHANGED vars
  BY <1>6 DEF vars, IInv, TypeOK, DelayArmed, TickLaw, Lateness, Pending,
              Modulus, MostElapsed
<1> QED  BY <1>1, <1>2, <1>3, <1>4, <1>5, <1>6 DEF Next

\* Counter and target stay in the counter's range through every wrap.
THEOREM TimerTyped == Spec => []TypeOK
<1>1. IInv => TypeOK  BY DEF IInv
<1> QED  BY <1>1, InitInv, StepInv, PTL DEF Spec

\* A pending delay always has its wake-up in place.
THEOREM TimerInvariant == Spec => []DelayArmed
<1>1. IInv => DelayArmed  BY DEF IInv
<1> QED  BY <1>1, InitInv, StepInv, PTL DEF Spec

\* Timer::poll is ready exactly when the ticks asked for have come, for every
\* counter width, every start of the counter and every delay up to half its
\* range.
THEOREM TimerExact == Spec => ExpiryExact
<1>1. IInv /\ [Next]_vars => [Check => (state' = "done" <=> elapsed >= delay)]_vars
  <2> SUFFICES ASSUME IInv, Check
               PROVE  state' = "done" <=> elapsed >= delay
    OBVIOUS
  <2>1. expired <=> elapsed >= delay
    BY Expiry DEF Check, IInv, Pending
  <2> QED  BY <2>1 DEF Check
<1> QED  BY <1>1, InitInv, StepInv, PTL DEF Spec, ExpiryExact
=============================================================================
